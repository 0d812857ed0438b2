----------------------------- MODULE MCMainCtrl -----------------------------
(***************************************************************************)
(* MainCtrl for model checking.  No operator of MainCtrl tells one         *)
(* registration code from another, so that the keys are interchangeable.   *)
(***************************************************************************)
EXTENDS MainCtrl, TLC

KeySymmetry == Permutations(Keys)
=============================================================================
