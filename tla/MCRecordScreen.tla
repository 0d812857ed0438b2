--------------------------- MODULE MCRecordScreen ---------------------------
(***************************************************************************)
(* RecordScreen for model checking: a recording whose frames have the      *)
(* description of the stream before them and other data between, and one   *)
(* that begins with a frame nothing can be decoded from.                   *)
(***************************************************************************)
EXTENDS RecordScreen

Recordings == {<<"S", "I", "P", "A", "P">>, <<"P", "I", "P">>}
OneRecording == {<<"S", "I", "P", "A", "P">>}

BackAndForth == {-2, 3}
Back == {-2}
=============================================================================
