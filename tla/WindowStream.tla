---------------------------- MODULE WindowStream ----------------------------
(***************************************************************************)
(* What a monitoring window (VideoCtrl with its VideoCapture) is to the    *)
(* code that uses it: play starts a stream, stop ends it and waits for its *)
(* thread, and a stream may also end by itself when the network or the     *)
(* device goes away.  A stream that ended by itself is not cleaned up by   *)
(* stop, and the next play on that window terminates the program.          *)
(***************************************************************************)
EXTENDS Naturals

CONSTANT Windows

VARIABLES
  playing,    \* VideoCtrl::is_playing
  stream,     \* "none", "running", or "ended" by itself and never joined
  terminated  \* std::terminate was called

windowVars == <<playing, stream, terminated>>

Init ==
  /\ playing = [w \in Windows |-> FALSE]
  /\ stream = [w \in Windows |-> "none"]
  /\ terminated = FALSE

play(w) ==
  /\ ~playing[w] /\ stream[w] # "running"
  /\ playing' = [playing EXCEPT ![w] = TRUE]
  /\ stream' = [stream EXCEPT ![w] = "running"]
  /\ terminated' = (stream[w] = "ended")

(* stop returns early when nothing is played. *)
stop(w) ==
  /\ playing' = [playing EXCEPT ![w] = FALSE]
  /\ stream' = [stream EXCEPT ![w] = IF playing[w] /\ @ = "running" THEN "none" ELSE @]
  /\ UNCHANGED terminated

StreamEnds(w) ==
  /\ stream[w] = "running"
  /\ stream' = [stream EXCEPT ![w] = "ended"]
  /\ UNCHANGED <<playing, terminated>>

Next == ~terminated /\ \E w \in Windows : play(w) \/ stop(w) \/ StreamEnds(w)

Spec == Init /\ [][Next]_windowVars
=============================================================================
