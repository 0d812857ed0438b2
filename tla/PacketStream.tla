---------------------------- MODULE PacketStream ----------------------------
(***************************************************************************)
(* What the sending side promises to the RTMP server it pushes to: packets *)
(* are accepted only while a stream is open, they are sent one by one in   *)
(* the order they were accepted, and whatever is left when the stream is   *)
(* closed is dropped before the next one opens.                            *)
(***************************************************************************)
EXTENDS Naturals, Sequences

CONSTANT Packet

VARIABLES
  open,      \* does the stream accept packets?
  inflight,  \* accepted packets, oldest first
  sent       \* packets handed to the server, in that order

streamVars == <<open, inflight, sent>>

Init == open = FALSE /\ inflight = << >> /\ sent = << >>

Open ==
  /\ inflight = << >>
  /\ open' = TRUE
  /\ UNCHANGED <<inflight, sent>>

Accept(p) ==
  /\ open
  /\ inflight' = Append(inflight, p)
  /\ UNCHANGED <<open, sent>>

Send ==
  /\ inflight # << >>
  /\ sent' = Append(sent, Head(inflight))
  /\ inflight' = Tail(inflight)
  /\ UNCHANGED open

(* The connection broke under the oldest packet. *)
Lose ==
  /\ inflight # << >>
  /\ inflight' = Tail(inflight)
  /\ UNCHANGED <<open, sent>>

Close == open' = FALSE /\ UNCHANGED <<inflight, sent>>

(* Dropping keeps at most the packet that is being sent. *)
Drop ==
  /\ ~open
  /\ \E n \in 0..1 : n <= Len(inflight) /\ inflight' = SubSeq(inflight, 1, n)
  /\ UNCHANGED <<open, sent>>

Next == Open \/ (\E p \in Packet : Accept(p)) \/ Send \/ Lose \/ Close \/ Drop

Spec == Init /\ [][Next]_streamVars
=============================================================================
