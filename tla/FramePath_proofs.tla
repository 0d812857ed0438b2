--------------------------- MODULE FramePath_proofs ---------------------------
(***************************************************************************)
(* The theorems of FramePath, for any number of streams, pictures, queued  *)
(* signals and sizes.                                                      *)
(***************************************************************************)
EXTENDS FramePath, TLAPS

(* A picture that is not being written is whole, and the frame that is      *)
(* being drawn stays mapped, with the picture it had.                       *)
MapInv ==
  /\ \A s \in Streams : mapped[s] # "writer" => buffer[s].whole
  /\ drawing # Nothing =>
       /\ drawing.stream \in Streams
       /\ mapped[drawing.stream] = "reader"
       /\ buffer[drawing.stream].n = drawing.n
  /\ drawn.whole

(* The streams go up from the screen to the surface, through the event      *)
(* loop, to the stream that is written.                                     *)
OrderInv ==
  /\ \A k \in DOMAIN pending :
       /\ presented <= pending[k] /\ drawing.stream <= pending[k] /\ drawn.stream <= pending[k]
       /\ pending[k] <= stream
       /\ \A j \in 1..k : pending[j] <= pending[k]
  /\ presented <= stream /\ drawing.stream <= stream /\ drawn.stream <= stream
  /\ presented # 0 => drawing.stream <= presented /\ drawn.stream <= presented
  /\ drawn.stream # 0 => drawn.n <= buffer[drawn.stream].n
  /\ drawing # Nothing =>
       \/ drawn.stream < drawing.stream
       \/ drawn.stream = drawing.stream /\ drawn.n <= drawing.n

(* What is written is the frame of the stream that is played, and there is  *)
(* room for its signal.                                                     *)
WriterInv ==
  /\ playing => stream \in Streams
  /\ \A s \in Streams :
       mapped[s] = "writer" => playing /\ s = stream /\ Len(pending) < MaxPending

Inv == TypeOK /\ WriterInv /\ MapInv /\ FormatFitsPicture /\ OrderInv

LEMMA InitEstablishes == Init => Inv
<1> SUFFICES ASSUME Init PROVE Inv
  OBVIOUS
<1>1. TypeOK
  <2>1. pending \in Seq(Streams) /\ Len(pending) = 0
    BY DEF Init
  <2>2. buffer \in [Streams -> [n : 0..MaxPictures, whole : BOOLEAN]]
    BY BoundsAssumption DEF Init, NoPicture
  <2>3. /\ drawing \in [stream : 0..MaxStreams, n : 0..MaxPictures]
        /\ drawn \in [stream : 0..MaxStreams, n : 0..MaxPictures, whole : BOOLEAN]
    BY BoundsAssumption DEF Init, Nothing
  <2>4. mapped \in [Streams -> {"nobody", "writer", "reader"}]
    BY DEF Init
  <2>5. stream \in 0..MaxStreams /\ presented \in 0..MaxStreams /\ Len(pending) <= MaxPending
    BY <2>1, BoundsAssumption DEF Init
  <2> QED
    BY <2>1, <2>2, <2>3, <2>4, <2>5 DEF Init, TypeOK
<1>2. WriterInv /\ FormatFitsPicture
  BY DEF Init, WriterInv, FormatFitsPicture
<1>3. MapInv
  BY DEF Init, MapInv, NoPicture
<1>4. OrderInv
  BY DEF Init, OrderInv, Nothing
<1> QED
  BY <1>1, <1>2, <1>3, <1>4 DEF Inv

LEMMA TypeStep == Inv /\ [Next]_vars => TypeOK'
<1> SUFFICES ASSUME Inv, [Next]_vars PROVE TypeOK'
  OBVIOUS
<1> USE DEF Inv, TypeOK
<1>1. CASE play
  BY <1>1, BoundsAssumption DEF play, surfaceVars
<1>2. CASE stop
  <2>1. active' \in Sizes \cup {0} /\ presented' \in 0..MaxStreams
    BY <1>2, BoundsAssumption DEF stop, Flushed, Started
  <2>2. surface' = surface /\ _format' = _format
    BY <1>2 DEF stop, Flushed
  <2> QED
    BY <1>2, <2>1, <2>2 DEF stop
<1>3. CASE \E given \in BOOLEAN : surface # given /\ setVideoSurface(given)
  <2> PICK given \in BOOLEAN : setVideoSurface(given)
    BY <1>3
  <2>1. surface' \in BOOLEAN
    BY Zenon DEF setVideoSurface
  <2>2. active' \in Sizes \cup {0} /\ presented' \in 0..MaxStreams
    BY BoundsAssumption DEF setVideoSurface, Started
  <2> QED
    BY <2>1, <2>2 DEF setVideoSurface, writerVars
<1>4. CASE onNewFrameReceived
  <2>1. Head(pending) \in Streams /\ Tail(pending) \in Seq(Streams) /\ Len(Tail(pending)) <= MaxPending
    BY <1>4, BoundsAssumption DEF onNewFrameReceived
  <2>2. size[Head(pending)] \in Sizes /\ Head(pending) \in 0..MaxStreams
    BY <2>1, BoundsAssumption, SMTT(30) DEF Streams
  <2> QED
    BY <1>4, <2>1, <2>2 DEF onNewFrameReceived, writerVars
<1>5. CASE beginWrite
  <2>1. buffer' \in [Streams -> [n : 0..MaxPictures, whole : BOOLEAN]]
    <3> SUFFICES ASSUME NEW s \in Streams
                 PROVE  buffer'[s] \in [n : 0..MaxPictures, whole : BOOLEAN]
      BY <1>5 DEF beginWrite
    <3>1. CASE s = stream
      BY <1>5, <3>1, BoundsAssumption DEF beginWrite
    <3>2. CASE s # stream
      BY <1>5, <3>2 DEF beginWrite
    <3> QED
      BY <3>1, <3>2
  <2> QED
    BY <1>5, <2>1 DEF beginWrite, surfaceVars
<1>6. CASE endWrite
  <2>1. buffer' \in [Streams -> [n : 0..MaxPictures, whole : BOOLEAN]]
    BY <1>6 DEF endWrite
  <2>2. stream \in Streams
    BY <1>6 DEF endWrite, WriterInv
  <2>3. pending' \in Seq(Streams) /\ Len(pending') = Len(pending) + 1
    BY <1>6, <2>2 DEF endWrite
  <2>4. Len(pending) < MaxPending
    BY <1>6, <2>2 DEF endWrite, WriterInv
  <2> QED
    BY <1>6, <2>1, <2>3, <2>4, BoundsAssumption DEF endWrite, surfaceVars, writerVars
<1>7. CASE beginDraw
  <2>1. presented \in Streams
    BY <1>7, BoundsAssumption DEF beginDraw, Streams
  <2>2. buffer[presented].n \in 0..MaxPictures
    BY <2>1
  <2>3. drawing' \in [stream : 0..MaxStreams, n : 0..MaxPictures]
    BY <1>7, <2>2 DEF beginDraw
  <2> QED
    BY <1>7, <2>1, <2>3 DEF beginDraw, surfaceVars, writerVars
<1>8. CASE endDraw
  <2>1. mapped' \in [Streams -> {"nobody", "writer", "reader"}]
    BY <1>8 DEF endDraw
  <2>2. (buffer[drawing.stream] = [n |-> drawing.n, whole |-> TRUE]) \in BOOLEAN
    OBVIOUS
  <2>3. drawn' \in [stream : 0..MaxStreams, n : 0..MaxPictures, whole : BOOLEAN]
    BY <1>8, <2>2, Zenon DEF endDraw
  <2> QED
    BY <1>8, <2>1, <2>3, BoundsAssumption DEF endDraw, surfaceVars, writerVars, Nothing
<1>9. CASE UNCHANGED vars
  BY <1>9 DEF vars, surfaceVars, writerVars
<1> QED
  BY <1>1, <1>2, <1>3, <1>4, <1>5, <1>6, <1>7, <1>8, <1>9 DEF Next

LEMMA WriterStep == Inv /\ [Next]_vars => WriterInv'
<1> SUFFICES ASSUME Inv, [Next]_vars PROVE WriterInv'
  OBVIOUS
<1> USE DEF Inv, TypeOK, WriterInv, Streams
<1>1. CASE play
  <2>1. stream + 1 \in Streams
    BY <1>1, BoundsAssumption DEF play
  <2> QED
    BY <1>1, <2>1, BoundsAssumption DEF play
<1>2. CASE stop
  BY <1>2 DEF stop
<1>3. CASE \E given \in BOOLEAN : surface # given /\ setVideoSurface(given)
  BY <1>3 DEF setVideoSurface, writerVars
<1>4. CASE onNewFrameReceived
  <2>1. Len(pending') < Len(pending) /\ Len(pending') \in Nat /\ Len(pending) \in Nat
    BY <1>4 DEF onNewFrameReceived
  <2> QED
    BY <1>4, <2>1, BoundsAssumption DEF onNewFrameReceived, writerVars
<1>5. CASE beginWrite
  BY <1>5 DEF beginWrite
<1>6. CASE endWrite
  <2> SUFFICES ASSUME NEW s \in Streams, mapped'[s] = "writer" PROVE FALSE
    BY <1>6 DEF endWrite, writerVars
  <2>1. s # stream
    BY <1>6 DEF endWrite
  <2> QED
    BY <1>6, <2>1 DEF endWrite
<1>7. CASE beginDraw
  BY <1>7 DEF beginDraw, writerVars
<1>8. CASE endDraw
  BY <1>8 DEF endDraw, writerVars
<1>9. CASE UNCHANGED vars
  BY <1>9 DEF vars, writerVars
<1> QED
  BY <1>1, <1>2, <1>3, <1>4, <1>5, <1>6, <1>7, <1>8, <1>9 DEF Next

LEMMA MapStep == Inv /\ [Next]_vars => MapInv'
<1> SUFFICES ASSUME Inv, [Next]_vars PROVE MapInv'
  OBVIOUS
<1> USE DEF Inv, TypeOK, WriterInv, MapInv
<1>1. ASSUME UNCHANGED <<buffer, mapped, drawing, drawn>> PROVE MapInv'
  BY <1>1
<1>2. CASE play \/ stop \/ onNewFrameReceived \/ UNCHANGED vars
  BY <1>1, <1>2 DEF play, stop, onNewFrameReceived, vars
<1>3. CASE \E given \in BOOLEAN : surface # given /\ setVideoSurface(given)
  BY <1>1, <1>3 DEF setVideoSurface
<1>4. CASE beginWrite
  <2>1. drawing' = drawing /\ drawn' = drawn
    BY <1>4 DEF beginWrite
  <2>2. ASSUME drawing # Nothing PROVE drawing.stream # stream
    BY <1>4, <2>2 DEF beginWrite
  <2> QED
    BY <1>4, <2>1, <2>2 DEF beginWrite
<1>5. CASE endWrite
  <2>1. drawing' = drawing /\ drawn' = drawn
    BY <1>5 DEF endWrite
  <2>2. ASSUME drawing # Nothing PROVE drawing.stream # stream
    BY <1>5, <2>2 DEF endWrite
  <2> QED
    BY <1>5, <2>1, <2>2 DEF endWrite
<1>6. CASE beginDraw
  <2>1. presented \in Streams
    BY <1>6, BoundsAssumption DEF beginDraw, Streams
  <2>2. drawing'.stream = presented /\ drawing'.n = buffer[presented].n
    BY <1>6 DEF beginDraw
  <2> QED
    BY <1>6, <2>1, <2>2 DEF beginDraw
<1>7. CASE endDraw
  <2>1. buffer[drawing.stream] = [n |-> drawing.n, whole |-> TRUE]
    BY <1>7 DEF endDraw
  <2>2. drawn'.whole
    BY <1>7, <2>1 DEF endDraw
  <2>3. drawing' = Nothing /\ buffer' = buffer
    BY <1>7 DEF endDraw
  <2>4. \A s \in Streams : mapped'[s] # "writer" => buffer[s].whole
    BY <1>7, <2>1 DEF endDraw
  <2> QED
    BY <2>2, <2>3, <2>4
<1> QED
  BY <1>2, <1>3, <1>4, <1>5, <1>6, <1>7 DEF Next

LEMMA FormatStep == Inv /\ [Next]_vars => FormatFitsPicture'
<1> SUFFICES ASSUME Inv, [Next]_vars PROVE FormatFitsPicture'
  OBVIOUS
<1> USE DEF Inv, FormatFitsPicture, surfaceVars, writerVars
<1>1. CASE stop
  BY <1>1 DEF stop, Flushed, Started
<1>2. CASE \E given \in BOOLEAN : surface # given /\ setVideoSurface(given)
  BY <1>2 DEF setVideoSurface, Started
<1>3. CASE onNewFrameReceived
  BY <1>3 DEF onNewFrameReceived
<1>4. CASE play \/ beginWrite \/ endWrite \/ beginDraw \/ endDraw \/ UNCHANGED vars
  BY <1>4 DEF play, beginWrite, endWrite, beginDraw, endDraw, vars
<1> QED
  BY <1>1, <1>2, <1>3, <1>4 DEF Next

(* What is drawn or being drawn was written before. *)
LEMMA OrderStep == Inv /\ [Next]_vars => OrderInv'
<1> SUFFICES ASSUME Inv, [Next]_vars PROVE OrderInv'
  OBVIOUS
<1> USE DEF Inv, TypeOK, OrderInv
<1>0. /\ stream \in Nat /\ presented \in Nat /\ drawn.stream \in Nat /\ drawn.n \in Nat
      /\ drawing.stream \in Nat /\ drawing.n \in Nat
      /\ \A k \in DOMAIN pending : pending[k] \in Nat
  <2>1. /\ stream \in Nat /\ presented \in Nat /\ drawn.stream \in Nat /\ drawn.n \in Nat
        /\ drawing.stream \in Nat /\ drawing.n \in Nat
    BY BoundsAssumption
  <2>2. ASSUME NEW k \in DOMAIN pending PROVE pending[k] \in Nat
    <3>1. pending[k] \in Streams
      BY <2>2
    <3> QED
      BY <3>1, BoundsAssumption DEF Streams
  <2> QED
    BY <2>1, <2>2
<1>1. CASE play
  BY <1>0, <1>1 DEF play, surfaceVars
<1>2. CASE stop
  <2>1. presented' = presented \/ presented' = 0
    BY <1>2 DEF stop, Flushed, Started
  <2>2. UNCHANGED <<stream, buffer, pending, drawing, drawn>>
    BY <1>2 DEF stop
  <2> QED
    BY <1>0, <2>1, <2>2
<1>3. CASE \E given \in BOOLEAN : surface # given /\ setVideoSurface(given)
  <2>1. presented' = 0
    BY <1>3 DEF setVideoSurface, Started
  <2>2. UNCHANGED <<stream, buffer, pending, drawing, drawn>>
    BY <1>3 DEF setVideoSurface, writerVars
  <2> QED
    BY <1>0, <2>1, <2>2
<1>4. CASE onNewFrameReceived
  <2> DEFINE head == pending[1]
  <2>1. /\ Len(pending) \in Nat \ {0} /\ DOMAIN pending = 1..Len(pending) /\ 1 \in DOMAIN pending
        /\ pending' = Tail(pending) /\ Head(pending) = head
    BY <1>4 DEF onNewFrameReceived
  <2>2. UNCHANGED <<stream, buffer, drawing, drawn>> /\ presented' \in {presented, head}
    BY <1>4, <2>1 DEF onNewFrameReceived, writerVars
  <2>3. /\ presented <= head /\ drawing.stream <= head /\ drawn.stream <= head /\ head <= stream
        /\ head \in Nat
    BY <1>0, <2>1
  <2>4. \A k \in DOMAIN pending' : /\ k + 1 \in DOMAIN pending /\ k \in Nat \ {0}
                                   /\ pending'[k] = pending[k + 1] /\ head <= pending[k + 1]
    BY <2>1
  <2> HIDE DEF head
  <2>5. \A k \in DOMAIN pending' : \A j \in 1..k : pending'[j] <= pending'[k]
    <3> SUFFICES ASSUME NEW k \in DOMAIN pending', NEW j \in 1..k PROVE pending'[j] <= pending'[k]
      OBVIOUS
    <3>1. j \in DOMAIN pending' /\ j + 1 \in 1..(k + 1)
      BY <2>1, <2>4, SMTT(30)
    <3> QED
      BY <2>4, <3>1
  <2>6. \A k \in DOMAIN pending' :
          /\ presented' <= pending'[k] /\ drawing.stream <= pending'[k]
          /\ drawn.stream <= pending'[k] /\ pending'[k] <= stream
    BY <2>2, <2>4
  <2> QED
    BY <1>0, <2>2, <2>3, <2>5, <2>6
<1>5. CASE beginWrite
  <2>1. UNCHANGED <<stream, presented, pending, drawing, drawn>>
    BY <1>5 DEF beginWrite, surfaceVars
  <2>2. drawn.stream # 0 => buffer[drawn.stream].n <= buffer'[drawn.stream].n
    <3>1. ASSUME drawn.stream # 0 PROVE drawn.stream \in Streams /\ buffer[drawn.stream].n \in Nat
      BY <3>1, <1>0, BoundsAssumption DEF Streams
    <3> QED
      BY <1>5, <3>1 DEF beginWrite
  <2>3. drawn.stream # 0 => buffer[drawn.stream].n \in Nat /\ buffer'[drawn.stream].n \in Nat
    <3>1. ASSUME drawn.stream # 0 PROVE drawn.stream \in Streams /\ buffer[drawn.stream].n \in Nat
      BY <3>1, <1>0, BoundsAssumption DEF Streams
    <3> QED
      BY <1>5, <3>1 DEF beginWrite
  <2> QED
    BY <1>0, <2>1, <2>2, <2>3
<1>6. CASE endWrite
  <2>1. stream \in Streams
    BY <1>6 DEF endWrite, WriterInv
  <2>2. /\ UNCHANGED <<stream, presented, drawing, drawn>> /\ pending' = Append(pending, stream)
        /\ Len(pending) \in Nat /\ DOMAIN pending = 1..Len(pending)
    BY <1>6 DEF endWrite, surfaceVars, writerVars
  <2>3. DOMAIN pending' = 1..(Len(pending) + 1)
    BY <2>1, <2>2
  <2>4. pending'[Len(pending) + 1] = stream /\ \A k \in DOMAIN pending : pending'[k] = pending[k]
    BY <2>1, <2>2
  <2>5. \A k \in DOMAIN pending' :
          /\ pending'[k] \in Nat
          /\ presented <= pending'[k] /\ drawing.stream <= pending'[k] /\ drawn.stream <= pending'[k]
          /\ pending'[k] <= stream
    BY <1>0, <2>2, <2>3, <2>4
  <2>6. \A k \in DOMAIN pending' : \A j \in 1..k : pending'[j] <= pending'[k]
    <3> SUFFICES ASSUME NEW k \in DOMAIN pending', NEW j \in 1..k PROVE pending'[j] <= pending'[k]
      OBVIOUS
    <3>1. CASE k = Len(pending) + 1
      BY <2>2, <2>3, <2>4, <2>5, <3>1
    <3>2. CASE k # Len(pending) + 1
      <4>1. k \in DOMAIN pending /\ j \in DOMAIN pending
        BY <2>2, <2>3, <3>2
      <4> QED
        BY <2>4, <4>1
    <3> QED
      BY <3>1, <3>2
  <2>7. drawn.stream # 0 => buffer'[drawn.stream].n = buffer[drawn.stream].n
    <3>1. ASSUME drawn.stream # 0 PROVE drawn.stream \in Streams
      BY <3>1, <1>0, BoundsAssumption DEF Streams
    <3> QED
      BY <1>6, <3>1 DEF endWrite
  <2> QED
    BY <1>0, <2>2, <2>5, <2>6, <2>7
<1>7. CASE beginDraw
  <2>1. presented \in Streams /\ presented # 0
    BY <1>7, BoundsAssumption DEF beginDraw, Streams
  <2>2. /\ drawing'.stream = presented /\ drawing'.n = buffer[presented].n
        /\ UNCHANGED <<stream, buffer, pending, presented, drawn>>
    BY <1>7 DEF beginDraw, writerVars, surfaceVars
  <2>3. drawn.stream = presented => drawn.n <= buffer[presented].n
    BY <2>1
  <2> QED
    BY <1>0, <2>1, <2>2, <2>3
<1>8. CASE endDraw
  <2>1. /\ drawn'.stream = drawing.stream /\ drawn'.n = drawing.n
        /\ drawing'.stream = 0 /\ drawing' = Nothing /\ drawing # Nothing
        /\ UNCHANGED <<stream, buffer, pending, presented>>
    BY <1>8 DEF endDraw, Nothing, writerVars, surfaceVars
  <2>2. drawing.stream \in Streams /\ drawing.n = buffer[drawing.stream].n
    BY <2>1 DEF MapInv
  <2>3. drawing.n <= buffer[drawing.stream].n
    BY <1>0, <2>2
  <2> QED
    BY <1>0, <2>1, <2>3
<1>9. CASE UNCHANGED vars
  BY <1>9 DEF vars, surfaceVars, writerVars
<1> QED
  BY <1>1, <1>2, <1>3, <1>4, <1>5, <1>6, <1>7, <1>8, <1>9 DEF Next

----------------------------------------------------------------------------
(* The inductive invariant. *)
THEOREM FramesInvariant == Spec => []Inv
<1>1. Inv /\ [Next]_vars => Inv'
  BY TypeStep, WriterStep, MapStep, FormatStep, OrderStep DEF Inv
<1> QED
  BY InitEstablishes, <1>1, PTL DEF Spec

(* Types are kept. *)
THEOREM TypeCorrect == Spec => []TypeOK
<1>1. Inv => TypeOK
  BY DEF Inv
<1> QED
  BY FramesInvariant, <1>1, PTL

(* No picture is drawn half written: the map of the shared frame is enough. *)
THEOREM NothingTorn == Spec => []NoTornPicture
<1>1. Inv => NoTornPicture
  BY DEF Inv, MapInv, NoTornPicture
<1> QED
  BY FramesInvariant, <1>1, PTL

(* The surface always has the format of its frame. *)
THEOREM FormatSafe == Spec => []FormatFitsPicture
<1>1. Inv => FormatFitsPicture
  BY DEF Inv
<1> QED
  BY FramesInvariant, <1>1, PTL

(* What is drawn is whole and fits its surface. *)
THEOREM DrawnRight == Spec => []DrawnAsDecoded
  BY NothingTorn, FormatSafe, PTL DEF DrawnAsDecoded

(* The screen never goes back to an older picture or stream. *)
THEOREM ScreenGoesForward == Spec => NeverGoesBack
<1> DEFINE Forward == \/ drawn'.stream > drawn.stream
                      \/ drawn'.stream = drawn.stream /\ drawn'.n >= drawn.n
<1>1. Inv /\ [Next]_vars => [Forward]_vars
  <2> SUFFICES ASSUME Inv, Next PROVE Forward
    BY DEF Inv, TypeOK
  <2>0. /\ drawn.stream \in Nat /\ drawn.n \in Nat /\ drawing.stream \in Nat /\ drawing.n \in Nat
    BY BoundsAssumption DEF Inv, TypeOK
  <2>1. CASE endDraw
    <3>1. drawn'.stream = drawing.stream /\ drawn'.n = drawing.n /\ drawing # Nothing
      BY <2>1 DEF endDraw
    <3> QED
      BY <2>0, <3>1 DEF Inv, OrderInv
  <2>2. CASE drawn' = drawn
    BY <2>0, <2>2
  <2> QED
    BY <2>1, <2>2 DEF Next, play, stop, setVideoSurface, onNewFrameReceived, beginWrite, endWrite, beginDraw
<1> QED
  BY FramesInvariant, <1>1, PTL DEF Spec, NeverGoesBack
=============================================================================
