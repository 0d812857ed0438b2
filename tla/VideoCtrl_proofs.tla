-------------------------- MODULE VideoCtrl_proofs --------------------------
(***************************************************************************)
(* The control of a window, proved for any number of streams and frames:   *)
(* what the GUI thread may rely on about the pull thread at each place,    *)
(* although nothing is locked, and that a window is a WindowStream.        *)
(***************************************************************************)
EXTENDS VideoCtrl, TLAPS

(* The pointer has a thread from start to join; the thread holds a packet   *)
(* between init and unInit only.                                            *)
PullThread ==
  /\ pc.pull # "none" <=> p_rtmp_pull_thread
  /\ packet => pc.pull \in {"loop", "read", "unInit"}
  /\ pc.pull \in {"unInit", "end"} => ended_itself \/ pc.gui = "join"
  /\ aborted => ended_itself

(* The flag says that a window plays whose thread is not done.              *)
Flag ==
  /\ is_pulling => pc.gui = "idle" /\ is_playing /\ pc.pull \notin {"none", "done"}
  /\ ~is_pulling => pc.gui = "join" \/ pc.pull \in {"none", "done"}

(* Where the GUI thread stands: a thread that is done outside of stop has   *)
(* ended by itself.                                                         *)
GuiThread ==
  /\ pc.gui # "idle" => is_playing
  /\ pc.gui = "join" => pc.pull # "none"
  /\ pc.gui # "join" /\ pc.pull = "done" => ended_itself
  /\ pc.gui = "idle" /\ is_playing => pc.pull # "none"
  /\ pc.gui = "idle" /\ ~is_playing => ~is_pulling /\ ~audio /\ ~frame

(* Of the outputs that were started, the one audio points to and those that *)
(* were replaced are not freed.                                             *)
Outputs ==
  /\ audio => outputs = repeated + 1
  /\ ~audio => outputs = repeated

IInv == TypeOK /\ Outputs /\ PullThread /\ Flag /\ GuiThread

(* Program counters of the two threads. *)
LEMMA PcFields ==
  ASSUME TypeOK
  PROVE  /\ pc = [gui |-> pc.gui, pull |-> pc.pull]
         /\ pc.gui \in {"idle", "join", "free"}
         /\ pc.pull \in {"none", "init", "loop", "read", "unInit", "end", "done"}
BY DEF TypeOK

LEMMA InitEstablishes == Init => IInv
<1>1. Init => TypeOK
  <2> SUFFICES ASSUME Init PROVE TypeOK
    OBVIOUS
  <2>1. /\ pending \in 0..MaxPending /\ streams \in 0..MaxStreams
        /\ outputs \in 0..MaxOutputs /\ repeated \in 0..MaxOutputs
    BY BoundsAssumption DEF Init
  <2>2. pc \in [gui : {"idle", "join", "free"},
                pull : {"none", "init", "loop", "read", "unInit", "end", "done"}]
    BY DEF Init
  <2> QED
    BY <2>1, <2>2, Zenon DEF Init, TypeOK
<1> QED
  BY <1>1 DEF Init, IInv, Outputs, PullThread, Flag, GuiThread

(* Every step of the window keeps the types. *)
LEMMA TypeStep == TypeOK /\ Outputs /\ [Next]_vars => TypeOK'
<1> SUFFICES ASSUME TypeOK, Outputs, [Next]_vars PROVE TypeOK'
  OBVIOUS
<1> USE BoundsAssumption DEF TypeOK, ctrlVars, rtmpVars, soundVars, mediaVars, PullVars
<1>1. CASE play
  <2>1. is_playing' \in BOOLEAN /\ is_playing_audio' \in BOOLEAN /\ is_pulling' \in BOOLEAN
    BY <1>1, Zenon DEF play
  <2>2. p_rtmp_pull_thread' \in BOOLEAN /\ aborted' \in BOOLEAN
    BY <1>1, Zenon DEF play
  <2>3. /\ streams' \in 0..MaxStreams
        /\ pc' \in [gui : {"idle", "join", "free"},
                    pull : {"none", "init", "loop", "read", "unInit", "end", "done"}]
    BY <1>1 DEF play
  <2> QED
    BY <1>1, <2>1, <2>2, <2>3, Zenon DEF play
<1>2. CASE playAudio
  BY <1>2 DEF playAudio
<1>3. CASE stopAudio
  BY <1>3, ZenonT(60) DEF stopAudio
<1>4. CASE stop
  BY <1>4 DEF stop
<1>5. CASE onNewFrameReceived
  BY <1>5 DEF onNewFrameReceived
<1>6. CASE join
  BY <1>6 DEF join
<1>7. CASE release
  <2>1. outputs' \in 0..MaxOutputs
    <3>1. CASE audio
      BY <1>7, <3>1 DEF release, Outputs
    <3>2. CASE ~audio
      BY <1>7, <3>2 DEF release
    <3> QED
      BY <3>1, <3>2
  <2>2. pc' \in [gui : {"idle", "join", "free"},
                 pull : {"none", "init", "loop", "read", "unInit", "end", "done"}]
    BY <1>7 DEF release
  <2> QED
    BY <1>7, <2>1, <2>2, ZenonT(60) DEF release
<1>8. CASE init
  BY <1>8 DEF init
<1>9. CASE check
  BY <1>9 DEF check
<1>10. CASE readNothing
  BY <1>10 DEF readNothing
<1>11. CASE readFails
  BY <1>11 DEF readFails
<1>12. CASE handleVideo
  BY <1>12 DEF handleVideo
<1>13. CASE handleAudioInfo
  <2>1. outputs' \in 0..MaxOutputs
    BY <1>13 DEF handleAudioInfo
  <2>2. repeated' \in 0..MaxOutputs
    <3>1. CASE audio
      BY <1>13, <3>1 DEF handleAudioInfo, Outputs
    <3>2. CASE ~audio
      BY <1>13, <3>2 DEF handleAudioInfo
    <3> QED
      BY <3>1, <3>2
  <2>3. pc' \in [gui : {"idle", "join", "free"},
                 pull : {"none", "init", "loop", "read", "unInit", "end", "done"}]
    BY <1>13 DEF handleAudioInfo
  <2> QED
    BY <1>13, <2>1, <2>2, <2>3, ZenonT(60) DEF handleAudioInfo
<1>14. CASE unInit
  BY <1>14 DEF unInit
<1>15. CASE finish
  BY <1>15 DEF finish
<1>16. CASE UNCHANGED vars
  BY <1>16 DEF vars
<1> QED
  BY <1>1, <1>2, <1>3, <1>4, <1>5, <1>6, <1>7, <1>8, <1>9, <1>10, <1>11, <1>12, <1>13, <1>14, <1>15, <1>16 DEF Next, GuiStep, PullStep, Over

(* Only a description of the sound and stop touch the outputs. *)
LEMMA OutputsStep == TypeOK /\ Outputs /\ [Next]_vars => Outputs'
<1> SUFFICES ASSUME TypeOK, Outputs, [Next]_vars PROVE Outputs'
  OBVIOUS
<1>0. outputs \in Nat /\ repeated \in Nat
  BY BoundsAssumption DEF TypeOK
<1>1. CASE handleAudioInfo
  <2>1. CASE audio
    BY <1>0, <1>1, <2>1 DEF handleAudioInfo, Outputs
  <2>2. CASE ~audio
    BY <1>0, <1>1, <2>2 DEF handleAudioInfo, Outputs
  <2> QED
    BY <2>1, <2>2
<1>2. CASE release
  <2>1. CASE audio
    BY <1>0, <1>2, <2>1 DEF release, Outputs
  <2>2. CASE ~audio
    BY <1>0, <1>2, <2>2 DEF release, Outputs
  <2> QED
    BY <2>1, <2>2
<1>3. CASE UNCHANGED soundVars
  BY <1>3 DEF soundVars, Outputs
<1> QED
  BY <1>1, <1>2, <1>3
     DEF Next, GuiStep, PullStep, Over, play, playAudio, stopAudio, stop, join, onNewFrameReceived,
         init, check, readNothing, readFails, handleVideo, unInit, finish, mediaVars, vars

(* Every step keeps what the threads may rely on. *)
LEMMA ControlStep == IInv /\ [Next]_vars => (PullThread /\ Flag /\ GuiThread)'
<1> SUFFICES ASSUME IInv, [Next]_vars PROVE (PullThread /\ Flag /\ GuiThread)'
  OBVIOUS
<1> USE DEF IInv, PullThread, Flag, GuiThread, ctrlVars, rtmpVars, soundVars, mediaVars, PullVars
<1>0. TypeOK /\ pc = [gui |-> pc.gui, pull |-> pc.pull]
  BY PcFields
<1>1. CASE ~aborted /\ play
  BY <1>0, <1>1 DEF play, TypeOK
<1>2. CASE ~aborted /\ playAudio
  BY <1>0, <1>2 DEF playAudio, TypeOK
<1>3. CASE ~aborted /\ stopAudio
  BY <1>0, <1>3 DEF stopAudio, TypeOK
<1>4. CASE ~aborted /\ stop
  BY <1>0, <1>4 DEF stop, TypeOK
<1>5. CASE ~aborted /\ onNewFrameReceived
  BY <1>0, <1>5 DEF onNewFrameReceived, TypeOK
<1>6. CASE ~aborted /\ join
  BY <1>0, <1>6 DEF join, TypeOK
<1>7. CASE ~aborted /\ release
  BY <1>0, <1>7 DEF release, TypeOK
<1>8. CASE ~aborted /\ init
  BY <1>0, <1>8 DEF init, TypeOK
<1>9. CASE ~aborted /\ check
  BY <1>0, <1>9 DEF check, TypeOK
<1>10. CASE ~aborted /\ readNothing
  BY <1>0, <1>10 DEF readNothing, TypeOK
<1>11. CASE ~aborted /\ readFails
  BY <1>0, <1>11 DEF readFails, TypeOK
<1>12. CASE ~aborted /\ handleVideo
  BY <1>0, <1>12 DEF handleVideo, TypeOK
<1>13. CASE ~aborted /\ handleAudioInfo
  BY <1>0, <1>13 DEF handleAudioInfo, TypeOK
<1>14. CASE ~aborted /\ unInit
  BY <1>0, <1>14 DEF unInit, TypeOK
<1>15. CASE ~aborted /\ finish
  BY <1>0, <1>15 DEF finish, TypeOK
<1>16. CASE UNCHANGED vars
  BY <1>16 DEF vars
<1> QED
  BY <1>1, <1>2, <1>3, <1>4, <1>5, <1>6, <1>7, <1>8, <1>9, <1>10, <1>11, <1>12, <1>13, <1>14, <1>15, <1>16 DEF Next, GuiStep, PullStep, Over
(* The inductive invariant of a window. *)
THEOREM ControlInvariant == Spec => []IInv
<1>1. IInv /\ [Next]_vars => IInv'
  BY TypeStep, OutputsStep, ControlStep DEF IInv
<1> QED
  BY InitEstablishes, <1>1, PTL DEF Spec

(* Every variable keeps its type. *)
THEOREM TypeCorrect == Spec => []TypeOK
<1>1. IInv => TypeOK
  BY DEF IInv
<1> QED
  BY ControlInvariant, <1>1, PTL

(* stop frees the output, the frame and the encoder (VideoCtrl.cpp:132)     *)
(* when the pull thread has executed its last statement, although it may    *)
(* have skipped the join.                                                   *)
THEOREM FreedAlone == Spec => []FreedWhenAlone
<1>1. IInv => FreedWhenAlone
  BY DEF IInv, Flag, FreedWhenAlone
<1> QED
  BY ControlInvariant, <1>1, PTL

(* A stopped window holds nothing of its last stream but the outputs that   *)
(* later descriptions of the sound replaced (VideoCtrl.cpp:52).             *)
THEOREM StoppedClean == Spec => []StoppedWindowIsClean
<1>1. IInv => StoppedWindowIsClean
  BY DEF IInv, Outputs, Flag, GuiThread, PullThread, StoppedWindowIsClean
<1> QED
  BY ControlInvariant, <1>1, PTL

(* std::terminate at VideoCapture.cpp:34 needs a stream that ended itself. *)
THEOREM TerminateOnlyAfterBrokenStream == Spec => []TerminateNeedsBrokenStream
<1>1. IInv => TerminateNeedsBrokenStream
  BY DEF IInv, PullThread, TerminateNeedsBrokenStream
<1> QED
  BY ControlInvariant, <1>1, PTL

(* The conjunction the run checks: types, freeing alone, a clean stop and   *)
(* termination, in every reachable state of a window.                       *)
THEOREM WindowSafe == Spec => []WindowIsSafe
BY TypeCorrect, FreedAlone, StoppedClean, TerminateOnlyAfterBrokenStream, PTL DEF WindowIsSafe

(* No frame is queued for a window that has been stopped. *)
THEOREM NoLateFrame == Spec => NoFrameAfterStop
<1>1. IInv /\ [Next]_vars => [~is_playing /\ ~is_playing' => pending' <= pending]_vars
  <2> SUFFICES ASSUME IInv, [Next]_vars, ~is_playing, ~is_playing' PROVE pending' <= pending
    OBVIOUS
  <2>1. pending \in Nat
    BY BoundsAssumption DEF IInv, TypeOK
  <2>2. ~handleVideo
    BY DEF IInv, GuiThread, Flag, handleVideo
  <2>3. CASE onNewFrameReceived
    BY <2>1, <2>3 DEF onNewFrameReceived
  <2>4. CASE UNCHANGED pending
    BY <2>1, <2>4
  <2> QED
    BY <2>2, <2>3, <2>4
       DEF Next, GuiStep, PullStep, Over, play, playAudio, stopAudio, stop, join, release, init, check,
           readNothing, readFails, handleAudioInfo, unInit, finish, vars
<1> QED
  BY ControlInvariant, <1>1, PTL DEF Spec, NoFrameAfterStop

----------------------------------------------------------------------------
(* The refinement: what MainCtrl sees of a window.                          *)
Playing == [w \in {"window"} |-> is_playing /\ pc.gui # "free"]
Stream == [w \in {"window"} |->
             IF ~p_rtmp_pull_thread THEN "none"
             ELSE IF is_pulling \/ pc.gui = "join" THEN "running" ELSE "ended"]

(* A step that starts a stream, ends it, loses it, or that a user of the    *)
(* window does not see.                                                     *)
LEMMA PlayIsPlay == IInv /\ play /\ ~aborted => Window!play("window")
<1> SUFFICES ASSUME IInv, play, ~aborted PROVE Window!play("window")
  OBVIOUS
<1>1. ~is_pulling /\ ~is_playing /\ pc.gui = "idle"
  BY DEF play, IInv, Flag
<1>2. is_playing' /\ is_pulling' /\ p_rtmp_pull_thread' /\ aborted' = p_rtmp_pull_thread
  BY <1>1, Zenon DEF play
<1>3. pc'.gui = "idle"
  BY <1>1, PcFields DEF play, IInv
<1>4. Playing = [w \in {"window"} |-> FALSE] /\ Playing' = [w \in {"window"} |-> TRUE]
  BY <1>1, <1>2, <1>3 DEF Playing
<1>5. Stream = [w \in {"window"} |-> IF p_rtmp_pull_thread THEN "ended" ELSE "none"]
  BY <1>1 DEF Stream
<1>6. Stream' = [w \in {"window"} |-> "running"]
  BY <1>2 DEF Stream
<1>7. aborted' = (Stream["window"] = "ended")
  <2>1. p_rtmp_pull_thread <=> Stream["window"] = "ended"
    BY <1>5
  <2>2. p_rtmp_pull_thread \in BOOLEAN
    BY Zenon DEF IInv, TypeOK
  <2> QED
    BY <1>2, <2>1, <2>2, Zenon
<1>8. Playing' = [Playing EXCEPT !["window"] = TRUE] /\ Stream' = [Stream EXCEPT !["window"] = "running"]
  BY <1>4, <1>5, <1>6
<1>9. ~Playing["window"] /\ Stream["window"] # "running"
  BY <1>4, <1>5
<1> QED
  BY <1>7, <1>8, <1>9 DEF Window!play, Playing, Stream
(* A stop of a stream that goes on is seen when its thread has been joined. *)
LEMMA JoinIsStop == IInv /\ join => Window!stop("window")
<1> SUFFICES ASSUME IInv, join PROVE Window!stop("window")
  OBVIOUS
<1>1. is_playing /\ pc.gui = "join" /\ p_rtmp_pull_thread
  BY DEF join, IInv, GuiThread, PullThread
<1>2. is_playing' /\ pc'.gui = "free" /\ ~p_rtmp_pull_thread' /\ aborted' = aborted
  BY <1>1 DEF join, ctrlVars
<1>3. Playing = [w \in {"window"} |-> TRUE] /\ Playing' = [w \in {"window"} |-> FALSE]
  BY <1>1, <1>2 DEF Playing
<1>4. Stream = [w \in {"window"} |-> "running"] /\ Stream' = [w \in {"window"} |-> "none"]
  BY <1>1, <1>2 DEF Stream
<1>5. Playing' = [Playing EXCEPT !["window"] = FALSE]
  BY <1>3
<1>6. Stream' = [Stream EXCEPT !["window"] =
                   IF Playing["window"] /\ @ = "running" THEN "none" ELSE @]
  BY <1>3, <1>4
<1> QED
  BY <1>2, <1>5, <1>6 DEF Window!stop, Playing, Stream

(* A stop of a stream that ended by itself is seen at once; one of a stream *)
(* that goes on is not seen before the join.                                *)
LEMMA StopIsStop == IInv /\ stop => Window!stop("window") \/ UNCHANGED Window!windowVars
<1> SUFFICES ASSUME IInv, stop PROVE Window!stop("window") \/ UNCHANGED Window!windowVars
  OBVIOUS
<1>1. is_playing /\ pc.gui = "idle" /\ p_rtmp_pull_thread
  BY DEF stop, IInv, GuiThread, PullThread
<1>2. /\ is_playing' /\ ~is_pulling' /\ p_rtmp_pull_thread' /\ aborted' = aborted
      /\ pc'.gui = IF is_pulling THEN "join" ELSE "free"
  BY <1>1, PcFields DEF stop, ctrlVars, IInv
<1>3. CASE is_pulling
  <2>1. Playing' = Playing
    BY <1>1, <1>2, <1>3 DEF Playing
  <2>2. Stream' = Stream
    BY <1>1, <1>2, <1>3 DEF Stream
  <2> QED
    BY <1>2, <2>1, <2>2 DEF Window!windowVars, Playing, Stream
<1>4. CASE ~is_pulling
  <2>1. Playing = [w \in {"window"} |-> TRUE] /\ Playing' = [w \in {"window"} |-> FALSE]
    BY <1>1, <1>2, <1>4 DEF Playing
  <2>2. Stream = [w \in {"window"} |-> "ended"] /\ Stream' = [w \in {"window"} |-> "ended"]
    BY <1>1, <1>2, <1>4 DEF Stream
  <2>3. Playing' = [Playing EXCEPT !["window"] = FALSE]
    BY <2>1
  <2>4. Stream' = [Stream EXCEPT !["window"] =
                     IF Playing["window"] /\ @ = "running" THEN "none" ELSE @]
    BY <2>1, <2>2
  <2> QED
    BY <1>2, <2>3, <2>4 DEF Window!stop, Playing, Stream
<1> QED
  BY <1>3, <1>4

(* The end of a thread that nobody stops is the end of the stream.          *)
LEMMA FinishIsEnd == IInv /\ finish => Window!StreamEnds("window") \/ UNCHANGED Window!windowVars
<1> SUFFICES ASSUME IInv, finish PROVE Window!StreamEnds("window") \/ UNCHANGED Window!windowVars
  OBVIOUS
<1>1. p_rtmp_pull_thread /\ p_rtmp_pull_thread' /\ ~is_pulling' /\ pc'.gui = pc.gui
      /\ is_playing' = is_playing /\ aborted' = aborted
  BY DEF finish, PullVars, ctrlVars, IInv, PullThread
<1>2. Playing' = Playing
  BY <1>1 DEF Playing
<1>3. CASE pc.gui = "join"
  <2>1. Stream' = Stream
    BY <1>1, <1>3 DEF Stream
  <2> QED
    BY <1>1, <1>2, <2>1 DEF Window!windowVars, Playing, Stream
<1>4. CASE pc.gui # "join"
  <2>1. is_pulling
    BY <1>4 DEF finish, IInv, Flag
  <2>2. Stream = [w \in {"window"} |-> "running"] /\ Stream' = [w \in {"window"} |-> "ended"]
    BY <1>1, <1>4, <2>1 DEF Stream
  <2>3. Stream' = [Stream EXCEPT !["window"] = "ended"] /\ Stream["window"] = "running"
    BY <2>2
  <2> QED
    BY <1>1, <1>2, <2>3 DEF Window!StreamEnds, Playing, Stream
<1> QED
  BY <1>3, <1>4

(* The rest of stop, the audio, and the work of the pull thread.            *)
LEMMA OthersAreHidden ==
  IInv /\ (release \/ UNCHANGED <<is_playing, is_pulling, p_rtmp_pull_thread, aborted, pc.gui>>)
    => UNCHANGED Window!windowVars
<1> SUFFICES ASSUME IInv, release \/ UNCHANGED <<is_playing, is_pulling, p_rtmp_pull_thread, aborted, pc.gui>>
             PROVE  UNCHANGED Window!windowVars
  OBVIOUS
<1>1. CASE release
  <2>1. pc.gui = "free" /\ pc'.gui = "idle" /\ ~is_playing' /\ aborted' = aborted
        /\ is_pulling' = is_pulling /\ p_rtmp_pull_thread' = p_rtmp_pull_thread
    BY <1>1, PcFields DEF release, IInv
  <2>2. Playing' = Playing
    BY <2>1 DEF Playing
  <2>3. Stream' = Stream
    BY <2>1 DEF Stream
  <2> QED
    BY <2>1, <2>2, <2>3 DEF Window!windowVars, Playing, Stream
<1>2. CASE UNCHANGED <<is_playing, is_pulling, p_rtmp_pull_thread, aborted, pc.gui>>
  <2>1. Playing' = Playing
    BY <1>2 DEF Playing
  <2>2. Stream' = Stream
    BY <1>2 DEF Stream
  <2> QED
    BY <1>2, <2>1, <2>2 DEF Window!windowVars, Playing, Stream
<1> QED
  BY <1>1, <1>2

(* A window is what MainCtrl takes it for, for any number of streams. *)
THEOREM WindowRefinement == Spec => ImplementsWindow
<1>1. Init => Window!Init
  <2> SUFFICES ASSUME Init PROVE Window!Init
    OBVIOUS
  <2>1. Playing = [w \in {"window"} |-> FALSE]
    BY DEF Init, Playing
  <2>2. Stream = [w \in {"window"} |-> "none"]
    BY DEF Init, Stream
  <2> QED
    BY <2>1, <2>2 DEF Init, Window!Init, Playing, Stream
<1>2. IInv /\ [Next]_vars => [Window!Next]_(Window!windowVars)
  <2> SUFFICES ASSUME IInv, [Next]_vars PROVE Window!Next \/ UNCHANGED Window!windowVars
    BY Zenon
  <2> "window" \in {"window"}
    OBVIOUS
  <2>1. CASE ~aborted /\ play
    BY <2>1, PlayIsPlay DEF Window!Next
  <2>2. CASE ~aborted /\ stop
    BY <2>2, StopIsStop DEF Window!Next
  <2>3. CASE ~aborted /\ join
    BY <2>3, JoinIsStop DEF Window!Next
  <2>4. CASE ~aborted /\ finish
    BY <2>4, FinishIsEnd DEF Window!Next
  <2>5. CASE release
    BY <2>5, OthersAreHidden
  <2>6. CASE \/ playAudio \/ stopAudio \/ onNewFrameReceived \/ init \/ check \/ readNothing
             \/ readFails \/ handleVideo \/ handleAudioInfo \/ unInit \/ UNCHANGED vars
    <3>1. UNCHANGED <<is_playing, is_pulling, p_rtmp_pull_thread, aborted, pc.gui>>
      BY <2>6, PcFields
         DEF IInv, playAudio, stopAudio, onNewFrameReceived, init, check, readNothing, readFails,
             handleVideo, handleAudioInfo, unInit, vars, ctrlVars, PullVars
    <3> QED
      BY <3>1, OthersAreHidden
  <2> QED
    BY <2>1, <2>2, <2>3, <2>4, <2>5, <2>6 DEF Next, GuiStep, PullStep, Over
<1> QED
  BY ControlInvariant, <1>1, <1>2, PTL DEF Spec, ImplementsWindow, Window!Spec
=============================================================================
