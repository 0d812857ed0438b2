----------------------------- MODULE VideoCtrl -----------------------------
(***************************************************************************)
(* One monitoring window: VideoCtrl (VideoCtrl.cpp) and the VideoCapture   *)
(* (VideoCapture.cpp) it owns.  The GUI thread plays and stops it and      *)
(* presents the frames it receives as queued signals; the pull thread      *)
(* connects, reads packets, decodes them and emits frames.                 *)
(*                                                                         *)
(* rtmp and packet belong to the pull thread, audio, frame and             *)
(* ffmpeg_encoder to the pull thread while it runs and to stop afterwards; *)
(* nothing is locked, so that the flag is_pulling and the join keep the    *)
(* two threads apart.                                                      *)
(***************************************************************************)
EXTENDS Naturals

CONSTANTS
  MaxStreams,  \* bound: how often the window is played
  MaxPending,  \* bound: frames queued in the event loop of the GUI thread
  MaxOutputs   \* bound: audio outputs that were started and not freed

ASSUME BoundsAssumption == MaxStreams \in Nat /\ MaxPending \in Nat /\ MaxOutputs \in Nat

VARIABLES
  is_playing, is_playing_audio,  \* VideoCtrl
  is_pulling,                    \* VideoCapture
  p_rtmp_pull_thread,            \* TRUE: the pointer owns a thread nobody joined
  rtmp, packet,                  \* TRUE: allocated
  audio,                         \* TRUE: points to a QAudioOutput, audio_io to its device
  outputs,                       \* counts the QAudioOutputs that were started and not freed
  repeated,                      \* counts the sounds described while audio had an output
  frame,                         \* TRUE: allocated, and the encoder of the recording with it
  pending,                       \* counts the frames queued for FrameProvider
  streams,                       \* counts the streams
  ended_itself,                  \* a stream ended although nobody stopped it
  aborted,                       \* std::terminate was called
  pc                             \* of the gui and the pull thread

ctrlVars == <<is_playing, is_playing_audio, streams, aborted>>
rtmpVars == <<rtmp, packet>>
soundVars == <<audio, outputs, repeated>>
mediaVars == <<soundVars, frame>>
vars == <<ctrlVars, is_pulling, p_rtmp_pull_thread, rtmpVars, mediaVars, pending, ended_itself, pc>>

Init ==
  /\ is_playing = FALSE /\ is_playing_audio = FALSE
  /\ is_pulling = FALSE /\ p_rtmp_pull_thread = FALSE
  /\ rtmp = FALSE /\ packet = FALSE
  /\ audio = FALSE /\ outputs = 0 /\ repeated = 0 /\ frame = FALSE
  /\ pending = 0
  /\ streams = 0 /\ ended_itself = FALSE /\ aborted = FALSE
  /\ pc = [gui |-> "idle", pull |-> "none"]

----------------------------------------------------------------------------
(* The GUI thread. *)

(* play and VideoCapture::start, which refuses while the old thread pulls.  *)
(* Assigning the new thread destroys the one the pointer held, and          *)
(* destroying a thread nobody joined calls std::terminate.                  *)
play ==
  /\ pc.gui = "idle" /\ ~is_playing
  /\ streams < MaxStreams
  /\ is_playing_audio' = FALSE
  /\ is_playing' = ~is_pulling
  /\ is_pulling' = TRUE
  /\ IF is_pulling
     THEN UNCHANGED <<p_rtmp_pull_thread, streams, aborted, pc>>
     ELSE /\ p_rtmp_pull_thread' = TRUE
          /\ aborted' = p_rtmp_pull_thread
          /\ streams' = streams + 1
          /\ pc' = [pc EXCEPT !.pull = "init"]
  /\ UNCHANGED <<rtmpVars, mediaVars, pending, ended_itself>>

playAudio ==
  /\ pc.gui = "idle"
  /\ is_playing_audio' = TRUE
  /\ UNCHANGED <<is_playing, streams, aborted, is_pulling, p_rtmp_pull_thread, rtmpVars, mediaVars,
                 pending, ended_itself, pc>>

stopAudio ==
  /\ pc.gui = "idle"
  /\ is_playing_audio' = FALSE
  /\ UNCHANGED <<is_playing, streams, aborted, is_pulling, p_rtmp_pull_thread, rtmpVars, mediaVars,
                 pending, ended_itself, pc>>

(* Mutation: VideoCapture::stop does not wait for its thread. *)
stop_WithoutJoin ==
  /\ pc.gui = "idle" /\ is_playing
  /\ is_pulling' = FALSE
  /\ p_rtmp_pull_thread' = FALSE
  /\ pc' = [pc EXCEPT !.gui = "free"]
  /\ UNCHANGED <<ctrlVars, rtmpVars, mediaVars, pending, ended_itself>>

(* stop up to the join of VideoCapture::stop, which returns early when the  *)
(* thread has ended.                                                        *)
stop ==
  /\ pc.gui = "idle" /\ is_playing
  /\ is_pulling' = FALSE
  /\ pc' = [pc EXCEPT !.gui = IF is_pulling THEN "join" ELSE "free"]
  /\ UNCHANGED <<ctrlVars, p_rtmp_pull_thread, rtmpVars, mediaVars, pending, ended_itself>>

(* Mutation: the pointer keeps the joined thread. *)
join_KeepingThread ==
  /\ pc.gui = "join" /\ pc.pull = "done"
  /\ pc' = [gui |-> "free", pull |-> "none"]
  /\ UNCHANGED <<ctrlVars, is_pulling, p_rtmp_pull_thread, rtmpVars, mediaVars, pending, ended_itself>>

join ==
  /\ pc.gui = "join" /\ pc.pull = "done"
  /\ p_rtmp_pull_thread' = FALSE
  /\ pc' = [gui |-> "free", pull |-> "none"]
  /\ UNCHANGED <<ctrlVars, is_pulling, rtmpVars, mediaVars, pending, ended_itself>>

(* Mutation: the pointer is cleared and its output forgotten. *)
release_KeepingOutput ==
  /\ pc.gui = "free"
  /\ audio' = FALSE /\ frame' = FALSE
  /\ is_playing' = FALSE /\ is_playing_audio' = FALSE
  /\ pc' = [pc EXCEPT !.gui = "idle"]
  /\ UNCHANGED <<outputs, repeated, streams, aborted, is_pulling, p_rtmp_pull_thread, rtmpVars, pending,
                 ended_itself>>

(* The rest of stop; it frees the output audio points to, and flush does    *)
(* not reach the queue of the event loop.                                   *)
release ==
  /\ pc.gui = "free"
  /\ audio' = FALSE /\ frame' = FALSE
  /\ outputs' = IF audio THEN outputs - 1 ELSE outputs
  /\ is_playing' = FALSE /\ is_playing_audio' = FALSE
  /\ pc' = [pc EXCEPT !.gui = "idle"]
  /\ UNCHANGED <<repeated, streams, aborted, is_pulling, p_rtmp_pull_thread, rtmpVars, pending,
                 ended_itself>>

(* FrameProvider::onNewFrameReceived, called by the event loop. *)
onNewFrameReceived ==
  /\ pc.gui = "idle"
  /\ pending > 0
  /\ pending' = pending - 1
  /\ UNCHANGED <<ctrlVars, is_pulling, p_rtmp_pull_thread, rtmpVars, mediaVars, ended_itself, pc>>

----------------------------------------------------------------------------
(* The pull thread.  A stream ends by itself when init or a read fails      *)
(* although is_pulling is set.                                              *)
PullVars == <<ctrlVars, p_rtmp_pull_thread>>

(* init: unInit first, then RTMP_Alloc, Connect, ConnectStream; a failure   *)
(* leaves rtmp to the next init.                                            *)
init ==
  /\ pc.pull = "init"
  /\ rtmp' = TRUE
  /\ \/ packet' = TRUE /\ pc' = [pc EXCEPT !.pull = "loop"] /\ UNCHANGED ended_itself
     \/ /\ packet' = FALSE
        /\ pc' = [pc EXCEPT !.pull = "end"]
        /\ ended_itself' = (ended_itself \/ is_pulling)
  /\ UNCHANGED <<PullVars, is_pulling, mediaVars, pending>>

(* Mutation: pull reads until the connection ends. *)
check_Always ==
  /\ pc.pull = "loop"
  /\ pc' = [pc EXCEPT !.pull = "read"]
  /\ UNCHANGED <<PullVars, is_pulling, rtmpVars, mediaVars, pending, ended_itself>>

(* The loop condition of pull. *)
check ==
  /\ pc.pull = "loop"
  /\ pc' = [pc EXCEPT !.pull = IF is_pulling THEN "read" ELSE "unInit"]
  /\ UNCHANGED <<PullVars, is_pulling, rtmpVars, mediaVars, pending, ended_itself>>

(* RTMP_ReadPacket: nothing yet, an error, or a packet that is handled.     *)
(* Packets that only feed a decoder are like nothing.                       *)
readNothing ==
  /\ pc.pull = "read"
  /\ pc' = [pc EXCEPT !.pull = "loop"]
  /\ UNCHANGED <<PullVars, is_pulling, rtmpVars, mediaVars, pending, ended_itself>>

readFails ==
  /\ pc.pull = "read"
  /\ pc' = [pc EXCEPT !.pull = "unInit"]
  /\ ended_itself' = (ended_itself \/ is_pulling)
  /\ UNCHANGED <<PullVars, is_pulling, rtmpVars, mediaVars, pending>>

(* A video packet that completes a frame.                                   *)
handleVideo ==
  /\ pc.pull = "read"
  /\ pending < MaxPending
  /\ frame' = TRUE
  /\ pending' = pending + 1
  /\ pc' = [pc EXCEPT !.pull = "loop"]
  /\ UNCHANGED <<PullVars, is_pulling, rtmpVars, soundVars, ended_itself>>

(* Each description of the sound makes and starts a new output, without a   *)
(* look at the one audio points to: that one is never stopped.  A packet of *)
(* samples writes to the new one when is_playing_audio is set and leaves    *)
(* the state as it is.                                                      *)
handleAudioInfo ==
  /\ pc.pull = "read"
  /\ outputs < MaxOutputs
  /\ audio' = TRUE
  /\ outputs' = outputs + 1
  /\ repeated' = IF audio THEN repeated + 1 ELSE repeated
  /\ pc' = [pc EXCEPT !.pull = "loop"]
  /\ UNCHANGED <<PullVars, is_pulling, rtmpVars, frame, pending, ended_itself>>

unInit ==
  /\ pc.pull = "unInit"
  /\ rtmp' = FALSE /\ packet' = FALSE
  /\ pc' = [pc EXCEPT !.pull = "end"]
  /\ UNCHANGED <<PullVars, is_pulling, mediaVars, pending, ended_itself>>

finish ==
  /\ pc.pull = "end"
  /\ is_pulling' = FALSE
  /\ pc' = [pc EXCEPT !.pull = "done"]
  /\ UNCHANGED <<PullVars, rtmpVars, mediaVars, pending, ended_itself>>

----------------------------------------------------------------------------
GuiStep == join \/ release
PullStep == init \/ check \/ readNothing \/ readFails \/ handleVideo \/ handleAudioInfo \/ unInit \/ finish

(* The program was terminated, or the user has played often enough.         *)
Over ==
  /\ aborted \/ (streams = MaxStreams /\ pc.gui = "idle" /\ ~is_playing)
  /\ UNCHANGED vars

Next ==
  \/ ~aborted /\ (play \/ playAudio \/ stopAudio \/ stop \/ onNewFrameReceived)
  \/ ~aborted /\ GuiStep
  \/ ~aborted /\ PullStep
  \/ Over

Spec == Init /\ [][Next]_vars

(* The GUI thread and the pull thread keep running; RTMP calls return       *)
(* (Link.timeout = 5).  The user owes nothing.                              *)
FairSpec == Spec /\ WF_vars(~aborted /\ GuiStep) /\ WF_vars(~aborted /\ PullStep)

----------------------------------------------------------------------------
(* Types of the members. *)
TypeOK ==
  /\ is_playing \in BOOLEAN /\ is_playing_audio \in BOOLEAN /\ is_pulling \in BOOLEAN
  /\ p_rtmp_pull_thread \in BOOLEAN /\ rtmp \in BOOLEAN /\ packet \in BOOLEAN
  /\ audio \in BOOLEAN /\ frame \in BOOLEAN
  /\ outputs \in 0..MaxOutputs /\ repeated \in 0..MaxOutputs
  /\ pending \in 0..MaxPending /\ streams \in 0..MaxStreams
  /\ ended_itself \in BOOLEAN /\ aborted \in BOOLEAN
  /\ pc \in [gui : {"idle", "join", "free"},
             pull : {"none", "init", "loop", "read", "unInit", "end", "done"}]

(* stop deletes the audio output, the frame and the encoder without a lock: *)
(* at that moment the pull thread has executed its last statement, also     *)
(* when VideoCapture::stop returned early because is_pulling was false.     *)
FreedWhenAlone == pc.gui = "free" => pc.pull \in {"none", "done"} /\ ~is_pulling

(* A window that is not playing holds no frame of the old size, no thread   *)
(* that still pulls and no RTMP packet of its last stream.  Of its audio    *)
(* outputs it leaves started exactly those that a later description of the  *)
(* sound replaced (VideoCtrl.cpp:52): a window whose streams described      *)
(* their sound once each leaves none.                                       *)
StoppedWindowIsClean ==
  pc.gui = "idle" /\ ~is_playing =>
    ~frame /\ ~is_pulling /\ ~packet /\ ~audio /\ outputs = repeated

(* A window that was stopped may still show frames that were queued before, *)
(* as flush does not reach the event loop, but no new ones come: the number *)
(* of frames queued only falls until the window is played again.            *)
NoFrameAfterStop == [][~is_playing /\ ~is_playing' => pending' <= pending]_vars

(* std::terminate in start needs a stream that ended by itself; playing and *)
(* stopping in any rhythm never gets there.                                 *)
TerminateNeedsBrokenStream == aborted => ended_itself

(* What holds of a window between any two steps of its threads: the members *)
(* have their types, what stop frees nobody uses, a stopped window is clean *)
(* but for the outputs that were replaced, and std::terminate needs a       *)
(* broken stream.                                                           *)
WindowIsSafe == TypeOK /\ FreedWhenAlone /\ StoppedWindowIsClean /\ TerminateNeedsBrokenStream

(* What MainCtrl relies on: a window that is played and stopped, whose      *)
(* stream may end by itself.  A stream counts as running until stop has     *)
(* joined its thread.                                                       *)
Window == INSTANCE WindowStream WITH
  Windows <- {"window"},
  playing <- [w \in {"window"} |-> is_playing /\ pc.gui # "free"],
  stream <- [w \in {"window"} |->
               IF ~p_rtmp_pull_thread THEN "none"
               ELSE IF is_pulling \/ pc.gui = "join" THEN "running" ELSE "ended"],
  terminated <- aborted
ImplementsWindow == Window!Spec

(* stop returns: the GUI thread does not wait for a thread that pulls on.   *)
StopReturns == pc.gui # "idle" ~> pc.gui = "idle"
=============================================================================
