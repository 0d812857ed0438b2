---------------------------- MODULE RecordScreen ----------------------------
(***************************************************************************)
(* What a recording shows: FlvPlayer with the decoder and the surface of   *)
(* RecordCtrl.cpp behind it.  The parser of FFmpeg knows the end of a      *)
(* picture only from the beginning of the next, so that every picture      *)
(* comes out when the next frame, or the next description of the stream,   *)
(* goes in, and is then shown or not as that one asks.  The decoder lives  *)
(* as long as the window: the last picture of a recording stays in it.     *)
(*                                                                         *)
(* The codec delivers a picture with its packet, as the encoder makes no B *)
(* frames (VideoChannel.cpp).                                              *)
(*                                                                         *)
(* The feed thread emits a picture only when it can map the frame that all *)
(* pictures are copied into; the signal waits in the event loop of the GUI *)
(* thread, which presents it.  FramePath has the render thread, which maps *)
(* the frame to read it, and what the frame holds when a copy is drawn:    *)
(* here the render thread may have it mapped at any time.                  *)
(***************************************************************************)
EXTENDS FlvPlayer

CONSTANT MaxQueued  \* bound: pictures of a run that plays in the event loop

ASSUME QueueAssumption == MaxQueued \in Nat \ {0}

VARIABLES
  held,     \* the picture whose data the parser has, with the number of its run
  emitted,  \* the picture this run has emitted last, Nothing if none
  queued,   \* the pictures in the event loop of the GUI thread
  screen,   \* the picture on the surface
  missed,   \* the last picture that was due was not emitted, as the frame could not be mapped
  from      \* the frame emitted last when a single step began in a player at rest, else 0

emitVars == <<emitted, queued, missed>>
screenVars == <<held, emitVars, screen, from>>
allVars == <<vars, screenVars>>

Nothing == [run |-> 0, frame |-> 0, whole |-> FALSE]

ScreenInit ==
  /\ Init
  /\ held = Nothing /\ emitted = Nothing /\ queued = <<>> /\ screen = Nothing
  /\ missed = FALSE /\ from = 0

(* What the window shows when the event loop has caught up. *)
Newest == IF queued = <<>> THEN screen ELSE queued[Len(queued)]

----------------------------------------------------------------------------
emit ==
  /\ emitted' = held
  /\ queued' = Append(queued, held)
  /\ missed' = FALSE

drop == missed' = TRUE /\ UNCHANGED <<emitted, queued>>

(* Mutation: play is taken the other way round. *)
showFrame_Inverted ==
  LET due == held # Nothing /\ is_regulating
  IN  (due /\ emit) \/ (due /\ drop) \/ (~due /\ UNCHANGED emitVars)

(* The picture the parser held comes out of the decoder: when it is to be   *)
(* shown it is copied into the frame and the signal emitted; it is dropped  *)
(* when the frame cannot be mapped.                                         *)
showFrame ==
  LET due == held # Nothing /\ ~is_regulating
  IN  (due /\ emit) \/ (due /\ drop) \/ (~due /\ UNCHANGED emitVars)

(* What is handed over: a frame, or the description of the stream.          *)
HandsFrame == pos \in IFrames \/ (pos \in Frames /\ ~need_I_frame)
Begun ==
  IF HandsFrame THEN [run |-> runs, frame |-> pos, whole |-> decoded' = pos] ELSE Nothing

(* The callback of RecordCtrl for a tag. *)
receiveData ==
  IF HandsFrame \/ tags[pos] = "S"
  THEN held' = Begun /\ showFrame
  ELSE UNCHANGED <<held, emitVars>>

(* RecordCtrl::stop flushes the surface when FlvPlayer::stop is done, and   *)
(* also in a player that was not playing.  Pictures in the event loop stay. *)
flush == screen' = Nothing

stopped ==
  /\ join /\ flush
  /\ emitted' = Nothing
  /\ UNCHANGED <<held, queued, missed, from>>

stopAgain ==
  /\ gui = "idle" /\ ~is_playing
  /\ flush
  /\ UNCHANGED <<vars, held, emitVars, from>>

----------------------------------------------------------------------------
(* Mutation: the newest picture is presented first. *)
onNewFrameReceived_NewestFirst ==
  /\ gui = "idle" /\ queued # <<>>
  /\ screen' = queued[Len(queued)]
  /\ queued' = SubSeq(queued, 1, Len(queued) - 1)
  /\ UNCHANGED <<vars, held, emitted, missed, from>>

(* FrameProvider::onNewFrameReceived, called by the event loop when the GUI *)
(* thread is not in a call of the player.                                   *)
onNewFrameReceived ==
  /\ gui = "idle" /\ queued # <<>>
  /\ screen' = Head(queued)
  /\ queued' = Tail(queued)
  /\ UNCHANGED <<vars, held, emitted, missed, from>>

----------------------------------------------------------------------------
(* A player at rest, the last frame it has handed over still in the parser  *)
(* and the one before it emitted last: a recording that was played and      *)
(* paused.  A single step back then expects the frame that was emitted      *)
(* last, and one forward a later frame.                                     *)
AtRest ==
  /\ Settled /\ ~missed
  /\ held.run = runs /\ held.frame = shown
  /\ emitted.run = runs /\ emitted.frame = FrameBefore(shown)

Receive == feedTag /\ receiveData /\ UNCHANGED <<screen, from>>

SingleStep == step_one_frame_forward \/ step_one_frame_backward

Press ==
  \/ start \/ stop \/ pause
  \/ \E t \in Steppers, count \in Jumps : step_by_seconds(t, count)

(* The feed thread sleeps after each picture it has emitted (sleep_once),   *)
(* so that a player that plays does not run ahead of the event loop, but    *)
(* while the GUI thread waits for the end of the feed thread.               *)
NotAhead == Cardinality({i \in DOMAIN queued : queued[i].run = runs}) < MaxQueued

FeedGoesOn ==
  /\ feedReset \/ feedRest \/ (feedCheck /\ (gui # "join" => NotAhead))
  /\ UNCHANGED screenVars

FeedSkips == feedNoTag /\ UNCHANGED screenVars
GuiGoesOn == stopped \/ (stepBackFlag /\ UNCHANGED screenVars)
GuiSteps == stepBackLocked /\ UNCHANGED screenVars
StepperGoesOn(t) == Stepper(t) /\ UNCHANGED screenVars

ScreenNext ==
  \/ Receive \/ FeedSkips \/ FeedGoesOn
  \/ stopAgain \/ GuiGoesOn \/ GuiSteps
  \/ onNewFrameReceived
  \/ \E t \in Steppers : StepperGoesOn(t)
  \/ /\ SingleStep
     /\ from' = IF AtRest THEN emitted.frame ELSE 0
     /\ UNCHANGED <<held, emitVars, screen>>
  \/ Press /\ from' = 0 /\ UNCHANGED <<held, emitVars, screen>>
  \/ Over /\ UNCHANGED screenVars

ScreenSpec == ScreenInit /\ [][ScreenNext]_allVars

(* Threads go on; a thread that waits for the mutex gets it although the    *)
(* feed thread takes it again and again (request_step makes it sleep). What *)
(* is posted to the event loop is not passed over for ever.                 *)
ScreenFairSpec ==
  /\ ScreenSpec
  /\ WF_allVars(FeedGoesOn) /\ SF_allVars(Receive \/ FeedSkips)
  /\ WF_allVars(GuiGoesOn) /\ SF_allVars(GuiSteps)
  /\ \A t \in Steppers : SF_allVars(StepperGoesOn(t))
  /\ SF_allVars(onNewFrameReceived)

----------------------------------------------------------------------------
(* A picture that is emitted was decoded from all it depends on, also the   *)
(* one that was decoded on the way to another and shown late                *)
(* (RecordCtrl.cpp:73); so was every one that comes to the screen.          *)
PictureIsWhole ==
  [][/\ Len(queued') > Len(queued) => emitted'.whole
     /\ screen' # screen /\ screen' # Nothing => screen'.whole]_allVars

(* The pictures of an older recording come before those of a newer: a run   *)
(* emits one of a recording before at most, as its first, and the screen    *)
(* never goes back to an older recording, although pictures that were       *)
(* emitted while stop waited come to it behind the flush.                   *)
OldPictureComesFirst ==
  [][/\ Len(queued') > Len(queued) /\ held.run # runs => emitted = Nothing
     /\ screen' # Nothing => screen.run <= screen'.run]_allVars

(* In a player at rest, a single step forward emits the frame that the      *)
(* player has handed over last, and nothing later is on its way to the      *)
(* screen, on whatever frame the step ends and whatever tags lie between;   *)
(* unless the frame could not be mapped when the picture came out, as the   *)
(* render thread was reading it: it is then not shown (RecordCtrl.cpp:72).  *)
StepForwardShowsNext ==
  [][step_one_frame /\ ~step_one_frame' /\ from # 0 /\ expected > from =>
       Newest.frame = FrameBefore(expected) \/ missed]_allVars

(* Single steps are exact on both sides: the player hands over the frame    *)
(* that was asked for, and a step forward also shows what is due.           *)
StepsAreExact == SingleStepIsExact /\ StepForwardShowsNext

(* A frame that was handed over to be shown comes to the screen, without    *)
(* another key being pressed, when frames are left behind it; unless the    *)
(* frame could not be mapped when its picture came out of the decoder       *)
(* (RecordCtrl.cpp:72), which then holds another already.  What was emitted *)
(* comes to the screen whatever is pressed.                                 *)
FrameComesToScreen ==
  \A i \in 1..Max({Len(f) : f \in Files}) :
    /\ shown = i /\ held.frame = i /\ i \in Frames /\ i # Max(Frames) ~>
         screen.frame = i \/ (missed /\ held.frame # i) \/ is_pause \/ ~is_playing \/ is_regulating
    /\ queued # <<>> /\ Newest.frame = i ~> screen.frame = i \/ Spinning
=============================================================================
