----------------------------- MODULE FlvPlayer -----------------------------
(***************************************************************************)
(* The player of recordings: FlvPlayer.cpp with the buttons of main.qml    *)
(* that call it through RecordCtrl.  The feed thread reads the file tag by *)
(* tag and hands video to the decoder; the GUI thread starts, stops,       *)
(* pauses and steps; stepping by seconds runs in detached threads, which   *)
(* outlive stop.  The position in the file is under file_mutex, the flags  *)
(* are not.                                                                *)
(*                                                                         *)
(* A file is the sequence of its tags: "I" and "P" are video frames, "S"   *)
(* is video that describes the stream, "A" is anything else.  Position 0   *)
(* is before the header of the file, position i before the tag i.          *)
(***************************************************************************)
EXTENDS Integers, Sequences, FiniteSetsExt

CONSTANTS
  Files,     \* the recordings; each has a video frame
  Jumps,     \* numbers of frames a step by seconds may ask for: sec * fps
  Steppers,  \* bound: step threads alive at a time
  MaxRuns    \* bound: how often a recording is started

ASSUME FilesAssumption ==
  /\ \A f \in Files : f \in Seq({"I", "P", "S", "A"}) /\ \E i \in DOMAIN f : f[i] \in {"I", "P"}
  /\ Jumps \subseteq Int /\ MaxRuns \in Nat

VARIABLES
  tags, file_open,              \* the file of file_fd
  pos,                          \* cur_idx and the offset of file_fd
  is_playing, is_pause, step_one_frame,
  is_regulating, regulate_tag_count, need_I_frame,
  feed, gui,                    \* where the feed thread and the GUI thread are
  steppers,                     \* where each step thread is, and how many frames it steps
  button,                       \* btn_play.is_pause of main.qml
  shown,                        \* the last frame this run handed over to be shown, 0 for none
  decoded,                      \* the last frame handed over, 0 if a frame it needs was not
  expected,                     \* the frame a single step has to show, 0 for any
  astray,                       \* a step has worked on no position in the file
  runs                          \* counts the starts

fileVars == <<tags, file_open>>
flagVars == <<is_playing, is_pause>>
regulateVars == <<is_regulating, regulate_tag_count, need_I_frame>>
decoderVars == <<shown, decoded>>
ghostVars == <<astray, runs>>
vars == <<fileVars, pos, flagVars, step_one_frame, regulateVars, feed, gui, steppers, button,
          decoderVars, expected, ghostVars>>

NoStep == [at |-> "none", count |-> 0]

Init ==
  /\ tags \in Files /\ file_open = FALSE
  /\ pos = 0
  /\ is_playing = FALSE /\ is_pause = FALSE /\ step_one_frame = FALSE
  /\ is_regulating = FALSE /\ regulate_tag_count = 0 /\ need_I_frame = FALSE
  /\ feed = "none" /\ gui = "idle"
  /\ steppers = [t \in Steppers |-> NoStep]
  /\ button = FALSE
  /\ shown = 0 /\ decoded = 0 /\ expected = 0
  /\ astray = FALSE /\ runs = 0

----------------------------------------------------------------------------
(* Tags of the file. *)
End == Len(tags) + 1
Video == {i \in DOMAIN tags : tags[i] # "A"}
Frames == {i \in DOMAIN tags : tags[i] \in {"I", "P"}}
IFrames == {i \in DOMAIN tags : tags[i] = "I"}
LastOf(S) == IF S = {} THEN 0 ELSE Max(S)
FrameBefore(p) == LastOf({i \in Frames : i < p})

(* Where the first loop of step_by_frame ends: at the n-th frame behind the *)
(* tag it starts from, or at the end of the file.                           *)
Forward(p, n) ==
  LET reached == {i \in Frames : i > p /\ Cardinality({j \in Frames : p < j /\ j <= i}) = n}
  IN  IF reached = {} THEN End ELSE Max(reached)

(* At the n-th frame before it, or at the first tag. *)
Backward(p, n) ==
  LET reached == {i \in Frames : i < p /\ Cardinality({j \in Frames : i <= j /\ j < p}) = n}
  IN  IF reached = {} THEN 1 ELSE Max(reached)

(* From the end of the file it goes back to the last video tag. *)
Landing(p, n) ==
  LET q == IF n > 0 THEN Forward(p, n) ELSE Backward(p, -n)
  IN  IF q = End THEN LastOf(Video) ELSE q

(* The mutex is held between reading a tag and the end of the iteration, by *)
(* a thread that loops for ever, and else only within a step.               *)
Spinning == gui = "spin" \/ \E t \in Steppers : steppers[t].at = "spin"
MutexFree == feed # "rest" /\ ~Spinning

NoSteppers == \A t \in Steppers : steppers[t] = NoStep

----------------------------------------------------------------------------
(* step_by_frame, under the mutex, for a position behind the header: to an  *)
(* I frame it jumps; to another tag it jumps to the I frame before, and the *)
(* feed thread decodes the tags between without showing them; without an I  *)
(* frame before it starts at the first tag and waits for one.               *)

(* Mutation: the tag the I frame was found at is not counted. *)
step_by_frame_CountingLate(count) ==
  IF is_regulating \/ count = 1
  THEN UNCHANGED <<pos, regulateVars>>
  ELSE LET q == Landing(pos, count - 1)
           start == LastOf({i \in IFrames : i < q})
       IN  IF q \in IFrames
           THEN pos' = q /\ UNCHANGED regulateVars
           ELSE /\ pos' = IF start = 0 THEN 1 ELSE start
                /\ is_regulating' = (start # 0)
                /\ need_I_frame' = (need_I_frame \/ start = 0)
                /\ regulate_tag_count' = Cardinality({i \in Video : pos' < i /\ i < q})

(* Mutation: it stays at a frame that is not an I frame. *)
step_by_frame_WithoutI(count) ==
  IF is_regulating \/ count = 1
  THEN UNCHANGED <<pos, regulateVars>>
  ELSE pos' = Landing(pos, count - 1) /\ UNCHANGED regulateVars

step_by_frame(count) ==
  IF is_regulating \/ count = 1
  THEN UNCHANGED <<pos, regulateVars>>
  ELSE LET q == Landing(pos, count - 1)
           start == LastOf({i \in IFrames : i < q})
       IN  IF q \in IFrames
           THEN pos' = q /\ UNCHANGED regulateVars
           ELSE /\ pos' = IF start = 0 THEN 1 ELSE start
                /\ is_regulating' = (start # 0)
                /\ need_I_frame' = (need_I_frame \/ start = 0)
                /\ regulate_tag_count' = Cardinality({i \in Video : pos' <= i /\ i < q})

----------------------------------------------------------------------------
(* The feed thread. *)

(* The first lines of feed_task. *)
feedReset ==
  /\ feed = "start"
  /\ pos' = 0
  /\ feed' = "check"
  /\ UNCHANGED <<fileVars, flagVars, step_one_frame, regulateVars, gui, steppers, button,
                 decoderVars, expected, ghostVars>>

(* The loop condition, and the wait while the player pauses. *)
feedCheck ==
  /\ feed = "check"
  /\ ~is_playing \/ ~is_pause \/ step_one_frame
  /\ feed' = IF is_playing THEN "lock" ELSE "done"
  /\ UNCHANGED <<fileVars, pos, flagVars, step_one_frame, regulateVars, gui, steppers, button,
                 decoderVars, expected, ghostVars>>

(* At the end of the file or behind its header. *)
feedNoTag ==
  /\ feed = "lock" /\ MutexFree
  /\ pos \in {0, End}
  /\ pos' = IF pos = 0 THEN 1 ELSE pos
  /\ feed' = "check"
  /\ UNCHANGED <<fileVars, flagVars, step_one_frame, regulateVars, gui, steppers, button,
                 decoderVars, expected, ghostVars>>

(* Reading a tag and handle_tag: P frames are left out until an I frame.    *)
feedTag ==
  /\ feed = "lock" /\ MutexFree
  /\ pos \notin {0, End}
  /\ IF pos \in IFrames \/ (pos \in Frames /\ ~need_I_frame)
     THEN /\ decoded' = IF pos \in IFrames \/ decoded = FrameBefore(pos) THEN pos ELSE 0
          /\ shown' = IF is_regulating THEN shown ELSE pos
          /\ need_I_frame' = FALSE
     ELSE UNCHANGED <<decoderVars, need_I_frame>>
  /\ feed' = "rest"
  /\ UNCHANGED <<fileVars, pos, flagVars, step_one_frame, is_regulating, regulate_tag_count, gui,
                 steppers, button, expected, ghostVars>>

(* Mutation: a step ends with the next tag, shown or not. *)
feedRest_AnyTag ==
  /\ feed = "rest"
  /\ step_one_frame' = FALSE
  /\ IF is_regulating /\ pos \in Video
     THEN /\ regulate_tag_count' = regulate_tag_count - 1
          /\ is_regulating' = (regulate_tag_count' # 0)
     ELSE UNCHANGED <<is_regulating, regulate_tag_count>>
  /\ pos' = pos + 1
  /\ feed' = "check"
  /\ UNCHANGED <<fileVars, flagVars, need_I_frame, gui, steppers, button, decoderVars, expected,
                 ghostVars>>

(* The rest of the iteration: the end of a single step, and the count of    *)
(* the tags that are decoded without being shown.                           *)
feedRest ==
  /\ feed = "rest"
  /\ step_one_frame' = (step_one_frame /\ (is_regulating \/ pos \notin Frames))
  /\ IF is_regulating /\ pos \in Video
     THEN /\ regulate_tag_count' = regulate_tag_count - 1
          /\ is_regulating' = (regulate_tag_count' # 0)
     ELSE UNCHANGED <<is_regulating, regulate_tag_count>>
  /\ pos' = pos + 1
  /\ feed' = "check"
  /\ UNCHANGED <<fileVars, flagVars, need_I_frame, gui, steppers, button, decoderVars, expected,
                 ghostVars>>

----------------------------------------------------------------------------
(* The GUI thread. *)

(* set_file_path and start; the other flags keep what the run before left.  *)
start ==
  /\ gui = "idle" /\ ~is_playing
  /\ runs < MaxRuns
  /\ tags' \in Files /\ file_open' = TRUE
  /\ is_playing' = TRUE /\ is_pause' = FALSE
  /\ need_I_frame' = TRUE
  /\ feed' = "start"
  /\ button' = FALSE
  /\ shown' = 0 /\ expected' = 0
  /\ runs' = runs + 1
  /\ UNCHANGED <<pos, step_one_frame, is_regulating, regulate_tag_count, gui, steppers, decoded,
                 astray>>

(* Mutation: the feed thread is left in its pause. *)
stop_WhilePaused ==
  /\ gui = "idle" /\ is_playing
  /\ is_pause' = FALSE
  /\ gui' = "join"
  /\ expected' = 0
  /\ UNCHANGED <<fileVars, is_playing, pos, step_one_frame, regulateVars, feed, steppers, button,
                 decoderVars, ghostVars>>

stop ==
  /\ gui = "idle" /\ is_playing
  /\ is_playing' = FALSE /\ is_pause' = FALSE
  /\ gui' = "join"
  /\ expected' = 0
  /\ UNCHANGED <<fileVars, pos, step_one_frame, regulateVars, feed, steppers, button, decoderVars,
                 ghostVars>>

join ==
  /\ gui = "join" /\ feed = "done"
  /\ feed' = "none" /\ file_open' = FALSE
  /\ button' = FALSE
  /\ gui' = "idle"
  /\ UNCHANGED <<tags, pos, flagVars, step_one_frame, regulateVars, steppers, decoderVars, expected,
                 ghostVars>>

pause ==
  /\ gui = "idle" /\ is_playing
  /\ is_pause' = ~is_pause
  /\ button' = ~button
  /\ expected' = 0
  /\ UNCHANGED <<fileVars, pos, is_playing, step_one_frame, regulateVars, feed, gui, steppers,
                 decoderVars, ghostVars>>

(* The player pauses at the frame it shows, and nothing else goes on. *)
Settled ==
  /\ is_pause /\ feed = "check" /\ ~step_one_frame /\ ~is_regulating /\ NoSteppers
  /\ shown # 0 /\ shown = FrameBefore(pos)

step_one_frame_forward ==
  /\ gui = "idle" /\ is_playing
  /\ is_pause' = TRUE /\ step_one_frame' = TRUE
  /\ button' = TRUE
  /\ expected' = IF Settled /\ pos <= Max(Frames) THEN Min({i \in Frames : i >= pos}) ELSE 0
  /\ UNCHANGED <<fileVars, pos, is_playing, regulateVars, feed, gui, steppers, decoderVars,
                 ghostVars>>

(* Up to step_by_frame, which waits for the mutex. *)
step_one_frame_backward ==
  /\ gui = "idle" /\ is_playing
  /\ is_pause' = TRUE
  /\ gui' = "stepLock"
  /\ expected' = IF Settled THEN LastOf({i \in Frames : i < shown /\ \E j \in IFrames : j <= i}) ELSE 0
  /\ UNCHANGED <<fileVars, pos, is_playing, step_one_frame, regulateVars, feed, steppers, button,
                 decoderVars, ghostVars>>

(* step_by_frame in a closed file, before feed_task has reset the position  *)
(* or before the header: reads and seeks fail and the tag in memory is one  *)
(* of before, so that its loops end anywhere or never.                      *)
InFile == file_open /\ feed # "start" /\ pos # 0
Astray == ~InFile /\ ~is_regulating

LoopsEnd ==
  /\ pos # 0
  /\ is_regulating' \in BOOLEAN
  /\ regulate_tag_count' \in 1..Len(tags)
  /\ need_I_frame' \in {need_I_frame, TRUE}

stepBackLocked ==
  /\ gui = "stepLock" /\ MutexFree
  /\ \/ ~Astray /\ step_by_frame(-1) /\ gui' = "stepFlag"
     \/ Astray /\ LoopsEnd /\ gui' = "stepFlag" /\ UNCHANGED pos
     \/ Astray /\ gui' = "spin" /\ UNCHANGED <<pos, regulateVars>>
  /\ astray' = (astray \/ Astray)
  /\ UNCHANGED <<fileVars, flagVars, step_one_frame, feed, steppers, button, decoderVars, expected,
                 runs>>

stepBackFlag ==
  /\ gui = "stepFlag"
  /\ step_one_frame' = TRUE
  /\ button' = TRUE
  /\ gui' = "idle"
  /\ UNCHANGED <<fileVars, pos, flagVars, regulateVars, feed, steppers, decoderVars, expected,
                 ghostVars>>

step_by_seconds(t, count) ==
  /\ gui = "idle" /\ is_playing
  /\ steppers[t] = NoStep
  /\ is_pause' = TRUE
  /\ steppers' = [steppers EXCEPT ![t] = [at |-> "lock", count |-> count]]
  /\ button' = FALSE
  /\ expected' = 0
  /\ UNCHANGED <<fileVars, pos, is_playing, step_one_frame, regulateVars, feed, gui, decoderVars,
                 ghostVars>>

----------------------------------------------------------------------------
(* A step thread. *)
stepLocked(t) ==
  /\ steppers[t].at = "lock" /\ MutexFree
  /\ LET count == steppers[t].count
         goTo(at) == steppers' = [steppers EXCEPT ![t].at = at]
     IN  \/ (~Astray \/ count = 1) /\ step_by_frame(count) /\ goTo("unpause")
         \/ Astray /\ count # 1 /\ LoopsEnd /\ goTo("unpause") /\ UNCHANGED pos
         \/ Astray /\ count # 1 /\ goTo("spin") /\ UNCHANGED <<pos, regulateVars>>
  /\ astray' = (astray \/ Astray)
  /\ UNCHANGED <<fileVars, flagVars, step_one_frame, feed, gui, button, decoderVars, expected, runs>>

stepUnpause(t) ==
  /\ steppers[t].at = "unpause"
  /\ is_pause' = FALSE
  /\ steppers' = [steppers EXCEPT ![t] = NoStep]
  /\ UNCHANGED <<fileVars, pos, is_playing, step_one_frame, regulateVars, feed, gui, button,
                 decoderVars, expected, ghostVars>>

----------------------------------------------------------------------------
FeedStep == feedReset \/ feedCheck \/ feedNoTag \/ feedTag \/ feedRest
GuiStep == join \/ stepBackFlag
User ==
  \/ start \/ stop \/ pause \/ step_one_frame_forward \/ step_one_frame_backward
  \/ \E t \in Steppers, count \in Jumps : step_by_seconds(t, count)
Stepper(t) == stepLocked(t) \/ stepUnpause(t)

(* The user has seen enough, or the GUI thread waits for a thread that      *)
(* holds the mutex for ever.                                                *)
Over ==
  /\ Spinning \/ (runs = MaxRuns /\ ~is_playing /\ NoSteppers)
  /\ UNCHANGED vars

Next == FeedStep \/ GuiStep \/ stepBackLocked \/ User \/ (\E t \in Steppers : Stepper(t)) \/ Over

Spec == Init /\ [][Next]_vars

----------------------------------------------------------------------------
(* Types of the members; the position stays within the file.                *)
TypeOK ==
  /\ tags \in Files /\ file_open \in BOOLEAN
  /\ pos \in Nat /\ (file_open /\ feed # "start" => pos <= End)
  /\ is_playing \in BOOLEAN /\ is_pause \in BOOLEAN /\ step_one_frame \in BOOLEAN
  /\ is_regulating \in BOOLEAN /\ regulate_tag_count \in Nat /\ need_I_frame \in BOOLEAN
  /\ feed \in {"none", "start", "check", "lock", "rest", "done"}
  /\ gui \in {"idle", "join", "stepLock", "stepFlag", "spin"}
  /\ steppers \in [Steppers -> [at : {"none", "lock", "unpause", "spin"}, count : Jumps \union {0}]]
  /\ button \in BOOLEAN /\ shown \in Nat /\ decoded \in Nat /\ expected \in Nat
  /\ astray \in BOOLEAN /\ runs \in 0..MaxRuns

(* Regulating counts down the tags that are left, so that it ends, and ends *)
(* at the frame the step was for.                                           *)
RegulatingCounts == is_regulating /\ ~astray => regulate_tag_count > 0

(* Types, and the bound of the position, together with the count.           *)
PlayerInv == TypeOK /\ RegulatingCounts

(* In a player that pauses, a single step shows the next frame or the one   *)
(* before, whatever lies between the frames and wherever the I frames are.  *)
SingleStepIsExact == [][step_one_frame /\ ~step_one_frame' /\ expected # 0 => shown = expected]_vars

(* stop and a step back return, unless a step thread loops with the mutex.  *)
GuiReturns == gui # "idle" ~> gui = "idle" \/ Spinning

(* Decoding without showing ends, in a player that is not paused or stopped *)
(* and whose step threads kept to their run.                                *)
RegulatingEnds == is_regulating ~> ~is_regulating \/ is_pause \/ ~is_playing \/ astray

(* main.qml:961: the button offers to pause a player that plays and to play *)
(* one that pauses.                                                         *)
ButtonTellsState ==
  is_playing /\ gui = "idle" /\ NoSteppers => button = is_pause
=============================================================================
