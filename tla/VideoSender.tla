---------------------------- MODULE VideoSender ----------------------------
(***************************************************************************)
(* VideoSender (VideoSender.cpp): the camera and the microphone of the     *)
(* operator pushed to an RTMP server during a talk.  Three threads share   *)
(* its members:                                                            *)
(*   gui    runs the talk item of the menu of main.qml (push, openAudio,   *)
(*          stop) and receives the camera's frames (receiveOneFrame);      *)
(*   push   the rtmp_push_thread: connects, pops packets, sends them;      *)
(*   audio  the audio_data_thread: reads the microphone, encodes, queues.  *)
(* gui and audio produce packets through RTMPPacketCallBack, which stamps  *)
(* a packet and then pushes it into the SafeQueue; push consumes them.     *)
(*                                                                         *)
(* A step is one access to a member another thread may change at that      *)
(* moment, or one call of a SafeQueue method, and what its thread does     *)
(* alone until the next one.  The flags are plain bools; the threads read  *)
(* them around calls of other translation units, so that each access is    *)
(* one load or one store of the build.                                     *)
(***************************************************************************)
EXTENDS Naturals, Sequences

CONSTANTS
  MaxSessions,  \* bound: how often the user starts a talk
  MaxPackets    \* bound: packets of camera frames and microphone buffers

ASSUME BoundsAssumption == MaxSessions \in Nat /\ MaxPackets \in Nat

Producers == {"gui", "audio"}
Threads == Producers \cup {"push"}

(* Bound: the packets one frame or one buffer of samples is turned into.    *)
Burst == 1..2

(* A packet: who made it, in which session, and the value of                *)
(* push_start_time its time stamp was computed from (0: not yet written).   *)
(* id stands for the pointer; openAudio makes one more packet per session.  *)
PacketIds == 1..(MaxPackets + MaxSessions)
Packet == [id : PacketIds, src : Producers, session : 1..MaxSessions, base : 0..MaxSessions]
NoPacket == [id |-> 0, src |-> "gui", session |-> 0, base |-> 0]

VARIABLES
  is_pushing, is_pushing_audio,        \* the two flags
  \* written by the gui thread only
  rtmp_push_thread, audio_data_thread, \* TRUE: the pointer owns a thread nobody joined
  audioChannel,                        \* TRUE: not null
  camera_active,                       \* camera.cameraState of main.qml
  session,                             \* counts the calls of push
  aborted,                             \* std::terminate was called
  \* written by the push thread only
  push_start_time,                     \* the session whose thread wrote it, 0 before
  packet,                              \* what it popped and did not free yet
  freed,                               \* what it freed
  sent,                                \* what RTMP_SendPacket delivered, in order
  ended_itself,                        \* it left its loop although nobody called stop
  \* of the producers
  stamped,                             \* each one's packet between time stamp and push
  left,                                \* packets each one's call still has to make
  next_id, issued,                     \* name the packets, bound the frames and buffers
  que, work_flag, waiting, released,   \* the SafeQueue `packets`
  pc

flagVars == <<is_pushing, is_pushing_audio>>
guiVars == <<rtmp_push_thread, audio_data_thread, audioChannel, camera_active, session, aborted>>
pushVars == <<push_start_time, packet, freed, sent, ended_itself>>
producerVars == <<stamped, left, next_id, issued>>
queueVars == <<que, work_flag, waiting, released>>
vars == <<flagVars, guiVars, pushVars, producerVars, queueVars, pc>>

packets == INSTANCE SafeQueue WITH Elements <- Packet, Consumers <- {"push"}

Init ==
  /\ is_pushing = FALSE /\ is_pushing_audio = FALSE
  /\ rtmp_push_thread = FALSE /\ audio_data_thread = FALSE /\ audioChannel = FALSE
  /\ camera_active = FALSE /\ session = 0 /\ aborted = FALSE
  /\ push_start_time = 0 /\ packet = NoPacket /\ freed = {} /\ sent = << >>
  /\ ended_itself = FALSE
  /\ stamped = [p \in Producers |-> NoPacket] /\ left = [p \in Producers |-> 0]
  /\ next_id = 1 /\ issued = 0
  /\ packets!Init
  /\ pc = [t \in Threads |-> IF t = "gui" THEN "idle" ELSE "none"]

Goto(t, from, to) == pc[t] = from /\ pc' = [pc EXCEPT ![t] = to]

----------------------------------------------------------------------------
(* RTMPPacketCallBack, in two steps: the time stamp is computed before the  *)
(* queue's mutex is taken.                                                  *)

(* Where a producer goes on once its call made its last packet: the camera  *)
(* is started after openAudio, so the call of a frame finds it active.      *)
Resume(p) ==
  IF p = "audio" THEN "loop" ELSE IF camera_active THEN "idle" ELSE "start_audio"

StampPacket(p) ==
  /\ Goto(p, "stamp", "enqueue")
  /\ stamped' = [stamped EXCEPT ![p] =
       [id |-> next_id, src |-> p, session |-> session, base |-> push_start_time]]
  /\ next_id' = next_id + 1
  /\ left' = [left EXCEPT ![p] = @ - 1]
  /\ UNCHANGED <<flagVars, guiVars, pushVars, queueVars, issued>>

EnqueuePacket(p) ==
  /\ Goto(p, "enqueue", IF left[p] = 0 THEN Resume(p) ELSE "stamp")
  /\ packets!push(stamped[p])
  /\ stamped' = [stamped EXCEPT ![p] = NoPacket]
  /\ UNCHANGED <<flagVars, guiVars, pushVars, left, next_id, issued>>

(* A frame of the camera or a buffer of the microphone becomes packets.     *)
Produce(p) ==
  \E n \in Burst :
    /\ issued + n <= MaxPackets
    /\ issued' = issued + n
    /\ left' = [left EXCEPT ![p] = n]
    /\ pc' = [pc EXCEPT ![p] = "stamp"]
    /\ UNCHANGED <<stamped, next_id>>

----------------------------------------------------------------------------
(* The GUI thread.  main.qml stops an active camera and starts one that is  *)
(* not, so a talk is stopped before the next one starts.                    *)

(* The assignment to rtmp_push_thread destroys the thread object it held,   *)
(* and the destructor of a thread nobody joined calls std::terminate.       *)
push ==
  /\ pc["gui"] = "idle" /\ ~camera_active
  /\ session < MaxSessions
  /\ session' = session + 1
  /\ is_pushing' = TRUE
  /\ rtmp_push_thread' = TRUE
  /\ IF is_pushing
     THEN pc' = [pc EXCEPT !["gui"] = "open_audio"] /\ UNCHANGED aborted
     ELSE /\ pc' = [pc EXCEPT !["gui"] = "open_audio", !["push"] = "connect"]
          /\ aborted' = rtmp_push_thread
  /\ UNCHANGED <<is_pushing_audio, audio_data_thread, audioChannel, camera_active, pushVars,
                 producerVars, queueVars>>

(* openAudio up to its first packet, the decoder description; camera.start  *)
(* when it returns early.                                                   *)
openAudio ==
  /\ IF is_pushing
     THEN /\ Goto("gui", "open_audio", "stamp")
          /\ audioChannel' = TRUE
          /\ left' = [left EXCEPT !["gui"] = 1]
          /\ UNCHANGED camera_active
     ELSE /\ Goto("gui", "open_audio", "idle")
          /\ camera_active' = TRUE
          /\ UNCHANGED <<audioChannel, left>>
  /\ UNCHANGED <<flagVars, rtmp_push_thread, audio_data_thread, session, aborted, pushVars,
                 stamped, next_id, issued, queueVars>>

(* The rest of openAudio, and camera.start() after it.                      *)
startAudioThread ==
  /\ pc["gui"] = "start_audio"
  /\ pc' = [pc EXCEPT !["gui"] = "idle", !["audio"] = "loop"]
  /\ is_pushing_audio' = TRUE
  /\ audio_data_thread' = TRUE
  /\ aborted' = audio_data_thread
  /\ camera_active' = TRUE
  /\ UNCHANGED <<is_pushing, rtmp_push_thread, audioChannel, session, pushVars, producerVars,
                 queueVars>>

receiveOneFrame ==
  /\ pc["gui"] = "idle" /\ camera_active
  /\ is_pushing
  /\ Produce("gui")
  /\ UNCHANGED <<flagVars, guiVars, pushVars, queueVars>>

(* Mutation: stop does not stop the audio thread. *)
stop_ForgettingAudio ==
  /\ pc["gui"] = "idle" /\ camera_active
  /\ \/ /\ ~is_pushing
        /\ camera_active' = FALSE
        /\ UNCHANGED pc
     \/ /\ is_pushing
        /\ pc' = [pc EXCEPT !["gui"] = "stop_flag"]
        /\ UNCHANGED camera_active
  /\ UNCHANGED <<flagVars, rtmp_push_thread, audio_data_thread, audioChannel, session, aborted,
                 pushVars, producerVars, queueVars>>

(* stop up to stopAudio's join; camera.stop() when it returns early.        *)
stop ==
  /\ pc["gui"] = "idle" /\ camera_active
  /\ \/ /\ ~is_pushing
        /\ camera_active' = FALSE
        /\ UNCHANGED <<is_pushing_audio, pc>>
     \/ /\ is_pushing
        /\ is_pushing_audio' = FALSE
        /\ pc' = [pc EXCEPT !["gui"] = IF is_pushing_audio THEN "join_audio" ELSE "stop_flag"]
        /\ UNCHANGED camera_active
  /\ UNCHANGED <<is_pushing, rtmp_push_thread, audio_data_thread, audioChannel, session, aborted,
                 pushVars, producerVars, queueVars>>

joinAudio ==
  /\ pc["gui"] = "join_audio" /\ pc["audio"] = "done"
  /\ pc' = [pc EXCEPT !["gui"] = "stop_flag", !["audio"] = "none"]
  /\ audio_data_thread' = FALSE
  /\ audioChannel' = FALSE
  /\ UNCHANGED <<flagVars, rtmp_push_thread, camera_active, session, aborted, pushVars,
                 producerVars, queueVars>>

(* Mutation: stop forgets to clear is_pushing. *)
stopFlag_Lost ==
  /\ Goto("gui", "stop_flag", "stop_work")
  /\ UNCHANGED <<flagVars, guiVars, pushVars, producerVars, queueVars>>

stopFlag ==
  /\ Goto("gui", "stop_flag", "stop_work")
  /\ is_pushing' = FALSE
  /\ UNCHANGED <<is_pushing_audio, guiVars, pushVars, producerVars, queueVars>>

(* Mutation: stop never turns the queue off. *)
stopWork_Lost ==
  /\ Goto("gui", "stop_work", "stop_clear")
  /\ UNCHANGED <<flagVars, guiVars, pushVars, producerVars, queueVars>>

stopWork ==
  /\ Goto("gui", "stop_work", "stop_clear")
  /\ packets!setWork(0)
  /\ UNCHANGED <<flagVars, guiVars, pushVars, producerVars>>

stopClear ==
  /\ Goto("gui", "stop_clear", "join_push")
  /\ packets!clear
  /\ UNCHANGED <<flagVars, guiVars, pushVars, producerVars>>

(* Mutation: stop joins the thread and keeps it, as if it were still there. *)
joinPush_KeepingThread ==
  /\ pc["gui"] = "join_push" /\ pc["push"] = "done"
  /\ pc' = [pc EXCEPT !["gui"] = "idle", !["push"] = "none"]
  /\ camera_active' = FALSE
  /\ UNCHANGED <<flagVars, rtmp_push_thread, audio_data_thread, audioChannel, session, aborted,
                 pushVars, producerVars, queueVars>>

(* The end of stop, and camera.stop() after it.                             *)
joinPush ==
  /\ pc["gui"] = "join_push" /\ pc["push"] = "done"
  /\ pc' = [pc EXCEPT !["gui"] = "idle", !["push"] = "none"]
  /\ rtmp_push_thread' = FALSE
  /\ camera_active' = FALSE
  /\ UNCHANGED <<flagVars, audio_data_thread, audioChannel, session, aborted, pushVars,
                 producerVars, queueVars>>

----------------------------------------------------------------------------
(* The push thread. *)

(* Mutation: the start time of an earlier session is kept. *)
PushConnected_StaleStart ==
  /\ Goto("push", "connect", "set_work")
  /\ push_start_time' = IF push_start_time = 0 THEN session ELSE push_start_time
  /\ UNCHANGED <<flagVars, guiVars, packet, freed, sent, ended_itself, producerVars, queueVars>>

(* RTMP_Alloc, RTMP_SetupURL, RTMP_Connect and RTMP_ConnectStream succeed.  *)
PushConnected ==
  /\ Goto("push", "connect", "set_work")
  /\ push_start_time' = session
  /\ UNCHANGED <<flagVars, guiVars, packet, freed, sent, ended_itself, producerVars, queueVars>>

(* One of them fails: the thread leaves its do block. *)
PushConnectFails ==
  /\ Goto("push", "connect", "unwork")
  /\ ended_itself' = TRUE
  /\ UNCHANGED <<flagVars, guiVars, push_start_time, packet, freed, sent, producerVars, queueVars>>

PushSetWork ==
  /\ Goto("push", "set_work", "check")
  /\ packets!setWork(1)
  /\ UNCHANGED <<flagVars, guiVars, pushVars, producerVars>>

(* The loop condition. *)
PushCheck ==
  /\ Goto("push", "check", IF is_pushing THEN "pop" ELSE "unwork")
  /\ UNCHANGED <<flagVars, guiVars, pushVars, producerVars, queueVars>>

PushPop ==
  /\ \/ /\ packets!popElement("push")
        /\ Goto("push", "pop", "send")
        /\ packet' = Head(que)
     \/ /\ packets!popWait("push")
        /\ Goto("push", "pop", "pop")
        /\ UNCHANGED packet
     \/ /\ packets!popNothing("push")
        /\ Goto("push", "pop", "check")
        /\ UNCHANGED packet
  /\ UNCHANGED <<flagVars, guiVars, push_start_time, freed, sent, ended_itself, producerVars>>

PushSpuriousWakeup ==
  /\ packets!SpuriousWakeup("push")
  /\ UNCHANGED <<flagVars, guiVars, pushVars, producerVars, pc>>

(* RTMP_SendPacket, then the packet is freed whatever it returned.          *)

(* Mutation: the pointer is not reset after the free. *)
PushSends_KeepingPacket ==
  /\ Goto("push", "send", "check")
  /\ sent' = Append(sent, packet)
  /\ freed' = freed \cup {packet}
  /\ UNCHANGED <<flagVars, guiVars, push_start_time, packet, ended_itself, producerVars, queueVars>>

PushSends ==
  /\ Goto("push", "send", "check")
  /\ sent' = Append(sent, packet)
  /\ freed' = freed \cup {packet}
  /\ packet' = NoPacket
  /\ UNCHANGED <<flagVars, guiVars, push_start_time, ended_itself, producerVars, queueVars>>

PushSendFails ==
  /\ Goto("push", "send", "unwork")
  /\ ended_itself' = TRUE
  /\ freed' = freed \cup {packet}
  /\ packet' = NoPacket
  /\ UNCHANGED <<flagVars, guiVars, push_start_time, sent, producerVars, queueVars>>

(* Mutation: a thread that ends by itself leaves the queue working. *)
PushUnwork_Lost ==
  /\ Goto("push", "unwork", "clear")
  /\ UNCHANGED <<flagVars, guiVars, pushVars, producerVars, queueVars>>

PushUnwork ==
  /\ Goto("push", "unwork", "clear")
  /\ packets!setWork(0)
  /\ UNCHANGED <<flagVars, guiVars, pushVars, producerVars>>

PushClear ==
  /\ Goto("push", "clear", "finish")
  /\ packets!clear
  /\ UNCHANGED <<flagVars, guiVars, pushVars, producerVars>>

PushFinish ==
  /\ Goto("push", "finish", "done")
  /\ is_pushing' = FALSE
  /\ UNCHANGED <<is_pushing_audio, guiVars, pushVars, producerVars, queueVars>>

----------------------------------------------------------------------------
(* The audio thread. *)

(* A full buffer of samples: the decoder description every tenth time, and  *)
(* the encoded samples unless the encoder keeps them for later.  A round    *)
(* that makes no packet leaves the state as it is.                          *)
AudioRound ==
  /\ pc["audio"] = "loop"
  /\ is_pushing_audio
  /\ Produce("audio")
  /\ UNCHANGED <<flagVars, guiVars, pushVars, queueVars>>

AudioFinish ==
  /\ Goto("audio", "loop", "done")
  /\ ~is_pushing_audio
  /\ is_pushing_audio' = FALSE
  /\ UNCHANGED <<is_pushing, guiVars, pushVars, producerVars, queueVars>>

----------------------------------------------------------------------------
(* What each thread does next from where it is.  The button and the camera  *)
(* are events from outside.                                                 *)
GuiStep ==
  \/ StampPacket("gui") \/ EnqueuePacket("gui") \/ openAudio \/ startAudioThread
  \/ joinAudio \/ stopFlag \/ stopWork \/ stopClear \/ joinPush
PushStep ==
  \/ PushConnected \/ PushConnectFails \/ PushSetWork \/ PushCheck \/ PushPop
  \/ PushSends \/ PushSendFails \/ PushUnwork \/ PushClear \/ PushFinish
AudioStep == StampPacket("audio") \/ EnqueuePacket("audio") \/ AudioRound \/ AudioFinish

(* The program was terminated, or the user made the last talk of the bound. *)
Over ==
  /\ aborted \/ (session = MaxSessions /\ pc["gui"] = "idle" /\ ~camera_active)
  /\ UNCHANGED vars

Next ==
  \/ ~aborted /\ (push \/ stop \/ receiveOneFrame)
  \/ ~aborted /\ GuiStep
  \/ ~aborted /\ (PushStep \/ PushSpuriousWakeup)
  \/ ~aborted /\ AudioStep
  \/ Over

Spec == Init /\ [][Next]_vars

(* Every thread keeps running; RTMP calls return (Link.timeout = 5).  The   *)
(* user and the camera owe nothing.                                         *)
Fairness ==
  /\ WF_vars(~aborted /\ GuiStep)
  /\ WF_vars(~aborted /\ PushStep)
  /\ WF_vars(~aborted /\ AudioStep)

FairSpec == Spec /\ Fairness

----------------------------------------------------------------------------
(* Types of the members and of the threads' positions. *)
GuiPc == {"idle", "open_audio", "stamp", "enqueue", "start_audio", "join_audio", "stop_flag",
          "stop_work", "stop_clear", "join_push"}
AudioPc == {"none", "loop", "stamp", "enqueue", "done"}
PushPc == {"none", "connect", "set_work", "check", "pop", "send", "unwork", "clear", "finish", "done"}

PcOK ==
  /\ pc \in [Threads -> GuiPc \cup AudioPc \cup PushPc]
  /\ pc["gui"] \in GuiPc /\ pc["audio"] \in AudioPc /\ pc["push"] \in PushPc

(* Types of the state (VideoSender.h:41-56). *)
DataOK ==
  /\ is_pushing \in BOOLEAN /\ is_pushing_audio \in BOOLEAN
  /\ rtmp_push_thread \in BOOLEAN /\ audio_data_thread \in BOOLEAN /\ audioChannel \in BOOLEAN
  /\ camera_active \in BOOLEAN /\ session \in 0..MaxSessions /\ aborted \in BOOLEAN
  /\ push_start_time \in 0..MaxSessions /\ ended_itself \in BOOLEAN
  /\ packet \in Packet \cup {NoPacket} /\ freed \in SUBSET Packet /\ sent \in Seq(Packet)
  /\ stamped \in [Producers -> Packet \cup {NoPacket}] /\ left \in [Producers -> 0..2]
  /\ next_id \in Nat \ {0} /\ issued \in 0..MaxPackets
  /\ packets!TypeOK

TypeOK == DataOK /\ PcOK

InFlight == (IF packet = NoPacket THEN << >> ELSE <<packet>>) \o que

(* Ownership of the packets, which are bare pointers: a packet is with one  *)
(* owner (a producer, the queue, the push thread), it is not freed while it *)
(* has one, it is freed once (by the thread or by release_handle), and no   *)
(* packet is forgotten: the struct of each one is deleted in the end.       *)
PacketsHaveOneOwner ==
  LET held == InFlight \o <<stamped["gui"], stamped["audio"]>>
      owned == {held[i] : i \in DOMAIN held} \ {NoPacket}
  IN  /\ \A i, j \in DOMAIN held : held[i] = held[j] => i = j \/ held[i] = NoPacket
      /\ owned \cap (freed \cup released) = {}
      /\ freed \cap released = {}
      /\ \A id \in 1..(next_id - 1) : \E p \in owned \cup freed \cup released : p.id = id

(* Nothing survives a stream: while no thread is between its setWork(1) and *)
(* its clear, the queue refuses packets and holds none, so a new session    *)
(* never sends a packet of the one before it.                               *)
SessionsStartEmpty ==
  pc["push"] \notin {"check", "pop", "send", "unwork", "clear"} => work_flag = 0 /\ que = << >>

(* stop reaches the push thread: once stop has turned the queue off, the    *)
(* thread is not, and does not get, blocked in pop, although it may itself  *)
(* turn the queue on (line 93) after stop turned it off (line 147); this is *)
(* why stop clears is_pushing before and not after setWork(0).              *)
StopReachesPop ==
  pc["gui"] \in {"stop_clear", "join_push"} /\ pc["push"] = "pop" => work_flag = 0 /\ waiting = {}

(* A talk that is over has left no thread behind: after stop, neither       *)
(* thread runs and both pointers are null, unless the push thread ended by  *)
(* itself, when stop returns at its first line.                             *)
TalkEndsItsThreads ==
  pc["gui"] = "idle" /\ ~camera_active /\ ~ended_itself =>
    /\ pc["push"] = "none" /\ ~rtmp_push_thread
    /\ pc["audio"] = "none" /\ ~audio_data_thread

(* The assignments of push and openAudio replace a thread nobody joined     *)
(* only after a push thread ended by itself: users who stop what they start *)
(* never meet std::terminate.                                               *)
TerminateNeedsBrokenStream == aborted => ended_itself

(* The audio thread uses audioChannel without a lock: the channel is there  *)
(* from before the thread starts until after it is joined.                  *)
ChannelOutlivesAudioThread == pc["audio"] \in {"loop", "stamp", "enqueue"} => audioChannel

(* What holds of a talk between any two steps of its threads: the members   *)
(* have their types, sessions start empty, std::terminate needs a broken    *)
(* stream and the audio thread has its channel.                             *)
TalkIsSafe ==
  TypeOK /\ SessionsStartEmpty /\ TerminateNeedsBrokenStream /\ ChannelOutlivesAudioThread

(* Time stamps: the callback reads push_start_time outside the queue's      *)
(* mutex, so a producer's first packet of a stream may carry the start time *)
(* of an earlier one (or none); every later one carries the stream's own.   *)
OneStaleStampPerProducer ==
  LET stream == sent \o InFlight
  IN  \A j \in DOMAIN stream : \A i \in 1..(j - 1) :
        stream[i].src = stream[j].src /\ stream[i].session = stream[j].session
          => stream[j].base = stream[j].session

(* What the server sees of the queue, the flags and the thread: a stream of *)
(* packets in the order they were accepted, closed and emptied before the   *)
(* next one opens.                                                          *)
Stream == INSTANCE PacketStream WITH open <- work_flag = 1, inflight <- InFlight, sent <- sent
ImplementsStream == Stream!Spec

(* The GUI thread comes back from the talk item of the menu, though it      *)
(* joins two threads on the way, unless the program was terminated.         *)
GuiReturns == pc["gui"] # "idle" ~> pc["gui"] = "idle" \/ aborted

(* A packet that was accepted leaves the queue: it is sent or released.     *)
AcceptedPacketsLeave ==
  \A id \in PacketIds :
    (\E p \in packets!Queued : p.id = id) ~> (aborted \/ \A p \in packets!Queued : p.id # id)
=============================================================================
