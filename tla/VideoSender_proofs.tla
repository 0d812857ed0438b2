------------------------- MODULE VideoSender_proofs -------------------------
(***************************************************************************)
(* The control of a talk, proved for any number of talks and packets: which *)
(* thread may be where, what the flags, the two thread pointers and the     *)
(* queue are worth at that moment.                                          *)
(***************************************************************************)
EXTENDS VideoSender, TLAPS

Stopping == {"stop_work", "stop_clear", "join_push"}
BetweenTalks == pc["gui"] = "idle" /\ ~camera_active

(* Whoever makes packets has some left to make, the others have none, and   *)
(* the packets made or still to be made are paid for by a frame, a buffer   *)
(* or a call of openAudio.                                                  *)
PacketsCounted ==
  /\ \A p \in Producers : pc[p] \notin {"stamp", "enqueue"} => left[p] = 0
  /\ \A p \in Producers : pc[p] = "stamp" => left[p] > 0
  /\ next_id + left["gui"] + left["audio"] + (IF pc["gui"] = "open_audio" THEN 1 ELSE 0)
       <= 1 + issued + session
  /\ \A p \in Producers : pc[p] = "enqueue" <=> stamped[p] # NoPacket
  /\ pc["push"] = "send" <=> packet # NoPacket
  /\ session = 0 =>
       BetweenTalks /\ ~rtmp_push_thread /\ pc["push"] = "none" /\ pc["audio"] = "none"

(* The queue works, or holds packets, only while the thread is in its loop; *)
(* the thread is blocked only in pop, on a queue that works and is empty.   *)
QueueInLoop ==
  /\ work_flag = 1 => pc["push"] \in {"check", "pop", "send", "unwork"}
  /\ pc["push"] \notin {"check", "pop", "send", "unwork", "clear"} => que = << >>
  /\ waiting # {} => pc["push"] = "pop" /\ work_flag = 1 /\ que = << >>

(* What stop has done so far.                                               *)
StopProgress ==
  /\ pc["gui"] \in Stopping => ~is_pushing
  /\ pc["gui"] \in Stopping \ {"stop_work"} /\ pc["push"] = "pop" => work_flag = 0
  /\ pc["gui"] \in Stopping \cup {"stop_flag"} => pc["audio"] = "none" /\ ~audio_data_thread
  /\ pc["gui"] \in Stopping \cup {"stop_flag", "join_audio"} => camera_active
  /\ pc["gui"] \in {"open_audio", "start_audio"} => ~camera_active

(* The push thread leaves its loop because stop cleared is_pushing or by    *)
(* itself, and is_pushing is false outside stop only when it has ended.     *)
PushThread ==
  /\ pc["push"] # "none" => rtmp_push_thread
  /\ pc["push"] \in {"unwork", "clear", "finish", "done"} =>
       ended_itself \/ pc["gui"] \in Stopping
  /\ ~is_pushing /\ pc["gui"] \notin Stopping /\ ~BetweenTalks =>
       ended_itself /\ pc["push"] = "done"
  /\ BetweenTalks =>
       /\ ~is_pushing
       /\ rtmp_push_thread => ended_itself /\ pc["push"] = "done"
       /\ ~rtmp_push_thread => pc["push"] = "none" /\ pc["audio"] = "none"
  /\ aborted => ended_itself

(* The audio thread runs from openAudio to stopAudio, with its channel.     *)
AudioThread ==
  /\ pc["audio"] # "none" <=> audio_data_thread
  /\ pc["audio"] = "done" => ~is_pushing_audio
  /\ audio_data_thread /\ pc["gui"] # "join_audio" => is_pushing_audio
  /\ audio_data_thread => audioChannel
  /\ pc["gui"] = "start_audio" => audioChannel
  /\ pc["gui"] \in {"stamp", "enqueue"} /\ ~camera_active => audioChannel
  /\ ~aborted /\ ~camera_active /\ pc["gui"] # "idle" => pc["audio"] = "none"

IInv ==
  TypeOK /\ PacketsCounted /\ QueueInLoop /\ StopProgress /\ PushThread /\ AudioThread

(* A notification wakes the push thread if it is blocked: it is the only    *)
(* consumer of the queue.                                                   *)
LEMMA NotifyWakes ==
  ASSUME waiting \in SUBSET {"push"}, packets!notify_one
  PROVE  waiting' = {}
  BY DEF packets!notify_one

(* What a queue of packets gives back are packets, none of them null.       *)
LEMMA PacketsPopped ==
  ASSUME que \in Seq(Packet), que # << >>
  PROVE  Head(que) \in Packet /\ Tail(que) \in Seq(Packet) /\ Head(que) # NoPacket
<1>1. Head(que) \in Packet /\ Tail(que) \in Seq(Packet)
  OBVIOUS
<1>2. NoPacket \notin Packet
  BY DEF NoPacket, Packet, PacketIds
<1> QED BY <1>1, <1>2

(* Every thread stays where its code is. *)
LEMMA PcOKPreserved ==
  PcOK /\ [Next]_vars => PcOK'
<1> SUFFICES ASSUME PcOK, [Next]_vars PROVE PcOK' OBVIOUS
<1> USE DEF PcOK, GuiPc, AudioPc, PushPc, Threads, Producers, flagVars, guiVars, pushVars, producerVars, queueVars, Goto
<1>1. CASE ~aborted /\ push
  BY <1>1 DEF push
<1>2. CASE ~aborted /\ (stop \/ receiveOneFrame \/ openAudio \/ startAudioThread)
  BY <1>2 DEF stop, receiveOneFrame, Produce, Burst, openAudio, startAudioThread
<1>3. CASE ~aborted /\ (joinAudio \/ stopFlag \/ stopWork \/ stopClear \/ joinPush)
  BY <1>3, NotifyWakes DEF joinAudio, stopFlag, stopWork, packets!setWork, stopClear,
     packets!clear, joinPush
<1>4. CASE ~aborted /\ (PushConnected \/ PushConnectFails \/ PushSetWork \/ PushCheck)
  BY <1>4, NotifyWakes DEF PushConnected, PushConnectFails, PushSetWork, packets!setWork,
     PushCheck
<1>5. CASE ~aborted /\ (PushPop \/ PushSends \/ PushSendFails \/ PushUnwork)
  BY <1>5, NotifyWakes DEF PushPop, packets!popElement, packets!popWait, packets!popNothing,
     packets!queueVars, PushSends, PushSendFails, PushUnwork, packets!setWork
<1>6. CASE ~aborted /\ (PushClear \/ PushFinish \/ PushSpuriousWakeup)
  BY <1>6 DEF PushClear, packets!clear, PushFinish, PushSpuriousWakeup, packets!SpuriousWakeup
<1>7. CASE ~aborted /\ (AudioRound \/ AudioFinish)
  BY <1>7 DEF AudioRound, Produce, Burst, AudioFinish
<1>8. CASE ~aborted /\ \E p \in Producers : StampPacket(p)
  BY <1>8 DEF StampPacket
<1>9. CASE ~aborted /\ \E p \in Producers : EnqueuePacket(p)
  BY <1>9, NotifyWakes DEF EnqueuePacket, Resume, packets!push
<1>10. CASE UNCHANGED vars
  BY <1>10 DEF vars
<1>q. QED
  BY <1>1, <1>2, <1>3, <1>4, <1>5, <1>6, <1>7, <1>8, <1>9, <1>10 DEF Next, Over, GuiStep, PushStep, AudioStep, Producers

(* The members keep their types are preserved; a new packet is paid for.   *)
LEMMA DataOKPreserved ==
  DataOK /\ PcOK /\ PacketsCounted /\ [Next]_vars => DataOK'
<1> SUFFICES ASSUME DataOK, PcOK, PacketsCounted, [Next]_vars PROVE DataOK' OBVIOUS
<1> USE BoundsAssumption DEF DataOK, PcOK, packets!TypeOK,
         Threads, Producers, flagVars, guiVars, pushVars, producerVars, queueVars, Goto
<1>1. CASE ~aborted /\ push
  BY <1>1 DEF push
<1>2. CASE ~aborted /\ stop
  BY <1>2 DEF stop
<1>3. CASE ~aborted /\ receiveOneFrame
  BY <1>3 DEF receiveOneFrame, Produce, Burst
<1>4. CASE ~aborted /\ openAudio
  <2>1. CASE is_pushing
    BY <1>4, <2>1 DEF openAudio
  <2>2. CASE ~is_pushing
    BY <1>4, <2>2 DEF openAudio
  <2> QED BY <2>1, <2>2
<1>5. CASE ~aborted /\ startAudioThread
  BY <1>5 DEF startAudioThread
<1>6. CASE ~aborted /\ joinAudio
  BY <1>6 DEF joinAudio
<1>7. CASE ~aborted /\ stopFlag
  BY <1>7 DEF stopFlag
<1>8. CASE ~aborted /\ stopWork
  BY <1>8, NotifyWakes DEF stopWork, packets!setWork
<1>9. CASE ~aborted /\ stopClear
  BY <1>9 DEF stopClear, packets!clear, packets!Queued
<1>10. CASE ~aborted /\ joinPush
  BY <1>10 DEF joinPush
<1>11. CASE ~aborted /\ PushConnected
  BY <1>11 DEF PushConnected
<1>12. CASE ~aborted /\ PushConnectFails
  BY <1>12 DEF PushConnectFails
<1>13. CASE ~aborted /\ PushSetWork
  BY <1>13, NotifyWakes DEF PushSetWork, packets!setWork
<1>14. CASE ~aborted /\ PushCheck
  BY <1>14 DEF PushCheck
<1>15. CASE ~aborted /\ PushPop
  <2>1. CASE packets!popElement("push") /\ packet' = Head(que)
    BY <1>15, <2>1, PacketsPopped DEF PushPop, packets!popElement
  <2>2. CASE packets!popWait("push") /\ UNCHANGED packet
    BY <1>15, <2>2 DEF PushPop, packets!popWait
  <2>3. CASE packets!popNothing("push") /\ UNCHANGED packet
    BY <1>15, <2>3 DEF PushPop, packets!popNothing, packets!queueVars
  <2> QED BY <1>15, <2>1, <2>2, <2>3 DEF PushPop
<1>16. CASE ~aborted /\ PushSends
  BY <1>16 DEF PushSends, PacketsCounted, Packet, NoPacket, PacketIds
<1>17. CASE ~aborted /\ PushSendFails
  BY <1>17 DEF PushSendFails, PacketsCounted, Packet, NoPacket, PacketIds
<1>18. CASE ~aborted /\ PushUnwork
  BY <1>18, NotifyWakes DEF PushUnwork, packets!setWork
<1>19. CASE ~aborted /\ PushClear
  BY <1>19 DEF PushClear, packets!clear, packets!Queued
<1>20. CASE ~aborted /\ PushFinish
  BY <1>20 DEF PushFinish
<1>21. CASE ~aborted /\ PushSpuriousWakeup
  BY <1>21 DEF PushSpuriousWakeup, packets!SpuriousWakeup
<1>22. CASE ~aborted /\ AudioRound
  BY <1>22 DEF AudioRound, Produce, Burst
<1>23. CASE ~aborted /\ AudioFinish
  BY <1>23 DEF AudioFinish
<1>24. CASE ~aborted /\ \E p \in Producers : StampPacket(p)
  <2> PICK p \in Producers : StampPacket(p)
    BY <1>24
  <2>1. left[p] \in 1..2 /\ session # 0
    BY DEF StampPacket, PacketsCounted, BetweenTalks
  <2>2. next_id \in PacketIds
    BY <2>1 DEF PacketsCounted, PacketIds
  <2>3. [id |-> next_id, src |-> p, session |-> session, base |-> push_start_time] \in Packet
    BY <2>1, <2>2 DEF Packet
  <2> QED BY <2>1, <2>3 DEF StampPacket
<1>25. CASE ~aborted /\ \E p \in Producers : EnqueuePacket(p)
  <2> PICK p \in Producers : EnqueuePacket(p)
    BY <1>25
  <2>1. stamped[p] \in Packet
    BY DEF EnqueuePacket, PacketsCounted
  <2>2. stamped' \in [Producers -> Packet \cup {NoPacket}]
    BY DEF EnqueuePacket
  <2>3. packets!TypeOK'
    <3>1. Append(que, stamped[p]) \in Seq(Packet)
      BY <2>1
    <3> QED BY <2>1, <3>1, NotifyWakes DEF EnqueuePacket, packets!push
  <2> QED BY <2>2, <2>3 DEF EnqueuePacket
<1>26. CASE UNCHANGED vars
  BY <1>26 DEF vars
<1>q. QED
  BY <1>1, <1>2, <1>3, <1>4, <1>5, <1>6, <1>7, <1>8, <1>9, <1>10, <1>11, <1>12, <1>13, <1>14, <1>15, <1>16, <1>17, <1>18, <1>19, <1>20, <1>21, <1>22, <1>23, <1>24, <1>25, <1>26 DEF Next, Over, GuiStep, PushStep, AudioStep, Producers

(* The books of the packets. *)
LEMMA PacketsCountedPreserved ==
  TypeOK /\ PacketsCounted /\ StopProgress /\ PushThread /\ AudioThread /\ [Next]_vars => PacketsCounted'
<1> SUFFICES ASSUME TypeOK, PacketsCounted, StopProgress, PushThread, AudioThread, [Next]_vars PROVE PacketsCounted' OBVIOUS
<1> USE BoundsAssumption DEF TypeOK, DataOK, PcOK, packets!TypeOK, PacketsCounted, StopProgress, PushThread,
         AudioThread,         BetweenTalks, Producers, Threads,
         Packet, NoPacket, PacketIds, flagVars, guiVars, pushVars, producerVars, queueVars, Goto
<1>1. CASE ~aborted /\ push
  BY <1>1, SMTT(30) DEF push
<1>2. CASE ~aborted /\ receiveOneFrame
  BY <1>2, SMTT(30) DEF receiveOneFrame, Produce, Burst
<1>3. CASE ~aborted /\ openAudio
  BY <1>3 DEF openAudio
<1>4. CASE ~aborted /\ startAudioThread
  BY <1>4 DEF startAudioThread
<1>5. CASE ~aborted /\ AudioRound
  BY <1>5 DEF AudioRound, Produce, Burst
<1>6. CASE ~aborted /\ \E p \in Producers : StampPacket(p)
  <2>1. CASE StampPacket("gui")
    BY <1>6, <2>1 DEF StampPacket
  <2>2. CASE StampPacket("audio")
    BY <1>6, <2>2, SMTT(30) DEF StampPacket
  <2> QED BY <1>6, <2>1, <2>2
<1>7. CASE ~aborted /\ \E p \in Producers : EnqueuePacket(p)
  <2>1. CASE EnqueuePacket("gui")
    BY <1>7, <2>1 DEF EnqueuePacket, Resume
  <2>2. CASE EnqueuePacket("audio")
    BY <1>7, <2>2 DEF EnqueuePacket, Resume
  <2> QED BY <1>7, <2>1, <2>2
<1>8. CASE ~aborted /\ stop
  BY <1>8, ZenonT(60) DEF stop
<1>9. CASE ~aborted /\ joinAudio
  BY <1>9 DEF joinAudio
<1>10. CASE ~aborted /\ (stopFlag \/ stopWork \/ stopClear)
  <2>1. CASE stopFlag
    BY <1>10, <2>1 DEF stopFlag
  <2>2. CASE stopWork
    BY <1>10, <2>2, NotifyWakes DEF stopWork, packets!setWork
  <2>3. CASE stopClear
    BY <1>10, <2>3 DEF stopClear, packets!clear
  <2> QED BY <1>10, <2>1, <2>2, <2>3
<1>11. CASE ~aborted /\ joinPush
  BY <1>11 DEF joinPush
<1>12. CASE ~aborted /\ (PushConnected \/ PushConnectFails)
  <2>1. CASE PushConnected
    BY <1>12, <2>1 DEF PushConnected
  <2>2. CASE PushConnectFails
    BY <1>12, <2>2 DEF PushConnectFails
  <2> QED BY <1>12, <2>1, <2>2
<1>13. CASE ~aborted /\ (PushSetWork \/ PushCheck)
  <2>1. CASE PushSetWork
    BY <1>13, <2>1, NotifyWakes DEF PushSetWork, packets!setWork
  <2>2. CASE PushCheck
    BY <1>13, <2>2 DEF PushCheck
  <2> QED BY <1>13, <2>1, <2>2
<1>14. CASE ~aborted /\ PushPop
  <2>1. CASE packets!popElement("push") /\ Goto("push", "pop", "send") /\ packet' = Head(que)
    BY <1>14, <2>1, PacketsPopped DEF PushPop, packets!popElement
  <2>2. CASE UNCHANGED packet /\ (Goto("push", "pop", "pop") \/ Goto("push", "pop", "check"))
    BY <1>14, <2>2 DEF PushPop
  <2> QED BY <1>14, <2>1, <2>2 DEF PushPop
<1>15. CASE ~aborted /\ PushSends
  BY <1>15 DEF PushSends
<1>16. CASE ~aborted /\ PushSendFails
  BY <1>16 DEF PushSendFails
<1>17. CASE ~aborted /\ PushUnwork
  BY <1>17, NotifyWakes DEF PushUnwork, packets!setWork
<1>18. CASE ~aborted /\ (PushClear \/ PushFinish)
  <2>1. CASE PushClear
    BY <1>18, <2>1 DEF PushClear, packets!clear
  <2>2. CASE PushFinish
    BY <1>18, <2>2 DEF PushFinish
  <2> QED BY <1>18, <2>1, <2>2
<1>19. CASE ~aborted /\ PushSpuriousWakeup
  BY <1>19 DEF PushSpuriousWakeup, packets!SpuriousWakeup
<1>20. CASE ~aborted /\ AudioFinish
  BY <1>20 DEF AudioFinish
<1>21. CASE UNCHANGED vars
  BY <1>21 DEF vars
<1>q. QED
  BY <1>1, <1>2, <1>3, <1>4, <1>5, <1>6, <1>7, <1>8, <1>9, <1>10, <1>11, <1>12, <1>13, <1>14, <1>15, <1>16, <1>17, <1>18, <1>19, <1>20, <1>21 DEF Next, Over, GuiStep, PushStep, AudioStep, Producers

(* The queue works and holds packets only for a thread in its loop. *)
LEMMA QueueInLoopPreserved ==
  TypeOK /\ QueueInLoop /\ PushThread /\ [Next]_vars => QueueInLoop'
<1> SUFFICES ASSUME TypeOK, QueueInLoop, PushThread, [Next]_vars PROVE QueueInLoop' OBVIOUS
<1> USE DEF TypeOK, DataOK, PcOK, packets!TypeOK, QueueInLoop, BetweenTalks, PushThread, Threads, Producers, flagVars, guiVars, pushVars, producerVars, queueVars, Goto
<1>1. CASE ~aborted /\ push
  BY <1>1 DEF push
<1>2. CASE ~aborted /\ (stop \/ receiveOneFrame \/ openAudio \/ startAudioThread \/ joinAudio \/
              stopFlag \/ joinPush \/ AudioRound \/ AudioFinish)
  BY <1>2 DEF stop, receiveOneFrame, Produce, Burst, openAudio, startAudioThread, joinAudio,
     stopFlag, joinPush, AudioRound, AudioFinish
<1>3. CASE ~aborted /\ stopWork
  BY <1>3, NotifyWakes DEF stopWork, packets!setWork
<1>4. CASE ~aborted /\ stopClear
  BY <1>4 DEF stopClear, packets!clear
<1>5. CASE ~aborted /\ PushConnected
  BY <1>5 DEF PushConnected
<1>6. CASE ~aborted /\ PushConnectFails
  BY <1>6 DEF PushConnectFails
<1>7. CASE ~aborted /\ PushSetWork
  BY <1>7, NotifyWakes DEF PushSetWork, packets!setWork
<1>8. CASE ~aborted /\ PushCheck
  BY <1>8 DEF PushCheck
<1>9. CASE ~aborted /\ PushPop
  BY <1>9 DEF PushPop, packets!popElement, packets!popWait, packets!popNothing,
     packets!queueVars
<1>10. CASE ~aborted /\ PushSends
  BY <1>10 DEF PushSends
<1>11. CASE ~aborted /\ PushSendFails
  BY <1>11 DEF PushSendFails
<1>12. CASE ~aborted /\ PushUnwork
  BY <1>12, NotifyWakes DEF PushUnwork, packets!setWork
<1>13. CASE ~aborted /\ PushClear
  BY <1>13 DEF PushClear, packets!clear
<1>14. CASE ~aborted /\ PushFinish
  BY <1>14 DEF PushFinish
<1>15. CASE ~aborted /\ PushSpuriousWakeup
  BY <1>15 DEF PushSpuriousWakeup, packets!SpuriousWakeup
<1>16. CASE ~aborted /\ \E p \in Producers : StampPacket(p)
  BY <1>16 DEF StampPacket
<1>17. CASE ~aborted /\ \E p \in Producers : EnqueuePacket(p)
  BY <1>17, NotifyWakes DEF EnqueuePacket, Resume, packets!push
<1>18. CASE UNCHANGED vars
  BY <1>18 DEF vars
<1>q. QED
  BY <1>1, <1>2, <1>3, <1>4, <1>5, <1>6, <1>7, <1>8, <1>9, <1>10, <1>11, <1>12, <1>13, <1>14, <1>15, <1>16, <1>17, <1>18 DEF Next, Over, GuiStep, PushStep, AudioStep, Producers

(* What stop has done stays done until it returns. *)
LEMMA StopProgressPreserved ==
  TypeOK /\ StopProgress /\ PushThread /\ AudioThread /\ [Next]_vars => StopProgress'
<1> SUFFICES ASSUME TypeOK, StopProgress, PushThread, AudioThread, [Next]_vars PROVE StopProgress' OBVIOUS
<1> USE DEF TypeOK, DataOK, PcOK, packets!TypeOK, StopProgress, Stopping, BetweenTalks, PushThread, AudioThread, Threads, Producers, flagVars, guiVars, pushVars, producerVars, queueVars, Goto
<1>1. CASE ~aborted /\ push
  BY <1>1 DEF push
<1>2. CASE ~aborted /\ stop
  BY <1>2 DEF stop
<1>3. CASE ~aborted /\ receiveOneFrame
  BY <1>3 DEF receiveOneFrame, Produce, Burst
<1>4. CASE ~aborted /\ openAudio
  BY <1>4 DEF openAudio
<1>5. CASE ~aborted /\ startAudioThread
  BY <1>5 DEF startAudioThread
<1>6. CASE ~aborted /\ joinAudio
  BY <1>6 DEF joinAudio
<1>7. CASE ~aborted /\ stopFlag
  BY <1>7 DEF stopFlag
<1>8. CASE ~aborted /\ stopWork
  BY <1>8, NotifyWakes DEF stopWork, packets!setWork
<1>9. CASE ~aborted /\ stopClear
  BY <1>9 DEF stopClear, packets!clear
<1>10. CASE ~aborted /\ joinPush
  BY <1>10 DEF joinPush
<1>11. CASE ~aborted /\ (PushConnected \/ PushConnectFails \/ PushSetWork \/ PushCheck \/
              PushPop)
  BY <1>11, NotifyWakes DEF PushConnected, PushConnectFails, PushSetWork, packets!setWork,
     PushCheck, PushPop, packets!popElement, packets!popWait, packets!popNothing,
     packets!queueVars
<1>12. CASE ~aborted /\ (PushSends \/ PushSendFails \/ PushUnwork \/ PushClear \/ PushFinish \/
              PushSpuriousWakeup)
  BY <1>12, NotifyWakes DEF PushSends, PushSendFails, PushUnwork, packets!setWork, PushClear,
     packets!clear, PushFinish, PushSpuriousWakeup, packets!SpuriousWakeup
<1>13. CASE ~aborted /\ (AudioRound \/ AudioFinish)
  BY <1>13 DEF AudioRound, Produce, Burst, AudioFinish
<1>14. CASE ~aborted /\ \E p \in Producers : StampPacket(p)
  BY <1>14 DEF StampPacket
<1>15. CASE ~aborted /\ \E p \in Producers : EnqueuePacket(p)
  BY <1>15, NotifyWakes DEF EnqueuePacket, Resume, packets!push
<1>16. CASE UNCHANGED vars
  BY <1>16 DEF vars
<1>q. QED
  BY <1>1, <1>2, <1>3, <1>4, <1>5, <1>6, <1>7, <1>8, <1>9, <1>10, <1>11, <1>12, <1>13, <1>14, <1>15, <1>16 DEF Next, Over, GuiStep, PushStep, AudioStep, Producers

(* The push thread ends with stop or by itself. *)
LEMMA PushThreadPreserved ==
  TypeOK /\ PacketsCounted /\ StopProgress /\ PushThread /\ AudioThread /\ [Next]_vars => PushThread'
<1> SUFFICES ASSUME TypeOK, PacketsCounted, StopProgress, PushThread, AudioThread, [Next]_vars PROVE PushThread' OBVIOUS
<1> USE DEF TypeOK, DataOK, PcOK, PacketsCounted, StopProgress, Stopping, BetweenTalks, PushThread, AudioThread, Threads, Producers, flagVars, guiVars, pushVars, producerVars, queueVars, Goto
<1>1. CASE ~aborted /\ push
  BY <1>1 DEF push
<1>2. CASE ~aborted /\ stop
  BY <1>2 DEF stop
<1>3. CASE ~aborted /\ receiveOneFrame
  BY <1>3 DEF receiveOneFrame, Produce, Burst
<1>4. CASE ~aborted /\ openAudio
  BY <1>4 DEF openAudio
<1>5. CASE ~aborted /\ startAudioThread
  BY <1>5 DEF startAudioThread
<1>6. CASE ~aborted /\ joinAudio
  BY <1>6 DEF joinAudio
<1>7. CASE ~aborted /\ stopFlag
  BY <1>7 DEF stopFlag
<1>8. CASE ~aborted /\ stopWork
  BY <1>8, NotifyWakes DEF stopWork, packets!setWork
<1>9. CASE ~aborted /\ stopClear
  BY <1>9 DEF stopClear, packets!clear
<1>10. CASE ~aborted /\ joinPush
  BY <1>10 DEF joinPush
<1>11. CASE ~aborted /\ PushConnected
  BY <1>11 DEF PushConnected
<1>12. CASE ~aborted /\ PushConnectFails
  BY <1>12 DEF PushConnectFails
<1>13. CASE ~aborted /\ PushSetWork
  BY <1>13, NotifyWakes DEF PushSetWork, packets!setWork
<1>14. CASE ~aborted /\ PushCheck
  BY <1>14 DEF PushCheck
<1>15. CASE ~aborted /\ PushPop
  BY <1>15 DEF PushPop, packets!popElement, packets!popWait, packets!popNothing,
     packets!queueVars
<1>16. CASE ~aborted /\ PushSends
  BY <1>16 DEF PushSends
<1>17. CASE ~aborted /\ PushSendFails
  BY <1>17 DEF PushSendFails
<1>18. CASE ~aborted /\ PushUnwork
  BY <1>18, NotifyWakes DEF PushUnwork, packets!setWork
<1>19. CASE ~aborted /\ PushClear
  BY <1>19 DEF PushClear, packets!clear
<1>20. CASE ~aborted /\ PushFinish
  BY <1>20 DEF PushFinish
<1>21. CASE ~aborted /\ PushSpuriousWakeup
  BY <1>21 DEF PushSpuriousWakeup, packets!SpuriousWakeup
<1>22. CASE ~aborted /\ (AudioRound \/ AudioFinish)
  BY <1>22 DEF AudioRound, Produce, Burst, AudioFinish
<1>23. CASE ~aborted /\ \E p \in Producers : StampPacket(p)
  BY <1>23 DEF StampPacket
<1>24. CASE ~aborted /\ \E p \in Producers : EnqueuePacket(p)
  BY <1>24, NotifyWakes DEF EnqueuePacket, Resume, packets!push
<1>25. CASE UNCHANGED vars
  BY <1>25 DEF vars
<1>q. QED
  BY <1>1, <1>2, <1>3, <1>4, <1>5, <1>6, <1>7, <1>8, <1>9, <1>10, <1>11, <1>12, <1>13, <1>14, <1>15, <1>16, <1>17, <1>18, <1>19, <1>20, <1>21, <1>22, <1>23, <1>24, <1>25 DEF Next, Over, GuiStep, PushStep, AudioStep, Producers

(* The audio thread lives inside the talk, and its channel around it. *)
LEMMA AudioThreadPreserved ==
  TypeOK /\ StopProgress /\ PushThread /\ AudioThread /\ [Next]_vars => AudioThread'
<1> SUFFICES ASSUME TypeOK, StopProgress, PushThread, AudioThread, [Next]_vars PROVE AudioThread' OBVIOUS
<1> USE DEF TypeOK, DataOK, PcOK, StopProgress, Stopping, BetweenTalks, PushThread, AudioThread, Threads, Producers, flagVars, guiVars, pushVars, producerVars, queueVars, Goto
<1>1. CASE ~aborted /\ push
  BY <1>1 DEF push
<1>2. CASE ~aborted /\ stop
  <2>1. CASE ~is_pushing
    <3>1. UNCHANGED <<pc, is_pushing_audio, audio_data_thread, audioChannel>> /\ pc["gui"] = "idle"
      BY <1>2, <2>1 DEF stop
    <3> QED BY <3>1
  <2>2. CASE is_pushing /\ is_pushing_audio
    BY <1>2, <2>2 DEF stop
  <2>3. CASE is_pushing /\ ~is_pushing_audio
    BY <1>2, <2>3 DEF stop
  <2> QED BY <2>1, <2>2, <2>3
<1>3. CASE ~aborted /\ receiveOneFrame
  BY <1>3 DEF receiveOneFrame, Produce, Burst
<1>4. CASE ~aborted /\ openAudio
  BY <1>4 DEF openAudio
<1>5. CASE ~aborted /\ startAudioThread
  BY <1>5 DEF startAudioThread
<1>6. CASE ~aborted /\ joinAudio
  BY <1>6 DEF joinAudio
<1>7. CASE ~aborted /\ stopFlag
  BY <1>7 DEF stopFlag
<1>8. CASE ~aborted /\ stopWork
  BY <1>8, NotifyWakes DEF stopWork, packets!setWork
<1>9. CASE ~aborted /\ stopClear
  BY <1>9 DEF stopClear, packets!clear
<1>10. CASE ~aborted /\ joinPush
  BY <1>10 DEF joinPush
<1>11. CASE ~aborted /\ (PushConnected \/ PushConnectFails \/ PushSetWork \/ PushCheck \/
              PushPop)
  BY <1>11, NotifyWakes DEF PushConnected, PushConnectFails, PushSetWork, packets!setWork,
     PushCheck, PushPop, packets!popElement, packets!popWait, packets!popNothing,
     packets!queueVars
<1>12. CASE ~aborted /\ (PushSends \/ PushSendFails \/ PushUnwork \/ PushClear \/ PushFinish \/
              PushSpuriousWakeup)
  BY <1>12, NotifyWakes DEF PushSends, PushSendFails, PushUnwork, packets!setWork, PushClear,
     packets!clear, PushFinish, PushSpuriousWakeup, packets!SpuriousWakeup
<1>13. CASE ~aborted /\ AudioRound
  BY <1>13 DEF AudioRound, Produce, Burst
<1>14. CASE ~aborted /\ AudioFinish
  BY <1>14 DEF AudioFinish
<1>15. CASE ~aborted /\ \E p \in Producers : StampPacket(p)
  BY <1>15 DEF StampPacket
<1>16. CASE ~aborted /\ \E p \in Producers : EnqueuePacket(p)
  BY <1>16, NotifyWakes DEF EnqueuePacket, Resume, packets!push
<1>17. CASE UNCHANGED vars
  BY <1>17 DEF vars
<1>q. QED
  BY <1>1, <1>2, <1>3, <1>4, <1>5, <1>6, <1>7, <1>8, <1>9, <1>10, <1>11, <1>12, <1>13, <1>14, <1>15, <1>16, <1>17 DEF Next, Over, GuiStep, PushStep, AudioStep, Producers

----------------------------------------------------------------------------
(* The initial state satisfies the invariant. *)
LEMMA InitiallyIInv == Init => IInv
<1> SUFFICES ASSUME Init PROVE IInv OBVIOUS
<1> USE BoundsAssumption DEF Init, packets!Init, Producers, Threads
<1>1. PcOK
  BY DEF PcOK, GuiPc, AudioPc, PushPc
<1>2. packets!TypeOK
  BY DEF packets!TypeOK
<1>3. sent \in Seq(Packet)
  OBVIOUS
<1>4. stamped \in [Producers -> Packet \cup {NoPacket}] /\ left \in [Producers -> 0..2]
  OBVIOUS
<1>5. DataOK
  <2>1. /\ session \in 0..MaxSessions /\ push_start_time \in 0..MaxSessions
        /\ next_id \in Nat \ {0} /\ issued \in 0..MaxPackets
    OBVIOUS
  <2>2. /\ is_pushing \in BOOLEAN /\ is_pushing_audio \in BOOLEAN
        /\ rtmp_push_thread \in BOOLEAN /\ audio_data_thread \in BOOLEAN
        /\ audioChannel \in BOOLEAN /\ camera_active \in BOOLEAN
        /\ aborted \in BOOLEAN /\ ended_itself \in BOOLEAN
    OBVIOUS
  <2>3. packet \in Packet \cup {NoPacket} /\ freed \in SUBSET Packet
    OBVIOUS
  <2> QED BY <1>2, <1>3, <1>4, <2>1, <2>2, <2>3 DEF DataOK
<1>6. PacketsCounted
  BY DEF PacketsCounted, BetweenTalks
<1>7. QueueInLoop /\ StopProgress /\ PushThread /\ AudioThread
  BY DEF QueueInLoop, StopProgress, Stopping, PushThread, BetweenTalks, AudioThread
<1> QED BY <1>1, <1>5, <1>6, <1>7 DEF IInv, TypeOK

(* The invariant of the control of a talk, in every reachable state.        *)
THEOREM ControlInvariant == Spec => []IInv
<1>1. IInv /\ [Next]_vars => IInv'
  BY PcOKPreserved, DataOKPreserved, PacketsCountedPreserved, QueueInLoopPreserved,
     StopProgressPreserved, PushThreadPreserved, AudioThreadPreserved DEF IInv, TypeOK
<1> QED BY InitiallyIInv, <1>1, PTL DEF Spec

(* The members of VideoSender keep their types, whatever the bounds.        *)
THEOREM TypeCorrect == Spec => []TypeOK
<1>1. IInv => TypeOK
  BY DEF IInv
<1> QED BY ControlInvariant, <1>1, PTL

(* A stream begins with a queue that refuses packets and holds none.        *)
THEOREM StreamsStartEmpty == Spec => []SessionsStartEmpty
<1>1. IInv => SessionsStartEmpty
  BY DEF IInv, TypeOK, DataOK, packets!TypeOK, QueueInLoop, SessionsStartEmpty
<1> QED BY ControlInvariant, <1>1, PTL

(* When stop joins the push thread, the thread is not blocked in pop and    *)
(* does not get blocked there any more.                                     *)
THEOREM StopNeverMissesPop == Spec => []StopReachesPop
<1>1. IInv => StopReachesPop
  BY DEF IInv, TypeOK, DataOK, packets!TypeOK, QueueInLoop, StopProgress, Stopping, StopReachesPop
<1> QED BY ControlInvariant, <1>1, PTL

(* After stop no thread is left, unless the push thread ended by itself.    *)
THEOREM NoThreadLeft == Spec => []TalkEndsItsThreads
<1>1. IInv => TalkEndsItsThreads
  BY DEF IInv, PushThread, AudioThread, BetweenTalks, TalkEndsItsThreads
<1> QED BY ControlInvariant, <1>1, PTL

(* std::terminate needs a push thread that ended by itself: the premise of  *)
(* every crash of push is a broken connection, never a user's timing.       *)
THEOREM TerminateOnlyAfterBrokenStream == Spec => []TerminateNeedsBrokenStream
<1>1. IInv => TerminateNeedsBrokenStream
  BY DEF IInv, PushThread, TerminateNeedsBrokenStream
<1> QED BY ControlInvariant, <1>1, PTL

(* The audio thread never runs without its channel.                         *)
THEOREM ChannelSafe == Spec => []ChannelOutlivesAudioThread
<1>1. IInv => ChannelOutlivesAudioThread
  BY DEF IInv, AudioThread, ChannelOutlivesAudioThread
<1> QED BY ControlInvariant, <1>1, PTL

(* The conjunction the run checks: types, empty starts, termination and     *)
(* the channel, in every reachable state of every talk.                     *)
THEOREM TalkSafe == Spec => []TalkIsSafe
BY TypeCorrect, StreamsStartEmpty, TerminateOnlyAfterBrokenStream, ChannelSafe, PTL DEF TalkIsSafe

----------------------------------------------------------------------------
(* VideoSender implements PacketStream.                                     *)

(* Once stop has turned the queue off, the push thread may turn it on again *)
(* (line 93), but nobody is left who would fill it.                         *)
NothingRefilled == pc["gui"] \in {"stop_clear", "join_push"} /\ work_flag = 1 => que = << >>

(* Every step keeps it so. *)
LEMMA NothingRefilledPreserved == IInv /\ NothingRefilled /\ [Next]_vars => NothingRefilled'
<1> SUFFICES ASSUME IInv, NothingRefilled, [Next]_vars PROVE NothingRefilled' OBVIOUS
<1> USE DEF IInv, TypeOK, DataOK, PcOK, packets!TypeOK, NothingRefilled, StopProgress, Stopping,
            QueueInLoop, Threads, Producers, flagVars, guiVars, pushVars, producerVars, queueVars, Goto
<1>1. CASE ~aborted /\ (push \/ stop \/ receiveOneFrame \/ openAudio \/ startAudioThread \/ joinAudio)
  BY <1>1 DEF push, stop, receiveOneFrame, Produce, Burst, openAudio, startAudioThread, joinAudio
<1>2. CASE ~aborted /\ (stopFlag \/ stopWork \/ stopClear \/ joinPush)
  BY <1>2 DEF stopFlag, stopWork, packets!setWork, stopClear, packets!clear, joinPush
<1>3. CASE ~aborted /\ (PushConnected \/ PushConnectFails \/ PushSetWork \/ PushCheck)
  BY <1>3 DEF PushConnected, PushConnectFails, PushSetWork, packets!setWork, PushCheck
<1>4. CASE ~aborted /\ (PushPop \/ PushSpuriousWakeup)
  BY <1>4 DEF PushPop, packets!popElement, packets!popWait, packets!popNothing,
     packets!queueVars, PushSpuriousWakeup, packets!SpuriousWakeup
<1>5. CASE ~aborted /\ (PushSends \/ PushSendFails \/ PushUnwork \/ PushClear \/ PushFinish)
  BY <1>5 DEF PushSends, PushSendFails, PushUnwork, packets!setWork, PushClear, packets!clear, PushFinish
<1>6. CASE ~aborted /\ (AudioRound \/ AudioFinish \/ \E p \in Producers : StampPacket(p))
  BY <1>6 DEF AudioRound, Produce, Burst, AudioFinish, StampPacket
<1>7. CASE ~aborted /\ \E p \in Producers : EnqueuePacket(p)
  BY <1>7 DEF EnqueuePacket, Resume, packets!push
<1>8. CASE UNCHANGED vars
  BY <1>8 DEF vars
<1> QED
  BY <1>1, <1>2, <1>3, <1>4, <1>5, <1>6, <1>7, <1>8
     DEF Next, Over, GuiStep, PushStep, AudioStep

(* A sequence with an element before it.                                    *)
LEMMA Prefixed ==
  ASSUME NEW S, NEW s \in Seq(S), NEW x \in S
  PROVE  /\ <<x>> \o s \in Seq(S) /\ <<x>> \o s # << >>
         /\ Head(<<x>> \o s) = x /\ Tail(<<x>> \o s) = s
         /\ Len(<<x>> \o s) >= 1 /\ SubSeq(<<x>> \o s, 1, 1) = <<x>>
         /\ \A y \in S : Append(<<x>> \o s, y) = <<x>> \o Append(s, y)
<1> DEFINE t == <<x>> \o s
<1>1. /\ t \in Seq(S) /\ Len(t) = Len(s) + 1 /\ Len(s) \in Nat
      /\ t[1] = x /\ \A i \in 1..Len(s) : t[i + 1] = s[i]
  OBVIOUS
<1> HIDE DEF t
<1>2. t # << >> /\ Head(t) = x /\ Len(t) >= 1
  BY <1>1
<1>3. Tail(t) = s
  <2>1. Tail(t) \in Seq(S) /\ Len(Tail(t)) = Len(s)
    BY <1>1, <1>2
  <2>2. \A i \in 1..Len(s) : Tail(t)[i] = s[i]
    BY <1>1, <1>2
  <2> QED
    BY <1>1, <2>1, <2>2
<1>4. SubSeq(t, 1, 1) = <<x>>
  <2> DEFINE l == SubSeq(t, 1, 1)
             r == <<x>>
  <2>1. l \in Seq(S) /\ Len(l) = 1 /\ l[1] = x
    BY <1>1, <1>2
  <2>2. r \in Seq(S) /\ Len(r) = 1 /\ r[1] = x
    OBVIOUS
  <2> HIDE DEF l, r
  <2>3. l = r
    BY <2>1, <2>2
  <2> QED
    BY <2>3 DEF l, r
<1>5. ASSUME NEW y \in S PROVE Append(t, y) = <<x>> \o Append(s, y)
  <2> DEFINE l == Append(t, y)
             r == <<x>> \o Append(s, y)
  <2>1. l \in Seq(S) /\ Len(l) = Len(s) + 2 /\ l[Len(s) + 2] = y
        /\ \A i \in 1..(Len(s) + 1) : l[i] = t[i]
    BY <1>1
  <2>2. r \in Seq(S) /\ Len(r) = Len(s) + 2 /\ r[1] = x /\ r[Len(s) + 2] = y
        /\ \A i \in 1..Len(s) : r[i + 1] = s[i]
    OBVIOUS
  <2>3. \A i \in 1..(Len(s) + 2) : l[i] = r[i]
    <3> SUFFICES ASSUME NEW i \in 1..(Len(s) + 2) PROVE l[i] = r[i]
      OBVIOUS
    <3> HIDE DEF l, r
    <3>1. CASE i = 1
      BY <1>1, <2>1, <2>2, <3>1
    <3>2. CASE i = Len(s) + 2
      BY <2>1, <2>2, <3>2
    <3>3. CASE i \in 2..(Len(s) + 1)
      <4>1. i - 1 \in 1..Len(s) /\ (i - 1) + 1 = i /\ i \in 1..(Len(s) + 1)
        BY <1>1, <3>3
      <4> QED
        BY <1>1, <2>1, <2>2, <4>1
    <3> QED
      BY <1>1, <3>1, <3>2, <3>3
  <2> HIDE DEF l, r
  <2>4. l = r
    BY <1>1, <2>1, <2>2, <2>3
  <2> QED
    BY <2>4 DEF l, r
<1> QED
  BY <1>1, <1>2, <1>3, <1>4, <1>5 DEF t

(* A queue is its oldest packet before the others. *)
LEMMA HeadAndTail ==
  ASSUME NEW S, NEW s \in Seq(S), s # << >>
  PROVE  <<Head(s)>> \o Tail(s) = s
OBVIOUS

(* The packets in flight, with one that is being sent and without.          *)
LEMMA InFlightParts ==
  ASSUME TypeOK
  PROVE  /\ packet = NoPacket => InFlight = que
         /\ packet # NoPacket =>
              /\ packet \in Packet /\ InFlight = <<packet>> \o que /\ InFlight # << >>
              /\ Head(InFlight) = packet /\ Tail(InFlight) = que
              /\ Len(InFlight) >= 1 /\ SubSeq(InFlight, 1, 1) = <<packet>>
<1> USE DEF TypeOK, DataOK, packets!TypeOK
<1>1. CASE packet = NoPacket
  BY <1>1 DEF InFlight
<1>2. CASE packet # NoPacket
  <2>1. packet \in Packet /\ que \in Seq(Packet)
    BY <1>2
  <2>2. InFlight = <<packet>> \o que
    BY <1>2 DEF InFlight
  <2> QED
    BY <1>2, <2>1, <2>2, Prefixed
<1> QED
  BY <1>1, <1>2

(* What the push thread does to the stream. *)
LEMMA PopIsHidden ==
  ASSUME IInv, PushPop
  PROVE  InFlight' = InFlight /\ sent' = sent /\ work_flag' = work_flag
<1>1. packet = NoPacket /\ que \in Seq(Packet) /\ InFlight = que
  BY InFlightParts DEF IInv, TypeOK, DataOK, packets!TypeOK, PacketsCounted, PushPop, Goto
<1>2. CASE packets!popElement("push") /\ packet' = Head(que)
  <2>1. que # << >> /\ que' = Tail(que) /\ work_flag' = work_flag
    BY <1>2 DEF packets!popElement
  <2>2. packet' # NoPacket
    BY <1>1, <1>2, <2>1, PacketsPopped
  <2>3. InFlight' = <<Head(que)>> \o Tail(que)
    BY <1>2, <2>1, <2>2 DEF InFlight
  <2> QED
    BY <1>1, <2>1, <2>3, HeadAndTail DEF PushPop
<1>3. CASE (packets!popWait("push") \/ packets!popNothing("push")) /\ UNCHANGED packet
  BY <1>3 DEF PushPop, packets!popWait, packets!popNothing, packets!queueVars, InFlight
<1> QED
  BY <1>2, <1>3 DEF PushPop

(* A connected push thread opens the stream, and finds it empty. *)
LEMMA SetWorkIsOpen == IInv /\ PushSetWork => Stream!Open
<1> SUFFICES ASSUME IInv, PushSetWork PROVE Stream!Open
  OBVIOUS
<1>1. pc["push"] = "set_work" /\ work_flag' = 1 /\ que' = que /\ packet' = packet /\ sent' = sent
  BY DEF PushSetWork, Goto, packets!setWork, pushVars
<1>2. que = << >> /\ packet = NoPacket
  BY <1>1 DEF IInv, QueueInLoop, PacketsCounted
<1>3. InFlight = << >> /\ InFlight' = << >>
  BY <1>1, <1>2 DEF InFlight
<1> QED
  BY <1>1, <1>3 DEF Stream!Open

(* The packet that was popped is the oldest in flight. *)
LEMMA SendsIsSend == IInv /\ PushSends => Stream!Send
<1> SUFFICES ASSUME IInv, PushSends PROVE Stream!Send
  OBVIOUS
<1>1. packet # NoPacket /\ TypeOK
  BY DEF IInv, PacketsCounted, PushSends, Goto
<1>2. InFlight' = que /\ sent' = Append(sent, packet) /\ work_flag' = work_flag
  BY <1>1 DEF PushSends, InFlight, queueVars, TypeOK, DataOK, packets!TypeOK
<1> QED
  BY <1>1, <1>2, InFlightParts DEF Stream!Send

(* A broken connection loses that packet and no other. *)
LEMMA SendFailsIsLose == IInv /\ PushSendFails => Stream!Lose
<1> SUFFICES ASSUME IInv, PushSendFails PROVE Stream!Lose
  OBVIOUS
<1>1. packet # NoPacket /\ TypeOK
  BY DEF IInv, PacketsCounted, PushSendFails, Goto
<1>2. InFlight' = que /\ sent' = sent /\ work_flag' = work_flag
  BY <1>1 DEF PushSendFails, InFlight, queueVars, TypeOK, DataOK, packets!TypeOK
<1> QED
  BY <1>1, <1>2, InFlightParts DEF Stream!Lose

(* setWork(0) of either thread. *)
LEMMA UnworkIsClose == stopWork \/ PushUnwork => Stream!Close
<1> SUFFICES ASSUME stopWork \/ PushUnwork PROVE Stream!Close
  OBVIOUS
<1>1. work_flag' = 0 /\ que' = que /\ packet' = packet /\ sent' = sent
  BY DEF stopWork, PushUnwork, packets!setWork, pushVars
<1> QED
  BY <1>1 DEF Stream!Close, InFlight

(* clear of either thread; stop may find the queue turned on again, but     *)
(* then it is empty.                                                        *)
LEMMA ClearIsDrop ==
  IInv /\ NothingRefilled /\ (stopClear \/ PushClear)
    => Stream!Drop \/ UNCHANGED Stream!streamVars
<1> SUFFICES ASSUME IInv, NothingRefilled, stopClear \/ PushClear
             PROVE  Stream!Drop \/ UNCHANGED Stream!streamVars
  OBVIOUS
<1>1. que' = << >> /\ packet' = packet /\ sent' = sent /\ work_flag' = work_flag /\ TypeOK
  BY DEF stopClear, PushClear, packets!clear, pushVars, IInv
<1>2. CASE work_flag = 1
  <2>1. que = << >>
    BY <1>2 DEF IInv, QueueInLoop, NothingRefilled, stopClear, PushClear, Goto
  <2>2. InFlight' = InFlight
    BY <1>1, <2>1 DEF InFlight
  <2> QED
    BY <1>1, <2>2 DEF Stream!streamVars
<1>3. CASE work_flag # 1 /\ packet = NoPacket
  <2>1. InFlight = que /\ que \in Seq(Packet) /\ InFlight' = << >>
    BY <1>1, <1>3, InFlightParts DEF InFlight, TypeOK, DataOK, packets!TypeOK
  <2>2. SubSeq(InFlight, 1, 0) = << >> /\ 0 <= Len(InFlight)
    BY <2>1
  <2> QED
    BY <1>1, <1>3, <2>1, <2>2 DEF Stream!Drop
<1>4. CASE work_flag # 1 /\ packet # NoPacket
  <2>1. InFlight' = <<packet>>
    BY <1>1, <1>4 DEF InFlight
  <2>2. SubSeq(InFlight, 1, 1) = <<packet>> /\ 1 <= Len(InFlight)
    BY <1>1, <1>4, InFlightParts
  <2>3. InFlight' = SubSeq(InFlight, 1, 1)
    BY <2>1, <2>2, Zenon
  <2>4. \E n \in 0..1 : n <= Len(InFlight) /\ InFlight' = SubSeq(InFlight, 1, n)
    BY <2>2, <2>3, 1 \in 0..1
  <2> QED
    BY <1>1, <1>4, <2>4 DEF Stream!Drop
<1> QED
  BY <1>2, <1>3, <1>4

(* push of a producer. *)
LEMMA EnqueueIsAccept ==
  ASSUME IInv, NEW p \in Producers, EnqueuePacket(p)
  PROVE  Stream!Accept(stamped[p]) \/ UNCHANGED Stream!streamVars
<1>1. /\ stamped[p] \in Packet /\ packet' = packet /\ sent' = sent /\ que \in Seq(Packet) /\ TypeOK
  BY DEF IInv, TypeOK, DataOK, packets!TypeOK, PacketsCounted, EnqueuePacket, Goto, pushVars
<1>2. CASE work_flag = 1 /\ que' = Append(que, stamped[p]) /\ work_flag' = work_flag
  <2>1. CASE packet = NoPacket
    BY <1>1, <1>2, <2>1, InFlightParts DEF Stream!Accept, InFlight
  <2>2. CASE packet # NoPacket
    <3>1. packet \in Packet /\ InFlight = <<packet>> \o que
      BY <1>1, <2>2, InFlightParts
    <3>2. InFlight' = <<packet>> \o Append(que, stamped[p])
      BY <1>1, <1>2, <2>2 DEF InFlight
    <3>3. InFlight' = Append(InFlight, stamped[p])
      BY <1>1, <3>1, <3>2, Prefixed
    <3> QED
      BY <1>1, <1>2, <3>3 DEF Stream!Accept
  <2> QED
    BY <2>1, <2>2
<1>3. CASE que' = que /\ work_flag' = work_flag
  BY <1>1, <1>3 DEF Stream!streamVars, InFlight
<1> QED
  BY <1>2, <1>3 DEF EnqueuePacket, packets!push

(* The steps that touch neither the queue nor what is sent. *)
LEMMA OthersAreHidden ==
  UNCHANGED <<que, work_flag, packet, sent>> => UNCHANGED Stream!streamVars
BY DEF Stream!streamVars, InFlight

(* What the server gets is a stream of packets in the order they were       *)
(* accepted, closed and emptied before the next one opens, for any number   *)
(* of talks and packets and any interleaving of the three threads.          *)
THEOREM StreamRefinement == Spec => ImplementsStream
<1>1. Init => Stream!Init /\ NothingRefilled
  BY DEF Init, packets!Init, Stream!Init, InFlight, NothingRefilled
<1>2. IInv /\ NothingRefilled /\ [Next]_vars => [Stream!Next]_(Stream!streamVars)
  <2> SUFFICES ASSUME IInv, NothingRefilled, [Next]_vars
               PROVE  Stream!Next \/ UNCHANGED Stream!streamVars
    BY Zenon
  <2>1. CASE PushPop
    BY <2>1, PopIsHidden DEF Stream!streamVars
  <2>2. CASE PushSetWork
    BY <2>2, SetWorkIsOpen DEF Stream!Next
  <2>3. CASE PushSends \/ PushSendFails
    BY <2>3, SendsIsSend, SendFailsIsLose DEF Stream!Next
  <2>4. CASE stopWork \/ PushUnwork
    BY <2>4, UnworkIsClose DEF Stream!Next
  <2>5. CASE stopClear \/ PushClear
    BY <2>5, ClearIsDrop DEF Stream!Next
  <2>6. CASE \E p \in Producers : EnqueuePacket(p)
    <3> PICK p \in Producers : EnqueuePacket(p)
      BY <2>6
    <3>1. stamped[p] \in Packet
      BY DEF IInv, TypeOK, DataOK, PacketsCounted, EnqueuePacket, Goto
    <3> QED
      BY <3>1, EnqueueIsAccept DEF Stream!Next
  <2>7. CASE \/ push \/ stop \/ receiveOneFrame \/ openAudio \/ startAudioThread \/ joinAudio
             \/ stopFlag \/ joinPush \/ PushConnected \/ PushConnectFails \/ PushCheck
             \/ PushFinish \/ PushSpuriousWakeup \/ AudioRound \/ AudioFinish
             \/ (\E p \in Producers : StampPacket(p)) \/ UNCHANGED vars
    <3>1. UNCHANGED <<que, work_flag, packet, sent>>
      BY <2>7 DEF push, stop, receiveOneFrame, openAudio, startAudioThread, joinAudio, stopFlag,
           joinPush, PushConnected, PushConnectFails, PushCheck, PushFinish, PushSpuriousWakeup,
           packets!SpuriousWakeup, AudioRound, AudioFinish, StampPacket, vars, queueVars, pushVars
    <3> QED
      BY <3>1, OthersAreHidden
  <2> QED
    BY <2>1, <2>2, <2>3, <2>4, <2>5, <2>6, <2>7
       DEF Next, Over, GuiStep, PushStep, AudioStep, Producers
<1> QED
  BY ControlInvariant, NothingRefilledPreserved, <1>1, <1>2, PTL
     DEF Spec, ImplementsStream, Stream!Spec

----------------------------------------------------------------------------
(* Ownership of the packets. *)

(* The packets somebody has, and those that are deleted. *)
Owned == (packets!Queued \cup {packet, stamped["gui"], stamped["audio"]}) \ {NoPacket}
Gone == freed \cup released

(* The owners have nothing in common, and what is gone has none. *)
Apart ==
  /\ \A i, j \in DOMAIN que : que[i] = que[j] => i = j
  /\ packet \notin packets!Queued
  /\ \A p \in Producers : stamped[p] \notin packets!Queued
  /\ \A p \in Producers : stamped[p] = packet => packet = NoPacket
  /\ stamped["gui"] = stamped["audio"] => stamped["gui"] = NoPacket
  /\ Owned \cap Gone = {} /\ freed \cap released = {}

(* A new packet has a name no packet had, and none is forgotten. *)
NamesGiven ==
  /\ \A x \in Owned \cup Gone : x.id < next_id
  /\ \A id \in 1..(next_id - 1) : \E x \in Owned \cup Gone : x.id = id

OwnersInv == Apart /\ NamesGiven

(* The queue as a set: what Append and Tail do to it.                       *)
LEMMA QueuedPackets ==
  ASSUME TypeOK
  PROVE  /\ packets!Queued \subseteq Packet /\ NoPacket \notin Packet
         /\ NoPacket \notin packets!Queued
         /\ que \in Seq(Packet) /\ DOMAIN que = 1..Len(que) /\ Len(que) \in Nat
<1>1. que \in Seq(Packet)
  BY DEF TypeOK, DataOK, packets!TypeOK
<1>2. DOMAIN que = 1..Len(que) /\ Len(que) \in Nat /\ packets!Queued \subseteq Packet
  BY <1>1 DEF packets!Queued
<1>3. NoPacket \notin Packet
  BY DEF NoPacket, Packet, PacketIds
<1> QED
  BY <1>1, <1>2, <1>3

LEMMA QueuedAppend ==
  ASSUME TypeOK, NEW x \in Packet, que' = Append(que, x)
  PROVE  /\ packets!Queued' = packets!Queued \cup {x}
         /\ (\A i, j \in DOMAIN que : que[i] = que[j] => i = j) /\ x \notin packets!Queued =>
              (\A i, j \in DOMAIN que : que[i] = que[j] => i = j)'
<1>1. /\ que \in Seq(Packet) /\ DOMAIN que = 1..Len(que) /\ Len(que) \in Nat
  BY QueuedPackets
<1>2. /\ DOMAIN que' = 1..(Len(que) + 1) /\ que'[Len(que) + 1] = x
      /\ \A i \in 1..Len(que) : que'[i] = que[i]
  BY <1>1
<1>3. packets!Queued' = packets!Queued \cup {x}
  <2>1. \A i \in 1..(Len(que) + 1) : i \in 1..Len(que) \/ i = Len(que) + 1
    BY <1>1
  <2>2. 1..Len(que) \subseteq 1..(Len(que) + 1) /\ Len(que) + 1 \in 1..(Len(que) + 1)
    BY <1>1
  <2> QED
    BY <1>1, <1>2, <2>1, <2>2 DEF packets!Queued
<1>4. ASSUME \A i, j \in DOMAIN que : que[i] = que[j] => i = j, x \notin packets!Queued
      PROVE  (\A i, j \in DOMAIN que : que[i] = que[j] => i = j)'
  <2>1. \A i \in DOMAIN que : que[i] # x
    BY <1>4 DEF packets!Queued
  <2> QED
    BY <1>1, <1>2, <1>4, <2>1
<1> QED
  BY <1>3, <1>4

LEMMA QueuedTail ==
  ASSUME TypeOK, que # << >>, que' = Tail(que), \A i, j \in DOMAIN que : que[i] = que[j] => i = j
  PROVE  /\ packets!Queued' = packets!Queued \ {Head(que)} /\ Head(que) \in packets!Queued
         /\ (\A i, j \in DOMAIN que : que[i] = que[j] => i = j)'
<1>1. /\ que \in Seq(Packet) /\ DOMAIN que = 1..Len(que) /\ Len(que) \in Nat
  BY QueuedPackets
<1>2. /\ DOMAIN que' = 1..(Len(que) - 1) /\ Len(que) \in Nat \ {0} /\ Head(que) = que[1]
      /\ \A i \in 1..(Len(que) - 1) : que'[i] = que[i + 1]
  BY <1>1
<1>3. packets!Queued' \subseteq packets!Queued \ {Head(que)}
  <2> SUFFICES ASSUME NEW i \in 1..(Len(que) - 1) PROVE que'[i] \in packets!Queued \ {Head(que)}
    BY <1>2 DEF packets!Queued
  <2>1. i + 1 \in DOMAIN que /\ 1 \in DOMAIN que /\ i + 1 # 1
    BY <1>1, <1>2
  <2>2. que[i + 1] # que[1]
    BY <2>1
  <2> QED
    BY <1>2, <2>1, <2>2 DEF packets!Queued
<1>4. packets!Queued \ {Head(que)} \subseteq packets!Queued'
  <2> SUFFICES ASSUME NEW i \in DOMAIN que, que[i] # Head(que) PROVE que[i] \in packets!Queued'
    BY DEF packets!Queued
  <2>1. i - 1 \in 1..(Len(que) - 1) /\ (i - 1) + 1 = i
    BY <1>1, <1>2
  <2>2. que'[i - 1] = que[i]
    BY <1>2, <2>1
  <2> QED
    BY <1>2, <2>1, <2>2 DEF packets!Queued
<1>5. (\A i, j \in DOMAIN que : que[i] = que[j] => i = j)'
  <2> SUFFICES ASSUME NEW i \in 1..(Len(que) - 1), NEW j \in 1..(Len(que) - 1), que'[i] = que'[j]
               PROVE  i = j
    BY <1>2
  <2>1. i + 1 \in DOMAIN que /\ j + 1 \in DOMAIN que /\ que[i + 1] = que[j + 1]
    BY <1>1, <1>2
  <2>2. i + 1 = j + 1
    BY <2>1
  <2> QED
    BY <2>2
<1>6. Head(que) \in packets!Queued
  BY <1>1, <1>2 DEF packets!Queued
<1> QED
  BY <1>3, <1>4, <1>5, <1>6

(* RTMPPacketCallBack makes a packet nobody had. *)
LEMMA StampKeepsOwners ==
  ASSUME IInv, OwnersInv, NEW p \in Producers, StampPacket(p)
  PROVE  OwnersInv'
<1> DEFINE new == [id |-> next_id, src |-> p, session |-> session, base |-> push_start_time]
<1>1. /\ stamped[p] = NoPacket /\ stamped' = [stamped EXCEPT ![p] = new]
      /\ next_id' = next_id + 1 /\ next_id \in Nat \ {0}
      /\ UNCHANGED <<packet, freed, released, que>>
      /\ stamped \in [Producers -> Packet \cup {NoPacket}]
  BY DEF StampPacket, Goto, IInv, PacketsCounted, pushVars, queueVars, TypeOK, DataOK
<1>2. new.id = next_id /\ new # NoPacket
  BY <1>1 DEF NoPacket
<1> HIDE DEF new
<1>3. new \notin Owned \cup Gone
  BY <1>1, <1>2 DEF OwnersInv, NamesGiven
<1>4. packets!Queued' = packets!Queued /\ Gone' = Gone
  BY <1>1 DEF packets!Queued, Gone
<1>5. Owned' = Owned \cup {new}
  BY <1>1, <1>2, <1>4 DEF Owned, Producers
<1>6. NamesGiven'
  <2>1. \A id \in 1..next_id : id \in 1..(next_id - 1) \/ id = next_id
    BY <1>1
  <2>2. \A x \in Owned \cup Gone : x.id < next_id + 1
    <3> SUFFICES ASSUME NEW x \in Owned \cup Gone PROVE x.id < next_id + 1
      OBVIOUS
    <3>1. x.id < next_id /\ x \in Packet
      BY QueuedPackets DEF OwnersInv, NamesGiven, IInv, Owned, Gone, TypeOK, DataOK, packets!TypeOK, Producers
    <3> QED
      BY <1>1, <3>1 DEF Packet, PacketIds
  <2> QED
    BY <1>1, <1>2, <1>4, <1>5, <2>1, <2>2 DEF OwnersInv, NamesGiven
<1>7. Apart'
  <2>1. new \notin packets!Queued /\ new # packet /\ \A q \in Producers : new # stamped[q]
    BY <1>2, <1>3 DEF Owned, Producers
  <2>2. Owned' \cap Gone' = {}
    BY <1>3, <1>4, <1>5 DEF OwnersInv, Apart
  <2>3. \A q \in Producers : stamped'[q] = IF q = p THEN new ELSE stamped[q]
    BY <1>1
  <2> QED
    BY <1>1, <1>2, <1>4, <2>1, <2>2, <2>3 DEF OwnersInv, Apart, Producers
<1> QED
  BY <1>6, <1>7 DEF OwnersInv

(* push hands the packet to the queue or to release_handle. *)
LEMMA EnqueueKeepsOwners ==
  ASSUME IInv, OwnersInv, NEW p \in Producers, EnqueuePacket(p)
  PROVE  OwnersInv'
<1>1. /\ stamped[p] \in Packet /\ stamped[p] # NoPacket
      /\ stamped' = [stamped EXCEPT ![p] = NoPacket]
      /\ UNCHANGED <<packet, freed, next_id>> /\ packets!push(stamped[p])
      /\ stamped \in [Producers -> Packet \cup {NoPacket}]
      /\ TypeOK
  BY DEF EnqueuePacket, Goto, IInv, PacketsCounted, pushVars, TypeOK, DataOK
<1>2. \A q \in Producers : stamped'[q] = IF q = p THEN NoPacket ELSE stamped[q]
  BY <1>1
<1>3. /\ stamped[p] \notin packets!Queued /\ stamped[p] # packet /\ stamped[p] \in Owned
      /\ stamped[p] \notin Gone /\ NoPacket \notin packets!Queued
      /\ \A q \in Producers : q # p => stamped[q] # stamped[p]
  BY <1>1, QueuedPackets DEF OwnersInv, Apart, Owned, Producers
<1>4. CASE que' = Append(que, stamped[p]) /\ UNCHANGED released
  <2>1. /\ packets!Queued' = packets!Queued \cup {stamped[p]}
        /\ (\A i, j \in DOMAIN que : que[i] = que[j] => i = j)'
    BY <1>1, <1>3, <1>4, QueuedAppend DEF OwnersInv, Apart
  <2>2. Owned' = Owned /\ Gone' = Gone
    BY <1>1, <1>2, <1>3, <1>4, <2>1 DEF Owned, Gone, Producers
  <2> QED
    BY <1>1, <1>2, <1>3, <1>4, <2>1, <2>2 DEF OwnersInv, Apart, NamesGiven, Producers
<1>5. CASE released' = released \cup {stamped[p]} /\ UNCHANGED que
  <2>1. packets!Queued' = packets!Queued
    BY <1>5 DEF packets!Queued
  <2>2. Owned' = Owned \ {stamped[p]} /\ Gone' = Gone \cup {stamped[p]}
    BY <1>1, <1>2, <1>3, <1>5, <2>1 DEF Owned, Gone, Producers
  <2>3. Owned' \cup Gone' = Owned \cup Gone
    BY <1>3, <2>2
  <2>4. freed' \cap released' = {}
    BY <1>1, <1>3, <1>5 DEF OwnersInv, Apart, Gone
  <2> QED
    BY <1>1, <1>2, <1>3, <1>5, <2>1, <2>2, <2>3, <2>4 DEF OwnersInv, Apart, NamesGiven, Producers
<1> QED
  BY <1>1, <1>4, <1>5 DEF packets!push

(* pop hands the oldest packet to the push thread, which has none. *)
LEMMA PopKeepsOwners ==
  ASSUME IInv, OwnersInv, PushPop
  PROVE  OwnersInv'
<1>1. /\ packet = NoPacket /\ UNCHANGED <<stamped, freed, released, next_id>> /\ TypeOK
  BY DEF PushPop, Goto, IInv, PacketsCounted, packets!popElement, packets!popWait, packets!popNothing,
         packets!queueVars, producerVars
<1>2. CASE que # << >> /\ que' = Tail(que) /\ packet' = Head(que)
  <2>1. /\ packets!Queued' = packets!Queued \ {packet'} /\ packet' \in packets!Queued
        /\ (\A i, j \in DOMAIN que : que[i] = que[j] => i = j)'
    BY <1>1, <1>2, QueuedTail DEF OwnersInv, Apart
  <2>2. NoPacket \notin packets!Queued
    BY <1>1, QueuedPackets
  <2>3. Owned' = Owned /\ Gone' = Gone
    BY <1>1, <2>1, <2>2 DEF Owned, Gone
  <2> QED
    BY <1>1, <2>1, <2>2, <2>3 DEF OwnersInv, Apart, NamesGiven
<1>3. CASE UNCHANGED <<que, packet>>
  BY <1>1, <1>3 DEF OwnersInv, Apart, NamesGiven, Owned, Gone, packets!Queued
<1> QED
  BY <1>2, <1>3 DEF PushPop, packets!popElement, packets!popWait, packets!popNothing, packets!queueVars

(* The packet is deleted once it was sent, or not. *)
LEMMA SendKeepsOwners ==
  ASSUME IInv, OwnersInv, PushSends \/ PushSendFails
  PROVE  OwnersInv'
<1>1. /\ packet # NoPacket /\ packet' = NoPacket /\ freed' = freed \cup {packet}
      /\ UNCHANGED <<stamped, released, next_id, que>> /\ TypeOK
  BY DEF PushSends, PushSendFails, Goto, IInv, PacketsCounted, producerVars, queueVars
<1>2. packets!Queued' = packets!Queued /\ NoPacket \notin packets!Queued
  BY <1>1, QueuedPackets DEF packets!Queued
<1>3. packet \in Owned /\ packet \notin Gone
  BY <1>1 DEF OwnersInv, Apart, Owned
<1>4. Owned' = Owned \ {packet} /\ Gone' = Gone \cup {packet}
  BY <1>1, <1>2 DEF Owned, Gone, OwnersInv, Apart, Producers
<1>5. Owned' \cup Gone' = Owned \cup Gone /\ freed' \cap released' = {}
  BY <1>1, <1>3, <1>4 DEF OwnersInv, Apart, Gone
<1> QED
  BY <1>1, <1>2, <1>3, <1>4, <1>5 DEF OwnersInv, Apart, NamesGiven

(* clear releases what is queued. *)
LEMMA ClearKeepsOwners ==
  ASSUME IInv, OwnersInv, stopClear \/ PushClear
  PROVE  OwnersInv'
<1>1. /\ que' = << >> /\ released' = released \cup packets!Queued
      /\ UNCHANGED <<stamped, packet, freed, next_id>>
      /\ TypeOK
  BY DEF stopClear, PushClear, packets!clear, IInv, producerVars, pushVars
<1>2. packets!Queued' = {} /\ NoPacket \notin packets!Queued
  BY <1>1, QueuedPackets DEF packets!Queued
<1>3. packets!Queued \subseteq Owned
  BY <1>2 DEF Owned
<1>4. Owned' = Owned \ packets!Queued /\ Gone' = Gone \cup packets!Queued
  BY <1>1, <1>2 DEF Owned, Gone, OwnersInv, Apart, Producers
<1>5. Owned' \cup Gone' = Owned \cup Gone /\ freed' \cap released' = {}
  BY <1>1, <1>3, <1>4 DEF OwnersInv, Apart, Gone
<1> QED
  BY <1>1, <1>2, <1>3, <1>4, <1>5 DEF OwnersInv, Apart, NamesGiven

LEMMA OwnersPreserved == IInv /\ OwnersInv /\ [Next]_vars => OwnersInv'
<1> SUFFICES ASSUME IInv, OwnersInv, [Next]_vars PROVE OwnersInv'
  OBVIOUS
<1>1. CASE \E p \in Producers : StampPacket(p) \/ EnqueuePacket(p)
  BY <1>1, StampKeepsOwners, EnqueueKeepsOwners
<1>2. CASE \/ push \/ stop \/ receiveOneFrame \/ openAudio \/ startAudioThread \/ joinAudio
           \/ stopFlag \/ stopWork \/ joinPush \/ PushConnected \/ PushConnectFails \/ PushSetWork
           \/ PushCheck \/ PushUnwork \/ PushFinish \/ PushSpuriousWakeup \/ AudioRound
           \/ AudioFinish \/ UNCHANGED vars
  <2>1. UNCHANGED <<que, released, packet, freed, stamped, next_id>>
    BY <1>2 DEF push, stop, receiveOneFrame, Produce, openAudio, startAudioThread, joinAudio, stopFlag,
         stopWork, joinPush, PushConnected, PushConnectFails, PushSetWork, PushCheck, PushUnwork,
         PushFinish, PushSpuriousWakeup, packets!SpuriousWakeup, packets!setWork, AudioRound,
         AudioFinish, vars, queueVars, pushVars, producerVars
  <2> QED
    BY <2>1 DEF OwnersInv, Apart, NamesGiven, Owned, Gone, packets!Queued
<1> QED
  BY <1>1, <1>2, PopKeepsOwners, SendKeepsOwners, ClearKeepsOwners
     DEF Next, Over, GuiStep, PushStep, AudioStep, Producers

(* What each owner holds, written one after the other. *)
LEMMA OneOwner == IInv /\ OwnersInv => PacketsHaveOneOwner
<1> SUFFICES ASSUME IInv, OwnersInv PROVE PacketsHaveOneOwner
  OBVIOUS
<1> DEFINE held == InFlight \o <<stamped["gui"], stamped["audio"]>>
           k == IF packet = NoPacket THEN 0 ELSE 1
           n == Len(que)
<1>1. /\ TypeOK /\ que \in Seq(Packet) /\ DOMAIN que = 1..n /\ n \in Nat
      /\ NoPacket \notin packets!Queued
  BY QueuedPackets DEF IInv
<1>2. /\ DOMAIN held = 1..(k + n + 2) /\ k \in 0..1
      /\ k = 1 => packet # NoPacket /\ held[1] = packet
      /\ k = 0 => packet = NoPacket
      /\ \A i \in 1..n : held[k + i] = que[i]
      /\ held[k + n + 1] = stamped["gui"] /\ held[k + n + 2] = stamped["audio"]
  <2>1. CASE packet = NoPacket
    BY <1>1, <2>1, InFlightParts
  <2>2. CASE packet # NoPacket
    <3>1. InFlight = <<packet>> \o que
      BY <1>1, <2>2, InFlightParts
    <3> QED
      BY <1>1, <2>2, <3>1
  <2> QED
    BY <2>1, <2>2
<1> HIDE DEF held, k, n
<1>3. \A i \in DOMAIN held :
        \/ k = 1 /\ i = 1
        \/ i - k \in 1..n /\ k + (i - k) = i
        \/ i = k + n + 1 \/ i = k + n + 2
  BY <1>1, <1>2
<1>4. \A i \in DOMAIN held :
        \/ k = 1 /\ i = 1 /\ held[i] = packet
        \/ i - k \in 1..n /\ k + (i - k) = i /\ held[i] = que[i - k] /\ held[i] \in packets!Queued
        \/ i = k + n + 1 /\ held[i] = stamped["gui"]
        \/ i = k + n + 2 /\ held[i] = stamped["audio"]
  <2> SUFFICES ASSUME NEW i \in DOMAIN held, i - k \in 1..n /\ k + (i - k) = i
               PROVE  held[i] = que[i - k] /\ held[i] \in packets!Queued
    BY <1>2, <1>3
  <2>1. held[k + (i - k)] = que[i - k]
    BY <1>2
  <2> QED
    BY <1>1, <2>1 DEF packets!Queued
<1>5. \A i, j \in DOMAIN held : held[i] = held[j] => i = j \/ held[i] = NoPacket
  <2> SUFFICES ASSUME NEW i \in DOMAIN held, NEW j \in DOMAIN held, held[i] = held[j],
                      held[i] # NoPacket, held[i] \in packets!Queued \/ held[i] \notin packets!Queued
               PROVE  i = j
    OBVIOUS
  <2>1. CASE held[i] \in packets!Queued
    <3>1. i - k \in 1..n /\ k + (i - k) = i /\ held[i] = que[i - k]
      BY <1>4, <2>1 DEF OwnersInv, Apart, Producers
    <3>2. j - k \in 1..n /\ k + (j - k) = j /\ held[j] = que[j - k]
      BY <1>4, <2>1 DEF OwnersInv, Apart, Producers
    <3>3. i - k = j - k
      BY <1>1, <3>1, <3>2 DEF OwnersInv, Apart
    <3> QED
      BY <3>1, <3>2, <3>3
  <2>2. CASE held[i] \notin packets!Queued
    BY <1>4, <2>2 DEF OwnersInv, Apart, Producers
  <2> QED
    BY <2>1, <2>2
<1>6. {held[i] : i \in DOMAIN held} \ {NoPacket} = Owned
  <2>1. \A i \in DOMAIN held : held[i] # NoPacket => held[i] \in Owned
    BY <1>4 DEF Owned
  <2>2. \A x \in Owned : \E i \in DOMAIN held : held[i] = x
    <3> SUFFICES ASSUME NEW x \in Owned PROVE \E i \in DOMAIN held : held[i] = x
      OBVIOUS
    <3>1. CASE x \in packets!Queued
      <4>1. PICK i \in 1..n : que[i] = x
        BY <1>1, <3>1 DEF packets!Queued
      <4>2. k + i \in DOMAIN held /\ held[k + i] = x
        BY <1>1, <1>2, <4>1
      <4> QED
        BY <4>2
    <3>2. CASE x = packet
      <4>1. k = 1 /\ 1 \in DOMAIN held
        BY <1>1, <1>2, <3>2 DEF Owned
      <4> QED
        BY <1>2, <3>2, <4>1
    <3>3. CASE x \in {stamped["gui"], stamped["audio"]}
      <4>1. k + n + 1 \in DOMAIN held /\ k + n + 2 \in DOMAIN held
        BY <1>1, <1>2
      <4> QED
        BY <1>2, <3>3, <4>1
    <3> QED
      BY <3>1, <3>2, <3>3 DEF Owned
  <2>3. NoPacket \notin Owned
    BY DEF Owned
  <2> QED
    BY <2>1, <2>2, <2>3
<1>7. /\ \A i, j \in DOMAIN held : held[i] = held[j] => i = j \/ held[i] = NoPacket
      /\ Owned \cap (freed \cup released) = {} /\ freed \cap released = {}
      /\ \A id \in 1..(next_id - 1) : \E p \in Owned \cup freed \cup released : p.id = id
  BY <1>5 DEF OwnersInv, Apart, NamesGiven, Gone
<1> QED
  BY <1>6, <1>7 DEF PacketsHaveOneOwner, held

(* Every packet has one owner, is deleted once and is not forgotten, for    *)
(* any number of packets and sessions.                                      *)
THEOREM OwnershipHolds == Spec => []PacketsHaveOneOwner
<1>1. Init => OwnersInv
  BY DEF Init, packets!Init, OwnersInv, Apart, NamesGiven, Owned, Gone, packets!Queued, Producers
<1> QED
  BY ControlInvariant, OwnersPreserved, OneOwner, <1>1, PTL DEF Spec

----------------------------------------------------------------------------
(* Time stamps. *)

(* The packets in the order of the stream: sent, being sent, queued.        *)
Pushed == sent \o InFlight

(* A producer has a packet of this session in the stream.                   *)
HasPushed(p) == \E i \in DOMAIN Pushed : Pushed[i].src = p /\ Pushed[i].session = session

(* The stream opens once its start time is written; a packet that is        *)
(* stamped is of this session, and after the first one that was accepted    *)
(* every stamp has the time of the stream.                                  *)
StampsOfSession ==
  /\ pc["push"] = "set_work" \/ work_flag = 1 => push_start_time = session
  /\ \A i \in DOMAIN Pushed : Pushed[i].session <= session
  /\ \A p \in Producers :
       /\ HasPushed(p) => push_start_time = session
       /\ stamped[p] # NoPacket =>
            /\ stamped[p].src = p /\ stamped[p].session = session
            /\ HasPushed(p) => stamped[p].base = session

StampsInv == OneStaleStampPerProducer /\ (~aborted => StampsOfSession)

(* What is in the stream, place by place.                                   *)
PushedShape ==
  /\ sent \in Seq(Packet) /\ que \in Seq(Packet) /\ InFlight \in Seq(Packet) /\ Pushed \in Seq(Packet)
  /\ DOMAIN Pushed = 1..(Len(sent) + Len(InFlight)) /\ Len(sent) \in Nat /\ Len(InFlight) \in Nat
  /\ \A i \in 1..Len(sent) : Pushed[i] = sent[i]
  /\ \A i \in 1..Len(InFlight) : Pushed[Len(sent) + i] = InFlight[i]

(* It has a first part that was sent and a second that is on its way.       *)
LEMMA PushedParts == TypeOK => PushedShape
<1> SUFFICES ASSUME TypeOK PROVE PushedShape
  OBVIOUS
<1>1. sent \in Seq(Packet) /\ que \in Seq(Packet) /\ packet \in Packet \cup {NoPacket}
  BY DEF TypeOK, DataOK, packets!TypeOK
<1>2. InFlight \in Seq(Packet)
  BY <1>1 DEF InFlight
<1> QED
  BY <1>1, <1>2 DEF Pushed, PushedShape

(* After a step as well. *)
LEMMA PushedPartsNext == TypeOK' => PushedShape'
BY PushedParts, PTL

(* A packet that was sent does not change the order of the others.          *)
LEMMA AppendIsPrefixed ==
  ASSUME NEW S, NEW s \in Seq(S), NEW t \in Seq(S), NEW x \in S
  PROVE  Append(s, x) \o t = s \o (<<x>> \o t)
<1> DEFINE l == Append(s, x) \o t
           r == s \o (<<x>> \o t)
<1>1. /\ l \in Seq(S) /\ Len(l) = Len(s) + 1 + Len(t)
      /\ \A i \in 1..Len(s) : l[i] = s[i]
      /\ l[Len(s) + 1] = x
      /\ \A i \in 1..Len(t) : l[Len(s) + 1 + i] = t[i]
  OBVIOUS
<1>2. /\ r \in Seq(S) /\ Len(r) = Len(s) + 1 + Len(t)
      /\ \A i \in 1..Len(s) : r[i] = s[i]
      /\ r[Len(s) + 1] = x
      /\ \A i \in 1..Len(t) : r[Len(s) + 1 + i] = t[i]
  OBVIOUS
<1> HIDE DEF l, r
<1>3. ASSUME NEW i \in 1..Len(l) PROVE l[i] = r[i]
  <2>1. CASE i \in 1..Len(s)
    BY <1>1, <1>2, <2>1
  <2>2. CASE i = Len(s) + 1
    BY <1>1, <1>2, <2>2
  <2>3. CASE i \in (Len(s) + 2)..Len(l)
    <3>1. i - Len(s) - 1 \in 1..Len(t) /\ Len(s) + 1 + (i - Len(s) - 1) = i
      BY <1>1, <2>3
    <3> QED
      BY <1>1, <1>2, <3>1
  <2>4. Len(s) \in Nat /\ Len(t) \in Nat /\ i \in 1..(Len(s) + 1 + Len(t))
    BY <1>1
  <2>5. i \in 1..Len(s) \/ i = Len(s) + 1 \/ i \in (Len(s) + 2)..(Len(s) + 1 + Len(t))
    BY <2>4
  <2> QED
    BY <1>1, <2>1, <2>2, <2>3, <2>5
<1>4. l = r
  BY <1>1, <1>2, <1>3
<1> QED
  BY <1>4 DEF l, r

(* Whatever leaves the stream, the rest keeps its order. *)
LEMMA SubStream ==
  ASSUME TypeOK, TypeOK', session' = session, OneStaleStampPerProducer,
         \E f \in [DOMAIN Pushed' -> DOMAIN Pushed] :
           /\ \A i, j \in DOMAIN Pushed' : i < j => f[i] < f[j]
           /\ \A i \in DOMAIN Pushed' : Pushed'[i] = Pushed[f[i]]
  PROVE  /\ OneStaleStampPerProducer'
         /\ \A p \in Producers : HasPushed(p)' => HasPushed(p)
         /\ (\A i \in DOMAIN Pushed : Pushed[i].session <= session) =>
              (\A i \in DOMAIN Pushed : Pushed[i].session <= session)'
<1>1. PICK f \in [DOMAIN Pushed' -> DOMAIN Pushed] :
        /\ \A i, j \in DOMAIN Pushed' : i < j => f[i] < f[j]
        /\ \A i \in DOMAIN Pushed' : Pushed'[i] = Pushed[f[i]]
  OBVIOUS
<1>2. /\ DOMAIN Pushed = 1..(Len(sent) + Len(InFlight)) /\ Len(sent) \in Nat /\ Len(InFlight) \in Nat
      /\ DOMAIN Pushed' = 1..(Len(sent') + Len(InFlight')) /\ Len(sent') \in Nat /\ Len(InFlight') \in Nat
  BY PushedParts, PushedPartsNext DEF PushedShape
<1>3. ASSUME NEW j \in DOMAIN Pushed', NEW i \in 1..(j - 1), Pushed'[i].src = Pushed'[j].src,
             Pushed'[i].session = Pushed'[j].session
      PROVE  Pushed'[j].base = Pushed'[j].session
  <2>1. i \in DOMAIN Pushed' /\ i < j
    BY <1>2
  <2>2. f[i] < f[j] /\ f[i] \in DOMAIN Pushed /\ f[j] \in DOMAIN Pushed
    BY <1>1, <2>1
  <2>3. f[i] \in 1..(f[j] - 1)
    BY <1>2, <2>2
  <2>4. Pushed'[i] = Pushed[f[i]] /\ Pushed'[j] = Pushed[f[j]]
    BY <1>1, <2>1
  <2> QED
    BY <1>3, <2>2, <2>3, <2>4 DEF OneStaleStampPerProducer, Pushed
<1>4. OneStaleStampPerProducer'
  BY <1>3 DEF OneStaleStampPerProducer, Pushed
<1>5. \A p \in Producers : HasPushed(p)' => HasPushed(p)
  BY <1>1 DEF HasPushed
<1> QED
  BY <1>1, <1>4, <1>5

(* A stream that stays as it is.                                            *)
LEMMA SameStream ==
  ASSUME StampsInv, ~aborted, UNCHANGED <<sent, InFlight, session, push_start_time, stamped>>,
         aborted' \/ (pc'["push"] = "set_work" \/ work_flag' = 1 =>
                        pc["push"] = "set_work" \/ work_flag = 1)
  PROVE  StampsInv'
<1>1. Pushed' = Pushed /\ OneStaleStampPerProducer'
  BY DEF Pushed, StampsInv, OneStaleStampPerProducer
<1>2. \A p \in Producers : HasPushed(p)' <=> HasPushed(p)
  BY <1>1 DEF HasPushed
<1> QED
  BY <1>1, <1>2 DEF StampsInv, StampsOfSession

(* A new packet has the time of the stream once the producer had one there. *)
LEMMA StampIsOfSession ==
  ASSUME IInv, StampsInv, ~aborted, NEW p \in Producers, StampPacket(p)
  PROVE  StampsInv'
<1> DEFINE new == [id |-> next_id, src |-> p, session |-> session, base |-> push_start_time]
<1>1. /\ stamped' = [stamped EXCEPT ![p] = new]
      /\ UNCHANGED <<sent, que, packet, session, push_start_time, work_flag, aborted>>
      /\ stamped \in [Producers -> Packet \cup {NoPacket}]
      /\ pc'["push"] = pc["push"]
  BY DEF StampPacket, Goto, IInv, guiVars, pushVars, queueVars, TypeOK, DataOK, PcOK, Producers, Threads
<1>2. Pushed' = Pushed /\ OneStaleStampPerProducer'
  BY <1>1 DEF Pushed, InFlight, StampsInv, OneStaleStampPerProducer
<1>3. \A q \in Producers : HasPushed(q)' <=> HasPushed(q)
  BY <1>1, <1>2 DEF HasPushed
<1>4. ASSUME NEW q \in Producers, stamped'[q] # NoPacket
      PROVE  /\ stamped'[q].src = q /\ stamped'[q].session = session
             /\ HasPushed(q) => stamped'[q].base = session
  <2>1. CASE q = p
    <3>1. stamped'[q] = new
      BY <1>1, <2>1
    <3>2. HasPushed(q) => push_start_time = session
      BY DEF StampsInv, StampsOfSession
    <3> QED
      BY <2>1, <3>1, <3>2
  <2>2. CASE q # p
    <3>1. stamped'[q] = stamped[q]
      BY <1>1, <2>2
    <3> QED
      BY <1>4, <3>1 DEF StampsInv, StampsOfSession
  <2> QED
    BY <2>1, <2>2
<1> QED
  BY <1>1, <1>2, <1>3, <1>4 DEF StampsInv, StampsOfSession

(* A packet is accepted while the stream is open: all later ones of its     *)
(* producer have the time of the stream.                                    *)
LEMMA AcceptKeepsStamps ==
  ASSUME IInv, IInv', StampsInv, ~aborted, NEW p \in Producers, EnqueuePacket(p)
  PROVE  StampsInv'
<1>1. /\ stamped[p] \in Packet /\ stamped[p] # NoPacket
      /\ stamped' = [stamped EXCEPT ![p] = NoPacket] /\ packets!push(stamped[p])
      /\ UNCHANGED <<sent, packet, session, push_start_time, aborted>>
      /\ stamped \in [Producers -> Packet \cup {NoPacket}]
      /\ pc'["push"] = pc["push"] /\ TypeOK /\ TypeOK' /\ session \in Nat
  BY BoundsAssumption DEF EnqueuePacket, Goto, IInv, PacketsCounted, guiVars, pushVars, TypeOK, DataOK,
     PcOK, Producers, Threads
<1>2. \A q \in Producers : stamped'[q] # NoPacket => q # p /\ stamped'[q] = stamped[q]
  BY <1>1
<1>3. stamped[p].src = p /\ stamped[p].session = session /\ (HasPushed(p) => stamped[p].base = session)
  BY <1>1 DEF StampsInv, StampsOfSession
<1>4. CASE work_flag = 1 /\ que' = Append(que, stamped[p]) /\ work_flag' = work_flag
  <2> DEFINE n == Len(sent) + Len(InFlight)
  <2>1. InFlight' = Append(InFlight, stamped[p])
    <3>1. CASE packet = NoPacket
      BY <1>1, <1>4, <3>1, InFlightParts DEF InFlight
    <3>2. CASE packet # NoPacket
      <4>1. packet \in Packet /\ que \in Seq(Packet) /\ InFlight = <<packet>> \o que
        BY <1>1, <3>2, InFlightParts, PushedParts DEF PushedShape
      <4>2. InFlight' = <<packet>> \o Append(que, stamped[p])
        BY <1>1, <1>4, <3>2 DEF InFlight
      <4> QED
        BY <1>1, <4>1, <4>2, Prefixed
    <3> QED
      BY <3>1, <3>2
  <2>2. /\ DOMAIN Pushed = 1..n /\ n \in Nat /\ DOMAIN Pushed' = 1..(n + 1)
        /\ \A i \in 1..n : Pushed'[i] = Pushed[i]
        /\ Pushed'[n + 1] = stamped[p]
    <3>1. sent \in Seq(Packet) /\ InFlight \in Seq(Packet)
      BY <1>1, PushedParts DEF PushedShape
    <3> QED
      BY <1>1, <2>1, <3>1 DEF Pushed
  <2> HIDE DEF n
  <2>3. ASSUME NEW j \in 1..(n + 1), NEW i \in 1..(j - 1), Pushed'[i].src = Pushed'[j].src,
               Pushed'[i].session = Pushed'[j].session
        PROVE  Pushed'[j].base = Pushed'[j].session
    <3>1. i \in 1..n /\ Pushed'[i] = Pushed[i]
      BY <2>2
    <3>2. CASE j = n + 1
      <4>1. Pushed[i].src = p /\ Pushed[i].session = session
        BY <1>3, <2>2, <2>3, <3>1, <3>2
      <4>2. HasPushed(p)
        BY <2>2, <3>1, <4>1 DEF HasPushed
      <4> QED
        BY <1>3, <2>2, <3>2, <4>2
    <3>3. CASE j \in 1..n
      BY <2>2, <2>3, <3>1, <3>3 DEF StampsInv, OneStaleStampPerProducer, Pushed
    <3> QED
      BY <2>2, <3>2, <3>3
  <2>4. OneStaleStampPerProducer'
    BY <2>2, <2>3 DEF OneStaleStampPerProducer, Pushed
  <2>5. (\A i \in DOMAIN Pushed : Pushed[i].session <= session)'
    <3> SUFFICES ASSUME NEW i \in 1..(n + 1) PROVE Pushed'[i].session <= session
      BY <1>1, <2>2
    <3>1. CASE i \in 1..n
      BY <2>2, <3>1 DEF StampsInv, StampsOfSession
    <3>2. CASE i = n + 1
      BY <1>1, <1>3, <2>2, <3>2
    <3> QED
      BY <2>2, <3>1, <3>2
  <2>6. \A q \in Producers \ {p} : HasPushed(q)' => HasPushed(q)
    <3> SUFFICES ASSUME NEW q \in Producers \ {p}, NEW i \in 1..(n + 1), Pushed'[i].src = q,
                        Pushed'[i].session = session
                 PROVE  HasPushed(q)
      BY <1>1, <2>2 DEF HasPushed
    <3>1. i # n + 1
      BY <1>3, <2>2
    <3>2. i \in 1..n
      BY <2>2, <3>1
    <3> QED
      BY <2>2, <3>2 DEF HasPushed
  <2>7. push_start_time = session
    BY <1>4 DEF StampsInv, StampsOfSession
  <2> QED
    BY <1>1, <1>2, <1>4, <2>4, <2>5, <2>6, <2>7 DEF StampsInv, StampsOfSession
<1>5. CASE UNCHANGED <<que, work_flag>>
  <2>1. Pushed' = Pushed /\ OneStaleStampPerProducer'
    BY <1>1, <1>5 DEF Pushed, InFlight, StampsInv, OneStaleStampPerProducer
  <2>2. \A q \in Producers : HasPushed(q)' <=> HasPushed(q)
    BY <1>1, <2>1 DEF HasPushed
  <2> QED
    BY <1>1, <1>2, <1>5, <2>1, <2>2 DEF StampsInv, StampsOfSession
<1> QED
  BY <1>1, <1>4, <1>5 DEF packets!push

(* Packets leave the stream: lost by a connection that breaks, or cleared.  *)
LEMMA LeavingKeepsStamps ==
  ASSUME IInv, IInv', StampsInv, ~aborted, PushSendFails \/ stopClear \/ PushClear
  PROVE  StampsInv'
<1>1. /\ UNCHANGED <<sent, session, push_start_time, stamped, aborted, work_flag>>
      /\ pc'["push"] # "set_work" \/ pc["push"] = "set_work"
      /\ TypeOK /\ TypeOK'
  BY DEF PushSendFails, stopClear, PushClear, packets!clear, Goto, guiVars, pushVars, producerVars,
         queueVars, IInv, TypeOK, PcOK, Threads, Producers
<1>2. /\ sent \in Seq(Packet) /\ Len(sent) \in Nat /\ Len(InFlight) \in Nat /\ Len(InFlight') \in Nat
      /\ DOMAIN Pushed = 1..(Len(sent) + Len(InFlight)) /\ DOMAIN Pushed' = 1..(Len(sent) + Len(InFlight'))
      /\ \A i \in 1..Len(sent) : Pushed[i] = sent[i] /\ Pushed'[i] = sent[i]
      /\ \A i \in 1..Len(InFlight) : Pushed[Len(sent) + i] = InFlight[i]
      /\ \A i \in 1..Len(InFlight') : Pushed'[Len(sent) + i] = InFlight'[i]
  <2>1. PushedShape /\ PushedShape' /\ sent' = sent
    BY <1>1, PushedParts, PushedPartsNext
  <2> QED
    BY <2>1 DEF PushedShape
<1>3. PICK k \in 0..1 :
        /\ Len(InFlight') + k <= Len(InFlight)
        /\ \A i \in 1..Len(InFlight') : InFlight'[i] = InFlight[i + k]
  <2>1. CASE PushSendFails
    <3>1. packet # NoPacket /\ InFlight' = que
      BY <2>1, <1>1 DEF PushSendFails, Goto, IInv, PacketsCounted, queueVars, InFlight
    <3>2. packet \in Packet /\ que \in Seq(Packet) /\ InFlight = <<packet>> \o que
      BY <1>1, <3>1, InFlightParts, PushedParts DEF PushedShape
    <3>3. Len(InFlight') + 1 <= Len(InFlight) /\ \A i \in 1..Len(InFlight') : InFlight'[i] = InFlight[i + 1]
      BY <3>1, <3>2
    <3> QED
      BY <3>3
  <2>2. CASE stopClear \/ PushClear
    <3>1. que' = << >> /\ packet' = packet
      BY <2>2 DEF stopClear, PushClear, packets!clear, pushVars
    <3>2. CASE packet = NoPacket
      <4>1. Len(InFlight') = 0
        BY <3>1, <3>2 DEF InFlight
      <4> QED
        BY <1>2, <4>1
    <3>3. CASE packet # NoPacket
      <4>1. InFlight' = <<packet>>
        BY <3>1, <3>3 DEF InFlight
      <4>2. packet \in Packet /\ que \in Seq(Packet) /\ InFlight = <<packet>> \o que
        BY <1>1, <3>3, InFlightParts, PushedParts DEF PushedShape
      <4>3. Len(InFlight') = 1 /\ Len(InFlight) >= 1 /\ InFlight'[1] = InFlight[1]
        BY <4>1, <4>2
      <4> QED
        BY <1>2, <4>3
    <3> QED
      BY <3>2, <3>3
  <2> QED
    BY <2>1, <2>2
<1> DEFINE f == [i \in DOMAIN Pushed' |-> IF i <= Len(sent) THEN i ELSE i + k]
<1>4. f \in [DOMAIN Pushed' -> DOMAIN Pushed]
  BY <1>2, <1>3
<1>5. \A i, j \in DOMAIN Pushed' : i < j => f[i] < f[j]
  BY <1>2, <1>3
<1>6. ASSUME NEW i \in DOMAIN Pushed' PROVE Pushed'[i] = Pushed[f[i]]
  <2>1. CASE i <= Len(sent)
    BY <1>2, <2>1
  <2>2. CASE i > Len(sent)
    <3>1. /\ i - Len(sent) \in 1..Len(InFlight') /\ Len(sent) + (i - Len(sent)) = i
          /\ (i - Len(sent)) + k \in 1..Len(InFlight) /\ Len(sent) + ((i - Len(sent)) + k) = i + k
      <4>1. /\ i \in 1..(Len(sent) + Len(InFlight')) /\ Len(sent) \in Nat /\ Len(InFlight) \in Nat
            /\ Len(InFlight') \in Nat /\ k \in 0..1 /\ Len(InFlight') + k <= Len(InFlight)
        BY <1>2, <1>3
      <4> QED
        BY <2>2, <4>1
    <3>2. Pushed'[i] = InFlight'[i - Len(sent)] /\ Pushed[i + k] = InFlight[(i - Len(sent)) + k]
      BY <1>2, <3>1
    <3>3. f[i] = i + k
      BY <1>2, <2>2
    <3> QED
      BY <1>3, <3>1, <3>2, <3>3
  <2> QED
    BY <1>2, <2>1, <2>2
<1> HIDE DEF f
<1>7. \E g \in [DOMAIN Pushed' -> DOMAIN Pushed] :
        /\ \A i, j \in DOMAIN Pushed' : i < j => g[i] < g[j]
        /\ \A i \in DOMAIN Pushed' : Pushed'[i] = Pushed[g[i]]
  BY <1>4, <1>5, <1>6
<1>8. /\ OneStaleStampPerProducer'
      /\ \A p \in Producers : HasPushed(p)' => HasPushed(p)
      /\ (\A i \in DOMAIN Pushed : Pushed[i].session <= session) =>
              (\A i \in DOMAIN Pushed : Pushed[i].session <= session)'
  BY <1>1, <1>7, SubStream DEF StampsInv
<1> QED
  BY <1>1, <1>8 DEF StampsInv, StampsOfSession

(* A new session has no packet yet, and nobody has one of the old.          *)
LEMMA PushStartsStamps ==
  ASSUME IInv, StampsInv, ~aborted, push
  PROVE  StampsInv'
<1>1. /\ UNCHANGED <<sent, que, packet, stamped, work_flag, push_start_time>>
      /\ session' = session + 1 /\ session \in Nat /\ TypeOK
  BY BoundsAssumption DEF push, pushVars, producerVars, queueVars, IInv, TypeOK, DataOK
<1>2. Pushed' = Pushed /\ OneStaleStampPerProducer'
  BY <1>1 DEF Pushed, InFlight, StampsInv, OneStaleStampPerProducer
<1>3. ASSUME ~aborted' PROVE StampsOfSession'
  <2>1. ~is_pushing /\ ~rtmp_push_thread /\ pc["push"] = "none" /\ pc["audio"] = "none" /\ pc["gui"] = "idle"
    BY <1>3 DEF push, IInv, PushThread, BetweenTalks
  <2>2. work_flag # 1 /\ \A p \in Producers : stamped[p] = NoPacket
    BY <2>1 DEF IInv, QueueInLoop, PacketsCounted, Producers
  <2>3. pc'["push"] = "connect"
    BY <2>1 DEF push, IInv, TypeOK, PcOK, Threads
  <2>4. \A i \in DOMAIN Pushed : Pushed[i].session \in Nat /\ Pushed[i].session <= session
    <3>1. \A i \in DOMAIN Pushed : Pushed[i].session <= session
      BY DEF StampsInv, StampsOfSession
    <3>2. \A i \in DOMAIN Pushed : Pushed[i] \in Packet
      BY <1>1, PushedParts DEF PushedShape
    <3> QED
      BY <3>1, <3>2, BoundsAssumption DEF Packet
  <2>5. /\ \A i \in DOMAIN Pushed' : Pushed'[i].session <= session'
        /\ \A p \in Producers : ~HasPushed(p)'
    BY <1>1, <1>2, <2>4 DEF HasPushed
  <2> QED
    BY <1>1, <2>2, <2>3, <2>5 DEF StampsOfSession
<1> QED
  BY <1>2, <1>3 DEF StampsInv

LEMMA StampsPreserved == IInv /\ IInv' /\ StampsInv /\ [Next]_vars => StampsInv'
<1> SUFFICES ASSUME IInv, IInv', StampsInv, [Next]_vars PROVE StampsInv'
  OBVIOUS
<1>1. CASE UNCHANGED vars
  <2>1. /\ UNCHANGED <<sent, InFlight, Pushed, session, push_start_time, stamped, aborted, work_flag, pc>>
    BY <1>1 DEF vars, guiVars, pushVars, producerVars, queueVars, InFlight, Pushed
  <2>2. \A p \in Producers : HasPushed(p)' <=> HasPushed(p)
    BY <2>1 DEF HasPushed
  <2> QED
    BY <2>1, <2>2 DEF StampsInv, StampsOfSession, OneStaleStampPerProducer
<1>2. CASE ~aborted /\ \E p \in Producers : StampPacket(p) \/ EnqueuePacket(p)
  BY <1>2, StampIsOfSession, AcceptKeepsStamps
<1>3. CASE ~aborted /\ (push \/ PushSendFails \/ stopClear \/ PushClear)
  BY <1>3, PushStartsStamps, LeavingKeepsStamps
<1>4. CASE ~aborted /\ PushConnected
  <2>1. /\ UNCHANGED <<sent, InFlight, Pushed, session, stamped, aborted>> /\ push_start_time' = session
    BY <1>4 DEF PushConnected, guiVars, producerVars, queueVars, InFlight, Pushed
  <2>2. \A p \in Producers : HasPushed(p)' <=> HasPushed(p)
    BY <2>1 DEF HasPushed
  <2> QED
    BY <1>4, <2>1, <2>2 DEF StampsInv, StampsOfSession, OneStaleStampPerProducer
<1>5. CASE ~aborted /\ PushSends
  <2>1. /\ packet # NoPacket /\ packet' = NoPacket /\ sent' = Append(sent, packet)
        /\ UNCHANGED <<que, work_flag, session, push_start_time, stamped, aborted>> /\ TypeOK
        /\ pc'["push"] = "check"
    BY <1>5 DEF PushSends, Goto, IInv, PacketsCounted, guiVars, producerVars, queueVars, TypeOK, PcOK, Threads
  <2>2. packet \in Packet /\ que \in Seq(Packet) /\ sent \in Seq(Packet) /\ InFlight = <<packet>> \o que
    BY <2>1, InFlightParts, PushedParts DEF PushedShape
  <2>3. Pushed' = Append(sent, packet) \o que
    BY <2>1, <2>2 DEF Pushed, InFlight
  <2>4. Pushed' = Pushed
    BY <2>2, <2>3, AppendIsPrefixed DEF Pushed
  <2>5. \A p \in Producers : HasPushed(p)' <=> HasPushed(p)
    BY <2>1, <2>4 DEF HasPushed
  <2>6. OneStaleStampPerProducer'
    BY <2>4 DEF StampsInv, OneStaleStampPerProducer, Pushed
  <2> QED
    BY <2>1, <2>4, <2>5, <2>6 DEF StampsInv, StampsOfSession
<1>6. CASE ~aborted /\ PushPop
  <2>1. UNCHANGED <<sent, InFlight, work_flag>>
    BY <1>6, PopIsHidden
  <2>2. UNCHANGED <<session, push_start_time, stamped>> /\ pc'["push"] # "set_work"
    BY <1>6 DEF PushPop, Goto, guiVars, producerVars, IInv, TypeOK, PcOK, Threads
  <2> QED
    BY <1>6, <2>1, <2>2, SameStream
<1>7. CASE ~aborted /\ PushSetWork
  <2>1. UNCHANGED <<sent, InFlight, session, push_start_time, stamped>> /\ pc["push"] = "set_work"
    BY <1>7 DEF PushSetWork, Goto, packets!setWork, guiVars, pushVars, producerVars, InFlight
  <2> QED
    BY <1>7, <2>1, SameStream
<1>8. CASE ~aborted /\ (\/ stop \/ receiveOneFrame \/ openAudio \/ startAudioThread \/ joinAudio
                        \/ stopFlag \/ stopWork \/ joinPush \/ PushConnectFails \/ PushCheck
                        \/ PushUnwork \/ PushFinish \/ PushSpuriousWakeup \/ AudioRound
                        \/ AudioFinish)
  <2>1. UNCHANGED <<que, packet, sent, session, push_start_time, stamped>>
    BY <1>8 DEF stop, receiveOneFrame, Produce, openAudio, startAudioThread, joinAudio, stopFlag,
         stopWork, joinPush, PushConnectFails, PushCheck, PushUnwork, PushFinish, PushSpuriousWakeup,
         packets!SpuriousWakeup, packets!setWork, AudioRound, AudioFinish, guiVars, pushVars,
         producerVars, queueVars
  <2>2. work_flag' = 1 => work_flag = 1
    BY <1>8 DEF stop, receiveOneFrame, Produce, openAudio, startAudioThread, joinAudio, stopFlag,
         stopWork, joinPush, PushConnectFails, PushCheck, PushUnwork, PushFinish, PushSpuriousWakeup,
         packets!SpuriousWakeup, packets!setWork, AudioRound, AudioFinish, queueVars
  <2>3. pc'["push"] = "set_work" => pc["push"] = "set_work"
    BY <1>8 DEF stop, receiveOneFrame, Produce, openAudio, startAudioThread, joinAudio, stopFlag,
         stopWork, joinPush, PushConnectFails, PushCheck, PushUnwork, PushFinish, PushSpuriousWakeup,
         AudioRound, AudioFinish, Goto, IInv, TypeOK, PcOK, Threads, Producers
  <2>4. InFlight' = InFlight
    BY <2>1 DEF InFlight
  <2> QED
    BY <1>8, <2>1, <2>2, <2>3, <2>4, SameStream
<1> QED
  BY <1>1, <1>2, <1>3, <1>4, <1>5, <1>6, <1>7, <1>8
     DEF Next, Over, GuiStep, PushStep, AudioStep, Producers

(* Only a producer's first packet of a stream may have a stale stamp, for   *)
(* any number of packets and sessions.                                      *)
THEOREM OneStale == Spec => []OneStaleStampPerProducer
<1>1. Init => StampsInv
  BY DEF Init, packets!Init, StampsInv, StampsOfSession, OneStaleStampPerProducer, HasPushed, Pushed,
         InFlight, Producers, Threads
<1>2. StampsInv => OneStaleStampPerProducer
  BY DEF StampsInv
<1> QED
  BY ControlInvariant, StampsPreserved, <1>1, <1>2, PTL DEF Spec
=============================================================================
