-------------------------- MODULE SafeQueue_proofs --------------------------
(***************************************************************************)
(* The theorems of SafeQueue, for any set of elements and clients that     *)
(* call the methods in any order, as long as one thread pops.              *)
(***************************************************************************)
EXTENDS SafeQueue, TLAPS

IInv == TypeOK /\ NoLostWakeup /\ NoDanglingElement

(* With one consumer a notification leaves nobody blocked. *)
LEMMA NotifyWakesAll ==
  ASSUME TypeOK, notify_one
  PROVE  waiting' = {}
BY ConsumersAssumption DEF TypeOK, notify_one

(* What is behind the head of a queue was in it, with the same distances.   *)
LEMMA TailOfQueue ==
  ASSUME TypeOK, que # << >>
  PROVE  /\ Tail(que) \in Seq(Elements) /\ Len(Tail(que)) = Len(que) - 1
         /\ \A i \in 1..(Len(que) - 1) : Tail(que)[i] = que[i + 1]
         /\ Head(que) = que[1] /\ Head(que) \in Elements /\ Len(que) \in Nat \ {0}
BY DEF TypeOK

(* What is in the queue are elements. *)
LEMMA QueuedAreElements ==
  ASSUME TypeOK
  PROVE  /\ Queued \subseteq Elements
         /\ DOMAIN que = 1..Len(que) /\ Len(que) \in Nat
BY DEF TypeOK, Queued

LEMMA InitEstablishes == Init => IInv
BY DEF Init, IInv, TypeOK, NoLostWakeup, NoDanglingElement, Queued

(* push queues an element nobody else owns, or releases it.                 *)
LEMMA PushStep ==
  ASSUME IInv, NEW e \in Elements \ (Queued \cup released), push(e)
  PROVE  IInv'
<1> USE DEF IInv
<1>1. CASE work_flag = 1 /\ que' = Append(que, e) /\ notify_one /\ UNCHANGED <<work_flag, released>>
  <2>1. TypeOK'
    BY <1>1 DEF TypeOK, notify_one
  <2>2. NoLostWakeup'
    BY <1>1, NotifyWakesAll DEF NoLostWakeup
  <2>3. /\ que \in Seq(Elements) /\ Len(que) \in Nat
        /\ DOMAIN que = 1..Len(que) /\ DOMAIN que' = 1..(Len(que) + 1)
        /\ \A i \in 1..Len(que) : que'[i] = que[i]
        /\ que'[Len(que) + 1] = e
    BY <1>1 DEF TypeOK
  <2>4. \A i \in DOMAIN que : que[i] # e
    BY DEF Queued
  <2>5. (\A i, j \in DOMAIN que : que[i] = que[j] => i = j)'
    BY <2>3, <2>4 DEF NoDanglingElement
  <2>6. Queued' \subseteq Queued \cup {e}
    BY <2>3 DEF Queued
  <2> QED
    BY <1>1, <2>1, <2>2, <2>5, <2>6 DEF NoDanglingElement
<1>2. CASE work_flag = 0 /\ released' = released \cup {e} /\ UNCHANGED <<que, work_flag, waiting>>
  <2>1. Queued' = Queued
    BY <1>2 DEF Queued
  <2> QED
    BY <1>2, <2>1 DEF TypeOK, NoLostWakeup, NoDanglingElement
<1> QED
  BY <1>1, <1>2 DEF push

(* pop takes the oldest element. *)
LEMMA PopStep ==
  ASSUME IInv, NEW t \in Consumers, popElement(t)
  PROVE  IInv' /\ Queued' \subseteq Queued
<1> USE DEF IInv
<1>1. que # << >> /\ que' = Tail(que) /\ UNCHANGED <<work_flag, waiting, released>>
  BY DEF popElement
<1>2. /\ Len(que) \in Nat \ {0} /\ DOMAIN que = 1..Len(que)
      /\ DOMAIN que' = 1..(Len(que) - 1) /\ que' \in Seq(Elements)
      /\ \A i \in 1..(Len(que) - 1) : que'[i] = que[i + 1]
  BY <1>1, TailOfQueue DEF TypeOK
<1>3. TypeOK' /\ NoLostWakeup'
  BY <1>1, <1>2 DEF TypeOK, NoLostWakeup
<1>4. Queued' \subseteq Queued
  <2> SUFFICES ASSUME NEW i \in DOMAIN que' PROVE que'[i] \in Queued
    BY DEF Queued
  <2>1. que'[i] = que[i + 1] /\ i + 1 \in DOMAIN que
    BY <1>2
  <2> QED
    BY <2>1 DEF Queued
<1>5. ASSUME NEW i \in DOMAIN que', NEW j \in DOMAIN que', que'[i] = que'[j]
      PROVE  i = j
  <2>1. que[i + 1] = que[j + 1] /\ i + 1 \in DOMAIN que /\ j + 1 \in DOMAIN que
    BY <1>2, <1>5
  <2>2. i + 1 = j + 1
    BY <2>1 DEF NoDanglingElement
  <2> QED
    BY <1>2, <2>2
<1> QED
  BY <1>1, <1>3, <1>4, <1>5 DEF NoDanglingElement

(* clear gives what was queued to release_handle. *)
LEMMA ClearStep == IInv /\ clear => IInv'
<1> SUFFICES ASSUME IInv, clear PROVE IInv'
  OBVIOUS
<1>1. que' = << >> /\ released' = released \cup Queued /\ UNCHANGED <<work_flag, waiting>>
  BY DEF clear
<1>2. Queued' = {}
  BY <1>1 DEF Queued
<1>3. TypeOK'
  BY <1>1, QueuedAreElements DEF IInv, TypeOK
<1> QED
  BY <1>1, <1>2, <1>3 DEF IInv, NoLostWakeup, NoDanglingElement

LEMMA InvariantStep == IInv /\ [Next]_queueVars => IInv'
<1> SUFFICES ASSUME IInv, [Next]_queueVars PROVE IInv'
  OBVIOUS
<1>1. CASE \E e \in Elements \ (Queued \cup released) : push(e)
  BY <1>1, PushStep
<1>2. CASE \E t \in Consumers : popElement(t)
  BY <1>2, PopStep
<1>3. CASE \E t \in Consumers : popWait(t)
  <2>1. Queued' = Queued
    BY <1>3 DEF popWait, Queued
  <2> QED
    BY <1>3, <2>1 DEF popWait, IInv, TypeOK, NoLostWakeup, NoDanglingElement
<1>4. CASE \E t \in Consumers : SpuriousWakeup(t)
  <2>1. Queued' = Queued
    BY <1>4 DEF SpuriousWakeup, Queued
  <2> QED
    BY <1>4, <2>1 DEF SpuriousWakeup, IInv, TypeOK, NoLostWakeup, NoDanglingElement
<1>5. CASE \E flag \in {0, 1} : setWork(flag)
  <2>1. Queued' = Queued /\ waiting' = {}
    BY <1>5, NotifyWakesAll DEF setWork, Queued, IInv
  <2> QED
    BY <1>5, <2>1 DEF setWork, IInv, TypeOK, NoLostWakeup, NoDanglingElement
<1>6. CASE clear
  BY <1>6, ClearStep
<1>7. CASE UNCHANGED queueVars
  <2>1. Queued' = Queued
    BY <1>7 DEF queueVars, Queued
  <2> QED
    BY <1>7, <2>1 DEF queueVars, IInv, TypeOK, NoLostWakeup, NoDanglingElement
<1> QED
  BY <1>1, <1>2, <1>3, <1>4, <1>5, <1>6, <1>7 DEF Next, Pop, popNothing

(* The inductive invariant of the queue. *)
THEOREM QueueInvariant == Spec => []IInv
  BY InitEstablishes, InvariantStep, PTL DEF Spec

(* No wakeup is lost: a consumer blocked in _cond.wait has nothing to take  *)
(* and may still wait, whatever push and setWork did since.                 *)
THEOREM WakeupsArrive == Spec => []NoLostWakeup
<1>1. IInv => NoLostWakeup
  BY DEF IInv
<1> QED
  BY QueueInvariant, <1>1, PTL

(* No pop returns a pointer that release_handle has deleted. *)
THEOREM OneOwner == Spec => []NoDanglingElement
<1>1. IInv => NoDanglingElement
  BY DEF IInv
<1> QED
  BY QueueInvariant, <1>1, PTL

(* An element leaves the queue by pop, in its turn, or by clear. *)
THEOREM NothingIsLost == Spec => LeavesByPopOrRelease
<1> DEFINE Left(e) == e \in released' \/ (que' = Tail(que) /\ e = Head(que))
<1>1. ASSUME IInv, [Next]_queueVars, NEW e \in Queued \ Queued'
      PROVE  Left(e)
  <2>1. CASE clear
    BY <1>1, <2>1 DEF clear
  <2>2. CASE \E t \in Consumers : popElement(t)
    <3>1. que # << >> /\ que' = Tail(que)
      BY <2>2 DEF popElement
    <3>2. PICK i \in DOMAIN que : e = que[i]
      BY <1>1 DEF Queued
    <3>3. CASE i = 1
      BY <1>1, <3>1, <3>2, <3>3, TailOfQueue DEF IInv
    <3>4. CASE i # 1
      <4>1. i - 1 \in DOMAIN que' /\ que'[i - 1] = que[i]
        BY <1>1, <3>1, <3>4, TailOfQueue DEF IInv, TypeOK
      <4> QED
        BY <1>1, <3>2, <4>1 DEF Queued
    <3> QED
      BY <3>3, <3>4
  <2>3. CASE \E x \in Elements : push(x)
    <3>1. PICK x \in Elements : push(x)
      BY <2>3
    <3>2. \A i \in DOMAIN que : i \in DOMAIN que' /\ que'[i] = que[i]
      BY <1>1, <3>1 DEF push, IInv, TypeOK
    <3> QED
      BY <1>1, <3>2 DEF Queued
  <2>4. CASE UNCHANGED que
    BY <1>1, <2>4 DEF Queued
  <2> QED
    BY <1>1, <2>1, <2>2, <2>3, <2>4
       DEF Next, Pop, popWait, popNothing, SpuriousWakeup, setWork, queueVars
<1>2. IInv /\ [Next]_queueVars => [\A e \in Queued \ Queued' : Left(e)]_queueVars
  BY <1>1
<1> QED
  BY QueueInvariant, <1>2, PTL DEF Spec, LeavesByPopOrRelease

(* Every element has one owner at any time. *)
THEOREM OwnershipHolds == Spec => ElementsHaveOneOwner
  BY OneOwner, NothingIsLost, PTL DEF ElementsHaveOneOwner
=============================================================================
