----------------------------- MODULE SafeQueue -----------------------------
(***************************************************************************)
(* SafeQueue<T> of include/SafeQueue.hpp: a queue shared by threads, one   *)
(* mutex, one condition variable and a flag that says whether it works.    *)
(* Every method holds the mutex from its first to its last statement       *)
(* except inside _cond.wait, so a method is one step; pop is one step per  *)
(* evaluation of its loop condition.  The methods are operators over the   *)
(* variables, so that the module of the threads that use a queue can       *)
(* instantiate them; the specification at the end runs the queue against   *)
(* clients that call it in any order.                                      *)
(***************************************************************************)
EXTENDS Naturals, Sequences

CONSTANTS
  Elements,   \* what is queued: pointers whose ownership goes to the queue
  Consumers   \* the threads that call pop

(* The program has one consumer per queue (the push thread of VideoSender). *)
ASSUME ConsumersAssumption == \A s, t \in Consumers : s = t

VARIABLES
  que,        \* the queued elements, oldest first
  work_flag,  \* 1 while push accepts and pop may wait
  waiting,    \* the consumers blocked in _cond.wait and not yet notified
  released    \* the elements that were given to release_handle

queueVars == <<que, work_flag, waiting, released>>

Queued == {que[i] : i \in DOMAIN que}

Init ==
  /\ que = << >>
  /\ work_flag = 0
  /\ waiting = {}
  /\ released = {}

notify_one ==
  \/ waiting = {} /\ UNCHANGED waiting
  \/ \E t \in waiting : waiting' = waiting \ {t}

(* Mutation: push queues the element and forgets to notify. *)
push_WithoutNotify(e) ==
  /\ que' = IF work_flag = 1 THEN Append(que, e) ELSE que
  /\ released' = IF work_flag = 1 THEN released ELSE released \cup {e}
  /\ UNCHANGED <<work_flag, waiting>>

push(e) ==
  \/ /\ work_flag = 1
     /\ que' = Append(que, e)
     /\ notify_one
     /\ UNCHANGED <<work_flag, released>>
  \/ /\ work_flag = 0
     /\ released' = released \cup {e}
     /\ UNCHANGED <<que, work_flag, waiting>>

(* pop has three outcomes: it returns 1 with the oldest element, it blocks, *)
(* or it returns 0 because the queue is empty and does not work.            *)

popElement(t) ==
  /\ t \notin waiting
  /\ que # << >>
  /\ que' = Tail(que)
  /\ UNCHANGED <<work_flag, waiting, released>>

popWait(t) ==
  /\ t \notin waiting
  /\ que = << >>
  /\ work_flag = 1
  /\ waiting' = waiting \cup {t}
  /\ UNCHANGED <<que, work_flag, released>>

popNothing(t) ==
  /\ t \notin waiting
  /\ que = << >>
  /\ work_flag = 0
  /\ UNCHANGED queueVars

(* A condition variable may also return from wait when nobody notified it. *)
SpuriousWakeup(t) ==
  /\ t \in waiting
  /\ waiting' = waiting \ {t}
  /\ UNCHANGED <<que, work_flag, released>>

(* Mutation: setWork changes the flag without notifying. *)
setWork_WithoutNotify(flag) ==
  /\ work_flag' = flag
  /\ UNCHANGED <<que, waiting, released>>

setWork(flag) ==
  /\ work_flag' = flag
  /\ notify_one
  /\ UNCHANGED <<que, released>>

(* Mutation: clear empties the queue without releasing what it held. *)
clear_WithoutRelease ==
  /\ que' = << >>
  /\ UNCHANGED <<work_flag, waiting, released>>

clear ==
  /\ que' = << >>
  /\ released' = released \cup Queued
  /\ UNCHANGED <<work_flag, waiting>>

----------------------------------------------------------------------------
(* The queue with clients that call its methods in any order.  An element  *)
(* is pushed by whoever owns it: it is neither queued nor released.        *)

Pop(t) == popElement(t) \/ popWait(t) \/ popNothing(t)

Next ==
  \/ \E e \in Elements \ (Queued \cup released) : push(e)
  \/ \E t \in Consumers : Pop(t) \/ SpuriousWakeup(t)
  \/ \E flag \in {0, 1} : setWork(flag)
  \/ clear

Spec == Init /\ [][Next]_queueVars

----------------------------------------------------------------------------
(* Types of the queue's state (members of SafeQueue.hpp:86-90). *)
TypeOK ==
  /\ que \in Seq(Elements)
  /\ work_flag \in {0, 1}
  /\ waiting \in SUBSET Consumers
  /\ released \in SUBSET Elements

(* No lost wakeup: a consumer that is still blocked in pop has a reason to  *)
(* be, the queue is empty and works; push and setWork notify on every       *)
(* change that makes pop's loop condition false.                            *)
NoLostWakeup == waiting # {} => work_flag = 1 /\ que = << >>

(* Ownership: an element is queued at most once and is never both queued   *)
(* and released, so no pop returns a pointer that release_handle deleted.   *)
NoDanglingElement ==
  /\ \A i, j \in DOMAIN que : que[i] = que[j] => i = j
  /\ Queued \cap released = {}

(* Nothing is lost: a step takes an element out of the queue only by        *)
(* returning the oldest one from pop or by giving it to release_handle.     *)
LeavesByPopOrRelease ==
  [][\A e \in Queued \ Queued' : e \in released' \/ (que' = Tail(que) /\ e = Head(que))]_queueVars

(* Every element has one owner: it is queued or released, never both, and   *)
(* it is not lost on the way out (SafeQueue.hpp:40, :73).                   *)
ElementsHaveOneOwner == []NoDanglingElement /\ LeavesByPopOrRelease
=============================================================================
