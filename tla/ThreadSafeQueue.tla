-------------------------- MODULE ThreadSafeQueue --------------------------
(***************************************************************************)
(* le::ThreadSafeQueue: a std::queue behind m_mutex, with m_cv for callers *)
(* that wait for an element.                                               *)
(*                                                                         *)
(* A critical section that neither blocks nor calls out is one action.     *)
(* push() is two: the element is queued under the mutex, and notify_one()  *)
(* is called after the mutex has been released.  wait() blocks in m_cv,    *)
(* which releases the mutex and puts the caller to sleep in one step; a    *)
(* caller that wakes locks the mutex again and re-evaluates the predicate. *)
(***************************************************************************)
EXTENDS Naturals, Sequences, FiniteSets

CONSTANTS
  Threads,    (* the calling threads                                       *)
  Items,      (* the values that are queued                                *)
  Nothing,    (* std::nullopt                                              *)
  MaxLength   (* bound of the model: callers do not push onto a queue of   *)
              (* this length                                               *)

ASSUME QueueAssumption ==
  /\ IsFiniteSet(Threads)
  /\ Nothing \notin Items
  /\ MaxLength \in Nat

VARIABLES
  queue,      (* m_queue                                                   *)
  pc,         (* pc[t]: where t is in the operation it calls               *)
  got         (* got[t]: what the last pop() or wait() of t returned       *)

vars == <<queue, pc, got>>

(* "wait", "waitFor": on the way to the mutex and the predicate, on entry  *)
(* or after a wake-up; "timedOut": the same, for the last time.            *)
PC == {"idle", "notify", "wait", "waitFor", "asleep", "asleepFor", "timedOut"}

TypeOK ==
  /\ queue \in Seq(Items)
  /\ pc \in [Threads -> PC]
  /\ got \in [Threads -> Items \cup {Nothing}]

Init ==
  /\ queue = <<>>
  /\ pc = [t \in Threads |-> "idle"]
  /\ got = [t \in Threads |-> Nothing]

----------------------------------------------------------------------------
(* Threads blocked in m_cv.                                                *)
Sleepers == {t \in Threads : pc[t] \in {"asleep", "asleepFor"}}

(* Threads that have still to notify, or to look at the queue.             *)
Helpers ==
  {t \in Threads : pc[t] \in {"notify", "wait", "waitFor", "timedOut"}}

Goto(t, from, to) == pc[t] = from /\ pc' = [pc EXCEPT ![t] = to]

(* front() and pop() of the std::queue, and the return to the caller.      *)
TakeFront(t) ==
  /\ queue # <<>>
  /\ queue' = Tail(queue)
  /\ got' = [got EXCEPT ![t] = Head(queue)]
  /\ pc' = [pc EXCEPT ![t] = "idle"]

ReturnNothing(t) ==
  /\ queue = <<>>
  /\ got' = [got EXCEPT ![t] = Nothing]
  /\ pc' = [pc EXCEPT ![t] = "idle"]
  /\ UNCHANGED queue

(* Where a sleeper goes when it leaves m_cv: back to the mutex.            *)
Awake(s) == IF pc[s] = "asleep" THEN "wait" ELSE "waitFor"

----------------------------------------------------------------------------
(* Variants of push(): no notification; an item that was moved from.       *)
PushSilently(t, v) ==
  /\ pc[t] = "idle" /\ Len(queue) < MaxLength
  /\ queue' = Append(queue, v)
  /\ UNCHANGED <<pc, got>>

PushMovedFrom(t, v) ==
  /\ Len(queue) < MaxLength
  /\ Goto(t, "idle", "notify")
  /\ queue' = Append(queue, Nothing)
  /\ UNCHANGED got

Push(t, v) ==
  /\ Len(queue) < MaxLength
  /\ Goto(t, "idle", "notify")
  /\ queue' = Append(queue, v)
  /\ UNCHANGED got

(* notify_one() wakes some sleeper; with no sleeper it is lost.            *)
Notify(t) ==
  /\ pc[t] = "notify"
  /\ \/ /\ Sleepers = {}
        /\ pc' = [pc EXCEPT ![t] = "idle"]
     \/ \E s \in Sleepers :
          pc' = [pc EXCEPT ![t] = "idle", ![s] = Awake(s)]
  /\ UNCHANGED <<queue, got>>

Pop(t) == pc[t] = "idle" /\ (TakeFront(t) \/ ReturnNothing(t))

Clear(t) ==
  /\ pc[t] = "idle"
  /\ queue' = <<>>
  /\ UNCHANGED <<pc, got>>

CallWait(t)    == Goto(t, "idle", "wait")    /\ UNCHANGED <<queue, got>>
CallWaitFor(t) == Goto(t, "idle", "waitFor") /\ UNCHANGED <<queue, got>>

(* The predicate under the mutex: take the front, or sleep.                *)
Check(t) ==
  /\ pc[t] \in {"wait", "waitFor"}
  /\ \/ TakeFront(t)
     \/ /\ queue = <<>>
        /\ pc' = [pc EXCEPT ![t] =
                    IF pc[t] = "wait" THEN "asleep" ELSE "asleepFor"]
        /\ UNCHANGED <<queue, got>>

(* The deadline of wait_for() is absolute: it ends the sleep, or catches   *)
(* the caller just woken, and the predicate decides once more.             *)
Timeout(t) ==
  /\ pc[t] \in {"asleepFor", "waitFor"}
  /\ pc' = [pc EXCEPT ![t] = "timedOut"]
  /\ UNCHANGED <<queue, got>>

(* Variant: a timeout gives up without evaluating the predicate again.     *)
LastCheckBlind(t) ==
  /\ Goto(t, "timedOut", "idle")
  /\ got' = [got EXCEPT ![t] = Nothing]
  /\ UNCHANGED queue

LastCheck(t) == pc[t] = "timedOut" /\ (TakeFront(t) \/ ReturnNothing(t))

SpuriousWakeup(t) ==
  /\ t \in Sleepers
  /\ pc' = [pc EXCEPT ![t] = Awake(t)]
  /\ UNCHANGED <<queue, got>>

Next ==
  \E t \in Threads :
    \/ \E v \in Items : Push(t, v)
    \/ Notify(t)
    \/ Pop(t)
    \/ Clear(t)
    \/ CallWait(t)
    \/ CallWaitFor(t)
    \/ Check(t)
    \/ Timeout(t)
    \/ LastCheck(t)
    \/ SpuriousWakeup(t)

(* A thread inside an operation runs on and gets the mutex, which is free  *)
(* between two actions.  Spurious wake-ups do not put a deadline off.      *)
(* Nothing makes a caller call.                                            *)
Fairness ==
  \A t \in Threads :
    /\ WF_vars(Notify(t))
    /\ WF_vars(Check(t))
    /\ WF_vars(LastCheck(t))
    /\ WF_vars(Timeout(t))

Safety == Init /\ [][Next]_vars
Spec == Safety /\ Fairness

----------------------------------------------------------------------------
(* No wake-up is lost although push() notifies after it has released the   *)
(* mutex and pop() may steal the element a sleeper was woken for: while a  *)
(* thread sleeps in wait(), every queued element is matched by a thread    *)
(* that has still to notify or to look at the queue.  In particular nobody *)
(* sleeps beside a non-empty queue once those threads are done.            *)
NoLostWakeup == Sleepers # {} => Len(queue) <= Cardinality(Helpers)

(* ThreadSafeQueue implements the atomic queue: every operation takes      *)
(* effect at one instant of its call, in queue order, and the waiters are  *)
(* served as AtomicQueue says.                                             *)
Pending(t) ==
  IF pc[t] \in {"idle", "notify"} THEN "none"
  ELSE IF pc[t] \in {"wait", "asleep"} THEN "take"
  ELSE "timedTake"

Abstract ==
  INSTANCE AtomicQueue
    WITH items <- queue, pending <- [t \in Threads |-> Pending(t)]

ImplementsAtomicQueue == Abstract!AbsSpec
============================================================================
