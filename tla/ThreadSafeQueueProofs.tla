----------------------- MODULE ThreadSafeQueueProofs -----------------------
(***************************************************************************)
(* Proofs about ThreadSafeQueue, for any finite set of threads, any values *)
(* and any bound on the length: type correctness, the absence of lost      *)
(* wake-ups, and that every step is a step of the atomic queue.            *)
(***************************************************************************)
EXTENDS ThreadSafeQueue, FiniteSetTheorems, TLAPS

----------------------------------------------------------------------------
LEMMA InitTypeOK == Init => TypeOK
BY DEF Init, TypeOK, PC

LEMMA TakeFrontTypeOK ==
  ASSUME TypeOK, NEW t \in Threads, TakeFront(t)
  PROVE  TypeOK'
BY DEF TypeOK, TakeFront, PC

LEMMA ReturnNothingTypeOK ==
  ASSUME TypeOK, NEW t \in Threads, ReturnNothing(t)
  PROVE  TypeOK'
BY DEF TypeOK, ReturnNothing, PC

LEMMA NextTypeOK == TypeOK /\ [Next]_vars => TypeOK'
<1> SUFFICES ASSUME TypeOK, [Next]_vars PROVE TypeOK'
  OBVIOUS
<1>1. CASE UNCHANGED vars
  BY <1>1 DEF TypeOK, vars
<1>2. ASSUME NEW t \in Threads, NEW v \in Items, Push(t, v)
      PROVE  TypeOK'
  BY <1>2 DEF TypeOK, Push, Goto, PC
<1>3. ASSUME NEW t \in Threads, Notify(t)
      PROVE  TypeOK'
  BY <1>3 DEF TypeOK, Notify, Sleepers, Awake, PC
<1>4. ASSUME NEW t \in Threads, Pop(t)
      PROVE  TypeOK'
  BY <1>4, TakeFrontTypeOK, ReturnNothingTypeOK DEF Pop
<1>5. ASSUME NEW t \in Threads, Clear(t)
      PROVE  TypeOK'
  BY <1>5 DEF TypeOK, Clear
<1>6. ASSUME NEW t \in Threads,
             CallWait(t) \/ CallWaitFor(t) \/ Timeout(t)
      PROVE  TypeOK'
  BY <1>6 DEF TypeOK, CallWait, CallWaitFor, Timeout, Goto, PC
<1>7. ASSUME NEW t \in Threads, Check(t)
      PROVE  TypeOK'
  BY <1>7, TakeFrontTypeOK DEF TypeOK, Check, PC
<1>8. ASSUME NEW t \in Threads, LastCheck(t)
      PROVE  TypeOK'
  BY <1>8, TakeFrontTypeOK, ReturnNothingTypeOK DEF LastCheck
<1>9. ASSUME NEW t \in Threads, SpuriousWakeup(t)
      PROVE  TypeOK'
  BY <1>9 DEF TypeOK, SpuriousWakeup, Awake, Sleepers, PC
<1> QED
  BY <1>1, <1>2, <1>3, <1>4, <1>5, <1>6, <1>7, <1>8, <1>9 DEF Next

(* m_queue holds queued values only, every thread is at a known place of   *)
(* its operation, and a take returns a queued value or std::nullopt.       *)
THEOREM TypeCorrect == Safety => []TypeOK
BY InitTypeOK, NextTypeOK, PTL DEF Safety

----------------------------------------------------------------------------
(* The inductive invariant of the wake-ups.                                *)
WakeInv == TypeOK /\ NoLostWakeup

LEMMA HelpersFinite ==
  /\ IsFiniteSet(Helpers)
  /\ Cardinality(Helpers) \in Nat
BY QueueAssumption, FS_Subset, FS_CardinalityType DEF Helpers

(* A thread that becomes a helper adds one to their number; one that stops *)
(* being a helper takes one away.                                          *)
LEMMA HelperJoins ==
  ASSUME NEW t \in Threads, t \notin Helpers, Helpers' = Helpers \cup {t}
  PROVE  Cardinality(Helpers') = Cardinality(Helpers) + 1
BY HelpersFinite, FS_AddElement

LEMMA HelperLeaves ==
  ASSUME NEW t \in Threads, t \in Helpers, Helpers' = Helpers \ {t}
  PROVE  Cardinality(Helpers') = Cardinality(Helpers) - 1
BY HelpersFinite, FS_RemoveElement

(* A helper that takes the front of the queue removes itself from one side *)
(* of the inequality and one element from the other; a thread that was not *)
(* a helper removes the element only.                                      *)
LEMMA TakeFrontKeeps ==
  ASSUME WakeInv, NEW t \in Threads, t \notin Sleepers, TakeFront(t)
  PROVE  NoLostWakeup'
<1>1. Len(queue') = Len(queue) - 1
  BY DEF TakeFront, WakeInv, TypeOK
<1>2. Sleepers' = Sleepers
  BY DEF TakeFront, Sleepers, WakeInv, TypeOK
<1>3. CASE t \in Helpers
  <2>1. Helpers' = Helpers \ {t}
    BY DEF TakeFront, Helpers, WakeInv, TypeOK
  <2>2. Cardinality(Helpers') = Cardinality(Helpers) - 1
    BY <1>3, <2>1, HelperLeaves
  <2> QED
    BY <1>1, <1>2, <2>2, HelpersFinite DEF NoLostWakeup, WakeInv, TypeOK
<1>4. CASE t \notin Helpers
  <2>1. Helpers' = Helpers
    BY <1>4 DEF TakeFront, Helpers, WakeInv, TypeOK
  <2> QED
    BY <1>1, <1>2, <2>1, HelpersFinite DEF NoLostWakeup, WakeInv, TypeOK
<1> QED
  BY <1>3, <1>4

(* With an empty queue there is nothing to wake anybody for.               *)
LEMMA EmptyKeeps == queue' = <<>> => NoLostWakeup'
<1>1. IsFiniteSet(Helpers') /\ Cardinality(Helpers') \in Nat
  BY QueueAssumption, FS_Subset, FS_CardinalityType DEF Helpers
<1> QED
  BY <1>1 DEF NoLostWakeup

(* notify_one() with a sleeper trades the notifier for the awakened one.   *)
LEMMA NotifyKeeps ==
  ASSUME WakeInv, NEW t \in Threads, Notify(t)
  PROVE  NoLostWakeup'
<1>1. pc[t] = "notify" /\ queue' = queue /\ t \in Helpers
  BY DEF Notify, Helpers
<1>2. CASE Sleepers = {} /\ pc' = [pc EXCEPT ![t] = "idle"]
  <2>1. Sleepers' = {}
    BY <1>2 DEF Sleepers, WakeInv, TypeOK
  <2> QED
    BY <2>1 DEF NoLostWakeup
<1>3. ASSUME NEW s \in Sleepers,
             pc' = [pc EXCEPT ![t] = "idle", ![s] = Awake(s)]
      PROVE  NoLostWakeup'
  <2>1. s \in Threads /\ s # t /\ s \notin Helpers
    BY <1>1 DEF Sleepers, Helpers
  <2>2. Helpers' = (Helpers \ {t}) \cup {s}
    BY <1>1, <1>3, <2>1 DEF Helpers, Awake, WakeInv, TypeOK
  <2>3. IsFiniteSet(Helpers \ {t})
        /\ Cardinality(Helpers \ {t}) = Cardinality(Helpers) - 1
    BY <1>1, HelpersFinite, FS_RemoveElement
  <2>4. Cardinality(Helpers') = Cardinality(Helpers)
    <3>1. Cardinality((Helpers \ {t}) \cup {s})
            = Cardinality(Helpers \ {t}) + 1
      BY <2>1, <2>3, FS_AddElement
    <3> QED
      BY <2>2, <2>3, <3>1, HelpersFinite
  <2>5. Len(queue) <= Cardinality(Helpers)
    BY <1>3 DEF WakeInv, NoLostWakeup
  <2> QED
    BY <1>1, <2>4, <2>5 DEF NoLostWakeup
<1> QED
  BY <1>2, <1>3 DEF Notify

(* A sleeper that leaves m_cv of itself becomes a helper; a caller whose   *)
(* deadline passes after it has woken remains one.                         *)
LEMMA LeaveSleepKeeps ==
  ASSUME WakeInv, NEW t \in Threads, Timeout(t) \/ SpuriousWakeup(t)
  PROVE  NoLostWakeup'
<1>1. queue' = queue
  BY DEF Timeout, SpuriousWakeup
<1>2. CASE t \in Sleepers
  <2>1. t \notin Helpers
    BY <1>2 DEF Sleepers, Helpers
  <2>2. Helpers' = Helpers \cup {t}
    BY <1>2 DEF Timeout, SpuriousWakeup, Awake, Sleepers, Helpers,
                WakeInv, TypeOK
  <2>3. Cardinality(Helpers') = Cardinality(Helpers) + 1
    BY <2>1, <2>2, HelperJoins
  <2> QED
    BY <1>1, <1>2, <2>3, HelpersFinite DEF NoLostWakeup, WakeInv, TypeOK
<1>3. CASE t \notin Sleepers
  <2>1. Sleepers' = Sleepers /\ Helpers' = Helpers
    BY <1>3 DEF Timeout, SpuriousWakeup, Sleepers, Helpers, WakeInv, TypeOK
  <2> QED
    BY <1>1, <2>1 DEF NoLostWakeup, WakeInv
<1> QED
  BY <1>2, <1>3

(* A caller that enters an operation becomes a helper; push() adds one     *)
(* element together with its notifier.                                     *)
LEMMA CallKeeps ==
  ASSUME WakeInv, NEW t \in Threads,
         \/ CallWait(t)
         \/ CallWaitFor(t)
         \/ \E v \in Items : Push(t, v)
  PROVE  NoLostWakeup'
<1>1. t \notin Helpers /\ Helpers' = Helpers \cup {t}
  BY DEF CallWait, CallWaitFor, Push, Goto, Helpers, WakeInv, TypeOK
<1>2. Cardinality(Helpers') = Cardinality(Helpers) + 1
  BY <1>1, HelperJoins
<1>3. Sleepers' = Sleepers
  BY DEF CallWait, CallWaitFor, Push, Goto, Sleepers, WakeInv, TypeOK
<1>4. Len(queue') <= Len(queue) + 1 /\ Len(queue) \in Nat /\ Len(queue') \in Nat
  BY DEF CallWait, CallWaitFor, Push, WakeInv, TypeOK
<1> QED
  BY <1>2, <1>3, <1>4, HelpersFinite DEF NoLostWakeup, WakeInv

LEMMA NextWakeInv == WakeInv /\ [Next]_vars => WakeInv'
<1> SUFFICES ASSUME WakeInv, [Next]_vars PROVE NoLostWakeup'
  BY NextTypeOK DEF WakeInv
<1>1. CASE UNCHANGED vars
  BY <1>1 DEF WakeInv, NoLostWakeup, Sleepers, Helpers, vars
<1>2. ASSUME NEW t \in Threads,
             CallWait(t) \/ CallWaitFor(t) \/ (\E v \in Items : Push(t, v))
      PROVE  NoLostWakeup'
  BY <1>2, CallKeeps
<1>3. ASSUME NEW t \in Threads, Notify(t)
      PROVE  NoLostWakeup'
  BY <1>3, NotifyKeeps
<1>4. ASSUME NEW t \in Threads, Pop(t) \/ LastCheck(t)
      PROVE  NoLostWakeup'
  <2>1. t \notin Sleepers
    BY <1>4 DEF Pop, LastCheck, Sleepers
  <2> QED
    BY <1>4, <2>1, TakeFrontKeeps, EmptyKeeps
    DEF Pop, LastCheck, ReturnNothing
<1>5. ASSUME NEW t \in Threads, Clear(t)
      PROVE  NoLostWakeup'
  BY <1>5, EmptyKeeps DEF Clear
<1>6. ASSUME NEW t \in Threads, Check(t)
      PROVE  NoLostWakeup'
  <2>1. t \notin Sleepers
    BY <1>6 DEF Check, Sleepers
  <2> QED
    BY <1>6, <2>1, TakeFrontKeeps, EmptyKeeps DEF Check
<1>7. ASSUME NEW t \in Threads, Timeout(t) \/ SpuriousWakeup(t)
      PROVE  NoLostWakeup'
  BY <1>7, LeaveSleepKeeps
<1> QED
  BY <1>1, <1>2, <1>3, <1>4, <1>5, <1>6, <1>7 DEF Next

(* push() notifies after it has released the mutex, and pop() may take     *)
(* the element a sleeper was woken for; still no wake-up is lost.          *)
THEOREM WakeupsSuffice == Safety => []NoLostWakeup
<1>1. Init => WakeInv
  <2>1. Init => NoLostWakeup
    BY DEF Init, NoLostWakeup, Sleepers
  <2> QED
    BY <2>1, InitTypeOK DEF WakeInv
<1>2. WakeInv => NoLostWakeup
  BY DEF WakeInv
<1> QED
  BY <1>1, <1>2, NextWakeInv, PTL DEF Safety

----------------------------------------------------------------------------
(* Refinement: each action is the action of the atomic queue that its      *)
(* effect on m_queue shows, or leaves the atomic queue as it is.           *)
LEMMA PendingChanges ==
  ASSUME TypeOK, NEW t \in Threads, NEW place \in PC,
         pc' = [pc EXCEPT ![t] = place]
  PROVE  [u \in Threads |-> Pending(u)]' =
         [[u \in Threads |-> Pending(u)] EXCEPT ![t] = Pending(t)']
BY DEF TypeOK, Pending, PC

LEMMA TakeFrontRefines ==
  ASSUME TypeOK, NEW t \in Threads, TakeFront(t)
  PROVE  Abstract!Take(t)
BY PendingChanges DEF TakeFront, Abstract!Take, Pending, TypeOK, PC

LEMMA ReturnNothingRefines ==
  ASSUME TypeOK, NEW t \in Threads, pc[t] \in {"idle", "timedOut"},
         ReturnNothing(t)
  PROVE  Abstract!TakeNothing(t)
BY PendingChanges DEF ReturnNothing, Abstract!TakeNothing, Pending, TypeOK, PC

LEMMA StepRefines ==
  TypeOK /\ [Next]_vars => [Abstract!AbsNext]_Abstract!absVars
<1> SUFFICES ASSUME TypeOK, [Next]_vars
             PROVE  [Abstract!AbsNext]_Abstract!absVars
  OBVIOUS
<1>1. CASE UNCHANGED vars
  BY <1>1 DEF vars, Abstract!absVars, Pending
<1>2. ASSUME NEW t \in Threads, NEW v \in Items, Push(t, v)
      PROVE  Abstract!AbsNext
  <2>1. Abstract!Put(t, v)
    BY <1>2, PendingChanges
    DEF Push, Goto, Abstract!Put, Pending, TypeOK, PC
  <2> QED
    BY <2>1 DEF Abstract!AbsNext
<1>3. ASSUME NEW t \in Threads, Notify(t)
      PROVE  UNCHANGED Abstract!absVars
  <2>1. \A u \in Threads : Pending(u)' = Pending(u)
    BY <1>3 DEF Notify, Sleepers, Awake, Pending, TypeOK, PC
  <2> QED
    BY <1>3, <2>1 DEF Notify, Abstract!absVars
<1>4. ASSUME NEW t \in Threads, Pop(t) \/ LastCheck(t)
      PROVE  Abstract!AbsNext
  <2>1. Abstract!Take(t) \/ Abstract!TakeNothing(t)
    BY <1>4, TakeFrontRefines, ReturnNothingRefines DEF Pop, LastCheck
  <2> QED
    BY <2>1 DEF Abstract!AbsNext
<1>5. ASSUME NEW t \in Threads, Clear(t)
      PROVE  Abstract!AbsNext
  <2>1. Abstract!DropAll(t)
    BY <1>5 DEF Clear, Abstract!DropAll, Pending
  <2> QED
    BY <2>1 DEF Abstract!AbsNext
<1>6. ASSUME NEW t \in Threads, CallWait(t)
      PROVE  Abstract!AbsNext
  <2>1. Abstract!BeginTake(t)
    BY <1>6, PendingChanges
    DEF CallWait, Goto, Abstract!BeginTake, Pending, TypeOK, PC
  <2> QED
    BY <2>1 DEF Abstract!AbsNext
<1>7. ASSUME NEW t \in Threads, CallWaitFor(t)
      PROVE  Abstract!AbsNext
  <2>1. Abstract!BeginTimedTake(t)
    BY <1>7, PendingChanges
    DEF CallWaitFor, Goto, Abstract!BeginTimedTake, Pending, TypeOK, PC
  <2> QED
    BY <2>1 DEF Abstract!AbsNext
<1>8. ASSUME NEW t \in Threads, Check(t)
      PROVE  [Abstract!AbsNext]_Abstract!absVars
  <2>1. CASE TakeFront(t)
    BY <2>1, TakeFrontRefines DEF Abstract!AbsNext
  <2>2. CASE ~TakeFront(t)
    <3>1. \A u \in Threads : Pending(u)' = Pending(u)
      BY <1>8, <2>2 DEF Check, Pending, TypeOK, PC
    <3> QED
      BY <1>8, <2>2, <3>1 DEF Check, Abstract!absVars
  <2> QED
    BY <2>1, <2>2
<1>9. ASSUME NEW t \in Threads, Timeout(t) \/ SpuriousWakeup(t)
      PROVE  UNCHANGED Abstract!absVars
  <2>1. \A u \in Threads : Pending(u)' = Pending(u)
    BY <1>9 DEF Timeout, SpuriousWakeup, Goto, Sleepers, Awake, Pending,
                TypeOK, PC
  <2> QED
    BY <1>9, <2>1 DEF Timeout, SpuriousWakeup, Abstract!absVars
<1> QED
  BY <1>1, <1>2, <1>3, <1>4, <1>5, <1>6, <1>7, <1>8, <1>9 DEF Next

(* Every behaviour of ThreadSafeQueue, scheduled in whatever way, is one   *)
(* of the atomic queue: the safety part of ImplementsAtomicQueue.          *)
THEOREM Refinement == Safety => Abstract!AbsSafety
<1>1. Init => Abstract!AbsInit
  BY DEF Init, Abstract!AbsInit, Pending
<1> QED
  BY <1>1, TypeCorrect, StepRefines, PTL DEF Safety, Abstract!AbsSafety
============================================================================
