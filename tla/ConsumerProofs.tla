--------------------------- MODULE ConsumerProofs ---------------------------
(***************************************************************************)
(* Proofs about Consumer, for any set of producers and any number of       *)
(* pushes.  LifeInv ties the thread to the owner, the stop flag and the    *)
(* worker; LineInv says what is in the line of tickets that the worker has *)
(* had, has and will have.  Every step leaves the line alone, appends the  *)
(* next ticket, or cuts the queue off at its end.                          *)
(***************************************************************************)
EXTENDS Consumer, SequenceTheorems, TLAPS

LifeInv ==
  /\ thread # "process" => hand = <<>>
  /\ thread # "none" => worker = "configured"
  /\ owner \in StopPlaces => thread # "none"
  /\ owner \in {"teardown", "gone"} => thread = "none"
  /\ owner \in {"notify", "join"} => stopFlag
  /\ thread = "done" => stopFlag

LineInv == EachOnceInOrder /\ NothingLost

Inv == TypeOK /\ LifeInv /\ NoLostWakeup /\ LineInv

----------------------------------------------------------------------------
LEMMA DataTypes ==
  ASSUME TypeOK
  PROVE  /\ queue \in Seq(Nat) /\ hand \in Seq(Nat) /\ processed \in Seq(Nat)
         /\ pushed + 1 \in Nat
<1>1. 1..pushed \subseteq Nat
  OBVIOUS
<1>2. pushed \in Nat
  BY DEF TypeOK
<1> QED
  BY <1>1, <1>2, SeqMonotonic DEF TypeOK

(* Type correctness.                                                       *)
LEMMA NextTypeOK == TypeOK /\ [Next]_vars => TypeOK'
<1> SUFFICES ASSUME TypeOK, [Next]_vars PROVE TypeOK'
  OBVIOUS
<1> USE DEF TypeOK, StopPlaces, data
<1>1. ASSUME NEW p \in Producers, Push(p) PROVE TypeOK'
  <2>1. 1..pushed \subseteq 1..pushed' /\ pushed' \in 1..pushed' /\ pushed' \in Nat
    BY <1>1 DEF Push
  <2>2. /\ queue \in Seq(1..pushed') /\ hand \in Seq(1..pushed')
        /\ processed \in Seq(1..pushed')
    BY <2>1, SeqMonotonic
  <2>3. queue' \in Seq(1..pushed')
    BY <1>1, <2>1, <2>2 DEF Push
  <2> QED
    BY <1>1, <2>1, <2>2, <2>3 DEF Push
<1>2. ASSUME NEW p \in Producers, Notify(p) PROVE TypeOK'
  BY <1>2 DEF Notify, WakeThread
<1>3. CASE Check
  <2>1. CASE Sleep
    BY <1>3, <2>1 DEF Check, Sleep
  <2>2. CASE Discard
    <3>1. queue' \in Seq(1..pushed') /\ pushed' = pushed
      BY <2>2, EmptySeq DEF Discard
    <3> QED
      BY <1>3, <2>2, <3>1 DEF Check, Discard
  <2>3. CASE Take
    <3>1. Head(queue) \in 1..pushed /\ Tail(queue) \in Seq(1..pushed)
      BY <2>3, HeadTailProperties DEF Take
    <3>2. hand' \in Seq(1..pushed) /\ queue' \in Seq(1..pushed)
      BY <2>3, <3>1 DEF Take
    <3> QED
      BY <1>3, <2>3, <3>2 DEF Check, Take
  <2> QED
    BY <1>3, <2>1, <2>2, <2>3 DEF Check
<1>4. CASE ProcessReturns
  BY <1>4 DEF ProcessReturns
<1>5. CASE SpuriousWakeup
  BY <1>5 DEF SpuriousWakeup
<1>6. ASSUME NEW b \in BOOLEAN, Configure(b) PROVE TypeOK'
  BY <1>6 DEF Configure
<1>7. CASE Cleanup \/ Destroy
  BY <1>7 DEF Cleanup, Destroy
<1>8. CASE StopStep
  BY <1>8 DEF StopStep, RaiseStopFlag, NotifyStop, WakeThread, Join, AfterStop,
              TeardownReturns
<1>9. CASE UNCHANGED vars
  BY <1>9 DEF vars
<1> QED
  BY <1>1, <1>2, <1>3, <1>4, <1>5, <1>6, <1>7, <1>8, <1>9 DEF Next

----------------------------------------------------------------------------
(* The thread, the owner and the wake-ups.                                 *)
LEMMA NextLife ==
  ASSUME TypeOK, LifeInv, NoLostWakeup, [Next]_vars
  PROVE  LifeInv' /\ NoLostWakeup'
<1> USE DEF TypeOK, LifeInv, NoLostWakeup, StopPlaces, data
<1>1. ASSUME NEW p \in Producers, Push(p) PROVE LifeInv' /\ NoLostWakeup'
  BY <1>1 DEF Push
<1>2. ASSUME NEW p \in Producers, Notify(p) PROVE LifeInv' /\ NoLostWakeup'
  BY <1>2 DEF Notify, WakeThread
<1>3. CASE Check
  BY <1>3 DEF Check, Sleep, Discard, Take
<1>4. CASE ProcessReturns
  BY <1>4 DEF ProcessReturns
<1>5. CASE SpuriousWakeup
  BY <1>5 DEF SpuriousWakeup
<1>6. ASSUME NEW b \in BOOLEAN, Configure(b) PROVE LifeInv' /\ NoLostWakeup'
  BY <1>6 DEF Configure
<1>7. CASE Cleanup \/ Destroy
  BY <1>7 DEF Cleanup, Destroy
<1>8. CASE StopStep
  BY <1>8 DEF StopStep, RaiseStopFlag, NotifyStop, WakeThread, Join, AfterStop,
              TeardownReturns
<1>9. CASE UNCHANGED vars
  BY <1>9 DEF vars
<1> QED
  BY <1>1, <1>2, <1>3, <1>4, <1>5, <1>6, <1>7, <1>8, <1>9 DEF Next

----------------------------------------------------------------------------
(* The line of tickets.                                                    *)
LEMMA LineBounds ==
  ASSUME TypeOK
  PROVE  Line \in Seq(1..pushed)
BY ConcatProperties DEF TypeOK, Line

(* push() appends the next ticket.                                         *)
LEMMA PushAppends ==
  ASSUME TypeOK, NEW p \in Producers, Push(p)
  PROVE  Line' = Append(Line, pushed + 1)
<1>1. processed \o hand \in Seq(Nat)
  BY DataTypes, ConcatProperties
<1>2. queue' = queue \o <<pushed + 1>>
  BY DataTypes, AppendIsConcat DEF Push
<1>3. Line' = (processed \o hand) \o (queue \o <<pushed + 1>>)
  BY <1>2 DEF Push, Line
<1>4. <<pushed + 1>> \in Seq(Nat)
  BY DataTypes
<1>5. Line' = Line \o <<pushed + 1>>
  <2>1. \A s, t, u \in Seq(Nat) : (s \o t) \o u = s \o (t \o u)
    BY ConcatAssociative
  <2>2. queue \in Seq(Nat)
    BY DataTypes
  <2>3. (processed \o hand) \o (queue \o <<pushed + 1>>)
          = ((processed \o hand) \o queue) \o <<pushed + 1>>
    BY <1>1, <1>4, <2>1, <2>2, Zenon
  <2> QED
    BY <1>3, <2>3 DEF Line
<1>6. Line \in Seq(Nat)
  BY <1>1, DataTypes, ConcatProperties DEF Line
<1> QED
  BY <1>5, <1>6, DataTypes, AppendIsConcat

(* Taking data and processing it only move the ticket forward in the line. *)
LEMMA TakeKeeps ==
  ASSUME TypeOK, hand = <<>>, Take
  PROVE  Line' = Line
<1>1. queue # <<>> /\ queue' = Tail(queue) /\ hand' = <<Head(queue)>>
      /\ processed' = processed
  BY DEF Take
<1>2. Head(queue) \in Nat /\ Tail(queue) \in Seq(Nat)
  BY <1>1, DataTypes, HeadTailProperties
<1>3. <<Head(queue)>> \o Tail(queue) = queue
  BY <1>1, <1>2, DataTypes
<1>4. Line' = processed \o (<<Head(queue)>> \o Tail(queue))
  BY <1>1, <1>2, DataTypes, ConcatAssociative DEF Line
<1>5. Line = processed \o queue
  BY DataTypes, ConcatEmptySeq DEF Line
<1> QED
  BY <1>3, <1>4, <1>5

LEMMA ProcessKeeps ==
  ASSUME TypeOK, ProcessReturns
  PROVE  Line' = Line
<1>1. processed \o hand \in Seq(Nat)
  BY DataTypes, ConcatProperties
<1>2. (processed \o hand) \o <<>> = processed \o hand
  BY <1>1, ConcatEmptySeq
<1> QED
  BY <1>2 DEF ProcessReturns, Line

LEMMA DiscardCuts ==
  ASSUME TypeOK, Discard
  PROVE  /\ Line' \in Seq(Nat)
         /\ Len(Line') <= Len(Line)
         /\ \A i \in 1..Len(Line') : Line'[i] = Line[i]
<1>1. processed \o hand \in Seq(Nat)
  BY DataTypes, ConcatProperties
<1>2. Line' = processed \o hand
  BY <1>1, ConcatEmptySeq DEF Discard, Line
<1> QED
  BY <1>1, <1>2, DataTypes, ConcatProperties, LenProperties DEF Line

LEMMA NextLine ==
  ASSUME TypeOK, LifeInv, LineInv, [Next]_vars
  PROVE  LineInv'
<1> USE DEF LineInv, EachOnceInOrder, NothingLost
<1>1. ASSUME NEW p \in Producers, Push(p) PROVE LineInv'
  <2>1. pushed' = pushed + 1 /\ pushed \in Nat /\ stopFlag' = stopFlag
    BY <1>1 DEF Push, TypeOK
  <2>2. Line \in Seq(Nat) /\ \A i \in 1..Len(Line) : Line[i] <= pushed
    BY <2>1, LineBounds, ElementOfSeq, SeqMonotonic
  <2>3. /\ Len(Line') = Len(Line) + 1
        /\ \A i \in 1..Len(Line) : Line'[i] = Line[i]
        /\ Line'[Len(Line) + 1] = pushed + 1
    BY <1>1, <2>1, <2>2, PushAppends, AppendProperties
  <2>4. EachOnceInOrder'
    BY <2>1, <2>2, <2>3, ElementOfSeq, LenProperties
  <2>5. NothingLost'
    <3> SUFFICES ASSUME ~stopFlag'
                 PROVE  Line' = [i \in 1..pushed' |-> i]
      OBVIOUS
    <3>1. Line = [i \in 1..pushed |-> i] /\ Len(Line) = pushed
      BY <2>1
    <3>2. Line' \in Seq(Nat)
      BY <1>1, <2>1, <2>2, PushAppends, AppendProperties
    <3>3. Len(Line') = pushed' /\ \A i \in 1..pushed' : Line'[i] = i
      BY <2>1, <2>3, <3>1
    <3> QED
      BY <3>2, <3>3, LenProperties
  <2> QED
    BY <2>4, <2>5
<1>2. CASE Line' = Line /\ UNCHANGED <<pushed, stopFlag>>
  BY <1>2
<1>3. CASE Check
  <2>1. CASE Sleep
    BY <1>3, <2>1, <1>2 DEF Check, Sleep, data, Line
  <2>2. CASE Discard
    <3>1. stopFlag'
      BY <1>3, <2>2 DEF Check, Discard
    <3>2. Line \in Seq(Nat)
      BY LineBounds, SeqMonotonic DEF TypeOK
    <3>3. /\ Len(Line') \in Nat /\ Len(Line) \in Nat /\ Len(Line') <= Len(Line)
          /\ \A i \in 1..Len(Line') : Line'[i] = Line[i]
      BY <2>2, <3>2, DiscardCuts, LenProperties
    <3>4. ASSUME NEW i \in 1..Len(Line'), NEW j \in 1..Len(Line'), i < j
          PROVE  Line'[i] < Line'[j]
      <4>1. i \in 1..Len(Line) /\ j \in 1..Len(Line)
        BY <3>3
      <4> QED
        BY <3>3, <3>4, <4>1
    <3> QED
      BY <3>1, <3>4
  <2>3. CASE Take
    BY <1>3, <2>3, <1>2, TakeKeeps DEF Check, Take, LifeInv
  <2> QED
    BY <1>3, <2>1, <2>2, <2>3 DEF Check
<1>4. CASE ProcessReturns
  BY <1>2, <1>4, ProcessKeeps DEF ProcessReturns
<1>5. CASE RaiseStopFlag
  BY <1>5 DEF RaiseStopFlag, data, Line
<1>6. CASE UNCHANGED <<data, stopFlag>>
  BY <1>2, <1>6 DEF data, Line
<1> QED
  BY <1>1, <1>3, <1>4, <1>5, <1>6
  DEF Next, vars, Notify, SpuriousWakeup, Configure, Cleanup, Destroy, StopStep,
      NotifyStop, Join, TeardownReturns

----------------------------------------------------------------------------
LEMMA InitInv == Init => Inv
<1> SUFFICES ASSUME Init PROVE Inv
  OBVIOUS
<1>1. TypeOK
  <2>1. stopFlag \in BOOLEAN /\ destroying \in BOOLEAN
    BY Zenon DEF Init
  <2>2. /\ queue \in Seq(1..pushed) /\ hand \in Seq(1..pushed)
        /\ processed \in Seq(1..pushed) /\ pushed \in Nat
    BY EmptySeq DEF Init
  <2> QED
    BY <2>1, <2>2 DEF Init, TypeOK
<1>2. LifeInv /\ NoLostWakeup
  BY DEF Init, LifeInv, NoLostWakeup, StopPlaces
<1>3. Line = <<>>
  BY DEF Init, Line
<1>4. LineInv
  BY <1>3 DEF Init, LineInv, EachOnceInOrder, NothingLost
<1> QED
  BY <1>1, <1>2, <1>4 DEF Inv

LEMMA AlwaysInv == Safety => []Inv
<1>1. Inv /\ [Next]_vars => Inv'
  BY NextTypeOK, NextLife, NextLine DEF Inv
<1> QED
  BY <1>1, InitInv, PTL DEF Safety

(* Every value stays in its type.                                          *)
THEOREM TypeCorrect == Safety => []TypeOK
<1>1. Inv => TypeOK
  BY DEF Inv
<1> QED
  BY <1>1, AlwaysInv, PTL

(* The worker gets the data in the order of the pushes, nothing twice.     *)
THEOREM InOrder == Safety => []EachOnceInOrder
<1>1. Inv => EachOnceInOrder
  BY DEF Inv, LineInv
<1> QED
  BY <1>1, AlwaysInv, PTL

(* Nothing is lost before the first stop.                                  *)
THEOREM NoLoss == Safety => []NothingLost
<1>1. Inv => NothingLost
  BY DEF Inv, LineInv
<1> QED
  BY <1>1, AlwaysInv, PTL

(* The thread never misses a notification.                                 *)
THEOREM NotifiedInTime == Safety => []NoLostWakeup
<1>1. Inv => NoLostWakeup
  BY DEF Inv
<1> QED
  BY <1>1, AlwaysInv, PTL

(* The thread runs only while the worker is configured.                    *)
THEOREM ReadyWhileRunning == Safety => []WorkerReady
<1>1. Inv => WorkerReady
  BY DEF Inv, LifeInv, WorkerReady
<1> QED
  BY <1>1, AlwaysInv, PTL
=============================================================================
