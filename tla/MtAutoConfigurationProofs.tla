--------------------- MODULE MtAutoConfigurationProofs ---------------------
(***************************************************************************)
(* Proofs about MtAutoConfiguration, for any set of users: the inductive   *)
(* invariant Inv ties the holder of the mutex to the places of the loop    *)
(* and of the users (LockInv), m_ok and the resource to the place of the   *)
(* loop (ResourceInv), stop() to the life of the thread (StopInv), and     *)
(* counts the attempts begun after stopFlag was set (LateInv).             *)
(***************************************************************************)
EXTENDS MtAutoConfiguration, TLAPS

LockInv ==
  /\ \A u \in Users : user[u] # "out" <=> mutex = u
  /\ mutex = Loop <=> loop \in InFunction \cup {"wait"}

ResourceInv ==
  /\ ok => resource = "configured"
  /\ loop \in {"cleanup", "configure", "confirm"} => ~ok
  /\ loop = "configure" => resource = "clean"
  /\ loop = "confirm" => resource = "configured" /\ heartbeatSet
  /\ loop = "heartbeat" => ok /\ heartbeatSet
  /\ loop = "late" /\ waitsFor = "change" => heartbeatSet
  /\ loop \in {"asleep", "awake", "late"} /\ waitsFor = "delay" => ~ok

StopInv ==
  /\ owner \in StopTail => loop = "absent"
  /\ owner = "teardown" => ~ok
  /\ owner = "idle" /\ loop = "absent" => ~ok /\ resource = "clean"
  /\ owner \in {"stopping", "notify", "join"} => loop # "absent"
  /\ loop # "absent" => (stopFlag <=> owner \in {"notify", "join"})
  /\ loop = "done" => stopFlag

LateInv ==
  /\ lateAttempts <= 1
  /\ ~stopFlag /\ loop # "absent" => lateAttempts = 0
  /\ loop \notin {"configure", "confirm", "wait", "done", "absent"}
       => lateAttempts = 0

Inv == TypeOK /\ LockInv /\ ResourceInv /\ StopInv /\ LateInv

----------------------------------------------------------------------------
(* TypeOK in two halves, one for each kind of prover.                      *)
FlagsOK ==
  /\ ok \in BOOLEAN /\ reported \in BOOLEAN /\ repeated \in BOOLEAN
  /\ heartbeatSet \in BOOLEAN /\ callbackSet \in BOOLEAN
  /\ stopFlag \in BOOLEAN

PlacesOK ==
  /\ mutex \in Users \cup {Loop, NoOne}
  /\ loop \in LoopPlaces /\ waitsFor \in {"change", "delay"}
  /\ owner \in OwnerPlaces
  /\ user \in [Users -> {"out", "in", "sure"}]
  /\ resource \in {"clean", "partial", "configured"}
  /\ lateAttempts \in Nat

LEMMA TypeHalves == TypeOK <=> FlagsOK /\ PlacesOK
BY Zenon DEF TypeOK, FlagsOK, PlacesOK

LEMMA InitInv == Init => Inv
<1> SUFFICES ASSUME Init PROVE Inv
  OBVIOUS
<1>1. FlagsOK
  BY Zenon DEF Init, FlagsOK
<1>2. PlacesOK
  BY DEF Init, PlacesOK, LoopPlaces, OwnerPlaces
<1>3. LockInv
  BY ThreadsAssumption DEF Init, LockInv, InFunction
<1>4. ~ok /\ ~stopFlag
  BY Zenon DEF Init
<1>5. ResourceInv /\ StopInv /\ LateInv
  BY <1>4 DEF Init, ResourceInv, StopInv, LateInv, StopTail
<1> QED
  BY <1>1, <1>2, <1>3, <1>5, TypeHalves DEF Inv

(* Type correctness needs no other invariant.                              *)
LEMMA LoopTypeOK == TypeOK /\ LoopStep => TypeOK'
<1> SUFFICES ASSUME TypeOK, LoopStep PROVE TypeOK'
  OBVIOUS
<1> USE DEF TypeOK, LoopStep, settings, state, LoopPlaces, InFunction
<1>1. CASE BeginRound \/ Wait \/ LateCheck
  BY <1>1 DEF BeginRound, Wait, LateCheck, EndRound
<1>2. CASE CleanupReturns \/ Timeout \/ SpuriousWakeup
  BY <1>2 DEF CleanupReturns, Timeout, SpuriousWakeup, LeaveSleepFor
<1>3. ASSUME NEW b \in BOOLEAN,
             ConfigureReturns(b) \/ ConfirmReturns(b) \/ HeartbeatReturns(b)
      PROVE  TypeOK'
  BY <1>3 DEF ConfigureReturns, ConfirmReturns, HeartbeatReturns, SetState,
              ChangeState
<1> QED
  BY <1>1, <1>2, <1>3 DEF Progress

LEMMA OwnerTypeOK == TypeOK /\ OwnerStep => TypeOK'
<1> SUFFICES ASSUME TypeOK, OwnerStep PROVE TypeOK'
  OBVIOUS
<1>1. FlagsOK'
  <2>1. ASSUME NEW b \in BOOLEAN, SetFnHeartbeat(b) \/ SetCbStateChanged(b)
        PROVE  FlagsOK'
    BY <2>1, TypeHalves, Zenon DEF SetFnHeartbeat, SetCbStateChanged, FlagsOK,
                                   settings, state
  <2>2. CASE Start \/ CallStop
    BY <2>2, TypeHalves, Zenon DEF Start, CallStop, FlagsOK, settings, state
  <2>3. CASE RaiseStopFlag \/ NotifyLoop \/ Join
    BY <2>3, TypeHalves, Zenon DEF RaiseStopFlag, NotifyLoop, Join, StopMoves, FlagsOK,
                                   settings, state
  <2>4. CASE CompareState \/ ResetState \/ TeardownReturns
    BY <2>4, TypeHalves DEF CompareState, ResetState, ChangeState,
                            TeardownReturns, StopMoves, FlagsOK, settings, state
  <2> QED
    BY <2>1, <2>2, <2>3, <2>4 DEF OwnerStep, StopStep
<1>2. PlacesOK'
  <2> USE TypeHalves DEF OwnerStep, StopMoves, PlacesOK, LoopPlaces, OwnerPlaces,
                         InFunction, StopTail
  <2>1. ASSUME NEW b \in BOOLEAN, SetFnHeartbeat(b) \/ SetCbStateChanged(b)
        PROVE  PlacesOK'
    BY <2>1 DEF SetFnHeartbeat, SetCbStateChanged
  <2>2. CASE Start \/ CallStop
    BY <2>2 DEF Start, CallStop
  <2>3. CASE RaiseStopFlag \/ NotifyLoop \/ Join
    BY <2>3 DEF RaiseStopFlag, NotifyLoop, WakeLoop, Join
  <2>4. CASE CompareState \/ ResetState \/ TeardownReturns
    BY <2>4 DEF CompareState, ResetState, TeardownReturns
  <2> QED
    BY <2>1, <2>2, <2>3, <2>4 DEF StopStep
<1> QED
  BY <1>1, <1>2, Zenon DEF TypeOK, FlagsOK, PlacesOK

LEMMA UserTypeOK == ASSUME TypeOK, NEW u \in Users, UserStep(u) PROVE TypeOK'
<1>1. FlagsOK'
  BY TypeHalves
  DEF UserStep, AcquireResourceLock, SeeOk, RequestReconfiguration,
      ReleaseResourceLock, SetState, ChangeState, settings, state, FlagsOK
<1>2. PlacesOK'
  BY TypeHalves
  DEF UserStep, AcquireResourceLock, SeeOk, RequestReconfiguration,
      ReleaseResourceLock, WakeLoop, PlacesOK, LoopPlaces, InFunction
<1> QED
  BY <1>1, <1>2, Zenon DEF TypeOK, FlagsOK, PlacesOK

LEMMA NextTypeOK == TypeOK /\ [Next]_vars => TypeOK'
<1>1. TypeOK /\ UNCHANGED vars => TypeOK'
  BY DEF TypeOK, vars, state, settings
<1> QED
  BY <1>1, LoopTypeOK, OwnerTypeOK, UserTypeOK DEF Next

(* Every value stays in its type.                                          *)
THEOREM TypeCorrect == Safety => []TypeOK
<1>1. Init => TypeOK
  BY InitInv DEF Inv
<1> QED
  BY <1>1, NextTypeOK, PTL DEF Safety

----------------------------------------------------------------------------
(* The steps of the loop.                                                  *)
LEMMA LoopKeepsInv == Inv /\ LoopStep => Inv'
<1> SUFFICES ASSUME Inv, LoopStep PROVE Inv'
  OBVIOUS
<1>0. TypeOK'
  BY LoopTypeOK DEF Inv
<1> USE <1>0, ThreadsAssumption
    DEF Inv, LockInv, ResourceInv, StopInv, LateInv, LoopStep, settings, state,
        InFunction, StopTail
<1>1. CASE BeginRound
  BY <1>1 DEF BeginRound, TypeOK
<1>2. CASE CleanupReturns
  BY <1>2 DEF CleanupReturns, TypeOK
<1>3. ASSUME NEW b \in BOOLEAN, ConfigureReturns(b) PROVE Inv'
  BY <1>3 DEF ConfigureReturns, SetState, ChangeState, TypeOK
<1>4. ASSUME NEW b \in BOOLEAN, ConfirmReturns(b) PROVE Inv'
  BY <1>4 DEF ConfirmReturns, SetState, ChangeState, TypeOK
<1>5. CASE Wait
  BY <1>5 DEF Wait, EndRound, WaitIsOver, TypeOK
<1>6. CASE LateCheck
  BY <1>6 DEF LateCheck, EndRound, WaitIsOver, TypeOK
<1>7. ASSUME NEW b \in BOOLEAN, HeartbeatReturns(b) PROVE Inv'
  BY <1>7 DEF HeartbeatReturns, SetState, ChangeState, TypeOK
<1>8. CASE Timeout
  BY <1>8 DEF Timeout, LeaveSleepFor, HasDeadline, TypeOK
<1>9. CASE SpuriousWakeup
  BY <1>9 DEF SpuriousWakeup, LeaveSleepFor, TypeOK
<1> QED
  BY <1>1, <1>2, <1>3, <1>4, <1>5, <1>6, <1>7, <1>8, <1>9 DEF Progress

(* The steps of the owner.                                                 *)
LEMMA OwnerKeepsInv == Inv /\ OwnerStep => Inv'
<1> SUFFICES ASSUME Inv, OwnerStep PROVE Inv'
  OBVIOUS
<1>0. TypeOK'
  BY OwnerTypeOK DEF Inv
<1> USE <1>0, ThreadsAssumption
    DEF Inv, LockInv, ResourceInv, StopInv, LateInv, OwnerStep, StopMoves, settings,
        state, InFunction, StopTail
<1>1. ASSUME NEW b \in BOOLEAN, SetFnHeartbeat(b) PROVE Inv'
  BY <1>1 DEF SetFnHeartbeat, TypeOK
<1>2. ASSUME NEW b \in BOOLEAN, SetCbStateChanged(b) PROVE Inv'
  BY <1>2 DEF SetCbStateChanged, TypeOK
<1>3. CASE Start
  BY <1>3 DEF Start, TypeOK
<1>4. CASE CallStop
  BY <1>4 DEF CallStop, TypeOK
<1>5. CASE RaiseStopFlag
  BY <1>5 DEF RaiseStopFlag, TypeOK
<1>6. CASE NotifyLoop
  BY <1>6 DEF NotifyLoop, WakeLoop, TypeOK
<1>7. CASE Join
  BY <1>7 DEF Join, TypeOK
<1>8. CASE CompareState
  BY <1>8 DEF CompareState, TypeOK
<1>9. CASE ResetState
  BY <1>9 DEF ResetState, ChangeState, TypeOK
<1>10. CASE TeardownReturns
  BY <1>10 DEF TeardownReturns, TypeOK
<1> QED
  BY <1>1, <1>2, <1>3, <1>4, <1>5, <1>6, <1>7, <1>8, <1>9, <1>10 DEF StopStep

(* The steps of a user.                                                    *)
LEMMA UserKeepsInv == ASSUME Inv, NEW u \in Users, UserStep(u) PROVE Inv'
<1>0. TypeOK'
  BY UserTypeOK DEF Inv
<1> USE <1>0, ThreadsAssumption
    DEF Inv, LockInv, ResourceInv, StopInv, LateInv, UserStep, settings, state,
        InFunction, StopTail
<1>1. CASE AcquireResourceLock(u)
  BY <1>1 DEF AcquireResourceLock, TypeOK
<1>2. CASE SeeOk(u)
  BY <1>2 DEF SeeOk, TypeOK
<1>3. CASE RequestReconfiguration(u)
  BY <1>3 DEF RequestReconfiguration, SetState, ChangeState, WakeLoop, TypeOK
<1>4. CASE ReleaseResourceLock(u)
  BY <1>4 DEF ReleaseResourceLock, TypeOK
<1> QED
  BY <1>1, <1>2, <1>3, <1>4

LEMMA NextInv == Inv /\ [Next]_vars => Inv'
<1>1. Inv /\ UNCHANGED vars => Inv'
  BY NextTypeOK
  DEF Inv, LockInv, ResourceInv, StopInv, LateInv, vars, state, settings
<1> QED
  BY <1>1, LoopKeepsInv, OwnerKeepsInv, UserKeepsInv DEF Next

LEMMA AlwaysInv == Safety => []Inv
BY InitInv, NextInv, PTL DEF Safety

(* A user with the resource lock never meets the loop inside a function of *)
(* the client.                                                             *)
THEOREM UsersMeetNoLoop == Safety => []LockExcludesLoop
<1>1. Inv => LockExcludesLoop
  BY ThreadsAssumption DEF Inv, LockInv, LockExcludesLoop
<1> QED
  BY <1>1, AlwaysInv, PTL

(* ok() is true only of a resource that configure() has set up.            *)
THEOREM OkIsTrue == Safety => []OkMeansConfigured
<1>1. Inv => OkMeansConfigured
  BY DEF Inv, ResourceInv, OkMeansConfigured
<1> QED
  BY <1>1, AlwaysInv, PTL

(* Each attempt to configure starts from a clean resource.                 *)
THEOREM AttemptsStartClean == Safety => []ConfigureOnClean
<1>1. Inv => ConfigureOnClean
  BY DEF Inv, ResourceInv, ConfigureOnClean
<1> QED
  BY <1>1, AlwaysInv, PTL

(* The loop never calls a null m_fnHeartbeat.                              *)
THEOREM HeartbeatIsSet == Safety => []NoNullHeartbeat
<1>1. Inv => NoNullHeartbeat
  BY DEF Inv, ResourceInv, NoNullHeartbeat
<1> QED
  BY <1>1, AlwaysInv, PTL

(* After stop() has set its flag, at most one more attempt begins.         *)
THEOREM OneLateAttempt == Safety => []AtMostOneLateAttempt
<1>1. Inv => AtMostOneLateAttempt
  BY DEF Inv, LateInv, AtMostOneLateAttempt
<1> QED
  BY <1>1, AlwaysInv, PTL

(* stop() cleans up only after the loop has left the client's functions    *)
(* for good.                                                               *)
THEOREM OneFunctionAtATime == Safety => []FunctionsExclusive
<1>1. Inv => FunctionsExclusive
  BY DEF Inv, StopInv, FunctionsExclusive, StopTail, InFunction
<1> QED
  BY <1>1, AlwaysInv, PTL

(* A stopped object can be started again.                                  *)
THEOREM RestartIsPossible == Safety => []StoppedIsClean
<1>1. Inv => StoppedIsClean
  BY DEF Inv, StopInv, StoppedIsClean
<1> QED
  BY <1>1, AlwaysInv, PTL

----------------------------------------------------------------------------
(* A client whose users are away from the resource during stop().  The end *)
(* of stop(), which runs without the mutex, then meets nobody: who has     *)
(* seen ok() can rely on it, and stop() finds m_ok as it compared it.      *)
PoliteInv ==
  /\ owner # "idle" => \A u \in Users : user[u] = "out"
  /\ \A u \in Users : user[u] = "sure" => ok
  /\ owner = "resetting" => ok
  /\ callbackSet => (reported <=> ok)
  /\ ~repeated

LEMMA InitPolite == Init => PoliteInv
<1> SUFFICES ASSUME Init PROVE PoliteInv
  OBVIOUS
<1>1. ~callbackSet /\ ~repeated
  BY Zenon DEF Init
<1> QED
  BY <1>1 DEF Init, PoliteInv

LEMMA LoopKeepsPolite ==
  ASSUME Inv, PoliteInv, LoopStep
  PROVE  PoliteInv'
<1> USE ThreadsAssumption
    DEF Inv, PoliteInv, TypeOK, LockInv, ResourceInv, StopInv, LoopStep,
        settings, state, InFunction, StopTail
<1>1. CASE BeginRound \/ Wait \/ LateCheck
  BY <1>1 DEF BeginRound, Wait, LateCheck
<1>2. CASE CleanupReturns \/ Timeout \/ SpuriousWakeup
  BY <1>2 DEF CleanupReturns, Timeout, SpuriousWakeup, LeaveSleepFor
<1>3. ASSUME NEW b \in BOOLEAN,
             ConfigureReturns(b) \/ ConfirmReturns(b) \/ HeartbeatReturns(b)
      PROVE  PoliteInv'
  BY <1>3 DEF ConfigureReturns, ConfirmReturns, HeartbeatReturns, SetState,
              ChangeState
<1> QED
  BY <1>1, <1>2, <1>3 DEF Progress

LEMMA OwnerKeepsPolite ==
  ASSUME UsersLeaveBeforeStop, Inv, PoliteInv, OwnerStep
  PROVE  PoliteInv'
<1> USE ThreadsAssumption
    DEF Inv, PoliteInv, TypeOK, ResourceInv, StopInv, OwnerStep, StopMoves,
        settings, state, StopTail
<1>1. ASSUME NEW b \in BOOLEAN, SetFnHeartbeat(b) \/ SetCbStateChanged(b)
      PROVE  PoliteInv'
  BY <1>1 DEF SetFnHeartbeat, SetCbStateChanged
<1>2. CASE Start \/ CallStop
  BY <1>2 DEF Start, CallStop
<1>3. CASE RaiseStopFlag \/ NotifyLoop \/ Join
  BY <1>3 DEF RaiseStopFlag, NotifyLoop, Join
<1>4. CASE CompareState \/ TeardownReturns
  BY <1>4 DEF CompareState, TeardownReturns
<1>5. CASE ResetState
  <2>1. owner = "resetting" /\ owner' = "teardown" /\ ~ok'
    BY <1>5, Zenon DEF ResetState, StopMoves, ChangeState
  <2>2. callbackSet' => ~reported'
    BY <1>5, Zenon DEF ResetState, StopMoves, ChangeState
  <2>3. ~repeated'
    <3>1. callbackSet => reported
      BY <2>1
    <3>2. repeated' = (repeated \/ (callbackSet /\ reported = FALSE))
      BY <1>5, Zenon DEF ResetState, StopMoves, ChangeState
    <3> QED
      BY <3>1, <3>2, Zenon
  <2> QED
    BY <2>1, <2>2, <2>3
<1> QED
  BY <1>1, <1>2, <1>3, <1>4, <1>5 DEF StopStep

LEMMA UserKeepsPolite ==
  ASSUME UsersLeaveBeforeStop, Inv, PoliteInv, NEW u \in Users, UserStep(u)
  PROVE  PoliteInv'
<1> USE ThreadsAssumption
    DEF Inv, PoliteInv, TypeOK, LockInv, UserStep, settings, state
<1>1. CASE AcquireResourceLock(u)
  BY <1>1 DEF AcquireResourceLock
<1>2. CASE SeeOk(u)
  BY <1>2 DEF SeeOk
<1>3. CASE RequestReconfiguration(u)
  BY <1>3 DEF RequestReconfiguration, SetState, ChangeState
<1>4. CASE ReleaseResourceLock(u)
  BY <1>4 DEF ReleaseResourceLock
<1> QED
  BY <1>1, <1>2, <1>3, <1>4

LEMMA AlwaysPolite ==
  ASSUME UsersLeaveBeforeStop PROVE Safety => [](Inv /\ PoliteInv)
<1>1. Init => Inv /\ PoliteInv
  BY InitInv, InitPolite
<1>2. Inv /\ PoliteInv /\ [Next]_vars => (Inv /\ PoliteInv)'
  <2>1. PoliteInv /\ UNCHANGED vars => PoliteInv'
    BY DEF PoliteInv, vars, state, settings
  <2> QED
    BY <2>1, NextInv, LoopKeepsPolite, OwnerKeepsPolite, UserKeepsPolite DEF Next
<1> QED
  BY <1>1, <1>2, PTL DEF Safety

(* A user who holds the lock and has seen ok() keeps a configured resource *)
(* until the lock is released, provided that no user works during stop().  *)
THEOREM PoliteUsersAreSafe ==
  ASSUME UsersLeaveBeforeStop PROVE Safety => []ResourceStable
<1>1. Inv /\ PoliteInv => ResourceStable
  BY DEF Inv, TypeOK, ResourceInv, PoliteInv, ResourceStable
<1> QED
  BY <1>1, AlwaysPolite, PTL

(* Under the same proviso the callback reports changes only.               *)
THEOREM ReportsAlternate ==
  ASSUME UsersLeaveBeforeStop PROVE Safety => []NoRepeatedReport
<1>1. Inv /\ PoliteInv => NoRepeatedReport
  BY DEF PoliteInv, NoRepeatedReport
<1> QED
  BY <1>1, AlwaysPolite, PTL
============================================================================
