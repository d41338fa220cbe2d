------------------------ MODULE MtAutoConfiguration ------------------------
(***************************************************************************)
(* le::MtAutoConfiguration keeps a resource configured from a thread of    *)
(* its own: the loop cleans up and configures until that succeeds, then    *)
(* sends heartbeats; a failed heartbeat, or a user's request, starts over. *)
(*                                                                         *)
(* Three kinds of thread: the loop; the owner, who calls start(), stop()   *)
(* and the setters; users, who work with the resource while they hold the  *)
(* resource lock, which is the loop's mutex.  The functions that the       *)
(* client passes in (configure, cleanup, heartbeat, state changed) are     *)
(* external.  A step whose name ends in Returns is the end of such a call; *)
(* before it the loop, or the owner, stands inside the function.           *)
(***************************************************************************)
EXTENDS Naturals

CONSTANTS
  Users,                 (* threads that use the resource                  *)
  NoOne,                 (* holder of a free mutex                         *)
  Loop,                  (* the loop, as holder of the mutex               *)
  UsersLeaveBeforeStop   (* TRUE: a client that keeps its users away from  *)
                         (* the resource for the whole of stop()           *)

ASSUME ThreadsAssumption ==
  /\ Loop # NoOne
  /\ {Loop, NoOne} \cap Users = {}
  /\ UsersLeaveBeforeStop \in BOOLEAN

VARIABLES
  ok,             (* m_ok                                                  *)
  stopFlag,       (* Impl::stopFlag                                        *)
  mutex,          (* Impl::mutex: its holder                               *)
  loop,           (* where the loop is; "absent": thread is not joinable   *)
  waitsFor,       (* the wait the loop is in: for a "change" of m_ok, or   *)
                  (* for the "delay" before it tries again                 *)
  owner,          (* where the owner is in stop()                          *)
  user,           (* user[u]: "in" holds the lock; "sure" also saw ok()    *)
  heartbeatSet,   (* m_fnHeartbeat is not null                             *)
  callbackSet,    (* m_cbStateChanged is not null                          *)
  resource,       (* what the configure and cleanup functions left behind  *)
  reported,       (* the state the callback reported last, or FALSE        *)
  repeated,       (* some callback reported the state reported before it   *)
  lateAttempts    (* configure calls begun after stopFlag was set          *)

state == <<ok, reported, repeated>>
settings == <<heartbeatSet, callbackSet>>
vars == <<state, settings, stopFlag, mutex, loop, waitsFor, owner, user,
          resource, lateAttempts>>

InFunction == {"cleanup", "configure", "confirm", "heartbeat"}
LoopPlaces ==
  InFunction \cup {"absent", "start", "wait", "asleep", "awake", "late", "done"}
StopTail == {"reset", "resetting", "teardown"}
OwnerPlaces == StopTail \cup {"idle", "stopping", "notify", "join"}

TypeOK ==
  /\ ok \in BOOLEAN /\ reported \in BOOLEAN /\ repeated \in BOOLEAN
  /\ heartbeatSet \in BOOLEAN /\ callbackSet \in BOOLEAN
  /\ stopFlag \in BOOLEAN
  /\ mutex \in Users \cup {Loop, NoOne}
  /\ loop \in LoopPlaces /\ waitsFor \in {"change", "delay"}
  /\ owner \in OwnerPlaces
  /\ user \in [Users -> {"out", "in", "sure"}]
  /\ resource \in {"clean", "partial", "configured"}
  /\ lateAttempts \in Nat

Init ==
  /\ ok = FALSE /\ reported = FALSE /\ repeated = FALSE
  /\ heartbeatSet = FALSE /\ callbackSet = FALSE
  /\ stopFlag = FALSE
  /\ mutex = NoOne
  /\ loop = "absent" /\ waitsFor = "delay"
  /\ owner = "idle"
  /\ user = [u \in Users |-> "out"]
  /\ resource = "clean"
  /\ lateAttempts = 0

----------------------------------------------------------------------------
(* The assignment and the callback of setState(), after its comparison.    *)
ChangeState(b) ==
  /\ ok' = b
  /\ reported' = IF callbackSet THEN b ELSE reported
  /\ repeated' = (repeated \/ (callbackSet /\ reported = b))

(* Variant: no comparison.                                                 *)
SetStateAlways(b) == ChangeState(b)

SetState(b) == IF ok # b THEN ChangeState(b) ELSE UNCHANGED state

(* notify_one(): the loop is the only thread that ever waits on cv.        *)
(* Variant: no notification.                                               *)
WakeNobody == UNCHANGED loop
WakeLoop == loop' = IF loop = "asleep" THEN "awake" ELSE loop

(* Variant: stop() does not cut the reconfiguration delay short.           *)
WaitIsOverDeaf(kind) == kind = "change" /\ (stopFlag \/ ~ok)

WaitIsOver(kind) == stopFlag \/ (kind = "change" /\ ~ok)

(* A wait has ended with its predicate true: return, or the next round.    *)
(* Either way the unique_lock goes out of scope.                           *)
(* Variant: the thread ends by an exception.                               *)
EndByException ==
  /\ loop' = IF stopFlag THEN "terminated" ELSE "start"
  /\ mutex' = NoOne

EndRound ==
  /\ loop' = IF stopFlag THEN "done" ELSE "start"
  /\ mutex' = NoOne

----------------------------------------------------------------------------
(* The loop.  tryConfigure() begins with setState(false), which changes    *)
(* nothing: it is called when m_ok is false.                               *)
(* Variant: an attempt does not clean up first.                            *)
BeginRoundUnclean ==
  /\ loop = "start" /\ mutex = NoOne
  /\ mutex' = Loop
  /\ loop' = IF ok THEN "wait" ELSE "configure"
  /\ UNCHANGED <<state, waitsFor, resource, lateAttempts>>

BeginRound ==
  /\ loop = "start" /\ mutex = NoOne
  /\ mutex' = Loop
  /\ loop' = IF ok THEN "wait" ELSE "cleanup"
  /\ UNCHANGED <<state, waitsFor, resource, lateAttempts>>

CleanupReturns ==
  /\ loop = "cleanup"
  /\ resource' = "clean"
  /\ loop' = "configure"
  /\ lateAttempts' = IF stopFlag THEN lateAttempts + 1 ELSE lateAttempts
  /\ UNCHANGED <<state, mutex, waitsFor>>

ConfigureReturns(b) ==
  /\ loop = "configure"
  /\ resource' = IF b THEN "configured" ELSE "partial"
  /\ loop' = IF b /\ heartbeatSet THEN "confirm" ELSE "wait"
  /\ IF b /\ ~heartbeatSet THEN SetState(TRUE) ELSE UNCHANGED state
  /\ UNCHANGED <<mutex, waitsFor, lateAttempts>>

(* m_fnHeartbeat(true) has returned b.                                     *)
ConfirmReturns(b) ==
  /\ loop = "confirm"
  /\ loop' = "wait"
  /\ SetState(b)
  /\ UNCHANGED <<mutex, waitsFor, resource, lateAttempts>>

(* wait() or wait_for(): the predicate, on the call and, with the mutex    *)
(* again, whenever the loop wakes; and the sleep, which gives the mutex    *)
(* back.                                                                   *)
Wait ==
  /\ \/ loop = "wait" /\ waitsFor' = IF ok THEN "change" ELSE "delay"
     \/ loop = "awake" /\ mutex = NoOne /\ UNCHANGED waitsFor
  /\ IF WaitIsOver(waitsFor') THEN EndRound
     ELSE loop' = "asleep" /\ mutex' = NoOne
  /\ UNCHANGED <<state, resource, lateAttempts>>

LeaveSleepFor(place) ==
  /\ loop' = place
  /\ UNCHANGED <<state, mutex, waitsFor, resource, lateAttempts>>

SpuriousWakeup == loop = "asleep" /\ LeaveSleepFor("awake")

(* Without a heartbeat function the wait for a change has no deadline.     *)
(* Variants: always a deadline; a deadline for the delay only.             *)
AlwaysDeadline == TRUE
NoHeartbeatDeadline == waitsFor = "delay"
HasDeadline == waitsFor = "delay" \/ heartbeatSet

(* The deadline ends the sleep, or catches the loop just woken.            *)
Timeout ==
  loop \in {"asleep", "awake"} /\ HasDeadline /\ LeaveSleepFor("late")

(* Timed out: the mutex again, the predicate once more, and the heartbeat  *)
(* if m_ok is true.                                                        *)
LateCheck ==
  /\ loop = "late" /\ mutex = NoOne
  /\ IF WaitIsOver(waitsFor) THEN EndRound
     ELSE IF ok THEN loop' = "heartbeat" /\ mutex' = Loop
     ELSE loop' = "start" /\ UNCHANGED mutex
  /\ UNCHANGED <<state, waitsFor, resource, lateAttempts>>

(* m_fnHeartbeat(false) has returned b.                                    *)
HeartbeatReturns(b) ==
  /\ loop = "heartbeat"
  /\ loop' = "start" /\ mutex' = NoOne
  /\ SetState(b)
  /\ UNCHANGED <<waitsFor, resource, lateAttempts>>

Progress ==
  \/ BeginRound
  \/ CleanupReturns
  \/ \E b \in BOOLEAN : ConfigureReturns(b)
  \/ \E b \in BOOLEAN : ConfirmReturns(b)
  \/ Wait
  \/ LateCheck
  \/ \E b \in BOOLEAN : HeartbeatReturns(b)

LoopStep ==
  /\ Progress \/ Timeout \/ SpuriousWakeup
  /\ UNCHANGED <<stopFlag, owner, user, settings>>

----------------------------------------------------------------------------
(* The owner.  The setters and start() throw, and change nothing, where    *)
(* they are not enabled.                                                   *)
SetFnHeartbeat(b) ==
  /\ owner = "idle" /\ loop = "absent"
  /\ heartbeatSet' = b
  /\ UNCHANGED <<callbackSet, state, stopFlag, loop, owner, resource,
                 lateAttempts>>

SetCbStateChanged(b) ==
  /\ owner = "idle" /\ loop = "absent"
  /\ callbackSet' = b /\ reported' = FALSE
  /\ UNCHANGED <<heartbeatSet, ok, repeated, stopFlag, loop, owner, resource,
                 lateAttempts>>

Start ==
  /\ owner = "idle" /\ ~ok /\ loop = "absent"
  /\ stopFlag' = FALSE /\ lateAttempts' = 0
  /\ loop' = "start"
  /\ UNCHANGED <<settings, state, owner, resource>>

CallStop ==
  /\ owner = "idle"
  /\ UsersLeaveBeforeStop => \A u \in Users : user[u] = "out"
  /\ owner' = IF loop = "absent" THEN "reset" ELSE "stopping"
  /\ UNCHANGED <<settings, state, stopFlag, loop, resource, lateAttempts>>

(* One step of stop() after the first.                                     *)
StopMoves(from, to) ==
  /\ owner = from /\ owner' = to
  /\ UNCHANGED <<settings, lateAttempts>>

RaiseStopFlag ==
  /\ StopMoves("stopping", "notify") /\ mutex = NoOne
  /\ stopFlag' = TRUE
  /\ UNCHANGED <<state, loop, resource>>

NotifyLoop ==
  /\ StopMoves("notify", "join")
  /\ WakeLoop
  /\ UNCHANGED <<state, stopFlag, resource>>

(* Variant: detach() instead of join().                                    *)
Detach == StopMoves("join", "reset") /\ UNCHANGED <<state, stopFlag, loop, resource>>

Join ==
  /\ StopMoves("join", "reset") /\ loop = "done"
  /\ loop' = "absent"
  /\ UNCHANGED <<state, stopFlag, resource>>

(* stop() calls setState(false), and then m_fnCleanup, without the mutex:  *)
(* a user may come between the comparison and the assignment.  Variant:    *)
(* m_ok is not reset.                                                      *)
KeepState ==
  StopMoves("reset", "teardown") /\ UNCHANGED <<state, stopFlag, loop, resource>>

CompareState ==
  /\ StopMoves("reset", IF ok THEN "resetting" ELSE "teardown")
  /\ UNCHANGED <<state, stopFlag, loop, resource>>

ResetState ==
  /\ StopMoves("resetting", "teardown")
  /\ ChangeState(FALSE)
  /\ UNCHANGED <<stopFlag, loop, resource>>

TeardownReturns ==
  /\ StopMoves("teardown", "idle")
  /\ resource' = "clean"
  /\ UNCHANGED <<state, stopFlag, loop>>

StopStep ==
  \/ RaiseStopFlag
  \/ NotifyLoop
  \/ Join
  \/ CompareState
  \/ ResetState
  \/ TeardownReturns

OwnerStep ==
  /\ \/ \E b \in BOOLEAN : SetFnHeartbeat(b)
     \/ \E b \in BOOLEAN : SetCbStateChanged(b)
     \/ Start
     \/ CallStop
     \/ StopStep
  /\ UNCHANGED <<mutex, waitsFor, user>>

----------------------------------------------------------------------------
(* A user u.                                                               *)
(* Variant: a deferred lock, not locked yet.                               *)
AcquireDeferredLock(u) ==
  /\ user[u] = "out"
  /\ UsersLeaveBeforeStop => owner = "idle"
  /\ user' = [user EXCEPT ![u] = "in"]
  /\ UNCHANGED <<state, mutex, loop>>

AcquireResourceLock(u) ==
  /\ user[u] = "out" /\ mutex = NoOne
  /\ UsersLeaveBeforeStop => owner = "idle"
  /\ mutex' = u
  /\ user' = [user EXCEPT ![u] = "in"]
  /\ UNCHANGED <<state, loop>>

(* ok() has returned true.                                                 *)
SeeOk(u) ==
  /\ user[u] = "in" /\ ok
  /\ user' = [user EXCEPT ![u] = "sure"]
  /\ UNCHANGED <<state, mutex, loop>>

RequestReconfiguration(u) ==
  /\ user[u] # "out"
  /\ SetState(FALSE)
  /\ WakeLoop
  /\ user' = [user EXCEPT ![u] = "in"]
  /\ UNCHANGED mutex

ReleaseResourceLock(u) ==
  /\ user[u] # "out"
  /\ mutex' = NoOne
  /\ user' = [user EXCEPT ![u] = "out"]
  /\ UNCHANGED <<state, loop>>

UserStep(u) ==
  /\ \/ AcquireResourceLock(u)
     \/ SeeOk(u)
     \/ RequestReconfiguration(u)
     \/ ReleaseResourceLock(u)
  /\ UNCHANGED <<settings, stopFlag, waitsFor, owner, resource, lateAttempts>>

----------------------------------------------------------------------------
Next == LoopStep \/ OwnerStep \/ \E u \in Users : UserStep(u)

(* The client's functions return and users give the lock back.  The mutex  *)
(* does not starve a thread: hence SF where several compete for it.        *)
Fairness ==
  /\ SF_vars(LoopStep /\ Progress)
  /\ WF_vars(LoopStep /\ Timeout)
  /\ SF_vars(OwnerStep /\ StopStep)
  /\ \A u \in Users : WF_vars(UserStep(u) /\ ReleaseResourceLock(u))

Safety == Init /\ [][Next]_vars
Spec == Safety /\ Fairness

----------------------------------------------------------------------------
(* Users and the loop keep out of each other's way: nobody holds the       *)
(* resource lock while the loop is inside one of the client's functions.   *)
LockExcludesLoop == loop \in InFunction => \A u \in Users : user[u] = "out"

(* ok() is an answer about the resource: it is true only while what        *)
(* configure() set up is still there.                                      *)
OkMeansConfigured == ok => resource = "configured"

(* configure() always starts from a clean resource, whatever the attempt   *)
(* before it left behind.                                                  *)
ConfigureOnClean == loop = "configure" => resource = "clean"

(* The loop never calls a null m_fnHeartbeat: the branch of a timeout is   *)
(* not entered without one, although it does not test for it.              *)
NoNullHeartbeat == loop \in {"confirm", "heartbeat"} => heartbeatSet

(* stop() may find the loop in the middle of an attempt; the loop begins   *)
(* one more attempt at the most before it sees stopFlag.                   *)
AtMostOneLateAttempt == lateAttempts <= 1

(* The owner, inside stop(), and the loop are never both inside a function *)
(* of the client: cleanup() need not be reentrant.                         *)
FunctionsExclusive ==
  owner \in {"resetting", "teardown"} => loop \notin InFunction

(* When stop() has returned everything is as it was before start(), so     *)
(* that start() can be called again and does not throw.                    *)
StoppedIsClean ==
  owner = "idle" /\ loop = "absent" => ~ok /\ resource = "clean"

(* The callback reports changes only: TRUE and FALSE alternate.            *)
NoRepeatedReport == ~repeated

(* mtautoconfiguration.h says of the resource lock: who holds it and has   *)
(* seen ok() works with a resource that stays configured, and that nobody  *)
(* is reconfiguring.                                                       *)
ResourceStable ==
  \A u \in Users :
    user[u] = "sure" => resource = "configured" /\ owner # "teardown"

(* stop() returns.                                                         *)
StopReturns == owner = "stopping" ~> owner = "idle"

(* The loop never settles for a resource that is not configured, because   *)
(* the attempts failed, a heartbeat failed or a user has asked for         *)
(* reconfiguration: it tries again, until ok() or stop().                  *)
Reconfigures ==
  ~ok /\ loop \notin {"absent", "done"}
    ~> loop = "configure" \/ ok \/ stopFlag

(* A configured resource is sent a heartbeat.                              *)
HeartbeatsComeRound ==
  ok /\ heartbeatSet /\ loop = "asleep"
    ~> loop = "heartbeat" \/ ~ok \/ stopFlag
============================================================================
