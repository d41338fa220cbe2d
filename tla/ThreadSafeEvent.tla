-------------------------- MODULE ThreadSafeEvent --------------------------
(***************************************************************************)
(* le::ThreadSafeEvent: a promise that is set once, and a future that any  *)
(* thread waits for, with or without a time-out.                           *)
(***************************************************************************)
CONSTANT EventUsers

VARIABLES
  signaled,    (* the promise has its value                                *)
  eventPlace   (* idle, in wait, in wait_for, or what the call returned    *)

eventVars == <<signaled, eventPlace>>
CallEnds == {"released", "expired", "set", "threw"}

EventTypeOK ==
  /\ signaled \in BOOLEAN
  /\ eventPlace \in [EventUsers -> {"idle", "waiting", "timed"} \cup CallEnds]

EventInit ==
  /\ signaled = FALSE
  /\ eventPlace = [u \in EventUsers |-> "idle"]

Turns(u, from, to) ==
  /\ eventPlace[u] \in from
  /\ eventPlace' = [eventPlace EXCEPT ![u] = to]

(* set_value() throws where the promise has its value.                     *)
SetEvent(u) ==
  /\ Turns(u, {"idle"}, IF signaled THEN "threw" ELSE "set")
  /\ signaled' = TRUE

CallWaitEvent(u) == Turns(u, {"idle"}, "waiting") /\ UNCHANGED signaled
CallWaitForEvent(u) == Turns(u, {"idle"}, "timed") /\ UNCHANGED signaled

(* Variant: only the waits without a time-out are woken.                   *)
ReleaseUntimed(u) ==
  /\ signaled
  /\ Turns(u, {"waiting"}, "released") /\ UNCHANGED signaled
Release(u) ==
  /\ signaled
  /\ Turns(u, {"waiting", "timed"}, "released") /\ UNCHANGED signaled

(* A wait_for that finds the event signaled at its deadline returns true.  *)
Expire(u) ==
  /\ ~signaled
  /\ Turns(u, {"timed"}, "expired") /\ UNCHANGED signaled

EventNext ==
  \E u \in EventUsers :
    \/ SetEvent(u) \/ CallWaitEvent(u) \/ CallWaitForEvent(u)
    \/ Release(u) \/ Expire(u)

EventFairness == \A u \in EventUsers : WF_eventVars(Release(u))
EventSpec == EventInit /\ [][EventNext]_eventVars /\ EventFairness

(* Every wait that the event finds waiting returns.                        *)
WaitersReleased ==
  \A u \in EventUsers :
    signaled /\ eventPlace[u] \in {"waiting", "timed"}
      ~> eventPlace[u] = "released"
=============================================================================
