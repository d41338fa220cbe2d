--------------------------- MODULE ThreadInterval ---------------------------
(***************************************************************************)
(* le::ThreadInterval: a thread that sleeps for the interval, tests        *)
(* running and calls the callback, until the destructor resets running and *)
(* joins it.                                                               *)
(***************************************************************************)
EXTENDS Naturals

VARIABLES
  running,    (* running                                                   *)
  thread,     (* run(): asleep, testing, calling (the test passed), in the *)
              (* callback, or done                                         *)
  client,     (* the thread that owns the object: using it, joining in the *)
              (* destructor, or done with it                               *)
  lateTicks   (* callbacks that began after running was reset              *)

intervalVars == <<running, thread, client, lateTicks>>

IntervalTypeOK ==
  /\ running \in BOOLEAN /\ lateTicks \in Nat
  /\ thread \in {"asleep", "testing", "calling", "inside", "done"}
  /\ client \in {"using", "joining", "gone"}

IntervalInit ==
  /\ running = TRUE /\ thread = "asleep"
  /\ client = "using" /\ lateTicks = 0

Runs(from, to) == thread = from /\ thread' = to

WakeUp ==
  /\ Runs("asleep", "testing")
  /\ UNCHANGED <<running, client, lateTicks>>

(* Variant: running is not looked at after the sleep.                      *)
TestNothing ==
  /\ Runs("testing", "calling")
  /\ UNCHANGED <<running, client, lateTicks>>
TestRunning ==
  /\ Runs("testing", IF running THEN "calling" ELSE "done")
  /\ UNCHANGED <<running, client, lateTicks>>

CallCallback ==
  /\ Runs("calling", "inside")
  /\ lateTicks' = lateTicks + IF running THEN 0 ELSE 1
  /\ UNCHANGED <<running, client>>

CallbackReturns ==
  /\ Runs("inside", "asleep")
  /\ UNCHANGED <<running, client, lateTicks>>

Tick == WakeUp \/ TestRunning \/ CallCallback \/ CallbackReturns

BeginDestructor ==
  /\ client = "using" /\ client' = "joining"
  /\ running' = FALSE
  /\ UNCHANGED <<thread, lateTicks>>

JoinTicker ==
  /\ client = "joining" /\ thread = "done" /\ client' = "gone"
  /\ UNCHANGED <<running, thread, lateTicks>>

IntervalNext == Tick \/ BeginDestructor \/ JoinTicker

(* The sleep ends and the callback returns; the joining thread runs.       *)
IntervalFairness ==
  WF_intervalVars(Tick) /\ WF_intervalVars(JoinTicker)
IntervalSpec == IntervalInit /\ [][IntervalNext]_intervalVars /\ IntervalFairness

(* At most one callback begins after the destructor has reset running, and *)
(* none after the destructor has returned.                                 *)
OneLateTick ==
  /\ lateTicks <= 1
  /\ client = "gone" => thread = "done"

(* The destructor returns, at the latest after one more interval.          *)
DestructorReturns == client = "joining" ~> client = "gone"
=============================================================================
