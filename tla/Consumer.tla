------------------------------ MODULE Consumer ------------------------------
(***************************************************************************)
(* le::Consumer: producers push data into m_queue; a thread takes it out,  *)
(* one by one, and hands it to a worker, outside the mutex.  The owner     *)
(* configures the worker and starts the thread, stops the thread and       *)
(* cleans the worker up, and destroys the consumer.                        *)
(*                                                                         *)
(* The n-th call of push() pushes the ticket n, so that order, loss and    *)
(* duplication can be read off the tickets.  A critical section that       *)
(* neither blocks nor calls out is one action.  The worker is the client's *)
(* and external.                                                           *)
(***************************************************************************)
EXTENDS Naturals, Sequences

CONSTANTS
  Producers,   (* the threads that push                                    *)
  MaxPushes    (* bound of the model: calls of push()                      *)

VARIABLES
  queue,       (* m_queue                                                  *)
  stopFlag,    (* m_stopFlag                                               *)
  thread,      (* where m_thread is in loop(); "none": it is not joinable  *)
  hand,        (* the data taken from the queue and not yet processed      *)
  processed,   (* what the worker has processed, in order                  *)
  pushed,      (* number of calls of push()                                *)
  producer,    (* producer[p]: "notify" between the queue and notify_one() *)
  owner,       (* where the owner is in configure(), cleanup(), ~Consumer  *)
  destroying,  (* the owner is in ~Consumer                                *)
  worker       (* what the worker's configure() and cleanup() left behind  *)

data == <<queue, hand, processed, pushed>>
vars == <<data, stopFlag, thread, producer, owner, destroying, worker>>

StopPlaces == {"stop", "notify", "join"}

TypeOK ==
  /\ queue \in Seq(1..pushed) /\ hand \in Seq(1..pushed)
  /\ processed \in Seq(1..pushed) /\ pushed \in Nat
  /\ stopFlag \in BOOLEAN /\ destroying \in BOOLEAN
  /\ thread \in {"none", "check", "asleep", "process", "done"}
  /\ producer \in [Producers -> {"idle", "notify"}]
  /\ owner \in StopPlaces \cup {"idle", "teardown", "gone"}
  /\ worker \in {"clean", "failed", "configured"}

Init ==
  /\ queue = <<>> /\ hand = <<>> /\ processed = <<>> /\ pushed = 0
  /\ stopFlag = FALSE /\ destroying = FALSE
  /\ thread = "none"
  /\ producer = [p \in Producers |-> "idle"]
  /\ owner = "idle"
  /\ worker = "clean"

----------------------------------------------------------------------------
(* notify_one(): m_thread is the only thread that waits on m_cv.           *)
(* Variant: no notification.                                               *)
WakeNobody == UNCHANGED thread
WakeThread == thread' = IF thread = "asleep" THEN "check" ELSE thread

(* Nobody pushes into a consumer that is being destroyed.                  *)
Push(p) ==
  /\ producer[p] = "idle" /\ ~destroying /\ pushed < MaxPushes
  /\ queue' = Append(queue, pushed + 1)
  /\ pushed' = pushed + 1
  /\ producer' = [producer EXCEPT ![p] = "notify"]
  /\ UNCHANGED <<hand, processed, stopFlag, thread, owner, destroying, worker>>

Notify(p) ==
  /\ producer[p] = "notify"
  /\ WakeThread
  /\ producer' = [producer EXCEPT ![p] = "idle"]
  /\ UNCHANGED <<data, stopFlag, owner, destroying, worker>>

----------------------------------------------------------------------------
(* The thread.  Check: the predicate under the mutex, after the lock or a  *)
(* wake-up, and what follows while the mutex is held.                      *)
(* Variant of Sleep: a wait without a predicate.                           *)
SleepBlindly ==
  /\ ~stopFlag
  /\ thread' = "asleep"
  /\ UNCHANGED data

Sleep ==
  /\ queue = <<>> /\ ~stopFlag
  /\ thread' = "asleep"
  /\ UNCHANGED data

Discard ==
  /\ stopFlag
  /\ thread' = "done"
  /\ queue' = <<>>
  /\ UNCHANGED <<hand, processed, pushed>>

(* Variants of Take: pop() without front(), and front() without pop().     *)
TakeUnread ==
  /\ queue # <<>> /\ ~stopFlag
  /\ thread' = "process"
  /\ hand' = <<0>>
  /\ queue' = Tail(queue)
  /\ UNCHANGED <<processed, pushed>>

TakeACopy ==
  /\ queue # <<>> /\ ~stopFlag
  /\ thread' = "process"
  /\ hand' = <<Head(queue)>>
  /\ UNCHANGED <<queue, processed, pushed>>

Take ==
  /\ queue # <<>> /\ ~stopFlag
  /\ thread' = "process"
  /\ hand' = <<Head(queue)>>
  /\ queue' = Tail(queue)
  /\ UNCHANGED <<processed, pushed>>

Check ==
  /\ thread = "check"
  /\ Sleep \/ Discard \/ Take
  /\ UNCHANGED <<stopFlag, producer, owner, destroying, worker>>

(* process() and the data-out callback have returned.                      *)
ProcessReturns ==
  /\ thread = "process"
  /\ thread' = "check"
  /\ processed' = processed \o hand
  /\ hand' = <<>>
  /\ UNCHANGED <<queue, pushed, stopFlag, producer, owner, destroying, worker>>

SpuriousWakeup ==
  /\ thread = "asleep"
  /\ thread' = "check"
  /\ UNCHANGED <<data, stopFlag, producer, owner, destroying, worker>>

----------------------------------------------------------------------------
(* The owner.  configure() throws while the thread is joinable; otherwise  *)
(* the worker's configure() has returned b.  Variant: start() empties the  *)
(* queue.                                                                  *)
ConfigureAfresh(b) ==
  /\ owner = "idle" /\ thread = "none"
  /\ worker' = IF b THEN "configured" ELSE "failed"
  /\ thread' = IF b THEN "check" ELSE "none"
  /\ queue' = <<>>
  /\ UNCHANGED <<hand, processed, pushed, stopFlag, producer, owner, destroying>>

Configure(b) ==
  /\ owner = "idle" /\ thread = "none"
  /\ worker' = IF b THEN "configured" ELSE "failed"
  /\ thread' = IF b THEN "check" ELSE "none"
  /\ UNCHANGED <<data, stopFlag, producer, owner, destroying>>

Cleanup ==
  /\ owner = "idle"
  /\ owner' = IF thread = "none" THEN "teardown" ELSE "stop"
  /\ UNCHANGED <<data, stopFlag, thread, producer, destroying, worker>>

Destroy ==
  /\ owner = "idle" /\ \A p \in Producers : producer[p] = "idle"
  /\ destroying' = TRUE
  /\ owner' = IF thread = "none" THEN "gone" ELSE "stop"
  /\ UNCHANGED <<data, stopFlag, thread, producer, worker>>

(* The end of stop(): cleanup() goes on, the destructor is done.           *)
AfterStop == IF destroying THEN "gone" ELSE "teardown"

RaiseStopFlag ==
  /\ owner = "stop"
  /\ stopFlag' = TRUE
  /\ owner' = "notify"
  /\ UNCHANGED <<data, thread, producer, destroying, worker>>

NotifyStop ==
  /\ owner = "notify"
  /\ WakeThread
  /\ owner' = "join"
  /\ UNCHANGED <<data, stopFlag, producer, destroying, worker>>

(* Variant: detach() instead of join().                                    *)
Detach ==
  /\ owner = "join"
  /\ owner' = AfterStop
  /\ UNCHANGED <<data, stopFlag, thread, producer, destroying, worker>>

Join ==
  /\ owner = "join" /\ thread = "done"
  /\ thread' = "none"
  /\ owner' = AfterStop
  /\ UNCHANGED <<data, stopFlag, producer, destroying, worker>>

TeardownReturns ==
  /\ owner = "teardown"
  /\ worker' = "clean"
  /\ owner' = "idle"
  /\ UNCHANGED <<data, stopFlag, thread, producer, destroying>>

StopStep == RaiseStopFlag \/ NotifyStop \/ Join \/ TeardownReturns

Next ==
  \/ \E p \in Producers : Push(p) \/ Notify(p)
  \/ Check
  \/ ProcessReturns
  \/ SpuriousWakeup
  \/ \E b \in BOOLEAN : Configure(b)
  \/ Cleanup
  \/ Destroy
  \/ StopStep

(* Whoever is inside an operation runs on; process() returns.              *)
Fairness ==
  /\ \A p \in Producers : WF_vars(Notify(p))
  /\ WF_vars(Check \/ ProcessReturns)
  /\ WF_vars(StopStep)

Safety == Init /\ [][Next]_vars
Spec == Safety /\ Fairness

----------------------------------------------------------------------------
(* Everything pushed and not discarded, in the order of processing.        *)
Line == processed \o hand \o queue

(* The worker gets the data in the order of the pushes, and nothing twice, *)
(* whatever stops and starts come between.                                 *)
EachOnceInOrder == \A i, j \in 1..Len(Line) : i < j => Line[i] < Line[j]

(* Until the consumer is stopped for the first time nothing is lost, data  *)
(* pushed before configure() included.                                     *)
NothingLost == ~stopFlag => Line = [i \in 1..pushed |-> i]

(* The thread never sleeps beside data, or beside the stop flag, unless    *)
(* somebody has still to notify it.                                        *)
NoLostWakeup ==
  thread = "asleep" =>
    /\ queue # <<>> => \E p \in Producers : producer[p] = "notify"
    /\ stopFlag => owner = "notify"

(* The thread runs only with a configured worker, and never while the      *)
(* worker is being cleaned up or the consumer is gone.                     *)
WorkerReady ==
  thread # "none" =>
    worker = "configured" /\ owner \notin {"teardown", "gone"}

(* Data in the queue of a running consumer is processed, or the consumer   *)
(* is stopped.                                                             *)
DataIsProcessed ==
  \A n \in 1..MaxPushes :
    (\E i \in 1..Len(queue) : queue[i] = n) /\ thread # "none"
      ~> (\E i \in 1..Len(processed) : processed[i] = n) \/ stopFlag

(* cleanup() and ~Consumer return.                                         *)
StopReturns == owner = "stop" ~> owner \in {"idle", "gone"}

(* The warning of loop() says that the consumer was stopped when there     *)
(* were still items in the queue: data is discarded in a call of stop().   *)
DiscardsOnlyWhenStopped ==
  [][queue # <<>> /\ queue' = <<>> /\ hand' = hand
       => owner \in {"notify", "join"}]_vars
=============================================================================
