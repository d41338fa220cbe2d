---------------------------- MODULE AtomicQueue ----------------------------
(***************************************************************************)
(* What ThreadSafeQueue promises to its callers: a first-in first-out      *)
(* queue whose operations take effect in one indivisible step.  A blocking *)
(* take (wait()) never returns without an element; a timed take            *)
(* (wait(timeout)) returns without one only at an instant at which the     *)
(* queue is empty; an element goes to one caller only.                     *)
(***************************************************************************)
EXTENDS Naturals, Sequences

CONSTANTS
  Threads,    (* the callers                                               *)
  Items,      (* the values that are queued                                *)
  Nothing,    (* std::nullopt                                              *)
  MaxLength   (* bound of the model: callers do not push onto a queue of   *)
              (* this length                                               *)

VARIABLES
  items,      (* the queued values, oldest first                           *)
  pending,    (* pending[t]: the blocking call t is inside, if any         *)
  got         (* got[t]: what the last take of t returned                  *)

absVars == <<items, pending, got>>

AbsInit ==
  /\ items = <<>>
  /\ pending = [t \in Threads |-> "none"]
  /\ got = [t \in Threads |-> Nothing]

Put(t, v) ==
  /\ pending[t] = "none"
  /\ Len(items) < MaxLength
  /\ items' = Append(items, v)
  /\ UNCHANGED <<pending, got>>

DropAll(t) ==
  /\ pending[t] = "none"
  /\ items' = <<>>
  /\ UNCHANGED <<pending, got>>

BeginTake(t) ==
  /\ pending[t] = "none"
  /\ pending' = [pending EXCEPT ![t] = "take"]
  /\ UNCHANGED <<items, got>>

BeginTimedTake(t) ==
  /\ pending[t] = "none"
  /\ pending' = [pending EXCEPT ![t] = "timedTake"]
  /\ UNCHANGED <<items, got>>

(* pop() takes at once: it needs no preceding Begin.                       *)
Take(t) ==
  /\ items # <<>>
  /\ items' = Tail(items)
  /\ got' = [got EXCEPT ![t] = Head(items)]
  /\ pending' = [pending EXCEPT ![t] = "none"]

TakeNothing(t) ==
  /\ pending[t] # "take"
  /\ items = <<>>
  /\ got' = [got EXCEPT ![t] = Nothing]
  /\ pending' = [pending EXCEPT ![t] = "none"]
  /\ UNCHANGED items

AbsNext ==
  \E t \in Threads :
    \/ \E v \in Items : Put(t, v)
    \/ DropAll(t)
    \/ BeginTake(t)
    \/ BeginTimedTake(t)
    \/ Take(t)
    \/ TakeNothing(t)

AbsSafety == AbsInit /\ [][AbsNext]_absVars

(* While elements are queued and somebody waits, some waiter is served;    *)
(* a timed take ends whatever the other callers do.                        *)
AbsFairness ==
  /\ WF_absVars(\E t \in Threads : pending[t] # "none" /\ Take(t))
  /\ \A t \in Threads :
       WF_absVars(pending[t] = "timedTake" /\ (Take(t) \/ TakeNothing(t)))

AbsSpec == AbsSafety /\ AbsFairness
============================================================================
