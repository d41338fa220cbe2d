----------------------------- MODULE DebugMutex -----------------------------
(***************************************************************************)
(* le::DebugMutex: a mutex that knows its owner.  owner is an ordinary     *)
(* variable that lock() writes after it has the mutex and unlock() before  *)
(* it gives it up, and that any thread may read: a reader sees the old or  *)
(* the new value.                                                          *)
(***************************************************************************)
CONSTANTS Threads, NoThread

ASSUME NoThreadAssumption == NoThread \notin Threads

VARIABLES
  mtx,       (* the thread that holds mtx, or NoThread                     *)
  owner,     (* owner                                                      *)
  mutexPlace (* outside, locking (has mtx), inside, unlocking (owner reset) *)

mutexVars == <<mtx, owner, mutexPlace>>

MutexTypeOK ==
  /\ mtx \in Threads \cup {NoThread}
  /\ owner \in Threads \cup {NoThread}
  /\ mutexPlace \in [Threads -> {"outside", "locking", "inside", "unlocking"}]

MutexInit ==
  /\ mtx = NoThread /\ owner = NoThread
  /\ mutexPlace = [t \in Threads |-> "outside"]

Moves(t, from, to) ==
  /\ mutexPlace[t] = from
  /\ mutexPlace' = [mutexPlace EXCEPT ![t] = to]

Lock(t) ==
  /\ Moves(t, "outside", "locking") /\ mtx = NoThread
  /\ mtx' = t
  /\ UNCHANGED owner

SetOwner(t) ==
  /\ Moves(t, "locking", "inside")
  /\ owner' = t
  /\ UNCHANGED mtx

(* Variant: owner is not reset.                                            *)
KeepOwner(t) == Moves(t, "inside", "unlocking") /\ UNCHANGED <<mtx, owner>>
ResetOwner(t) ==
  /\ Moves(t, "inside", "unlocking")
  /\ owner' = NoThread
  /\ UNCHANGED mtx

Unlock(t) ==
  /\ Moves(t, "unlocking", "outside")
  /\ mtx' = NoThread
  /\ UNCHANGED owner

MutexNext ==
  \E t \in Threads : Lock(t) \/ SetOwner(t) \/ ResetOwner(t) \/ Unlock(t)

MutexSpec == MutexInit /\ [][MutexNext]_mutexVars

isLockedByCurrentThread(t) == owner = t

(* isLockedByCurrentThread() tells each thread whether it holds the mutex, *)
(* whatever the others do meanwhile, though it reads owner unlocked.       *)
OwnerIsRight ==
  \A t \in Threads : mutexPlace[t] \in {"outside", "inside"} =>
    (isLockedByCurrentThread(t) <=> mutexPlace[t] = "inside")
=============================================================================
