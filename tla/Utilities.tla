----------------------------- MODULE Utilities -----------------------------
(***************************************************************************)
(* The library's small components, which share no state.  A behaviour is a *)
(* behaviour of one of them, the subject; the others rest in their initial *)
(* state.                                                                  *)
(***************************************************************************)
EXTENDS DebugMutex, ThreadInterval, SpeedMonitor, ThreadSafeEvent,
        ThreadSafeData, Files

VARIABLE subject

vars == <<subject, mutexVars, intervalVars, monitorVars, eventVars, dataVars,
          fileVars>>

Subjects == {"mutex", "interval", "monitor", "event", "data", "files"}

Init ==
  /\ subject \in Subjects
  /\ MutexInit /\ IntervalInit /\ MonitorInit /\ EventInit /\ DataInit
  /\ FilesInit

Only(name, all) == subject = name /\ UNCHANGED <<subject, all>>
MutexTurn ==
  Only("mutex", <<intervalVars, monitorVars, eventVars, dataVars, fileVars>>)
IntervalTurn ==
  Only("interval", <<mutexVars, monitorVars, eventVars, dataVars, fileVars>>)
MonitorTurn ==
  Only("monitor", <<mutexVars, intervalVars, eventVars, dataVars, fileVars>>)
EventTurn ==
  Only("event", <<mutexVars, intervalVars, monitorVars, dataVars, fileVars>>)
DataTurn ==
  Only("data", <<mutexVars, intervalVars, monitorVars, eventVars, fileVars>>)
FilesTurn ==
  Only("files", <<mutexVars, intervalVars, monitorVars, eventVars, dataVars>>)

Next ==
  \/ MutexNext /\ MutexTurn
  \/ IntervalNext /\ IntervalTurn
  \/ MonitorNext /\ MonitorTurn
  \/ EventNext /\ EventTurn
  \/ DataNext /\ DataTurn
  \/ FilesNext /\ FilesTurn

(* The fairness that each component states of itself.                      *)
Spec ==
  /\ Init /\ [][Next]_vars
  /\ WF_vars(Tick /\ IntervalTurn) /\ WF_vars(JoinTicker /\ IntervalTurn)
  /\ WF_vars(MonitorStep /\ MonitorTurn) /\ WF_vars(JoinMonitor /\ MonitorTurn)
  /\ \A u \in EventUsers : WF_vars(Release(u) /\ EventTurn)

----------------------------------------------------------------------------
TypeOK ==
  /\ subject \in Subjects
  /\ MutexTypeOK /\ IntervalTypeOK /\ MonitorTypeOK /\ EventTypeOK /\ DataTypeOK
  /\ FilesTypeOK

(* Callbacks are true to their object: a callback of ThreadInterval or     *)
(* SpeedMonitor comes at most once after the destructor has reset running  *)
(* and never after it has returned, and who counts the edges SpeedMonitor  *)
(* reports knows on which side of the threshold the speed is.              *)
CallbacksAreTrue == OneLateTick /\ OneLateEdge /\ ReportsFollowSpeed

(* What is waited for comes: the destructors return, a waiter that the     *)
(* event finds waiting is released, a speed that has come to rest is       *)
(* reported.                                                               *)
WaitsEnd == DestructorReturns /\ WaitersReleased /\ RestIsReported
=============================================================================
