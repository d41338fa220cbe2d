---------------------------- MODULE SpeedMonitor ----------------------------
(***************************************************************************)
(* le::SpeedMonitor: a thread that polls a value, smooths its speed and    *)
(* reports when the speed rises to the threshold or falls below it.        *)
(*                                                                         *)
(* A speed is a fixed-point number, in quarters of a unit per poll; the    *)
(* smoothing factor is one half.  As in IEEE arithmetic a speed may also   *)
(* be infinite or not a number: two readings of the clock may be equal     *)
(* where the interval is zero (0 \in Elapsed).                             *)
(***************************************************************************)
EXTENDS Integers

CONSTANTS
  Samples,         (* the values setValue() is given                       *)
  SpeedThreshold,  (* speedThreshold, in quarters                          *)
  Elapsed          (* the differences of two readings of the clock         *)

ASSUME MonitorAssumption == Samples \subseteq Int /\ Elapsed \subseteq Int

VARIABLES
  sharedValue, monitoring,   (* sharedValue, running                       *)
  monitor,       (* run(): starting, testing, asleep, in a callback, done  *)
  lastValue, speed,          (* lastValue, speed                           *)
  monitorClient, (* using the object, joining in the destructor, gone      *)
  lastEdge,      (* the last callback: none, rising or falling             *)
  lateEdges      (* the callbacks that began after running was reset       *)

polled == <<lastValue, speed, lastEdge, lateEdges>>
monitorVars == <<sharedValue, monitoring, monitor, polled, monitorClient>>

Number(v) == [kind |-> "number", v |-> v]
Special(kind) == [kind |-> kind, v |-> 0]

MonitorTypeOK ==
  /\ sharedValue \in Samples \cup {0} /\ lastValue \in Samples \cup {0}
  /\ monitoring \in BOOLEAN /\ lateEdges \in Nat
  /\ monitor \in {"starting", "testing", "asleep", "inside", "done"}
  /\ speed.kind \in {"number", "infinite", "minus infinite", "nan"}
  /\ speed.v \in Int /\ (speed.kind # "number" => speed.v = 0)
  /\ monitorClient \in {"using", "joining", "gone"}
  /\ lastEdge \in {"none", "rising", "falling"}

MonitorInit ==
  /\ sharedValue = 0 /\ lastValue = 0
  /\ monitoring = TRUE /\ monitor = "starting"
  /\ speed = Number(0) /\ lastEdge = "none" /\ lateEdges = 0
  /\ monitorClient = "using"

RawSpeed(delta, dt) ==
  IF dt > 0 THEN Number((4 * delta) \div dt)
  ELSE IF delta = 0 THEN Special("nan")
  ELSE Special(IF delta > 0 THEN "infinite" ELSE "minus infinite")

(* Variant: a speed that is no number is averaged all the same.            *)
SmoothAnyway(raw, old) == [raw EXCEPT !.v = (@ + old.v) \div 2]
Smooth(raw, old) ==
  IF raw.kind = "number" /\ old.kind = "number"
  THEN Number((raw.v + old.v) \div 2)
  ELSE LET kinds == {raw.kind, old.kind} \ {"number"}
       IN IF kinds = {"infinite"} \/ kinds = {"minus infinite"}
          THEN CHOOSE s \in {raw, old} : s.kind # "number"
          ELSE Special("nan")

(* speed < speedThreshold: false of a speed that is not a number.          *)
Below(s) == \/ s.kind = "number" /\ s.v < SpeedThreshold
            \/ s.kind = "minus infinite"

(* A value that was set before the thread has started is where it starts.  *)
StartMonitoring ==
  /\ monitor = "starting" /\ monitor' = "testing"
  /\ lastValue' = sharedValue
  /\ UNCHANGED <<sharedValue, monitoring, speed, lastEdge, lateEdges,
                 monitorClient>>

TestMonitoring ==
  /\ monitor = "testing"
  /\ monitor' = IF monitoring THEN "asleep" ELSE "done"
  /\ UNCHANGED <<sharedValue, monitoring, polled, monitorClient>>

(* Variant: the speed before the poll is not looked at.                    *)
EdgeBlind(before, now) == IF Below(now) THEN "none" ELSE "rising"
Edge(before, now) ==
  IF Below(before) = Below(now) THEN "none"
  ELSE IF Below(now) THEN "falling" ELSE "rising"

Poll ==
  /\ monitor = "asleep"
  /\ \E dt \in Elapsed :
       LET now == Smooth(RawSpeed(sharedValue - lastValue, dt), speed)
           edge == Edge(speed, now)
       IN /\ speed' = now
          /\ monitor' = IF edge = "none" THEN "testing" ELSE "inside"
          /\ lastEdge' = IF edge = "none" THEN lastEdge ELSE edge
          /\ lateEdges' = lateEdges + IF edge = "none" \/ monitoring THEN 0 ELSE 1
  /\ lastValue' = sharedValue
  /\ UNCHANGED <<sharedValue, monitoring, monitorClient>>

EdgeReturns ==
  /\ monitor = "inside" /\ monitor' = "testing"
  /\ UNCHANGED <<sharedValue, monitoring, polled, monitorClient>>

MonitorStep == StartMonitoring \/ TestMonitoring \/ Poll \/ EdgeReturns

SetValue ==
  /\ monitorClient = "using"
  /\ sharedValue' \in Samples
  /\ UNCHANGED <<monitoring, monitor, polled, monitorClient>>

DestroyMonitor ==
  /\ monitorClient = "using" /\ monitorClient' = "joining"
  /\ monitoring' = FALSE
  /\ UNCHANGED <<sharedValue, monitor, polled>>

JoinMonitor ==
  /\ monitorClient = "joining" /\ monitor = "done" /\ monitorClient' = "gone"
  /\ UNCHANGED <<sharedValue, monitoring, monitor, polled>>

MonitorNext == MonitorStep \/ SetValue \/ DestroyMonitor \/ JoinMonitor

(* The sleep ends and the callbacks return; the joining thread runs.       *)
MonitorFairness ==
  WF_monitorVars(MonitorStep) /\ WF_monitorVars(JoinMonitor)
MonitorSpec == MonitorInit /\ [][MonitorNext]_monitorVars /\ MonitorFairness

(* At most one edge is reported after the destructor has reset running,    *)
(* and none after it has returned.                                         *)
OneLateEdge ==
  /\ lateEdges <= 1
  /\ monitorClient = "gone" => monitor = "done"

(* Who counts rising and falling edges knows the speed: the last report is *)
(* the side on which the speed is, except that a speed that starts below   *)
(* is not reported.                                                        *)
ReportsFollowSpeed ==
  lastEdge # "none" => (lastEdge = "falling" <=> Below(speed))

(* A value that has come to rest is reported: a positive threshold is      *)
(* crossed downwards in the end, as long as the clock has moved at each    *)
(* poll.                                                                   *)
RestIsReported ==
  SpeedThreshold > 0 /\ <>[][FALSE]_sharedValue =>
    []<>(lastEdge # "rising" \/ ~monitoring \/ speed.kind # "number")
=============================================================================
