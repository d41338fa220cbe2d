--------------------------- MODULE ThreadSafeData ---------------------------
(***************************************************************************)
(* le::ThreadSafeData: data that set() and get() copy under the mutex, in  *)
(* two steps (a first and a second half), and that the move constructor    *)
(* takes out of another object without that object's mutex: it locks the   *)
(* mutex of the object it constructs.  ThreadSafeQueue moves the same way. *)
(***************************************************************************)
CONSTANTS
  DataUsers, DataValues, NoData,
  CarefulMove   (* nobody else uses the object while it is moved from      *)

ASSUME DataAssumption == NoData \notin DataUsers /\ CarefulMove \in BOOLEAN

VARIABLES
  data,        (* data: its two halves                                     *)
  dataMutex,   (* the user that holds mutex, or NoData                     *)
  dataPlace,   (* outside, or inside set, get or the move constructor      *)
  copied       (* what each user has read, or is writing                   *)

dataVars == <<data, dataMutex, dataPlace, copied>>
Halves == DataValues \cup {NoData}

DataTypeOK ==
  /\ data \in Halves \X Halves
  /\ dataMutex \in DataUsers \cup {NoData}
  /\ dataPlace \in [DataUsers -> {"outside", "set", "setting", "get",
                                  "getting", "moving"}]
  /\ copied \in [DataUsers -> Halves \X Halves]

DataInit ==
  /\ data = <<NoData, NoData>> /\ dataMutex = NoData
  /\ dataPlace = [u \in DataUsers |-> "outside"]
  /\ copied = [u \in DataUsers |-> <<NoData, NoData>>]

At(u, from, to) ==
  /\ dataPlace[u] = from
  /\ dataPlace' = [dataPlace EXCEPT ![u] = to]

Enter(u, call) ==
  /\ At(u, "outside", call)
  /\ dataMutex = NoData /\ dataMutex' = u
  /\ UNCHANGED data

CallSet(u) ==
  /\ Enter(u, "set")
  /\ \E v \in DataValues : copied' = [copied EXCEPT ![u] = <<v, v>>]

SetFirstHalf(u) ==
  /\ At(u, "set", "setting")
  /\ data' = <<copied[u][1], data[2]>>
  /\ UNCHANGED <<dataMutex, copied>>

SetSecondHalf(u) ==
  /\ At(u, "setting", "outside")
  /\ data' = <<data[1], copied[u][2]>>
  /\ dataMutex' = NoData
  /\ UNCHANGED copied

CallGet(u) == Enter(u, "get") /\ UNCHANGED copied

ReadFirstHalf(u, from, to) ==
  /\ At(u, from, to)
  /\ copied' = [copied EXCEPT ![u] = <<data[1], NoData>>]
ReadSecondHalf(u, from) ==
  /\ At(u, from, "outside")
  /\ copied' = [copied EXCEPT ![u] = <<@[1], data[2]>>]

Get(u) ==
  \/ ReadFirstHalf(u, "get", "getting") /\ UNCHANGED <<data, dataMutex>>
  \/ /\ ReadSecondHalf(u, "getting")
     /\ dataMutex' = NoData
     /\ UNCHANGED data

(* ThreadSafeData(ThreadSafeData&&): the new object is u's; what it has    *)
(* taken is gone from the old one.                                         *)
Move(u) ==
  \/ /\ CarefulMove => \A w \in DataUsers : dataPlace[w] = "outside"
     /\ ReadFirstHalf(u, "outside", "moving")
     /\ data' = <<NoData, data[2]>>
     /\ UNCHANGED dataMutex
  \/ /\ ReadSecondHalf(u, "moving")
     /\ data' = <<data[1], NoData>>
     /\ UNCHANGED dataMutex

NobodyMoves(u) ==
  CarefulMove => \A w \in DataUsers \ {u} : dataPlace[w] # "moving"

DataNext ==
  \E u \in DataUsers :
    \/ NobodyMoves(u) /\ (CallSet(u) \/ CallGet(u))
    \/ SetFirstHalf(u) \/ SetSecondHalf(u) \/ Get(u) \/ Move(u)

DataSpec == DataInit /\ [][DataNext]_dataVars

(* "can be written and read from in multiple threads": what a call copies  *)
(* is a whole value.                                                       *)
CopiesAreWhole ==
  \A u \in DataUsers : dataPlace[u] = "outside" => copied[u][1] = copied[u][2]
=============================================================================
