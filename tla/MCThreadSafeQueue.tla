------------------------- MODULE MCThreadSafeQueue -------------------------
(* ThreadSafeQueue with three callers: enough for a sleeper, a notifier    *)
(* and a thread that steals the element between the two.                   *)
EXTENDS ThreadSafeQueue

CONSTANTS t1, t2, t3, a, b

MCThreads == {t1, t2, t3}
MCItems == {a, b}
============================================================================
