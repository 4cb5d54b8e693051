------------------------------- MODULE EventLog -------------------------------
(***************************************************************************)
(* What the event buffer of a traced thread promises: a first-in first-out *)
(* log.  Every event recorded is handed to the monitor exactly once and in *)
(* order, unless CLEAR_BUFFER is wiping the buffer out at that moment.     *)
(***************************************************************************)
EXTENDS Integers, Sequences

VARIABLES
  log,       \* the events recorded
  next,      \* the number of the next event to hand over
  out,       \* the events handed over
  clearing   \* is a reset in progress?

vars == <<log, next, out, clearing>>

Init == log = << >> /\ next = 1 /\ out = << >> /\ clearing = FALSE

Record ==
  /\ Len(log') = Len(log) + 1
  /\ \A i \in 1 .. Len(log) : log'[i] = log[i]
  /\ log'[Len(log')].id = Len(log')
  /\ UNCHANGED <<next, out, clearing>>

Deliver ==
  /\ next <= Len(log)
  /\ out' = Append(out, log[next])
  /\ next' = next + 1
  /\ UNCHANGED <<log, clearing>>

Reset ==
  /\ ~clearing
  /\ clearing' = TRUE
  /\ UNCHANGED <<log, next, out>>

(* A reset may discard what has not been handed over, nothing else may.    *)
Discard ==
  /\ clearing
  /\ next' \in next .. Len(log) + 1
  /\ clearing' \in BOOLEAN
  /\ UNCHANGED <<log, out>>

Next == Record \/ Deliver \/ Reset \/ Discard

Spec == Init /\ [][Next]_vars
==============================================================================
