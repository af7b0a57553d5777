----------------------------- MODULE OutputLog -----------------------------
(***************************************************************************)
(* What the SDK promises to the reader of an output that the agent         *)
(* numbers 1, 2, 3...: each event at most once and in the agent's order.   *)
(* A gapless output (a code execution) also misses none: it ends           *)
(* "complete" only when its reader saw every event.  StreamHandle, with    *)
(* its cuts and resubscriptions, implements this module.                   *)
(***************************************************************************)
EXTENDS Naturals, Sequences

VARIABLES emitted,    \* number of events the agent produced
          seen,       \* the events the reader was given, in order
          result,     \* "none", "complete", "failed", "left"
          gapless     \* the output is one that may not miss an event

logVars == <<emitted, seen, result, gapless>>

\* The last event the reader has, 0 when it has none.
LastOf(s) == IF s = <<>> THEN 0 ELSE s[Len(s)]

LogInit == emitted = 0 /\ seen = <<>> /\ result = "none" /\ gapless \in BOOLEAN

Produce == emitted' = emitted + 1 /\ UNCHANGED <<seen, result, gapless>>

Read == /\ result = "none"
        /\ \E n \in LastOf(seen) + 1 .. emitted :
             /\ gapless => n = LastOf(seen) + 1
             /\ seen' = Append(seen, n)
        /\ UNCHANGED <<emitted, result, gapless>>

Finish == /\ result = "none"
          /\ result' \in {"complete", "failed", "left"}
          /\ result' = "complete" /\ gapless => Len(seen) = emitted
          /\ UNCHANGED <<emitted, seen, gapless>>

LogSpec == LogInit /\ [][Produce \/ Read \/ Finish]_logVars
=============================================================================
