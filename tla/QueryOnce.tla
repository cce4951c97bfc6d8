----------------------------- MODULE QueryOnce -----------------------------
(***************************************************************************)
(* What the addon promises to main: of all the requests that pass through  *)
(* the proxy at most one starts a query; the result only grows while that  *)
(* query runs; it is handed over once, and after that nobody touches it.   *)
(* main.go relies on exactly this when it copies addon.HistoryVersions     *)
(* without a lock after receiving from the done channel.                   *)
(***************************************************************************)
EXTENDS Sequences

CONSTANT Versions     \* the version identifiers a result may hold

VARIABLES phase,      \* "waiting", "querying" or "delivered"
          result      \* the versions found so far

vars == <<phase, result>>

Init == phase = "waiting" /\ result = <<>>

Begin == phase = "waiting" /\ phase' = "querying" /\ UNCHANGED result

Find(v) == /\ phase = "querying"
           /\ result' = Append(result, v)
           /\ UNCHANGED phase

Deliver == phase = "querying" /\ phase' = "delivered" /\ UNCHANGED result

Next == Begin \/ Deliver \/ \E v \in Versions : Find(v)

Spec == Init /\ [][Next]_vars
=============================================================================
