----------------------------- MODULE MCLockFree -----------------------------
(* The two structures that threads share without a lock, each on its own:  *)
(* a tier of the buffer pool with three threads and three slots, and the   *)
(* collector with two recorders, durations in, on and beyond the           *)
(* boundaries, and a buffer of two spans.                                  *)
EXTENDS TierPool, Collector

CONSTANTS t1, t2, t3, r1, r2

VARIABLE subject   \* which of the two runs

Threads3   == {t1, t2, t3}
Recorders  == {r1, r2}
Boundaries == <<2, 6>>
Symmetry   == Permutations(Threads3) \cup Permutations(Recorders)

InitEither ==
  /\ subject \in {"tier", "collector"}
  /\ Init /\ CollectInit
  /\ subject = "tier" => level = "Off" /\ ~sampled

NextEither ==
  \/ subject = "tier" /\ Next /\ UNCHANGED <<subject, collectVars>>
  \/ subject = "collector" /\ CollectNext /\ UNCHANGED <<subject, vars>>

SpecEither == InitEither /\ [][NextEither]_<<subject, vars, collectVars>>
=============================================================================
