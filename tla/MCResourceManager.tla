-------------------------- MODULE MCResourceManager --------------------------
(* Two threads, a component and the host, two flows, and three buffers: a   *)
(* pooled one and two fallbacks for a table that grows from one slot to two.*)
EXTENDS ResourceManager, TLC

CONSTANTS t1, t2, c1, f1, f2, b1, b2, b3

Threads    == {t1, t2}
Components == {c1}
Flows      == {f1, f2}
PooledOnes == {b1}
SystemOnes == {b2, b3}
Symmetry   == Permutations(Threads)
              \cup Permutations(Flows) \cup Permutations(SystemOnes)
=============================================================================
