---------------------------- MODULE MCBufferFlow ----------------------------
(* Two flows that share the manager: one of three stages, one of two.      *)
EXTENDS BufferFlow, TLC

CONSTANTS f0, f1, f2, c1, c2, c3, c4, c5, b1, b2

Tasks      == {f1, f2}
Flows      == {f0, f1, f2}
Components == {c1, c2, c3, c4, c5}
Buffers    == {b1, b2}
Stages     == f1 :> 3 @@ f2 :> 2

(* Ids that differ between flows.                                          *)
DistinctIds == f1 :> <<c1, c2, c3>> @@ f2 :> <<c4, c5>>

(* Ids as the pipeline assigns them: by position, in every flow.           *)
PositionalIds == f1 :> <<c1, c2, c3>> @@ f2 :> <<c1, c2>>

Symmetry == Permutations(Buffers)
=============================================================================
