--------------------------- MODULE LinearOwnership ---------------------------
(***************************************************************************)
(* What the resource manager promises of a handle: it names one buffer     *)
(* from the allocation that issued it until the buffer leaves the table,   *)
(* and nothing ever after; while it lives it has exactly one owner, which  *)
(* changes only by a transfer.                                             *)
(***************************************************************************)
CONSTANTS
  Handle,      \* slot and generation
  Owner,       \* components and the host
  Unissued,    \* not an owner: the handle has not been issued
  Dead         \* not an owner: what the handle named is gone

VARIABLE holder   \* of each handle

Init == holder = [h \in Handle |-> Unissued]

Issue(h, o) ==
  /\ holder[h] = Unissued
  /\ holder' = [holder EXCEPT ![h] = o]

Pass(h, o) ==
  /\ holder[h] \in Owner
  /\ holder' = [holder EXCEPT ![h] = o]

(* A release ends one handle; a reclaim ends all handles of a component or *)
(* of a flow.                                                              *)
End(hs) ==
  /\ \A h \in hs : holder[h] \in Owner
  /\ holder' = [h \in Handle |-> IF h \in hs THEN Dead ELSE holder[h]]

Next ==
  \/ \E h \in Handle, o \in Owner : Issue(h, o) \/ Pass(h, o)
  \/ \E hs \in SUBSET Handle : End(hs)

Spec == Init /\ [][Next]_holder
=============================================================================
