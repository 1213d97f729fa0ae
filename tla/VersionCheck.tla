---------------------------- MODULE VersionCheck ----------------------------
(***************************************************************************)
(* The comparison of two versions of a contract as a whole: what           *)
(* check_compatibility (module Compatibility) says of them, against what   *)
(* the clients of either version may rely on.                              *)
(***************************************************************************)
EXTENDS Compatibility

CONSTANT Version   \* the packages that are compared

ASSUME VersionAssumption == \A p \in Version : WellFormed(p)

VARIABLES
  versions,    \* the old and the new one, none before
  finding      \* the result of check_compatibility

comparison == <<versions, finding>>

CompareInit == versions = <<>> /\ finding = "None"

CompareVersions(old, new) ==
  /\ versions = <<>>
  /\ versions' = <<old, new>>
  /\ finding' = CheckCompatibility(old, new)

CompareNext == \E old, new \in Version : CompareVersions(old, new)

CompareSpec == CompareInit /\ [][CompareNext]_comparison
-----------------------------------------------------------------------------
WithoutResources(p) ==
  [worlds     |-> p.worlds,
   interfaces |-> [i \in DOMAIN p.interfaces |->
     [functions |-> p.interfaces[i].functions,
      types     |-> [t \in {u \in DOMAIN p.interfaces[i].types :
                              p.interfaces[i].types[u].kind # "resource"} |->
                       p.interfaces[i].types[t]]]]]

(* A version that is judged Breaking leaves some client of the old one     *)
(* unserved.  The converse holds of what is looked at, everything but the  *)
(* labels of flags and the targets of aliases: there the verdict is        *)
(* Breaking exactly when the new version does not fit every client of the  *)
(* old one, and Compatible when, resources apart, the old one also fits    *)
(* every client of the new.                                                *)
CompatibilityExact ==
  versions # <<>> =>
    LET old == versions[1]  new == versions[2]
    IN  /\ finding = "Breaking" => ~Serves(new, old)
        /\ finding = IF ~Fits(new, old) THEN "Breaking"
                     ELSE IF Fits(old, WithoutResources(new)) THEN "Compatible"
                     ELSE "CompatibleWithAdditions"

(* A changed type is Breaking (compatibility.rs:65): a version with any    *)
(* other verdict serves every client of the old one, also those that use   *)
(* its flags and its aliases.                                              *)
ChangedTypeBreaks ==
  versions # <<>> /\ finding # "Breaking" => Serves(versions[2], versions[1])
=============================================================================
