---------------------------- MODULE Compatibility ----------------------------
(***************************************************************************)
(* check_compatibility of torvyn-contracts: two versions of a WIT package  *)
(* are compared item by item, and every difference becomes a change with a *)
(* severity.  A package is                                                 *)
(*    [name, major, worlds, interfaces]                                    *)
(* where interfaces maps a name to [functions, types]; a function is       *)
(* [params, result], and a type [kind, members, target]: the fields of a   *)
(* record, the cases of a variant or enum, the labels of a flags type,     *)
(* each with its type or NoType, and what an alias stands for.             *)
(***************************************************************************)
EXTENDS Integers, Sequences

CONSTANTS
  Type,      \* the types a signature or a field may have
  NoType     \* no result, no payload, no alias

NoVersion == -1   \* the major version of an unversioned package

Kinds == {"record", "variant", "enum", "flags", "resource", "alias"}

(* What the WIT parser guarantees of a package.                            *)
WellFormed(p) ==
  /\ DOMAIN p = {"name", "major", "worlds", "interfaces"}
  /\ \A i \in DOMAIN p.interfaces :
       /\ \A f \in DOMAIN p.interfaces[i].functions :
            p.interfaces[i].functions[f] \in
              [params : Seq(Type), result : Type \cup {NoType}]
       /\ \A t \in DOMAIN p.interfaces[i].types :
            LET d == p.interfaces[i].types[t]
            IN  /\ d.kind \in Kinds
                /\ d.members \in [DOMAIN d.members -> Type \cup {NoType}]
                /\ d.kind \in {"enum", "flags"} =>
                     \A m \in DOMAIN d.members : d.members[m] = NoType

-----------------------------------------------------------------------------
(* The parser.  Resources are kept as names, the other types by their      *)
(* definitions; an alias is recorded as an alias of the type "unknown".    *)

ConvertTypeDef(d) == [kind    |-> d.kind,
                      members |-> IF d.kind = "alias" THEN <<>> ELSE d.members]

ConvertInterface(i) ==
  LET named == {t \in DOMAIN i.types : i.types[t].kind # "resource"}
  IN  [functions |-> i.functions,
       resources |-> DOMAIN i.types \ named,
       types     |-> [t \in named |-> ConvertTypeDef(i.types[t])]]

-----------------------------------------------------------------------------
(* The comparison.                                                         *)

Change(severity, path) == [severity |-> severity, path |-> path]

Removed(old, new, path) == {Change("Breaking", Append(path, n)) : n \in old \ new}
Added(old, new, path)   == {Change("Minor", Append(path, n)) : n \in new \ old}

Changed(old, new, path) ==
  {Change("Breaking", Append(path, n)) :
     n \in {m \in DOMAIN old \cap DOMAIN new : old[m] # new[m]}}

(* One parameter after the other, if there are as many.                    *)
PrefixOnlyMutant(old, new, path) ==
  {Change("Breaking", Append(path, n)) :
     n \in {m \in DOMAIN old.params \cap DOMAIN new.params : old.params[m] # new.params[m]}}
  \cup (IF old.result # new.result THEN {Change("Breaking", path)} ELSE {})

CompareSignatures(old, new, path) ==
  (IF Len(old.params) # Len(new.params) THEN {Change("Breaking", path)}
   ELSE {Change("Breaking", Append(path, n)) :
           n \in {m \in 1..Len(old.params) : old.params[m] # new.params[m]}})
  \cup (IF old.result # new.result THEN {Change("Breaking", path)} ELSE {})

(* compare_record_fields: a new field breaks, records are not extensible.  *)
CompareRecordFields(old, new, path) ==
  Removed(DOMAIN old, DOMAIN new, path)
  \cup {Change("Breaking", Append(path, n)) : n \in DOMAIN new \ DOMAIN old}
  \cup Changed(old, new, path)

CompareVariantCases(old, new, path) ==
  Removed(DOMAIN old, DOMAIN new, path)
  \cup Added(DOMAIN old, DOMAIN new, path)
  \cup Changed(old, new, path)

CompareTypeDefs(old, new, path) ==
  IF old.kind # new.kind THEN {Change("Breaking", path)}
  ELSE CASE old.kind = "record"  -> CompareRecordFields(old.members, new.members, path)
         [] old.kind = "variant" -> CompareVariantCases(old.members, new.members, path)
         [] old.kind = "enum"    -> Removed(DOMAIN old.members, DOMAIN new.members, path)
                                    \cup Added(DOMAIN old.members, DOMAIN new.members, path)
         [] OTHER                -> {}

CompareInterfaceContents(old, new, path) ==
  Removed(DOMAIN old.functions, DOMAIN new.functions, path)
  \cup Added(DOMAIN old.functions, DOMAIN new.functions, path)
  \cup (UNION {CompareSignatures(old.functions[f], new.functions[f], Append(path, f)) :
                 f \in DOMAIN old.functions \cap DOMAIN new.functions})
  \cup Removed(old.resources, new.resources, path)
  \cup Removed(DOMAIN old.types, DOMAIN new.types, path)
  \cup (UNION {CompareTypeDefs(old.types[t], new.types[t], Append(path, t)) :
                 t \in DOMAIN old.types \cap DOMAIN new.types})
  \cup Added(DOMAIN old.types, DOMAIN new.types, path)

CompareInterfaces(old, new) ==
  Removed(DOMAIN old, DOMAIN new, <<>>)
  \cup Added(DOMAIN old, DOMAIN new, <<>>)
  \cup (UNION {CompareInterfaceContents(ConvertInterface(old[i]), ConvertInterface(new[i]), <<i>>) :
                 i \in DOMAIN old \cap DOMAIN new})

(* Only the names of worlds are compared.                                  *)
CompareWorlds(old, new) ==
  Removed(old, new, <<"world">>) \cup Added(old, new, <<"world">>)

Changes(old, new) ==
  CompareInterfaces(old.interfaces, new.interfaces) \cup CompareWorlds(old.worlds, new.worlds)

Verdict(changes) ==
  IF \E c \in changes : c.severity = "Breaking" THEN "Breaking"
  ELSE IF \E c \in changes : c.severity = "Minor" THEN "CompatibleWithAdditions"
  ELSE "Compatible"

CheckCompatibility(old, new) == Verdict(Changes(old, new))

-----------------------------------------------------------------------------
(* Whoever was built against old is served by new: everything it may use   *)
(* is there and means the same, every record of the same shape.            *)

ServesType(new, old) ==
  /\ new.kind = old.kind
  /\ old.kind = "record" => new.members = old.members
  /\ old.kind \in {"variant", "enum", "flags"} =>
       \A m \in DOMAIN old.members :
         m \in DOMAIN new.members /\ new.members[m] = old.members[m]
  /\ old.kind = "alias" => new.target = old.target

ServesInterface(new, old) ==
  /\ \A f \in DOMAIN old.functions :
       f \in DOMAIN new.functions /\ new.functions[f] = old.functions[f]
  /\ \A t \in DOMAIN old.types :
       t \in DOMAIN new.types /\ ServesType(new.types[t], old.types[t])

Serves(new, old) ==
  /\ old.worlds \subseteq new.worlds
  /\ \A i \in DOMAIN old.interfaces :
       i \in DOMAIN new.interfaces
       /\ ServesInterface(new.interfaces[i], old.interfaces[i])

(* The part of a package that check_compatibility looks at: not the labels *)
(* of flags types, nor what aliases stand for.  As far as that goes, new   *)
(* fits the clients of old.                                                *)
ExaminedType(d) ==
  [kind    |-> d.kind,
   members |-> IF d.kind \in {"flags", "alias"} THEN <<>> ELSE d.members,
   target  |-> NoType]

Examined(p) ==
  [worlds     |-> p.worlds,
   interfaces |-> [i \in DOMAIN p.interfaces |->
     [functions |-> p.interfaces[i].functions,
      types     |-> [t \in DOMAIN p.interfaces[i].types |->
                       ExaminedType(p.interfaces[i].types[t])]]]]

Fits(new, old) == Serves(Examined(new), Examined(old))
=============================================================================
