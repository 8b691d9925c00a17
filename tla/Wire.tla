-------------------------------- MODULE Wire --------------------------------
(***************************************************************************)
(* How a typed value becomes named fields on the wire and is read back:    *)
(* the serde attributes of a field, and where ruma_api! puts it.           *)
(*                                                                         *)
(* A value is the set of its fields that are filled, that is, hold         *)
(* something else than the None, empty or default value of their type.     *)
(* The kind of a field is its pair of serde attributes:                    *)
(*                                                                         *)
(*   required    always written, an error when absent                      *)
(*   optional    Option, skipped when None, None when absent               *)
(*   nullable    Option, written as null when None, None when absent       *)
(*   defaulted   skipped when it has its default, the default when absent  *)
(*   lenient     always written, the default when absent                   *)
(*   fragile     skipped when it has its default, an error when absent     *)
(*   refilled    a list, skipped when empty, a list that is not empty when *)
(*               absent                                                    *)
(*                                                                         *)
(* A list in a query is written as one pair for each of its elements, so   *)
(* an empty one is always skipped.                                         *)
(*                                                                         *)
(* A field is `given' when the constructor of its type asks for it; the    *)
(* others start as default and are assigned afterwards.                    *)
(***************************************************************************)
\* a field of a ruma_api! block that the constructor asks for, or does not
Arg(at, kind, names) == [at : {at}, kind : {kind}, name : names, given : {TRUE}]
In(at, kind, names)  == [at : {at}, kind : {kind}, name : names, given : {FALSE}]

\* the same for a field of a JSON object
Takes(kind, names) == Arg("body", kind, names)
Has(kind, names)   == In("body", kind, names)

Skippable == {"optional", "defaulted", "fragile", "refilled"}
Demanded  == {"required", "fragile"}

-----------------------------------------------------------------------------
(***************************************************************************)
(* The values a program builds: what the constructor makes of its          *)
(* arguments, then any assignments.  The bound: all fields filled, none    *)
(* but the given ones, one field more or one field fewer than these.  A    *)
(* path parameter is never empty unless the path may end before it.        *)
(***************************************************************************)
NeverEmpty(F) == {f \in F : f.at = "path" /\ f.kind = "required"}
Values(F) ==
  LET given == {f \in F : f.given}
  IN  {v \cup NeverEmpty(F) : v \in {F, given} \cup {F \ {f} : f \in F} \cup {given \cup {f} : f \in F}
                                   \cup {given \ {f} : f \in F}}

-----------------------------------------------------------------------------
\* where a field is found on the wire
Place(f) == <<f.at, f.name>>

\* Serialize: the places that are written, each with whether the field was filled
Write(F, value) ==
  LET written == {f \in F : f \in value \/ f.kind \notin Skippable}
  IN  [p \in {Place(f) : f \in written} |-> \E f \in value : Place(f) = p]

\* Deserialize: possible when every demanded place is there ...
Readable(F, wire) == \A f \in F : f.kind \in Demanded => Place(f) \in DOMAIN wire

\* ... and then a field is filled when its place was, or when its default is not empty
Refilled(F) == {f \in F : f.kind = "refilled"}
Read(F, wire) == {f \in F : Place(f) \in DOMAIN wire /\ wire[Place(f)]} \cup Refilled(F)

\* what the reader will look for and not find
Missing(F, value) == {f \in F : f.kind = "fragile"} \ value
=============================================================================
