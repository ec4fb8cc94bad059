---------------------------------- MODULE Wire ----------------------------------
(***************************************************************************)
(* How the types of the protocols cross a process boundary: what serde, as   *)
(* their attributes direct it, writes of a value and makes of what it reads. *)
(* A field's value is "empty" (None, false, 0, "", [], {}, and the null of a *)
(* serde_json::Value), "some" (anything else), or "null" where a null within *)
(* an Option is a third value. Fields that are structures themselves cross   *)
(* the same way.                                                             *)
(***************************************************************************)
EXTENDS TLC

Kept == [values |-> {"empty", "some"}, \* what the field may hold
         omits |-> {},                 \* values it is left out for
         nulls |-> {},                 \* values written as null
         same |-> {},                  \* values its meaning does not tell apart
         absent |-> "refused",         \* what its absence is read as
         null |-> "refused"]           \* what null is read as

Optional == [Kept EXCEPT !.nulls = {"empty"}, !.absent = "empty", !.null = "empty"]
Fallback == [Kept EXCEPT !.absent = "empty"]
Layered == [Kept EXCEPT !.values = {"empty", "null", "some"}, !.nulls = {"null"},
                        !.absent = "empty", !.null = "empty"]

Each(S, rule) == [f \in S |-> rule]

Required(S) == Each(S, Kept)
Json(S) == Each(S, [Kept EXCEPT !.nulls = {"empty"}, !.null = "empty"])
\* Option<_>, without an attribute, and with skip_serializing_if.
Nullable(S) == Each(S, Optional)
Omitted(S) == Each(S, [Optional EXCEPT !.omits = {"empty"}])
NonNull(S) == Each(S, [Optional EXCEPT !.omits = {"empty"}, !.null = "refused"])
\* Option<Value>: a null within it is not told from none, nor meant to be.
NullableJson(S) ==
  Each(S, [Layered EXCEPT !.nulls = {"empty", "null"}, !.same = {"empty", "null"}])
OmittedJson(S) == Each(S, [Layered EXCEPT !.omits = {"empty"}, !.same = {"empty", "null"}])
\* default, without and with skip_serializing_if; OrElse: a default that is something.
Defaulted(S) == Each(S, Fallback)
DefaultedJson(S) == Each(S, [Fallback EXCEPT !.nulls = {"empty"}, !.null = "empty"])
Skipped(S) == Each(S, [Fallback EXCEPT !.omits = {"empty"}])
SkippedJson(S) == Each(S, [Fallback EXCEPT !.omits = {"empty"}, !.null = "empty"])
OrElse(S) == Each(S, [Fallback EXCEPT !.absent = "some"])
\* Absent leaves, null clears, a value sets. Doubled: Option<Option<_>>.
Doubled(S) == Each(S, [Layered EXCEPT !.omits = {"empty"}])
Patch(S) == Each(S, [Layered EXCEPT !.omits = {"empty"}, !.null = "null"])
NoFields == Each({}, Kept)

Struct(fields) == [shape |-> "struct", fields |-> fields, unknown |-> "ignored", later |-> {}]
\* deny_unknown_fields; a map that takes the fields no other takes (flatten).
Closed(fields) == [Struct(fields) EXCEPT !.unknown = "refused"]
Open(fields) == [Struct(fields) EXCEPT !.unknown = "kept"]
\* Fields that peers of earlier versions do not send.
Grown(later, struct) == [struct EXCEPT !.later = later]

NoAliases == [a \in {} |-> ""]
\* Tags are written; aliases are read as well, as the tag they stand for.
Enum(tags, aliases) == [shape |-> "enum", tags |-> tags, aliases |-> aliases, other |-> "refused"]
\* serde(other): any other tag is read as this one.
Catching(tag, enum) == [enum EXCEPT !.other = tag]
\* The variant's name is in a field of its own, or, if that is "", around the rest.
Tagged(tag, closed, variants) ==
  [shape |-> "tagged", tag |-> tag, variants |-> variants,
   unknown |-> IF closed THEN "refused" ELSE "ignored"]

\* Types that are used together are the fields of one record.
Members(family) == {family[name] : name \in DOMAIN family}

--------------------------------------------------------------------------------
(* Structures.                                                             *)

Written(rule, v) ==
  CASE v \in rule.omits -> "absent"
    [] v \in rule.nulls \ rule.omits -> "null"
    [] OTHER -> v

ReadAs(rule, w) ==
  CASE w = "absent" -> rule.absent
    [] w = "null" -> rule.null
    [] OTHER -> w

\* A field of wire that is not in the structure is "absent" from it.
Write(struct, value) ==
  LET wire == [f \in DOMAIN struct.fields |-> Written(struct.fields[f], value[f])]
  IN  [f \in {g \in DOMAIN wire : wire[g] # "absent"} |-> wire[f]]

At(wire, f) == IF f \in DOMAIN wire THEN wire[f] ELSE "absent"

\* The map of both, the first's where both have a field.
Beside(first, second) ==
  [f \in DOMAIN first \cup DOMAIN second |-> IF f \in DOMAIN first THEN first[f] ELSE second[f]]

Refused == [f \in {"refused"} |-> "refused"]

Read(struct, wire) ==
  LET fields == DOMAIN struct.fields
      value == [f \in fields |-> ReadAs(struct.fields[f], At(wire, f))]
      strange == DOMAIN wire \ fields
  IN  IF \/ \E f \in fields : value[f] = "refused"
         \/ strange # {} /\ struct.unknown = "refused"
      THEN Refused
      ELSE IF struct.unknown = "kept" THEN Beside(value, [f \in strange |-> wire[f]]) ELSE value

\* One field differs from the others.
Values(struct) ==
  LET fields == DOMAIN struct.fields
      All(v) == [f \in fields |-> v]
  IN  {All("empty"), All("some")} \cup
      {[All(v) EXCEPT ![f] = w] :
         v \in {"empty", "some"}, f \in fields, w \in {"empty", "null", "some"}}

Fits(struct, value) == \A f \in DOMAIN struct.fields : value[f] \in struct.fields[f].values

Alike(rule, v, w) == v = w \/ {v, w} \subseteq rule.same

SameAs(struct, value, other) ==
  /\ DOMAIN value = DOMAIN other
  /\ \A f \in DOMAIN struct.fields : Alike(struct.fields[f], value[f], other[f])

--------------------------------------------------------------------------------
(* Enumerations.                                                           *)

\* All that a tag may be read as.
Readings(enum, tag) ==
  {t \in enum.tags : t = tag} \cup {enum.aliases[a] : a \in {b \in DOMAIN enum.aliases : b = tag}}

\* The structure a variant is written as, its name among the fields or around them.
Variant(tagged, name) ==
  [Struct(IF tagged.tag = "" THEN tagged.variants[name]
          ELSE Required({tagged.tag}) @@ tagged.variants[name])
   EXCEPT !.unknown = tagged.unknown]
================================================================================
