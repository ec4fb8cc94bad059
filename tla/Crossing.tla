-------------------------------- MODULE Crossing --------------------------------
(***************************************************************************)
(* A value of one of the protocols' types on its way through processes of   *)
(* several versions: each reads it and writes it again, a newer one adds a  *)
(* field of its own, an older one leaves out the fields it does not know.   *)
(***************************************************************************)
EXTENDS Wire, Integers

CONSTANTS
  Types,
  Mirrors, \* pairs of a type one process writes and the type of its own another reads it as
  MaxHops

VARIABLES message
vars == <<message>>

Nothing == [hops |-> -1]

Added == "a field of a newer version"

\* What may be written: a structure, or one variant of a tagged one.
Forms(type) ==
  CASE type.shape = "struct" -> {type}
    [] type.shape = "tagged" ->
         {[Variant(type, name) EXCEPT !.later = {}] : name \in DOMAIN type.variants}
    [] OTHER -> {}

Init == message = Nothing

Originate(form, value) ==
  /\ Fits(form, value)
  /\ message' = [hops |-> 0, form |-> form, value |-> value, wire |-> Write(form, value),
                 old |-> FALSE, new |-> FALSE]

Heard == Read(message.form, message.wire)

\* A structure that takes any field writes those as it read them.
Relay ==
  /\ message.hops \in 0..MaxHops - 1
  /\ Heard # Refused
  /\ message' =
       [message EXCEPT !.hops = @ + 1,
          !.wire = Beside(Write(message.form, Heard),
                          [f \in DOMAIN Heard \ DOMAIN message.form.fields |-> Heard[f]])]

\* The relay is of an earlier version.
RelayOlder ==
  /\ message.hops \in 0..MaxHops - 1
  /\ message.form.later # {}
  /\ message' = [message EXCEPT !.hops = @ + 1, !.old = TRUE,
                   !.wire = [f \in DOMAIN @ \ message.form.later |-> @[f]]]

\* The relay is of a later version.
RelayNewer ==
  /\ message.hops \in 0..MaxHops - 1
  /\ ~message.new
  /\ message' = [message EXCEPT !.hops = @ + 1, !.new = TRUE, !.wire = Beside(@, [f \in {Added} |-> "some"])]

\* The reader's type has its own idea of the same message.
HandOver(to) ==
  LET value == [f \in DOMAIN to.fields |->
                  IF f \in DOMAIN message.value THEN message.value[f] ELSE to.fields[f].absent]
  IN  /\ message.hops = 0 /\ <<message.form, to>> \in Mirrors
      /\ message' = [message EXCEPT !.hops = MaxHops, !.form = to, !.value = value]

OriginateSome ==
  message = Nothing /\ \E type \in Types : \E form \in Forms(type) : \E value \in Values(form) : Originate(form, value)

Next ==
  OriginateSome \/ Relay \/ RelayOlder \/ RelayNewer \/ \E mirror \in Mirrors : HandOver(mirror[2])

Spec == Init /\ [][Next]_vars

--------------------------------------------------------------------------------
(* Properties.                                                             *)

\* What has come of the original, as far as its writer can expect.
Understood ==
  LET original == message.value
      expected == IF message.old
                    THEN [f \in DOMAIN original |->
                            IF f \in message.form.later
                              THEN message.form.fields[f].absent ELSE original[f]]
                    ELSE original
  IN  SameAs(message.form, [f \in DOMAIN original |-> Heard[f]], expected)

\* Through any relays, of any versions, and into the type another program has for
\* the same message, a value is either understood as it was
\* meant or, where its type is closed and a field was added to it, refused whole:
\* an attribute that leaves a field out, writes it as null or gives it a default
\* agrees with the one that reads it.
Survives ==
  message = Nothing \/
  IF message.form.unknown = "refused" /\ message.new /\ Added \in DOMAIN message.wire
    THEN Heard = Refused
    ELSE Heard # Refused /\ Understood

\* A null that clears a field is not taken for one that leaves it alone.
ClearingClears ==
  message # Nothing /\ Heard # Refused =>
    \A f \in DOMAIN message.value : message.value[f] = "null" => Heard[f] = "null"

\* What one attribute leaves out, writes as null or gives a default to, the reader's
\* reads, as a value of its own that means the same.
FieldAgrees(writer, reader) ==
  \A v \in writer.values :
    LET heard == ReadAs(reader, Written(writer, v)) IN
    heard \in reader.values /\ Alike(reader, heard, v)

\* The attributes of a type agree with one another, and where earlier peers do not
\* send a field its absence has a meaning.
FormAgrees(form) ==
  /\ Added \notin DOMAIN form.fields
  /\ \A f \in DOMAIN form.fields :
       LET rule == form.fields[f] IN
       /\ rule.values \subseteq {"empty", "null", "some"}
       /\ FieldAgrees(rule, rule)
       /\ f \in form.later => rule.absent \in rule.values

\* Two programs' types of one message: the reader's knows what the writer's may send,
\* and needs no more.
MirrorAgrees(from, to) ==
  /\ Added \notin DOMAIN to.fields
  /\ to.unknown = "refused" => DOMAIN from.fields \subseteq DOMAIN to.fields
  /\ \A f \in DOMAIN to.fields :
       /\ to.fields[f].values \subseteq {"empty", "null", "some"}
       /\ IF f \in DOMAIN from.fields THEN FieldAgrees(from.fields[f], to.fields[f])
          ELSE to.fields[f].absent \in to.fields[f].values

\* Every tag and every alias of an enumeration is read as one of its values, and
\* every value's own tag as that value.
OneReading(type) ==
  \A tag \in type.tags \cup DOMAIN type.aliases :
    /\ \E meant \in type.tags : Readings(type, tag) = {meant}
    /\ tag \in type.tags => Readings(type, tag) = {tag}

Agreeing ==
  /\ \A type \in Types : \A form \in Forms(type) : FormAgrees(form)
  /\ \A mirror \in Mirrors : MirrorAgrees(mirror[1], mirror[2])
  /\ \A type \in Types : type.shape = "enum" => OneReading(type)

\* The declarations agree. They do not change: it is asked of them once.
DeclaredAlike == message = Nothing => Agreeing
================================================================================
