----------------------------- MODULE Journeys_proofs -----------------------------
(***************************************************************************)
(* What holds, for every value of the constants they are given, of the       *)
(* machines of MCJourneys that something passes through: what a value of a   *)
(* protocol's type means to its last reader, what a run knows of the subject *)
(* it was made for, what an asked run answers, and what frames are cut out of*)
(* the input. What the last takes of induction and recursion on a measure is *)
(* proved where the configured machines are.                                 *)
(***************************************************************************)
EXTENDS Configured_proofs

--------------------------------------------------------------------------------
(* Crossing: what one relay reads of a message, and what it writes of it.    *)

\* A field is on the wire as its attributes have it, or left out.
LEMMA WriteAt ==
  ASSUME NEW struct, NEW value
  PROVE  LET wire == Wires!Write(struct, value) IN
         /\ DOMAIN wire \subseteq DOMAIN struct.fields
         /\ \A f \in DOMAIN struct.fields :
              Wires!At(wire, f) = Wires!Written(struct.fields[f], value[f])
         /\ \A f \in DOMAIN wire : wire[f] = Wires!Written(struct.fields[f], value[f])
<1> DEFINE whole == [f \in DOMAIN struct.fields |-> Wires!Written(struct.fields[f], value[f])]
           wire == [f \in {g \in DOMAIN whole : whole[g] # "absent"} |-> whole[f]]
<1>1. Wires!Write(struct, value) = wire
  BY DEF Wires!Write
<1>2. DOMAIN wire = {g \in DOMAIN struct.fields : whole[g] # "absent"}
  OBVIOUS
<1>3. \A f \in DOMAIN wire : wire[f] = Wires!Written(struct.fields[f], value[f])
  OBVIOUS
<1>4. \A f \in DOMAIN struct.fields :
        Wires!At(wire, f) = Wires!Written(struct.fields[f], value[f])
  BY <1>2, <1>3 DEF Wires!At
<1> HIDE DEF wire
<1>5. DOMAIN wire \subseteq DOMAIN struct.fields
  BY <1>2
<1> QED
  BY <1>1, <1>3, <1>4, <1>5

\* What is read, if no field is refused and no field of the wire is a strange one.
LEMMA ReadWhole ==
  ASSUME NEW struct, NEW wire,
         \A f \in DOMAIN struct.fields :
           Wires!ReadAs(struct.fields[f], Wires!At(wire, f)) # "refused",
         DOMAIN wire \ DOMAIN struct.fields = {} \/ struct.unknown # "refused",
         \A f \in DOMAIN wire : wire[f] # "refused"
  PROVE  LET heard == Wires!Read(struct, wire) IN
         /\ heard # Wires!Refused
         /\ DOMAIN heard \subseteq DOMAIN struct.fields \cup DOMAIN wire
         /\ \A f \in DOMAIN struct.fields :
              /\ f \in DOMAIN heard
              /\ heard[f] = Wires!ReadAs(struct.fields[f], Wires!At(wire, f))
         /\ \A f \in DOMAIN heard \ DOMAIN struct.fields : heard[f] = wire[f]
<1> DEFINE fields == DOMAIN struct.fields
           value == [f \in fields |-> Wires!ReadAs(struct.fields[f], Wires!At(wire, f))]
           strange == DOMAIN wire \ fields
           rest == [f \in strange |-> wire[f]]
           heard == Wires!Read(struct, wire)
<1>1. heard = IF struct.unknown = "kept" THEN Wires!Beside(value, rest) ELSE value
  BY DEF Wires!Read
<1>2. /\ DOMAIN value = fields /\ DOMAIN rest = strange
      /\ \A f \in fields : value[f] = Wires!ReadAs(struct.fields[f], Wires!At(wire, f))
      /\ \A f \in fields : value[f] # "refused"
      /\ \A f \in strange : rest[f] = wire[f]
  OBVIOUS
<1> HIDE DEF value, rest, heard
<1>3. /\ DOMAIN heard \subseteq fields \cup DOMAIN wire
      /\ \A f \in fields : f \in DOMAIN heard /\ heard[f] = value[f]
      /\ \A f \in DOMAIN heard \ fields : f \in DOMAIN wire /\ heard[f] = wire[f]
  <2>1. CASE struct.unknown = "kept"
    <3>1. heard = Wires!Beside(value, rest)
      BY <1>1, <2>1
    <3>2. /\ DOMAIN heard = DOMAIN value \cup DOMAIN rest
          /\ \A f \in DOMAIN value : heard[f] = value[f]
          /\ \A f \in DOMAIN rest \ DOMAIN value : heard[f] = rest[f]
      BY <3>1 DEF Wires!Beside
    <3> QED
      BY <1>2, <3>2
  <2>2. CASE struct.unknown # "kept"
    BY <1>1, <1>2, <2>2
  <2> QED
    BY <2>1, <2>2
<1>4. heard # Wires!Refused
  <2> SUFFICES ASSUME heard = Wires!Refused PROVE FALSE
    OBVIOUS
  <2>1. "refused" \in DOMAIN heard /\ heard["refused"] = "refused"
    BY DEF Wires!Refused
  <2> QED
    BY <1>2, <1>3, <2>1
<1> QED
  BY <1>2, <1>3, <1>4 DEF heard

\* Closed types refuse whatever they do not know.
LEMMA ReadClosed ==
  ASSUME NEW struct, NEW wire,
         DOMAIN wire \ DOMAIN struct.fields # {}, struct.unknown = "refused"
  PROVE  Wires!Read(struct, wire) = Wires!Refused
  BY DEF Wires!Read

Plain == {"empty", "null", "some"}

\* No field is written as a refusal.
LEMMA WrittenPlain ==
  ASSUME NEW rule, NEW v \in Plain
  PROVE  Wires!Written(rule, v) # "refused"
  BY DEF Wires!Written, Plain

LEMMA AlikeTransitive ==
  ASSUME NEW rule, NEW u, NEW v, NEW w, Wires!Alike(rule, u, v), Wires!Alike(rule, v, w)
  PROVE  Wires!Alike(rule, u, w)
  BY DEF Wires!Alike

\* What the reader makes of a field, and what its writer can expect it to make.
Taken(m, f) == Wires!ReadAs(m.form.fields[f], Wires!At(m.wire, f))
Meant(m, f) ==
  IF m.old /\ f \in m.form.later THEN m.form.fields[f].absent ELSE m.value[f]

\* Every field is read as it is meant, and what the type does not know a newer peer added.
Intact(m) ==
  /\ DOMAIN m = {"hops", "form", "value", "wire", "old", "new"}
  /\ m.hops \in Nat
  /\ DOMAIN m.value = DOMAIN m.form.fields
  /\ Wires!Added \notin DOMAIN m.form.fields
  /\ \A f \in DOMAIN m.form.fields :
       /\ m.form.fields[f].values \subseteq Plain
       /\ Taken(m, f) \in m.form.fields[f].values
       /\ Wires!Alike(m.form.fields[f], Taken(m, f), Meant(m, f))
  /\ \A f \in DOMAIN m.wire : m.wire[f] # "refused"
  /\ m.form.unknown = "refused" =>
       /\ DOMAIN m.wire \ DOMAIN m.form.fields \subseteq {Wires!Added}
       /\ Wires!Added \in DOMAIN m.wire => m.new

\* As long as it is relayed, it is in the type it was written as.
Relayed(m) ==
  /\ m.hops < MaxRelays => Wires!FormAgrees(m.form)
  /\ m.hops = 0 =>
       /\ m.wire = Wires!Write(m.form, m.value) /\ Wires!Fits(m.form, m.value)
       /\ m.old = FALSE /\ m.new = FALSE

CrossingInv == message = Wires!Nothing \/ (Intact(message) /\ Relayed(message))

\* What is intact is understood, or refused for the field that was added to it.
LEMMA IntactSurvives ==
  ASSUME Intact(message)
  PROVE  Wires!Survives
<1> DEFINE m == message
           fields == DOMAIN m.form.fields
<1>1. CASE m.form.unknown = "refused" /\ m.new /\ Wires!Added \in DOMAIN m.wire
  <2>1. DOMAIN m.wire \ fields # {}
    BY <1>1 DEF Intact
  <2>2. Wires!Heard = Wires!Refused
    BY <1>1, <2>1, ReadClosed DEF Wires!Heard
  <2> QED
    BY <1>1, <2>2 DEF Wires!Survives
<1>2. CASE ~(m.form.unknown = "refused" /\ m.new /\ Wires!Added \in DOMAIN m.wire)
  <2>1. DOMAIN m.wire \ fields = {} \/ m.form.unknown # "refused"
    BY <1>2 DEF Intact
  <2>2. \A f \in fields : Taken(m, f) # "refused"
    BY DEF Intact, Plain
  <2>3. /\ Wires!Heard # Wires!Refused
        /\ \A f \in fields : Wires!Heard[f] = Taken(m, f)
    BY <2>1, <2>2, ReadWhole DEF Intact, Wires!Heard, Taken
  <2>4. Wires!Understood
    <3> DEFINE original == m.value
               expected ==
                 IF m.old THEN [f \in DOMAIN original |->
                                  IF f \in m.form.later THEN m.form.fields[f].absent ELSE original[f]]
                 ELSE original
               understood == [f \in DOMAIN original |-> Wires!Heard[f]]
    <3>1. DOMAIN original = fields
      BY DEF Intact
    <3>2. DOMAIN expected = fields /\ DOMAIN understood = fields
      BY <3>1
    <3>3. \A f \in fields : expected[f] = Meant(m, f) /\ understood[f] = Taken(m, f)
      BY <2>3, <3>1 DEF Meant
    <3>4. \A f \in fields : Wires!Alike(m.form.fields[f], understood[f], expected[f])
      BY <3>3 DEF Intact
    <3> HIDE DEF expected, understood
    <3>5. Wires!SameAs(m.form, understood, expected)
      BY <3>2, <3>4 DEF Wires!SameAs
    <3> QED
      BY <3>5 DEF Wires!Understood, understood, expected
  <2> QED
    BY <1>2, <2>3, <2>4 DEF Wires!Survives
<1> QED
  BY <1>1, <1>2


\* A value is written, in one of the forms of a declared type.
LEMMA OriginateKeeps ==
  ASSUME Wires!Agreeing, NEW type \in Types, NEW form \in Wires!Forms(type),
         NEW value \in Wires!Values(form), Wires!Originate(form, value)
  PROVE  CrossingInv'
<1> DEFINE m == message'
<1>1. m = [hops |-> 0, form |-> form, value |-> value, wire |-> Wires!Write(form, value),
           old |-> FALSE, new |-> FALSE]
  BY DEF Wires!Originate
<1>2. Wires!FormAgrees(form) /\ Wires!Fits(form, value)
  BY DEF Wires!Agreeing, Wires!Originate
<1>3. /\ DOMAIN m = {"hops", "form", "value", "wire", "old", "new"}
      /\ m.hops = 0 /\ m.form = form /\ m.value = value /\ m.wire = Wires!Write(form, value)
      /\ m.old = FALSE /\ m.new = FALSE
  BY <1>1
<1> HIDE DEF m
<1>4. DOMAIN value = DOMAIN form.fields
  BY DEF Wires!Values
<1>5. ASSUME NEW f \in DOMAIN form.fields
      PROVE  /\ form.fields[f].values \subseteq Plain
             /\ Taken(m, f) \in form.fields[f].values
             /\ Wires!Alike(form.fields[f], Taken(m, f), Meant(m, f))
  <2> DEFINE rule == form.fields[f]
  <2>1. /\ rule.values \subseteq Plain /\ Wires!FieldAgrees(rule, rule) /\ value[f] \in rule.values
    BY <1>2 DEF Wires!FormAgrees, Wires!Fits, Plain
  <2>2. Taken(m, f) = Wires!ReadAs(rule, Wires!Written(rule, value[f]))
    BY <1>3, WriteAt DEF Taken
  <2>3. Meant(m, f) = value[f]
    BY <1>3 DEF Meant
  <2> QED
    BY <2>1, <2>2, <2>3 DEF Wires!FieldAgrees
<1>6. ASSUME NEW f \in DOMAIN m.wire PROVE m.wire[f] # "refused"
  <2>1. f \in DOMAIN form.fields /\ m.wire[f] = Wires!Written(form.fields[f], value[f])
    BY <1>3, WriteAt
  <2>2. value[f] \in Plain
    BY <1>2, <1>5, <2>1 DEF Wires!Fits
  <2> QED
    BY <2>1, <2>2, WrittenPlain
<1>7. DOMAIN m.wire \subseteq DOMAIN form.fields /\ Wires!Added \notin DOMAIN form.fields
  BY <1>2, <1>3, WriteAt DEF Wires!FormAgrees
<1>8. Intact(m)
  BY <1>3, <1>4, <1>5, <1>6, <1>7 DEF Intact
<1>9. Relayed(m)
  BY <1>2, <1>3 DEF Relayed
<1> QED
  BY <1>8, <1>9 DEF CrossingInv, Intact, Relayed, Taken, Meant, m


\* What a message loses, gets and keeps when it passes one relay more.
Passes(m, next) ==
  /\ m.hops < MaxRelays
  /\ DOMAIN next = DOMAIN m /\ next.hops = m.hops + 1
  /\ next.form = m.form /\ next.value = m.value
  /\ \A f \in DOMAIN m.form.fields :
       /\ Taken(next, f) \in m.form.fields[f].values
       /\ Wires!Alike(m.form.fields[f], Taken(next, f), Meant(next, f))
  /\ \A f \in DOMAIN next.wire : next.wire[f] # "refused"
  /\ m.form.unknown = "refused" =>
       /\ DOMAIN next.wire \ DOMAIN m.form.fields \subseteq {Wires!Added}
       /\ Wires!Added \in DOMAIN next.wire => next.new

LEMMA PassedOn ==
  ASSUME NEW m, NEW next, Intact(m), Relayed(m), Passes(m, next)
  PROVE  Intact(next) /\ Relayed(next)
<1>1. next.hops \in Nat /\ next.hops # 0
  BY DEF Intact, Passes
<1>2. Intact(next)
  BY <1>1 DEF Intact, Passes
<1>3. Relayed(next)
  BY <1>1 DEF Relayed, Intact, Passes
<1> QED
  BY <1>2, <1>3

\* Read and written again by a process of the same version.
LEMMA RelayKeeps ==
  ASSUME Intact(message), Relayed(message), Wires!Relay
  PROVE  Intact(message') /\ Relayed(message')
<1> DEFINE m == message
           fields == DOMAIN m.form.fields
           heard == Wires!Heard
           again == Wires!Write(m.form, heard)
           rest == [f \in DOMAIN heard \ fields |-> heard[f]]
<1>1. /\ m.hops < MaxRelays /\ heard # Wires!Refused
      /\ m' = [m EXCEPT !.hops = m.hops + 1, !.wire = Wires!Beside(again, rest)]
  BY RelayAssumption DEF Wires!Relay, Intact
<1>2. /\ DOMAIN m' = DOMAIN m /\ m'.hops = m.hops + 1 /\ m'.form = m.form
      /\ m'.value = m.value /\ m'.wire = Wires!Beside(again, rest)
      /\ m'.old = m.old /\ m'.new = m.new
  BY <1>1 DEF Intact
<1>3. DOMAIN m.wire \ fields = {} \/ m.form.unknown # "refused"
  BY <1>1, ReadClosed DEF Wires!Heard
<1>4. \A f \in fields : Taken(m, f) # "refused"
  BY DEF Intact, Plain
<1>5. /\ DOMAIN heard \subseteq fields \cup DOMAIN m.wire
      /\ \A f \in fields : heard[f] = Taken(m, f)
      /\ \A f \in DOMAIN heard \ fields : heard[f] = m.wire[f]
  BY <1>3, <1>4, ReadWhole DEF Intact, Wires!Heard, Taken
<1>6. DOMAIN rest = DOMAIN heard \ fields /\ \A f \in DOMAIN rest : rest[f] = heard[f]
  OBVIOUS
<1> HIDE DEF heard, again, rest
<1>7. /\ DOMAIN again \subseteq fields
      /\ \A f \in fields : Wires!At(again, f) = Wires!Written(m.form.fields[f], heard[f])
      /\ \A f \in DOMAIN again : again[f] = Wires!Written(m.form.fields[f], heard[f])
  BY WriteAt DEF again
<1>8. /\ DOMAIN m'.wire = DOMAIN again \cup DOMAIN rest
      /\ \A f \in DOMAIN again : m'.wire[f] = again[f]
      /\ \A f \in DOMAIN rest \ DOMAIN again : m'.wire[f] = rest[f]
      /\ \A f \in fields : Wires!At(m'.wire, f) = Wires!At(again, f)
  BY <1>2, <1>6 DEF Wires!Beside, Wires!At
<1>9. ASSUME NEW f \in fields
      PROVE  /\ Taken(m', f) \in m.form.fields[f].values
             /\ Wires!Alike(m.form.fields[f], Taken(m', f), Meant(m', f))
  <2> DEFINE rule == m.form.fields[f]
  <2>1. Taken(m', f) = Wires!ReadAs(rule, Wires!Written(rule, Taken(m, f)))
    BY <1>2, <1>5, <1>7, <1>8 DEF Taken
  <2>2. Taken(m, f) \in rule.values /\ Wires!Alike(rule, Taken(m, f), Meant(m, f))
    BY DEF Intact
  <2>3. Wires!FieldAgrees(rule, rule)
    BY <1>1 DEF Relayed, Wires!FormAgrees
  <2>4. Taken(m', f) \in rule.values /\ Wires!Alike(rule, Taken(m', f), Taken(m, f))
    BY <2>1, <2>2, <2>3 DEF Wires!FieldAgrees
  <2>5. Meant(m', f) = Meant(m, f)
    BY <1>2 DEF Meant
  <2> QED
    BY <2>2, <2>4, <2>5, AlikeTransitive
<1>10. ASSUME NEW f \in DOMAIN m'.wire PROVE m'.wire[f] # "refused"
  <2>1. CASE f \in DOMAIN again
    <3>1. m'.wire[f] = Wires!Written(m.form.fields[f], Taken(m, f)) /\ Taken(m, f) \in Plain
      BY <1>5, <1>7, <1>8, <2>1 DEF Intact
    <3> QED
      BY <3>1, WrittenPlain
  <2>2. CASE f \notin DOMAIN again
    BY <1>5, <1>6, <1>8, <1>10, <2>2 DEF Intact
  <2> QED
    BY <2>1, <2>2
<1>11. DOMAIN m'.wire \ fields \subseteq DOMAIN m.wire
  BY <1>5, <1>6, <1>7, <1>8
<1>12. ASSUME m.form.unknown = "refused"
       PROVE  /\ DOMAIN m'.wire \ fields \subseteq {Wires!Added}
              /\ Wires!Added \in DOMAIN m'.wire => m'.new
  BY <1>2, <1>11, <1>12 DEF Intact
<1>13. Passes(m, m')
  BY <1>1, <1>2, <1>9, <1>10, <1>12 DEF Passes
<1> QED
  BY <1>13, PassedOn

\* An earlier version leaves out what it does not know: that now means its absence.
LEMMA RelayOlderKeeps ==
  ASSUME Intact(message), Relayed(message), Wires!RelayOlder
  PROVE  Intact(message') /\ Relayed(message')
<1> DEFINE m == message
           fields == DOMAIN m.form.fields
           less == [f \in DOMAIN m.wire \ m.form.later |-> m.wire[f]]
<1>1. /\ m.hops < MaxRelays
      /\ m' = [m EXCEPT !.hops = m.hops + 1, !.old = TRUE, !.wire = less]
  BY RelayAssumption DEF Wires!RelayOlder, Intact
<1>2. /\ DOMAIN m' = DOMAIN m /\ m'.hops = m.hops + 1 /\ m'.form = m.form
      /\ m'.value = m.value /\ m'.wire = less /\ m'.old = TRUE /\ m'.new = m.new
  BY <1>1 DEF Intact
<1>3. DOMAIN less = DOMAIN m.wire \ m.form.later /\ \A f \in DOMAIN less : less[f] = m.wire[f]
  OBVIOUS
<1> HIDE DEF less
<1>4. ASSUME NEW f \in fields
      PROVE  /\ Taken(m', f) \in m.form.fields[f].values
             /\ Wires!Alike(m.form.fields[f], Taken(m', f), Meant(m', f))
  <2> DEFINE rule == m.form.fields[f]
  <2>1. CASE f \in m.form.later
    <3>1. Taken(m', f) = rule.absent /\ Meant(m', f) = rule.absent
      BY <1>2, <1>3, <2>1 DEF Taken, Meant, Wires!At, Wires!ReadAs
    <3>2. rule.absent \in rule.values
      BY <1>1, <2>1 DEF Relayed, Wires!FormAgrees
    <3> QED
      BY <3>1, <3>2 DEF Wires!Alike
  <2>2. CASE f \notin m.form.later
    <3>1. Taken(m', f) = Taken(m, f) /\ Meant(m', f) = Meant(m, f)
      BY <1>2, <1>3, <2>2 DEF Taken, Meant, Wires!At
    <3> QED
      BY <3>1 DEF Intact
  <2> QED
    BY <2>1, <2>2
<1>5. \A f \in DOMAIN m'.wire : m'.wire[f] # "refused"
  BY <1>2, <1>3 DEF Intact
<1>6. m.form.unknown = "refused" =>
        /\ DOMAIN m'.wire \ fields \subseteq {Wires!Added}
        /\ Wires!Added \in DOMAIN m'.wire => m'.new
  BY <1>2, <1>3 DEF Intact
<1>7. Passes(m, m')
  BY <1>1, <1>2, <1>4, <1>5, <1>6 DEF Passes
<1> QED
  BY <1>7, PassedOn

\* A later version adds a field, which no type has.
LEMMA RelayNewerKeeps ==
  ASSUME Intact(message), Relayed(message), Wires!RelayNewer
  PROVE  Intact(message') /\ Relayed(message')
<1> DEFINE m == message
           fields == DOMAIN m.form.fields
           extra == [f \in {Wires!Added} |-> "some"]
<1>1. /\ m.hops < MaxRelays
      /\ m' = [m EXCEPT !.hops = m.hops + 1, !.new = TRUE, !.wire = Wires!Beside(m.wire, extra)]
  BY RelayAssumption DEF Wires!RelayNewer, Intact
<1>2. /\ DOMAIN m' = DOMAIN m /\ m'.hops = m.hops + 1 /\ m'.form = m.form
      /\ m'.value = m.value /\ m'.wire = Wires!Beside(m.wire, extra)
      /\ m'.old = m.old /\ m'.new = TRUE
  BY <1>1 DEF Intact
<1>3. DOMAIN extra = {Wires!Added} /\ extra[Wires!Added] = "some"
  OBVIOUS
<1> HIDE DEF extra
<1>4. /\ DOMAIN m'.wire = DOMAIN m.wire \cup {Wires!Added}
      /\ \A f \in DOMAIN m.wire : m'.wire[f] = m.wire[f]
      /\ \A f \in {Wires!Added} \ DOMAIN m.wire : m'.wire[f] = "some"
  BY <1>2, <1>3 DEF Wires!Beside
<1>5. ASSUME NEW f \in fields
      PROVE  /\ Taken(m', f) \in m.form.fields[f].values
             /\ Wires!Alike(m.form.fields[f], Taken(m', f), Meant(m', f))
  <2>1. f # Wires!Added
    BY DEF Intact
  <2>2. Taken(m', f) = Taken(m, f) /\ Meant(m', f) = Meant(m, f)
    BY <1>2, <1>4, <2>1 DEF Taken, Meant, Wires!At
  <2> QED
    BY <2>2 DEF Intact
<1>6. \A f \in DOMAIN m'.wire : m'.wire[f] # "refused"
  BY <1>4 DEF Intact
<1>7. m.form.unknown = "refused" =>
        /\ DOMAIN m'.wire \ fields \subseteq {Wires!Added}
        /\ Wires!Added \in DOMAIN m'.wire => m'.new
  BY <1>2, <1>4 DEF Intact
<1>8. Passes(m, m')
  BY <1>1, <1>2, <1>5, <1>6, <1>7 DEF Passes
<1> QED
  BY <1>8, PassedOn

\* Another program's type of the same message.
LEMMA HandOverKeeps ==
  ASSUME Wires!Agreeing, Intact(message), Relayed(message),
         NEW mirror \in Mirrors, Wires!HandOver(mirror[2])
  PROVE  CrossingInv'
<1> DEFINE m == message
           to == mirror[2]
           fields == DOMAIN m.form.fields
           value == [f \in DOMAIN to.fields |->
                       IF f \in DOMAIN m.value THEN m.value[f] ELSE to.fields[f].absent]
<1>1. /\ m.hops = 0 /\ <<m.form, to>> \in Mirrors
      /\ m' = [m EXCEPT !.hops = MaxRelays, !.form = to, !.value = value]
  BY DEF Wires!HandOver
<1>2. Wires!MirrorAgrees(m.form, to)
  BY <1>1 DEF Wires!Agreeing
<1>3. /\ DOMAIN m' = {"hops", "form", "value", "wire", "old", "new"}
      /\ m'.hops = MaxRelays /\ m'.form = to /\ m'.value = value /\ m'.wire = m.wire
      /\ m'.old = m.old /\ m'.new = m.new
  BY <1>1 DEF Intact
<1>4. /\ DOMAIN value = DOMAIN to.fields
      /\ \A f \in DOMAIN to.fields :
           value[f] = IF f \in DOMAIN m.value THEN m.value[f] ELSE to.fields[f].absent
  OBVIOUS
<1> HIDE DEF value
<1>5. /\ m.wire = Wires!Write(m.form, m.value) /\ Wires!Fits(m.form, m.value)
      /\ m.old = FALSE /\ m.new = FALSE /\ DOMAIN m.value = fields
  BY <1>1 DEF Relayed, Intact
<1>6. /\ DOMAIN m.wire \subseteq fields
      /\ \A f \in fields : Wires!At(m.wire, f) = Wires!Written(m.form.fields[f], m.value[f])
  BY <1>5, WriteAt
<1>7. ASSUME NEW f \in DOMAIN to.fields
      PROVE  /\ to.fields[f].values \subseteq Plain
             /\ Taken(m', f) \in to.fields[f].values
             /\ Wires!Alike(to.fields[f], Taken(m', f), Meant(m', f))
  <2>1. Taken(m', f) = Wires!ReadAs(to.fields[f], Wires!At(m.wire, f)) /\ Meant(m', f) = value[f]
    BY <1>3, <1>5 DEF Taken, Meant
  <2>2. CASE f \in fields
    <3>1. Wires!FieldAgrees(m.form.fields[f], to.fields[f]) /\ m.value[f] \in m.form.fields[f].values
      BY <1>2, <1>5, <2>2 DEF Wires!MirrorAgrees, Wires!Fits
    <3>2. Taken(m', f) = Wires!ReadAs(to.fields[f], Wires!Written(m.form.fields[f], m.value[f]))
      BY <1>6, <2>1, <2>2
    <3>3. Meant(m', f) = m.value[f]
      BY <1>4, <1>5, <2>1, <2>2
    <3>4. to.fields[f].values \subseteq Plain
      BY <1>2 DEF Wires!MirrorAgrees, Plain
    <3> QED
      BY <3>1, <3>2, <3>3, <3>4 DEF Wires!FieldAgrees
  <2>3. CASE f \notin fields
    <3>1. Wires!At(m.wire, f) = "absent"
      BY <1>6, <2>3 DEF Wires!At
    <3>2. Taken(m', f) = to.fields[f].absent /\ Meant(m', f) = to.fields[f].absent
      BY <1>4, <1>5, <2>1, <2>3, <3>1 DEF Wires!ReadAs
    <3>3. to.fields[f].absent \in to.fields[f].values /\ to.fields[f].values \subseteq Plain
      BY <1>2, <2>3 DEF Wires!MirrorAgrees, Plain
    <3> QED
      BY <3>2, <3>3 DEF Wires!Alike
  <2> QED
    BY <2>2, <2>3
<1>8. to.unknown = "refused" => DOMAIN m.wire \subseteq DOMAIN to.fields
  BY <1>2, <1>6 DEF Wires!MirrorAgrees
<1>9. Wires!Added \notin DOMAIN to.fields
  BY <1>2 DEF Wires!MirrorAgrees
<1>10. \A f \in DOMAIN m'.wire : m'.wire[f] # "refused"
  BY <1>3 DEF Intact
<1>11. Intact(m')
  BY <1>3, <1>4, <1>7, <1>8, <1>9, <1>10, RelayAssumption DEF Intact
<1>12. Relayed(m')
  BY <1>3, RelayAssumption DEF Relayed
<1> QED
  BY <1>11, <1>12 DEF CrossingInv, Intact, Relayed, Taken, Meant

LEMMA CrossingStep ==
  ASSUME Wires!Agreeing, CrossingInv, Wires!Next
  PROVE  CrossingInv'
<1>1. ASSUME Wires!OriginateSome PROVE CrossingInv'
  BY <1>1, OriginateKeeps DEF Wires!OriginateSome
<1>2. ASSUME message.hops \in Nat PROVE Intact(message) /\ Relayed(message)
  BY <1>2 DEF CrossingInv, Wires!Nothing
<1>3. ASSUME Intact(message') /\ Relayed(message') PROVE CrossingInv'
  BY <1>3 DEF CrossingInv, Intact, Relayed, Taken, Meant
<1>4. ASSUME Wires!Relay PROVE CrossingInv'
  BY <1>2, <1>3, <1>4, RelayKeeps, RelayAssumption DEF Wires!Relay
<1>5. ASSUME Wires!RelayOlder PROVE CrossingInv'
  BY <1>2, <1>3, <1>5, RelayOlderKeeps, RelayAssumption DEF Wires!RelayOlder
<1>6. ASSUME Wires!RelayNewer PROVE CrossingInv'
  BY <1>2, <1>3, <1>6, RelayNewerKeeps, RelayAssumption DEF Wires!RelayNewer
<1>7. ASSUME NEW mirror \in Mirrors, Wires!HandOver(mirror[2]) PROVE CrossingInv'
  <2>1. message.hops = 0
    BY <1>7 DEF Wires!HandOver
  <2>2. Intact(message) /\ Relayed(message)
    BY <1>2, <2>1
  <2> QED
    BY <1>7, <2>2, HandOverKeeps
<1> QED
  BY <1>1, <1>4, <1>5, <1>6, <1>7 DEF Wires!Next

\* Where the declarations agree field by field, any value of any of the types is understood
\* as it was meant, or refused whole, through any number of relays of any versions, and in
\* the type another program has for it.
THEOREM ValuesDoSurvive ==
  ASSUME Wires!Agreeing
  PROVE  JourneySpec => []ValuesSurvive
<1> DEFINE Inv == machine = "crossing" => CrossingInv
<1>1. JourneyInit => Inv
  BY DEF JourneyInit, CrossingInit, Wires!Init, CrossingInv
<1>2. Inv /\ [JourneyNext]_journeyVars => Inv'
  <2> SUFFICES ASSUME Inv, [JourneyNext]_journeyVars, machine' = "crossing" PROVE CrossingInv'
    OBVIOUS
  <2>1. machine = "crossing"
    BY DEF JourneyNext, journeyVars
  <2>2. CASE JourneyNext
    BY <2>1, <2>2, CrossingStep DEF JourneyNext
  <2>3. CASE UNCHANGED journeyVars
    BY <2>1, <2>3 DEF journeyVars, crossingVars, CrossingInv, Intact, Relayed, Taken, Meant
  <2> QED
    BY <2>2, <2>3
<1>3. Inv => ValuesSurvive
  <2> SUFFICES ASSUME CrossingInv PROVE Wires!Survives /\ Wires!DeclaredAlike
    BY DEF ValuesSurvive
  <2>1. Wires!DeclaredAlike
    BY DEF Wires!DeclaredAlike
  <2>2. CASE message = Wires!Nothing
    BY <2>1, <2>2 DEF Wires!Survives
  <2>3. CASE Intact(message)
    BY <2>1, <2>3, IntactSurvives
  <2> QED
    BY <2>2, <2>3 DEF CrossingInv
<1> QED
  BY <1>1, <1>2, <1>3, PTL DEF JourneySpec

--------------------------------------------------------------------------------
(* SubjectIdentity: crossing a process boundary is a change of form.         *)

MaybeRef == Subjects!Refs \cup {None}

\* The field by field reading of a subject.
LEMMA RefFields ==
  ASSUME NEW ref \in Subjects!Refs
  PROVE  /\ ref.kind \in Kinds /\ ref.id \in Texts
         /\ ref.title \in Texts \cup {None} /\ ref.description \in Texts \cup {None}
         /\ ref.labelled \in BOOLEAN /\ ref.metadata \in {"null", "{}", "some"}
         /\ ref # None
  BY SubjectAssumption DEF Subjects!SubjectConstants, Subjects!Refs

\* What a subject in the legacy form is read as.
LEMMA LegacyCrossed ==
  ASSUME NEW ref \in Subjects!Refs, Subjects!CanSerializeAsLegacy(ref)
  PROVE  Subjects!Crossed(ref) =
           IF FoldedKind[ref.kind] = Subjects!TASK THEN Subjects!Task(ref.id)
           ELSE IF FoldedKind[ref.kind] = Subjects!REQUIREMENT THEN Subjects!Requirement(ref.id)
           ELSE Subjects!Custom(Subjects!OrElse(ref.title, ref.id),
                                Subjects!OrElse(ref.description, ""))
<1>1. ref # None
  BY RefFields
<1>2. CASE FoldedKind[ref.kind] = Subjects!TASK
  BY <1>1, <1>2 DEF Subjects!Crossed, Subjects!ToWire, Subjects!FromWire, Subjects!ToWorkflowSubject,
                    Subjects!FromWorkflowSubject, Subjects!IsKind
<1>3. CASE FoldedKind[ref.kind] # Subjects!TASK /\ FoldedKind[ref.kind] = Subjects!REQUIREMENT
  BY <1>1, <1>3 DEF Subjects!Crossed, Subjects!ToWire, Subjects!FromWire, Subjects!ToWorkflowSubject,
                    Subjects!FromWorkflowSubject, Subjects!IsKind
<1>4. CASE FoldedKind[ref.kind] # Subjects!TASK /\ FoldedKind[ref.kind] # Subjects!REQUIREMENT
  BY <1>1, <1>4 DEF Subjects!Crossed, Subjects!ToWire, Subjects!FromWire, Subjects!ToWorkflowSubject,
                    Subjects!FromWorkflowSubject, Subjects!IsKind
<1> QED
  BY <1>2, <1>3, <1>4

\* What one in the full form is read as.
LEMMA FullCrossed ==
  ASSUME NEW ref \in Subjects!Refs, ~Subjects!CanSerializeAsLegacy(ref)
  PROVE  Subjects!Crossed(ref) =
           [ref EXCEPT !.metadata = IF ref.metadata = "null" THEN "{}" ELSE ref.metadata]
<1>1. ref # None
  BY RefFields
<1> QED
  BY <1>1 DEF Subjects!Crossed, Subjects!ToWire, Subjects!FromWire

\* A subject in the legacy form keeps its kind but for the case, and its id but for a
\* titled custom one; what it has become is in the legacy form for good.
LEMMA LegacyKeeps ==
  ASSUME NEW ref \in Subjects!Refs, Subjects!CanSerializeAsLegacy(ref)
  PROVE  LET next == Subjects!Crossed(ref) IN
         /\ next \in Subjects!Refs /\ Subjects!CanSerializeAsLegacy(next)
         /\ FoldedKind[next.kind] = FoldedKind[ref.kind]
         /\ ~Subjects!Titled(ref) => next.id = ref.id
         /\ ~Subjects!Titled(next)
         /\ Subjects!Crossed(next) = next
<1> DEFINE next == Subjects!Crossed(ref)
<1>0. /\ Subjects!TASK \in Kinds /\ FoldedKind[Subjects!TASK] = Subjects!TASK
      /\ Subjects!REQUIREMENT \in Kinds /\ FoldedKind[Subjects!REQUIREMENT] = Subjects!REQUIREMENT
      /\ Subjects!CUSTOM \in Kinds /\ FoldedKind[Subjects!CUSTOM] = Subjects!CUSTOM
      /\ "" \in Texts /\ None \notin Texts
  BY SubjectAssumption DEF Subjects!SubjectConstants, Subjects!BuiltIn
<1>1. FoldedKind[ref.kind] \in {Subjects!TASK, Subjects!REQUIREMENT, Subjects!CUSTOM}
  BY DEF Subjects!CanSerializeAsLegacy, Subjects!BuiltIn
<1> HIDE DEF next
<1>2. CASE FoldedKind[ref.kind] = Subjects!TASK
  <2>1. next = Subjects!Task(ref.id)
    BY <1>2, LegacyCrossed DEF next
  <2>2. next \in Subjects!Refs /\ next.kind = Subjects!TASK /\ next.id = ref.id
    BY <1>0, <2>1, RefFields DEF Subjects!Task, Subjects!Ref, Subjects!Refs
  <2>3. Subjects!CanSerializeAsLegacy(next)
    BY <1>0, <2>1, <2>2 DEF Subjects!Task, Subjects!Ref, Subjects!CanSerializeAsLegacy, Subjects!BuiltIn
  <2>4. Subjects!Crossed(next) = next
    BY <1>0, <2>1, <2>2, <2>3, LegacyCrossed
  <2>5. ~Subjects!Titled(next)
    BY <1>0, <2>2 DEF Subjects!Titled, Subjects!IsKind, Subjects!TASK, Subjects!CUSTOM
  <2> QED
    BY <1>0, <1>2, <2>2, <2>3, <2>4, <2>5 DEF next
<1>3. CASE FoldedKind[ref.kind] = Subjects!REQUIREMENT
  <2>0. FoldedKind[ref.kind] # Subjects!TASK
    BY <1>3 DEF Subjects!TASK, Subjects!REQUIREMENT
  <2>1. next = Subjects!Requirement(ref.id)
    BY <1>3, <2>0, LegacyCrossed DEF next
  <2>2. next \in Subjects!Refs /\ next.kind = Subjects!REQUIREMENT /\ next.id = ref.id
    BY <1>0, <2>1, RefFields DEF Subjects!Requirement, Subjects!Ref, Subjects!Refs
  <2>3. Subjects!CanSerializeAsLegacy(next)
    BY <1>0, <2>1, <2>2 DEF Subjects!Requirement, Subjects!Ref, Subjects!CanSerializeAsLegacy, Subjects!BuiltIn
  <2>4. Subjects!Crossed(next) = next
    BY <1>0, <1>3, <2>0, <2>1, <2>2, <2>3, LegacyCrossed
  <2>5. ~Subjects!Titled(next)
    BY <1>0, <2>2 DEF Subjects!Titled, Subjects!IsKind, Subjects!REQUIREMENT, Subjects!CUSTOM
  <2> QED
    BY <1>0, <1>3, <2>2, <2>3, <2>4, <2>5 DEF next
<1>4. CASE FoldedKind[ref.kind] = Subjects!CUSTOM
  <2> DEFINE title == Subjects!OrElse(ref.title, ref.id)
             words == Subjects!OrElse(ref.description, "")
  <2>0. FoldedKind[ref.kind] # Subjects!TASK /\ FoldedKind[ref.kind] # Subjects!REQUIREMENT
    BY <1>4 DEF Subjects!TASK, Subjects!REQUIREMENT, Subjects!CUSTOM
  <2>1. next = Subjects!Custom(title, words)
    BY <2>0, LegacyCrossed DEF next
  <2>2. title \in Texts /\ words \in Texts
    BY <1>0, RefFields DEF Subjects!OrElse
  <2> HIDE DEF title, words
  <2>3. /\ next \in Subjects!Refs /\ next.kind = Subjects!CUSTOM /\ next.id = title
        /\ next.title = title /\ next.description = words
        /\ next.labelled = FALSE /\ next.metadata = "{}"
    BY <1>0, <2>1, <2>2 DEF Subjects!Custom, Subjects!Ref, Subjects!Refs
  <2>4. Subjects!CanSerializeAsLegacy(next)
    BY <1>0, <2>3 DEF Subjects!CanSerializeAsLegacy, Subjects!BuiltIn
  <2>5. FoldedKind[next.kind] = Subjects!CUSTOM
    BY <1>0, <2>3
  <2>6. Subjects!Crossed(next)
          = Subjects!Custom(Subjects!OrElse(next.title, next.id), Subjects!OrElse(next.description, ""))
    BY <1>4, <2>0, <2>3, <2>4, <2>5, LegacyCrossed
  <2>7. Subjects!Crossed(next) = next
    BY <1>0, <2>1, <2>2, <2>3, <2>6 DEF Subjects!OrElse
  <2>8. ~Subjects!Titled(next)
    BY <2>3 DEF Subjects!Titled
  <2>9. ASSUME ~Subjects!Titled(ref) PROVE next.id = ref.id
    <3>1. ref.title \in {None, ref.id}
      BY <1>4, <2>9, RefFields DEF Subjects!Titled, Subjects!IsKind
    <3> QED
      BY <2>3, <3>1 DEF Subjects!OrElse, title
  <2> QED
    BY <1>4, <2>3, <2>4, <2>5, <2>7, <2>8, <2>9 DEF next
<1> QED
  BY <1>1, <1>2, <1>3, <1>4 DEF next

\* In the full form nothing is lost but the difference of null and no metadata.
LEMMA FullKeeps ==
  ASSUME NEW ref \in Subjects!Refs, ~Subjects!CanSerializeAsLegacy(ref)
  PROVE  LET next == Subjects!Crossed(ref) IN
         /\ next \in Subjects!Refs /\ ~Subjects!CanSerializeAsLegacy(next)
         /\ next.kind = ref.kind /\ next.id = ref.id
         /\ Subjects!Crossed(next) = next
<1> DEFINE next == Subjects!Crossed(ref)
           meta == IF ref.metadata = "null" THEN "{}" ELSE ref.metadata
<1>1. next = [ref EXCEPT !.metadata = meta]
  BY FullCrossed
<1>2. meta \in {"{}", "some"} /\ (meta = "{}" => ref.metadata \in {"null", "{}"})
  BY RefFields
<1> HIDE DEF meta, next
<1>3. /\ next \in Subjects!Refs /\ next.kind = ref.kind /\ next.id = ref.id
      /\ next.labelled = ref.labelled /\ next.metadata = meta
  BY <1>1, <1>2 DEF Subjects!Refs
<1>4. ~Subjects!CanSerializeAsLegacy(next)
  BY <1>2, <1>3 DEF Subjects!CanSerializeAsLegacy
<1>5. Subjects!Crossed(next)
        = [next EXCEPT !.metadata = IF next.metadata = "null" THEN "{}" ELSE next.metadata]
  BY <1>3, <1>4, FullCrossed
<1>6. Subjects!Crossed(next) = next
  BY <1>2, <1>3, <1>5 DEF Subjects!Refs
<1> QED
  BY <1>3, <1>4, <1>6 DEF next

\* What a subject is known by depends on its id, and its kind without its case, and where
\* the kind is not built in, on the kind.
LEMMA SameIdentity ==
  ASSUME NEW ref \in Subjects!Refs, NEW next \in Subjects!Refs,
         next.id = ref.id, FoldedKind[next.kind] = FoldedKind[ref.kind],
         FoldedKind[ref.kind] \in Subjects!BuiltIn \/ next.kind = ref.kind
  PROVE  Subjects!Identity(next) = Subjects!Identity(ref)
<1>1. Subjects!SubjectKey(next) = Subjects!SubjectKey(ref)
  BY DEF Subjects!SubjectKey
<1>2. Subjects!TaskId(next) = Subjects!TaskId(ref)
  BY DEF Subjects!TaskId, Subjects!IdIf, Subjects!IsKind
<1>3. Subjects!RequirementId(next) = Subjects!RequirementId(ref)
  BY DEF Subjects!RequirementId, Subjects!IdIf, Subjects!IsKind
<1>4. Subjects!ScheduleId(next) = Subjects!ScheduleId(ref)
  BY DEF Subjects!ScheduleId, Subjects!IsKind
<1>5. ref # None /\ next # None
  BY RefFields
<1> QED
  BY <1>1, <1>2, <1>3, <1>4, <1>5 DEF Subjects!Identity

\* One more crossing: the identity stays, and a second time nothing changes at all.
LEMMA CrossedKeeps ==
  ASSUME NEW ref \in MaybeRef
  PROVE  /\ Subjects!Crossed(ref) \in MaybeRef
         /\ ~Subjects!Titled(ref) =>
              /\ ~Subjects!Titled(Subjects!Crossed(ref))
              /\ Subjects!Identity(Subjects!Crossed(ref)) = Subjects!Identity(ref)
         /\ Subjects!Crossed(Subjects!Crossed(ref)) = Subjects!Crossed(ref)
<1> DEFINE next == Subjects!Crossed(ref)
<1>1. CASE ref = None
  BY <1>1 DEF Subjects!Crossed, MaybeRef
<1>2. CASE ref # None /\ Subjects!CanSerializeAsLegacy(ref)
  <2>1. ref \in Subjects!Refs
    BY <1>2 DEF MaybeRef
  <2>2. FoldedKind[ref.kind] \in Subjects!BuiltIn
    BY <1>2 DEF Subjects!CanSerializeAsLegacy
  <2>3. /\ next \in Subjects!Refs /\ FoldedKind[next.kind] = FoldedKind[ref.kind]
        /\ ~Subjects!Titled(ref) => next.id = ref.id
        /\ ~Subjects!Titled(next) /\ Subjects!Crossed(next) = next
    BY <1>2, <2>1, LegacyKeeps
  <2> HIDE DEF next
  <2>4. ~Subjects!Titled(ref) => Subjects!Identity(next) = Subjects!Identity(ref)
    BY <2>1, <2>2, <2>3, SameIdentity
  <2> QED
    BY <2>3, <2>4 DEF MaybeRef, next
<1>3. CASE ref # None /\ ~Subjects!CanSerializeAsLegacy(ref)
  <2>1. ref \in Subjects!Refs
    BY <1>3 DEF MaybeRef
  <2>2. /\ next \in Subjects!Refs /\ ~Subjects!CanSerializeAsLegacy(next)
        /\ next.kind = ref.kind /\ next.id = ref.id /\ Subjects!Crossed(next) = next
    BY <1>3, <2>1, FullKeeps
  <2> HIDE DEF next
  <2>3. Subjects!Identity(next) = Subjects!Identity(ref)
    BY <2>1, <2>2, SameIdentity
  <2>4. ~Subjects!Titled(next)
    BY <2>2 DEF Subjects!Titled
  <2> QED
    BY <2>2, <2>3, <2>4 DEF MaybeRef, next
<1> QED
  BY <1>1, <1>2, <1>3

\* What its run carries: any subject, and the fields made of one.
RunInputs == [subject : MaybeRef, task_id : Texts, requirement_id : Texts \cup {None},
              title : Texts \cup {None}, description : Texts \cup {None}]

\* A titled custom subject may have become another one.
KnownAs(ref) ==
  ~Subjects!Titled(sent) => ~Subjects!Titled(ref) /\ Subjects!Identity(ref) = Subjects!Identity(sent)

Canonical(ref) ==
  ref # None /\ FoldedKind[ref.kind] \in Subjects!BuiltIn => ref.kind \in Subjects!BuiltIn

\* The fields that were made of the dispatch's subject.
MadeOf(made, ref) ==
  Canonical(ref) =>
    /\ made.task_id = IF ref = None THEN "" ELSE Subjects!OrElse(Subjects!TaskId(ref), "")
    /\ made.requirement_id = IF ref = None THEN None ELSE Subjects!RequirementId(ref)

SubjectInv ==
  /\ hops \in Nat /\ sent \in MaybeRef /\ dispatch \in MaybeRef
  /\ KnownAs(dispatch)
  /\ runInput # None =>
       /\ hops # 0 /\ runInput \in RunInputs
       /\ KnownAs(runInput.subject)
       /\ Subjects!Crossed(runInput.subject) = Subjects!Crossed(dispatch)
       /\ MadeOf(runInput, dispatch)

\* The input of a run has the dispatch's subject, and of a canonical one its ids.
LEMMA InputMade ==
  ASSUME NEW ref \in MaybeRef
  PROVE  LET made == Subjects!ToWorkflowRunInput(ref) IN
         made \in RunInputs /\ made.subject = ref /\ MadeOf(made, ref)
<1> DEFINE made == Subjects!ToWorkflowRunInput(ref)
<1>0. /\ Subjects!TASK \in Kinds /\ FoldedKind[Subjects!TASK] = Subjects!TASK
      /\ Subjects!REQUIREMENT \in Kinds /\ FoldedKind[Subjects!REQUIREMENT] = Subjects!REQUIREMENT
      /\ Subjects!CUSTOM \in Kinds /\ FoldedKind[Subjects!CUSTOM] = Subjects!CUSTOM
      /\ "" \in Texts /\ None \notin Texts
  BY SubjectAssumption DEF Subjects!SubjectConstants, Subjects!BuiltIn
<1>1. CASE ref = None
  <2>1. made = [Subjects!Subjectless EXCEPT !.subject = ref]
    BY <1>1 DEF Subjects!ToWorkflowRunInput
  <2> QED
    BY <1>0, <1>1, <2>1 DEF Subjects!Subjectless, RunInputs, MadeOf, MaybeRef
<1>2. CASE ref # None /\ ref.kind = Subjects!TASK
  <2>1. made = [Subjects!ForSubject(Subjects!Task(ref.id)) EXCEPT !.subject = ref]
    BY <1>2 DEF Subjects!ToWorkflowRunInput, Subjects!TASK, Subjects!REQUIREMENT
  <2>2. ref.id \in Texts
    BY <1>2, RefFields DEF MaybeRef
  <2>3. made = [subject |-> ref, task_id |-> ref.id, requirement_id |-> None,
                title |-> None, description |-> None]
    BY <1>0, <2>1, <2>2 DEF Subjects!ForSubject, Subjects!Task, Subjects!Ref, Subjects!OrElse,
         Subjects!TaskId, Subjects!RequirementId, Subjects!IdIf, Subjects!IsKind,
         Subjects!TASK, Subjects!REQUIREMENT
  <2>4. Subjects!OrElse(Subjects!TaskId(ref), "") = ref.id /\ Subjects!RequirementId(ref) = None
    BY <1>0, <1>2, <2>2 DEF Subjects!OrElse, Subjects!TaskId, Subjects!RequirementId,
         Subjects!IdIf, Subjects!IsKind, Subjects!TASK, Subjects!REQUIREMENT
  <2> HIDE DEF made
  <2>5. made \in RunInputs /\ made.subject = ref
    BY <1>0, <2>2, <2>3 DEF RunInputs
  <2>6. MadeOf(made, ref)
    BY <1>2, <2>3, <2>4 DEF MadeOf
  <2> QED
    BY <2>5, <2>6 DEF made
<1>3. CASE ref # None /\ ref.kind = Subjects!REQUIREMENT
  <2>1. made = [Subjects!ForSubject(Subjects!Requirement(ref.id)) EXCEPT !.subject = ref]
    BY <1>3 DEF Subjects!ToWorkflowRunInput, Subjects!TASK, Subjects!REQUIREMENT
  <2>2. ref.id \in Texts
    BY <1>3, RefFields DEF MaybeRef
  <2>3. made = [subject |-> ref, task_id |-> "", requirement_id |-> ref.id,
                title |-> None, description |-> None]
    BY <1>0, <2>1, <2>2 DEF Subjects!ForSubject, Subjects!Requirement, Subjects!Ref, Subjects!OrElse,
         Subjects!TaskId, Subjects!RequirementId, Subjects!IdIf, Subjects!IsKind,
         Subjects!TASK, Subjects!REQUIREMENT
  <2>4. Subjects!OrElse(Subjects!TaskId(ref), "") = "" /\ Subjects!RequirementId(ref) = ref.id
    BY <1>0, <1>3, <2>2 DEF Subjects!OrElse, Subjects!TaskId, Subjects!RequirementId,
         Subjects!IdIf, Subjects!IsKind, Subjects!TASK, Subjects!REQUIREMENT
  <2> HIDE DEF made
  <2>5. made \in RunInputs /\ made.subject = ref
    BY <1>0, <2>2, <2>3 DEF RunInputs
  <2>6. MadeOf(made, ref)
    BY <1>0, <1>3, <2>3, <2>4 DEF MadeOf
  <2> QED
    BY <2>5, <2>6 DEF made
<1>4. CASE ref # None /\ ref.kind # Subjects!TASK /\ ref.kind # Subjects!REQUIREMENT
  <2> DEFINE title == Subjects!OrElse(ref.title, ref.id)
             words == Subjects!OrElse(ref.description, "")
  <2>1. made = [Subjects!ForSubject(Subjects!Custom(title, words)) EXCEPT !.subject = ref]
    BY <1>4 DEF Subjects!ToWorkflowRunInput
  <2>2. title \in Texts /\ words \in Texts
    BY <1>0, <1>4, RefFields DEF Subjects!OrElse, MaybeRef
  <2> HIDE DEF title, words
  <2>3. made = [subject |-> ref, task_id |-> "", requirement_id |-> None,
                title |-> title, description |-> words]
    BY <1>0, <2>1, <2>2 DEF Subjects!ForSubject, Subjects!Custom, Subjects!Ref, Subjects!OrElse,
         Subjects!TaskId, Subjects!RequirementId, Subjects!IdIf, Subjects!IsKind,
         Subjects!TASK, Subjects!REQUIREMENT, Subjects!CUSTOM
  <2>4. ASSUME Canonical(ref)
        PROVE  Subjects!OrElse(Subjects!TaskId(ref), "") = "" /\ Subjects!RequirementId(ref) = None
    <3>1. FoldedKind[ref.kind] # Subjects!TASK /\ FoldedKind[ref.kind] # Subjects!REQUIREMENT
      BY <1>0, <1>4, <2>4 DEF Canonical, Subjects!BuiltIn, Subjects!TASK, Subjects!REQUIREMENT,
           Subjects!CUSTOM
    <3> QED
      BY <3>1 DEF Subjects!OrElse, Subjects!TaskId, Subjects!RequirementId, Subjects!IdIf,
           Subjects!IsKind
  <2> HIDE DEF made
  <2>5. made \in RunInputs /\ made.subject = ref
    BY <1>0, <2>2, <2>3 DEF RunInputs
  <2>6. MadeOf(made, ref)
    BY <1>0, <1>4, <2>3, <2>4 DEF MadeOf
  <2> QED
    BY <2>5, <2>6 DEF made
<1> QED
  BY <1>1, <1>2, <1>3, <1>4

LEMMA SubjectStep ==
  ASSUME SubjectInv, Subjects!Next
  PROVE  SubjectInv'
<1>1. ASSUME NEW ref \in MaybeRef, Subjects!Dispatch(ref) PROVE SubjectInv'
  <2>1. runInput = None
    BY <1>1 DEF SubjectInv, Subjects!Dispatch
  <2> QED
    BY <1>1, <2>1 DEF SubjectInv, Subjects!Dispatch, KnownAs
<1>2. ASSUME Subjects!Cross, runInput = None PROVE SubjectInv'
  <2>1. /\ dispatch' = Subjects!Crossed(dispatch) /\ runInput' = None /\ sent' = sent
        /\ hops' \in Nat
    BY <1>2 DEF Subjects!Cross, SubjectInv
  <2>2. dispatch' \in MaybeRef /\ KnownAs(dispatch)'
    BY <2>1, CrossedKeeps DEF SubjectInv, KnownAs
  <2> QED
    BY <2>1, <2>2 DEF SubjectInv
<1>3. ASSUME Subjects!Cross, runInput # None PROVE SubjectInv'
  <2> DEFINE subject == runInput.subject
  <2>1. /\ runInput' = [runInput EXCEPT !.subject = Subjects!Crossed(subject)]
        /\ UNCHANGED <<sent, dispatch>> /\ hops' \in Nat /\ hops' # 0
    BY <1>3 DEF Subjects!Cross, SubjectInv
  <2>2. /\ subject \in MaybeRef /\ runInput \in RunInputs /\ KnownAs(subject)
        /\ Subjects!Crossed(subject) = Subjects!Crossed(dispatch) /\ MadeOf(runInput, dispatch)
    BY <1>3 DEF SubjectInv, RunInputs
  <2> HIDE DEF subject
  <2>3. Subjects!Crossed(subject) \in MaybeRef
    BY <2>2, CrossedKeeps
  <2>4. /\ runInput' \in RunInputs /\ runInput'.subject = Subjects!Crossed(subject)
        /\ runInput'.task_id = runInput.task_id
        /\ runInput'.requirement_id = runInput.requirement_id
    BY <2>1, <2>2, <2>3 DEF RunInputs
  <2>5. KnownAs(runInput.subject)'
    BY <2>1, <2>2, <2>4, CrossedKeeps DEF KnownAs
  <2>6. (Subjects!Crossed(runInput.subject) = Subjects!Crossed(dispatch))'
    <3>1. Subjects!Crossed(runInput'.subject) = Subjects!Crossed(subject)
      BY <2>2, <2>4, CrossedKeeps
    <3> QED
      BY <2>1, <2>2, <3>1
  <2>7. MadeOf(runInput, dispatch)'
    BY <2>1, <2>2, <2>4 DEF MadeOf, Canonical
  <2>8. KnownAs(dispatch)' /\ sent' \in MaybeRef /\ dispatch' \in MaybeRef
    BY <2>1 DEF KnownAs, SubjectInv
  <2> QED
    BY <2>1, <2>4, <2>5, <2>6, <2>7, <2>8 DEF SubjectInv
<1>4. ASSUME Subjects!MakeInput PROVE SubjectInv'
  <2>1. /\ runInput' = Subjects!ToWorkflowRunInput(dispatch)
        /\ UNCHANGED <<sent, dispatch, hops>> /\ hops # 0
    BY <1>4 DEF Subjects!MakeInput, SubjectInv
  <2>2. runInput' \in RunInputs /\ runInput'.subject = dispatch /\ MadeOf(runInput', dispatch)
    BY <2>1, InputMade DEF SubjectInv
  <2>3. MadeOf(runInput, dispatch)'
    BY <2>1, <2>2 DEF MadeOf, Canonical
  <2>4. KnownAs(dispatch)' /\ KnownAs(runInput.subject)'
    BY <2>1, <2>2 DEF KnownAs, SubjectInv
  <2> QED
    BY <2>1, <2>2, <2>3, <2>4 DEF SubjectInv
<1> QED
  BY <1>1, <1>2, <1>3, <1>4 DEF Subjects!Next, MaybeRef

\* However often a subject crosses, in whichever form and spelling, before and after its
\* run's input is made of it, it is known by the same keys and ids, and the input has them.
THEOREM IdentityIsKept == JourneySpec => []IdentityKept
<1> DEFINE Inv == machine = "subject" => SubjectInv
<1>1. JourneyInit => Inv
  <2> SUFFICES ASSUME JourneyInit, machine = "subject" PROVE SubjectInv
    OBVIOUS
  <2>1. sent = None /\ dispatch = None /\ runInput = None /\ hops = 0
    BY DEF JourneyInit, SubjectInit, Subjects!Init
  <2> QED
    BY <2>1 DEF SubjectInv, MaybeRef, KnownAs
<1>2. Inv /\ [JourneyNext]_journeyVars => Inv'
  <2> SUFFICES ASSUME Inv, [JourneyNext]_journeyVars, machine' = "subject" PROVE SubjectInv'
    OBVIOUS
  <2>1. machine = "subject"
    BY DEF JourneyNext, journeyVars
  <2>2. CASE JourneyNext
    BY <2>1, <2>2, SubjectStep DEF JourneyNext
  <2>3. CASE UNCHANGED journeyVars
    BY <2>1, <2>3 DEF journeyVars, subjectVars, SubjectInv, KnownAs, MadeOf, Canonical
  <2> QED
    BY <2>2, <2>3
<1>3. Inv => IdentityKept
  BY DEF IdentityKept, SubjectInv, Subjects!IdentitySurvives, Subjects!RunKnowsSubject, KnownAs,
         MadeOf, Canonical
<1> QED
  BY <1>1, <1>2, <1>3, PTL DEF JourneySpec

--------------------------------------------------------------------------------
(* RunProvider: sequences of frames, of texts and of lists.                  *)

\* A sequence, without the set its members are of.
IsSeq(s) == Runner!IsSeq(s)
ItemsOf(s) == {s[i] : i \in 1..Len(s)}

\* Such a sequence is one over the set of its members.
LEMMA SeqTyped ==
  ASSUME NEW s, IsSeq(s)
  PROVE  /\ s \in Seq(ItemsOf(s)) /\ Len(s) \in Nat /\ DOMAIN s = 1..Len(s)
         /\ Len(s) = 0 => s = <<>>
<1>1. Len(s) \in Nat /\ s = [i \in 1..Len(s) |-> s[i]]
  BY DEF IsSeq, Runner!IsSeq
<1>2. s \in [1..Len(s) -> ItemsOf(s)]
  BY <1>1 DEF ItemsOf
<1>3. s \in Seq(ItemsOf(s))
  BY <1>1, <1>2, IsASeq
<1> QED
  BY <1>1, <1>3, EmptySeq, LenProperties

\* A sequence over a set is one.
LEMMA SeqIs ==
  ASSUME NEW S, NEW s \in Seq(S)
  PROVE  IsSeq(s)
  BY LenProperties DEF IsSeq, Runner!IsSeq

\* A member behind a sequence.
LEMMA Appended ==
  ASSUME NEW s, NEW e, IsSeq(s)
  PROVE  LET t == Append(s, e) IN
         /\ IsSeq(t) /\ Len(t) = Len(s) + 1 /\ DOMAIN t = 1..Len(s) + 1
         /\ \A i \in DOMAIN s : t[i] = s[i]
         /\ t[Len(s) + 1] = e
<1> DEFINE S == ItemsOf(s) \cup {e}
<1>1. s \in Seq(ItemsOf(s)) /\ Len(s) \in Nat /\ DOMAIN s = 1..Len(s)
  BY SeqTyped
<1>2. s \in Seq(S) /\ e \in S
  BY <1>1, SeqMonotonic
<1> HIDE DEF S
<1>3. /\ Append(s, e) \in Seq(S) /\ Len(Append(s, e)) = Len(s) + 1
      /\ \A i \in 1..Len(s) : Append(s, e)[i] = s[i]
      /\ Append(s, e)[Len(s) + 1] = e
  BY <1>2, AppendProperties
<1>4. IsSeq(Append(s, e)) /\ DOMAIN Append(s, e) = 1..Len(s) + 1
  BY <1>3, SeqIs, LenProperties
<1> QED
  BY <1>1, <1>3, <1>4

\* A sequence behind another.
LEMMA Concatenated ==
  ASSUME NEW s, NEW t, IsSeq(s), IsSeq(t)
  PROVE  LET u == s \o t IN
         /\ IsSeq(u) /\ Len(u) = Len(s) + Len(t) /\ DOMAIN u = 1..Len(s) + Len(t)
         /\ \A i \in DOMAIN s : u[i] = s[i]
         /\ \A i \in DOMAIN t : u[Len(s) + i] = t[i]
<1> DEFINE S == ItemsOf(s) \cup ItemsOf(t)
<1>1. /\ s \in Seq(ItemsOf(s)) /\ Len(s) \in Nat /\ DOMAIN s = 1..Len(s)
      /\ t \in Seq(ItemsOf(t)) /\ Len(t) \in Nat /\ DOMAIN t = 1..Len(t)
  BY SeqTyped
<1>2. s \in Seq(S) /\ t \in Seq(S)
  BY <1>1, SeqMonotonic
<1> HIDE DEF S
<1>3. /\ s \o t \in Seq(S) /\ Len(s \o t) = Len(s) + Len(t)
      /\ \A i \in 1..Len(s) + Len(t) : (s \o t)[i] = IF i <= Len(s) THEN s[i] ELSE t[i - Len(s)]
  BY <1>2, ConcatProperties
<1>4. IsSeq(s \o t) /\ DOMAIN (s \o t) = 1..Len(s) + Len(t)
  BY <1>3, SeqIs, LenProperties
<1>5. \A i \in DOMAIN t : (s \o t)[Len(s) + i] = t[i]
  <2> TAKE i \in DOMAIN t
  <2>1. Len(s) + i \in 1..Len(s) + Len(t) /\ ~(Len(s) + i <= Len(s)) /\ (Len(s) + i) - Len(s) = i
    BY <1>1
  <2> QED
    BY <2>1, <1>3
<1> QED
  BY <1>1, <1>3, <1>4, <1>5

\* A sequence without its first member.
LEMMA Shortened ==
  ASSUME NEW s, IsSeq(s), s # <<>>
  PROVE  /\ 1 \in DOMAIN s /\ Head(s) = s[1] /\ IsSeq(Tail(s)) /\ Len(Tail(s)) = Len(s) - 1
         /\ DOMAIN Tail(s) = 1..Len(s) - 1
         /\ \A i \in DOMAIN Tail(s) : i + 1 \in DOMAIN s /\ Tail(s)[i] = s[i + 1]
<1>1. s \in Seq(ItemsOf(s)) /\ Len(s) \in Nat /\ DOMAIN s = 1..Len(s) /\ Len(s) # 0
  BY SeqTyped
<1>2. /\ Head(s) = s[1] /\ Tail(s) \in Seq(ItemsOf(s)) /\ Len(Tail(s)) = Len(s) - 1
      /\ \A i \in 1..Len(Tail(s)) : Tail(s)[i] = s[i + 1]
  BY <1>1, HeadTailProperties
<1>3. IsSeq(Tail(s)) /\ DOMAIN Tail(s) = 1..Len(s) - 1
  BY <1>2, SeqIs, LenProperties
<1> QED
  BY <1>1, <1>2, <1>3

\* The first members of a sequence, as many as are taken of it.
LEMMA Cut ==
  ASSUME NEW s, IsSeq(s), NEW k \in 0..Len(s)
  PROVE  LET t == SubSeq(s, 1, k) IN
         /\ IsSeq(t) /\ DOMAIN t = 1..k /\ \A i \in DOMAIN t : i \in DOMAIN s /\ t[i] = s[i]
         /\ s = <<>> => t = <<>>
<1>1. s \in Seq(ItemsOf(s)) /\ Len(s) \in Nat /\ DOMAIN s = 1..Len(s)
  BY SeqTyped
<1>2. /\ SubSeq(s, 1, k) \in Seq(ItemsOf(s)) /\ Len(SubSeq(s, 1, k)) = k
      /\ \A i \in 1..k : SubSeq(s, 1, k)[i] = s[i]
  BY <1>1, SubSeqProperties
<1>3. IsSeq(SubSeq(s, 1, k)) /\ DOMAIN SubSeq(s, 1, k) = 1..k
  BY <1>2, SeqIs, LenProperties
<1>4. s = <<>> => SubSeq(s, 1, k) = <<>>
  BY <1>1, <1>2, <1>3, SeqTyped
<1> QED
  BY <1>1, <1>2, <1>3, <1>4

\* The sequence everything starts with.
LEMMA NoneYet == IsSeq(<<>>) /\ Len(<<>>) = 0 /\ DOMAIN <<>> = {}
  BY DEF IsSeq, Runner!IsSeq

\* A frame more: the places of other methods are the same, and its own has one more.
LEMMA PlacesOther ==
  ASSUME NEW s, IsSeq(s), NEW f, NEW method, f.method # method
  PROVE  /\ Runner!Places(Append(s, f), method) = Runner!Places(s, method)
         /\ \A i \in Runner!Places(s, method) : Append(s, f)[i] = s[i]
<1> DEFINE t == Append(s, f)
<1>1. /\ DOMAIN t = 1..Len(s) + 1
      /\ \A i \in DOMAIN s : t[i] = s[i]
      /\ t[Len(s) + 1] = f /\ Len(s) \in Nat /\ DOMAIN s = 1..Len(s)
  BY Appended, SeqTyped
<1> HIDE DEF t
<1>2. DOMAIN t = DOMAIN s \cup {Len(s) + 1}
  BY <1>1
<1>3. /\ Runner!Places(t, method) = Runner!Places(s, method)
      /\ \A i \in Runner!Places(s, method) : t[i] = s[i]
  BY <1>1, <1>2 DEF Runner!Places
<1> QED
  BY <1>3 DEF t

\* The place a frame takes is one of its own method.
LEMMA PlacesNext ==
  ASSUME NEW s, IsSeq(s), NEW f
  PROVE  /\ Runner!Places(Append(s, f), f.method) = Runner!Places(s, f.method) \cup {Len(s) + 1}
         /\ \A i \in Runner!Places(s, f.method) : Append(s, f)[i] = s[i] /\ i \in 1..Len(s)
         /\ Append(s, f)[Len(s) + 1] = f
<1> DEFINE t == Append(s, f)
<1>1. /\ DOMAIN t = 1..Len(s) + 1
      /\ \A i \in DOMAIN s : t[i] = s[i]
      /\ t[Len(s) + 1] = f /\ Len(s) \in Nat /\ DOMAIN s = 1..Len(s)
  BY Appended, SeqTyped
<1> HIDE DEF t
<1>2. DOMAIN t = DOMAIN s \cup {Len(s) + 1}
  BY <1>1
<1>3. /\ Runner!Places(t, f.method) = Runner!Places(s, f.method) \cup {Len(s) + 1}
      /\ \A i \in Runner!Places(s, f.method) : t[i] = s[i] /\ i \in 1..Len(s)
  BY <1>1, <1>2 DEF Runner!Places
<1> QED
  BY <1>1, <1>3 DEF t

\* A list is the data of the frames of one method, so one of another leaves it.
LEMMA ListsOther ==
  ASSUME NEW s, IsSeq(s), NEW f, NEW method, f.method # method, NEW list,
         Runner!Lists(s, method, list)
  PROVE  Runner!Lists(Append(s, f), method, list)
<1> DEFINE t == Append(s, f)
<1>1. /\ Runner!Places(t, method) = Runner!Places(s, method)
      /\ \A i \in Runner!Places(s, method) : t[i] = s[i]
  BY PlacesOther
<1> HIDE DEF t
<1>2. Runner!Lists(t, method, list)
  BY <1>1 DEF Runner!Lists
<1> QED
  BY <1>2 DEF t

\* A frame of the method, and its data behind the list.
LEMMA ListsNext ==
  ASSUME NEW s, IsSeq(s), NEW f, NEW list, IsSeq(list), Runner!Lists(s, f.method, list)
  PROVE  Runner!Lists(Append(s, f), f.method, Append(list, f.data))
<1> DEFINE t == Append(s, f)
           more == Append(list, f.data)
           old == Runner!Places(s, f.method)
<1>1. PICK at \in [DOMAIN list -> old] :
        /\ \A i \in old : \E k \in DOMAIN list : at[k] = i
        /\ \A k, l \in DOMAIN list : k < l => at[k] < at[l]
        /\ \A k \in DOMAIN list : list[k] = s[at[k]].data
  BY DEF Runner!Lists
<1>2. /\ Runner!Places(t, f.method) = old \cup {Len(s) + 1}
      /\ \A i \in old : t[i] = s[i] /\ i \in 1..Len(s)
      /\ Len(s) \in Nat /\ t[Len(s) + 1] = f
  BY PlacesNext, SeqTyped
<1>3. /\ Len(list) \in Nat /\ DOMAIN list = 1..Len(list) /\ DOMAIN more = 1..Len(list) + 1
      /\ \A k \in DOMAIN list : more[k] = list[k]
      /\ more[Len(list) + 1] = f.data
  BY Appended, SeqTyped
<1> DEFINE next == [k \in 1..Len(list) + 1 |-> IF k = Len(list) + 1 THEN Len(s) + 1 ELSE at[k]]
<1>4. /\ DOMAIN next = 1..Len(list) + 1 /\ next[Len(list) + 1] = Len(s) + 1
      /\ \A k \in 1..Len(list) : next[k] = at[k] /\ at[k] \in old
  BY <1>1, <1>3
<1>5. next \in [DOMAIN more -> old \cup {Len(s) + 1}]
  BY <1>1, <1>3
<1> HIDE DEF t, more, old, next
<1>6. \A i \in old \cup {Len(s) + 1} : \E k \in DOMAIN more : next[k] = i
  BY <1>1, <1>3, <1>4
<1>7. ASSUME NEW k \in DOMAIN more, NEW l \in DOMAIN more, k < l PROVE next[k] < next[l]
  <2>1. k \in 1..Len(list) /\ next[k] = at[k] /\ at[k] \in 1..Len(s)
    BY <1>2, <1>3, <1>4, <1>7
  <2>2. CASE l = Len(list) + 1
    BY <1>2, <1>4, <2>1, <2>2
  <2>3. CASE l \in 1..Len(list)
    BY <1>1, <1>3, <1>4, <1>7, <2>1, <2>3
  <2> QED
    BY <1>3, <2>2, <2>3
<1>8. \A k \in DOMAIN more : more[k] = t[next[k]].data
  BY <1>1, <1>2, <1>3, <1>4
<1>9. Runner!Lists(t, f.method, more)
  BY <1>2, <1>5, <1>6, <1>7, <1>8 DEF Runner!Lists
<1> QED
  BY <1>9 DEF t, more

\* A text is the pieces of one method, so a frame of another leaves it.
LEMMA JoinsOther ==
  ASSUME NEW s, IsSeq(s), NEW f, NEW method, f.method # method, NEW text,
         Runner!Joins(s, method, text)
  PROVE  Runner!Joins(Append(s, f), method, text)
<1> DEFINE t == Append(s, f)
<1>1. /\ Runner!Places(t, method) = Runner!Places(s, method)
      /\ \A i \in Runner!Places(s, method) : t[i] = s[i]
  BY PlacesOther
<1> HIDE DEF t
<1>2. Runner!Joins(t, method, text)
  BY <1>1 DEF Runner!Joins
<1> QED
  BY <1>2 DEF t

\* The texts that were told are texts.
Worded(s) == \A i \in Runner!Places(s, "agent/output") : IsSeq(s[i].data)

\* Runner!Joins, with the function that says behind how much of the text a piece is.
JoinsAt(s, method, text, at) ==
  /\ at \in [Runner!Places(s, method) -> 0..Len(text)]
  /\ \A i \in Runner!Places(s, method) :
       /\ at[i] + Len(s[i].data) <= Len(text)
       /\ \A k \in DOMAIN s[i].data : text[at[i] + k] = s[i].data[k]
  /\ \A i, j \in Runner!Places(s, method) : i < j => at[i] + Len(s[i].data) <= at[j]
  /\ \A p \in DOMAIN text :
       \/ text[p] = "nl"
       \/ \E i \in Runner!Places(s, method) : p \in at[i] + 1 .. at[i] + Len(s[i].data)

\* Joins, with its function named.
LEMMA JoinsIs ==
  ASSUME NEW s, NEW method, NEW text
  PROVE  Runner!Joins(s, method, text) <=> \E at : JoinsAt(s, method, text, at)
  BY DEF Runner!Joins, JoinsAt

\* A line end behind the text.
LEMMA JoinsLine ==
  ASSUME NEW s, Worded(s), NEW text, IsSeq(text), NEW at, JoinsAt(s, "agent/output", text, at)
  PROVE  JoinsAt(s, "agent/output", Append(text, "nl"), at)
<1> DEFINE pieces == Runner!Places(s, "agent/output")
           more == Append(text, "nl")
<1>1. /\ at \in [pieces -> 0..Len(text)]
      /\ \A i \in pieces :
           /\ at[i] + Len(s[i].data) <= Len(text)
           /\ \A k \in DOMAIN s[i].data : text[at[i] + k] = s[i].data[k]
      /\ \A i, j \in pieces : i < j => at[i] + Len(s[i].data) <= at[j]
      /\ \A p \in DOMAIN text :
           text[p] = "nl" \/ \E i \in pieces : p \in at[i] + 1 .. at[i] + Len(s[i].data)
  BY DEF JoinsAt
<1>2. /\ Len(more) = Len(text) + 1 /\ DOMAIN more = 1..Len(text) + 1
      /\ \A p \in DOMAIN text : more[p] = text[p]
      /\ more[Len(text) + 1] = "nl" /\ Len(text) \in Nat /\ DOMAIN text = 1..Len(text)
  BY Appended, SeqTyped
<1>3. \A i \in pieces : Len(s[i].data) \in Nat /\ DOMAIN s[i].data = 1..Len(s[i].data)
  BY SeqTyped DEF Worded
<1> HIDE DEF pieces, more
<1>4. at \in [pieces -> 0..Len(more)]
  BY <1>1, <1>2
<1>5. ASSUME NEW i \in pieces
      PROVE  /\ at[i] + Len(s[i].data) <= Len(more)
             /\ \A k \in DOMAIN s[i].data : more[at[i] + k] = s[i].data[k]
  <2>1. at[i] \in 0..Len(text) /\ at[i] + Len(s[i].data) <= Len(text)
    BY <1>1
  <2>2. ASSUME NEW k \in DOMAIN s[i].data PROVE more[at[i] + k] = s[i].data[k]
    <3>1. k \in 1..Len(s[i].data) /\ Len(s[i].data) \in Nat
      BY <1>3
    <3>2. at[i] + k \in 1..Len(text)
      BY <1>2, <2>1, <3>1
    <3>3. at[i] + k \in DOMAIN text
      BY <1>2, <3>2
    <3> QED
      BY <1>1, <1>2, <3>3
  <2> QED
    BY <1>2, <1>3, <2>1, <2>2
<1>6. \A p \in DOMAIN more :
        more[p] = "nl" \/ \E i \in pieces : p \in at[i] + 1 .. at[i] + Len(s[i].data)
  <2> TAKE p \in DOMAIN more
  <2>1. p \in DOMAIN text \/ p = Len(text) + 1
    BY <1>2
  <2> QED
    BY <1>1, <1>2, <2>1
<1> QED
  BY <1>1, <1>4, <1>5, <1>6 DEF JoinsAt, pieces, more

\* A piece more, behind the text.
LEMMA JoinsNext ==
  ASSUME NEW s, IsSeq(s), Worded(s), NEW text, IsSeq(text),
         NEW at, JoinsAt(s, "agent/output", text, at),
         NEW f, f.method = "agent/output", IsSeq(f.data)
  PROVE  Runner!Joins(Append(s, f), "agent/output", text \o f.data)
<1> DEFINE pieces == Runner!Places(s, "agent/output")
           t == Append(s, f)
           end == Len(s) + 1
           more == text \o f.data
           next == [i \in pieces \cup {end} |-> IF i = end THEN Len(text) ELSE at[i]]
<1>1. /\ at \in [pieces -> 0..Len(text)]
      /\ \A i \in pieces :
           /\ at[i] + Len(s[i].data) <= Len(text)
           /\ \A k \in DOMAIN s[i].data : text[at[i] + k] = s[i].data[k]
      /\ \A i, j \in pieces : i < j => at[i] + Len(s[i].data) <= at[j]
      /\ \A p \in DOMAIN text :
           text[p] = "nl" \/ \E i \in pieces : p \in at[i] + 1 .. at[i] + Len(s[i].data)
  BY DEF JoinsAt
<1>2. /\ Len(more) = Len(text) + Len(f.data) /\ DOMAIN more = 1..Len(text) + Len(f.data)
      /\ \A p \in DOMAIN text : more[p] = text[p]
      /\ \A k \in DOMAIN f.data : more[Len(text) + k] = f.data[k]
      /\ Len(text) \in Nat /\ DOMAIN text = 1..Len(text)
      /\ Len(f.data) \in Nat /\ DOMAIN f.data = 1..Len(f.data)
  BY Concatenated, SeqTyped
<1>3. \A i \in pieces : Len(s[i].data) \in Nat /\ DOMAIN s[i].data = 1..Len(s[i].data)
  BY SeqTyped DEF Worded
<1>4. /\ Runner!Places(t, "agent/output") = pieces \cup {end}
      /\ \A i \in pieces : t[i] = s[i] /\ i \in 1..Len(s)
      /\ t[end] = f /\ Len(s) \in Nat
  BY PlacesNext, SeqTyped
<1>5. /\ DOMAIN next = pieces \cup {end} /\ next[end] = Len(text)
      /\ \A i \in pieces : next[i] = at[i] /\ i # end
  BY <1>4
<1>6. next \in [pieces \cup {end} -> 0..Len(more)]
  BY <1>1, <1>2
<1> HIDE DEF pieces, t, more, next, end
<1>7. ASSUME NEW i \in pieces \cup {end}
      PROVE  /\ next[i] + Len(t[i].data) <= Len(more)
             /\ \A k \in DOMAIN t[i].data : more[next[i] + k] = t[i].data[k]
  <2>1. CASE i = end
    <3>1. t[i] = f /\ next[i] = Len(text)
      BY <1>4, <1>5, <2>1
    <3> QED
      BY <1>2, <3>1
  <2>2. CASE i \in pieces
    <3>1. t[i] = s[i] /\ next[i] = at[i] /\ at[i] \in 0..Len(text) /\ at[i] + Len(s[i].data) <= Len(text)
      BY <1>1, <1>4, <1>5, <2>2
    <3>2. ASSUME NEW k \in DOMAIN s[i].data PROVE more[at[i] + k] = s[i].data[k]
      <4>1. k \in 1..Len(s[i].data) /\ Len(s[i].data) \in Nat
        BY <1>3, <2>2
      <4>2. at[i] + k \in 1..Len(text)
        BY <1>2, <3>1, <4>1
      <4>3. at[i] + k \in DOMAIN text
        BY <1>2, <4>2
      <4> QED
        BY <1>1, <1>2, <2>2, <4>3
    <3> QED
      BY <1>2, <1>3, <2>2, <3>1, <3>2
  <2> QED
    BY <2>1, <2>2
<1>8. ASSUME NEW i \in pieces \cup {end}, NEW j \in pieces \cup {end}, i < j
      PROVE  next[i] + Len(t[i].data) <= next[j]
  <2>1. i \in pieces
    BY <1>4, <1>8 DEF end
  <2>2. CASE j = end
    BY <1>1, <1>4, <1>5, <2>1, <2>2
  <2>3. CASE j \in pieces
    BY <1>1, <1>4, <1>5, <1>8, <2>1, <2>3
  <2> QED
    BY <2>2, <2>3
<1>9. ASSUME NEW p \in DOMAIN more, more[p] # "nl"
      PROVE  \E i \in pieces \cup {end} : p \in next[i] + 1 .. next[i] + Len(t[i].data)
  <2>1. CASE p \in DOMAIN text
    <3>1. PICK i \in pieces : p \in at[i] + 1 .. at[i] + Len(s[i].data)
      BY <1>1, <1>2, <1>9, <2>1
    <3> QED
      BY <1>4, <1>5, <3>1
  <2>2. CASE p \notin DOMAIN text
    <3>1. p \in Len(text) + 1 .. Len(text) + Len(f.data)
      BY <1>2, <2>2
    <3> QED
      BY <1>4, <1>5, <3>1
  <2> QED
    BY <2>1, <2>2
<1>10. JoinsAt(t, "agent/output", more, next)
  BY <1>4, <1>6, <1>7, <1>8, <1>9 DEF JoinsAt
<1> QED
  BY <1>10, JoinsIs DEF t, more

\* What a run's task collects, and what a frame of no session is.
Collected(a) ==
  /\ DOMAIN a = {"output", "thinking", "tool_calls", "tool_results", "metadata", "errors", "exit_code"}
  /\ IsSeq(a.output) /\ IsSeq(a.thinking) /\ IsSeq(a.tool_calls) /\ IsSeq(a.tool_results)
  /\ IsSeq(a.metadata) /\ IsSeq(a.errors)

QuietMethods == {"log/entry", "cancelled"}
ToldMethods ==
  {"agent/output", "agent/thinking", "agent/toolCall", "agent/toolResult", "agent/error"}
Proper(e) == e.kind \in {"TextDelta", "FinalText"} => IsSeq(e.data)

\* The frames about a run, and what its task has collected, agree.
Telling(frames, a) ==
  IsSeq(frames) /\ Worded(frames) /\ Collected(a) /\ Runner!Agrees(frames, a)

\* A frame that is none of the session's changes nothing of it.
LEMMA TellingOther ==
  ASSUME NEW frames, NEW a, Telling(frames, a), NEW f, f.method \notin ToldMethods
  PROVE  Telling(Append(frames, f), a)
<1> DEFINE more == Append(frames, f)
<1>1. IsSeq(frames) /\ IsSeq(more) /\ Worded(frames) /\ Collected(a) /\ Runner!Agrees(frames, a)
  BY Appended DEF Telling
<1>2. f.method # "agent/output" /\ f.method # "agent/thinking" /\ f.method # "agent/toolCall"
      /\ f.method # "agent/toolResult" /\ f.method # "agent/error"
  BY DEF ToldMethods
<1>3. Worded(more)
  <2>1. /\ Runner!Places(more, "agent/output") = Runner!Places(frames, "agent/output")
        /\ \A i \in Runner!Places(frames, "agent/output") : more[i] = frames[i]
    BY <1>1, <1>2, PlacesOther
  <2> QED
    BY <1>1, <2>1 DEF Worded
<1>4. Runner!Lists(more, "agent/thinking", a.thinking)
  BY <1>1, <1>2, ListsOther DEF Runner!Agrees
<1>5. Runner!Lists(more, "agent/toolCall", a.tool_calls)
  BY <1>1, <1>2, ListsOther DEF Runner!Agrees
<1>6. Runner!Lists(more, "agent/toolResult", a.tool_results)
  BY <1>1, <1>2, ListsOther DEF Runner!Agrees
<1>7. Runner!Lists(more, "agent/error", a.errors)
  BY <1>1, <1>2, ListsOther DEF Runner!Agrees
<1>8. Runner!Joins(more, "agent/output", a.output)
  BY <1>1, <1>2, JoinsOther DEF Runner!Agrees
<1> QED
  BY <1>1, <1>3, <1>4, <1>5, <1>6, <1>7, <1>8 DEF Telling, Runner!Agrees

\* An event that is told is collected as it was told, and one that is not changes neither.
LEMMA TellingEvent ==
  ASSUME NEW frames, NEW a, Telling(frames, a), NEW e, Proper(e)
  PROVE  Telling(frames \o Runner!Frames(e), Runner!Collect(a, e))
<1> DEFINE more == frames \o Runner!Frames(e)
           next == Runner!Collect(a, e)
<1>1. IsSeq(frames) /\ Worded(frames) /\ Collected(a) /\ Runner!Agrees(frames, a)
  BY DEF Telling
<1>2. CASE e.kind \notin DOMAIN Runner!Method
  <2>1. more = frames
    <3>1. Runner!Frames(e) = <<>> /\ frames \in Seq(ItemsOf(frames))
      BY <1>1, <1>2, SeqTyped DEF Runner!Frames
    <3> QED
      BY <3>1, ConcatEmptySeq
  <2>2. /\ Collected(next) /\ next.output = a.output /\ next.thinking = a.thinking
        /\ next.tool_calls = a.tool_calls /\ next.tool_results = a.tool_results
        /\ next.errors = a.errors
    <3>1. e.kind \notin {"TextDelta", "FinalText", "Thinking", "ToolCall", "ToolResult", "Error"}
      BY <1>2 DEF Runner!Method
    <3>2. CASE e.kind = "Finished"
      <4>1. next = [a EXCEPT !.exit_code = e.data]
        BY <3>2 DEF Runner!Collect, Runner!List
      <4> QED
        BY <1>1, <4>1 DEF Collected
    <3>3. CASE e.kind \in {"Artifact", "Metadata"}
      <4>1. next = [a EXCEPT !.metadata = Append(a.metadata, e.data)]
        <5>1. e.kind \in DOMAIN Runner!List /\ Runner!List[e.kind] = "metadata"
          BY <3>3 DEF Runner!List
        <5>2. e.kind \notin {"TextDelta", "FinalText", "Finished"}
          BY <3>3
        <5> QED
          BY <5>1, <5>2 DEF Runner!Collect
      <4>2. IsSeq(Append(a.metadata, e.data))
        BY <1>1, Appended DEF Collected
      <4> QED
        BY <1>1, <4>1, <4>2 DEF Collected
    <3>4. CASE e.kind \notin {"Finished", "Artifact", "Metadata"}
      <4>1. next = a
        BY <3>1, <3>4 DEF Runner!Collect, Runner!List
      <4> QED
        BY <1>1, <4>1
    <3> QED
      BY <3>2, <3>3, <3>4
  <2>3. Runner!Agrees(frames, next)
    BY <1>1, <2>2 DEF Runner!Agrees
  <2> QED
    BY <1>1, <2>1, <2>2, <2>3 DEF Telling
<1>3. CASE e.kind \in DOMAIN Runner!Method
  <2> DEFINE f == [method |-> Runner!Method[e.kind], final |-> e.kind = "FinalText", data |-> e.data]
             told == Append(frames, f)
  <2>1. more = told
    <3>1. Runner!Frames(e) = <<f>> /\ frames \in Seq(ItemsOf(frames) \cup {f})
      BY <1>1, <1>3, SeqTyped, SeqMonotonic DEF Runner!Frames
    <3> QED
      BY <3>1, AppendIsConcat
  <2>2. f.method = Runner!Method[e.kind] /\ f.data = e.data
    OBVIOUS
  <2> HIDE DEF f
  <2>3. IsSeq(told)
    BY <1>1, Appended
  <2>4. e.kind \in {"TextDelta", "FinalText"} \cup {"Thinking"} \cup {"ToolCall"}
                      \cup {"ToolResult"} \cup {"Error"}
    BY <1>3 DEF Runner!Method
  <2>5. /\ f.method # "agent/thinking" =>
             \A list : Runner!Lists(frames, "agent/thinking", list) => Runner!Lists(told, "agent/thinking", list)
        /\ f.method # "agent/toolCall" =>
             \A list : Runner!Lists(frames, "agent/toolCall", list) => Runner!Lists(told, "agent/toolCall", list)
        /\ f.method # "agent/toolResult" =>
             \A list : Runner!Lists(frames, "agent/toolResult", list) => Runner!Lists(told, "agent/toolResult", list)
        /\ f.method # "agent/error" =>
             \A list : Runner!Lists(frames, "agent/error", list) => Runner!Lists(told, "agent/error", list)
    BY <1>1, ListsOther
  <2>6. f.method # "agent/output" =>
          Worded(told) /\ Runner!Joins(told, "agent/output", a.output)
    <3> SUFFICES ASSUME f.method # "agent/output"
                 PROVE  Worded(told) /\ Runner!Joins(told, "agent/output", a.output)
      OBVIOUS
    <3>1. /\ Runner!Places(told, "agent/output") = Runner!Places(frames, "agent/output")
          /\ \A i \in Runner!Places(frames, "agent/output") : told[i] = frames[i]
      BY <1>1, PlacesOther
    <3>2. Runner!Joins(told, "agent/output", a.output)
      BY <1>1, JoinsOther DEF Runner!Agrees
    <3> QED
      BY <1>1, <3>1, <3>2 DEF Worded
  <2>7. \A list : IsSeq(list) /\ Runner!Lists(frames, f.method, list) =>
          Runner!Lists(told, f.method, Append(list, e.data)) /\ IsSeq(Append(list, e.data))
    BY <1>1, <2>2, ListsNext, Appended
  <2> HIDE DEF told, more, next
  <2>8. CASE e.kind \in {"TextDelta", "FinalText"}
    <3> DEFINE text == IF e.kind = "FinalText" THEN Runner!Joined(a.output, e.data) ELSE a.output \o e.data
    <3>0. f.method = "agent/output"
      BY <2>2, <2>8 DEF Runner!Method
    <3>1. f.method = "agent/output" /\ next = [a EXCEPT !.output = text]
      <4>1. CASE e.kind = "FinalText"
        BY <3>0, <4>1 DEF Runner!Collect, Runner!List, next
      <4>2. CASE e.kind = "TextDelta"
        BY <3>0, <4>2 DEF Runner!Collect, Runner!List, next
      <4> QED
        BY <2>8, <4>1, <4>2
    <3>2. IsSeq(e.data) /\ IsSeq(a.output)
      BY <1>1, <2>8 DEF Proper, Collected
    <3>3. PICK at : JoinsAt(frames, "agent/output", a.output, at)
      BY <1>1, JoinsIs DEF Runner!Agrees
    <3>4. Runner!Joins(told, "agent/output", a.output \o e.data) /\ IsSeq(a.output \o e.data)
      BY <1>1, <2>2, <3>1, <3>2, <3>3, JoinsNext, Concatenated DEF told
    <3>5. /\ Runner!Joins(told, "agent/output", Append(a.output, "nl") \o e.data)
          /\ IsSeq(Append(a.output, "nl") \o e.data)
      <4>1. IsSeq(Append(a.output, "nl"))
        BY <3>2, Appended
      <4>2. JoinsAt(frames, "agent/output", Append(a.output, "nl"), at)
        BY <1>1, <3>2, <3>3, JoinsLine
      <4> QED
        BY <1>1, <2>2, <3>1, <3>2, <4>1, <4>2, JoinsNext, Concatenated DEF told
    <3>6. text = a.output \o e.data \/ text = Append(a.output, "nl") \o e.data
      BY DEF Runner!Joined
    <3>7. Runner!Joins(told, "agent/output", text) /\ IsSeq(text)
      BY <3>4, <3>5, <3>6
    <3> HIDE DEF text
    <3>8. /\ Collected(next) /\ next.output = text /\ next.thinking = a.thinking
          /\ next.tool_calls = a.tool_calls /\ next.tool_results = a.tool_results
          /\ next.errors = a.errors
      BY <1>1, <3>1, <3>7 DEF Collected
    <3>9. Worded(told)
      <4>1. /\ Runner!Places(told, "agent/output") = Runner!Places(frames, "agent/output") \cup {Len(frames) + 1}
            /\ \A i \in Runner!Places(frames, "agent/output") : told[i] = frames[i]
            /\ told[Len(frames) + 1] = f
        <5>1. /\ Runner!Places(told, f.method) = Runner!Places(frames, f.method) \cup {Len(frames) + 1}
              /\ \A i \in Runner!Places(frames, f.method) : told[i] = frames[i]
              /\ told[Len(frames) + 1] = f
          BY <1>1, PlacesNext DEF told
        <5> QED
          BY <3>0, <5>1
      <4> QED
        BY <1>1, <2>2, <3>2, <4>1 DEF Worded
    <3>10. Runner!Agrees(told, next)
      BY <1>1, <2>5, <3>1, <3>7, <3>8 DEF Runner!Agrees
    <3> QED
      BY <2>1, <2>3, <3>8, <3>9, <3>10 DEF Telling, more, next
  <2>9. CASE e.kind = "Thinking"
    <3>1. f.method = "agent/thinking" /\ next = [a EXCEPT !.thinking = Append(a.thinking, e.data)]
      BY <2>2, <2>9 DEF Runner!Method, Runner!Collect, Runner!List, next
    <3>2. Runner!Lists(told, "agent/thinking", Append(a.thinking, e.data)) /\ IsSeq(Append(a.thinking, e.data))
      BY <1>1, <2>7, <3>1 DEF Runner!Agrees, Collected
    <3>3. /\ Collected(next) /\ next.output = a.output /\ next.thinking = Append(a.thinking, e.data)
          /\ next.tool_calls = a.tool_calls /\ next.tool_results = a.tool_results
          /\ next.errors = a.errors
      BY <1>1, <3>1, <3>2 DEF Collected
    <3>4. Runner!Agrees(told, next)
      BY <1>1, <2>5, <2>6, <3>1, <3>2, <3>3 DEF Runner!Agrees
    <3> QED
      BY <2>1, <2>3, <2>6, <3>1, <3>3, <3>4 DEF Telling, more, next
  <2>10. CASE e.kind = "ToolCall"
    <3>1. f.method = "agent/toolCall" /\ next = [a EXCEPT !.tool_calls = Append(a.tool_calls, e.data)]
      BY <2>2, <2>10 DEF Runner!Method, Runner!Collect, Runner!List, next
    <3>2. Runner!Lists(told, "agent/toolCall", Append(a.tool_calls, e.data)) /\ IsSeq(Append(a.tool_calls, e.data))
      BY <1>1, <2>7, <3>1 DEF Runner!Agrees, Collected
    <3>3. /\ Collected(next) /\ next.output = a.output /\ next.thinking = a.thinking
          /\ next.tool_calls = Append(a.tool_calls, e.data) /\ next.tool_results = a.tool_results
          /\ next.errors = a.errors
      BY <1>1, <3>1, <3>2 DEF Collected
    <3>4. Runner!Agrees(told, next)
      BY <1>1, <2>5, <2>6, <3>1, <3>2, <3>3 DEF Runner!Agrees
    <3> QED
      BY <2>1, <2>3, <2>6, <3>1, <3>3, <3>4 DEF Telling, more, next
  <2>11. CASE e.kind = "ToolResult"
    <3>1. f.method = "agent/toolResult" /\ next = [a EXCEPT !.tool_results = Append(a.tool_results, e.data)]
      BY <2>2, <2>11 DEF Runner!Method, Runner!Collect, Runner!List, next
    <3>2. Runner!Lists(told, "agent/toolResult", Append(a.tool_results, e.data)) /\ IsSeq(Append(a.tool_results, e.data))
      BY <1>1, <2>7, <3>1 DEF Runner!Agrees, Collected
    <3>3. /\ Collected(next) /\ next.output = a.output /\ next.thinking = a.thinking
          /\ next.tool_calls = a.tool_calls /\ next.tool_results = Append(a.tool_results, e.data)
          /\ next.errors = a.errors
      BY <1>1, <3>1, <3>2 DEF Collected
    <3>4. Runner!Agrees(told, next)
      BY <1>1, <2>5, <2>6, <3>1, <3>2, <3>3 DEF Runner!Agrees
    <3> QED
      BY <2>1, <2>3, <2>6, <3>1, <3>3, <3>4 DEF Telling, more, next
  <2>12. CASE e.kind = "Error"
    <3>1. f.method = "agent/error" /\ next = [a EXCEPT !.errors = Append(a.errors, e.data)]
      BY <2>2, <2>12 DEF Runner!Method, Runner!Collect, Runner!List, next
    <3>2. Runner!Lists(told, "agent/error", Append(a.errors, e.data)) /\ IsSeq(Append(a.errors, e.data))
      BY <1>1, <2>7, <3>1 DEF Runner!Agrees, Collected
    <3>3. /\ Collected(next) /\ next.output = a.output /\ next.thinking = a.thinking
          /\ next.tool_calls = a.tool_calls /\ next.tool_results = a.tool_results
          /\ next.errors = Append(a.errors, e.data)
      BY <1>1, <3>1, <3>2 DEF Collected
    <3>4. Runner!Agrees(told, next)
      BY <1>1, <2>5, <2>6, <3>1, <3>2, <3>3 DEF Runner!Agrees
    <3> QED
      BY <2>1, <2>3, <2>6, <3>1, <3>3, <3>4 DEF Telling, more, next
  <2> QED
    BY <2>4, <2>8, <2>9, <2>10, <2>11, <2>12
<1> QED
  BY <1>2, <1>3

\* What is so of one run at every time: what it told and collected agree, it is answered
\* when it is done and not before, and its task saw the end when there was nothing left
\* that counts.
RunOK(r) ==
  /\ Telling(stdout[r], acc[r])
  /\ IsSeq(pending[r]) /\ \A i \in DOMAIN pending[r] : Proper(pending[r][i])
  /\ IsSeq(given[r])
  /\ task[r] \in {"none", "spawned"} => ~ended[r]
  /\ task[r] # "done" => Runner!Places(stdout[r], "response") = {}
  /\ task[r] = "done" /\ script[r].start = "ok" =>
       ended[r] /\ Runner!Answered(stdout[r], acc[r])
  /\ ended[r] /\ pending[r] # <<>> => Runner!Over(given[r])

\* What is still to be read asks for no run that was asked for.
Asked ==
  /\ IsSeq(input)
  /\ \A i \in DOMAIN input : input[i].method \in {"run", "cancel"} => input[i].run \in Runs
  /\ \A i, j \in DOMAIN input :
       input[i].method = "run" /\ input[j].method = "run" /\ input[i].run = input[j].run => i = j
  /\ process = "up" => \A i \in DOMAIN input : input[i].method = "run" => task[input[i].run] = "none"

\* What is still to be read, what was given and what was logged are sequences.
RunnerTypes ==
  /\ DOMAIN task = Runs /\ DOMAIN pending = Runs /\ DOMAIN given = Runs /\ DOMAIN ended = Runs
  /\ DOMAIN acc = Runs /\ DOMAIN stdout = Runs \cup {"none"}
  /\ script \in Scripts
  /\ IsSeq(logs) /\ \A i \in DOMAIN logs : logs[i] \in Runs

RunnerInv == RunnerTypes /\ Asked /\ \A r \in Runs : RunOK(r)

\* A run that a step leaves alone is as it was.
LEMMA RunKept ==
  ASSUME NEW r \in Runs, RunOK(r),
         stdout'[r] = stdout[r], acc'[r] = acc[r], pending'[r] = pending[r],
         given'[r] = given[r], task'[r] = task[r], ended'[r] = ended[r], script' = script
  PROVE  RunOK(r)'
  BY DEF RunOK

\* A frame of another's between: a log entry, or an answer to a cancellation.
LEMMA RunQuiet ==
  ASSUME NEW r \in Runs, RunOK(r), NEW f, f.method \in QuietMethods,
         stdout'[r] = Append(stdout[r], f), acc'[r] = acc[r], given'[r] = given[r],
         task'[r] = task[r], ended'[r] = ended[r], script' = script,
         IsSeq(pending'[r]), \A i \in DOMAIN pending'[r] : Proper(pending'[r][i]),
         pending[r] = <<>> => pending'[r] = <<>>
  PROVE  RunOK(r)'
<1> DEFINE frames == stdout[r]
           more == Append(frames, f)
<1>0. f.method \notin ToldMethods /\ f.method # "response"
  BY DEF QuietMethods, ToldMethods
<1>1. Telling(more, acc[r])
  BY <1>0, TellingOther DEF RunOK
<1>2. IsSeq(frames)
  BY DEF RunOK, Telling
<1>3. Runner!Places(more, "response") = Runner!Places(frames, "response")
  <2> HIDE DEF frames
  <2>1. f.method # "response"
    BY <1>0
  <2> QED
    BY <1>2, <2>1, PlacesOther
<1>4. ASSUME Runner!Answered(frames, acc[r]) PROVE Runner!Answered(more, acc[r])
  <2>1. PICK at \in DOMAIN frames :
          /\ Runner!Places(frames, "response") = {at} /\ frames[at].result = acc[r]
          /\ \A i \in DOMAIN frames : i > at => frames[i].method \in QuietMethods
    BY <1>4 DEF Runner!Answered, QuietMethods
  <2>2. /\ DOMAIN more = 1..Len(frames) + 1 /\ \A i \in DOMAIN frames : more[i] = frames[i]
        /\ more[Len(frames) + 1] = f /\ DOMAIN frames = 1..Len(frames) /\ Len(frames) \in Nat
    BY <1>2, Appended, SeqTyped
  <2> HIDE DEF more, frames
  <2>3. at \in DOMAIN more /\ more[at].result = acc[r] /\ Runner!Places(more, "response") = {at}
    BY <1>3, <2>1, <2>2
  <2>4. \A i \in DOMAIN more : i > at => more[i].method \in QuietMethods
    <3> TAKE i \in DOMAIN more
    <3>1. i \in DOMAIN frames \/ i = Len(frames) + 1
      BY <2>2
    <3> QED
      BY <2>1, <2>2, <3>1
  <2> QED
    BY <2>3, <2>4 DEF Runner!Answered, QuietMethods
<1> HIDE DEF more
<1>5. stdout'[r] = more
  BY DEF more
<1> QED
  BY <1>1, <1>3, <1>4, <1>5 DEF RunOK

\* At first nothing was asked and nothing told.
LEMMA RunnerStart ==
  ASSUME Runner!Init
  PROVE  RunnerInv
<1>1. PICK asked \in Inputs : input = asked
  BY DEF Runner!Init
<1>2. Asked
  BY <1>1, RunAssumption DEF Runner!Init, Runner!RunConstants, Asked, IsSeq
<1>3. RunnerTypes
  BY NoneYet DEF Runner!Init, RunnerTypes
<1>4. ASSUME NEW r \in Runs PROVE RunOK(r)
  <2>1. /\ stdout[r] = <<>> /\ acc[r] = Runner!Empty /\ pending[r] = <<>> /\ given[r] = <<>>
        /\ task[r] = "none" /\ ended[r] = FALSE
    BY DEF Runner!Init
  <2>2. \A method : Runner!Places(<<>>, method) = {}
    BY NoneYet DEF Runner!Places
  <2>3. \A method : Runner!Lists(<<>>, method, <<>>)
    <3> TAKE method
    <3>1. [k \in {} |-> k] \in [DOMAIN <<>> -> Runner!Places(<<>>, method)]
      BY NoneYet
    <3> QED
      BY <2>2, <3>1, NoneYet DEF Runner!Lists
  <2>4. Runner!Joins(<<>>, "agent/output", <<>>)
    <3>1. [k \in {} |-> k] \in [Runner!Places(<<>>, "agent/output") -> 0..Len(<<>>)]
      BY <2>2
    <3> QED
      BY <2>2, <3>1, NoneYet DEF Runner!Joins
  <2>5. Telling(<<>>, Runner!Empty)
    BY <2>2, <2>3, <2>4, NoneYet DEF Telling, Worded, Collected, Runner!Agrees, Runner!Empty
  <2> QED
    BY <2>1, <2>2, <2>5, NoneYet DEF RunOK
<1> QED
  BY <1>2, <1>3, <1>4 DEF RunnerInv

\* A task that ends answers, whatever it was asked.
LEMMA Answers ==
  ASSUME NEW frames, IsSeq(frames), Runner!Places(frames, "response") = {},
         NEW f, f.method = "response"
  PROVE  Runner!Answered(Append(frames, f), f.result)
<1> DEFINE more == Append(frames, f)
           end == Len(frames) + 1
<1>1. /\ DOMAIN more = 1..end /\ more[end] = f /\ Len(frames) \in Nat
  BY Appended, SeqTyped
<1>2. Runner!Places(more, "response") = {end}
  <2>1. Runner!Places(more, f.method) = Runner!Places(frames, f.method) \cup {end}
    BY PlacesNext
  <2> HIDE DEF more, end
  <2> QED
    BY <2>1
<1> HIDE DEF more
<1>3. end \in DOMAIN more /\ \A i \in DOMAIN more : ~(i > end)
  BY <1>1
<1>4. Runner!Answered(more, f.result)
  BY <1>1, <1>2, <1>3 DEF Runner!Answered
<1> QED
  BY <1>4 DEF more

\* The run's own task, one step further.
LEMMA WorkKeeps ==
  ASSUME RunnerInv, NEW r \in Runs, Runner!Work(r)
  PROVE  RunOK(r)'
<1>1. RunOK(r) /\ RunnerTypes
  BY DEF RunnerInv
<1>2. CASE Runner!Start(r) /\ script[r].start = "ok"
  <2>1. /\ task[r] = "spawned" /\ task'[r] = "running" /\ pending'[r] = script[r].events
        /\ UNCHANGED <<stdout, script, given, ended, acc>>
    BY <1>1, <1>2 DEF Runner!Start, RunnerTypes
  <2>2. IsSeq(pending'[r]) /\ \A i \in DOMAIN pending'[r] : Proper(pending'[r][i])
    BY <1>1, <2>1, RunAssumption DEF Runner!RunConstants, RunnerTypes, IsSeq, Proper
  <2> QED
    BY <1>1, <2>1, <2>2 DEF RunOK
<1>3. CASE Runner!Start(r) /\ script[r].start # "ok"
  <2> DEFINE f == [method |-> "response", error |-> script[r].start]
  <2>1. /\ task[r] = "spawned" /\ task'[r] = "done" /\ stdout'[r] = Append(stdout[r], f)
        /\ UNCHANGED <<pending, script, given, ended, acc>>
    BY <1>1, <1>3 DEF Runner!Start, Runner!Write, RunnerTypes
  <2>2. f.method \notin ToldMethods
    BY DEF ToldMethods
  <2> HIDE DEF f
  <2>3. Telling(stdout'[r], acc[r])
    BY <1>1, <2>1, <2>2, TellingOther DEF RunOK
  <2> QED
    BY <1>1, <1>3, <2>1, <2>3 DEF RunOK
<1>4. CASE Runner!EventsEnd(r)
  <2>1. /\ task[r] = "running" /\ pending[r] = <<>> /\ ended'[r] = TRUE
        /\ UNCHANGED <<stdout, script, given, task, pending, acc>>
    BY <1>1, <1>4 DEF Runner!EventsEnd, Runner!Hears, RunnerTypes
  <2> QED
    BY <1>1, <2>1 DEF RunOK
<1>5. CASE Runner!Event(r)
  <2> DEFINE e == Head(pending[r])
  <2>1. /\ task[r] = "running" /\ pending[r] # <<>> /\ ~ended[r]
        /\ given'[r] = Append(given[r], e) /\ stdout'[r] = stdout[r] \o Runner!Frames(e)
        /\ acc'[r] = Runner!Collect(acc[r], e) /\ ended'[r] = Runner!Ends(e)
        /\ pending'[r] = Tail(pending[r]) /\ UNCHANGED <<task, script>>
    BY <1>1, <1>5 DEF Runner!Event, Runner!Hears, RunnerTypes
  <2>2. /\ Proper(e) /\ IsSeq(Tail(pending[r]))
        /\ \A i \in DOMAIN Tail(pending[r]) : Proper(Tail(pending[r])[i])
    BY <1>1, <2>1, Shortened DEF RunOK
  <2> HIDE DEF e
  <2>3. Telling(stdout'[r], acc'[r])
    BY <1>1, <2>1, <2>2, TellingEvent DEF RunOK
  <2>4. IsSeq(given'[r]) /\ given'[r][Len(given'[r])] = e
    BY <1>1, <2>1, Appended DEF RunOK
  <2>5. ended'[r] => Runner!Over(given'[r])
    BY <2>1, <2>4 DEF Runner!Over, Runner!Ends
  <2>6. Runner!Places(stdout'[r], "response") = {}
    <3>1. IsSeq(stdout[r]) /\ Runner!Places(stdout[r], "response") = {}
      BY <1>1, <2>1 DEF RunOK, Telling
    <3>2. CASE e.kind \in DOMAIN Runner!Method
      <4> DEFINE f == [method |-> Runner!Method[e.kind], final |-> e.kind = "FinalText", data |-> e.data]
      <4>1. stdout'[r] = stdout[r] \o <<f>>
        BY <2>1, <3>2 DEF Runner!Frames
      <4>2. f.method # "response"
        BY <3>2 DEF Runner!Method
      <4> HIDE DEF f
      <4>3. stdout'[r] = Append(stdout[r], f)
        <5>1. stdout[r] \in Seq(ItemsOf(stdout[r]) \cup {f})
          BY <3>1, SeqTyped, SeqMonotonic
        <5> QED
          BY <4>1, <5>1, AppendIsConcat
      <4> QED
        BY <3>1, <4>2, <4>3, PlacesOther
    <3>3. CASE e.kind \notin DOMAIN Runner!Method
      <4>1. stdout'[r] = stdout[r] \o <<>> /\ stdout[r] \in Seq(ItemsOf(stdout[r]))
        BY <2>1, <3>1, <3>3, SeqTyped DEF Runner!Frames
      <4> QED
        BY <3>1, <4>1, ConcatEmptySeq
    <3> QED
      BY <3>2, <3>3
  <2> QED
    BY <2>1, <2>2, <2>3, <2>4, <2>5, <2>6 DEF RunOK
<1>6. CASE Runner!Respond(r)
  <2> DEFINE f == [method |-> "response", result |-> acc[r]]
  <2>1. /\ task[r] = "running" /\ ended[r] /\ task'[r] = "done" /\ stdout'[r] = Append(stdout[r], f)
        /\ UNCHANGED <<pending, script, given, ended, acc>>
    BY <1>1, <1>6 DEF Runner!Respond, Runner!Write, RunnerTypes
  <2>2. f.method = "response" /\ f.result = acc[r] /\ f.method \notin ToldMethods
    BY DEF ToldMethods
  <2> HIDE DEF f
  <2>3. Telling(stdout'[r], acc[r])
    BY <1>1, <2>1, <2>2, TellingOther DEF RunOK
  <2>4. Runner!Answered(stdout'[r], acc[r])
    <3>1. IsSeq(stdout[r]) /\ Runner!Places(stdout[r], "response") = {}
      BY <1>1, <2>1 DEF RunOK, Telling
    <3> QED
      BY <2>1, <2>2, <3>1, Answers
  <2> QED
    BY <1>1, <2>1, <2>3, <2>4 DEF RunOK
<1> QED
  BY <1>2, <1>3, <1>4, <1>5, <1>6 DEF Runner!Work

\* Another run's task.
LEMMA WorkElsewhere ==
  ASSUME RunnerInv, NEW r \in Runs, NEW q \in Runs, q # r, Runner!Work(q)
  PROVE  RunOK(r)'
<1>1. RunOK(r) /\ RunnerTypes
  BY DEF RunnerInv
<1>2. r # "none" /\ r \in DOMAIN stdout
  BY <1>1, RunAssumption DEF Runner!RunConstants, RunnerTypes
<1>3. /\ stdout'[r] = stdout[r] /\ acc'[r] = acc[r] /\ pending'[r] = pending[r]
      /\ given'[r] = given[r] /\ task'[r] = task[r] /\ ended'[r] = ended[r] /\ script' = script
  <2>1. CASE Runner!Start(q)
    BY <1>1, <1>2, <2>1 DEF Runner!Start, Runner!Write, RunnerTypes
  <2>2. CASE Runner!EventsEnd(q)
    BY <1>1, <1>2, <2>2 DEF Runner!EventsEnd, RunnerTypes
  <2>3. CASE Runner!Event(q)
    BY <1>1, <1>2, <2>3 DEF Runner!Event, RunnerTypes
  <2>4. CASE Runner!Respond(q)
    BY <1>1, <1>2, <2>4 DEF Runner!Respond, Runner!Write, RunnerTypes
  <2> QED
    BY <2>1, <2>2, <2>3, <2>4 DEF Runner!Work
<1> QED
  BY <1>1, <1>3, RunKept

\* What a task does, it does to its own run: types and requests stay.
LEMMA WorkTypes ==
  ASSUME RunnerInv, NEW q \in Runs, Runner!Work(q)
  PROVE  RunnerTypes' /\ Asked'
<1>1. /\ DOMAIN task' = Runs /\ DOMAIN pending' = Runs /\ DOMAIN given' = Runs /\ DOMAIN ended' = Runs
      /\ DOMAIN acc' = Runs /\ DOMAIN stdout' = Runs \cup {"none"}
      /\ UNCHANGED <<input, process, script, logs>>
      /\ \A r \in Runs : task[r] = "none" => task'[r] = "none"
  <2>1. CASE Runner!Start(q)
    BY <2>1 DEF Runner!Start, Runner!Write, RunnerTypes, RunnerInv
  <2>2. CASE Runner!EventsEnd(q)
    BY <2>2 DEF Runner!EventsEnd, RunnerTypes, RunnerInv
  <2>3. CASE Runner!Event(q)
    BY <2>3 DEF Runner!Event, RunnerTypes, RunnerInv
  <2>4. CASE Runner!Respond(q)
    BY <2>4 DEF Runner!Respond, Runner!Write, Runner!Hears, RunnerTypes, RunnerInv
  <2> QED
    BY <2>1, <2>2, <2>3, <2>4 DEF Runner!Work
<1>2. RunnerTypes'
  BY <1>1 DEF RunnerInv, RunnerTypes
<1>3. Asked'
  <2>1. Asked
    BY DEF RunnerInv
  <2> QED
    BY <1>1, <2>1 DEF Asked
<1> QED
  BY <1>2, <1>3

\* When the process leaves, every task that is not done is gone with it.
LEMMA LeaveKeeps ==
  ASSUME RunnerInv, process' = "exited", task' = Runner!Gone(task), logs' = <<>>,
         input' = input \/ (input # <<>> /\ input' = Tail(input)),
         UNCHANGED <<script, pending, given, ended, acc, stdout>>
  PROVE  RunnerInv'
<1>1. RunnerTypes'
  BY NoneYet DEF RunnerInv, RunnerTypes, Runner!Gone
<1>2. ASSUME NEW r \in Runs PROVE RunOK(r)'
  <2>1. task'[r] = IF task[r] = "done" THEN "done" ELSE "dropped"
    BY DEF Runner!Gone
  <2>2. RunOK(r)
    BY DEF RunnerInv
  <2> QED
    BY <2>1, <2>2 DEF RunOK
<1>3. Asked'
  <2>1. Asked
    BY DEF RunnerInv
  <2>2. CASE input' = input
    BY <2>1, <2>2 DEF Asked
  <2>3. CASE input # <<>> /\ input' = Tail(input)
    <3>1. /\ IsSeq(input') /\ DOMAIN input = 1..Len(input) /\ Len(input) \in Nat
          /\ DOMAIN input' = 1..Len(input) - 1
          /\ \A i \in DOMAIN input' : i + 1 \in DOMAIN input /\ input'[i] = input[i + 1]
      BY <2>1, <2>3, Shortened, SeqTyped DEF Asked
    <3> QED
      BY <2>1, <3>1 DEF Asked
  <2> QED
    BY <2>2, <2>3
<1> QED
  BY <1>1, <1>2, <1>3 DEF RunnerInv

\* A request that is read begins a run, cancels one, or ends the process.
LEMMA ReadKeeps ==
  ASSUME RunnerInv, Runner!Read
  PROVE  RunnerInv'
<1> DEFINE request == Head(input)
<1>1. RunnerTypes /\ Asked /\ \A r \in Runs : RunOK(r)
  BY DEF RunnerInv
<1>2. /\ process = "up" /\ input # <<>> /\ input' = Tail(input)
      /\ UNCHANGED <<open, script, given, ended, acc, logged>>
  BY DEF Runner!Read
<1>3. /\ IsSeq(input') /\ DOMAIN input = 1..Len(input) /\ Len(input) \in Nat
      /\ DOMAIN input' = 1..Len(input) - 1
      /\ \A i \in DOMAIN input' : i + 1 \in DOMAIN input /\ input'[i] = input[i + 1]
      /\ request = input[1] /\ 1 \in DOMAIN input
  BY <1>1, <1>2, Shortened, SeqTyped DEF Asked
<1>4. /\ \A i \in DOMAIN input' : input'[i].method \in {"run", "cancel"} => input'[i].run \in Runs
      /\ \A i, j \in DOMAIN input' :
           input'[i].method = "run" /\ input'[j].method = "run" /\ input'[i].run = input'[j].run => i = j
      /\ \A i \in DOMAIN input' : input'[i].method = "run" => task[input'[i].run] = "none"
  BY <1>1, <1>2, <1>3 DEF Asked
<1>5. ASSUME request.method = "run", task' = [task EXCEPT ![request.run] = "spawned"],
             UNCHANGED <<process, stdout, pending, logs>>
      PROVE  RunnerInv'
  <2>1. request.run \in Runs /\ task[request.run] = "none"
    BY <1>1, <1>2, <1>3, <1>5 DEF Asked
  <2>2. \A i \in DOMAIN input' : input'[i].method = "run" => input'[i].run # request.run
    BY <1>1, <1>3, <1>5 DEF Asked
  <2>3. Asked'
    <3>1. \A i \in DOMAIN input' : input'[i].method = "run" => task'[input'[i].run] = "none"
      BY <1>1, <1>4, <1>5, <2>2 DEF RunnerTypes
    <3> QED
      BY <1>3, <1>4, <3>1 DEF Asked
  <2>4. RunnerTypes'
    BY <1>1, <1>2, <1>5 DEF RunnerTypes
  <2>5. ASSUME NEW r \in Runs PROVE RunOK(r)'
    <3>1. CASE r = request.run
      <4>1. task[r] = "none" /\ task'[r] = "spawned"
        BY <1>1, <1>5, <2>1, <3>1 DEF RunnerTypes
      <4> QED
        BY <1>1, <1>2, <1>5, <4>1 DEF RunOK
    <3>2. CASE r # request.run
      <4>1. task'[r] = task[r]
        BY <1>1, <1>5, <3>2 DEF RunnerTypes
      <4> QED
        BY <1>1, <1>2, <1>5, <4>1, RunKept
    <3> QED
      BY <3>1, <3>2
  <2> QED
    BY <2>3, <2>4, <2>5 DEF RunnerInv
<1>6. ASSUME request.method = "ping",
             stdout' = Runner!Write("none", [method |-> "response", to |-> "ping"]),
             UNCHANGED <<process, task, pending, logs>>
      PROVE  RunnerInv'
  <2>1. Asked'
    BY <1>3, <1>4, <1>6 DEF Asked
  <2>2. RunnerTypes'
    BY <1>1, <1>2, <1>6 DEF RunnerTypes, Runner!Write
  <2>3. ASSUME NEW r \in Runs PROVE RunOK(r)'
    <3>1. stdout'[r] = stdout[r]
      BY <1>1, <1>6, RunAssumption DEF RunnerTypes, Runner!Write, Runner!RunConstants
    <3> QED
      BY <1>1, <1>2, <1>6, <3>1, RunKept
  <2> QED
    BY <2>1, <2>2, <2>3 DEF RunnerInv
<1>7. ASSUME request.method = "cancel", UNCHANGED <<process, task, logs>>,
             NEW ok \in BOOLEAN,
             stdout' = Runner!Write(request.run, [method |-> "cancelled", ok |-> ok]),
             \/ UNCHANGED pending
             \/ \E k \in 0..Len(pending[request.run]) :
                  pending' = [pending EXCEPT ![request.run] = SubSeq(@, 1, k)]
      PROVE  RunnerInv'
  <2> DEFINE f == [method |-> "cancelled", ok |-> ok]
             run == request.run
  <2>1. run \in Runs
    BY <1>1, <1>3, <1>7 DEF Asked
  <2>2. Asked'
    BY <1>3, <1>4, <1>7 DEF Asked
  <2>3. RunnerTypes'
    BY <1>1, <1>2, <1>7 DEF RunnerTypes, Runner!Write
  <2>4. ASSUME NEW r \in Runs PROVE RunOK(r)'
    <3>1. CASE r # run
      <4>1. stdout'[r] = stdout[r] /\ pending'[r] = pending[r]
        BY <1>1, <1>7, <3>1 DEF RunnerTypes, Runner!Write
      <4> QED
        BY <1>1, <1>2, <1>7, <4>1, RunKept
    <3>2. CASE r = run
      <4>1. stdout'[r] = Append(stdout[r], f)
        BY <1>1, <1>7, <3>2 DEF RunnerTypes, Runner!Write
      <4>2. IsSeq(pending[r]) /\ \A i \in DOMAIN pending[r] : Proper(pending[r][i])
        BY <1>1 DEF RunOK
      <4>3. /\ IsSeq(pending'[r]) /\ \A i \in DOMAIN pending'[r] : Proper(pending'[r][i])
            /\ pending[r] = <<>> => pending'[r] = <<>>
        <5>1. CASE UNCHANGED pending
          BY <4>2, <5>1
        <5>2. ASSUME NEW k \in 0..Len(pending[run]),
                     pending' = [pending EXCEPT ![run] = SubSeq(@, 1, k)]
              PROVE  /\ IsSeq(pending'[r]) /\ \A i \in DOMAIN pending'[r] : Proper(pending'[r][i])
                     /\ pending[r] = <<>> => pending'[r] = <<>>
          <6>1. pending'[r] = SubSeq(pending[r], 1, k) /\ k \in 0..Len(pending[r])
            BY <1>1, <3>2, <5>2 DEF RunnerTypes
          <6> QED
            BY <4>2, <6>1, Cut
        <5> QED
          BY <1>7, <5>1, <5>2
      <4>4. f.method \in QuietMethods
        BY DEF QuietMethods
      <4> HIDE DEF f
      <4> QED
        BY <1>1, <1>2, <1>7, <4>1, <4>3, <4>4, RunQuiet
    <3> QED
      BY <3>1, <3>2
  <2> QED
    BY <2>2, <2>3, <2>4 DEF RunnerInv
<1>8. ASSUME request.method = "exit", process' = "exited", task' = Runner!Gone(task), logs' = <<>>,
             UNCHANGED <<pending, stdout>>
      PROVE  RunnerInv'
  BY <1>2, <1>8, LeaveKeeps
<1> HIDE DEF request
<1> QED
  BY <1>5, <1>6, <1>7, <1>8 DEF Runner!Read, request

\* Every step of the runs, and every step beside them.
LEMMA RunnerStep ==
  ASSUME RunnerInv, Runner!Next
  PROVE  RunnerInv'
<1>1. RunnerTypes /\ Asked /\ \A r \in Runs : RunOK(r)
  BY DEF RunnerInv
<1>2. CASE Runner!HostCloses
  <2>1. UNCHANGED <<input, process, script, task, pending, given, ended, acc, logs, stdout>>
    BY <1>2 DEF Runner!HostCloses
  <2> QED
    BY <1>1, <2>1 DEF RunnerInv, RunnerTypes, Asked, RunOK
<1>3. CASE Runner!Read
  BY <1>3, ReadKeeps
<1>4. CASE Runner!EndOfInput
  BY <1>4, LeaveKeeps DEF Runner!EndOfInput
<1>5. CASE Runner!Forward
  <2> DEFINE f == [method |-> "log/entry"]
             run == Head(logs)
  <2>1. /\ logs # <<>> /\ logs' = Tail(logs) /\ stdout' = Runner!Write(run, f)
        /\ UNCHANGED <<input, process, script, task, pending, given, ended, acc>>
    BY <1>5 DEF Runner!Forward
  <2>2. run \in Runs /\ IsSeq(logs') /\ \A i \in DOMAIN logs' : logs'[i] \in Runs
    BY <1>1, <2>1, Shortened DEF RunnerTypes
  <2>3. f.method \in QuietMethods
    BY DEF QuietMethods
  <2> HIDE DEF f, run
  <2>4. RunnerTypes' /\ Asked'
    BY <1>1, <2>1, <2>2 DEF RunnerTypes, Asked, Runner!Write
  <2>5. ASSUME NEW r \in Runs PROVE RunOK(r)'
    <3>1. CASE r # run
      <4>1. stdout'[r] = stdout[r]
        BY <1>1, <2>1, <3>1 DEF RunnerTypes, Runner!Write
      <4> QED
        BY <1>1, <2>1, <4>1, RunKept
    <3>2. CASE r = run
      <4>1. stdout'[r] = Append(stdout[r], f)
        BY <1>1, <2>1, <3>2 DEF RunnerTypes, Runner!Write
      <4>2. IsSeq(pending[r]) /\ \A i \in DOMAIN pending[r] : Proper(pending[r][i])
        BY <1>1 DEF RunOK
      <4> QED
        BY <1>1, <2>1, <2>3, <4>1, <4>2, RunQuiet
    <3> QED
      BY <3>1, <3>2
  <2> QED
    BY <2>4, <2>5 DEF RunnerInv
<1>6. ASSUME NEW q \in Runs, Runner!Work(q) PROVE RunnerInv'
  <2>1. ASSUME NEW r \in Runs PROVE RunOK(r)'
    <3>1. CASE r = q
      BY <1>6, <3>1, WorkKeeps
    <3>2. CASE r # q
      BY <1>6, <3>2, WorkElsewhere
    <3> QED
      BY <3>1, <3>2
  <2> QED
    BY <1>6, <2>1, WorkTypes DEF RunnerInv
<1>7. ASSUME NEW q \in Runs, Runner!Log(q) PROVE RunnerInv'
  <2>1. /\ logs' = Append(logs, q)
        /\ UNCHANGED <<input, process, script, task, pending, given, ended, acc, stdout>>
    BY <1>7 DEF Runner!Log
  <2>2. IsSeq(logs') /\ \A i \in DOMAIN logs' : logs'[i] \in Runs
    <3>1. /\ IsSeq(logs') /\ DOMAIN logs' = 1..Len(logs) + 1 /\ \A i \in DOMAIN logs : logs'[i] = logs[i]
          /\ logs'[Len(logs) + 1] = q /\ DOMAIN logs = 1..Len(logs) /\ Len(logs) \in Nat
      BY <1>1, <2>1, Appended, SeqTyped DEF RunnerTypes
    <3>2. \A i \in DOMAIN logs' : i \in DOMAIN logs \/ i = Len(logs) + 1
      BY <3>1
    <3> QED
      BY <1>1, <3>1, <3>2 DEF RunnerTypes
  <2>3. RunnerTypes'
    BY <1>1, <2>1, <2>2 DEF RunnerTypes
  <2> QED
    BY <1>1, <2>1, <2>3 DEF RunnerInv, Asked, RunOK
<1> QED
  BY <1>2, <1>3, <1>4, <1>5, <1>6, <1>7 DEF Runner!Next

\* However the tasks of the runs, cancellations, log entries and the end of the process
\* interleave on one stdout: a run is answered once and last, with what it told, and not
\* before its session's events are over.
THEOREM RunsAreReported == JourneySpec => []RunReported
<1> DEFINE Inv == machine = "provider" => RunnerInv
<1>1. JourneyInit => Inv
  BY RunnerStart DEF JourneyInit, ProviderInit
<1>2. Inv /\ [JourneyNext]_journeyVars => Inv'
  <2> SUFFICES ASSUME Inv, [JourneyNext]_journeyVars, machine' = "provider" PROVE RunnerInv'
    OBVIOUS
  <2>1. machine = "provider"
    BY DEF JourneyNext, journeyVars
  <2>2. CASE JourneyNext
    BY <2>1, <2>2, RunnerStep DEF JourneyNext
  <2>3. CASE UNCHANGED journeyVars
    <3>1. RunnerInv /\ UNCHANGED <<input, process, script, task, pending, given, ended, acc, logs, stdout>>
      BY <2>1, <2>3 DEF journeyVars, providerVars
    <3> QED
      BY <3>1 DEF RunnerInv, RunnerTypes, Asked, RunOK
  <2> QED
    BY <2>2, <2>3
<1>3. Inv => RunReported
  BY DEF RunReported, Runner!RunReported, RunnerInv, RunOK, Telling
<1> QED
  BY <1>1, <1>2, <1>3, PTL DEF JourneySpec

--------------------------------------------------------------------------------
(* Framing: what the parser makes of a text. The operators of Framing speak  *)
(* of what has been read so far; these speak of any text, so that what was   *)
(* read before a step can be compared with what is read after it.            *)

Parsed == [state : {"start", "object", "value", "more", "frame", "invalid"}, depth : Nat, taken : Nat]
Final(p) == p.state \in {"frame", "invalid"}
Fresh == Splits!Expect("start", 0, 0)

ParseOf(s, f, n) ==
  LET after[m \in f..n] == IF m = f THEN Fresh ELSE Splits!Feed(after[m - 1], s[m])
  IN after[n]

\* Up from f, step by step.
LEMMA Upward ==
  ASSUME NEW S, NEW f \in Nat, NEW n \in Nat, f \in S,
         \A m \in f..(n - 1) : m \in S => m + 1 \in S
  PROVE  \A m \in f..n : m \in S
<1> SUFFICES ASSUME NEW k \in f..n, k \notin S PROVE FALSE
  OBVIOUS
<1> DEFINE T == {m \in f..n : m \notin S}
<1>1. T \in SUBSET Nat /\ T # {}
  OBVIOUS
<1>2. PICK m \in T : \A j \in T : m <= j
  <2> HIDE DEF T
  <2> QED
    BY <1>1, Least
<1>3. m # f /\ m \in f..n
  OBVIOUS
<1>4. m - 1 \in f..(n - 1) /\ m - 1 \notin T
  BY <1>2, <1>3
<1>5. m - 1 \in S
  BY <1>4
<1>6. m - 1 + 1 \in S /\ m - 1 + 1 = m
  BY <1>3, <1>4, <1>5
<1> QED
  BY <1>6

\* A parser is given by its three fields.
LEMMA ParsedIs ==
  ASSUME NEW state \in {"start", "object", "value", "more", "frame", "invalid"},
         NEW depth \in Nat, NEW taken \in Nat, NEW q,
         q = [state |-> state, depth |-> depth, taken |-> taken]
  PROVE  q \in Parsed /\ q.state = state /\ q.depth = depth /\ q.taken = taken
  BY DEF Parsed

\* What one token makes of a parser.
LEMMA FeedIs ==
  ASSUME NEW p \in Parsed, NEW tok, NEW q, q = Splits!Feed(p, tok)
  PROVE  /\ q \in Parsed
         /\ Final(p) => q = p
         /\ ~Final(p) /\ q.state # "invalid" => q.taken = p.taken + 1
         /\ ~Final(p) /\ tok \in Splits!Blank => q.state = p.state /\ q.depth = p.depth
         /\ q.state = "start" => p.state = "start" /\ tok \in Splits!Blank
         /\ ~Final(p) /\ q.state = "frame" =>
              p.state \in {"object", "more"} /\ p.depth = 0 /\ tok = "close"
         /\ ~Final(p) /\ q.state = "invalid" => tok \notin Splits!Blank /\ q.taken = p.taken
<1> DEFINE On(state, depth) == [state |-> state, depth |-> depth, taken |-> p.taken + 1]
<1>0. /\ p.state \in {"start", "object", "value", "more", "frame", "invalid"}
      /\ p.depth \in Nat /\ p.taken \in Nat
      /\ 0 \in Nat /\ p.depth + 1 \in Nat /\ p.taken + 1 \in Nat
      /\ p.depth # 0 => p.depth - 1 \in Nat
  BY DEF Parsed
<1>1. CASE Final(p)
  <2>1. q = p
    BY <1>1 DEF Final, Splits!Feed
  <2> QED
    BY <1>1, <2>1 DEF Final
<1>2. CASE ~Final(p) /\ tok \in Splits!Blank
  <2>1. q = On(p.state, p.depth)
    BY <1>2 DEF Final, Splits!Feed, Splits!Expect, Splits!Blank, Splits!Newline
  <2>2. q.state = p.state /\ q.depth = p.depth /\ q.taken = p.taken + 1
    BY <2>1
  <2>3. q \in Parsed
    BY <1>0, <2>1 DEF Parsed
  <2> QED
    BY <1>2, <2>2, <2>3 DEF Final
<1>3. CASE ~Final(p) /\ tok \notin Splits!Blank
  <2>1. CASE p.state = "start" /\ tok = "head"
    <3>1. q = On("object", 0)
      BY <1>3, <2>1 DEF Final, Splits!Feed, Splits!Expect
    <3>2. q \in Parsed /\ q.state = "object" /\ q.taken = p.taken + 1
      <4>1. q.state = "object" /\ q.taken = p.taken + 1
        BY <3>1
      <4> DEFINE d == 0 t == p.taken + 1
      <4>2. d \in Nat /\ t \in Nat /\ q = [state |-> "object", depth |-> d, taken |-> t]
        BY <1>0, <2>1, <3>1
      <4> HIDE DEF d, t
      <4> QED
        BY <4>1, <4>2, ParsedIs
    <3> QED
      BY <1>3, <2>1, <3>2
  <2>2. CASE p.state = "object" /\ tok = "key"
    <3>1. q = On("value", p.depth)
      BY <1>3, <2>2 DEF Final, Splits!Feed, Splits!Expect
    <3>2. q \in Parsed /\ q.state = "value" /\ q.taken = p.taken + 1
      <4>1. q.state = "value" /\ q.taken = p.taken + 1
        BY <3>1
      <4> DEFINE d == p.depth t == p.taken + 1
      <4>2. d \in Nat /\ t \in Nat /\ q = [state |-> "value", depth |-> d, taken |-> t]
        BY <1>0, <2>2, <3>1
      <4> HIDE DEF d, t
      <4> QED
        BY <4>1, <4>2, ParsedIs
    <3> QED
      BY <1>3, <2>2, <3>2
  <2>3. CASE p.state = "value" /\ tok = "head"
    <3>1. q = On("object", p.depth + 1)
      BY <1>3, <2>3 DEF Final, Splits!Feed, Splits!Expect
    <3>2. q \in Parsed /\ q.state = "object" /\ q.taken = p.taken + 1
      <4>1. q.state = "object" /\ q.taken = p.taken + 1
        BY <3>1
      <4> DEFINE d == p.depth + 1 t == p.taken + 1
      <4>2. d \in Nat /\ t \in Nat /\ q = [state |-> "object", depth |-> d, taken |-> t]
        BY <1>0, <2>3, <3>1
      <4> HIDE DEF d, t
      <4> QED
        BY <4>1, <4>2, ParsedIs
    <3> QED
      BY <1>3, <2>3, <3>2
  <2>4. CASE p.state \in {"object", "more"} /\ tok = "close"
    <3>1. CASE p.depth = 0
      <4>1. q = On("frame", 0)
        BY <1>3, <2>4, <3>1 DEF Final, Splits!Feed, Splits!Expect
      <4>2. q \in Parsed /\ q.state = "frame" /\ q.taken = p.taken + 1
        <5>1. q.state = "frame" /\ q.taken = p.taken + 1
          BY <4>1
        <5> DEFINE d == 0 t == p.taken + 1
        <5>2. d \in Nat /\ t \in Nat /\ q = [state |-> "frame", depth |-> d, taken |-> t]
          BY <1>0, <2>4, <3>1, <4>1
        <5> HIDE DEF d, t
        <5> QED
          BY <5>1, <5>2, ParsedIs
      <4> QED
        BY <1>3, <2>4, <3>1, <4>2
    <3>2. CASE p.depth # 0
      <4>1. q = On("more", p.depth - 1)
        BY <1>3, <2>4, <3>2 DEF Final, Splits!Feed, Splits!Expect
      <4>2. q \in Parsed /\ q.state = "more" /\ q.taken = p.taken + 1
        <5>1. q.state = "more" /\ q.taken = p.taken + 1
          BY <4>1
        <5> DEFINE d == p.depth - 1 t == p.taken + 1
        <5>2. d \in Nat /\ t \in Nat /\ q = [state |-> "more", depth |-> d, taken |-> t]
          BY <1>0, <2>4, <3>2, <4>1
        <5> HIDE DEF d, t
        <5> QED
          BY <5>1, <5>2, ParsedIs
      <4> QED
        BY <1>3, <2>4, <3>2, <4>2
    <3> QED
      BY <3>1, <3>2
  <2>5. CASE ~(\/ p.state = "start" /\ tok = "head"
               \/ p.state = "object" /\ tok = "key"
               \/ p.state = "value" /\ tok = "head"
               \/ p.state \in {"object", "more"} /\ tok = "close")
    <3>1. q = [state |-> "invalid", depth |-> 0, taken |-> p.taken]
      BY <1>3, <2>5 DEF Final, Splits!Feed, Splits!Expect
    <3>2. q \in Parsed /\ q.state = "invalid" /\ q.taken = p.taken
      <4>1. q.state = "invalid" /\ q.taken = p.taken
        BY <3>1
      <4> DEFINE d == 0 t == p.taken
      <4>2. d \in Nat /\ t \in Nat /\ q = [state |-> "invalid", depth |-> d, taken |-> t]
        BY <1>0, <3>1
      <4> HIDE DEF d, t
      <4> QED
        BY <4>1, <4>2, ParsedIs
    <3> QED
      BY <1>3, <3>2
  <2> QED
    BY <2>1, <2>2, <2>3, <2>4, <2>5
<1> QED
  BY <1>1, <1>2, <1>3

\* What the parser is at after each token, from f to n.
Parses(s, f, n, after) ==
  /\ after[f] = Fresh
  /\ \A m \in (f + 1)..n : after[m] = Splits!Feed(after[m - 1], s[m])
  /\ ParseOf(s, f, n) = after[n]

\* The recursion of the parser has a value everywhere.
LEMMA ParseEverywhere ==
  ASSUME NEW s, NEW f \in Nat, NEW n \in Nat, f <= n
  PROVE  \E after \in [f..n -> Parsed] : Parses(s, f, n, after)
<1> DEFINE D == f..n
           m == [k \in D |-> k - f]
           N == n - f
           E(g, k) == IF k = f THEN Fresh ELSE Splits!Feed(g[k - 1], s[k])
           step == [k \in D |-> [g \in [D -> Parsed] |-> E(g, k)]]
           Is(g) == g = [k \in D |-> E(g, k)]
           after == CHOOSE g : Is(g)
<1>0. Fresh \in Parsed
  BY DEF Fresh, Splits!Expect, Parsed
<1>1. ASSUME NEW k \in D, NEW g \in [D -> Parsed] PROVE E(g, k) \in Parsed
  <2>1. CASE k = f
    BY <1>0, <2>1
  <2>2. CASE k # f
    <3>1. k - 1 \in D
      BY <2>2
    <3>2. g[k - 1] \in Parsed
      BY <3>1
    <3> QED
      BY <2>2, <3>2, FeedIs
  <2> QED
    BY <2>1, <2>2
<1>2. ASSUME NEW k \in D, NEW g \in [D -> Parsed], NEW h \in [D -> Parsed],
             \A j \in D : m[j] < m[k] => g[j] = h[j]
      PROVE  step[k][g] = step[k][h]
  <2>1. k # f => k - 1 \in D /\ m[k - 1] < m[k]
    OBVIOUS
  <2>2. k # f => g[k - 1] = h[k - 1]
    BY <1>2, <2>1
  <2>3. E(g, k) = E(h, k)
    BY <2>2
  <2> HIDE DEF E, D
  <2> QED
    BY <2>3
<1>3. Descends(D, Parsed, N, m, step)
  <2>1. step \in [D -> [[D -> Parsed] -> Parsed]]
    <3> HIDE DEF E, D
    <3> QED
      BY <1>1
  <2>2. m \in [D -> 0..N] /\ N \in Nat
    OBVIOUS
  <2> HIDE DEF step, m, N, D
  <2> QED
    BY <1>0, <1>2, <2>1, <2>2 DEF Descends
<1>4. PICK g \in [D -> Parsed] : Recurs(g, D, step)
  <2> HIDE DEF D, N, m, step
  <2> QED
    BY <1>3, Recursion
<1>5. Is(g)
  <2>1. \A k \in D : g[k] = E(g, k)
    <3> HIDE DEF E, D
    <3> QED
      BY <1>4 DEF Recurs
  <2> HIDE DEF E, D
  <2> QED
    BY <2>1
<1>6. Is(after)
  <2> HIDE DEF Is
  <2> QED
    BY <1>5
<1>7. ParseOf(s, f, n) = after[n]
  BY DEF ParseOf
<1> HIDE DEF after
<1>8. \A k \in D : after[k] = E(after, k)
  BY <1>6
<1>9. after[f] = Fresh
  BY <1>8
<1>10. \A k \in (f + 1)..n : after[k] = Splits!Feed(after[k - 1], s[k])
  BY <1>8
<1>11. \A k \in D : k \in {j \in D : after[j] \in Parsed}
  <2> DEFINE S == {j \in D : after[j] \in Parsed}
  <2>1. f \in S
    BY <1>0, <1>9
  <2>2. ASSUME NEW k \in f..(n - 1), k \in S PROVE k + 1 \in S
    <3>1. after[k] \in Parsed /\ k + 1 \in (f + 1)..n /\ k + 1 - 1 = k
      BY <2>2
    <3>2. after[k + 1] = Splits!Feed(after[k], s[k + 1])
      BY <1>10, <3>1
    <3>3. after[k + 1] \in Parsed
      BY <3>1, <3>2, FeedIs
    <3> QED
      BY <3>1, <3>3
  <2> HIDE DEF S
  <2>3. \A k \in f..n : k \in S
    BY <2>1, <2>2, Upward
  <2> QED
    BY <2>3 DEF S
<1>12. after \in [D -> Parsed]
  <2>1. after = [k \in D |-> E(after, k)]
    BY <1>6
  <2> HIDE DEF E, D
  <2> QED
    BY <1>11, <2>1
<1>13. Parses(s, f, n, after)
  BY <1>7, <1>9, <1>10 DEF Parses
<1> QED
  BY <1>12, <1>13

\* It begins fresh, and goes on from token to token.
LEMMA ParseGoes ==
  ASSUME NEW s, NEW f \in Nat, NEW n \in Nat, f <= n
  PROVE  /\ ParseOf(s, f, f) = Fresh
         /\ ParseOf(s, f, n) \in Parsed
         /\ ParseOf(s, f, n + 1) = Splits!Feed(ParseOf(s, f, n), s[n + 1])
<1>1. ParseOf(s, f, f) = Fresh
  <2>1. f <= f
    OBVIOUS
  <2>2. PICK b \in [f..f -> Parsed] : Parses(s, f, f, b)
    BY <2>1, ParseEverywhere
  <2> QED
    BY <2>2 DEF Parses
<1>2. PICK a \in [f..n -> Parsed] : Parses(s, f, n, a)
  BY ParseEverywhere
<1>3. PICK b \in [f..(n + 1) -> Parsed] : Parses(s, f, n + 1, b)
  <2> DEFINE k == n + 1
  <2>1. k \in Nat /\ f <= k
    OBVIOUS
  <2> HIDE DEF k
  <2>2. \E b \in [f..k -> Parsed] : Parses(s, f, k, b)
    BY <2>1, ParseEverywhere
  <2> QED
    BY <2>2 DEF k
<1> DEFINE S == {m \in f..n : a[m] = b[m]}
<1>4. f \in S
  BY <1>2, <1>3 DEF Parses
<1>5. ASSUME NEW m \in f..(n - 1), m \in S PROVE m + 1 \in S
  <2>1. m + 1 \in (f + 1)..n /\ m + 1 \in (f + 1)..(n + 1) /\ m + 1 - 1 = m
    OBVIOUS
  <2>2. a[m + 1] = Splits!Feed(a[m], s[m + 1]) /\ b[m + 1] = Splits!Feed(b[m], s[m + 1])
    BY <1>2, <1>3, <2>1 DEF Parses
  <2> QED
    BY <1>5, <2>1, <2>2
<1>6. n \in S
  <2> HIDE DEF S
  <2>1. \A m \in f..n : m \in S
    BY <1>4, <1>5, Upward
  <2> QED
    BY <2>1
<1>7. b[n + 1] = Splits!Feed(b[n], s[n + 1])
  <2>1. n + 1 \in (f + 1)..(n + 1) /\ n + 1 - 1 = n
    OBVIOUS
  <2> QED
    BY <1>3, <2>1 DEF Parses
<1> QED
  BY <1>1, <1>2, <1>3, <1>6, <1>7 DEF Parses

\* The head of an object is the only token that begins one.
LEMMA FeedFresh ==
  ASSUME NEW tok, tok \notin Splits!Blank, NEW q, q = Splits!Feed(Fresh, tok)
  PROVE  \/ tok = "head" /\ q.state = "object" /\ q.depth = 0
         \/ q.state = "invalid"
<1>1. CASE tok = "head"
  <2>1. q = [state |-> "object", depth |-> 0, taken |-> 1]
    BY <1>1 DEF Splits!Feed, Fresh, Splits!Expect
  <2> QED
    BY <1>1, <2>1
<1>2. CASE tok # "head"
  <2>1. q = [state |-> "invalid", depth |-> 0, taken |-> 0]
    BY <1>2 DEF Splits!Feed, Fresh, Splits!Expect
  <2> QED
    BY <2>1
<1> QED
  BY <1>1, <1>2

\* Inside an object, the head of another one is its value, and goes one level down.
LEMMA FeedHead ==
  ASSUME NEW p \in Parsed, ~Final(p), p.state # "start", NEW q, q = Splits!Feed(p, "head"), q.state # "invalid"
  PROVE  q.state = "object" /\ q.depth = p.depth + 1
<1>1. "head" \notin Splits!Blank
  BY DEF Splits!Blank, Splits!Newline
<1>2. p.state = "value"
  BY <1>1 DEF Splits!Feed, Splits!Expect, Final
<1>3. q = Splits!Expect("object", p.depth + 1, p.taken + 1)
  BY <1>1, <1>2 DEF Splits!Feed, Splits!Expect, Final
<1>4. q = [state |-> "object", depth |-> p.depth + 1, taken |-> p.taken + 1]
  BY <1>3 DEF Splits!Expect
<1> QED
  BY <1>4

\* Of two parsers, of which one is some levels deeper, the other sees what it sees, until
\* the inner object ends.
LEMMA FeedNested ==
  ASSUME NEW p \in Parsed, NEW q \in Parsed, NEW tok, NEW D \in Nat \ {0},
         ~Final(p), ~Final(q), p.state # "start", p.state = q.state, p.depth = q.depth + D,
         NEW p2, p2 = Splits!Feed(p, tok), p2.state # "invalid",
         NEW q2, q2 = Splits!Feed(q, tok)
  PROVE  \/ /\ ~Final(p2) /\ ~Final(q2)
            /\ p2.state = q2.state /\ p2.depth = q2.depth + D
         \/ q2.state = "frame" /\ ~Final(p2)
<1>0. /\ p.depth \in Nat /\ q.depth \in Nat /\ p.depth # 0
      /\ p.state \in {"object", "value", "more"}
  BY DEF Parsed, Final
<1> DEFINE On(o, state, depth) == [state |-> state, depth |-> depth, taken |-> o.taken + 1]
<1>1. CASE tok \in Splits!Blank
  <2>1. p2 = On(p, p.state, p.depth) /\ q2 = On(q, q.state, q.depth)
    BY <1>1 DEF Splits!Feed, Splits!Blank, Splits!Newline, Splits!Expect, Final
  <2>2. p2.state = p.state /\ p2.depth = p.depth /\ q2.state = q.state /\ q2.depth = q.depth
    BY <2>1
  <2> QED
    BY <2>2 DEF Final
<1>2. CASE tok \notin Splits!Blank /\ p.state = "object" /\ tok = "key"
  <2>1. p2 = On(p, "value", p.depth) /\ q2 = On(q, "value", q.depth)
    BY <1>2 DEF Splits!Feed, Splits!Expect
  <2>2. p2.state = "value" /\ p2.depth = p.depth /\ q2.state = "value" /\ q2.depth = q.depth
    BY <2>1
  <2> QED
    BY <2>2 DEF Final
<1>3. CASE tok \notin Splits!Blank /\ p.state = "value" /\ tok = "head"
  <2>1. p2 = On(p, "object", p.depth + 1) /\ q2 = On(q, "object", q.depth + 1)
    BY <1>3 DEF Splits!Feed, Splits!Expect
  <2>2. p2.state = "object" /\ p2.depth = p.depth + 1 /\ q2.state = "object" /\ q2.depth = q.depth + 1
    BY <2>1
  <2> QED
    BY <1>0, <2>2 DEF Final
<1>4. CASE tok \notin Splits!Blank /\ p.state \in {"object", "more"} /\ tok = "close"
  <2>1. p2 = On(p, "more", p.depth - 1)
    BY <1>0, <1>4 DEF Splits!Feed, Splits!Expect
  <2>2. p2.state = "more" /\ p2.depth = p.depth - 1
    BY <2>1
  <2>3. CASE q.depth = 0
    <3>1. q2 = On(q, "frame", 0)
      BY <1>4, <2>3 DEF Splits!Feed, Splits!Expect
    <3>2. q2.state = "frame"
      BY <3>1
    <3> QED
      BY <2>2, <3>2 DEF Final
  <2>4. CASE q.depth # 0
    <3>1. q2 = On(q, "more", q.depth - 1)
      BY <1>4, <2>4 DEF Splits!Feed, Splits!Expect
    <3>2. q2.state = "more" /\ q2.depth = q.depth - 1
      BY <3>1
    <3> QED
      BY <1>0, <2>2, <3>2 DEF Final
  <2> QED
    BY <2>3, <2>4
<1>5. CASE ~(\/ tok \in Splits!Blank
             \/ p.state = "object" /\ tok = "key"
             \/ p.state = "value" /\ tok = "head"
             \/ p.state \in {"object", "more"} /\ tok = "close")
  <2>1. p2 = [state |-> "invalid", depth |-> 0, taken |-> p.taken]
    BY <1>0, <1>5 DEF Splits!Feed, Splits!Expect
  <2> QED
    BY <2>1
<1> QED
  BY <1>1, <1>2, <1>3, <1>4, <1>5

\* A parser that the end of the outermost object makes a frame.
Closing(o) == o.state \in {"object", "more"} /\ o.depth = 0

\* From the front f there are blanks up to n.
BlankTo(s, f, n) == \A k \in (f + 1)..n : s[k] \in Splits!Blank

\* What p may be, n tokens into a text from its front.
Position(s, f, n, p) ==
  /\ p \in Parsed
  /\ ~Final(p) => p.taken = n - f
  /\ p.taken <= n - f
  /\ p.state = "start" <=> BlankTo(s, f, n)
  /\ p.state = "frame" =>
       /\ p.taken \in 1..(n - f) /\ s[f + p.taken] = "close"
       /\ ParseOf(s, f, f + p.taken) = p
       /\ Closing(ParseOf(s, f, f + p.taken - 1))

\* One more token.
LEMMA PositionNext ==
  ASSUME NEW s, NEW f \in Nat, NEW n \in Nat, f <= n,
         NEW o, o = ParseOf(s, f, n), Position(s, f, n, o)
  PROVE  Position(s, f, n + 1, ParseOf(s, f, n + 1))
<1> DEFINE q == ParseOf(s, f, n + 1) tok == s[n + 1]
<1>0. o \in Parsed /\ q = Splits!Feed(o, tok)
  BY ParseGoes DEF Position
<1>1. /\ q \in Parsed
      /\ Final(o) => q = o
      /\ ~Final(o) /\ q.state # "invalid" => q.taken = o.taken + 1
      /\ ~Final(o) /\ tok \in Splits!Blank => q.state = o.state /\ q.depth = o.depth
      /\ q.state = "start" => o.state = "start" /\ tok \in Splits!Blank
      /\ ~Final(o) /\ q.state = "frame" => Closing(o) /\ tok = "close"
      /\ ~Final(o) /\ q.state = "invalid" => tok \notin Splits!Blank /\ q.taken = o.taken
  BY <1>0, FeedIs DEF Closing
<1>2. o.taken \in Nat /\ q.taken \in Nat
  BY <1>0, <1>1 DEF Parsed
<1> HIDE DEF q
<1>3. BlankTo(s, f, n + 1) <=> BlankTo(s, f, n) /\ tok \in Splits!Blank
  <2>1. (f + 1)..(n + 1) = ((f + 1)..n) \cup {n + 1}
    OBVIOUS
  <2> QED
    BY <2>1 DEF BlankTo
<1>4. q.state = "start" <=> BlankTo(s, f, n + 1)
  <2>1. o.state = "start" <=> BlankTo(s, f, n)
    BY DEF Position
  <2>2. o.state = "start" => ~Final(o)
    BY DEF Final
  <2> QED
    BY <1>1, <1>3, <2>1, <2>2
<1>5. q.taken <= n + 1 - f /\ (~Final(q) => q.taken = n + 1 - f)
  <2>1. o.taken <= n - f /\ (~Final(o) => o.taken = n - f)
    BY DEF Position
  <2>2. CASE Final(o)
    <3>1. q = o
      BY <1>1, <2>2
    <3> QED
      BY <1>2, <2>1, <2>2, <3>1
  <2>3. CASE ~Final(o)
    <3>1. q.taken = o.taken + 1 \/ (q.taken = o.taken /\ Final(q))
      BY <1>1, <2>3 DEF Final
    <3> QED
      BY <1>2, <2>1, <2>3, <3>1
  <2> QED
    BY <2>2, <2>3
<1>6. ASSUME q.state = "frame"
      PROVE  /\ q.taken \in 1..(n + 1 - f) /\ s[f + q.taken] = "close"
             /\ ParseOf(s, f, f + q.taken) = q
             /\ Closing(ParseOf(s, f, f + q.taken - 1))
  <2>1. CASE Final(o)
    <3>1. q = o
      BY <1>1, <2>1
    <3>2. /\ o.taken \in 1..(n - f) /\ s[f + o.taken] = "close"
          /\ ParseOf(s, f, f + o.taken) = o
          /\ Closing(ParseOf(s, f, f + o.taken - 1))
      BY <1>6, <3>1 DEF Position
    <3>3. o.taken \in 1..(n + 1 - f)
      BY <3>2
    <3> QED
      BY <3>1, <3>2, <3>3
  <2>2. CASE ~Final(o)
    <3>1. o.taken = n - f /\ q.taken = o.taken + 1
      BY <1>1, <1>6, <2>2 DEF Position
    <3> DEFINE t == q.taken
    <3>2. t = n + 1 - f /\ t \in Nat
      BY <1>2, <3>1
    <3>3. Closing(o) /\ tok = "close"
      BY <1>1, <1>6, <2>2
    <3> HIDE DEF t
    <3>4. f + t = n + 1 /\ f + t - 1 = n /\ t \in 1..(n + 1 - f)
      BY <3>2
    <3> QED
      BY <3>3, <3>4 DEF t, q
  <2> QED
    BY <2>1, <2>2
<1> QED
  BY <1>1, <1>4, <1>5, <1>6 DEF Position, q

\* Of any text, what the parser at position n, from the front f, is at.
LEMMA ParseAt ==
  ASSUME NEW s, NEW f \in Nat, NEW n \in Nat, f <= n
  PROVE  Position(s, f, n, ParseOf(s, f, n))
<1> DEFINE S == {k \in f..n : Position(s, f, k, ParseOf(s, f, k))}
<1>1. f \in S
  <2>1. ParseOf(s, f, f) = Fresh
    <3>1. f <= f
      OBVIOUS
    <3> QED
      BY <3>1, ParseGoes
  <2>2. Fresh.state = "start" /\ Fresh.taken = 0
    BY DEF Fresh, Splits!Expect
  <2>3. Fresh \in Parsed
    BY DEF Fresh, Splits!Expect, Parsed
  <2>4. BlankTo(s, f, f)
    BY DEF BlankTo
  <2>5. 0 = f - f /\ 0 <= f - f
    OBVIOUS
  <2>6. Position(s, f, f, Fresh)
    BY <2>2, <2>3, <2>4, <2>5 DEF Position, Final
  <2> QED
    BY <2>1, <2>6
<1>2. ASSUME NEW k \in f..(n - 1), k \in S PROVE k + 1 \in S
  <2>1. k \in Nat /\ f <= k /\ k + 1 \in f..n
    OBVIOUS
  <2> QED
    BY <1>2, <2>1, PositionNext
<1> HIDE DEF S
<1>3. \A k \in f..n : k \in S
  BY <1>1, <1>2, Upward
<1> QED
  BY <1>3 DEF S

\* What is a frame, or none, stays so whatever follows.
LEMMA ParseStays ==
  ASSUME NEW s, NEW f \in Nat, NEW m \in Nat, NEW n \in Nat, f <= m, m <= n, Final(ParseOf(s, f, m))
  PROVE  ParseOf(s, f, n) = ParseOf(s, f, m)
<1> DEFINE S == {k \in m..n : ParseOf(s, f, k) = ParseOf(s, f, m)}
<1>1. m \in S
  OBVIOUS
<1>2. ASSUME NEW k \in m..(n - 1), k \in S PROVE k + 1 \in S
  <2>1. k \in Nat /\ f <= k /\ k + 1 \in m..n
    OBVIOUS
  <2>2. ParseOf(s, f, k + 1) = Splits!Feed(ParseOf(s, f, k), s[k + 1]) /\ ParseOf(s, f, k) \in Parsed
    BY <2>1, ParseGoes
  <2>3. Final(ParseOf(s, f, k)) /\ ParseOf(s, f, k) = ParseOf(s, f, m)
    BY <1>2
  <2>4. ParseOf(s, f, k + 1) = ParseOf(s, f, k)
    BY <2>2, <2>3, FeedIs
  <2> QED
    BY <2>1, <2>3, <2>4
<1> HIDE DEF S
<1>3. \A k \in m..n : k \in S
  BY <1>1, <1>2, Upward
<1> QED
  BY <1>3 DEF S

\* So what is going on at some point has been going on before.
LEMMA ParseGoesOn ==
  ASSUME NEW s, NEW f \in Nat, NEW m \in Nat, NEW n \in Nat, f <= m, m <= n, ~Final(ParseOf(s, f, n))
  PROVE  ~Final(ParseOf(s, f, m))
  BY ParseStays

\* A text that begins with no blank is an object, or nothing.
LEMMA ParseHead ==
  ASSUME NEW s, NEW f \in Nat, NEW n \in Nat, f < n, s[f + 1] \notin Splits!Blank,
         ParseOf(s, f, n).state # "invalid"
  PROVE  /\ s[f + 1] = "head"
         /\ ParseOf(s, f, f + 1).state = "object" /\ ParseOf(s, f, f + 1).depth = 0
<1>1. f <= f /\ f + 1 \in Nat /\ f <= f + 1 /\ f + 1 <= n
  OBVIOUS
<1>2. ParseOf(s, f, f + 1) = Splits!Feed(Fresh, s[f + 1])
  BY <1>1, ParseGoes
<1>3. ParseOf(s, f, f + 1).state # "invalid"
  BY <1>1, ParseStays DEF Final
<1> QED
  BY <1>2, <1>3, FeedFresh

\* What a text goes on with does not change what has been seen of it.
LEMMA ParsePrefix ==
  ASSUME NEW s, NEW t, NEW f \in Nat, NEW n \in Nat, f <= n, \A k \in (f + 1)..n : s[k] = t[k]
  PROVE  ParseOf(s, f, n) = ParseOf(t, f, n)
<1> DEFINE S == {k \in f..n : ParseOf(s, f, k) = ParseOf(t, f, k)}
<1>1. f \in S
  <2>1. f <= f
    OBVIOUS
  <2> QED
    BY <2>1, ParseGoes
<1>2. ASSUME NEW k \in f..(n - 1), k \in S PROVE k + 1 \in S
  <2>1. k \in Nat /\ f <= k /\ k + 1 \in (f + 1)..n
    OBVIOUS
  <2>2. /\ ParseOf(s, f, k + 1) = Splits!Feed(ParseOf(s, f, k), s[k + 1])
        /\ ParseOf(t, f, k + 1) = Splits!Feed(ParseOf(t, f, k), t[k + 1])
    BY <2>1, ParseGoes
  <2> QED
    BY <1>2, <2>1, <2>2
<1> HIDE DEF S
<1>3. \A k \in f..n : k \in S
  BY <1>1, <1>2, Upward
<1> QED
  BY <1>3 DEF S

\* From the front f there is a frame, and it ends at e.
Ends(s, f, e) == ParseOf(s, f, e).state = "frame" /\ ParseOf(s, f, e).taken = e - f

\* A frame begins with a head, ends with the end of an object, and nothing before is one.
LEMMA EndsIs ==
  ASSUME NEW s, NEW f \in Nat, NEW e \in Nat, f <= e, Ends(s, f, e)
  PROVE  /\ f + 1 < e /\ s[e] = "close"
         /\ Closing(ParseOf(s, f, e - 1)) /\ ~Final(ParseOf(s, f, e - 1))
<1>1. Position(s, f, e, ParseOf(s, f, e))
  BY ParseAt
<1>2. f + (e - f) = e /\ f + (e - f) - 1 = e - 1
  OBVIOUS
<1>3. /\ e - f \in 1..(e - f) /\ s[e] = "close" /\ Closing(ParseOf(s, f, e - 1))
  <2> DEFINE t == ParseOf(s, f, e).taken
  <2>1. t = e - f
    BY DEF Ends
  <2>2. /\ t \in 1..(e - f) /\ s[f + t] = "close" /\ Closing(ParseOf(s, f, f + t - 1))
    BY <1>1 DEF Ends, Position
  <2> HIDE DEF t
  <2> QED
    BY <1>2, <2>1, <2>2
<1>4. ~Final(ParseOf(s, f, e - 1)) /\ ParseOf(s, f, e - 1).state # "start"
  BY <1>3 DEF Closing, Final
<1>5. f + 1 < e
  <2>1. f < e
    BY <1>3
  <2>2. f # e - 1
    <3> SUFFICES ASSUME f = e - 1 PROVE FALSE
      OBVIOUS
    <3>1. BlankTo(s, f, f) /\ f <= f
      BY DEF BlankTo
    <3>2. ParseOf(s, f, f).state = "start"
      BY <3>1, ParseAt DEF Position
    <3> QED
      BY <1>4, <3>2
  <2> QED
    BY <2>1, <2>2
<1> QED
  BY <1>3, <1>4, <1>5

\* The parser from i sees what that from f sees, some levels deeper; or it has come to
\* the end of its frame, before e.
Inside(s, f, i, e, D, k) ==
  LET p == ParseOf(s, f, k) q == ParseOf(s, i, k) IN
  \/ ~Final(p) /\ ~Final(q) /\ p.state # "start" /\ p.state = q.state /\ p.depth = q.depth + D
  \/ q.state = "frame" /\ i + q.taken < e

\* Where something has begun and is not over.
UnderWay(p) == p \in Parsed /\ ~Final(p) /\ p.state # "start"

\* Before a frame ends, it is under way.
LEMMA GoingUp ==
  ASSUME NEW s, NEW f \in Nat, NEW e \in Nat, f <= e, s[f + 1] \notin Splits!Blank, Ends(s, f, e),
         NEW k \in (f + 1)..(e - 1)
  PROVE  UnderWay(ParseOf(s, f, k))
<1>1. k \in Nat /\ f <= k /\ k <= e - 1 /\ e - 1 \in Nat /\ f + 1 \in (f + 1)..k
  OBVIOUS
<1>2. ParseOf(s, f, k) \in Parsed
  BY <1>1, ParseGoes
<1>3. ~Final(ParseOf(s, f, k))
  BY <1>1, EndsIs, ParseGoesOn
<1>4. ~BlankTo(s, f, k)
  BY <1>1 DEF BlankTo
<1>5. ParseOf(s, f, k).state # "start"
  BY <1>1, <1>4, ParseAt DEF Position
<1> QED
  BY <1>2, <1>3, <1>5 DEF UnderWay

\* How it begins.
LEMMA InsideBegins ==
  ASSUME NEW s, NEW f \in Nat, NEW i \in Nat, NEW e, NEW D \in Nat,
         f <= i, s[i + 1] = "head", UnderWay(ParseOf(s, f, i)), UnderWay(ParseOf(s, f, i + 1)),
         D = ParseOf(s, f, i).depth + 1
  PROVE  Inside(s, f, i, e, D, i + 1)
<1> DEFINE p == ParseOf(s, f, i + 1) q == ParseOf(s, i, i + 1)
<1>0. i <= i
  OBVIOUS
<1>1. p = Splits!Feed(ParseOf(s, f, i), "head") /\ q = Splits!Feed(Fresh, "head")
  <2>1. p = Splits!Feed(ParseOf(s, f, i), s[i + 1])
    BY ParseGoes
  <2>2. q = Splits!Feed(ParseOf(s, i, i), s[i + 1]) /\ ParseOf(s, i, i) = Fresh
    BY <1>0, ParseGoes
  <2> QED
    BY <2>1, <2>2
<1>2. p.state = "object" /\ p.depth = D
  BY <1>1, FeedHead DEF UnderWay, Final
<1>3. q.state = "object" /\ q.depth = 0
  <2>1. "head" \notin Splits!Blank
    BY DEF Splits!Blank, Splits!Newline
  <2>2. q = [state |-> "object", depth |-> 0, taken |-> 1]
    BY <1>1, <2>1 DEF Splits!Feed, Fresh, Splits!Expect
  <2> HIDE DEF q
  <2> QED
    BY <2>2
<1> HIDE DEF p, q
<1>4. p.depth = q.depth + D
  BY <1>2, <1>3
<1> QED
  BY <1>2, <1>3, <1>4 DEF Inside, p, q, Final

\* The outer parser has seen k tokens, and goes on to the end of its frame at e; the inner
\* one has come to the end of its own before.
Along(s, f, i, e, k) ==
  /\ f \in Nat /\ i \in Nat /\ e \in Nat /\ k \in Nat /\ f <= i /\ i <= k /\ k < e
  /\ ParseOf(s, f, k + 1).state # "invalid"
  /\ k + 1 # e => UnderWay(ParseOf(s, f, k + 1))
  /\ k + 1 = e => Final(ParseOf(s, f, k + 1))
EndsBefore(s, i, e) == ParseOf(s, i, e).state = "frame" /\ i + ParseOf(s, i, e).taken < e

\* How it goes on.
LEMMA InsideGoes ==
  ASSUME NEW s, NEW f, NEW i, NEW e, NEW D \in Nat \ {0}, NEW k,
         Along(s, f, i, e, k), Inside(s, f, i, e, D, k)
  PROVE  Inside(s, f, i, e, D, k + 1) /\ (k + 1 = e => EndsBefore(s, i, e))
<1> USE DEF Along, EndsBefore
<1> DEFINE p == ParseOf(s, f, k) q == ParseOf(s, i, k)
           p2 == ParseOf(s, f, k + 1) q2 == ParseOf(s, i, k + 1)
<1>0. f <= k /\ k + 1 \in Nat /\ i <= k + 1
  OBVIOUS
<1>1. /\ p2 = Splits!Feed(p, s[k + 1]) /\ p \in Parsed
      /\ q2 = Splits!Feed(q, s[k + 1]) /\ q \in Parsed
  BY <1>0, ParseGoes
<1>2. CASE q.state = "frame" /\ i + q.taken < e
  <2>1. q2 = q
    BY <1>1, <1>2, FeedIs DEF Final
  <2> QED
    BY <1>2, <2>1 DEF Inside
<1>3. CASE ~(q.state = "frame" /\ i + q.taken < e)
  <2>1. ~Final(p) /\ ~Final(q) /\ p.state # "start" /\ p.state = q.state /\ p.depth = q.depth + D
    BY <1>3 DEF Inside
  <2>2. p2.state # "invalid"
    OBVIOUS
  <2>3. /\ Position(s, i, k + 1, q2)
    BY <1>0, ParseAt
  <2> HIDE DEF p, q, p2, q2
  <2>4. \/ /\ ~Final(p2) /\ ~Final(q2) /\ p2.state = q2.state /\ p2.depth = q2.depth + D
        \/ q2.state = "frame" /\ ~Final(p2)
    BY <1>1, <2>1, <2>2, FeedNested
  <2>5. k + 1 # e
    BY <2>4 DEF p2
  <2>6. UnderWay(p2)
    BY <2>5 DEF p2
  <2>7. i + q2.taken < e
    <3> DEFINE t == q2.taken
    <3>1. t <= k + 1 - i /\ t \in Nat
      BY <2>3 DEF Position, Parsed
    <3> HIDE DEF t
    <3>2. i + t < e
      BY <2>5, <3>1
    <3> QED
      BY <3>2 DEF t
  <2> QED
    BY <2>4, <2>5, <2>6, <2>7 DEF Inside, UnderWay, p2, q2
<1> QED
  BY <1>2, <1>3

\* An object within a frame ends within it.
LEMMA Nesting ==
  ASSUME NEW s, NEW f \in Nat, NEW e \in Nat, f <= e, s[f + 1] \notin Splits!Blank, Ends(s, f, e),
         NEW i \in (f + 1)..(e - 1), s[i + 1] = "head"
  PROVE  ParseOf(s, i, e).state = "frame" /\ i + ParseOf(s, i, e).taken < e
<1> DEFINE D == ParseOf(s, f, i).depth + 1
           S == {k \in (i + 1)..(e - 1) : Inside(s, f, i, e, D, k)}
<1>0. /\ i \in Nat /\ i + 1 \in Nat /\ f <= i /\ e - 1 \in Nat /\ e - 1 + 1 = e
      /\ i <= e - 1 /\ f <= e - 1
  OBVIOUS
<1>1. i + 1 # e
  <2> SUFFICES ASSUME i + 1 = e PROVE FALSE
    OBVIOUS
  <2>1. s[e] = "close"
    BY EndsIs
  <2> QED
    BY <2>1
<1>2. i + 1 \in (f + 1)..(e - 1) /\ i + 1 \in (i + 1)..(e - 1) /\ e - 1 \in (i + 1)..(e - 1)
  BY <1>0, <1>1
<1>3. UnderWay(ParseOf(s, f, i)) /\ UnderWay(ParseOf(s, f, i + 1))
  BY <1>2, GoingUp
<1>4. D \in Nat \ {0}
  <2> DEFINE d == ParseOf(s, f, i).depth
  <2>1. d \in Nat
    BY <1>3 DEF UnderWay, Parsed
  <2> HIDE DEF d
  <2> QED
    BY <2>1 DEF d
<1> HIDE DEF D
<1>5. i + 1 \in S
  <2>1. D = ParseOf(s, f, i).depth + 1
    BY DEF D
  <2>2. D \in Nat
    BY <1>4
  <2> QED
    BY <1>0, <1>2, <1>3, <2>1, <2>2, InsideBegins
<1>6. ASSUME NEW k \in (i + 1)..((e - 1) - 1), k \in S PROVE k + 1 \in S
  <2>1. /\ k \in Nat /\ i <= k /\ k < e /\ k + 1 # e /\ k + 1 \in (f + 1)..(e - 1)
        /\ k + 1 \in (i + 1)..(e - 1)
    BY <1>0
  <2>2. UnderWay(ParseOf(s, f, k + 1))
    BY <2>1, GoingUp
  <2>3. ParseOf(s, f, k + 1).state # "invalid"
    BY <2>2 DEF UnderWay, Final
  <2>4. Inside(s, f, i, e, D, k)
    BY <1>6
  <2>5. Along(s, f, i, e, k)
    BY <1>0, <2>1, <2>2, <2>3 DEF Along
  <2>6. Inside(s, f, i, e, D, k + 1)
    BY <1>4, <2>4, <2>5, InsideGoes
  <2> QED
    BY <2>1, <2>6
<1>7. e - 1 \in S
  <2> HIDE DEF S
  <2>1. \A k \in (i + 1)..(e - 1) : k \in S
    BY <1>0, <1>5, <1>6, Upward
  <2> QED
    BY <1>2, <2>1
<1>8. Inside(s, f, i, e, D, e - 1)
  BY <1>7
<1> DEFINE k == e - 1
<1>9. k \in Nat /\ i <= k /\ k < e /\ k + 1 = e
  BY <1>0
<1>10. ParseOf(s, f, e).state # "invalid" /\ Final(ParseOf(s, f, e))
  BY DEF Ends, Final
<1>11. Inside(s, f, i, e, D, k)
  BY <1>8
<1>12. ParseOf(s, f, k + 1).state # "invalid" /\ Final(ParseOf(s, f, k + 1))
  BY <1>9, <1>10
<1> HIDE DEF k, S
<1>13. Along(s, f, i, e, k)
  BY <1>0, <1>9, <1>12 DEF Along
<1>14. EndsBefore(s, i, e)
  BY <1>4, <1>9, <1>11, <1>13, InsideGoes
<1> QED
  BY <1>14 DEF EndsBefore

--------------------------------------------------------------------------------
(* Framing: the turns of the inner loop over a text.                         *)

NewlineOf(s, i) ==
  LET at == {j \in (i + 1)..Len(s) : s[j] = Splits!Newline}
  IN  IF at = {} THEN 0 ELSE CHOOSE j \in at : \A k \in at : j <= k

TrimOf(s, b) ==
  CHOOSE j \in b..Len(s) : BlankTo(s, b, j) /\ (j = Len(s) \/ s[j + 1] \notin Splits!Blank)

TurnOf(s, f) ==
  LET p == ParseOf(s, f, Len(s))
      i == f + p.taken
      nl == NewlineOf(s, i)
  IN CASE p.state = "frame" /\ nl # 0 ->
            [to |-> nl, frame |-> IF BlankTo(s, i, nl) THEN << <<f + 1, i>> >> ELSE <<>>]
       [] p.state = "invalid" /\ NewlineOf(s, f) # 0 -> [to |-> NewlineOf(s, f), frame |-> <<>>]
       [] OTHER -> [to |-> f, frame |-> <<>>]

\* Behind i, nl is the first newline; or there is none, and it is 0.
FirstNewline(s, i, nl) ==
  \/ nl = 0 /\ \A j \in (i + 1)..Len(s) : s[j] # Splits!Newline
  \/ /\ nl \in (i + 1)..Len(s) /\ s[nl] = Splits!Newline
     /\ \A j \in (i + 1)..(nl - 1) : s[j] # Splits!Newline

\* There is one answer, and NewlineOf has it.
LEMMA NewlineIs ==
  ASSUME NEW s, Len(s) \in Nat, NEW i \in Nat
  PROVE  /\ FirstNewline(s, i, NewlineOf(s, i))
         /\ \A n : FirstNewline(s, i, n) => NewlineOf(s, i) = n
<1> DEFINE at == {j \in (i + 1)..Len(s) : s[j] = Splits!Newline}
<1>1. CASE at = {}
  <2>1. NewlineOf(s, i) = 0
    BY <1>1 DEF NewlineOf
  <2> QED
    BY <1>1, <2>1 DEF FirstNewline
<1>2. CASE at # {}
  <2>1. at \in SUBSET Nat
    OBVIOUS
  <2>2. \E n \in at : \A m \in at : n <= m
    <3> HIDE DEF at
    <3> QED
      BY <1>2, <2>1, Least
  <2> DEFINE nl == NewlineOf(s, i)
  <2>3. nl = CHOOSE j \in at : \A k \in at : j <= k
    BY <1>2 DEF NewlineOf
  <2> HIDE DEF nl
  <2>4. nl \in at /\ \A k \in at : nl <= k
    <3> HIDE DEF at
    <3> QED
      BY <2>2, <2>3
  <2>5. nl \in (i + 1)..Len(s) /\ s[nl] = Splits!Newline
    BY <2>4
  <2>6. ASSUME NEW j \in (i + 1)..(nl - 1) PROVE s[j] # Splits!Newline
    <3>1. j \in (i + 1)..Len(s) /\ ~(nl <= j)
      BY <2>5
    <3> QED
      BY <2>4, <3>1
  <2>7. ASSUME NEW n, FirstNewline(s, i, n) PROVE nl = n
    <3>1. n # 0
      BY <2>5, <2>7 DEF FirstNewline
    <3>2. /\ n \in (i + 1)..Len(s) /\ s[n] = Splits!Newline
          /\ \A j \in (i + 1)..(n - 1) : s[j] # Splits!Newline
      BY <2>7, <3>1 DEF FirstNewline
    <3>3. nl <= n
      BY <2>4, <3>2
    <3>4. nl \notin (i + 1)..(n - 1)
      BY <2>5, <3>2
    <3> QED
      BY <2>5, <3>2, <3>3, <3>4
  <2> QED
    BY <2>5, <2>6, <2>7 DEF FirstNewline, nl
<1> QED
  BY <1>1, <1>2

\* Behind b, j is the end of the blanks.
FirstMark(s, b, j) ==
  j \in b..Len(s) /\ BlankTo(s, b, j) /\ (j = Len(s) \/ s[j + 1] \notin Splits!Blank)

\* There is one, and TrimOf has it.
LEMMA TrimIs ==
  ASSUME NEW s, Len(s) \in Nat, NEW b \in 0..Len(s)
  PROVE  FirstMark(s, b, TrimOf(s, b)) /\ \A j : FirstMark(s, b, j) => TrimOf(s, b) = j
<1> DEFINE T == {j \in b..Len(s) : j = Len(s) \/ s[j + 1] \notin Splits!Blank}
<1>1. T \in SUBSET Nat /\ T # {}
  <2>1. Len(s) \in T
    OBVIOUS
  <2> QED
    BY <2>1
<1>2. PICK n \in T : \A m \in T : n <= m
  <2> HIDE DEF T
  <2> QED
    BY <1>1, Least
<1>3. FirstMark(s, b, n)
  <2>1. ASSUME NEW k \in (b + 1)..n PROVE s[k] \in Splits!Blank
    <3>1. k - 1 \in b..Len(s) /\ ~(n <= k - 1) /\ k - 1 # Len(s) /\ k - 1 + 1 = k
      OBVIOUS
    <3>2. k - 1 \notin T
      BY <1>2, <3>1
    <3> QED
      BY <3>1, <3>2
  <2> QED
    BY <2>1 DEF FirstMark, BlankTo
<1>4. FirstMark(s, b, TrimOf(s, b))
  <2>1. \E j \in b..Len(s) : BlankTo(s, b, j) /\ (j = Len(s) \/ s[j + 1] \notin Splits!Blank)
    BY <1>3 DEF FirstMark
  <2> DEFINE Is(j) == BlankTo(s, b, j) /\ (j = Len(s) \/ s[j + 1] \notin Splits!Blank)
             c == CHOOSE j \in b..Len(s) : Is(j)
  <2>2. c \in b..Len(s) /\ Is(c)
    <3> HIDE DEF Is
    <3>1. \E j \in b..Len(s) : Is(j)
      BY <2>1 DEF Is
    <3> QED
      BY <3>1
  <2>3. TrimOf(s, b) = c
    BY DEF TrimOf
  <2> HIDE DEF c
  <2> QED
    BY <2>2, <2>3 DEF FirstMark
<1>5. ASSUME NEW j, FirstMark(s, b, j), NEW k, FirstMark(s, b, k) PROVE ~(j < k)
  <2> SUFFICES ASSUME j < k PROVE FALSE
    OBVIOUS
  <2>1. j \in b..Len(s) /\ k \in b..Len(s)
    BY <1>5 DEF FirstMark
  <2>2. j + 1 \in (b + 1)..k /\ j # Len(s)
    BY <2>1
  <2>3. s[j + 1] \in Splits!Blank
    BY <1>5, <2>2 DEF FirstMark, BlankTo
  <2> QED
    BY <1>5, <2>2, <2>3 DEF FirstMark
<1>6. ASSUME NEW j, FirstMark(s, b, j) PROVE TrimOf(s, b) = j
  <2>1. j \in Nat /\ TrimOf(s, b) \in Nat
    BY <1>4, <1>6 DEF FirstMark
  <2>2. ~(j < TrimOf(s, b)) /\ ~(TrimOf(s, b) < j)
    BY <1>4, <1>5, <1>6
  <2> QED
    BY <2>1, <2>2
<1> QED
  BY <1>4, <1>6

\* Blanks that are gone are not seen again.
LEMMA TrimAgain ==
  ASSUME NEW s, Len(s) \in Nat, NEW b \in 0..Len(s), NEW c \in b..Len(s), BlankTo(s, b, c)
  PROVE  TrimOf(s, b) = TrimOf(s, c)
<1>1. c \in 0..Len(s)
  OBVIOUS
<1> DEFINE j == TrimOf(s, c)
<1>2. FirstMark(s, c, j)
  BY <1>1, TrimIs
<1> HIDE DEF j
<1>3. FirstMark(s, b, j)
  <2>1. j \in c..Len(s)
    BY <1>2 DEF FirstMark
  <2>2. (b + 1)..j = ((b + 1)..c) \cup ((c + 1)..j)
    BY <1>1, <2>1
  <2>3. BlankTo(s, b, j)
    BY <1>2, <2>2 DEF FirstMark, BlankTo
  <2>4. j \in b..Len(s)
    BY <1>1, <2>1
  <2> QED
    BY <1>2, <2>3, <2>4 DEF FirstMark
<1> QED
  BY <1>3, TrimIs DEF j

\* A frame that ends at the newline to, if only blanks are between.
FrameTo(s, f, e, to) == IF BlankTo(s, e, to) THEN << <<f + 1, e>> >> ELSE <<>>

\* The three turns: over a frame, over what is none, and none yet.
TurnFrame(s, f, t) ==
  LET p == ParseOf(s, f, Len(s)) IN
  /\ p.state = "frame"
  /\ t.to = NewlineOf(s, f + p.taken) /\ t.to # 0
  /\ t.frame = FrameTo(s, f, f + p.taken, t.to)
TurnInvalid(s, f, t) ==
  /\ ParseOf(s, f, Len(s)).state = "invalid"
  /\ t.to = NewlineOf(s, f) /\ t.to # 0 /\ t.frame = <<>>
TurnNone(s, f, t) ==
  LET p == ParseOf(s, f, Len(s)) IN
  /\ p.state = "frame" => NewlineOf(s, f + p.taken) = 0
  /\ p.state = "invalid" => NewlineOf(s, f) = 0
  /\ t.to = f /\ t.frame = <<>>

\* A turn is one of them.
LEMMA TurnIs ==
  ASSUME NEW s, NEW f
  PROVE  LET t == TurnOf(s, f) IN TurnFrame(s, f, t) \/ TurnInvalid(s, f, t) \/ TurnNone(s, f, t)
<1> DEFINE p == ParseOf(s, f, Len(s)) i == f + p.taken nl == NewlineOf(s, i) t == TurnOf(s, f)
<1>1. CASE p.state = "frame" /\ nl # 0
  <2>1. t = [to |-> nl, frame |-> FrameTo(s, f, i, nl)]
    BY <1>1 DEF TurnOf, FrameTo
  <2>2. t.to = nl /\ t.frame = FrameTo(s, f, i, nl)
    BY <2>1
  <2> QED
    BY <1>1, <2>2 DEF TurnFrame
<1>2. CASE p.state = "invalid" /\ NewlineOf(s, f) # 0
  <2>1. t = [to |-> NewlineOf(s, f), frame |-> <<>>]
    BY <1>2 DEF TurnOf
  <2>2. t.to = NewlineOf(s, f) /\ t.frame = <<>>
    BY <2>1
  <2> QED
    BY <1>2, <2>2 DEF TurnInvalid
<1>3. CASE ~(p.state = "frame" /\ nl # 0) /\ ~(p.state = "invalid" /\ NewlineOf(s, f) # 0)
  <2>1. t = [to |-> f, frame |-> <<>>]
    BY <1>3 DEF TurnOf
  <2>2. t.to = f /\ t.frame = <<>>
    BY <2>1
  <2> QED
    BY <1>3, <2>2 DEF TurnNone
<1> QED
  BY <1>1, <1>2, <1>3

\* Where a turn leads.
LEMMA TurnGoes ==
  ASSUME NEW s, Len(s) \in Nat, NEW f \in 0..Len(s)
  PROVE  LET t == TurnOf(s, f) IN
         /\ t.to \in f..Len(s) /\ t.frame \in Seq(Nat \X Nat)
         /\ TurnFrame(s, f, t) =>
              LET e == f + ParseOf(s, f, Len(s)).taken IN
              /\ e \in (f + 1)..Len(s) /\ Ends(s, f, e)
              /\ t.to \in (e + 1)..Len(s) /\ FirstNewline(s, e, t.to)
         /\ TurnInvalid(s, f, t) => t.to \in (f + 1)..Len(s) /\ FirstNewline(s, f, t.to)
<1> DEFINE t == TurnOf(s, f) p == ParseOf(s, f, Len(s)) e == f + p.taken
<1>1. CASE TurnFrame(s, f, t)
  <2>0. f \in Nat /\ f <= Len(s)
    OBVIOUS
  <2>1. /\ p.taken \in 1..(Len(s) - f) /\ ParseOf(s, f, e) = p
    <3>1. Position(s, f, Len(s), p)
      BY <2>0, ParseAt
    <3> HIDE DEF p
    <3> QED
      BY <1>1, <3>1 DEF TurnFrame, Position, p
  <2>2. e \in (f + 1)..Len(s) /\ p.taken = e - f
    <3> DEFINE n == p.taken
    <3>1. n \in 1..(Len(s) - f)
      BY <2>1
    <3> HIDE DEF n
    <3>2. f + n \in (f + 1)..Len(s) /\ n = f + n - f
      BY <3>1
    <3>3. p.taken = e - f
      <4>1. e = f + n
        BY DEF n
      <4> HIDE DEF e
      <4>2. n = e - f
        BY <3>1, <3>2, <4>1
      <4> QED
        BY <4>2 DEF n
    <3>4. e \in (f + 1)..Len(s)
      BY <3>2 DEF n
    <3> QED
      BY <3>3, <3>4
  <2>3. Ends(s, f, e)
    BY <1>1, <2>1, <2>2 DEF Ends, TurnFrame
  <2>4. t.to = NewlineOf(s, e) /\ t.to # 0 /\ t.frame = FrameTo(s, f, e, t.to)
    BY <1>1 DEF TurnFrame
  <2> HIDE DEF e, t
  <2>5. e \in Nat /\ f + 1 \in Nat
    BY <2>2
  <2>6. FirstNewline(s, e, t.to)
    BY <2>4, <2>5, NewlineIs
  <2>7. t.to \in (e + 1)..Len(s)
    BY <2>4, <2>6 DEF FirstNewline
  <2>8. t.to \in f..Len(s)
    BY <2>2, <2>7
  <2>9. t.frame \in Seq(Nat \X Nat)
    <3>1. <<f + 1, e>> \in Nat \X Nat
      BY <2>5
    <3>2. << <<f + 1, e>> >> \in Seq(Nat \X Nat) /\ <<>> \in Seq(Nat \X Nat)
      BY <3>1
    <3> QED
      BY <2>4, <3>2 DEF FrameTo
  <2>10. ~TurnInvalid(s, f, t)
    BY <1>1 DEF TurnFrame, TurnInvalid
  <2> QED
    BY <2>2, <2>3, <2>6, <2>7, <2>8, <2>9, <2>10 DEF e, t
<1>2. CASE TurnInvalid(s, f, t)
  <2>1. t.to = NewlineOf(s, f) /\ t.to # 0 /\ t.frame = <<>>
    BY <1>2 DEF TurnInvalid
  <2> HIDE DEF t
  <2>2. FirstNewline(s, f, t.to)
    BY <2>1, NewlineIs
  <2>3. t.to \in (f + 1)..Len(s)
    BY <2>1, <2>2 DEF FirstNewline
  <2>4. t.to \in f..Len(s)
    BY <2>3
  <2>5. ~TurnFrame(s, f, t)
    BY <1>2 DEF TurnFrame, TurnInvalid
  <2> QED
    BY <2>1, <2>2, <2>3, <2>4, <2>5 DEF t
<1>3. CASE ~TurnFrame(s, f, t) /\ ~TurnInvalid(s, f, t)
  <2>1. t.to = f /\ t.frame = <<>>
    BY <1>3, TurnIs DEF TurnNone
  <2> QED
    BY <1>3, <2>1
<1> QED
  BY <1>1, <1>2, <1>3

\* A turn that leads nowhere finds nothing.
LEMMA TurnStuck ==
  ASSUME NEW s, Len(s) \in Nat, NEW f \in 0..Len(s)
  PROVE  /\ TurnOf(s, f).to = f => TurnOf(s, f).frame = <<>>
         /\ TurnOf(s, f).to # f => /\ TurnOf(s, f).to \in (f + 1)..Len(s)
                                   /\ ParseOf(s, f, Len(s)).state \in {"frame", "invalid"}
                                   /\ TurnFrame(s, f, TurnOf(s, f)) \/ TurnInvalid(s, f, TurnOf(s, f))
<1> DEFINE t == TurnOf(s, f)
<1>1. CASE TurnFrame(s, f, t)
  <2> DEFINE e == f + ParseOf(s, f, Len(s)).taken
  <2>1. e \in (f + 1)..Len(s) /\ t.to \in (e + 1)..Len(s)
    BY <1>1, TurnGoes
  <2> HIDE DEF e, t
  <2>2. t.to \in (f + 1)..Len(s) /\ t.to # f
    BY <2>1
  <2> QED
    BY <1>1, <2>2 DEF t, TurnFrame
<1>2. CASE TurnInvalid(s, f, t)
  <2>1. t.to \in (f + 1)..Len(s)
    BY <1>2, TurnGoes
  <2> HIDE DEF t
  <2>2. t.to # f
    BY <2>1
  <2> QED
    BY <1>2, <2>1, <2>2 DEF t, TurnInvalid
<1>3. CASE ~TurnFrame(s, f, t) /\ ~TurnInvalid(s, f, t)
  BY <1>3, TurnIs DEF TurnNone
<1> QED
  BY <1>1, <1>2, <1>3

--------------------------------------------------------------------------------
(* Framing: the loop over a whole text, and over one that goes on.           *)

\* The text t begins with s.
Begins(s, t) ==
  Len(s) \in Nat /\ Len(t) \in Nat /\ Len(s) <= Len(t) /\ \A k \in 1..Len(s) : s[k] = t[k]

\* Blanks stay.
LEMMA BlankPrefix ==
  ASSUME NEW s, NEW t, Begins(s, t), NEW b \in Nat, NEW c, c <= Len(s), c \in Int
  PROVE  BlankTo(s, b, c) <=> BlankTo(t, b, c)
<1>1. \A k \in (b + 1)..c : s[k] = t[k]
  BY DEF Begins
<1> QED
  BY <1>1 DEF BlankTo

\* A newline that is there stays the first.
LEMMA NewlinePrefix ==
  ASSUME NEW s, NEW t, Begins(s, t), NEW i \in Nat, NewlineOf(s, i) # 0
  PROVE  NewlineOf(t, i) = NewlineOf(s, i)
<1> DEFINE n == NewlineOf(s, i)
<1>0. Len(s) \in Nat /\ Len(t) \in Nat /\ Len(s) <= Len(t) /\ \A k \in 1..Len(s) : s[k] = t[k]
  BY DEF Begins
<1>1. FirstNewline(s, i, n)
  BY <1>0, NewlineIs
<1> HIDE DEF n
<1>2. /\ n \in (i + 1)..Len(s) /\ s[n] = Splits!Newline
      /\ \A j \in (i + 1)..(n - 1) : s[j] # Splits!Newline
  BY <1>1 DEF FirstNewline, n
<1>3. \A j \in (i + 1)..n : j \in 1..Len(s)
  BY <1>0, <1>2
<1>4. \A j \in (i + 1)..(n - 1) : j \in (i + 1)..n
  BY <1>2
<1>5. n \in (i + 1)..n /\ n \in (i + 1)..Len(t)
  BY <1>0, <1>2
<1>6. t[n] = Splits!Newline
  BY <1>0, <1>2, <1>3, <1>5
<1>7. \A j \in (i + 1)..(n - 1) : t[j] # Splits!Newline
  BY <1>0, <1>2, <1>3, <1>4
<1>8. FirstNewline(t, i, n)
  BY <1>5, <1>6, <1>7 DEF FirstNewline
<1> QED
  BY <1>0, <1>8, NewlineIs DEF n

\* And so does the end of the blanks, unless the text ended there.
LEMMA TrimPrefix ==
  ASSUME NEW s, NEW t, Begins(s, t), NEW b \in 0..Len(s)
  PROVE  TrimOf(t, b) = TrimOf(t, TrimOf(s, b)) /\ (TrimOf(s, b) # Len(s) => TrimOf(t, b) = TrimOf(s, b))
<1> DEFINE c == TrimOf(s, b)
<1>0. Len(s) \in Nat /\ Len(t) \in Nat /\ Len(s) <= Len(t) /\ \A k \in 1..Len(s) : s[k] = t[k]
  BY DEF Begins
<1>1. FirstMark(s, b, c)
  BY <1>0, TrimIs
<1> HIDE DEF c
<1>2. c \in b..Len(s) /\ BlankTo(s, b, c) /\ (c = Len(s) \/ s[c + 1] \notin Splits!Blank)
  BY <1>1 DEF FirstMark
<1>3. b \in Nat /\ c \in Int /\ c <= Len(s) /\ b \in 0..Len(t) /\ c \in b..Len(t)
  BY <1>0, <1>2
<1>4. BlankTo(t, b, c)
  BY <1>2, <1>3, BlankPrefix
<1>5. TrimOf(t, b) = TrimOf(t, c)
  BY <1>0, <1>3, <1>4, TrimAgain
<1>6. ASSUME c # Len(s) PROVE TrimOf(t, b) = c
  <2>1. c + 1 \in 1..Len(s)
    BY <1>0, <1>2, <1>6
  <2>2. t[c + 1] \notin Splits!Blank
    BY <1>0, <1>2, <1>6, <2>1
  <2>3. FirstMark(t, b, c)
    BY <1>3, <1>4, <2>2 DEF FirstMark
  <2> QED
    BY <1>0, <1>3, <2>3, TrimIs
<1> QED
  BY <1>5, <1>6 DEF c

\* A turn that led somewhere leads there whatever follows: what was read apart is read
\* as it would be at once.
LEMMA TurnPrefix ==
  ASSUME NEW s, NEW t, Begins(s, t), NEW f \in 0..Len(s), TurnOf(s, f).to # f
  PROVE  TurnOf(t, f).to = TurnOf(s, f).to /\ TurnOf(t, f).frame = TurnOf(s, f).frame
<1> DEFINE u == TurnOf(s, f) v == TurnOf(t, f) p == ParseOf(s, f, Len(s))
<1>0. /\ Len(s) \in Nat /\ Len(t) \in Nat /\ Len(s) <= Len(t) /\ \A k \in 1..Len(s) : s[k] = t[k]
      /\ f \in Nat /\ f <= Len(s) /\ f \in 0..Len(t)
  BY DEF Begins
<1>1. /\ p.state \in {"frame", "invalid"}
      /\ TurnFrame(s, f, u) \/ TurnInvalid(s, f, u)
  BY <1>0, TurnStuck
<1>2. ParseOf(t, f, Len(s)) = p
  <2>1. \A k \in (f + 1)..Len(s) : s[k] = t[k]
    BY <1>0
  <2> QED
    BY <1>0, <2>1, ParsePrefix
<1>3. ParseOf(t, f, Len(t)) = p
  BY <1>0, <1>1, <1>2, ParseStays DEF Final
<1>4. CASE TurnFrame(s, f, u)
  <2> DEFINE e == f + p.taken
  <2>1. /\ p.state = "frame" /\ u.to = NewlineOf(s, e) /\ u.to # 0 /\ u.frame = FrameTo(s, f, e, u.to)
    BY <1>4 DEF TurnFrame
  <2>2. e \in (f + 1)..Len(s) /\ u.to \in (e + 1)..Len(s)
    BY <1>0, <1>4, TurnGoes
  <2>3. e \in Nat /\ u.to \in Int /\ u.to <= Len(s)
    <3> HIDE DEF e, u
    <3> QED
      BY <1>0, <2>2
  <2>4. NewlineOf(t, e) = u.to
    <3> HIDE DEF e, u
    <3> QED
      BY <2>1, <2>3, NewlinePrefix
  <2>5. v = [to |-> u.to, frame |-> FrameTo(t, f, e, u.to)]
    <3> HIDE DEF u
    <3> QED
      BY <1>3, <2>1, <2>4 DEF TurnOf, FrameTo
  <2>6. FrameTo(t, f, e, u.to) = FrameTo(s, f, e, u.to)
    <3> HIDE DEF e, u
    <3> QED
      BY <2>3, BlankPrefix DEF FrameTo
  <2>7. v.to = u.to /\ v.frame = FrameTo(t, f, e, u.to)
    <3> HIDE DEF u
    <3> QED
      BY <2>5
  <2> QED
    BY <2>1, <2>6, <2>7
<1>5. CASE TurnInvalid(s, f, u)
  <2>1. p.state = "invalid" /\ u.to = NewlineOf(s, f) /\ u.to # 0 /\ u.frame = <<>>
    BY <1>5 DEF TurnInvalid
  <2>2. NewlineOf(t, f) = u.to
    BY <1>0, <2>1, NewlinePrefix
  <2>3. v = [to |-> u.to, frame |-> <<>>]
    <3> HIDE DEF u
    <3> QED
      BY <1>3, <2>1, <2>2 DEF TurnOf
  <2>4. v.to = u.to /\ v.frame = <<>>
    <3> HIDE DEF u
    <3> QED
      BY <2>3
  <2> QED
    BY <2>1, <2>4
<1> QED
  BY <1>1, <1>4, <1>5

\* The loop from each place to its end.
GoingFrom(s, go, b) ==
  LET t == TurnOf(s, TrimOf(s, b)) IN
  IF t.to = TrimOf(s, b) THEN [base |-> t.to, frames |-> <<>>]
  ELSE [base |-> go[t.to].base, frames |-> t.frame \o go[t.to].frames]
GoOf(s) == CHOOSE go : go = [b \in 0..Len(s) |-> GoingFrom(s, go, b)]
Gone(s) == [base : 0..Len(s), frames : Seq(Nat \X Nat)]

\* From b the loop comes to c, with fs; it was stuck, or it made a turn.
GoesOn(s, go, b) ==
  LET c == TrimOf(s, b) t == TurnOf(s, c) IN
  /\ c \in b..Len(s) /\ t.to \in c..Len(s)
  /\ t.to = c => go[b].base = c /\ go[b].frames = <<>>
  /\ t.to # c => /\ t.to \in (c + 1)..Len(s) /\ t.frame \in Seq(Nat \X Nat)
                 /\ go[b].base = go[t.to].base /\ go[b].frames = t.frame \o go[t.to].frames

\* Where the turn from b leads.
LEMMA Goes ==
  ASSUME NEW s, Len(s) \in Nat, NEW b \in 0..Len(s)
  PROVE  LET c == TrimOf(s, b) t == TurnOf(s, c) IN
         /\ c \in b..Len(s) /\ c \in 0..Len(s) /\ t.to \in c..Len(s) /\ t.to \in 0..Len(s)
         /\ t.frame \in Seq(Nat \X Nat)
         /\ t.to # c => t.to \in (c + 1)..Len(s)
<1> DEFINE c == TrimOf(s, b) t == TurnOf(s, c)
<1>1. c \in b..Len(s)
  BY TrimIs DEF FirstMark
<1>2. c \in 0..Len(s)
  <2> HIDE DEF c
  <2> QED
    BY <1>1
<1> HIDE DEF c
<1>3. t.to \in c..Len(s) /\ t.frame \in Seq(Nat \X Nat) /\ (t.to # c => t.to \in (c + 1)..Len(s))
  BY <1>2, TurnGoes, TurnStuck
<1>4. t.to \in 0..Len(s)
  <2> HIDE DEF t
  <2> QED
    BY <1>2, <1>3
<1> QED
  BY <1>1, <1>2, <1>3, <1>4 DEF c

\* The recursion of the loop has a value everywhere.
LEMMA GoEverywhere ==
  ASSUME NEW s, Len(s) \in Nat
  PROVE  GoOf(s) \in [0..Len(s) -> Gone(s)] /\ \A b \in 0..Len(s) : GoesOn(s, GoOf(s), b)
<1> DEFINE D == 0..Len(s)
           N == Len(s)
           m == [b \in D |-> N - b]
           V == Gone(s)
           step == [b \in D |-> [go \in [D -> V] |-> GoingFrom(s, go, b)]]
           go0 == GoOf(s)
<1>1. ASSUME NEW b \in D, NEW go \in [D -> V] PROVE GoingFrom(s, go, b) \in V
  <2> DEFINE c == TrimOf(s, b) t == TurnOf(s, c)
  <2>1. /\ c \in 0..Len(s) /\ t.to \in 0..Len(s) /\ t.frame \in Seq(Nat \X Nat)
    BY Goes
  <2> HIDE DEF c, t
  <2>2. go[t.to] \in V
    BY <2>1
  <2>3. go[t.to].base \in 0..Len(s) /\ go[t.to].frames \in Seq(Nat \X Nat)
    BY <2>2 DEF Gone
  <2>4. t.frame \o go[t.to].frames \in Seq(Nat \X Nat) /\ <<>> \in Seq(Nat \X Nat)
    BY <2>1, <2>3
  <2>5. /\ [base |-> t.to, frames |-> <<>>] \in V
        /\ [base |-> go[t.to].base, frames |-> t.frame \o go[t.to].frames] \in V
    BY <2>1, <2>3, <2>4 DEF Gone
  <2> QED
    BY <2>5 DEF GoingFrom, c, t
<1>2. ASSUME NEW b \in D, NEW go \in [D -> V], NEW og \in [D -> V],
             \A y \in D : m[y] < m[b] => go[y] = og[y]
      PROVE  step[b][go] = step[b][og]
  <2> DEFINE c == TrimOf(s, b) t == TurnOf(s, c)
  <2>1. ASSUME t.to # c PROVE go[t.to] = og[t.to]
    <3>1. c \in b..Len(s) /\ t.to \in (c + 1)..Len(s) /\ t.to \in D
      BY <2>1, Goes
    <3> HIDE DEF c, t
    <3>2. m[t.to] < m[b]
      BY <3>1
    <3> QED
      BY <1>2, <3>1, <3>2
  <2>2. GoingFrom(s, go, b) = GoingFrom(s, og, b)
    <3> HIDE DEF c
    <3> QED
      BY <2>1 DEF GoingFrom, c
  <2> HIDE DEF V, D
  <2> QED
    BY <2>2
<1>3. Descends(D, V, N, m, step)
  <2>1. step \in [D -> [[D -> V] -> V]]
    <3> HIDE DEF V, D
    <3> QED
      BY <1>1
  <2>2. m \in [D -> 0..N] /\ N \in Nat
    OBVIOUS
  <2>3. V # {}
    <3>1. 0 \in 0..Len(s) /\ <<>> \in Seq(Nat \X Nat)
      OBVIOUS
    <3>2. [base |-> 0, frames |-> <<>>] \in V
      BY <3>1 DEF Gone
    <3> QED
      BY <3>2
  <2> HIDE DEF step, m, N, D, V
  <2> QED
    BY <1>2, <2>1, <2>2, <2>3 DEF Descends
<1>4. PICK g \in [D -> V] : Recurs(g, D, step)
  <2> HIDE DEF D, N, m, step, V
  <2> QED
    BY <1>3, Recursion
<1> DEFINE Is(go) == go = [b \in D |-> GoingFrom(s, go, b)]
<1>5. Is(g)
  <2>1. \A b \in D : g[b] = GoingFrom(s, g, b)
    <3> HIDE DEF D, V
    <3> QED
      BY <1>4 DEF Recurs
  <2> HIDE DEF D, V
  <2> QED
    BY <2>1
<1>6. Is(go0)
  <2> DEFINE x == CHOOSE go : Is(go)
  <2>1. Is(x)
    <3> HIDE DEF Is
    <3> QED
      BY <1>5
  <2>2. go0 = x
    BY DEF GoOf
  <2> HIDE DEF x
  <2> QED
    BY <2>1, <2>2
<1> HIDE DEF go0
<1>7. \A b \in D : go0[b] = GoingFrom(s, go0, b)
  <2> HIDE DEF D
  <2> QED
    BY <1>6
<1>8. D \subseteq {b \in D : go0[b] \in V}
  <2> DEFINE S == {b \in D : go0[b] \in V}
  <2>1. ASSUME NEW b \in D, \A y \in D : m[y] < m[b] => y \in S PROVE b \in S
    <3> DEFINE c == TrimOf(s, b) t == TurnOf(s, c)
    <3>1. /\ c \in b..Len(s) /\ t.to \in 0..Len(s) /\ t.frame \in Seq(Nat \X Nat)
          /\ t.to # c => t.to \in (c + 1)..Len(s)
      BY Goes
    <3>2. go0[b] = GoingFrom(s, go0, b)
      BY <1>7
    <3> HIDE DEF c, t
    <3>3. CASE t.to = c
      <4>1. go0[b] = [base |-> t.to, frames |-> <<>>]
        BY <3>2, <3>3 DEF GoingFrom, c, t
      <4>2. <<>> \in Seq(Nat \X Nat)
        OBVIOUS
      <4>3. go0[b] \in V
        BY <3>1, <4>1, <4>2 DEF Gone
      <4> QED
        BY <4>3
    <3>4. CASE t.to # c
      <4>1. m[t.to] < m[b] /\ t.to \in D
        BY <3>1, <3>4
      <4>2. go0[t.to] \in V
        BY <2>1, <4>1
      <4>3. go0[t.to].base \in 0..Len(s) /\ go0[t.to].frames \in Seq(Nat \X Nat)
        BY <4>2 DEF Gone
      <4>4. t.frame \o go0[t.to].frames \in Seq(Nat \X Nat)
        BY <3>1, <4>3
      <4>5. go0[b] = [base |-> go0[t.to].base, frames |-> t.frame \o go0[t.to].frames]
        BY <3>2, <3>4 DEF GoingFrom, c, t
      <4>6. go0[b] \in V
        BY <4>3, <4>4, <4>5 DEF Gone
      <4> QED
        BY <4>6
    <3> QED
      BY <3>3, <3>4
  <2>2. m \in [D -> Nat]
    OBVIOUS
  <2> HIDE DEF S, m, D
  <2>3. D \subseteq S
    BY <2>1, <2>2, Smaller
  <2> QED
    BY <2>3 DEF S
<1>9. go0 \in [D -> V]
  <2>1. go0 = [b \in D |-> GoingFrom(s, go0, b)]
    BY <1>6
  <2> HIDE DEF D, V
  <2> QED
    BY <1>7, <1>8, <2>1
<1>10. ASSUME NEW b \in D PROVE GoesOn(s, go0, b)
  <2> DEFINE c == TrimOf(s, b) t == TurnOf(s, c)
  <2>1. /\ c \in b..Len(s) /\ t.to \in c..Len(s) /\ t.frame \in Seq(Nat \X Nat)
        /\ t.to # c => t.to \in (c + 1)..Len(s)
    BY Goes
  <2>2. go0[b] = GoingFrom(s, go0, b)
    BY <1>7
  <2> HIDE DEF c, t
  <2>3. CASE t.to = c
    <3>1. go0[b] = [base |-> t.to, frames |-> <<>>]
      BY <2>2, <2>3 DEF GoingFrom, c, t
    <3>2. go0[b].base = c /\ go0[b].frames = <<>>
      BY <2>3, <3>1
    <3> QED
      BY <2>1, <2>3, <3>2 DEF GoesOn, c, t
  <2>4. CASE t.to # c
    <3>1. go0[b] = [base |-> go0[t.to].base, frames |-> t.frame \o go0[t.to].frames]
      BY <2>2, <2>4 DEF GoingFrom, c, t
    <3>2. go0[b].base = go0[t.to].base /\ go0[b].frames = t.frame \o go0[t.to].frames
      <4> DEFINE x == go0[t.to].base y == t.frame \o go0[t.to].frames
      <4>1. go0[b] = [base |-> x, frames |-> y]
        BY <3>1
      <4> HIDE DEF x, y
      <4>2. go0[b].base = x /\ go0[b].frames = y
        BY <4>1
      <4> QED
        BY <4>2 DEF x, y
    <3> QED
      BY <2>1, <2>4, <3>2 DEF GoesOn, c, t
  <2> QED
    BY <2>3, <2>4
<1> QED
  BY <1>9, <1>10 DEF go0

\* What the loop makes of a text, it makes of what the text goes on to, and goes on.
LEMMA GoPrefix ==
  ASSUME NEW s, NEW t, Begins(s, t), NEW b \in 0..Len(s)
  PROVE  LET gs == GoOf(s) gt == GoOf(t) IN
         /\ gt[b].base = gt[gs[b].base].base
         /\ gt[b].frames = gs[b].frames \o gt[gs[b].base].frames
<1> DEFINE gs == GoOf(s) gt == GoOf(t)
           D == 0..Len(s)
           m == [x \in D |-> Len(s) - x]
           Follows(x) == /\ gt[x].base = gt[gs[x].base].base
                         /\ gt[x].frames = gs[x].frames \o gt[gs[x].base].frames
           S == {x \in D : Follows(x)}
<1>0. Len(s) \in Nat /\ Len(t) \in Nat /\ Len(s) <= Len(t)
  BY DEF Begins
<1>1. /\ gs \in [D -> Gone(s)] /\ \A x \in D : GoesOn(s, gs, x)
      /\ gt \in [0..Len(t) -> Gone(t)] /\ \A x \in 0..Len(t) : GoesOn(t, gt, x)
  BY <1>0, GoEverywhere
<1> HIDE DEF gs, gt
<1>2. ASSUME NEW x \in D, \A y \in D : m[y] < m[x] => y \in S PROVE x \in S
  <2> DEFINE c == TrimOf(s, x) u == TurnOf(s, c) k == TrimOf(t, x) v == TurnOf(t, k)
  <2>1. /\ c \in x..Len(s) /\ u.to \in c..Len(s)
        /\ u.to = c => gs[x].base = c /\ gs[x].frames = <<>>
        /\ u.to # c => /\ u.to \in (c + 1)..Len(s) /\ u.frame \in Seq(Nat \X Nat)
                       /\ gs[x].base = gs[u.to].base /\ gs[x].frames = u.frame \o gs[u.to].frames
    BY <1>1 DEF GoesOn
  <2>2. k = TrimOf(t, c) /\ (c # Len(s) => k = c)
    BY TrimPrefix
  <2>3. x \in 0..Len(t) /\ c \in 0..Len(t) /\ c \in 0..Len(s)
    <3> HIDE DEF c, u
    <3> QED
      BY <1>0, <2>1
  <2>4. /\ v.to = k => gt[x].base = k /\ gt[x].frames = <<>>
        /\ v.to # k => gt[x].base = gt[v.to].base /\ gt[x].frames = v.frame \o gt[v.to].frames
    BY <1>1, <2>3 DEF GoesOn
  <2>5. CASE u.to = c
    <3>1. gs[x].base = c /\ gs[x].frames = <<>>
      BY <2>1, <2>5
    <3>2. GoesOn(t, gt, c)
      BY <1>1, <2>3
    <3>3. /\ v.to = k => gt[c].base = k /\ gt[c].frames = <<>>
          /\ v.to # k => gt[c].base = gt[v.to].base /\ gt[c].frames = v.frame \o gt[v.to].frames
      BY <2>2, <3>2 DEF GoesOn
    <3>4. gt[x].base = gt[c].base /\ gt[x].frames = gt[c].frames
      BY <2>4, <3>3
    <3>5. gt[c].frames \in Seq(Nat \X Nat)
      <4>1. gt[c] \in Gone(t)
        BY <1>1, <2>3
      <4> QED
        BY <4>1 DEF Gone
    <3>6. <<>> \o gt[c].frames = gt[c].frames
      BY <3>5
    <3>7. Follows(x)
      BY <3>1, <3>4, <3>6
    <3> QED
      BY <3>7
  <2>6. CASE u.to # c
    <3>1. /\ u.to \in (c + 1)..Len(s) /\ u.frame \in Seq(Nat \X Nat)
          /\ gs[x].base = gs[u.to].base /\ gs[x].frames = u.frame \o gs[u.to].frames
      BY <2>1, <2>6
    <3>2. k = c
      <4> HIDE DEF c, u, k
      <4> QED
        BY <1>0, <2>2, <2>3, <3>1
    <3>3. v.to = u.to /\ v.frame = u.frame
      BY <2>3, <2>6, <3>2, TurnPrefix
    <3>4. gt[x].base = gt[u.to].base /\ gt[x].frames = u.frame \o gt[u.to].frames
      BY <2>4, <2>6, <3>2, <3>3
    <3>5. u.to \in D /\ m[u.to] < m[x]
      <4> HIDE DEF c, u
      <4> QED
        BY <1>0, <2>1, <3>1
    <3>6. Follows(u.to)
      BY <1>2, <3>5
    <3> HIDE DEF u
    <3>7. gs[u.to] \in Gone(s)
      BY <1>1, <3>5
    <3>8. gs[u.to].base \in 0..Len(s) /\ gs[u.to].frames \in Seq(Nat \X Nat)
      BY <3>7 DEF Gone
    <3>9. gs[u.to].base \in 0..Len(t)
      BY <1>0, <3>8
    <3>10. gt[gs[u.to].base] \in Gone(t)
      BY <1>1, <3>9
    <3>11. gt[gs[u.to].base].frames \in Seq(Nat \X Nat)
      BY <3>10 DEF Gone
    <3>12. u.frame \o (gs[u.to].frames \o gt[gs[u.to].base].frames)
           = (u.frame \o gs[u.to].frames) \o gt[gs[u.to].base].frames
      <4> DEFINE h == gs[u.to].frames l == gt[gs[u.to].base].frames
      <4> HIDE DEF h, l
      <4>1. h \in Seq(Nat \X Nat) /\ l \in Seq(Nat \X Nat)
        BY <3>8, <3>11 DEF h, l
      <4>2. Associate(u.frame, h, l)
        BY <3>1, <4>1, Associates
      <4> QED
        BY <4>2 DEF Associate, h, l
    <3>13. Follows(x)
      BY <3>1, <3>4, <3>6, <3>12
    <3> QED
      BY <3>13
  <2> QED
    BY <2>5, <2>6
<1>3. m \in [D -> Nat]
  BY <1>0
<1>4. D \subseteq S
  <2> HIDE DEF D, m, S
  <2> QED
    BY <1>2, <1>3, Smaller
<1>5. Follows(b)
  BY <1>4
<1> QED
  BY <1>5 DEF gs, gt

--------------------------------------------------------------------------------
(* Framing: what has left the buffer.                                        *)

\* A line begins at b, or b is among its first blanks.
LineStart(s, b) ==
  \E a \in 0..b : (a = 0 \/ s[a] = Splits!Newline) /\ BlankTo(s, a, b)

StandsIn(s, i, j) ==
  /\ s[i] = "head" /\ s[j] = "close" /\ Ends(s, i - 1, j) /\ LineStart(s, i - 1)
  /\ \E z \in (j + 1)..Len(s) : s[z] = Splits!Newline /\ BlankTo(s, j, z)

NestedIn(s, i, j) ==
  \E a \in 1..(i - 1), z \in (j + 1)..Len(s) :
    s[a] = "head" /\ s[z] = "close" /\ Ends(s, a - 1, z)

\* What was dispatched stands alone, in order, and has left the buffer.
InOrder(s, b, d) ==
  \A n \in DOMAIN d :
    /\ d[n][1] \in 1..b /\ d[n][2] \in d[n][1]..b
    /\ StandsIn(s, d[n][1], d[n][2])
    /\ n > 1 => d[n - 1][2] < d[n][1]

\* Of the object that begins at i, on a line of its own, it is known what it is: none, or
\* one that has left the buffer too, and was dispatched if it stands alone.
SettledAt(s, b, d, i) ==
  LET p == ParseOf(s, i - 1, Len(s)) j == i - 1 + p.taken IN
  /\ Final(p)
  /\ p.state = "frame" =>
       /\ j <= b
       /\ StandsIn(s, i, j) => NestedIn(s, i, j) \/ \E n \in DOMAIN d : d[n] = <<i, j>>

Settled(s, b, d) == \A i \in 1..b : s[i] = "head" /\ LineStart(s, i - 1) => SettledAt(s, b, d, i)

\* What was dispatched, and what is to come, is what the loop makes of the text at once.
Agreed(s, b, d) ==
  /\ GoOf(s)[0].base = GoOf(s)[b].base
  /\ GoOf(s)[0].frames = d \o GoOf(s)[b].frames

Stuck(s, b) == TrimOf(s, b) = b /\ TurnOf(s, b).to = b

\* Of a text from which b tokens have left the buffer, and d was dispatched.
CutAt(s, b, d) ==
  /\ Len(s) \in Nat /\ b \in 0..Len(s) /\ d \in Seq(Nat \X Nat)
  /\ LineStart(s, b) /\ Agreed(s, b, d) /\ InOrder(s, b, d) /\ Settled(s, b, d)

\* No token is a blank and the head or the end of an object.
LEMMA Marks == /\ "head" \notin Splits!Blank /\ "close" \notin Splits!Blank
               /\ Splits!Newline \in Splits!Blank
               /\ "head" # Splits!Newline /\ "close" # Splits!Newline
  BY DEF Splits!Blank, Splits!Newline

\* Behind a newline, and behind blanks at the beginning of a line, a line begins.
LEMMA LineStarts ==
  ASSUME NEW s, NEW b \in Nat
  PROVE  /\ s[b] = Splits!Newline => LineStart(s, b)
         /\ LineStart(s, b) => \A c \in Nat : b <= c /\ BlankTo(s, b, c) => LineStart(s, c)
<1>1. ASSUME s[b] = Splits!Newline PROVE LineStart(s, b)
  <2>1. b \in 0..b /\ BlankTo(s, b, b)
    BY DEF BlankTo
  <2> QED
    BY <1>1, <2>1 DEF LineStart
<1>2. ASSUME LineStart(s, b), NEW c \in Nat, b <= c, BlankTo(s, b, c) PROVE LineStart(s, c)
  <2>1. PICK a \in 0..b : (a = 0 \/ s[a] = Splits!Newline) /\ BlankTo(s, a, b)
    BY <1>2 DEF LineStart
  <2>2. (a + 1)..c = ((a + 1)..b) \cup ((b + 1)..c)
    BY <1>2
  <2>3. BlankTo(s, a, c)
    BY <1>2, <2>1, <2>2 DEF BlankTo
  <2>4. a \in 0..c
    BY <1>2
  <2> QED
    BY <2>1, <2>3, <2>4 DEF LineStart
<1> QED
  BY <1>1, <1>2

\* In the middle of a line, none begins.
LEMMA Midline ==
  ASSUME NEW s, NEW e \in Nat \ {0}, NEW b \in Nat, e <= b, s[e] \notin Splits!Blank,
         \A k \in (e + 1)..b : s[k] # Splits!Newline
  PROVE  ~LineStart(s, b)
<1> SUFFICES ASSUME NEW a \in 0..b, a = 0 \/ s[a] = Splits!Newline, BlankTo(s, a, b)
             PROVE  FALSE
  BY DEF LineStart
<1>1. CASE a < e
  <2>1. e \in (a + 1)..b
    BY <1>1
  <2> QED
    BY <2>1 DEF BlankTo
<1>2. CASE a = e
  BY <1>2, Marks
<1>3. CASE e < a
  <2>1. a \in (e + 1)..b /\ a # 0
    BY <1>3
  <2> QED
    BY <2>1
<1> QED
  BY <1>1, <1>2, <1>3

\* Where lines begin, what frames are and what stands alone is not changed by what follows.
LEMMA LinePrefix ==
  ASSUME NEW s, NEW t, Begins(s, t), NEW b \in 0..Len(s)
  PROVE  LineStart(s, b) <=> LineStart(t, b)
<1>0. Len(s) \in Nat /\ \A k \in 1..Len(s) : s[k] = t[k]
  BY DEF Begins
<1>1. ASSUME NEW a \in 0..b
      PROVE  /\ (a = 0 \/ s[a] = Splits!Newline) <=> (a = 0 \/ t[a] = Splits!Newline)
             /\ BlankTo(s, a, b) <=> BlankTo(t, a, b)
  <2>1. a # 0 => s[a] = t[a]
    BY <1>0
  <2>2. a \in Nat /\ b \in Int /\ b <= Len(s)
    BY <1>0
  <2> QED
    BY <2>1, <2>2, BlankPrefix
<1> QED
  BY <1>1 DEF LineStart

\* The same of frames.
LEMMA EndsPrefix ==
  ASSUME NEW s, NEW t, Begins(s, t), NEW f \in Nat, NEW e \in f..Len(s)
  PROVE  Ends(s, f, e) <=> Ends(t, f, e)
<1>1. e \in Nat /\ f <= e /\ \A k \in (f + 1)..e : s[k] = t[k]
  BY DEF Begins
<1>2. ParseOf(s, f, e) = ParseOf(t, f, e)
  BY <1>1, ParsePrefix
<1> QED
  BY <1>2 DEF Ends

\* What stands alone goes on doing so.
LEMMA StandsPrefix ==
  ASSUME NEW s, NEW t, Begins(s, t), NEW i \in 1..Len(s), NEW j \in i..Len(s)
  PROVE  StandsIn(s, i, j) => StandsIn(t, i, j)
<1>0. /\ Len(s) \in Nat /\ Len(t) \in Nat /\ Len(s) <= Len(t) /\ \A k \in 1..Len(s) : s[k] = t[k]
      /\ i - 1 \in Nat /\ j \in (i - 1)..Len(s) /\ i - 1 \in 0..Len(s) /\ j \in Nat
      /\ j \in 1..Len(s)
  BY DEF Begins
<1> SUFFICES ASSUME StandsIn(s, i, j) PROVE StandsIn(t, i, j)
  OBVIOUS
<1>1. t[i] = "head" /\ t[j] = "close"
  BY <1>0 DEF StandsIn
<1>2. Ends(t, i - 1, j) /\ LineStart(t, i - 1)
  BY <1>0, EndsPrefix, LinePrefix DEF StandsIn
<1>3. PICK z \in (j + 1)..Len(s) : s[z] = Splits!Newline /\ BlankTo(s, j, z)
  BY DEF StandsIn
<1>4. z \in (j + 1)..Len(t) /\ z \in 1..Len(s) /\ z \in Int /\ z <= Len(s)
  BY <1>0
<1>5. t[z] = Splits!Newline /\ BlankTo(t, j, z)
  BY <1>0, <1>3, <1>4, BlankPrefix
<1> QED
  BY <1>1, <1>2, <1>4, <1>5 DEF StandsIn

\* And what has left the buffer, and stands alone when more is read, did before.
LEMMA StandsBefore ==
  ASSUME NEW s, NEW t, Begins(s, t), NEW b \in 0..Len(s), LineStart(s, b),
         NEW i \in 1..b, NEW j \in i..b, StandsIn(t, i, j)
  PROVE  StandsIn(s, i, j)
<1>0. /\ Len(s) \in Nat /\ Len(t) \in Nat /\ Len(s) <= Len(t) /\ \A k \in 1..Len(s) : s[k] = t[k]
      /\ i - 1 \in Nat /\ j \in (i - 1)..Len(s) /\ i - 1 \in 0..Len(s) /\ j \in Nat /\ j \in 1..Len(s)
      /\ i \in 1..Len(s) /\ j \in 1..b
  BY DEF Begins
<1>1. s[i] = "head" /\ s[j] = "close"
  BY <1>0 DEF StandsIn
<1>2. Ends(s, i - 1, j) /\ LineStart(s, i - 1)
  BY <1>0, EndsPrefix, LinePrefix DEF StandsIn
<1>3. PICK z \in (j + 1)..Len(t) : t[z] = Splits!Newline /\ BlankTo(t, j, z)
  BY DEF StandsIn
<1>4. PICK a \in 0..b : (a = 0 \/ s[a] = Splits!Newline) /\ BlankTo(s, a, b)
  BY DEF LineStart
<1>5. j < a
  <2>1. s[j] \notin Splits!Blank /\ s[j] # Splits!Newline
    BY <1>1, Marks
  <2>2. j \notin (a + 1)..b
    BY <1>4, <2>1 DEF BlankTo
  <2>3. j <= a /\ a # 0
    BY <1>0, <2>2
  <2>4. j # a
    BY <1>4, <2>1, <2>3
  <2> QED
    BY <1>0, <2>3, <2>4
<1>6. a \in (j + 1)..Len(s) /\ s[a] = Splits!Newline /\ a \in Int /\ a <= Len(s)
  BY <1>0, <1>4, <1>5
<1>7. CASE z <= a
  <2>1. z \in (j + 1)..Len(s) /\ z \in 1..Len(s) /\ z \in Int /\ z <= Len(s)
    BY <1>0, <1>6, <1>7
  <2>2. s[z] = Splits!Newline /\ BlankTo(s, j, z)
    BY <1>0, <1>3, <2>1, BlankPrefix
  <2> QED
    BY <1>1, <1>2, <2>1, <2>2 DEF StandsIn
<1>8. CASE ~(z <= a)
  <2>1. \A k \in (j + 1)..a : k \in (j + 1)..z
    BY <1>6, <1>8
  <2>2. BlankTo(t, j, a)
    BY <1>3, <2>1 DEF BlankTo
  <2>3. BlankTo(s, j, a)
    BY <1>0, <1>6, <2>2, BlankPrefix
  <2> QED
    BY <1>1, <1>2, <1>6, <2>3 DEF StandsIn
<1> QED
  BY <1>7, <1>8

\* A value inside a larger object is still one.
LEMMA NestedPrefix ==
  ASSUME NEW s, NEW t, Begins(s, t), NEW i \in 1..Len(s), NEW j \in i..Len(s), NestedIn(s, i, j)
  PROVE  NestedIn(t, i, j)
<1>0. Len(s) \in Nat /\ Len(t) \in Nat /\ Len(s) <= Len(t) /\ \A k \in 1..Len(s) : s[k] = t[k]
  BY DEF Begins
<1>1. PICK a \in 1..(i - 1), z \in (j + 1)..Len(s) :
        s[a] = "head" /\ s[z] = "close" /\ Ends(s, a - 1, z)
  BY DEF NestedIn
<1>2. /\ a \in 1..Len(s) /\ z \in 1..Len(s) /\ a - 1 \in Nat /\ z \in (a - 1)..Len(s)
      /\ z \in (j + 1)..Len(t)
  BY <1>0
<1>3. t[a] = "head" /\ t[z] = "close" /\ Ends(t, a - 1, z)
  BY <1>0, <1>1, <1>2, EndsPrefix
<1> QED
  BY <1>2, <1>3 DEF NestedIn

\* More is read: what was settled stays so, and the loop goes on where it was.
LEMMA CutRead ==
  ASSUME NEW s, NEW t, NEW b, NEW d, Begins(s, t), CutAt(s, b, d), Stuck(s, b)
  PROVE  CutAt(t, b, d)
<1>0. /\ Len(s) \in Nat /\ Len(t) \in Nat /\ Len(s) <= Len(t) /\ \A k \in 1..Len(s) : s[k] = t[k]
      /\ b \in 0..Len(s) /\ b \in 0..Len(t) /\ 0 \in 0..Len(s) /\ d \in Seq(Nat \X Nat)
  BY DEF Begins, CutAt
<1>1. LineStart(t, b)
  BY <1>0, LinePrefix DEF CutAt
<1>2. Agreed(t, b, d)
  <2> DEFINE gs == GoOf(s) gt == GoOf(t)
  <2>1. GoesOn(s, gs, b)
    BY <1>0, GoEverywhere
  <2>2. gs[b].base = b /\ gs[b].frames = <<>>
    BY <2>1 DEF GoesOn, Stuck
  <2> HIDE DEF gs, gt
  <2>3. gs[0].base = b /\ gs[0].frames = d \o <<>>
    BY <2>2 DEF CutAt, Agreed, gs
  <2>4. d \o <<>> = d
    BY <1>0, ConcatEmptySeq
  <2>5. /\ gt[0].base = gt[gs[0].base].base
        /\ gt[0].frames = gs[0].frames \o gt[gs[0].base].frames
    BY <1>0, GoPrefix DEF gs, gt
  <2> QED
    BY <2>3, <2>4, <2>5 DEF Agreed, gt
<1>3. InOrder(t, b, d)
  <2> SUFFICES ASSUME NEW n \in DOMAIN d
               PROVE  /\ d[n][1] \in 1..b /\ d[n][2] \in d[n][1]..b
                      /\ StandsIn(t, d[n][1], d[n][2])
                      /\ n > 1 => d[n - 1][2] < d[n][1]
    BY DEF InOrder
  <2> DEFINE i == d[n][1] j == d[n][2]
  <2>1. /\ i \in 1..b /\ j \in i..b /\ StandsIn(s, i, j) /\ (n > 1 => d[n - 1][2] < i)
    BY DEF CutAt, InOrder
  <2> HIDE DEF i, j
  <2>3. i \in 1..Len(s) /\ j \in i..Len(s)
    BY <1>0, <2>1
  <2>4. StandsIn(t, i, j)
    BY <2>1, <2>3, StandsPrefix
  <2> QED
    BY <2>1, <2>4 DEF i, j
<1>4. Settled(t, b, d)
  <2> SUFFICES ASSUME NEW i \in 1..b, t[i] = "head", LineStart(t, i - 1)
               PROVE  SettledAt(t, b, d, i)
    BY DEF Settled
  <2>1. i \in 1..Len(s) /\ i - 1 \in 0..Len(s) /\ i - 1 \in Nat /\ i - 1 <= Len(s)
    BY <1>0
  <2>2. s[i] = "head" /\ LineStart(s, i - 1)
    BY <1>0, <2>1, LinePrefix
  <2> DEFINE p == ParseOf(s, i - 1, Len(s)) j == i - 1 + p.taken
  <2>3. SettledAt(s, b, d, i)
    BY <2>2 DEF CutAt, Settled
  <2>4. Final(p)
    BY <2>3 DEF SettledAt
  <2>5. ParseOf(t, i - 1, Len(s)) = p
    <3>1. \A k \in (i - 1 + 1)..Len(s) : s[k] = t[k]
      BY <1>0, <2>1
    <3> QED
      BY <1>0, <2>1, <3>1, ParsePrefix
  <2>6. ParseOf(t, i - 1, Len(t)) = p
    BY <1>0, <2>1, <2>4, <2>5, ParseStays
  <2>7. ASSUME p.state = "frame"
        PROVE  /\ j <= b
               /\ StandsIn(t, i, j) => NestedIn(t, i, j) \/ \E n \in DOMAIN d : d[n] = <<i, j>>
    <3>1. j <= b /\ (StandsIn(s, i, j) => NestedIn(s, i, j) \/ \E n \in DOMAIN d : d[n] = <<i, j>>)
      BY <2>3, <2>7 DEF SettledAt
    <3>2. j \in i..b
      <4>1. Position(s, i - 1, Len(s), p)
        BY <1>0, <2>1, ParseAt
      <4> DEFINE m == p.taken
      <4>2. m \in 1..(Len(s) - (i - 1))
        BY <2>7, <4>1 DEF Position
      <4> HIDE DEF m
      <4>3. i - 1 + m \in i..(i - 1 + m) /\ i - 1 + m \in Int
        BY <2>1, <4>2
      <4>4. j = i - 1 + m
        BY DEF m
      <4> HIDE DEF j
      <4> QED
        BY <1>0, <2>1, <3>1, <4>3, <4>4
    <3> HIDE DEF j
    <3>3. j \in i..Len(s)
      BY <1>0, <3>2
    <3>4. ASSUME StandsIn(t, i, j) PROVE StandsIn(s, i, j)
      BY <1>0, <3>2, <3>4, StandsBefore DEF CutAt
    <3>5. NestedIn(s, i, j) => NestedIn(t, i, j)
      BY <2>1, <3>3, NestedPrefix
    <3> QED
      BY <3>1, <3>4, <3>5
  <2> QED
    BY <2>4, <2>6, <2>7 DEF SettledAt
<1> QED
  BY <1>0, <1>1, <1>2, <1>3, <1>4 DEF CutAt

\* The blanks at the front go.
LEMMA CutTrim ==
  ASSUME NEW s, NEW b, NEW d, NEW c, CutAt(s, b, d), c = TrimOf(s, b)
  PROVE  /\ c \in b..Len(s) /\ c \in 0..Len(s) /\ BlankTo(s, b, c) /\ LineStart(s, c)
         /\ c = Len(s) \/ s[c + 1] \notin Splits!Blank
         /\ InOrder(s, c, d) /\ Settled(s, c, d)
<1>0. Len(s) \in Nat /\ b \in 0..Len(s) /\ b \in Nat
  BY DEF CutAt
<1>1. FirstMark(s, b, c)
  BY <1>0, TrimIs
<1>2. c \in b..Len(s) /\ BlankTo(s, b, c) /\ (c = Len(s) \/ s[c + 1] \notin Splits!Blank)
  BY <1>1 DEF FirstMark
<1>3. c \in 0..Len(s) /\ c \in Nat /\ b <= c
  BY <1>0, <1>2
<1>4. LineStart(s, c)
  BY <1>0, <1>2, <1>3, LineStarts DEF CutAt
<1>5. InOrder(s, c, d)
  <2>1. b \in Int /\ c \in Int /\ b <= c
    BY <1>0, <1>3
  <2>2. \A k \in 1..b : k \in 1..c /\ \A l \in k..b : l \in k..c
    BY <2>1
  <2> QED
    BY <2>2 DEF CutAt, InOrder
<1>6. Settled(s, c, d)
  <2> SUFFICES ASSUME NEW i \in 1..c, s[i] = "head", LineStart(s, i - 1) PROVE SettledAt(s, c, d, i)
    BY DEF Settled
  <2>1. i \in 1..b
    <3>1. i \notin (b + 1)..c
      BY <1>2, Marks DEF BlankTo
    <3> QED
      BY <1>0, <1>3, <3>1
  <2>2. SettledAt(s, b, d, i)
    BY <2>1 DEF CutAt, Settled
  <2> DEFINE j == i - 1 + ParseOf(s, i - 1, Len(s)).taken
  <2>3. j <= b /\ ParseOf(s, i - 1, Len(s)).state = "frame" => j <= c
    <3>1. i - 1 \in Nat /\ i - 1 <= Len(s)
      BY <1>0, <2>1
    <3>2. ParseOf(s, i - 1, Len(s)) \in Parsed
      BY <1>0, <3>1, ParseGoes
    <3> DEFINE m == ParseOf(s, i - 1, Len(s)).taken
    <3>3. m \in Nat
      BY <3>2 DEF Parsed
    <3> HIDE DEF m
    <3>4. i - 1 + m <= b => i - 1 + m <= c
      BY <1>0, <1>3, <3>1, <3>3
    <3> QED
      BY <3>4 DEF m
  <2> QED
    BY <2>2, <2>3 DEF SettledAt
<1> QED
  BY <1>2, <1>3, <1>4, <1>5, <1>6

\* One more is dispatched, behind the others.
LEMMA InOrderNext ==
  ASSUME NEW s, NEW c \in Nat, NEW d \in Seq(Nat \X Nat), InOrder(s, c, d),
         NEW e \in Nat, NEW b \in Nat, c < e, e <= b, StandsIn(s, c + 1, e)
  PROVE  InOrder(s, b, d \o << <<c + 1, e>> >>)
<1> DEFINE x == <<c + 1, e>> dd == d \o <<x>>
<1>0. x \in Nat \X Nat /\ x[1] = c + 1 /\ x[2] = e
  OBVIOUS
<1> HIDE DEF x
<1>1. /\ Len(d) \in Nat /\ DOMAIN d = 1..Len(d) /\ DOMAIN dd = 1..(Len(d) + 1)
      /\ \A n \in 1..Len(d) : dd[n] = d[n]
      /\ dd[Len(d) + 1] = x
  BY <1>0
<1> HIDE DEF dd
<1>2. ASSUME NEW n \in 1..Len(d)
      PROVE  /\ dd[n][1] \in 1..b /\ dd[n][2] \in dd[n][1]..b /\ dd[n][2] <= c
             /\ StandsIn(s, dd[n][1], dd[n][2])
             /\ n > 1 => dd[n - 1][2] < dd[n][1]
  <2>0. n \in DOMAIN d
    BY <1>1
  <2>1. /\ d[n][1] \in 1..c /\ d[n][2] \in d[n][1]..c /\ StandsIn(s, d[n][1], d[n][2])
        /\ n > 1 => d[n - 1][2] < d[n][1]
    BY <2>0 DEF InOrder
  <2>2. n > 1 => n - 1 \in 1..Len(d)
    <3> DEFINE l == Len(d)
    <3>1. l \in Nat /\ n \in 1..l
      BY <1>1
    <3> HIDE DEF l
    <3>2. n > 1 => n - 1 \in 1..l
      BY <3>1
    <3> QED
      BY <3>2 DEF l
  <2>3. d[n][1] \in 1..b /\ d[n][2] \in d[n][1]..b /\ d[n][2] <= c
    <3> DEFINE k == d[n][1] l == d[n][2]
    <3>1. k \in 1..c /\ l \in k..c
      BY <2>1
    <3> HIDE DEF k, l
    <3>2. k \in 1..b /\ l \in k..b /\ l <= c
      BY <3>1
    <3> QED
      BY <3>2 DEF k, l
  <2> QED
    BY <1>1, <2>1, <2>2, <2>3
<1>3. ASSUME NEW n \in 1..(Len(d) + 1)
      PROVE  /\ dd[n][1] \in 1..b /\ dd[n][2] \in dd[n][1]..b
             /\ StandsIn(s, dd[n][1], dd[n][2])
             /\ n > 1 => dd[n - 1][2] < dd[n][1]
  <2>1. CASE n \in 1..Len(d)
    BY <1>2, <2>1
  <2>2. CASE n = Len(d) + 1
    <3>1. dd[n][1] = c + 1 /\ dd[n][2] = e
      BY <1>0, <1>1, <2>2
    <3>2. c + 1 \in 1..b /\ e \in (c + 1)..b
      OBVIOUS
    <3>3. ASSUME n > 1 PROVE dd[n - 1][2] < c + 1
      <4>1. n - 1 \in 1..Len(d)
        BY <1>1, <2>2, <3>3
      <4> DEFINE l == dd[n - 1][2]
      <4>2. l <= c /\ dd[n - 1][1] \in 1..b /\ l \in dd[n - 1][1]..b
        BY <1>2, <4>1
      <4> DEFINE k == dd[n - 1][1]
      <4> HIDE DEF k, l
      <4>3. l < c + 1
        BY <4>2 DEF k
      <4> QED
        BY <4>3 DEF l
    <3> QED
      BY <3>1, <3>2, <3>3
  <2> QED
    BY <1>1, <2>1, <2>2
<1>4. InOrder(s, b, dd)
  BY <1>1, <1>3 DEF InOrder
<1> QED
  BY <1>4 DEF dd, x

\* What is settled stays so when more leaves the buffer and more is dispatched.
LEMMA SettledMore ==
  ASSUME NEW s, Len(s) \in Nat, NEW c \in Nat, NEW b \in Nat, c <= b, NEW d \in Seq(Nat \X Nat),
         NEW x \in Seq(Nat \X Nat), NEW i \in 1..c, i <= Len(s), SettledAt(s, c, d, i)
  PROVE  SettledAt(s, b, d \o x, i)
<1> DEFINE p == ParseOf(s, i - 1, Len(s)) m == p.taken
<1>1. i - 1 \in Nat /\ i - 1 <= Len(s)
  OBVIOUS
<1>2. p \in Parsed
  BY <1>1, ParseGoes
<1>3. m \in Nat
  BY <1>2 DEF Parsed
<1>4. i - 1 + m <= c => i - 1 + m <= b
  <2> HIDE DEF m
  <2> QED
    BY <1>1, <1>3
<1>5. \A n \in DOMAIN d : n \in DOMAIN (d \o x) /\ (d \o x)[n] = d[n]
  BY ConcatProperties
<1>6. \A y : (\E n \in DOMAIN d : d[n] = y) => \E n \in DOMAIN (d \o x) : (d \o x)[n] = y
  BY <1>5
<1> QED
  BY <1>4, <1>6 DEF SettledAt

\* Nothing can be made of the front: what is to come is awaited there.
LEMMA CutStuck ==
  ASSUME NEW s, NEW b, NEW d, NEW c, CutAt(s, b, d), c = TrimOf(s, b), TurnOf(s, c).to = c
  PROVE  CutAt(s, c, d) /\ Stuck(s, c)
<1>0. Len(s) \in Nat /\ b \in 0..Len(s) /\ d \in Seq(Nat \X Nat) /\ Agreed(s, b, d)
  BY DEF CutAt
<1>1. /\ c \in b..Len(s) /\ c \in 0..Len(s) /\ BlankTo(s, b, c) /\ LineStart(s, c)
      /\ InOrder(s, c, d) /\ Settled(s, c, d)
  BY CutTrim
<1>2. TrimOf(s, c) = c
  BY <1>0, <1>1, TrimAgain
<1>3. Agreed(s, c, d)
  <2> DEFINE go == GoOf(s)
  <2>1. GoesOn(s, go, b) /\ GoesOn(s, go, c)
    BY <1>0, <1>1, GoEverywhere
  <2>2. go[b].base = c /\ go[b].frames = <<>>
    BY <2>1 DEF GoesOn
  <2>3. go[c].base = c /\ go[c].frames = <<>>
    BY <1>2, <2>1 DEF GoesOn
  <2> HIDE DEF go
  <2> QED
    BY <1>0, <2>2, <2>3 DEF Agreed, go
<1> QED
  BY <1>0, <1>1, <1>2, <1>3 DEF CutAt, Stuck

\* A turn leaves it at what the loop makes of the whole.
LEMMA AgreedNext ==
  ASSUME NEW s, NEW b, NEW d, NEW c, CutAt(s, b, d), c = TrimOf(s, b),
         NEW u, u = TurnOf(s, c), u.to # c
  PROVE  /\ u.to \in (c + 1)..Len(s) /\ u.to \in 0..Len(s) /\ d \o u.frame \in Seq(Nat \X Nat)
         /\ u.frame \in Seq(Nat \X Nat)
         /\ Agreed(s, u.to, d \o u.frame)
<1> DEFINE go == GoOf(s) e == u.to x == u.frame
<1>0. /\ Len(s) \in Nat /\ b \in 0..Len(s) /\ d \in Seq(Nat \X Nat)
      /\ go[0].base = go[b].base /\ go[0].frames = d \o go[b].frames
  BY DEF CutAt, Agreed
<1>1. c \in 0..Len(s)
  BY CutTrim
<1>2. GoesOn(s, go, b) /\ go \in [0..Len(s) -> Gone(s)]
  BY <1>0, GoEverywhere
<1>3. /\ e \in (c + 1)..Len(s) /\ x \in Seq(Nat \X Nat)
      /\ go[b].base = go[e].base /\ go[b].frames = x \o go[e].frames
  BY <1>2 DEF GoesOn
<1> HIDE DEF go, e, x
<1>4. e \in 0..Len(s)
  BY <1>1, <1>3
<1>5. go[e] \in Gone(s)
  BY <1>2, <1>4
<1>6. go[e].frames \in Seq(Nat \X Nat)
  BY <1>5 DEF Gone
<1>7. Associate(d, x, go[e].frames)
  BY <1>0, <1>3, <1>6, Associates
<1>8. go[0].frames = (d \o x) \o go[e].frames
  <2> DEFINE l == go[e].frames h == go[0].frames
  <2>1. h = d \o (x \o l) /\ (d \o x) \o l = d \o (x \o l)
    BY <1>0, <1>3, <1>7 DEF Associate
  <2> QED
    BY <2>1
<1>9. Agreed(s, e, d \o x)
  BY <1>0, <1>3, <1>8 DEF Agreed, go
<1>10. d \o x \in Seq(Nat \X Nat)
  BY <1>0, <1>3
<1> QED
  BY <1>3, <1>4, <1>9, <1>10 DEF e, x

\* What is no frame is skipped to the end of its line, where none begins.
LEMMA CutInvalid ==
  ASSUME NEW s, NEW b, NEW d, NEW c, CutAt(s, b, d), c = TrimOf(s, b),
         NEW u, u = TurnOf(s, c), u.to # c, TurnInvalid(s, c, u)
  PROVE  CutAt(s, u.to, d \o u.frame)
<1> DEFINE to == u.to
<1>0. Len(s) \in Nat /\ b \in 0..Len(s) /\ d \in Seq(Nat \X Nat)
  BY DEF CutAt
<1>1. /\ c \in 0..Len(s) /\ InOrder(s, c, d) /\ Settled(s, c, d)
      /\ c = Len(s) \/ s[c + 1] \notin Splits!Blank
  BY CutTrim
<1>2. to \in (c + 1)..Len(s) /\ to \in 0..Len(s) /\ Agreed(s, to, d \o u.frame)
  BY AgreedNext
<1>3. u.frame = <<>> /\ ParseOf(s, c, Len(s)).state = "invalid"
  BY DEF TurnInvalid
<1>4. FirstNewline(s, c, to)
  BY <1>0, <1>1, TurnGoes
<1> HIDE DEF to
<1>5. d \o u.frame = d
  BY <1>0, <1>3, ConcatEmptySeq
<1>6. /\ to \in Nat /\ to # 0 /\ c < to /\ c \in Nat /\ s[c + 1] \notin Splits!Blank
      /\ s[to] = Splits!Newline /\ \A k \in (c + 1)..(to - 1) : s[k] # Splits!Newline
  BY <1>0, <1>1, <1>2, <1>4 DEF FirstNewline
<1>7. LineStart(s, to)
  BY <1>6, LineStarts
<1>8. InOrder(s, to, d)
  <2>1. \A k \in 1..c : k \in 1..to /\ \A l \in k..c : l \in k..to
    BY <1>6
  <2> QED
    BY <1>1, <2>1 DEF InOrder
<1>9. Settled(s, to, d)
  <2> SUFFICES ASSUME NEW i \in 1..to, s[i] = "head", LineStart(s, i - 1)
               PROVE  SettledAt(s, to, d, i)
    BY DEF Settled
  <2>1. CASE i <= c
    <3>1. i \in 1..c /\ i <= Len(s) /\ c <= to
      BY <1>1, <1>6, <2>1
    <3>2. SettledAt(s, c, d, i)
      BY <1>1, <3>1 DEF Settled
    <3>3. <<>> \in Seq(Nat \X Nat)
      OBVIOUS
    <3>4. SettledAt(s, to, d \o <<>>, i)
      BY <1>0, <1>6, <3>1, <3>2, <3>3, SettledMore
    <3> QED
      BY <1>3, <1>5, <3>4
  <2>2. CASE i = c + 1
    <3>1. i - 1 = c
      BY <1>6, <2>2
    <3> QED
      BY <1>3, <3>1 DEF SettledAt, Final
  <2>3. CASE c + 1 < i
    <3>1. i # to
      BY <1>6, Marks
    <3> DEFINE k == c + 1 l == i - 1
    <3>2. k \in Nat \ {0} /\ l \in Nat /\ k <= l /\ \A j \in (k + 1)..l : j \in (c + 1)..(to - 1)
      BY <1>6, <2>3, <3>1
    <3>3. s[k] \notin Splits!Blank
      BY <1>6
    <3> HIDE DEF k, l
    <3>4. ~LineStart(s, l)
      BY <1>6, <3>2, <3>3, Midline
    <3> QED
      BY <3>4 DEF l
  <2> QED
    BY <1>6, <2>1, <2>2, <2>3
<1> QED
  BY <1>0, <1>2, <1>5, <1>7, <1>8, <1>9 DEF CutAt, to

\* Of a frame from c + 1 to e, and the newline at to behind it.
Framed(s, c, e, to) ==
  /\ Len(s) \in Nat /\ c \in Nat /\ e \in Nat /\ to \in Nat /\ c < e /\ e < to /\ to <= Len(s)
  /\ s[c + 1] = "head" /\ s[e] = "close" /\ Ends(s, c, e) /\ LineStart(s, c)
  /\ s[to] = Splits!Newline /\ \A k \in (e + 1)..(to - 1) : s[k] # Splits!Newline

\* It stands alone if there are only blanks before the newline.
LEMMA FramedStands ==
  ASSUME NEW s, NEW c, NEW e, NEW to, Framed(s, c, e, to)
  PROVE  StandsIn(s, c + 1, e) <=> BlankTo(s, e, to)
<1> USE DEF Framed
<1>0. c + 1 - 1 = c /\ to \in (e + 1)..Len(s)
  OBVIOUS
<1>1. ASSUME BlankTo(s, e, to) PROVE StandsIn(s, c + 1, e)
  BY <1>0, <1>1 DEF StandsIn
<1>2. ASSUME StandsIn(s, c + 1, e) PROVE BlankTo(s, e, to)
  <2>1. PICK z \in (e + 1)..Len(s) : s[z] = Splits!Newline /\ BlankTo(s, e, z)
    BY <1>2 DEF StandsIn
  <2>2. z \notin (e + 1)..(to - 1)
    BY <2>1
  <2>3. \A k \in (e + 1)..to : k \in (e + 1)..z
    BY <2>2
  <2> QED
    BY <2>1, <2>3 DEF BlankTo
<1> QED
  BY <1>1, <1>2

\* What begins in it, or behind it, is a value of it, or is on no line of its own.
LEMMA FramedWithin ==
  ASSUME NEW s, NEW c, NEW e, NEW to, Framed(s, c, e, to), NEW dd,
         NEW i \in (c + 2)..to, s[i] = "head", LineStart(s, i - 1)
  PROVE  SettledAt(s, to, dd, i)
<1>0. /\ Len(s) \in Nat /\ c \in Nat /\ e \in Nat /\ to \in Nat /\ c < e /\ e < to /\ to <= Len(s)
      /\ s[c + 1] = "head" /\ s[e] = "close" /\ Ends(s, c, e)
      /\ s[to] = Splits!Newline /\ \A k \in (e + 1)..(to - 1) : s[k] # Splits!Newline
  BY DEF Framed
<1>1. CASE i <= e
  <2>1. i # e
    BY <1>0
  <2> DEFINE f == i - 1 p == ParseOf(s, f, e) j == f + p.taken
  <2>2. f \in (c + 1)..(e - 1) /\ f + 1 = i /\ f \in Nat /\ f <= e /\ e <= Len(s) /\ c <= e
    BY <1>0, <1>1, <2>1
  <2>3. s[c + 1] \notin Splits!Blank
    BY <1>0, Marks
  <2> HIDE DEF f
  <2>4. p.state = "frame" /\ j < e
    BY <1>0, <2>2, <2>3, Nesting
  <2>5. ParseOf(s, f, Len(s)) = p /\ Final(p)
    BY <1>0, <2>2, <2>4, ParseStays DEF Final
  <2>6. p.taken \in Nat
    <3>1. p \in Parsed
      BY <1>0, <2>2, ParseGoes
    <3> QED
      BY <3>1 DEF Parsed
  <2>7. j \in Nat /\ j <= to /\ e \in (j + 1)..Len(s) /\ c + 1 \in 1..(i - 1) /\ c + 1 - 1 = c
    <3> DEFINE m == p.taken
    <3>1. m \in Nat /\ f + m < e
      BY <2>4, <2>6
    <3> HIDE DEF m
    <3>2. f + m \in Nat /\ f + m <= to /\ e \in (f + m + 1)..Len(s)
      BY <1>0, <2>2, <3>1
    <3>3. c + 1 \in 1..(i - 1) /\ c + 1 - 1 = c
      BY <1>0, <2>2
    <3> QED
      BY <3>2, <3>3 DEF m
  <2> HIDE DEF j
  <2>8. NestedIn(s, i, j)
    BY <1>0, <2>7 DEF NestedIn
  <2> QED
    BY <2>5, <2>7, <2>8 DEF SettledAt, j, f
<1>2. CASE e < i
  <2>1. i # to
    BY <1>0, Marks
  <2> DEFINE l == i - 1
  <2>2. e \in Nat \ {0} /\ l \in Nat /\ e <= l /\ \A k \in (e + 1)..l : k \in (e + 1)..(to - 1)
    BY <1>0, <1>2, <2>1
  <2>3. s[e] \notin Splits!Blank
    BY <1>0, Marks
  <2> HIDE DEF l
  <2>4. ~LineStart(s, l)
    BY <1>0, <2>2, <2>3, Midline
  <2> QED
    BY <2>4 DEF l
<1> QED
  BY <1>0, <1>1, <1>2

\* A frame is taken.
LEMMA CutFrame ==
  ASSUME NEW s, NEW b, NEW d, NEW c, CutAt(s, b, d), c = TrimOf(s, b),
         NEW u, u = TurnOf(s, c), u.to # c, TurnFrame(s, c, u)
  PROVE  CutAt(s, u.to, d \o u.frame)
<1> DEFINE to == u.to p == ParseOf(s, c, Len(s)) e == c + p.taken x == u.frame
<1>0. Len(s) \in Nat /\ b \in 0..Len(s) /\ d \in Seq(Nat \X Nat)
  BY DEF CutAt
<1>1. /\ c \in 0..Len(s) /\ InOrder(s, c, d) /\ Settled(s, c, d) /\ LineStart(s, c)
      /\ c = Len(s) \/ s[c + 1] \notin Splits!Blank
  BY CutTrim
<1>2. /\ to \in 0..Len(s) /\ x \in Seq(Nat \X Nat) /\ d \o x \in Seq(Nat \X Nat)
      /\ Agreed(s, to, d \o x)
  BY AgreedNext
<1>3. p.state = "frame" /\ x = FrameTo(s, c, e, to)
  BY DEF TurnFrame
<1>4. e \in (c + 1)..Len(s) /\ Ends(s, c, e) /\ to \in (e + 1)..Len(s) /\ FirstNewline(s, e, to)
  BY <1>0, <1>1, TurnGoes
<1> HIDE DEF to, e, x
<1>5. /\ c \in Nat /\ e \in Nat /\ to \in Nat /\ c < e /\ e < to /\ to <= Len(s) /\ c < Len(s)
      /\ c <= to /\ c <= e /\ e <= to
  BY <1>0, <1>1, <1>4
<1>6. Framed(s, c, e, to)
  <2>1. s[c + 1] \notin Splits!Blank
    BY <1>1, <1>5
  <2>2. ParseOf(s, c, e).state # "invalid"
    BY <1>4 DEF Ends
  <2>3. s[c + 1] = "head" /\ s[e] = "close"
    BY <1>4, <1>5, <2>1, <2>2, ParseHead, EndsIs
  <2>4. s[to] = Splits!Newline /\ \A k \in (e + 1)..(to - 1) : s[k] # Splits!Newline
    BY <1>4, <1>5 DEF FirstNewline
  <2> QED
    BY <1>0, <1>1, <1>4, <1>5, <2>3, <2>4 DEF Framed
<1>7. LineStart(s, to)
  BY <1>5, <1>6, LineStarts DEF Framed
<1>8. InOrder(s, to, d \o x)
  <2>1. CASE BlankTo(s, e, to)
    <3>1. StandsIn(s, c + 1, e)
      BY <1>6, <2>1, FramedStands
    <3>2. x = << <<c + 1, e>> >>
      BY <1>3, <2>1 DEF FrameTo
    <3> QED
      BY <1>0, <1>1, <1>5, <3>1, <3>2, InOrderNext
  <2>2. CASE ~BlankTo(s, e, to)
    <3>1. x = <<>>
      BY <1>3, <2>2 DEF FrameTo
    <3>2. d \o x = d
      BY <1>0, <3>1, ConcatEmptySeq
    <3>3. \A k \in 1..c : k \in 1..to /\ \A l \in k..c : l \in k..to
      BY <1>5
    <3> QED
      BY <1>1, <3>2, <3>3 DEF InOrder
  <2> QED
    BY <2>1, <2>2
<1>9. Settled(s, to, d \o x)
  <2> SUFFICES ASSUME NEW i \in 1..to, s[i] = "head", LineStart(s, i - 1)
               PROVE  SettledAt(s, to, d \o x, i)
    BY DEF Settled
  <2>1. CASE i <= c
    <3>1. i \in 1..c /\ i <= Len(s)
      BY <1>5, <2>1
    <3>2. SettledAt(s, c, d, i)
      BY <1>1, <3>1 DEF Settled
    <3> QED
      BY <1>0, <1>2, <1>5, <3>1, <3>2, SettledMore
  <2>2. CASE i = c + 1
    <3>1. i - 1 = c
      BY <1>5, <2>2
    <3>2. ASSUME StandsIn(s, i, e) PROVE \E n \in DOMAIN (d \o x) : (d \o x)[n] = <<i, e>>
      <4>1. BlankTo(s, e, to)
        BY <1>6, <2>2, <3>2, FramedStands
      <4>2. x = << <<i, e>> >>
        BY <1>3, <2>2, <4>1 DEF FrameTo
      <4> DEFINE y == <<i, e>>
      <4>3. y \in Nat \X Nat
        BY <1>5
      <4> HIDE DEF y
      <4>4. x = <<y>> /\ Len(d) \in Nat
        BY <1>0, <4>2 DEF y
      <4>5. Len(d) + 1 \in DOMAIN (d \o x) /\ (d \o x)[Len(d) + 1] = y
        BY <1>0, <4>3, <4>4
      <4> QED
        BY <4>5 DEF y
    <3>3. Final(p)
      BY <1>3 DEF Final
    <3>4. e = i - 1 + p.taken
      BY <3>1 DEF e
    <3> QED
      BY <1>5, <3>1, <3>2, <3>3, <3>4 DEF SettledAt
  <2>3. CASE c + 1 < i
    <3>1. i \in (c + 2)..to
      BY <1>5, <2>3
    <3> QED
      BY <1>6, <3>1, FramedWithin
  <2> QED
    BY <1>5, <2>1, <2>2, <2>3
<1> QED
  BY <1>0, <1>2, <1>7, <1>8, <1>9 DEF CutAt, to, x

\* One turn of the inner loop.
LEMMA CutScan ==
  ASSUME NEW s, NEW b, NEW d, NEW c, CutAt(s, b, d), c = TrimOf(s, b), NEW u, u = TurnOf(s, c)
  PROVE  CutAt(s, u.to, d \o u.frame) /\ (u.to = c => Stuck(s, c))
<1>0. Len(s) \in Nat /\ c \in 0..Len(s) /\ d \in Seq(Nat \X Nat)
  BY CutTrim DEF CutAt
<1>1. CASE u.to = c
  <2>1. u.frame = <<>>
    BY <1>0, <1>1, TurnStuck
  <2>2. d \o u.frame = d
    BY <1>0, <2>1, ConcatEmptySeq
  <2> QED
    BY <1>1, <2>2, CutStuck
<1>2. CASE u.to # c
  <2>1. TurnFrame(s, c, u) \/ TurnInvalid(s, c, u)
    BY <1>0, <1>2, TurnStuck
  <2> QED
    BY <1>2, <2>1, CutFrame, CutInvalid
<1> QED
  BY <1>1, <1>2

--------------------------------------------------------------------------------
(* Framing: its own words, of what has been read so far.                     *)

FrameInv ==
  /\ bytes \in Seq(Tokens) /\ CutAt(bytes, base, dispatched)
  /\ pc \in {"read", "scan", "closed"} /\ (pc # "scan" => Stuck(bytes, base))

LEMMA SameParse == \A f, n : Splits!Parse(f, n) = ParseOf(bytes, f, n)
  BY DEF Splits!Parse, ParseOf, Fresh

LEMMA SameNewline == \A i : Splits!NewlineAfter(i) = NewlineOf(bytes, i)
  BY DEF Splits!NewlineAfter, NewlineOf

LEMMA SameBlank == \A i, nl : Splits!BlankTail(i, nl) <=> BlankTo(bytes, i, nl)
  BY DEF Splits!BlankTail, BlankTo

LEMMA SameTrim == \A b : Splits!Trimmed(b) = TrimOf(bytes, b)
  BY DEF Splits!Trimmed, TrimOf, BlankTo

LEMMA SameTurn == \A f : Splits!Turn(f) = TurnOf(bytes, f)
  BY SameParse, SameNewline, SameBlank DEF Splits!Turn, TurnOf, Splits!Terminator, Splits!Skip

LEMMA SameWhole == Splits!Whole = GoOf(bytes)[0]
<1>1. \A b : Splits!Trimmed(b) = TrimOf(bytes, b) /\ Splits!Turn(b) = TurnOf(bytes, b)
  BY SameTrim, SameTurn
<1> QED
  BY <1>1, Zenon DEF Splits!Whole, GoOf, GoingFrom

LEMMA SameEnds == \A i, j : Splits!IsFrame(i, j) <=> /\ ParseOf(bytes, i - 1, j).state = "frame"
                                                     /\ ParseOf(bytes, i - 1, j).taken = j - i + 1
  BY SameParse DEF Splits!IsFrame

\* What stands alone, in the words of Framing.
LEMMA SameStands ==
  ASSUME NEW i \in Nat \ {0}, NEW j \in Nat
  PROVE  Splits!Stands(i, j) <=> StandsIn(bytes, i, j)
<1>1. Splits!IsFrame(i, j) <=> Ends(bytes, i - 1, j)
  <2>1. j - i + 1 = j - (i - 1)
    OBVIOUS
  <2> QED
    BY <2>1, SameEnds DEF Ends
<1> QED
  BY <1>1 DEF Splits!Stands, StandsIn, LineStart, BlankTo

\* And what is a value of a larger object.
LEMMA SameNested ==
  ASSUME NEW i \in Nat \ {0}, NEW j \in Nat
  PROVE  Splits!Nested(i, j) <=> NestedIn(bytes, i, j)
<1>1. ASSUME NEW a \in 1..(i - 1), NEW z \in (j + 1)..Len(bytes)
      PROVE  Splits!IsFrame(a, z) <=> Ends(bytes, a - 1, z)
  <2>1. z - a + 1 = z - (a - 1)
    OBVIOUS
  <2> QED
    BY <2>1, SameEnds DEF Ends
<1> QED
  BY <1>1 DEF Splits!Nested, NestedIn

--------------------------------------------------------------------------------
(* Framing: every read, from the first to the end of the input.              *)

\* At first there is nothing.
LEMMA FrameFirst == Splits!Init => FrameInv
<1> SUFFICES ASSUME Splits!Init PROVE FrameInv
  OBVIOUS
<1> DEFINE s == <<>> go == GoOf(s)
<1>0. bytes = s /\ base = 0 /\ pc = "read" /\ dispatched = <<>> /\ Len(s) = 0 /\ s \in Seq(Tokens)
  BY DEF Splits!Init
<1>1. TrimOf(s, 0) = 0 /\ TurnOf(s, 0).to = 0
  <2>1. TrimOf(s, 0) \in 0..0
    BY <1>0, TrimIs DEF FirstMark
  <2> DEFINE to == TurnOf(s, 0).to
  <2>2. to \in 0..0
    <3>1. Len(s) \in Nat /\ 0 \in 0..Len(s)
      BY <1>0
    <3> HIDE DEF s
    <3> QED
      BY <1>0, <3>1, TurnGoes
  <2> HIDE DEF to
  <2>3. to = 0
    BY <2>2
  <2> QED
    BY <2>1, <2>3 DEF to
<1>2. <<>> \in Seq(Nat \X Nat)
  OBVIOUS
<1>3. Agreed(s, 0, <<>>)
  <2>1. go \in [0..0 -> Gone(s)]
    BY <1>0, GoEverywhere
  <2> HIDE DEF go
  <2>2. go[0] \in Gone(s)
    BY <2>1
  <2>3. go[0].frames \in Seq(Nat \X Nat)
    BY <2>2 DEF Gone
  <2>4. go[0].frames = <<>> \o go[0].frames
    BY <2>3, ConcatEmptySeq
  <2> QED
    BY <2>4 DEF Agreed, go
<1>4. LineStart(s, 0)
  BY DEF LineStart, BlankTo
<1>5. InOrder(s, 0, <<>>) /\ Settled(s, 0, <<>>)
  BY DEF InOrder, Settled
<1>6. CutAt(s, 0, <<>>) /\ Stuck(s, 0)
  BY <1>0, <1>1, <1>2, <1>3, <1>4, <1>5 DEF CutAt, Stuck
<1> HIDE DEF s
<1> QED
  BY <1>0, <1>6 DEF FrameInv

\* Then one step after the other.
LEMMA FrameStep == FrameInv /\ Splits!Next => FrameInv'
<1> SUFFICES ASSUME FrameInv, Splits!Next PROVE FrameInv'
  OBVIOUS
<1>0. /\ bytes \in Seq(Tokens) /\ CutAt(bytes, base, dispatched)
      /\ pc \in {"read", "scan", "closed"} /\ (pc # "scan" => Stuck(bytes, base))
  BY DEF FrameInv
<1>1. CASE Splits!Read
  <2>1. PICK n \in 1..MaxChunk : \E chunk \in [1..n -> Tokens] : bytes' = bytes \o chunk
    BY <1>1 DEF Splits!Read
  <2>2. PICK chunk \in [1..n -> Tokens] : bytes' = bytes \o chunk
    BY <2>1
  <2>3. n \in Nat
    OBVIOUS
  <2>4. chunk \in Seq(Tokens)
    BY <2>3, SeqDef
  <2>5. bytes' \in Seq(Tokens)
    BY <1>0, <2>2, <2>4
  <2>6. Begins(bytes, bytes')
    <3>1. /\ Len(bytes') = Len(bytes) + Len(chunk) /\ Len(bytes) \in Nat /\ Len(chunk) \in Nat
          /\ \A k \in 1..Len(bytes) : bytes[k] = bytes'[k]
      BY <1>0, <2>2, <2>4
    <3> QED
      BY <3>1 DEF Begins
  <2>7. pc = "read" /\ pc' = "scan" /\ base' = base /\ dispatched' = dispatched
    BY <1>1 DEF Splits!Read
  <2>8. CutAt(bytes', base, dispatched)
    BY <1>0, <2>6, <2>7, CutRead
  <2>9. CutAt(bytes, base, dispatched)'
    BY <2>7, <2>8
  <2> QED
    BY <2>5, <2>7, <2>9 DEF FrameInv
<1>2. CASE Splits!Scan
  <2> DEFINE c == TrimOf(bytes, base) u == TurnOf(bytes, c)
  <2>1. /\ base' = u.to /\ dispatched' = dispatched \o u.frame /\ bytes' = bytes
        /\ pc' = IF u.to = c THEN "read" ELSE "scan"
    BY <1>2, SameTrim, SameTurn DEF Splits!Scan
  <2>2. CutAt(bytes, u.to, dispatched \o u.frame) /\ (u.to = c => Stuck(bytes, c))
    BY <1>0, CutScan
  <2> HIDE DEF c, u
  <2>3. pc' \in {"read", "scan", "closed"} /\ (pc' # "scan" => Stuck(bytes, base'))
    BY <2>1, <2>2
  <2>4. CutAt(bytes, base', dispatched')
    BY <2>1, <2>2
  <2> QED
    BY <1>0, <2>1, <2>3, <2>4 DEF FrameInv
<1>3. CASE Splits!Eof
  <2>1. /\ pc = "read" /\ pc' = "closed"
        /\ bytes' = bytes /\ base' = base /\ dispatched' = dispatched
    BY <1>3 DEF Splits!Eof
  <2> QED
    BY <1>0, <2>1 DEF FrameInv
<1> QED
  BY <1>1, <1>2, <1>3 DEF Splits!Next

\* It holds what was promised.
LEMMA FrameStands ==
  ASSUME FrameInv
  PROVE  Splits!ChunkIndependent /\ Splits!OnlyWholeFrames /\ Splits!NoFrameLost
<1>0. /\ Len(bytes) \in Nat /\ base \in 0..Len(bytes) /\ dispatched \in Seq(Nat \X Nat)
      /\ Agreed(bytes, base, dispatched) /\ InOrder(bytes, base, dispatched)
      /\ Settled(bytes, base, dispatched)
      /\ pc # "scan" => Stuck(bytes, base)
  BY DEF FrameInv, CutAt
<1>1. Splits!ChunkIndependent
  <2> SUFFICES ASSUME pc = "read" PROVE base = Splits!Whole.base /\ dispatched = Splits!Whole.frames
    BY DEF Splits!ChunkIndependent
  <2> DEFINE go == GoOf(bytes)
  <2>1. GoesOn(bytes, go, base)
    BY <1>0, GoEverywhere
  <2>2. go[base].base = base /\ go[base].frames = <<>>
    BY <1>0, <2>1 DEF GoesOn, Stuck
  <2>3. Splits!Whole = go[0] /\ go[0].base = go[base].base /\ go[0].frames = dispatched \o go[base].frames
    BY <1>0, SameWhole DEF Agreed
  <2> HIDE DEF go
  <2>4. dispatched \o <<>> = dispatched
    BY <1>0, ConcatEmptySeq
  <2> QED
    BY <2>2, <2>3, <2>4
<1>2. Splits!OnlyWholeFrames
  <2>1. ASSUME NEW n \in DOMAIN dispatched PROVE Splits!Stands(dispatched[n][1], dispatched[n][2])
    <3> DEFINE i == dispatched[n][1] j == dispatched[n][2]
    <3>1. i \in 1..base /\ j \in i..base /\ StandsIn(bytes, i, j)
      BY <1>0 DEF InOrder
    <3> HIDE DEF i, j
    <3>2. i \in Nat \ {0} /\ j \in Nat
      BY <1>0, <3>1
    <3>3. Splits!Stands(i, j)
      BY <3>1, <3>2, SameStands
    <3> QED
      BY <3>3 DEF i, j
  <2>2. \A n \in DOMAIN dispatched : n > 1 => dispatched[n - 1][2] < dispatched[n][1]
    BY <1>0 DEF InOrder
  <2> QED
    BY <2>1, <2>2 DEF Splits!OnlyWholeFrames
<1>3. Splits!NoFrameLost
  <2> SUFFICES ASSUME NEW i \in 1..base, NEW j \in 1..base, i < j,
                      Splits!Stands(i, j), ~Splits!Nested(i, j)
               PROVE  \E n \in DOMAIN dispatched : dispatched[n] = <<i, j>>
    BY DEF Splits!NoFrameLost
  <2>0. /\ i \in Nat \ {0} /\ j \in Nat /\ i - 1 \in Nat /\ i - 1 <= j /\ j <= Len(bytes)
        /\ i - 1 + (j - (i - 1)) = j
    BY <1>0
  <2>1. StandsIn(bytes, i, j) /\ ~NestedIn(bytes, i, j)
    BY <2>0, SameStands, SameNested
  <2>2. SettledAt(bytes, base, dispatched, i)
    BY <1>0, <2>1 DEF Settled, StandsIn
  <2> DEFINE p == ParseOf(bytes, i - 1, Len(bytes)) q == ParseOf(bytes, i - 1, j)
  <2>3. q.state = "frame" /\ q.taken = j - (i - 1)
    BY <2>1 DEF StandsIn, Ends
  <2>4. p = q
    BY <1>0, <2>0, <2>3, ParseStays DEF Final
  <2>5. i - 1 + p.taken = j /\ p.state = "frame"
    BY <2>0, <2>3, <2>4
  <2> QED
    BY <2>1, <2>2, <2>5 DEF SettledAt
<1> QED
  BY <1>1, <1>2, <1>3

\* However the input is cut into reads, what is dispatched of it is what one read of it
\* all would give; only text that stands alone is dispatched, once and in order; and of
\* what has left the buffer nothing that stands alone was lost.
THEOREM FramesAreWhole == JourneySpec => []FramesWhole
<1> DEFINE I == machine = "framing" => FrameInv
<1>1. JourneyInit => I
  BY FrameFirst DEF JourneyInit, FramingInit
<1>2. I /\ [JourneyNext]_journeyVars => I'
  <2> SUFFICES ASSUME I, [JourneyNext]_journeyVars, machine' = "framing" PROVE FrameInv'
    OBVIOUS
  <2>1. CASE JourneyNext
    <3>1. machine = "framing" /\ Splits!Next
      BY <2>1 DEF JourneyNext
    <3> QED
      BY <3>1, FrameStep
  <2>2. CASE UNCHANGED journeyVars
    <3>1. machine = "framing" /\ UNCHANGED framingVars
      BY <2>2 DEF journeyVars
    <3> QED
      BY <3>1 DEF FrameInv, framingVars
  <2> QED
    BY <2>1, <2>2
<1>3. I => FramesWhole
  BY FrameStands DEF FramesWhole
<1> QED
  BY <1>1, <1>2, <1>3, PTL DEF JourneySpec

================================================================================
