-------------------------------- MODULE Documents ------------------------------
(***************************************************************************)
(* The documents a server may send for a class: every one that satisfies   *)
(* its schema up to the choice of one field, the ones of a newer server,   *)
(* and the ones that miss the schema in one place.  What it means that two *)
(* documents say the same.                                                 *)
(***************************************************************************)
EXTENDS Models

RECURSIVE Complete(_)

Typical(C, f) ==
    CASE f.as.to = "as_is" ->
            Text(IF "instance" \in f.as.among THEN "instance"
                 ELSE CHOOSE word \in f.as.among : TRUE)
      [] f.as.to = "octal" -> Text("octal")
      [] f.as.to = "datetime" -> Text("iso1")
      [] f.as.to = "status" -> Text("SUCCESS")
      [] f.as.to = "model" -> Complete(f.as.class)
      [] f.as.to = "list" -> Array(<< Complete(f.as.class) >>)
      [] f.as.to = "map" -> Object([key \in {"k"} |-> Complete(f.as.class)])
      [] f.as.to = "by_kind" -> Complete(f.as.instance)
      [] f.as.to = "by_type" ->
            Complete(f.as.parsers[CHOOSE word \in OperationEventType : TRUE])

FieldOf(C, name) == C.fields[CHOOSE i \in DOMAIN C.fields : C.fields[i].name = name]

\* Every field is there, and no other.
Complete(C) == Object([name \in Names(C) |-> Typical(C, FieldOf(C, name))])

Without(d, names) == Object([key \in DOMAIN d.object \ names |-> d.object[key]])
With(d, name, v) == Object([key \in DOMAIN d.object \cup {name} |->
                                IF key = name THEN v ELSE d.object[key]])

Optional(C) == {name \in Names(C) : ~ FieldOf(C, name).required}
Minimal(C) == Without(Complete(C), Optional(C))

RECURSIVE Valid(_)

\* The values the schema allows for a field, one nested choice at a time.
Samples(as) ==
    CASE as.to = "as_is" -> {Text(word) : word \in as.among}
      [] as.to = "octal" -> {Text("octal")}
      [] as.to = "datetime" -> {Text("zulu"), Text("nanos"), Text("iso1"), Text("iso2")}
      [] as.to = "status" -> {Text("SUCCESS"), Text("PENDING")}
      [] as.to = "model" -> Valid(as.class)
      [] as.to = "list" -> {Array(<< >>), Array(<< Minimal(as.class), Complete(as.class) >>)}
                             \cup {Array(<< d >>) : d \in Valid(as.class)}
      [] as.to = "map" -> {Object(EmptyDict)}
                             \cup {Object([key \in {"k"} |-> d]) : d \in Valid(as.class)}
      [] as.to = "by_kind" -> Valid(as.instance)
      [] as.to = "by_type" -> {}

\* The words of a discriminator come with a payload of their kind.
Paired(C) ==
    UNION {CASE f.as.to = "by_kind" ->
                    {With(With(Complete(C), "kind", Text("image_import")), f.name, d)
                        : d \in Valid(f.as.otherwise)}
             [] f.as.to = "by_type" ->
                    UNION {{With(With(Complete(C), "type", Text(word)), f.name, d)
                                : d \in Valid(f.as.parsers[word])} : word \in OperationEventType}
             [] OTHER -> {}
           : f \in {C.fields[i] : i \in DOMAIN C.fields}}

IsDiscriminated(C) == \E i \in DOMAIN C.fields : C.fields[i].as.to \in {"by_kind", "by_type"}

\* The fields whose absence or value decides how another one is read.
Discriminators(C) == IF IsDiscriminated(C) THEN {"kind", "type"} ELSE {}

Valid(C) ==
    LET full == Complete(C)
        Free == Names(C) \ Discriminators(C)
    IN  {full, Minimal(C)}
        \cup {Without(full, {name}) : name \in Optional(C) \cap Free}
        \cup {With(full, name, Null) : name \in {n \in Free : FieldOf(C, n).null}}
        \cup UNION {{With(full, name, v) : v \in Samples(FieldOf(C, name).as)} : name \in Free}
        \cup Paired(C)

\* A newer server adds a field.
Newer(C) == With(Complete(C), "added_later", Text("v"))

Junk == {Null, Number(5), Text("junk"), Text(""), Array(<< >>), Object(EmptyDict)}

RECURSIVE Mangled(_)

\* Documents that miss the schema in one place.
MangledField(as) ==
    CASE as.to = "model" -> Mangled(as.class)
      [] as.to = "list" -> {Array(<< d >>) : d \in Mangled(as.class)}
      [] as.to = "map" -> {Object([key \in {"k"} |-> d]) : d \in Mangled(as.class)}
      [] OTHER -> {}

Mangled(C) ==
    LET full == Complete(C)
    IN  {Without(full, {name}) : name \in Names(C) \ Optional(C)}
        \cup UNION {{With(full, name, v) : v \in Junk \cup MangledField(FieldOf(C, name).as)}
                    : name \in Names(C)}

-----------------------------------------------------------------------------
(***************************************************************************)
(* When a document e says what d says: the fields of the class that d has, *)
(* nulls as nulls, instants to the microsecond.                            *)
(***************************************************************************)
RECURSIVE Says(_, _, _)

SaysValue(as, d, e, whole) ==
    CASE Is("null", d) -> e = Null
      [] as.to = "datetime" -> Is("text", e) /\ Spellings[e.text] = Spellings[d.text]
      [] as.to = "model" -> Says(as.class, d, e)
      [] as.to = "list" ->
            /\ Len(e.array) = Len(d.array)
            /\ \A i \in DOMAIN d.array : Says(as.class, d.array[i], e.array[i])
      [] as.to = "map" ->
            /\ DOMAIN e.object = DOMAIN d.object
            /\ \A key \in DOMAIN d.object : Says(as.class, d.object[key], e.object[key])
      [] as.to = "by_kind" ->
            Says(IF whole.kind = Text("instance") THEN as.instance ELSE as.otherwise, d, e)
      [] as.to = "by_type" -> Says(as.parsers[whole.type.text], d, e)
      [] OTHER -> e = d

Says(C, d, e) ==
    /\ Is("object", e)
    /\ DOMAIN e.object = DOMAIN d.object \cap Names(C)
    /\ \A name \in DOMAIN e.object :
            SaysValue(FieldOf(C, name).as, d.object[name], e.object[name], d.object)

=============================================================================
