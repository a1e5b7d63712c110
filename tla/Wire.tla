---------------------------------- MODULE Wire ---------------------------------
(***************************************************************************)
(* How the Python client reads JSON into models and writes models as JSON  *)
(* (client/contree_client/models.py): the wire forms, the schema of a      *)
(* model class, from_dict and to_dict with the exceptions Python raises.   *)
(***************************************************************************)
EXTENDS Integers, Sequences, SequencesExt, FiniteSets

(***************************************************************************)
(* A value is a record with one field, named after what the value is: JSON *)
(* (null, number, text, array, object) or Python's (unset for the          *)
(* Ellipsis, datetime, status, instance of a model).  A number stands for  *)
(* true and false too.  A text is one of a few spellings.                  *)
(***************************************************************************)
Null == [null |-> TRUE]
Number(n) == [number |-> n]
Text(t) == [text |-> t]
Array(items) == [array |-> items]
Object(members) == [object |-> members]
Unset == [unset |-> TRUE]
Datetime(t) == [datetime |-> t]
Status(s) == [status |-> s]
Instance(class, attrs) == [instance |-> [class |-> class, attrs |-> attrs]]
Raise(error) == [raises |-> error]

Is(tag, v) == tag \in DOMAIN v

EmptyDict == [key \in {} |-> Null]

-----------------------------------------------------------------------------
(***************************************************************************)
(* What a class says of its fields.  "as" is the conversion parse_fields   *)
(* makes; "null" says that the schema allows a null.                       *)
(***************************************************************************)
AsIs == [to |-> "as_is", among |-> {"v"}]
OneOf(words) == [to |-> "as_is", among |-> words]
Moment == [to |-> "datetime"]
StatusWord == [to |-> "status"]
One(C) == [to |-> "model", class |-> C]
Many(C) == [to |-> "list", class |-> C]
Named(C) == [to |-> "map", class |-> C]
\* Instances of A when the sibling "kind" is "instance", of B otherwise.
ByKind(A, B) == [to |-> "by_kind", instance |-> A, otherwise |-> B]
\* An event payload, read with the parser of the sibling "type".
ByType(parsers) == [to |-> "by_type", parsers |-> parsers]
\* The octal file mode of FileSpec.__post_init__.
OctalMode == [to |-> "octal"]

Field(name, required, null, as) ==
    << [name |-> name, required |-> required, null |-> null, as |-> as] >>
Plain(names, required, null) ==
    [i \in DOMAIN names |-> Field(names[i], required, null, AsIs)[1]]

Req(names) == Plain(names, TRUE, FALSE)
ReqNull(names) == Plain(names, TRUE, TRUE)
Opt(names) == Plain(names, FALSE, FALSE)
OptNull(names) == Plain(names, FALSE, TRUE)
ReqAs(name, as) == Field(name, TRUE, FALSE, as)
OptAs(name, as) == Field(name, FALSE, FALSE, as)
OptNullAs(name, as) == Field(name, FALSE, TRUE, as)

\* A class that keeps ContreeModel.parse_fields, and one that overrides it.
Model(name, fields) == [name |-> name, overrides |-> FALSE, fields |-> fields]
ParsedModel(name, fields) == [name |-> name, overrides |-> TRUE, fields |-> fields]

Names(C) == {C.fields[i].name : i \in DOMAIN C.fields}

-----------------------------------------------------------------------------

\* The spellings of an instant: RFC 3339 with Z, with nanoseconds, and what
\* isoformat writes.  Nanoseconds are cut to microseconds.
Spellings == [zulu |-> "t1", nanos |-> "t2", iso1 |-> "t1", iso2 |-> "t2"]

parse_datetime(v) ==
    IF ~ Is("text", v) THEN Raise("AttributeError")
    ELSE IF v.text \in DOMAIN Spellings THEN Datetime(Spellings[v.text]) ELSE Raise("ValueError")

isoformat(moment) == Text(IF moment.datetime = "t1" THEN "iso1" ELSE "iso2")

TERMINAL_STATUSES == {"SUCCESS", "FAILED", "CANCELLED"}
ACTIVE_STATUSES == {"PENDING", "ASSIGNED", "EXECUTING"}

OperationStatus(v) ==
    IF ~ Is("text", v) THEN Raise("ValueError")
    ELSE IF v.text \in TERMINAL_STATUSES \cup ACTIVE_STATUSES
         THEN Status(v.text) ELSE Raise("ValueError")

\* FileSpec.__post_init__: a number becomes its octal digits.
PostInit(v) == IF Is("number", v) THEN Text("octal") ELSE v

-----------------------------------------------------------------------------

RECURSIVE from_dict(_, _)

\* The first exception of a row of conversions, or what Build makes of them.
FirstRaise(got, Build(_)) ==
    LET failed == {i \in DOMAIN got : Is("raises", got[i])} IN
    IF failed = {} THEN Build(got)
    ELSE got[CHOOSE i \in failed : \A j \in failed : i <= j]

\* What a loop over the value visits: the letters of a text, the keys of an
\* object.
Iterate(v) ==
    CASE Is("array", v) -> v.array
      [] Is("text", v) -> << Text("letter") >>
      [] Is("object", v) -> SetToSeq({Text(key) : key \in DOMAIN v.object})

FromList(C, v) ==
    IF Is("null", v) \/ Is("number", v) THEN Raise("TypeError")
    ELSE LET items == Iterate(v)
         IN FirstRaise([i \in DOMAIN items |-> from_dict(C, items[i])], Array)

FromMap(C, v) ==
    IF ~ Is("object", v) THEN Raise("AttributeError")
    ELSE LET keys == SetToSeq(DOMAIN v.object)
             Build(got) == Object([key \in DOMAIN v.object |->
                                    got[CHOOSE i \in DOMAIN keys : keys[i] = key]])
         IN FirstRaise([i \in DOMAIN keys |-> from_dict(C, v.object[keys[i]])], Build)

parse_event_data(parsers, type, data) ==
    IF ~ Is("object", data) THEN data
    ELSE IF Is("array", type) \/ Is("object", type) THEN Raise("TypeError")
    ELSE IF ~ Is("text", type) THEN data
    ELSE IF type.text \notin DOMAIN parsers THEN data
    ELSE LET got == from_dict(parsers[type.text], data)
         IN IF got \in {Raise("KeyError"), Raise("TypeError"), Raise("ValueError")}
            THEN data ELSE got

Convert(as, v, data) ==
    CASE as.to \in {"as_is", "octal"} -> v
      [] as.to = "datetime" -> parse_datetime(v)
      [] as.to = "status" -> OperationStatus(v)
      [] as.to = "model" -> from_dict(as.class, v)
      [] as.to = "list" -> FromList(as.class, v)
      [] as.to = "map" -> FromMap(as.class, v)
      [] as.to = "by_kind" ->
            from_dict(IF "kind" \in DOMAIN data /\ data.kind = Text("instance")
                      THEN as.instance ELSE as.otherwise, v)
      [] as.to = "by_type" -> parse_event_data(as.parsers, data.type, v)

\* Seeded fault: a null is handed to the conversion.
ParseFieldNullConverted(data, f) ==
    IF ~ Is("object", data) THEN Raise(IF f.required THEN "TypeError" ELSE "AttributeError")
    ELSE IF f.name \notin DOMAIN data.object
         THEN IF f.required THEN Raise("KeyError") ELSE Unset
    ELSE Convert(f.as, data.object[f.name], data.object)

\* data[name] and data.get(name, ...) of an overriding parse_fields: an
\* optional field keeps the difference between null and absent.
ParseField(data, f) ==
    IF ~ Is("object", data) THEN Raise(IF f.required THEN "TypeError" ELSE "AttributeError")
    ELSE IF f.name \notin DOMAIN data.object
         THEN IF f.required THEN Raise("KeyError") ELSE Unset
    ELSE IF Is("null", data.object[f.name]) /\ ~ f.required THEN Null
    ELSE Convert(f.as, data.object[f.name], data.object)

\* ContreeModel.parse_fields asks whether the name is in the data, whatever
\* the data is; the constructor misses the required ones.
CopyField(data, f) ==
    IF Is("null", data) \/ Is("number", data) THEN Raise("TypeError")
    ELSE IF Is("object", data) /\ f.name \in DOMAIN data.object
         THEN IF f.as = OctalMode THEN PostInit(data.object[f.name]) ELSE data.object[f.name]
    ELSE IF f.required THEN Raise("TypeError") ELSE Unset

from_dict(C, data) ==
    LET got == [i \in DOMAIN C.fields |->
                    IF C.overrides THEN ParseField(data, C.fields[i])
                    ELSE CopyField(data, C.fields[i])]
        Build(values) == Instance(C.name, [name \in Names(C) |->
                            values[CHOOSE i \in DOMAIN C.fields : C.fields[i].name = name]])
    IN FirstRaise(got, Build)

-----------------------------------------------------------------------------

RECURSIVE wire_value(_)

\* Fields that are unset are left out, a null is kept.
omitted_dict(items) ==
    LET set == {key \in DOMAIN items : ~ Is("unset", items[key])}
    IN Object([key \in set |-> wire_value(items[key])])

to_dict(v) == omitted_dict(v.instance.attrs)

wire_value(v) ==
    CASE Is("instance", v) -> to_dict(v)
      [] Is("datetime", v) -> isoformat(v)
      [] Is("status", v) -> Text(v.status)
      [] Is("array", v) -> Array([i \in DOMAIN v.array |-> wire_value(v.array[i])])
      [] Is("object", v) -> Object([key \in DOMAIN v.object |-> wire_value(v.object[key])])
      [] OTHER -> v

=============================================================================
