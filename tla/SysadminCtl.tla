---------------------------- MODULE SysadminCtl ----------------------------
(***************************************************************************)
(* The protobuf messages of src/clients/rust/src/sysadminctl.rs, which     *)
(* rust-protobuf generates from sysadminctl.proto.                         *)
(*                                                                         *)
(* The code of a message is the same for all up to its fields, so a message*)
(* type is the sequence of its fields in the order in which they are       *)
(* written, and the generated methods are operators with such a sequence as*)
(* a parameter.  Both ends are generated from one file, so no field and no  *)
(* number of an enum is unknown to its reader: unknown_fields is left out. *)
(***************************************************************************)
EXTENDS Integers, FiniteSets, Sequences, SequencesExt

CONSTANT StrLen    \* the length in bytes of each string

----------------------------------------------------------------------------
(* Fields *)

\* rule is "required", "optional", "repeated", or "oneof" for a member of the
\* message's only oneof group; tag is the length of the tag that the generated
\* compute_size has as a literal, for messages and booleans.
Field(name, number, kind, rule) ==
    [name |-> name, number |-> number, kind |-> kind, rule |-> rule,
     type |-> <<>>, tag |-> 1]

Message(name, number, type, rule) ==
    [Field(name, number, "message", rule) EXCEPT !.type = type]

IsMessage(f) == f.kind = "message"

Names(type) == {type[i].name : i \in DOMAIN type}

FieldNamed(type, name) == type[CHOOSE i \in DOMAIN type : type[i].name = name]

\* The fields that share their storage with a field.
Group(type, name) ==
    IF FieldNamed(type, name).rule = "oneof"
    THEN {g \in Names(type) : FieldNamed(type, g).rule = "oneof"}
    ELSE {name}

----------------------------------------------------------------------------
(* Enums: in a message an enum is its number *)

CommitConfig == [DEFAULT |-> 0, TEMPLATE_ONLY |-> 1, NO_HOOKS |-> 3]

StatusCode ==
    [SUCCESS |-> 0, UNKNOWN_ERROR |-> 1, TYPE_MISMATCH |-> 2,
     COMMAND_TRANSLATION_ERROR |-> 3, KEY_NOT_FOUND |-> 4,
     EXTERNAL_PROCESS_ERROR |-> 5, INVALID_KEY |-> 6, FAILED_ROLLBACK |-> 7,
     LOCKED_QUEUE |-> 8, HOOK_NOT_FOUND |-> 9, SUCCESS_KEY_CREATED |-> 10,
     MESSAGE_SIZE_ERROR |-> 11]

----------------------------------------------------------------------------
(* Message types *)

Int32List == <<Field("list", 1, "int32", "repeated")>>

BoolList == <<Field("list", 1, "bool", "repeated")>>

StringList == <<Field("list", 1, "string", "repeated")>>

ConfigValue_int32val == Field("int32val", 1, "int32", "oneof")

ConfigValue_strval == Field("strval", 2, "string", "oneof")

ConfigValue_boolval == Field("boolval", 3, "bool", "oneof")

ConfigValue_int32list == Message("int32list", 4, Int32List, "oneof")

ConfigValue_boollist == Message("boollist", 5, BoolList, "oneof")

ConfigValue_stringlist == Message("stringlist", 6, StringList, "oneof")

ConfigValue ==
    <<ConfigValue_int32val, ConfigValue_strval, ConfigValue_boolval,
      ConfigValue_int32list, ConfigValue_boollist, ConfigValue_stringlist>>

Set == <<Field("key", 1, "string", "required"),
         Message("value", 2, ConfigValue, "required")>>

Get == <<Field("key", 1, "string", "required")>>

Commit == <<Field("config", 1, "CommitConfig", "optional")>>

Drop == <<>>

FireHooks == <<>>

Rollback == <<Field("id", 1, "uint32", "required")>>

EraseKey == <<Field("key", 1, "string", "required")>>

Reset == <<>>

DumpHooks == <<>>

TriggerHook == <<Field("hook", 1, "string", "required")>>

Blame == <<Field("key", 1, "string", "required")>>

InFlight == <<>>

Command_set == Message("set", 1, Set, "oneof")

Command_get == Message("get", 2, Get, "oneof")

Command_commit == Message("commit", 3, Commit, "oneof")

Command_drop == Message("drop", 4, Drop, "oneof")

Command_firehooks == Message("firehooks", 7, FireHooks, "oneof")

Command_erase == Message("erase", 8, EraseKey, "oneof")

Command_rollback == Message("rollback", 11, Rollback, "oneof")

Command_reset == Message("reset", 12, Reset, "oneof")

Command_dump == Message("dump", 13, DumpHooks, "oneof")

Command_trigger == Message("trigger", 14, TriggerHook, "oneof")

Command_blame == Message("blame", 15, Blame, "oneof")

\* Mutant of Command_inflight: a tag of one byte, as the other members have.
Command_inflightOneByte == Message("inflight", 16, InFlight, "oneof")

\* The only tag of two bytes.
Command_inflight == [Message("inflight", 16, InFlight, "oneof") EXCEPT !.tag = 2]

Command_oneof_payload ==
    <<Command_set, Command_get, Command_commit, Command_drop, Command_firehooks,
      Command_erase, Command_rollback, Command_reset, Command_dump,
      Command_trigger, Command_blame, Command_inflight>>

Command_id == Field("id", 6, "uint32", "required")

Command_xid == Field("xid", 10, "uint32", "optional")

Command == <<Command_id, Command_xid>> \o Command_oneof_payload

MappedField == <<Field("key", 1, "string", "required"),
                 Message("value", 2, ConfigValue, "optional")>>

GetResponse == <<Message("kvs", 1, MappedField, "repeated")>>

CommitResponse == <<Field("commit_id", 1, "uint32", "required")>>

ResetResponse == <<Field("commit_id", 1, "uint32", "optional")>>

DumpResponse == <<Field("templatehooks", 1, "string", "repeated"),
                  Field("servicehooks", 2, "string", "repeated")>>

BlameEntry == <<Field("commit_id", 1, "uint32", "required"),
                Field("commit_time", 2, "string", "required"),
                Message("val", 3, ConfigValue, "required")>>

BlameResponse == <<Field("key", 1, "string", "required"),
                   Message("entries", 2, BlameEntry, "repeated")>>

InFlightResponse == <<Message("kvs", 1, MappedField, "repeated")>>

Response_get == Message("get", 1, GetResponse, "oneof")

Response_commit == Message("commit", 2, CommitResponse, "oneof")

Response_reset == Message("reset", 3, ResetResponse, "oneof")

Response_dump == Message("dump", 4, DumpResponse, "oneof")

Response_blame == Message("blame", 5, BlameResponse, "oneof")

Response_inflight == Message("inflight", 8, InFlightResponse, "oneof")

Response_oneof_payload ==
    <<Response_get, Response_commit, Response_reset, Response_dump,
      Response_blame, Response_inflight>>

Response_id == Field("id", 6, "uint32", "required")

Response_status == Field("status", 7, "StatusCode", "required")

Response == <<Response_id, Response_status>> \o Response_oneof_payload

----------------------------------------------------------------------------
(* Messages: a function from the names of the fields to the sequence of a  *)
(* field's values, which has at most one unless the field is repeated      *)

New(type) == [f \in Names(type) |-> <<>>]

Default(f) ==
    CASE f.kind = "string" -> ""
      [] f.kind = "bool" -> FALSE
      [] IsMessage(f) -> New(f.type)
      [] OTHER -> 0

Has(m, name) == m[name] # <<>>

\* get_x, and what take_x returns.
Value(type, m, name) ==
    IF Has(m, name) THEN Head(m[name]) ELSE Default(FieldNamed(type, name))

\* Storing the values of a field ends those of the other members of its oneof.
Store(type, m, name, values) ==
    (name :> values) @@ [g \in Group(type, name) |-> <<>>] @@ m

\* set_x of a field that is not repeated; Store is the one of a repeated field.
With(type, m, name, value) == Store(type, m, name, <<value>>)

RECURSIVE IsInitialized(_, _)
IsInitialized(type, m) ==
    \A i \in DOMAIN type :
        LET f == type[i] IN
        /\ f.rule = "required" => Has(m, f.name)
        /\ IsMessage(f) =>
              \A v \in Range(m[f.name]) : IsInitialized(f.type, v)

----------------------------------------------------------------------------
(* Writing.  The bytes of a message are a sequence of items of known sizes: *)
(* tags, numbers, and strings with their lengths.                          *)

\* A negative int32 is sign-extended to 64 bits.
VarintSize(n) ==
    IF n < 0 THEN 10 ELSE 1 + Cardinality({k \in 1..4 : n >= 128 ^ k})

StringSize(s) == VarintSize(StrLen[s]) + StrLen[s]

TagSize(number) == VarintSize(8 * number)

WireType(f) ==
    IF IsMessage(f) \/ f.kind = "string" THEN "LengthDelimited" ELSE "Varint"

Tag(f) == [size |-> TagSize(f.number), number |-> f.number, wire |-> WireType(f)]

Varint(n) == [size |-> VarintSize(n), value |-> n]

Text(s) == [size |-> StringSize(s), text |-> s]

Plus(a, b) == a + b

Sum(s) == FoldFunction(Plus, 0, s)

ByteCount(items) == Sum([i \in DOMAIN items |-> items[i].size])

RECURSIVE ComputeSize(_, _)
\* What compute_size adds for one value of a field.
ValueSize(f, v) ==
    CASE IsMessage(f) ->
            LET size == ComputeSize(f.type, v) IN f.tag + VarintSize(size) + size
      [] f.kind = "bool" -> f.tag + 1
      [] f.kind = "string" -> TagSize(f.number) + StringSize(v)
      [] OTHER -> TagSize(f.number) + VarintSize(v)

\* compute_size also leaves the size of each message in its cached_size.
ComputeSize(type, m) ==
    LET FieldSize(f) == Sum([i \in DOMAIN m[f.name] |-> ValueSize(f, m[f.name][i])])
    IN  Sum([i \in DOMAIN type |-> FieldSize(type[i])])

Then(a, b) == a \o b

Joined(seqs) == FoldLeft(Then, <<>>, seqs)

\* write_to_with_cached_sizes: the length of a nested message is its
\* cached_size, which compute_size has set.
RECURSIVE WriteTo(_, _)
WriteTo(type, m) ==
    LET Item(f, v) ==
            CASE IsMessage(f) ->
                    <<Tag(f), Varint(ComputeSize(f.type, v))>> \o WriteTo(f.type, v)
              [] f.kind = "string" -> <<Tag(f), Text(v)>>
              [] f.kind = "bool" -> <<Tag(f), Varint(IF v THEN 1 ELSE 0)>>
              [] OTHER -> <<Tag(f), Varint(v)>>
        Items(f) == Joined([i \in DOMAIN m[f.name] |-> Item(f, m[f.name][i])])
    IN  Joined([i \in DOMAIN type |-> Items(type[i])])

----------------------------------------------------------------------------
(* Reading.  The result is the set of the message that was read: it is     *)
(* empty if there is an error.                                             *)

\* How many items make up n bytes, if the end falls between two items.
Fitting(items, n) ==
    {k \in 0..Len(items) : ByteCount(SubSeq(items, 1, k)) = n}

\* The field whose number and wire type a tag has.
Expected(type, tag) ==
    {f \in Range(type) : f.number = tag.number /\ WireType(f) = tag.wire}

\* A repeated field appends, any other one replaces what was there.
Stored(type, m, f, v) ==
    Store(type, m, f.name,
          IF f.rule = "repeated" THEN Append(m[f.name], v) ELSE <<v>>)

\* What a nested message is read into: a new one, unless it is singular.
Target(type, m, f) ==
    IF f.rule \in {"oneof", "repeated"} THEN New(f.type) ELSE Value(type, m, f.name)

RECURSIVE MergeFrom(_, _, _)
\* A value of the field behind its tag, and how many items it has.
ReadValue(type, m, f, items) ==
    CASE IsMessage(f) ->
            UNION {{[value |-> v, items |-> k + 1] :
                       v \in MergeFrom(f.type, Target(type, m, f), SubSeq(items, 2, k + 1))}
                   : k \in Fitting(Tail(items), items[1].value)}
      [] f.kind = "string" -> {[value |-> items[1].text, items |-> 1]}
      [] f.kind = "bool" -> {[value |-> items[1].value # 0, items |-> 1]}
      [] OTHER -> {[value |-> items[1].value, items |-> 1]}

MergeFrom(type, m, items) ==
    IF items = <<>> THEN {m}
    ELSE UNION {UNION {
            MergeFrom(type, Stored(type, m, f, r.value),
                      SubSeq(items, r.items + 2, Len(items)))
            : r \in ReadValue(type, m, f, Tail(items))}
            : f \in Expected(type, Head(items))}

\* Of the library: parse_from_bytes.
ParseFromBytes(type, items) ==
    {m \in MergeFrom(type, New(type), items) : IsInitialized(type, m)}

============================================================================
