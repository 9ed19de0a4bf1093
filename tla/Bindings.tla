------------------------------ MODULE Bindings ------------------------------
(***************************************************************************)
(* The commands and responses of src/clients/rust/src/lib.rs, and how they *)
(* become messages and are made of messages.                               *)
(*                                                                         *)
(* A value is a record with one field, named for the variant of            *)
(* SysadminValue.                                                          *)
(***************************************************************************)
EXTENDS SysadminCtl

Is(value, variant) == variant \in DOMAIN value

----------------------------------------------------------------------------
(* The Rust commands *)

\* From<SysadminValue> for sysadminctl::ConfigValue
ConfigValueFrom(v) ==
    LET cv == New(ConfigValue)
        List(type, list) == Store(type, New(type), "list", list)
    IN  CASE Is(v, "Int32") -> With(ConfigValue, cv, "int32val", v.Int32)
          [] Is(v, "Strval") -> With(ConfigValue, cv, "strval", v.Strval)
          [] Is(v, "Bool") -> With(ConfigValue, cv, "boolval", v.Bool)
          [] Is(v, "Int32List") ->
                With(ConfigValue, cv, "int32list", List(Int32List, v.Int32List))
          [] Is(v, "BoolList") ->
                With(ConfigValue, cv, "boollist", List(BoolList, v.BoolList))
          [] Is(v, "StrvalList") ->
                With(ConfigValue, cv, "stringlist", List(StringList, v.StrvalList))

\* The member of the oneof into which Payload puts a command.
PayloadField ==
    [Set |-> "set", Get |-> "get", Commit |-> "commit", Drop |-> "drop",
     FireHooks |-> "firehooks", EraseKey |-> "erase", Rollback |-> "rollback",
     Reset |-> "reset", DumpHooks |-> "dump", TriggerHook |-> "trigger",
     Blame |-> "blame", InFlight |-> "inflight"]

BufType(name) == FieldNamed(Command, PayloadField[name]).type

\* into_buf of Set
SetBuf(cmd) ==
    With(Set, With(Set, New(Set), "key", cmd.key), "value", ConfigValueFrom(cmd.value))

\* into_buf of Commit, with From<CommitConfig>
CommitBuf(cmd) == With(Commit, New(Commit), "config", CommitConfig[cmd.config])

\* no_arg_command!: Drop, FireHooks, Reset, DumpHooks, InFlight
NoArgBuf(cmd) == New(BufType(cmd.name))

\* single_arg_command!, and the name of the argument
ArgName == [EraseKey |-> "key", TriggerHook |-> "hook", Blame |-> "key",
            Get |-> "key", Rollback |-> "id"]

SingleArgBuf(cmd) ==
    LET type == BufType(cmd.name)
        arg == ArgName[cmd.name]
    IN  With(type, New(type), arg, cmd[arg])

IntoBuf(cmd) ==
    CASE cmd.name = "Set" -> SetBuf(cmd)
      [] cmd.name = "Commit" -> CommitBuf(cmd)
      [] cmd.name \in DOMAIN ArgName -> SingleArgBuf(cmd)
      [] OTHER -> NoArgBuf(cmd)

\* Mutant of MakeCommand: the transaction id is left out.
MakeCommandWithoutXid(xid, id) == With(Command, New(Command), "id", id)

MakeCommand(xid, id) ==
    With(Command, With(Command, New(Command), "xid", xid), "id", id)

\* SysadminClient::request, up to send
RequestMessage(xid, id, cmd) ==
    With(Command, MakeCommand(xid, id), PayloadField[cmd.name], IntoBuf(cmd))

----------------------------------------------------------------------------
(* The Rust responses: the set of the struct, empty if the conversion       *)
(* panics.  An Option is a sequence of at most one element.                *)

\* From<sysadminctl::ConfigValue> for SysadminValue
SysadminValueFrom(cv) ==
    LET List(type, name) == Value(ConfigValue, cv, name).list IN
    CASE Has(cv, "int32val") -> {[Int32 |-> Value(ConfigValue, cv, "int32val")]}
      [] Has(cv, "strval") -> {[Strval |-> Value(ConfigValue, cv, "strval")]}
      [] Has(cv, "boolval") -> {[Bool |-> Value(ConfigValue, cv, "boolval")]}
      [] Has(cv, "int32list") -> {[Int32List |-> List(Int32List, "int32list")]}
      [] Has(cv, "boollist") -> {[BoolList |-> List(BoolList, "boollist")]}
      [] Has(cv, "stringlist") -> {[StrvalList |-> List(StringList, "stringlist")]}
      [] OTHER -> {}

\* into_iter().map(From): panics if one of the conversions does.
Mapped(From(_), s) ==
    {[i \in DOMAIN s |-> CHOOSE x \in From(s[i]) : TRUE] :
        all \in {TRUE} \cap {\A i \in DOMAIN s : From(s[i]) # {}}}

\* From<sysadminctl::StatusCode> for StatusCode
StatusFrom(n) == CHOOSE name \in DOMAIN StatusCode : StatusCode[name] = n

GenericResponseFrom(r) ==
    [id |-> Value(Response, r, "id"), status |-> StatusFrom(Value(Response, r, "status"))]

KvsFrom(m) ==
    IF Has(m, "value")
    THEN {[key |-> Value(MappedField, m, "key"), value |-> <<v>>] :
             v \in SysadminValueFrom(Value(MappedField, m, "value"))}
    ELSE {[key |-> Value(MappedField, m, "key"), value |-> <<>>]}

GetResponseFrom(r) ==
    {GenericResponseFrom(r) @@ [kvs |-> kvs] :
        kvs \in Mapped(KvsFrom, Value(Response, r, "get").kvs)}

\* Mutant of CommitResponseFrom: a commit that failed has no commit id.
CommitResponseFromSuccess(r) ==
    LET g == GenericResponseFrom(r) IN
    {g @@ [commit_id |-> IF g.status = "SUCCESS"
                         THEN Value(Response, r, "commit").commit_id ELSE <<>>]}

CommitResponseFrom(r) ==
    {GenericResponseFrom(r)
        @@ [commit_id |-> Value(Response, r, "commit").commit_id]}

ResetResponseFrom(r) ==
    {GenericResponseFrom(r)
        @@ [commit_id |-> Value(ResetResponse, Value(Response, r, "reset"), "commit_id")]}

DumpResponseFrom(r) ==
    {GenericResponseFrom(r) @@ Value(Response, r, "dump")}

BlameEntryFrom(m) ==
    {[commit_id |-> Value(BlameEntry, m, "commit_id"),
      commit_time |-> Value(BlameEntry, m, "commit_time"), val |-> v] :
        v \in SysadminValueFrom(Value(BlameEntry, m, "val"))}

BlameResponseFrom(r) ==
    {GenericResponseFrom(r) @@ [entries |-> entries] :
        entries \in Mapped(BlameEntryFrom, Value(Response, r, "blame").entries)}

\* It takes the member get, where the daemon fills inflight.
InFlightResponseFrom(r) ==
    {GenericResponseFrom(r) @@ [kvs |-> kvs] :
        kvs \in Mapped(KvsFrom, Value(Response, r, "get").kvs)}

\* The type that send_command of a command returns.
ResultFrom(cmd, r) ==
    CASE cmd.name = "Get" -> GetResponseFrom(r)
      [] cmd.name = "Commit" -> CommitResponseFrom(r)
      [] cmd.name = "Reset" -> ResetResponseFrom(r)
      [] cmd.name = "DumpHooks" -> DumpResponseFrom(r)
      [] cmd.name = "Blame" -> BlameResponseFrom(r)
      [] cmd.name = "InFlight" -> InFlightResponseFrom(r)
      [] OTHER -> {GenericResponseFrom(r)}

=============================================================================
