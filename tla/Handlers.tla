------------------------------ MODULE Handlers ------------------------------
(***************************************************************************)
(* The handlers of SysAdminController.cpp with ProtobufTranslator.cpp, as  *)
(* far as they turn a message into calls of the configurator and of the    *)
(* hooks, and what these return into a message.                            *)
(*                                                                         *)
(* A request is what a handler passes on and an answer what it gets back,  *)
(* with the names of the Rust structs' fields; the daemon's empty value is *)
(* NoValue.                                                                *)
(***************************************************************************)
EXTENDS Bindings

CONSTANT RefusedKeys  \* the keys with a wildcard, and those that match last.*

NoValue == [Empty |-> TRUE]

----------------------------------------------------------------------------
(* Requests *)

\* The handler that is registered for each member of payload.
HandlerFor ==
    [set |-> "Set", get |-> "Get", commit |-> "Commit", drop |-> "Drop",
     firehooks |-> "FireHooks", erase |-> "EraseKey", rollback |-> "Rollback",
     reset |-> "Reset", dump |-> "DumpHooks", trigger |-> "TriggerHook",
     blame |-> "Blame", inflight |-> "InFlight"]

Variant ==
    [int32val |-> "Int32", strval |-> "Strval", boolval |-> "Bool",
     int32list |-> "Int32List", boollist |-> "BoolList", stringlist |-> "StrvalList"]

\* Empty if the command cannot be translated.
TranslateToSet(set) ==
    LET cv == Value(Set, set, "value")
        Unwrapped(f) == IF IsMessage(f) THEN Value(ConfigValue, cv, f.name).list
                        ELSE Value(ConfigValue, cv, f.name)
    IN  {[key |-> Value(Set, set, "key"), value |-> Variant[f.name] :> Unwrapped(f)] :
            f \in {g \in Range(ConfigValue) : Has(cv, g.name)}}

\* What the handlers take from the member of payload.
Arguments(name, buf) ==
    CASE name = "Set" -> TranslateToSet(buf)
      [] name = "Commit" -> {[config |-> Value(Commit, buf, "config")]}
      [] name \in {"EraseKey", "Get", "Blame"} -> {[key |-> Value(Get, buf, "key")]}
      [] name = "Rollback" -> {[id |-> Value(Rollback, buf, "id")]}
      [] name = "TriggerHook" -> {[hook |-> Value(TriggerHook, buf, "hook")]}
      [] OTHER -> {<<>>}

\* The assertion of SubkeyMatches, with which SetHandler looks for last.*: the
\* empty key has no sub-key.
Asserts(name, arg) == name = "Set" /\ arg.key = ""

\* SetHandler answers INVALID_KEY before it looks at the xid.
Refuses(name, arg) == name = "Set" /\ arg.key \in RefusedKeys

\* The buckets of in-flight pairs that a handler works on: ResetHandler alone
\* takes the connection's number whether or not there is an xid.
Buckets(name, arg, m, connection) ==
    CASE Refuses(name, arg) -> {}
      [] name \in {"Set", "Commit", "Drop", "EraseKey", "InFlight"} ->
            {IF Has(m, "xid") THEN Value(Command, m, "xid") ELSE connection}
      [] name = "Reset" -> {connection}
      [] OTHER -> {}

\* OneofDispatcher: the handlers of a message, with the arguments.
Calls(m) ==
    UNION {{[name |-> HandlerFor[f], arg |-> arg] :
               arg \in Arguments(HandlerFor[f], Value(Command, m, f))} :
           f \in {g \in DOMAIN HandlerFor : Has(m, g)}}

\* The handler up to its calls, if it gets there.
Requests(m, connection) ==
    {[name |-> c.name, buckets |-> Buckets(c.name, c.arg, m, connection)] @@ c.arg :
        c \in {d \in Calls(m) : ~Asserts(d.name, d.arg)}}

\* A handler that does not get there takes the daemon with it.
AbortsOn(m) == \E c \in Calls(m) : Asserts(c.name, c.arg)

----------------------------------------------------------------------------
(* Answers *)

\* An empty value sets no field.
CopyConfigValue(v) ==
    IF v = NoValue THEN New(ConfigValue) ELSE ConfigValueFrom(v)

\* One element of kvs.
Kv(pair) ==
    LET m == With(MappedField, New(MappedField), "key", pair.key) IN
    IF pair.value = NoValue THEN m
    ELSE With(MappedField, m, "value", CopyConfigValue(pair.value))

\* A listing that is not in flight skips the empty values.
TranslateFromGet(pairs) ==
    LET listed == SelectSeq(pairs, LAMBDA p : p.value # NoValue) IN
    Store(GetResponse, New(GetResponse), "kvs",
          [i \in DOMAIN listed |-> Kv(listed[i])])

TranslateFromInFlight(pairs) ==
    Store(InFlightResponse, New(InFlightResponse), "kvs",
          [i \in DOMAIN pairs |-> Kv(pairs[i])])

\* val is made for every delta, also for one that erased the key.
TranslateFromBlame(key, deltas) ==
    LET Entry(d) ==
            With(BlameEntry,
                 With(BlameEntry,
                      With(BlameEntry, New(BlameEntry), "commit_id", d.commit_id),
                      "commit_time", d.commit_time),
                 "val", CopyConfigValue(d.val))
    IN  Store(BlameResponse, With(BlameResponse, New(BlameResponse), "key", key),
              "entries", [i \in DOMAIN deltas |-> Entry(deltas[i])])

DumpedHooks(a) ==
    Store(DumpResponse,
          Store(DumpResponse, New(DumpResponse), "templatehooks", a.templatehooks),
          "servicehooks", a.servicehooks)

\* The message of an answer to a request with an id.
ResponseMessage(id, request, a) ==
    LET name == request.name
        plain == With(Response, With(Response, New(Response), "id", id),
                      "status", StatusCode[a.status])
        Payload(f, m) == With(Response, plain, f, m)
    IN  CASE name = "Get" \/ (name = "Set" /\ a.kvs # <<>>) ->
                Payload("get", TranslateFromGet(a.kvs))
          [] name = "Commit" ->
                Payload("commit", With(CommitResponse, New(CommitResponse),
                                       "commit_id", a.commit_id))
          [] name = "Reset" /\ a.status # "TYPE_MISMATCH" ->
                Payload("reset", With(ResetResponse, New(ResetResponse),
                                      "commit_id", a.commit_id))
          [] name = "DumpHooks" -> Payload("dump", DumpedHooks(a))
          [] name = "Blame" -> Payload("blame", TranslateFromBlame(request.key, a.entries))
          [] name = "InFlight" -> Payload("inflight", TranslateFromInFlight(a.kvs))
          [] OTHER -> plain

=============================================================================
