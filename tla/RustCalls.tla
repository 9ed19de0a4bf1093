----------------------------- MODULE RustCalls -----------------------------
(***************************************************************************)
(* What becomes of a command and of its answer between a caller of the     *)
(* Rust client and the handlers of the daemon: request, send and           *)
(* send_command of src/clients/rust/src/lib.rs at one end, the dispatcher  *)
(* and the handlers at the other, and the bytes between them.              *)
(*                                                                         *)
(* Each call finds a healthy connection: RustClient is about the others.   *)
(***************************************************************************)
EXTENDS Handlers

CONSTANTS
    Commands,      \* the commands that callers make
    Xids, Ids,     \* the numbers a client may have
    Connection,    \* the number of the daemon's end of the connection
    CommitIds,     \* the commit ids that the daemon gives out
    Listings,      \* the pairs, in order, that it may list; Empty ones included
    Histories,     \* the deltas of a key, in order, that it may list
    HookNames      \* the lists of hooks that it may dump

VARIABLES
    phase,         \* how far the call is
    call,          \* the command, and the numbers of the client
    wire,          \* the bytes under way
    understood,    \* the request the handler made of it
    answer,        \* what it was answered
    result         \* what the caller has: Ok of a struct, or Err

vars == <<phase, call, wire, understood, answer, result>>

Nothing == <<>>

Err == [err |-> TRUE]

Init ==
    /\ phase = "idle"
    /\ call = Nothing
    /\ wire = <<>>
    /\ understood = Nothing
    /\ answer = Nothing
    /\ result = Nothing

----------------------------------------------------------------------------

\* The two assertions of send.
SendAsserts(m) ==
    /\ IsInitialized(Command, m)
    /\ ComputeSize(Command, m) = ByteCount(WriteTo(Command, m))

\* send_command, request and the first half of send: a failed assertion is a
\* panic of the caller, and the client is left as it was.
Send(cmd, xid, id) ==
    /\ phase = "idle"
    /\ LET m == RequestMessage(xid, id, cmd) IN
       /\ phase' = IF SendAsserts(m) THEN "sent" ELSE "panicked"
       /\ wire' = IF SendAsserts(m) THEN WriteTo(Command, m) ELSE <<>>
    /\ call' = [cmd |-> cmd, xid |-> xid, id |-> id]
    /\ UNCHANGED <<understood, answer, result>>

\* The daemon parses a frame and runs the handler as far as its calls.
Dispatch ==
    /\ phase = "sent"
    /\ understood' \in UNION {Requests(m, Connection) : m \in ParseFromBytes(Command, wire)}
    /\ phase' = "dispatched"
    /\ UNCHANGED <<call, wire, answer, result>>

Statuses(names) == {[status |-> s] : s \in names}

\* A listing that has no erased key: the store keeps none.
IsStored(listing) == \A i \in DOMAIN listing : listing[i].value # NoValue

\* PruneUnchangedValues asserts as SetHandler does, and Erase may have staged the
\* empty key in the bucket that the request commits.
MayAssert(request) == request.name \in {"Commit", "Reset", "Rollback"}

\* The daemon fails an assertion, and its connections are closed.
Abort ==
    /\ \/ phase = "sent" /\ \E m \in ParseFromBytes(Command, wire) : AbortsOn(m)
       \/ phase = "dispatched" /\ MayAssert(understood)
    /\ phase' = "aborted"
    /\ wire' = <<>>
    /\ UNCHANGED <<call, understood, answer, result>>

\* What the configurator and the hook manager may return to a handler.
Answers(request) ==
    CASE Refuses(request.name, request) -> {[status |-> "INVALID_KEY", kvs |-> <<>>]}
      [] request.name = "Set" ->
            {[status |-> s, kvs |-> <<>>] : s \in {"TYPE_MISMATCH", "LOCKED_QUEUE"}}
            \cup {[status |-> s, kvs |-> <<[key |-> request.key, value |-> request.value]>>] :
                s \in {"SUCCESS", "SUCCESS_KEY_CREATED"}}
      [] request.name = "Get" ->
            {[status |-> IF l = <<>> THEN "KEY_NOT_FOUND" ELSE "SUCCESS", kvs |-> l] :
                l \in {k \in Listings : IsStored(k)}}
      [] request.name = "Commit" ->
            {[status |-> s, commit_id |-> n] :
                s \in {"SUCCESS", "EXTERNAL_PROCESS_ERROR"}, n \in CommitIds}
      [] request.name \in {"Drop", "EraseKey"} -> Statuses({"SUCCESS"})
      [] request.name = "FireHooks" -> Statuses({"SUCCESS", "EXTERNAL_PROCESS_ERROR"})
      [] request.name = "Rollback" ->
            Statuses({"SUCCESS", "FAILED_ROLLBACK", "EXTERNAL_PROCESS_ERROR"})
      [] request.name = "Reset" ->
            {[status |-> s, commit_id |-> n] :
                s \in {"SUCCESS", "EXTERNAL_PROCESS_ERROR", "TYPE_MISMATCH"},
                n \in CommitIds}
      [] request.name = "DumpHooks" ->
            {[status |-> "SUCCESS", templatehooks |-> t, servicehooks |-> s] :
                t \in HookNames, s \in HookNames}
      [] request.name = "TriggerHook" ->
            Statuses({"SUCCESS", "HOOK_NOT_FOUND", "EXTERNAL_PROCESS_ERROR"})
      [] request.name = "Blame" ->
            {[status |-> "SUCCESS", entries |-> h] : h \in Histories}
            \cup {[status |-> "KEY_NOT_FOUND", entries |-> <<>>]}
      [] request.name = "InFlight" ->
            {[status |-> "SUCCESS", kvs |-> l] : l \in Listings}

\* The rest of the handler.
Answer ==
    /\ phase = "dispatched"
    /\ \E a \in Answers(understood) :
          /\ answer' = a
          /\ wire' = WriteTo(Response, ResponseMessage(call.id, understood, a))
    /\ phase' = "answered"
    /\ UNCHANGED <<call, understood, result>>

\* The end of send, and the conversion into the command's response.
Return ==
    /\ phase = "answered"
    /\ LET parsed == ParseFromBytes(Response, wire)
           structs == UNION {ResultFrom(call.cmd, r) : r \in parsed}
       IN  IF parsed = {} THEN phase' = "returned" /\ result' = Err
           ELSE IF structs = {} THEN phase' = "panicked" /\ result' = Nothing
           ELSE phase' = "returned" /\ result' \in structs
    /\ wire' = <<>>
    /\ UNCHANGED <<call, understood, answer>>

\* The end of send when the connection closes instead.
ReadFails ==
    /\ phase = "aborted"
    /\ phase' = "returned"
    /\ result' = Err
    /\ UNCHANGED <<call, wire, understood, answer>>

\* The caller has what it asked for, and the client is ready for another call.
Finish ==
    /\ phase \in {"returned", "panicked"}
    /\ phase' = "idle"
    /\ call' = Nothing
    /\ understood' = Nothing
    /\ answer' = Nothing
    /\ result' = Nothing
    /\ UNCHANGED wire

Next ==
    \/ \E cmd \in Commands, xid \in Xids, id \in Ids : Send(cmd, xid, id)
    \/ Dispatch
    \/ Abort
    \/ Answer
    \/ Return
    \/ ReadFails
    \/ Finish

Spec == Init /\ [][Next]_vars

----------------------------------------------------------------------------
(* Properties *)

Erased(entries) == \E i \in DOMAIN entries : entries[i].val = NoValue

\* The assertions of send hold for every command, whatever its size, and no
\* answer makes the caller panic but one: the blame of a key that was erased,
\* whose entry has a value without any field.
PanicsOnlyOnErasedBlame ==
    phase = "panicked" =>
        call.cmd.name = "Blame" /\ answer # Nothing /\ Erased(answer.entries)

WorksOnBucket(cmd) ==
    \/ cmd.name \in {"Commit", "Drop", "EraseKey", "InFlight", "Reset"}
    \/ cmd.name = "Set" /\ cmd.key \notin RefusedKeys

\* The handler of the command that was called runs, unless it is a Set of the
\* empty key, with the arguments the caller gave, and on the bucket of the
\* client's xid if it works on one: a Set of a key that it refuses works on
\* none, and a reset on the connection's.
RequestArrives ==
    phase \in {"dispatched", "answered"} =>
        LET sent == IF call.cmd.name = "Commit"
                    THEN [call.cmd EXCEPT !.config = CommitConfig[@]] ELSE call.cmd
        IN  /\ \A f \in DOMAIN sent : understood[f] = sent[f]
            /\ DOMAIN understood = DOMAIN sent \cup {"buckets"}
            /\ understood.buckets \subseteq
                   {IF sent.name = "Reset" THEN Connection ELSE call.xid}
            /\ WorksOnBucket(sent) => understood.buckets # {}

\* The pairs of a listing as the struct kvs has them.
AsKvs(listing) ==
    [i \in DOMAIN listing |->
        [key |-> listing[i].key,
         value |-> IF listing[i].value = NoValue THEN <<>> ELSE <<listing[i].value>>]]

\* The caller is told its own id, the status and all that the handler was
\* given: every pair, delta and hook in its order, and the commit id of a
\* commit that failed too.  The pairs in flight are left to InFlightIsTold.
IsTold ==
    /\ result.id = call.id
    /\ result.status = answer.status
    /\ call.cmd.name = "Get" => result.kvs = AsKvs(answer.kvs)
    /\ call.cmd.name = "Commit" => result.commit_id = <<answer.commit_id>>
    /\ call.cmd.name = "Reset" =>
          result.commit_id =
              IF answer.status = "TYPE_MISMATCH" THEN 0 ELSE answer.commit_id
    /\ call.cmd.name = "DumpHooks" =>
          /\ result.templatehooks = answer.templatehooks
          /\ result.servicehooks = answer.servicehooks
    /\ call.cmd.name = "Blame" => result.entries = answer.entries

SetsEmptyKey(cmd) == cmd.name = "Set" /\ cmd.key = ""

\* The caller gets an error when the daemon aborted, which it does for every
\* Set of the empty key and may do for a request that commits, and for no
\* other; otherwise it is told all of the answer.
AnswerSurvives ==
    phase = "returned" =>
        /\ result = Err <=> answer = Nothing
        /\ result = Err => SetsEmptyKey(call.cmd) \/ MayAssert(call.cmd)
        /\ SetsEmptyKey(call.cmd) => result = Err
        /\ result # Err => IsTold

\* The pairs in flight that the daemon lists are those the caller is told.  It
\* does not hold: the response is made of the member get, which is not there.
InFlightIsTold ==
    phase = "returned" /\ call.cmd.name = "InFlight" =>
        result.kvs = AsKvs(answer.kvs)

============================================================================
