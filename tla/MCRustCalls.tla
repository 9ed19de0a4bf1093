---------------------------- MODULE MCRustCalls ----------------------------
(* Instances of RustCalls: strings, numbers and lists around the sizes at   *)
(* which a length or a number takes another byte                           *)
EXTENDS RustCalls

MCStrLen ==
    [s \in {"", "k", "near", "over", "far", "on", "off", "any"} |->
        CASE s = "" -> 0
          [] s = "k" -> 1
          [] s = "near" -> 122      \* a Set of it and a small value is 127 or 128 bytes
          [] s = "over" -> 128
          [] s = "far" -> 16384
          [] OTHER -> 3]

Upto2(S) == {<<>>} \cup {<<a>> : a \in S} \cup {<<a, b>> : a \in S, b \in S}

MCInts == {-1, 0, 127, 128}

MCTexts == {"", "k", "near", "over", "far"}

MCValues ==
    {[Int32 |-> n] : n \in MCInts} \cup {[Strval |-> s] : s \in MCTexts}
    \cup {[Bool |-> b] : b \in BOOLEAN}
    \cup {[Int32List |-> l] : l \in Upto2({-1, 128})}
    \cup {[BoolList |-> l] : l \in Upto2(BOOLEAN)}
    \cup {[StrvalList |-> l] : l \in Upto2({"", "near"})}

\* "any" stands for a key with a wildcard.
MCRefused == {"any"}

MCCommands ==
    {[name |-> "Set", key |-> k, value |-> v] : k \in MCTexts \cup MCRefused, v \in MCValues}
    \cup {[name |-> "Commit", config |-> c] : c \in DOMAIN CommitConfig}
    \cup {[name |-> n, key |-> k] : n \in {"EraseKey", "Get", "Blame"},
                                         k \in MCTexts \cup MCRefused}
    \cup {[name |-> "TriggerHook", hook |-> "on"]}
    \cup {[name |-> "Rollback", id |-> n] : n \in {0, 128}}
    \cup {[name |-> n] : n \in {"Drop", "FireHooks", "Reset", "DumpHooks", "InFlight"}}

MCNumbers == {0, 16384}

Unlisted == {[Int32 |-> -1], [Strval |-> "over"], [Bool |-> FALSE],
             [Int32List |-> <<>>], [BoolList |-> <<TRUE>>], [StrvalList |-> <<"", "k">>]}

MCListings ==
    Upto2({[key |-> "k", value |-> v] : v \in Unlisted \cup {NoValue}})

MCHistories ==
    Upto2({[commit_id |-> 128, commit_time |-> "over", val |-> v] :
              v \in Unlisted \cup {NoValue}})

MCHookNames == {<<>>, <<"on">>, <<"on", "off">>}

============================================================================
