-------------------------- MODULE LocalYAMLStorage --------------------------
(***************************************************************************)
(* The key/value files of src/src/LocalYAMLStorage.cpp.  All keys with the *)
(* same parent key share one YAML file, in which the last sub-key names    *)
(* the entry.  A disk is a function from the slots, that is the pairs of a *)
(* file and an entry name, to the entries: Absent, a value, or Empty for   *)
(* an entry of type NULL.                                                  *)
(***************************************************************************)
EXTENDS LockedConfigPairMap, SequencesExt

CONSTANTS
    Absent,    \* no such entry in the file
    FileOrder  \* the files, in the order of their paths

\* TranslateKeyToPathPair
Slot(k) == [file |-> IF Len(k) = 1 THEN <<"global">> ELSE Front(k), name |-> Last(k)]

\* TranslatePathToKey: every path element "global" is skipped.
SlotKey(s) == SelectSeq(s.file, LAMBDA e : e # "global") \o <<s.name>>

Slots == {Slot(k) : k \in Key}

\* No two keys share an entry.  A key with a sub-key "global" may share one,
\* with the key that TranslatePathToKey reads from its path.
NoKeyAliases == \A k \in Key : SlotKey(Slot(k)) = k

ASSUME FileAssumption ==
    /\ IsInjective(FileOrder)
    /\ {s.file : s \in Slots} \subseteq Range(FileOrder)
    /\ \A s \in Slots : SlotKey(s) \in Key
    /\ Absent \notin MaybeValue

\* Mutant of WriteEntry: an empty pair does not remove the entry.
WriteEntryIgnoringErase(entry, v) == IF v = Empty THEN entry ELSE v

\* GroupSet on one entry: an empty pair removes an entry that is there and
\* otherwise writes the pair, so that an empty pair for a missing entry leaves
\* an entry of type NULL.
WriteEntry(entry, v) == IF v = Empty /\ entry # Absent THEN Absent ELSE v

\* The entry of slot s after GroupSet has gone through pairs.
EntryAfter(entry, pairs, s) ==
    LET after[i \in 0..Len(pairs)] ==
            IF i = 0 THEN entry
            ELSE IF Slot(pairs[i].key) = s
                 THEN WriteEntry(after[i - 1], pairs[i].value)
                 ELSE after[i - 1]
    IN  after[Len(pairs)]

\* GroupSet rewrites the files that hold one of the pairs, in their order.
IsTouched(pairs, file) == \E i \in DOMAIN pairs : Slot(pairs[i].key).file = file

\* The disk when the given files have been rewritten, as far as the pairs
\* touch them.
Rewrite(disk, pairs, files) ==
    [s \in Slots |-> IF s.file \in files /\ IsTouched(pairs, s.file)
                     THEN EntryAfter(disk[s], pairs, s)
                     ELSE disk[s]]

GroupSet(disk, pairs) == Rewrite(disk, pairs, Range(FileOrder))

\* The disk when one file has been opened with O_TRUNC and not been written.
Truncate(disk, file) == [s \in Slots |-> IF s.file = file THEN Absent ELSE disk[s]]

\* GetAll: the entries with a value, under the key that their place spells.
GetAll(disk) ==
    [k \in Key |->
        LET found == {s \in Slots : SlotKey(s) = k /\ disk[s] \in Value}
        IN  IF found = {} THEN Empty ELSE disk[CHOOSE s \in found : TRUE]]

============================================================================
