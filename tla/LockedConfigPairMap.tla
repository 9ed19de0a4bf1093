------------------------ MODULE LockedConfigPairMap ------------------------
(***************************************************************************)
(* The in-flight buckets of src/src/LockedConfigPairMap.cpp: for each      *)
(* client id the list of the pairs it has staged, and a lock that is set   *)
(* while the bucket is being committed.                                    *)
(***************************************************************************)
EXTENDS ConfigTypes, SizeAgeBoundMap

Bucket == [list : Seq(Pair), locked : BOOLEAN]

Exists(m, b) == Count(m, b)

IsBucketLocked(m, b) == Exists(m, b) /\ m.items[b].locked

\* The pairs of a bucket; an absent bucket has none.
GetBucket(m, b) == IF Exists(m, b) THEN m.items[b].list ELSE <<>>

\* One Insert per element of pairs.  The first creates the bucket if it is
\* absent, unlocked; none looks at the lock.
Insert(m, b, pairs) ==
    IF pairs = <<>>
    THEN m
    ELSE LET r == MapInsert(m, b, [list |-> <<>>, locked |-> FALSE])
         IN  MapUpdate(r, b, [list   |-> r.items[b].list \o pairs,
                              locked |-> r.items[b].locked])

Drop(m, b) == IF Exists(m, b) THEN MapErase(m, b) ELSE m

LockBucket(m, b) ==
    MapUpdate(m, b, [list |-> m.items[b].list, locked |-> TRUE])

\* Mutant of ErasedKeys: a wildcard is staged as if it were a key.
ErasedKeysUnexpanded(stored, pattern) == {pattern}

\* The keys that Erase(pattern) marks as erased: the key itself, or the
\* stored keys that match a wildcard, "last." and "default." keys excepted.
ErasedKeys(stored, pattern) ==
    IF IsWildcard(pattern)
    THEN {k \in stored : SubkeyMatches(k, pattern) /\ ~IsReserved(k)}
    ELSE {pattern}

----------------------------------------------------------------------------
\* Reading a list of pairs in order.

Touches(list, k) == \E i \in DOMAIN list : list[i].key = k

\* The last pair wins: the merge of PruneUnchangedValues, and the result of
\* MemoryCache::UpdateItems and of LocalYAMLStorage::GroupSet for one key.
IsLastWrite(list, k, i) ==
    /\ list[i].key = k
    /\ \A j \in DOMAIN list : list[j].key = k => j <= i

LastWrite(list, k) ==
    list[CHOOSE i \in DOMAIN list : IsLastWrite(list, k, i)].value

============================================================================
