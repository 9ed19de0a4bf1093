-------------------------- MODULE SizeAgeBoundMap --------------------------
(***************************************************************************)
(* The bounded map of src/src/SizeAgeBoundMap.h: when it is full, inserting *)
(* a new key first throws the oldest entry out.  A map is a record of its  *)
(* entries (mItems) and of the keys in the order of insertion (mHistory);  *)
(* mLookups is the position of a key in that order.                        *)
(***************************************************************************)
EXTENDS Naturals, Sequences, FiniteSets, Functions

CONSTANT MaxSize  \* mMaxSize

ASSUME MaxSizeAssumption == MaxSize \in Nat \ {0}

EmptyMap == [items |-> [k \in {} |-> 0], history |-> <<>>]

Count(m, k) == k \in DOMAIN m.items

Without(f, k) == [j \in DOMAIN f \ {k} |-> f[j]]

AgeOut(m) ==
    [items |-> Without(m.items, Head(m.history)), history |-> Tail(m.history)]

MakeRoom(m) == IF Cardinality(DOMAIN m.items) >= MaxSize THEN AgeOut(m) ELSE m

\* The map after Insert(k, v); the boolean the method returns is not used.
MapInsert(m, k, v) ==
    IF Count(m, k)
    THEN m
    ELSE LET r == MakeRoom(m)
         IN  [items   |-> [j \in DOMAIN r.items \cup {k} |->
                              IF j = k THEN v ELSE r.items[j]],
              history |-> Append(r.history, k)]

\* mLookups.at(k)
Lookup(m, k) == CHOOSE i \in DOMAIN m.history : m.history[i] = k

\* Mutant of MapErase: the key stays in mHistory.
MapEraseKeepingAge(m, k) == [m EXCEPT !.items = Without(m.items, k)]

\* The map after Erase(k), for a k that it contains.
MapErase(m, k) ==
    LET i == Lookup(m, k)
    IN  [items   |-> Without(m.items, k),
         history |-> SubSeq(m.history, 1, i - 1)
                        \o SubSeq(m.history, i + 1, Len(m.history))]

\* The entry of k replaced through the reference that At(k) returns.
MapUpdate(m, k, v) ==
    [items |-> [m.items EXCEPT ![k] = v], history |-> m.history]

----------------------------------------------------------------------------

\* A map from K to V.
IsMap(m, K, V) ==
    /\ m \in [items : [DOMAIN m.items -> V], history : Seq(K)]
    /\ DOMAIN m.items \subseteq K

\* The order of insertion lists exactly the keys of the entries, each once, and
\* there are no more than MaxSize of them.
IsCoherent(m) ==
    /\ Range(m.history) = DOMAIN m.items
    /\ IsInjective(m.history)
    /\ Len(m.history) <= MaxSize

============================================================================
