---------------------------- MODULE ConfigTypes ----------------------------
(***************************************************************************)
(* Keys, values and key/value pairs (src/src/ConfigTypes.{h,cpp}).         *)
(*                                                                         *)
(* A ConfigKey is the non-empty sequence of its sub-keys, "a.b" being      *)
(* <<"a", "b">>.  A ConfigValue is an element of Value, or Empty, the value *)
(* of the default constructor that marks a key as absent or erased.        *)
(***************************************************************************)
EXTENDS Naturals, Sequences, FiniteSets

CONSTANTS
    Key,     \* the keys of the instance, "last." keys included
    Value,   \* the non-empty values of every type
    TypeOf,  \* the alternative of the variant that a value holds
    Zero,    \* the int32 value 0, the payload of an empty ConfigValue
    Empty    \* ConfigValue::None()

----------------------------------------------------------------------------

\* ConfigKey::SubkeyMatches: k matches the pattern p when their common
\* prefix agrees up to wildcards, and k is not the shorter of the two.
SubkeyMatches(k, p) ==
    /\ \A i \in DOMAIN k \cap DOMAIN p :
           k[i] = p[i] \/ k[i] = "*" \/ p[i] = "*"
    /\ Len(k) < Len(p) => k[Len(k)] = "*"

IsWildcard(k) == \E i \in DOMAIN k : k[i] = "*"

IsLast(k) == SubkeyMatches(k, <<"last", "*">>)

IsDefault(k) == SubkeyMatches(k, <<"default", "*">>)

\* The two namespaces that keep no "last." copy and that no wildcard erases.
IsReserved(k) == IsLast(k) \/ IsDefault(k)

LastKey(k) == <<"last">> \o k

ASSUME KeyAssumption ==
    /\ IsFiniteSet(Key)
    /\ \A k \in Key : k \in Seq(STRING) /\ k # <<>> /\ ~IsWildcard(k)
    /\ \A k \in Key : ~IsReserved(k) => LastKey(k) \in Key
    /\ \A k \in Key : IsDefault(k) => Tail(k) \in Key

----------------------------------------------------------------------------

MaybeValue == Value \cup {Empty}

ASSUME ValueAssumption == Empty \notin Value

Pair == [key : Key, value : MaybeValue]

\* ConfigValue::TypeCheck, on two values that are not empty.
TypeCheckValues(v, w) == TypeOf[v] = TypeOf[w]

\* operator== of ConfigValue: two empty values are equal, and otherwise the
\* payloads are compared, so that an empty value equals the int32 value 0.
SameValue(v, w) == v = w \/ {v, w} = {Empty, Zero}

============================================================================
