------------------------- MODULE TransactionManager -------------------------
(***************************************************************************)
(* The commit history of src/src/TransactionManager.cpp.  A history h is    *)
(* the list mCommits, oldest first.  A commit holds for each key that it   *)
(* changed the value before and the value after (a ConfigDelta).           *)
(***************************************************************************)
EXTENDS ConfigTypes, SequencesExt

CONSTANT MaxStorage  \* the number of commits kept, mMaxStorage

ASSUME MaxStorageAssumption == MaxStorage \in Nat \ {0}

Delta == [old : MaybeValue, new : MaybeValue]

Keys(commit) == DOMAIN commit.deltas

\* The type of a CommitHistory.
IsCommit(commit) ==
    /\ commit \in [id : Nat, parent : Nat, deltas : [Keys(commit) -> Delta]]
    /\ Keys(commit) \subseteq Key

\* Mutant of MostRecentId: the wrong end of the list.
OldestId(h) == IF h = <<>> THEN 0 ELSE h[1].id

\* AllCommitHistories::GetMostRecentCommit, as the parent id of a new commit.
MostRecentId(h) == IF h = <<>> THEN 0 ELSE h[Len(h)].id

\* DropExcessiveCommits: the oldest commits go until MaxStorage are left.
DropExcessiveCommits(h) ==
    IF Len(h) > MaxStorage THEN SubSeq(h, Len(h) - MaxStorage + 1, Len(h)) ELSE h

\* Mutant of NewCommit: the deltas are generated after the values are stored.
NewCommitTooLate(h, maxId, changed, values) ==
    [id     |-> maxId + 1,
     parent |-> MostRecentId(h),
     deltas |-> [k \in DOMAIN changed |-> [old |-> changed[k], new |-> changed[k]]]]

\* GenerateDeltas and the commit built by LogCommit, for the new values in
\* changed over the stored values.
NewCommit(h, maxId, changed, values) ==
    [id     |-> maxId + 1,
     parent |-> MostRecentId(h),
     deltas |-> [k \in DOMAIN changed |-> [old |-> values[k], new |-> changed[k]]]]

LogCommit(h, commit) == DropExcessiveCommits(Append(h, commit))

\* AllCommitHistories::StoreCommit, on mMaxCommitId.
RaiseMaxId(maxId, commit) ==
    LET larger(a, b) == IF a >= b THEN a ELSE b
    IN  larger(larger(maxId, commit.id), commit.parent)

----------------------------------------------------------------------------
\* AllCommitHistories::GetChild: the index of the last commit whose parent is
\* the given id, as a set with at most one element.
GetChild(h, id) ==
    {i \in DOMAIN h : /\ h[i].parent = id
                      /\ \A j \in DOMAIN h : h[j].parent = id => j <= i}

\* The commits that CanRollback visits from id: its child, the child of the
\* child, and so on, which is the least set closed under GetChild.
IsClosedUnderGetChild(h, id, S) ==
    /\ GetChild(h, id) \subseteq S
    /\ \A i \in S : GetChild(h, h[i].id) \subseteq S

LaterCommits(h, id) ==
    {i \in DOMAIN h :
        \A S \in SUBSET DOMAIN h : IsClosedUnderGetChild(h, id, S) => i \in S}

\* Mutant of CanRollback: the walk stops before a commit that has no child.
CanRollbackOverLast(h, commit) ==
    \A i \in LaterCommits(h, commit.id) :
        GetChild(h, h[i].id) # {} => Keys(commit) \cap Keys(h[i]) = {}

CanRollback(h, commit) ==
    \A i \in LaterCommits(h, commit.id) : Keys(commit) \cap Keys(h[i]) = {}

\* The elements of a finite set of numbers as an increasing sequence (the one
\* element of this set).
InOrder(S) == {s \in SetToSeqs(S) : \A i, j \in DOMAIN s : i < j => s[i] < s[j]}

\* AllCommitHistories::Blame: the commits that changed k, youngest first.
Blame(h, k) ==
    LET order == CHOOSE s \in InOrder({i \in DOMAIN h : k \in Keys(h[i])}) : TRUE
    IN  Reverse([i \in DOMAIN order |-> h[order[i]]])

----------------------------------------------------------------------------
\* Rebuilding the history from a set of stored commits, at startup.

\* Mutant of FindMaxCommitId: ids are taken to be consecutive from 1.
CountAsMaxId(commits) == Cardinality(commits)

\* AllCommitHistories::FindMaxCommitId: ids that are only named as a parent
\* count as used.
FindMaxCommitId(commits) ==
    Max({0} \cup {c.id : c \in commits} \cup {c.parent : c \in commits})

\* AllCommitHistories::FindMostRecentCommit: the last one, in the order of the
\* ids in which LoadAllCommits returns them, that is nobody's parent.
FindMostRecentCommit(commits) ==
    LET childless == {c \in commits : \A d \in commits : d.parent # c.id}
    IN  {c \in childless : \A d \in childless : d.id <= c.id}

\* The commits that Sort collects: the most recent one, its parent, and so on.
Ancestry(commits) ==
    LET closed(S) == /\ FindMostRecentCommit(commits) \subseteq S
                     /\ \A c \in S : {d \in commits : d.id = c.parent} \subseteq S
    IN  {c \in commits : \A S \in SUBSET commits : closed(S) => c \in S}

\* AllCommitHistories::Sort, the oldest commit first.
Sort(commits) ==
    CHOOSE s \in SetToSeqs(Ancestry(commits)) :
        \A i \in 1..Len(s) - 1 : s[i + 1].parent = s[i].id

============================================================================
