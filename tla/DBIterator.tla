----------------------------- MODULE DBIterator -----------------------------
(***************************************************************************)
(* CDBTransactionIterator (dbwrapper.h): iteration over a transaction and   *)
(* its parent by two cursors, one in the writes, one in the parent, of      *)
(* which the smaller key is current.  Checked in every state of EvoDB       *)
(* against the keys that Exists.                                            *)
(***************************************************************************)
EXTENDS EvoDB, FiniteSets, Sequences, SequencesExt

\* Keys are compared as byte strings (DataStreamCmp): any order like that of
\* the numbers.
ASSUME KeysAssumption == Keys \in SUBSET Nat /\ IsFiniteSet(Keys)

\* The keys of S in ascending order, as a map or LevelDB holds them.
Sorted(S) == CHOOSE s \in SetToSeqs(S) : \A i, j \in DOMAIN s : i < j => s[i] < s[j]

\* The first position of s, from j on, that holds a key of S; behind the end
\* when there is none.
FirstFrom(s, j, S) ==
    CHOOSE n \in j..(Len(s) + 1) :
        /\ n <= Len(s) => s[n] \in S
        /\ \A m \in j..(n - 1) : s[m] \notin S

\* lower_bound: the first position of s at or after key.
LowerBound(s, key) == FirstFrom(s, 1, {k \in Keys : k >= key})

\* Mutant of Skip: an overwritten key of the parent is not skipped.
SkipDeleted(t, parent, j) == FirstFrom(parent, j, Keys \ t.deletes)

\* SkipDeletedAndOverwritten, from position j of the parent.
Skip(t, parent, j) == FirstFrom(parent, j, Keys \ (t.deletes \cup Updated(t)))

Valid(writes, parent, c) == c.i <= Len(writes) \/ c.j <= Len(parent)

\* DecideCur: the parent is current unless the write has the smaller key.
CurIsParent(writes, parent, c) ==
    /\ c.j <= Len(parent)
    /\ c.i <= Len(writes) => ~(writes[c.i] < parent[c.j])

\* GetKey and Next, with out the keys yielded so far.
Advance(t, writes, parent, c) ==
    IF CurIsParent(writes, parent, c)
    THEN [i |-> c.i, j |-> Skip(t, parent, c.j + 1), out |-> Append(c.out, parent[c.j])]
    ELSE [i |-> c.i + 1, j |-> c.j, out |-> Append(c.out, writes[c.i])]

Seek(t, writes, parent, key) ==
    [i |-> LowerBound(writes, key), j |-> Skip(t, parent, 1), out |-> <<>>]

\* Seek(key) followed by Next while the iterator is Valid, one step after the
\* other.
Walk(t, writes, parent, key) ==
    LET W[n \in 0..(Len(writes) + Len(parent))] ==
          IF n = 0 THEN Seek(t, writes, parent, key)
          ELSE IF Valid(writes, parent, W[n - 1])
          THEN Advance(t, writes, parent, W[n - 1])
          ELSE W[n - 1]
    IN  W

\* The keys that yields, over the sequence of keys the parent's iterator yields.
IterateFrom(t, parent, key) ==
    LET writes == Sorted(Updated(t))
    IN  Walk(t, writes, parent, key)[Len(writes) + Len(parent)].out

\* The LevelDB iterator, and the iterator of curDBTransaction over that of
\* rootDBTransaction over it.
IterateDB(key) == Sorted({k \in Keys : db[k] # Absent /\ k >= key})
IterateCur(key) == IterateFrom(cur, IterateFrom(root, IterateDB(key), key), key)

\* From any position the iterator yields each key that CEvoDB::Exists confirms
\* once, in ascending order (GetMinedCommitmentsUntilBlock relies on both).
IteratorAgrees ==
    ~failed => \A key \in Keys :
        IterateCur(key) = Sorted({k \in Keys : Current[k] # Absent /\ k >= key})

=============================================================================
