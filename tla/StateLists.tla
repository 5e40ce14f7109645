----------------------------- MODULE StateLists ------------------------------
(* The favorites and recents of src/core/state.cpp, and what makes a state one *)
(* that serialize writes and parseState reads back.                            *)
EXTENDS Naturals, SequencesExt

CONSTANTS
  Sequences,         \* emoji sequences; their order stands for the byte order
  MaximumFavorites,  \* maximumFavorites, 500 in the code
  MaximumRecents,    \* maximumRecents, 1000 in the code
  MaximumEntries     \* maximumEntries of recordUse, 100 by default

ASSUME ListAssumption ==
  /\ Sequences \subseteq Nat
  /\ MaximumFavorites \in Nat /\ MaximumRecents \in Nat
  /\ MaximumEntries \in 1 .. MaximumRecents

\* The elements of s that are in T, in their order. (SelectSeq, as a function that
\* proofs can unfold.)
Only(s, T) ==
  LET only[i \in 0 .. Len(s)] ==
        IF i = 0 THEN <<>>
        ELSE IF s[i] \in T THEN Append(only[i - 1], s[i]) ELSE only[i - 1]
  IN only[Len(s)]

Lists(entries) == [favorites : Seq(Sequences), recents : Seq(entries)]

EmptyState == [favorites |-> <<>>, recents |-> <<>>]

\* toggleFavorite: a new favorite goes to the end.
ToggleFavorite(s, e) ==
  [s EXCEPT !.favorites = IF Contains(@, e) THEN Only(@, Range(@) \ {e}) ELSE Append(@, e)]

\* The order of the recents: the latest first, then the most used, then by bytes.
Before(a, b) ==
  \/ a.lastUsed > b.lastUsed
  \/ a.lastUsed = b.lastUsed /\ a.useCount > b.useCount
  \/ a.lastUsed = b.lastUsed /\ a.useCount = b.useCount /\ a.sequence < b.sequence

\* The one order std::stable_sort can give entries that are all distinct.
Sorted(entries) ==
  CHOOSE q \in [1 .. Cardinality(entries) -> entries] :
    \A i, j \in DOMAIN q : i < j => Before(q[i], q[j])

Known(s, e) == {r \in Range(s.recents) : r.sequence = e}

\* A mutant of Used: a new entry has not been counted.
UsedFromZero(s, e, now) ==
  [sequence |-> e, lastUsed |-> now,
   useCount |-> IF Known(s, e) = {} THEN 0 ELSE (CHOOSE r \in Known(s, e) : TRUE).useCount + 1]

\* The entry of e after its use at the time `now`.
Used(s, e, now) ==
  [sequence |-> e, lastUsed |-> now,
   useCount |-> IF Known(s, e) = {} THEN 1 ELSE (CHOOSE r \in Known(s, e) : TRUE).useCount + 1]

\* A mutant of RecordUse: the list is cut before it is sorted.
RecordUseUnsorted(s, e, now) ==
  LET entries == Append(Only(s.recents, Range(s.recents) \ Known(s, e)), Used(s, e, now))
  IN [s EXCEPT !.recents = IF Len(entries) > MaximumEntries
                           THEN SubSeq(entries, 1, MaximumEntries) ELSE entries]

\* A mutant of RecordUse: a full list pushes out its first entry.
RecordUseDroppingFirst(s, e, now) ==
  LET entries == (Range(s.recents) \ Known(s, e)) \cup {Used(s, e, now)}
      sorted  == Sorted(entries)
  IN [s EXCEPT !.recents = IF Len(sorted) > MaximumEntries THEN Tail(sorted) ELSE sorted]

\* recordUse: count, sort, cut. The entries are distinct, so the order is total.
RecordUse(s, e, now) ==
  LET entries == (Range(s.recents) \ Known(s, e)) \cup {Used(s, e, now)}
      sorted  == Sorted(entries)
  IN [s EXCEPT !.recents = IF Len(sorted) > MaximumEntries
                           THEN SubSeq(sorted, 1, MaximumEntries) ELSE sorted]

Distinct(s) == \A i, j \in DOMAIN s : s[i] = s[j] => i = j

\* What serialize asks of a state and parseState of a file. Sequences are valid,
\* and 500 favorites and 1000 recents never reach the limit in bytes.
Serializable(s) ==
  /\ Len(s.favorites) <= MaximumFavorites /\ Distinct(s.favorites)
  /\ Len(s.recents) <= MaximumRecents
  /\ Distinct([i \in DOMAIN s.recents |-> s.recents[i].sequence])
  /\ \A r \in Range(s.recents) : r.useCount # 0
=============================================================================
