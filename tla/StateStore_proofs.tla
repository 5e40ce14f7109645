-------------------------- MODULE StateStore_proofs ---------------------------
(* A start finds a saved state, for lists, clocks and faults of every kind;    *)
(* and whatever was saved and found again, the lists are in order.             *)
EXTENDS StateStore, StateLists_proofs

\* What a state that was written reads back as.
LEMMA ReadsBack ==
  ASSUME NEW s, Serializable(s)
  PROVE  LoadedFrom(Written(s)) = s
BY DEF LoadedFrom, Written

\* The stages of a save: only a serializable state is on its way, the temporary file
\* holds all of it before it is flushed and is flushed before it is renamed.
SaveInStages ==
  /\ phase \in Saving => Serializable(state) /\ state \in tried
  /\ phase \in {"sync", "rename"} => temporary = Written(state)
  /\ phase = "rename" => flushed
  /\ phase = "directory" => file = Written(state)

StoreInv == FindsASavedState /\ SaveInStages

LEMMA StoreInit == Init => StoreInv
<1> SUFFICES ASSUME Init PROVE StoreInv
  OBVIOUS
<1>1. file \in {NoFile, Torn} /\ durable = {file} /\ saved = EmptyState /\ phase = "down"
  BY DEF Init
<1>2. LoadedFrom(NoFile) = EmptyState /\ LoadedFrom(Torn) = EmptyState
  BY DEF LoadedFrom, NoFile, Torn
<1> QED
  BY <1>1, <1>2 DEF StoreInv, FindsASavedState, SaveInStages, Saving

LEMMA ChangeStep ==
  ASSUME StoreInv, NEW new, Change(new)
  PROVE  StoreInv'
BY DEF StoreInv, FindsASavedState, SaveInStages, Change, BeginSave, disk, Saving

\* Before the rename nothing a start looks at changes.
LEMMA PrepareStep ==
  ASSUME StoreInv, CreateTemporary \/ WriteTemporary \/ SyncTemporary
  PROVE  StoreInv'
<1>1. UNCHANGED <<state, file, durable, saved, tried>> /\ phase \in Saving
  BY DEF CreateTemporary, WriteTemporary, SyncTemporary, Saving
<1>2. FindsASavedState'
  BY <1>1 DEF StoreInv, FindsASavedState
<1>3. SaveInStages'
  BY <1>1 DEF StoreInv, SaveInStages, CreateTemporary, WriteTemporary, SyncTemporary, Saving
<1> QED
  BY <1>2, <1>3 DEF StoreInv

\* The rename puts a whole state in place, on the disk as well.
LEMMA RenameStep ==
  ASSUME StoreInv, Rename
  PROVE  StoreInv'
<1>1. /\ Serializable(state) /\ state \in tried /\ temporary = Written(state) /\ flushed
      /\ UNCHANGED <<state, saved, tried>>
      /\ file' = Written(state) /\ durable' = durable \cup {Written(state)}
      /\ phase' = "directory"
  BY DEF StoreInv, SaveInStages, Rename, Saving
<1>2. LoadedFrom(Written(state)) \in tried
  BY <1>1, ReadsBack
<1> QED
  BY <1>1, <1>2 DEF StoreInv, FindsASavedState, SaveInStages, Saving

LEMMA SyncDirectoryStep ==
  ASSUME StoreInv, SyncDirectory
  PROVE  StoreInv'
<1>1. /\ Serializable(state) /\ file = Written(state)
      /\ file' = file /\ durable' = {file} /\ saved' = state /\ phase' = "idle"
  BY DEF StoreInv, SaveInStages, SyncDirectory, Saving
<1>2. LoadedFrom(file') = saved'
  BY <1>1, ReadsBack
<1> QED
  BY <1>1, <1>2 DEF StoreInv, FindsASavedState, SaveInStages, Saving

LEMMA StoreStep ==
  ASSUME StoreInv, [Next]_vars
  PROVE  StoreInv'
<1>1. CASE Start \/ Dies \/ SaveFails
  BY <1>1 DEF Start, Dies, SaveFails, disk, StoreInv, FindsASavedState, SaveInStages, Saving
<1>2. CASE PowerLoss
  BY <1>2 DEF PowerLoss, StoreInv, FindsASavedState, SaveInStages, Saving
<1>3. ASSUME NEW e \in Sequences, ToggleCurrent(e) \/ \E now \in Times : Choose(e, now)
      PROVE  StoreInv'
  BY <1>3, ChangeStep DEF ToggleCurrent, Choose
<1>4. CASE CreateTemporary \/ WriteTemporary \/ SyncTemporary
  BY <1>4, PrepareStep
<1>5. CASE Rename
  BY <1>5, RenameStep
<1>6. CASE SyncDirectory
  BY <1>6, SyncDirectoryStep
<1>7. CASE UNCHANGED vars
  BY <1>7 DEF vars, StoreInv, FindsASavedState, SaveInStages
<1> QED
  BY <1>1, <1>2, <1>3, <1>4, <1>5, <1>6, <1>7 DEF Next

\* Saving is atomic and durable: through failed calls, crashes and power losses a
\* start finds the last confirmed state or one whose save was begun since.
THEOREM SavesAreAtomic == Spec => []FindsASavedState
<1>1. StoreInv => FindsASavedState
  BY DEF StoreInv
<1> QED
  BY <1>1, StoreInit, StoreStep, PTL DEF Spec

\* A temporary file exists only between its creation and the rename.
OnlyWhileSaving == phase \notin {"write", "sync", "rename"} => temporary = NoFile

\* No save, complete or failed at any step, leaves its temporary file behind.
THEOREM SavesLeaveNoLitter == Spec => []NoLitter
<1>1. Init => OnlyWhileSaving
  BY DEF Init, OnlyWhileSaving
<1>2. ASSUME OnlyWhileSaving, [Next]_vars PROVE OnlyWhileSaving'
  <2>1. ASSUME NEW e \in Sequences, ToggleCurrent(e) \/ \E now \in Times : Choose(e, now)
        PROVE  OnlyWhileSaving'
    BY <1>2, <2>1 DEF ToggleCurrent, Choose, Change, BeginSave, disk, OnlyWhileSaving, Saving
  <2>2. CASE Start \/ Dies \/ PowerLoss \/ SaveFails
    BY <1>2, <2>2 DEF Start, Dies, PowerLoss, SaveFails, disk, OnlyWhileSaving, Saving
  <2>3. CASE CreateTemporary \/ WriteTemporary \/ SyncTemporary
    BY <1>2, <2>3 DEF CreateTemporary, WriteTemporary, SyncTemporary, OnlyWhileSaving, Saving
  <2>4. CASE Rename \/ SyncDirectory
    BY <1>2, <2>4 DEF Rename, SyncDirectory, OnlyWhileSaving, Saving
  <2>5. CASE UNCHANGED vars
    BY <1>2, <2>5 DEF vars, OnlyWhileSaving
  <2> QED
    BY <1>2, <2>1, <2>2, <2>3, <2>4, <2>5 DEF Next
<1>3. OnlyWhileSaving => NoLitter
  BY DEF OnlyWhileSaving, NoLitter, Saving
<1> QED
  BY <1>1, <1>2, <1>3, PTL DEF Spec

(***************************************************************************)
(* The lists, wherever they are: in memory, in a file or on their way.     *)
(***************************************************************************)

\* Lists after c changes: no doubles, the recents in order and not too many. An emoji
\* was not used more often than there were changes.
Fine(s, c) ==
  /\ s \in Lists(EntriesOf(1 .. c, Times))
  /\ Distinct(s.favorites) /\ OneEach(s.recents)
  /\ InOrder(s.recents) /\ Len(s.recents) <= MaximumEntries

FineContent(content, c) == content \in {NoFile, Torn} \/ Fine(content.state, c)

FineLists(c) ==
  /\ Fine(state, c) /\ Fine(saved, c) /\ \A s \in tried : Fine(s, c)
  /\ \A content \in durable \cup {file, temporary} : FineContent(content, c)

StoreType ==
  /\ phase \in Phases /\ flushed \in BOOLEAN
  /\ changes \in 0 .. MaxChanges /\ starts \in 0 .. MaxStarts

ListsInv == StoreType /\ FineLists(changes)

LEMMA EmptyIsFine == ASSUME NEW c \in Nat PROVE Fine(EmptyState, c)
<1>1. EmptyState \in Lists(EntriesOf(1 .. c, Times))
  BY DEF EmptyState, Lists
<1>2. EmptyState.favorites = <<>> /\ EmptyState.recents = <<>>
  BY DEF EmptyState
<1>3. Len(<<>>) <= MaximumEntries /\ DOMAIN <<>> = {}
  BY ListAssumption DEF ListAssumption
<1> QED
  BY <1>1, <1>2, <1>3 DEF Fine, Distinct, OneEach, InOrder

\* A count that was possible stays possible.
LEMMA FineLater ==
  ASSUME NEW c \in Nat, NEW s, Fine(s, c)
  PROVE  Fine(s, c + 1)
<1>1. EntriesOf(1 .. c, Times) \subseteq EntriesOf(1 .. c + 1, Times)
  BY DEF EntriesOf
<1>2. s = [favorites |-> s.favorites, recents |-> s.recents]
      /\ s.favorites \in Seq(Sequences) /\ s.recents \in Seq(EntriesOf(1 .. c, Times))
  BY DEF Fine, Lists
<1>3. s.recents \in Seq(EntriesOf(1 .. c + 1, Times))
  BY <1>1, <1>2, SeqMonotonic
<1>4. s \in Lists(EntriesOf(1 .. c + 1, Times))
  BY <1>2, <1>3 DEF Lists
<1> QED
  BY <1>4 DEF Fine

\* A change of fine lists makes fine lists.
LEMMA ChangesAreFine ==
  ASSUME NEW c \in Nat, NEW s, Fine(s, c), NEW e \in Sequences
  PROVE  /\ Fine(ToggleFavorite(s, e), c + 1)
         /\ \A now \in Times : Fine(RecordUse(s, e, now), c + 1)
<1>1. /\ s \in Lists(EntriesOf(1 .. c, Times)) /\ Distinct(s.favorites) /\ OneEach(s.recents)
      /\ InOrder(s.recents) /\ Len(s.recents) <= MaximumEntries
  BY DEF Fine
<1>2. Fine(ToggleFavorite(s, e), c)
  BY <1>1, ToggleProperties DEF Fine
<1>3. Countable(1 .. c, Times, 1 .. c + 1)
  BY StoreAssumption DEF StoreAssumption, Countable
<1>4. \A now \in Times : Fine(RecordUse(s, e, now), c + 1)
  BY <1>1, <1>3, RecordUseProperties DEF Fine
<1> QED
  BY <1>2, <1>4, FineLater

LEMMA ListsInit == Init => ListsInv
<1> SUFFICES ASSUME Init PROVE ListsInv
  OBVIOUS
<1>1. Fine(EmptyState, 0)
  BY EmptyIsFine
<1>2. /\ state = EmptyState /\ saved = EmptyState /\ tried = {} /\ changes = 0
      /\ durable = {file} /\ file \in {NoFile, Torn} /\ temporary = NoFile
  BY DEF Init
<1>3. FineLists(0)
  BY <1>1, <1>2 DEF FineLists, FineContent
<1>4. phase \in Phases /\ flushed \in BOOLEAN
  BY DEF Init, Phases
<1>5. changes \in 0 .. MaxChanges /\ starts \in 0 .. MaxStarts
  BY StoreAssumption DEF StoreAssumption, Init
<1> QED
  BY <1>2, <1>3, <1>4, <1>5 DEF ListsInv, StoreType

LEMMA StartIsFine ==
  ASSUME ListsInv, Start
  PROVE  FineLists(changes)'
<1>1. changes \in Nat /\ Fine(EmptyState, changes)
  BY StoreAssumption, EmptyIsFine DEF ListsInv, StoreType, StoreAssumption
<1>2. Fine(LoadedFrom(file), changes)
  BY <1>1 DEF LoadedFrom, ListsInv, FineLists, FineContent, NoFile, Torn
<1>3. /\ state' \in {LoadedFrom(file), EmptyState}
      /\ UNCHANGED <<temporary, file, durable, saved, tried, changes>>
  BY DEF Start, disk
<1> QED
  BY <1>1, <1>2, <1>3 DEF ListsInv, FineLists

LEMMA ChangeIsFine ==
  ASSUME ListsInv, NEW new, Fine(new, changes + 1), Change(new)
  PROVE  FineLists(changes)'
<1> DEFINE c == changes
<1>1. c \in Nat /\ changes' = c + 1
  BY DEF ListsInv, StoreType, Change
<1>2. FineLists(c) /\ Fine(new, c + 1)
  BY DEF ListsInv
<1>3. /\ state' = new /\ tried' \subseteq tried \cup {new}
      /\ UNCHANGED <<temporary, file, durable, saved>>
  BY DEF Change, BeginSave, disk
<1> HIDE DEF c
<1>4. \A s : Fine(s, c) => Fine(s, c + 1)
  BY <1>1, FineLater
<1>5. \A content : FineContent(content, c) => FineContent(content, c + 1)
  BY <1>4 DEF FineContent
<1> QED
  BY <1>1, <1>2, <1>3, <1>4, <1>5 DEF FineLists

\* The other steps move contents about.
LEMMA SavingIsFine ==
  ASSUME ListsInv,
         \/ CreateTemporary \/ WriteTemporary \/ SyncTemporary \/ Rename \/ SyncDirectory
         \/ SaveFails \/ Dies \/ PowerLoss
  PROVE  FineLists(changes)'
<1> DEFINE c == changes
<1>1. FineLists(c) /\ Fine(EmptyState, c) /\ changes' = c
  BY EmptyIsFine DEF ListsInv, StoreType, CreateTemporary, WriteTemporary, SyncTemporary,
     Rename, SyncDirectory, SaveFails, Dies, PowerLoss
<1> HIDE DEF c
<1>2. FineContent(NoFile, c) /\ FineContent(Torn, c)
  BY DEF FineContent
<1>3. FineContent(Written(state), c)
  BY <1>1 DEF FineContent, Written, FineLists
<1>4. CASE CreateTemporary \/ SyncTemporary \/ SaveFails \/ Dies
  BY <1>1, <1>2, <1>4 DEF FineLists, CreateTemporary, SyncTemporary, SaveFails, Dies
<1>5. CASE WriteTemporary
  BY <1>1, <1>3, <1>5 DEF FineLists, WriteTemporary
<1>6. CASE Rename
  BY <1>1, <1>2, <1>6 DEF FineLists, Rename
<1>7. CASE SyncDirectory
  BY <1>1, <1>7 DEF FineLists, SyncDirectory
<1>8. CASE PowerLoss
  BY <1>1, <1>2, <1>8 DEF FineLists, PowerLoss
<1> QED
  BY <1>4, <1>5, <1>6, <1>7, <1>8

LEMMA ListsStep ==
  ASSUME ListsInv, [Next]_vars
  PROVE  ListsInv'
<1>1. FineLists(changes)'
  <2>1. ASSUME NEW e \in Sequences, ToggleCurrent(e) \/ \E now \in Times : Choose(e, now)
        PROVE  FineLists(changes)'
    <3>1. changes \in Nat /\ Fine(state, changes)
      BY DEF ListsInv, StoreType, FineLists
    <3>2. /\ Fine(ToggleFavorite(state, e), changes + 1)
          /\ \A now \in Times : Fine(RecordUse(state, e, now), changes + 1)
      BY <3>1, ChangesAreFine
    <3> QED
      BY <2>1, <3>2, ChangeIsFine DEF ToggleCurrent, Choose
  <2>2. CASE UNCHANGED vars
    BY <2>2 DEF vars, ListsInv, FineLists
  <2> QED
    BY <2>1, <2>2, StartIsFine, SavingIsFine DEF Next
<1>2. StoreType'
  <2>1. ASSUME NEW e \in Sequences, ToggleCurrent(e) \/ \E now \in Times : Choose(e, now)
        PROVE  StoreType'
    BY <2>1, StoreAssumption DEF StoreAssumption, ListsInv, StoreType, ToggleCurrent, Choose,
       Change, BeginSave, disk, Phases, Saving
  <2>2. CASE Start \/ Dies \/ PowerLoss \/ SaveFails \/ UNCHANGED vars
    BY <2>2, StoreAssumption DEF StoreAssumption, ListsInv, StoreType, Start, Dies, PowerLoss,
       SaveFails, disk, vars, Phases
  <2>3. CASE CreateTemporary \/ WriteTemporary \/ SyncTemporary \/ Rename \/ SyncDirectory
    BY <2>3 DEF ListsInv, StoreType, CreateTemporary, WriteTemporary, SyncTemporary, Rename,
       SyncDirectory, Phases, Saving
  <2> QED
    BY <2>1, <2>2, <2>3 DEF Next
<1> QED
  BY <1>1, <1>2 DEF ListsInv

LEMMA ListsInvariant == Spec => []ListsInv
  BY ListsInit, ListsStep, PTL DEF Spec

\* What is in memory, in the files and on its way are lists of emoji and of entries.
THEOREM StoreTypeCorrect == Spec => []TypeOK
<1>1. ASSUME ListsInv PROVE TypeOK
  <2> DEFINE c == changes
  <2>1. c \in 0 .. MaxChanges /\ MaxChanges \in Nat /\ StoreType /\ FineLists(c)
    BY <1>1, StoreAssumption DEF ListsInv, StoreType, StoreAssumption
  <2> HIDE DEF c
  <2>2. EntriesOf(1 .. c, Times) \subseteq Entries
    BY <2>1 DEF EntriesOf, Entries, Counts
  <2>3. ASSUME NEW s, Fine(s, c) PROVE IsState(s)
    <3>1. s = [favorites |-> s.favorites, recents |-> s.recents]
          /\ s.favorites \in Seq(Sequences) /\ s.recents \in Seq(EntriesOf(1 .. c, Times))
      BY <2>3 DEF Fine, Lists
    <3>2. s.recents \in Seq(Entries)
      BY <2>2, <3>1, SeqMonotonic
    <3> QED
      BY <3>1, <3>2 DEF IsState, Lists
  <2> QED
    BY <2>1, <2>3 DEF TypeOK, StoreType, FineLists, FineContent
<1> QED
  BY <1>1, ListsInvariant, PTL

\* The recents stay in order and never become too many, through any clock, loss and
\* start.
THEOREM RecentsStayInOrder == Spec => []RecentsInOrder
<1>1. ListsInv => RecentsInOrder
  BY DEF ListsInv, FineLists, Fine, InOrder, RecentsInOrder
<1> QED
  BY <1>1, ListsInvariant, PTL

\* Every state the lists can come to is saved, unless it has too many favorites.
THEOREM OnlyManyFavoritesBlock == Spec => []OnlyFavoritesBlock
<1>1. ASSUME ListsInv, ~(Len(state.favorites) > MaximumFavorites)
      PROVE  Serializable(state)
  <2>1. /\ Distinct(state.favorites) /\ OneEach(state.recents)
        /\ Len(state.recents) <= MaximumEntries
        /\ state \in Lists(EntriesOf(1 .. changes, Times))
    BY <1>1 DEF ListsInv, FineLists, Fine
  <2>2. /\ state.favorites \in Seq(Sequences)
        /\ state.recents \in Seq(EntriesOf(1 .. changes, Times))
    BY <2>1 DEF Lists
  <2>3. Len(state.favorites) <= MaximumFavorites /\ Len(state.recents) <= MaximumRecents
    BY <1>1, <2>1, <2>2, ListAssumption DEF ListAssumption
  <2>4. Range(state.recents) \subseteq EntriesOf(1 .. changes, Times)
    BY <2>2, RangeIsFinite
  <2>5. \A r \in Range(state.recents) : r.useCount # 0
    BY <2>4 DEF EntriesOf
  <2>6. Distinct([i \in DOMAIN state.recents |-> state.recents[i].sequence])
    BY <2>1 DEF Distinct, OneEach
  <2> QED
    BY <2>1, <2>3, <2>5, <2>6 DEF Serializable
<1>2. ListsInv => OnlyFavoritesBlock
  BY <1>1 DEF OnlyFavoritesBlock
<1> QED
  BY <1>2, ListsInvariant, PTL

\* A use drops at most what is last in a full list.
THEOREM UsesDropTheLast == Spec => UseDropsTheLast
<1>1. ASSUME ListsInv, NEW e \in Sequences, NEW now \in Times, Choose(e, now),
             NEW r \in Range(state.recents), r.sequence # e, r \notin Range(state'.recents)
      PROVE  /\ Len(state.recents) = MaximumEntries
             /\ \A kept \in Range(state'.recents) : Before(kept, r)
  <2> DEFINE c == changes
             t == RecordUse(state, e, now)
  <2>1. c \in Nat /\ Fine(state, c)
    BY <1>1 DEF ListsInv, StoreType, FineLists
  <2>2. state' = t
    BY <1>1 DEF Choose, Change, BeginSave
  <2> HIDE DEF c
  <2>3. Countable(1 .. c, Times, 1 .. c + 1)
    BY <2>1, StoreAssumption DEF StoreAssumption, Countable
  <2>4. \A x \in AfterUse(state, e, now) \ Range(t.recents) :
          /\ Len(state.recents) >= MaximumEntries
          /\ \A kept \in Range(t.recents) : Before(kept, x)
    BY <2>1, <2>3, RecordUseProperties DEF Fine
  <2> HIDE DEF t
  <2>5. r \in AfterUse(state, e, now) \ Range(t.recents)
    BY <1>1, <2>2 DEF AfterUse, Known
  <2>6. Len(state.recents) <= MaximumEntries /\ Len(state.recents) \in Nat
    BY <2>1 DEF Fine, Lists
  <2> QED
    BY <2>2, <2>4, <2>5, <2>6, ListAssumption DEF ListAssumption
<1>2. ListsInv /\ [Next]_vars =>
        [\A e \in Sequences, now \in Times :
           Choose(e, now) =>
             \A r \in Range(state.recents) :
               r.sequence # e /\ ~(r \in Range(state'.recents)) =>
                 /\ Len(state.recents) = MaximumEntries
                 /\ \A kept \in Range(state'.recents) : Before(kept, r)]_vars
  BY <1>1
<1> QED
  BY <1>2, ListsInvariant, PTL DEF Spec, UseDropsTheLast
=============================================================================
