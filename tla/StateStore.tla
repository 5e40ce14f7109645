----------------------------- MODULE StateStore ------------------------------
(* The state file: StateStore::load and save (src/core/state.cpp) as the       *)
(* window calls them (src/ui/palette_window.cpp), against a file system that   *)
(* may fail any call, a process that may die and a machine that may lose power *)
(* at any moment. save is one synchronous call, but each of its system calls   *)
(* is an action here: the crash may come between any two of them.              *)
EXTENDS StateLists

CONSTANTS
  Times,         \* times the clock may show, in any order
  MaxChanges,    \* bound: changes of the lists over the whole run
  MaxStarts,     \* bound: starts of the helper
  MayBeTorn      \* TRUE in it: the path may name an invalid file at first

ASSUME StoreAssumption ==
  /\ Times \subseteq Nat /\ MaxChanges \in Nat /\ MaxStarts \in Nat
  /\ MayBeTorn \subseteq BOOLEAN

VARIABLES
  state,      \* the favorites and recents in memory
  phase,      \* what the process does next
  temporary,  \* the temporary file of a save under way
  flushed,    \* the temporary file is on the disk, not only in the page cache
  file,       \* what the path names
  durable,    \* what the path may name after a power loss
  saved,      \* history: the last state whose save returned true
  tried,      \* history: the states whose save was begun since
  changes, starts  \* the bounded counters

vars == <<state, phase, temporary, flushed, file, durable, saved, tried, changes, starts>>
disk == <<temporary, flushed, file, durable>>

\* What a path names: nothing, a file that is incomplete or not a state, a state.
NoFile     == [kind |-> "none"]
Torn       == [kind |-> "torn"]
Written(s) == [kind |-> "state", state |-> s]

Saving == {"create", "write", "sync", "rename", "directory"}
Phases == {"down", "idle"} \cup Saving

\* parseState: what is absent or invalid gives an empty state.
LoadedFrom(content) ==
  IF content.kind = "state" /\ Serializable(content.state) THEN content.state ELSE EmptyState

Init ==
  /\ phase = "down" /\ state = EmptyState
  /\ temporary = NoFile /\ flushed = FALSE
  /\ \E torn \in MayBeTorn : file = (IF torn THEN Torn ELSE NoFile)
  /\ durable = {file}
  /\ saved = EmptyState /\ tried = {}
  /\ changes = 0 /\ starts = 0

\* The window's constructor. A file that readFile cannot read this time counts as empty,
\* and the next save replaces it.
Start ==
  /\ phase = "down" /\ starts < MaxStarts
  /\ phase' = "idle" /\ state' \in {LoadedFrom(file), EmptyState}
  /\ starts' = starts + 1
  /\ UNCHANGED <<disk, saved, tried, changes>>

\* A state serialize refuses is not saved; the window only logs it.
BeginSave(new) ==
  /\ state' = new
  /\ IF Serializable(new)
     THEN phase' = "create" /\ tried' = tried \cup {new}
     ELSE UNCHANGED <<phase, tried>>

Change(new) ==
  /\ phase = "idle" /\ changes < MaxChanges
  /\ BeginSave(new)
  /\ changes' = changes + 1
  /\ UNCHANGED <<disk, saved, starts>>

\* toggleCurrentFavorite and chooseSequence save after every change.
ToggleCurrent(e)    == Change(ToggleFavorite(state, e))
Choose(e, now)      == Change(RecordUse(state, e, now))

\* create_directories and mkstemp: an empty file beside the path.
CreateTemporary ==
  /\ phase = "create"
  /\ phase' = "write" /\ temporary' = Torn /\ flushed' = FALSE
  /\ UNCHANGED <<state, file, durable, saved, tried, changes, starts>>

\* fchmod and writeAll.
WriteTemporary ==
  /\ phase = "write"
  /\ phase' = "sync" /\ temporary' = Written(state)
  /\ UNCHANGED <<state, flushed, file, durable, saved, tried, changes, starts>>

\* A mutant of SyncTemporary: the file is not flushed before it is renamed.
SkipSync ==
  /\ phase = "sync"
  /\ phase' = "rename"
  /\ UNCHANGED <<state, disk, saved, tried, changes, starts>>

\* fsync and close.
SyncTemporary ==
  /\ phase = "sync"
  /\ phase' = "rename" /\ flushed' = TRUE
  /\ UNCHANGED <<state, temporary, file, durable, saved, tried, changes, starts>>

\* The path changes at once for every process, and on the disk at any later time;
\* data that was never flushed may be missing there.
Rename ==
  /\ phase = "rename"
  /\ phase' = "directory"
  /\ file' = temporary
  /\ durable' = durable \cup {temporary} \cup (IF flushed THEN {} ELSE {Torn})
  /\ temporary' = NoFile
  /\ UNCHANGED <<state, flushed, saved, tried, changes, starts>>

\* The fsync of the directory, after which save returns true.
SyncDirectory ==
  /\ phase = "directory"
  /\ phase' = "idle"
  /\ durable' = {file}
  /\ saved' = state /\ tried' = {}
  /\ UNCHANGED <<state, temporary, flushed, file, changes, starts>>

\* A mutant of SaveFails: the temporary file is left behind.
SaveFailsLeaving ==
  /\ phase \in Saving /\ phase' = "idle"
  /\ UNCHANGED <<state, disk, saved, tried, changes, starts>>

\* Any call may fail: the temporary file is unlinked and save returns false. What
\* was renamed already stays, although save returns false for it too.
SaveFails ==
  /\ phase \in Saving /\ phase' = "idle"
  /\ temporary' = NoFile
  /\ UNCHANGED <<state, flushed, file, durable, saved, tried, changes, starts>>

\* The process ends at any moment; a temporary file stays under its own name and
\* is never looked at again.
Dies ==
  /\ phase # "down"
  /\ phase' = "down" /\ state' = EmptyState /\ temporary' = NoFile
  /\ UNCHANGED <<flushed, file, durable, saved, tried, changes, starts>>

PowerLoss ==
  /\ phase' = "down" /\ state' = EmptyState /\ temporary' = NoFile
  /\ \E content \in durable : file' = content /\ durable' = {content}
  /\ UNCHANGED <<flushed, saved, tried, changes, starts>>

Next ==
  \/ Start \/ Dies \/ PowerLoss
  \/ \E e \in Sequences : ToggleCurrent(e) \/ \E now \in Times : Choose(e, now)
  \/ CreateTemporary \/ WriteTemporary \/ SyncTemporary \/ Rename \/ SyncDirectory
  \/ SaveFails

Spec == Init /\ [][Next]_vars

(***************************************************************************)
(* Properties.                                                             *)
(***************************************************************************)

Counts == 1 .. MaxChanges
Entries == [sequence : Sequences, useCount : Counts, lastUsed : Times]

IsState(s) == s \in Lists(Entries)

TypeOK ==
  /\ IsState(state) /\ IsState(saved)
  /\ phase \in Phases /\ flushed \in BOOLEAN
  /\ \A s \in tried : IsState(s)
  /\ \A content \in durable \cup {file, temporary} :
       content \in {NoFile, Torn} \/ IsState(content.state)
  /\ changes \in 0 .. MaxChanges /\ starts \in 0 .. MaxStarts

\* Whatever fails or crashes, now or after a power loss a start that can read the file
\* finds the state whose save was confirmed last, or one whose save was begun since:
\* never a torn file, never an older state.
FindsASavedState ==
  \A content \in durable \cup {file} : LoadedFrom(content) \in {saved} \cup tried

\* While no save is under way no temporary file is left, except by a crash.
NoLitter == phase = "idle" => temporary = NoFile

\* The recents are in order, without doubles and never too many, through any
\* clock: what the Recently Used category lists is always savable.
RecentsInOrder ==
  /\ \A i, j \in DOMAIN state.recents : i < j => Before(state.recents[i], state.recents[j])
  /\ Len(state.recents) <= MaximumEntries

\* Only too many favorites keep a state from being saved, and no start loads such
\* a state.
OnlyFavoritesBlock ==
  ~Serializable(state) => Len(state.favorites) > MaximumFavorites

\* A use drops at most one entry, only from a full list, and nothing that comes
\* before an entry that stays.
UseDropsTheLast ==
  [][\A e \in Sequences, now \in Times :
       Choose(e, now) =>
         \A r \in Range(state.recents) :
           r.sequence # e /\ ~(r \in Range(state'.recents)) =>
             /\ Len(state.recents) = MaximumEntries
             /\ \A kept \in Range(state'.recents) : Before(kept, r)]_vars
=============================================================================
