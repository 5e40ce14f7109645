-------------------------- MODULE InsertionPromise --------------------------
(* What the emoji palette promises the applications, without the helper, the   *)
(* bus or any message: an emoji is inserted only by an open transaction, into  *)
(* the focused context it was opened for, and closes it in the same step; what *)
(* disturbs that context closes the transaction in the same step.              *)
EXTENDS Naturals, Sequences

CONSTANTS
  Contexts, NoContext,
  Emoji   \* what may be inserted

VARIABLES
  opened,    \* transactions opened so far; they are numbered in order
  current,   \* the open one, or 0
  place,     \* the context it was opened for
  focused,   \* contexts with the input focus
  inserted   \* every insertion, in order

vars == <<opened, current, place, focused, inserted>>

Init ==
  /\ opened = 0 /\ current = 0 /\ place = NoContext
  /\ focused = {} /\ inserted = <<>>

Closes == current' = 0 /\ place' = NoContext

Opens(c) == current' = opened + 1 /\ place' = c

\* A new transaction, open for c; or at once closed, if the palette cannot be shown.
Open(c) ==
  /\ current = 0 /\ c \in focused
  /\ opened' = opened + 1
  /\ Opens(c) \/ Closes
  /\ UNCHANGED <<focused, inserted>>

\* One insertion ends its transaction. The palette may stay for another one, under
\* a new number, in the same context.
Insert(e) ==
  /\ current # 0 /\ place \in focused
  /\ inserted' = Append(inserted, [transaction |-> current, context |-> place, sequence |-> e])
  /\ \/ Closes /\ opened' \in {opened, opened + 1}
     \/ Opens(place) /\ opened' = opened + 1
  /\ UNCHANGED focused

\* A transaction may end without an insertion at any time.
Close == current # 0 /\ Closes /\ UNCHANGED <<opened, focused, inserted>>

Focus(c) == focused' = focused \cup {c} /\ UNCHANGED <<opened, current, place, inserted>>

\* A context loses the focus, is reset, or goes away.
Disturb(c) ==
  /\ focused' \in {focused, focused \ {c}}
  /\ IF c = place THEN Closes ELSE UNCHANGED <<current, place>>
  /\ UNCHANGED <<opened, inserted>>

\* The input method framework is restarted.
Restart == Closes /\ focused' = {} /\ UNCHANGED <<opened, inserted>>

Next ==
  \/ \E c \in Contexts : Open(c) \/ Focus(c) \/ Disturb(c)
  \/ \E e \in Emoji : Insert(e)
  \/ Close \/ Restart

Spec == Init /\ [][Next]_vars
=============================================================================
