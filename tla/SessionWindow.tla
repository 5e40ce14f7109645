---------------------------- MODULE SessionWindow -----------------------------
(* What the session (src/ui/palette_session.cpp) and its window agree on: when *)
(* the palette is on the screen, what its last Show asked for, which search    *)
(* text survives, which step closes a panel and which ends the transaction. No *)
(* lists, no keyboard, no messages: PaletteWindow implements it with the       *)
(* former, PaletteHelper in PaletteProtocol with the latter.                   *)

CONSTANTS
  Queries, NoQuery   \* search texts, and the empty one

VARIABLES
  serving,    \* the session has a transaction
  visible,    \* the palette is on the screen
  settings,   \* the settings panel is open
  closes,     \* close-after-selection of the last Show
  query       \* the search text that is listed

vars == <<serving, visible, settings, closes, query>>

Init ==
  /\ serving = FALSE /\ visible = FALSE /\ settings = FALSE /\ closes = FALSE
  /\ query = NoQuery

\* Only a palette that is still open keeps its search text and its panel.
Show ==
  /\ serving' = TRUE /\ visible' = TRUE /\ closes' \in BOOLEAN
  /\ query' = IF visible THEN query ELSE NoQuery
  /\ UNCHANGED settings

\* The transaction ends and takes the palette off the screen.
Withdraw ==
  /\ serving' = FALSE /\ visible' = FALSE /\ settings' = FALSE
  /\ UNCHANGED <<closes, query>>

Search == serving /\ query' \in Queries /\ UNCHANGED <<serving, visible, settings, closes>>

\* The panel's button, a press elsewhere, or an Escape that finds it open.
Settings ==
  /\ visible /\ settings' = ~settings
  /\ UNCHANGED <<serving, visible, closes, query>>

\* A choice ends the transaction; the palette stays for the next one if the option
\* says so. The pointer may also choose in a palette that waits for its next Show.
Choose ==
  /\ serving \/ (visible /\ ~settings)
  /\ IF closes THEN Withdraw
     ELSE serving' = FALSE /\ UNCHANGED <<visible, settings, closes, query>>

\* The helper ends; the next one starts with nothing.
Restart == Init'

Next == Show \/ Withdraw \/ Search \/ Settings \/ Choose \/ Restart

Spec == Init /\ [][Next]_vars
=============================================================================
