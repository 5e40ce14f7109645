--------------------------- MODULE MCPaletteWindow ----------------------------
(* Four emoji in two categories: one with a variant, one whose base the        *)
(* catalog lacks; a fifth emoji that only the lists know.                      *)
EXTENDS PaletteWindow, TLC

MCCategories == <<"RecentlyUsed", "Favorites", "Smileys", "Animals">>

Emoji(e, category, base) == [sequence |-> e, category |-> category, base |-> base]

MCCatalog == <<Emoji(1, "Smileys", 0), Emoji(2, "Smileys", 1), Emoji(3, "Animals", 0),
               Emoji(4, "Smileys", 6)>>

\* A word that three of them have, the best match first; a word nothing has.
MCResults == [query \in {"cat"} |-> <<3, 2, 1>>] @@ [query \in {"xyz"} |-> <<>>]

MCViews  == {[columns |-> 2, rows |-> 1], [columns |-> 1, rows |-> 2]}
MCUnlaid == [columns |-> 1, rows |-> 0]

MCStoredStates ==
  {EmptyState,
   [favorites |-> <<5, 3>>,
    recents |-> <<[sequence |-> 5, useCount |-> 2, lastUsed |-> 1],
                  [sequence |-> 2, useCount |-> 1, lastUsed |-> 1]>>]}
=============================================================================
