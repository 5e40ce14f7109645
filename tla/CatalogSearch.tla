---------------------------- MODULE CatalogSearch -----------------------------
(* The search of src/model/catalog.cpp: EmojiCatalog::search and what it calls. *)
(* A result is the index of a document; texts are bytes, as in Utf8.           *)
EXTENDS Utf8

CONSTANTS
  Documents,  \* per emoji its sequence and, per locale, its name and keywords
  Limit       \* the results a caller takes, 500 in EmojiListModel

English == 1  \* locales are numbered from one
Locales == DOMAIN Documents[1].names

ASSUME SearchAssumption ==
  /\ Documents # <<>> /\ Limit \in Nat
  /\ Documents \in Seq([sequence : Seq(Byte), names : [Locales -> Seq(Byte)],
                        keywords : [Locales -> Seq(Seq(Byte))]])
  /\ English \in Locales

\* split, for the space: where the parts begin that are not empty, and one of them.
Beginnings(text) == {i \in DOMAIN text : text[i] # Space /\ (i = 1 \/ text[i - 1] = Space)}
Part(text, i) ==
  SubSeq(text, i, Min({j \in i .. Len(text) + 1 : j = Len(text) + 1 \/ text[j] = Space}) - 1)

Occurs(part, text) ==
  \E i \in 1 .. (Len(text) - Len(part)) + 1 : SubSeq(text, i, (i + Len(part)) - 1) = part

\* How much of the needle a walk through the text finds, in order.
FoundIn(needle, text) ==
  FoldLeft(LAMBDA n, byte : IF n < Len(needle) /\ byte = needle[n + 1] THEN n + 1 ELSE n, 0, text)

NoMatch == -1

\* A mutant of TextScore: a word is found by its beginning alone.
ScoreOfWords(token, text, exact) ==
  CASE text = token                       -> exact
    [] IsStrictPrefix(token, text)        -> exact - 150
    [] OTHER                              -> NoMatch

TextScore(token, text, exact) ==
  IF text = <<>> THEN NoMatch
  ELSE IF text = token                       THEN exact
  ELSE IF IsPrefix(token, text)              THEN exact - 150
  ELSE IF Occurs(<<Space>> \o token, text)   THEN exact - 250
  ELSE IF Occurs(token, text)                THEN exact - 400
  ELSE IF Len(token) >= 3 /\ FoundIn(token, text) = Len(token) THEN exact - 750
  ELSE NoMatch

\* What the constructor keeps of each emoji: its texts, normalized once.
SearchDocuments ==
  [i \in DOMAIN Documents |->
     [names    |-> [l \in Locales |-> NormalizeForSearch(Documents[i].names[l])],
      keywords |-> [l \in Locales |->
                      {NormalizeForSearch(k) : k \in Range(Documents[i].keywords[l])}]]]

\* documentScore: the best score of the locale's texts and, a hundred lower, of the
\* English ones. A keyword that matches as a subsequence only scores below zero,
\* which search takes for no match.
DocumentScore(token, document, locale) ==
  LET exact(l) == IF l = locale THEN 1000 ELSE 900
      texts(l) == {<<document.names[l], exact(l)>>}
                  \cup {<<keyword, exact(l) - 300>> : keyword \in document.keywords[l]}
  IN Max({TextScore(token, t[1], t[2]) : t \in texts(locale) \cup texts(English)})

\* Every token must match; the scores add up.
TotalScore(text, document, locale) ==
  LET score == [i \in Beginnings(text) |-> DocumentScore(Part(text, i), document, locale)]
      total[n \in 0 .. Len(text)] ==
        IF n = 0 THEN 0 ELSE total[n - 1] + (IF n \in Beginnings(text) THEN score[n] ELSE 0)
  IN IF \E i \in Beginnings(text) : score[i] < 0 THEN NoMatch ELSE total[Len(text)]

\* The emoji that match the normalized query, with their scores.
Candidates(text, locale) ==
  {c \in {[index |-> i, score |-> TotalScore(text, SearchDocuments[i], locale)] :
            i \in DOMAIN Documents} : c.score # NoMatch}

\* The best come first, equals in the order of the catalog.
Better(c, d) == c.score > d.score \/ (c.score = d.score /\ c.index < d.index)

\* search: an emoji typed in full is the only result.
Search(query, locale) ==
  LET text       == NormalizeForSearch(query)
      exact      == {i \in DOMAIN Documents : Documents[i].sequence = query}
      candidates == Candidates(text, locale)
      Rank(c)    == Cardinality({d \in candidates : Better(d, c)})
  IN IF text = <<>> \/ Limit = 0 THEN <<>>
     ELSE IF exact # {} THEN <<Min(exact)>>
     ELSE [k \in 1 .. Min({Limit, Cardinality(candidates)}) |->
             (CHOOSE c \in candidates : Rank(c) = k - 1).index]

(***************************************************************************)
(* A property.                                                             *)
(***************************************************************************)

\* Search "across" the whole catalog (README.md): as long as the limit cuts nothing
\* off, an emoji is found by its name and its keywords, in the locale and in
\* English, unless the text is nothing but separators or itself an emoji; and under
\* any limit one whose name is the single word that was typed comes first.
Finds(i, locale) ==
  LET name    == Documents[i].names[locale]
      texts   == UNION {{Documents[i].names[l]} \cup Range(Documents[i].keywords[l]) :
                          l \in {locale, English}}
      typed   == {text \in texts : /\ NormalizeForSearch(text) # <<>>
                                   /\ \A j \in DOMAIN Documents : Documents[j].sequence # text}
      Name(j) == SearchDocuments[j].names[locale]
  IN /\ \A text \in typed :
          LET found == Search(text, locale)
          IN Len(found) < Limit => i \in Range(found)
     /\ name \in typed /\ Limit > 0 /\ Cardinality(Beginnings(Name(i))) = 1 =>
          Name(Search(name, locale)[1]) = Name(i)
=============================================================================
