---------------------------- MODULE GlyphCoverage -----------------------------
(* src/core/glyph_coverage.cpp: what an emoji sequence lacks in a font, and    *)
(* the label of the tile that is drawn instead. A probe is the set of the code *)
(* points it answers for with true; there always is one, since setGlyphProbe    *)
(* takes the system's for a null probe.                                         *)
EXTENDS Utf8

\* The zero-width joiner, the variation selectors, the tag characters.
IsNonRenderingCodepoint(c) ==
  c = 8205 \/ c \in 65024 .. 65039 \/ c \in 917536 .. 917631

Renderable == [renderable |-> TRUE, missing |-> <<>>]

\* Where a code point needs a glyph and has none.
Gaps(codepoints, probe) ==
  {i \in DOMAIN codepoints : ~IsNonRenderingCodepoint(codepoints[i]) /\ codepoints[i] \notin probe}

\* The first gap is reported; of what is no text, only that it cannot be drawn.
InspectGlyphCoverage(sequence, probe) ==
  LET codepoints == Decode(sequence)
      gaps       == Gaps(codepoints, probe)
  IN IF codepoints \in {Nothing, <<>>} THEN [renderable |-> FALSE, missing |-> <<>>]
     ELSE IF gaps = {} THEN Renderable
     ELSE [renderable |-> FALSE, missing |-> <<codepoints[Min(gaps)]>>]

\* The hexadecimal digits of a code point, by their values; at least four.
Digits(c) ==
  LET n       == IF c < 65536 THEN 4 ELSE IF c < 1048576 THEN 5 ELSE 6
      weights == <<1, 16, 256, 4096, 65536, 1048576>>
  IN [i \in 1 .. n |-> (c \div weights[(n - i) + 1]) % 16]

\* A mutant of MissingGlyphLabel: the digits come in the order they are found.
LabelBackwards(coverage) ==
  IF coverage.missing = <<>> THEN <<>> ELSE Reverse(Digits(coverage.missing[1]))

MissingGlyphLabel(coverage) ==
  IF coverage.missing = <<>> THEN <<>> ELSE Digits(coverage.missing[1])

(***************************************************************************)
(* A property.                                                             *)
(***************************************************************************)

\* The number that digits stand for.
NumberNamed(digits) ==
  LET number[i \in 0 .. Len(digits)] == IF i = 0 THEN 0 ELSE 16 * number[i - 1] + digits[i]
  IN number[Len(digits)]

\* The label of a tile leads to the glyph: its digits are a code point of the
\* sequence which every font that draws the sequence has; and a font with a glyph
\* for all that has one draws it, whatever joins and varies them
\* ("Placeholders disappear on their own once the installed emoji font gains the
\* glyphs", README.md).
NamesTheGap(codepoints, fonts) ==
  LET text   == Encode(codepoints)
      needed == {c \in Range(codepoints) : ~IsNonRenderingCodepoint(c)}
  IN \A font \in fonts :
       LET coverage == InspectGlyphCoverage(text, font)
           label    == MissingGlyphLabel(coverage)
       IN IF text = <<>> THEN ~coverage.renderable
          ELSE IF coverage.renderable THEN needed \subseteq font
          ELSE /\ Len(label) >= 4
               /\ NumberNamed(label) \in needed \ font
               /\ \A other \in fonts :
                    InspectGlyphCoverage(text, other).renderable => NumberNamed(label) \in other
=============================================================================
