----------------------------- MODULE EditMatching -----------------------------
(***************************************************************************)
(* What the edit tool makes of a file (edit.ts, edit-diff.ts): line        *)
(* endings, the two ways a text is looked for, and the edits of one call,  *)
(* which are all matched before any is applied.  A text is a sequence of   *)
(* characters; "A" stands for those that are not distinguished from "a"    *)
(* when the match is fuzzy, and "\r\n" is one character, "\r" one that no   *)
(* "\n" follows.                                                           *)
(***************************************************************************)
EXTENDS Naturals, Sequences, SequencesExt

CONSTANTS Files,    \* contents of files
          OldTexts, \* what edits look for, with "\n" for the ends of lines
          NewTexts  \* the pairs of texts they put there

VARIABLES file,     \* the file
          edits,    \* the edits of the call: [oldText, newText]
          called    \* what came of it: "no", "failed", "edited"

vars == <<file, edits, called>>

Init == /\ file \in Files
        /\ \E o1, o2 \in OldTexts, n \in NewTexts :
             edits = << [oldText |-> o1, newText |-> n[1]], [oldText |-> o2, newText |-> n[2]] >>
        /\ called = "no"

(***************************************************************************)
(* Line endings.                                                           *)
(***************************************************************************)
NormalizeToLF(text) == ReplaceAll(ReplaceAll(text, "\r\n", "\n"), "\r", "\n")

\* The first end of a line is that of the file; a "\r" alone is not looked at.
DetectLineEnding(text) ==
  LET ends == SelectSeq(text, LAMBDA c : c \in {"\n", "\r\n"})
  IN  IF ends = <<>> THEN "\n" ELSE Head(ends)

RestoreLineEndings(text, ending) == ReplaceAll(text, "\n", ending)

(***************************************************************************)
(* Looking for a text.                                                     *)
(***************************************************************************)
\* normalizeForFuzzyMatch: blanks at the end of a line go, variants become one.
NormalizeForFuzzyMatch(text) ==
  LET IsTrailing(i) == /\ text[i] = " "
                       /\ \A j \in i..Len(text) :
                            (\A k \in i..j : text[k] # "\n") => text[j] = " "
      kept == SetToSortSeq({ i \in DOMAIN text : ~IsTrailing(i) }, <)
  IN  ReplaceAll([ k \in DOMAIN kept |-> text[kept[k]] ], "A", "a")

IsAt(part, text, i) == i + Len(part) <= Len(text) /\ SubSeq(text, i + 1, i + Len(part)) = part

\* indexOf, of a part that is there.
Places(part, text) == { i \in 0..Len(text) : IsAt(part, text, i) }
IndexOf(part, text) == CHOOSE i \in Places(part, text) : \A j \in Places(part, text) : i <= j

\* split(part).length - 1: the places that are found from left to right.
CountIn(part, text) ==
  LET count[i \in 0..Len(text)] ==
        IF i = Len(text) THEN 0
        ELSE IF IsAt(part, text, i) THEN 1 + count[i + Len(part)] ELSE count[i + 1]
  IN  IF part = <<>> THEN Len(text) - 1 ELSE count[0]

\* fuzzyFindText: the exact text, or else its place in the normalised content.
FuzzyFindText(text, part) ==
  LET fuzzyPart == NormalizeForFuzzyMatch(part)
      fuzzyText == NormalizeForFuzzyMatch(text)
  IN  IF Places(part, text) # {}
      THEN [found |-> TRUE, fuzzy |-> FALSE, at |-> IndexOf(part, text), length |-> Len(part)]
      ELSE IF Places(fuzzyPart, fuzzyText) # {}
      THEN [found |-> TRUE, fuzzy |-> TRUE, at |-> IndexOf(fuzzyPart, fuzzyText),
            length |-> Len(fuzzyPart)]
      ELSE [found |-> FALSE, fuzzy |-> FALSE, at |-> 0, length |-> 0]

CountOccurrences(text, part) ==
  CountIn(NormalizeForFuzzyMatch(part), NormalizeForFuzzyMatch(text))

(***************************************************************************)
(* applyEditsToNormalizedContent.                                          *)
(***************************************************************************)
\* The content all edits are matched against.
BaseContent(text, es) ==
  IF \E i \in DOMAIN es : FuzzyFindText(text, es[i].oldText).fuzzy
  THEN NormalizeForFuzzyMatch(text) ELSE text

Matched(base, es) ==
  [ i \in DOMAIN es |-> [ at |-> FuzzyFindText(base, es[i].oldText).at,
                          length |-> FuzzyFindText(base, es[i].oldText).length,
                          newText |-> es[i].newText ] ]

\* The sort is stable: edits at one place stay in their order.
Sorted(ms) == IF ms[1].at <= ms[2].at THEN ms ELSE << ms[2], ms[1] >>

Overlap(ms) == ms[1].at + ms[1].length > ms[2].at

\* substring(0, at) and substring(at + length); both stop at the end of the text.
Replace(text, m) ==
  SubSeq(text, 1, Min({m.at, Len(text)})) \o m.newText \o SubSeq(text, m.at + m.length + 1, Len(text))

\* Mutant: the first edit is applied first, and moves the place of the second.
FirstFirst(base, ms) == Replace(Replace(base, ms[1]), ms[2])

\* In reverse order, so that places stay where they are.
Applied(base, ms) == Replace(Replace(base, ms[2]), ms[1])

\* The edits of a call on a content, or why they fail.
ApplyEdits(text, es) ==
  LET base == BaseContent(text, es)
      ms == Sorted(Matched(base, es))
      new == Applied(base, ms)
      fails == \/ \E i \in DOMAIN es :
                    \/ es[i].oldText = <<>>
                    \/ ~FuzzyFindText(base, es[i].oldText).found
                    \/ CountOccurrences(base, es[i].oldText) > 1
               \/ Overlap(ms)
               \/ new = base
  IN  [ok |-> ~fails, base |-> base, new |-> new]

\* The tool: the file is written unless an edit fails.
Edit ==
  /\ called = "no"
  /\ LET applied == ApplyEdits(NormalizeToLF(file), edits)
     IN  IF applied.ok
         THEN /\ file' = RestoreLineEndings(applied.new, DetectLineEnding(file))
              /\ called' = "edited"
         ELSE UNCHANGED file /\ called' = "failed"
  /\ UNCHANGED edits

Next == Edit
Spec == Init /\ [][Next]_vars

(***************************************************************************)
(* Properties.                                                             *)
(***************************************************************************)
\* text is before, the first old text, between, the second old text, after; and with
\* the new texts in the places of the old ones it is new.
Replaces(text, es, new) ==
  \E i \in 0..Len(text) : \E j \in i..Len(text) : \E k \in j..Len(text) : \E l \in k..Len(text) :
    /\ NormalizeForFuzzyMatch(SubSeq(text, i + 1, j)) = NormalizeForFuzzyMatch(es[1].oldText)
    /\ NormalizeForFuzzyMatch(SubSeq(text, k + 1, l)) = NormalizeForFuzzyMatch(es[2].oldText)
    /\ new = SubSeq(text, 1, i) \o es[1].newText \o SubSeq(text, j + 1, k)
             \o es[2].newText \o SubSeq(text, l + 1, Len(text))

Turned(es) == << es[2], es[1] >>

\* The edits as they read in a file with its own line endings.
Restored(es) ==
  LET ending == DetectLineEnding(file)
  IN  [ i \in DOMAIN es |-> [ oldText |-> RestoreLineEndings(es[i].oldText, ending),
                              newText |-> RestoreLineEndings(es[i].newText, ending) ] ]

Ends == {"\n", "\r\n", "\r"}
EndsAre(text, ending) == Range(text) \cap Ends \subseteq {ending}

FoundAsTheyAre(text) == \A i \in DOMAIN edits : ~FuzzyFindText(text, edits[i].oldText).fuzzy

\* The edits of a call are one change of the file: each text that was looked for is
\* replaced where it was, whatever the other edit puts in or how long that is; the
\* order of the edits makes no difference; and a file whose lines all end in "\n", or
\* all in "\r\n", keeps everything else, to the ends of its lines, if the texts were
\* found as they are.  In any other file, those with a lone "\r" among them, all lines
\* end like the first one that does not end in "\r".
\* (A text of blanks only is found at the start of any file of two characters.)
EditsAreSimultaneous ==
  [][ LET text == NormalizeToLF(file)
          base == BaseContent(text, edits)
          new == NormalizeToLF(file')
          blank == \E i \in DOMAIN edits : NormalizeForFuzzyMatch(edits[i].oldText) = <<>>
      IN  called' = "edited" /\ ~blank =>
            /\ Replaces(base, edits, new) \/ Replaces(base, Turned(edits), new)
            /\ ApplyEdits(text, Turned(edits)) = ApplyEdits(text, edits)
            /\ EndsAre(file', DetectLineEnding(file))
            /\ EndsAre(file, DetectLineEnding(file)) /\ FoundAsTheyAre(text) =>
                 \/ Replaces(file, Restored(edits), file')
                 \/ Replaces(file, Restored(Turned(edits)), file')
    ]_vars
=============================================================================
