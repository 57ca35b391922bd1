-------------------------------- MODULE Editor --------------------------------
(***************************************************************************)
(* tui/src/components/editor.ts, kill-ring.ts and undo-stack.ts: the text   *)
(* of the prompt, its cursor, and what the keys do to them.  The lines of   *)
(* a text that is yanked, killed or put in are a sequence, too.            *)
(*                                                                         *)
(* Left out: widths, scrolling and sticky columns; paste markers, which    *)
(* are texts like others; when completions are offered; a backslash before *)
(* Enter.                                                                  *)
(***************************************************************************)
EXTENDS Integers, FiniteSetsExt, SequencesExt

CONSTANTS Letters,     \* of words
          Blanks,      \* white space
          Typed,       \* the characters that are typed
          Texts,       \* what programs, pastes and completions put in, as lines
          KilledBefore, PromptsBefore,  \* kill rings and histories to begin with
          MaxHistory,  \* how many prompts are kept: 100
          MaxPrefix,   \* bound: what a completion replaces
          MaxChanges   \* bound: changes of the text other than undo and browsing

VARIABLES state,         \* the lines and the cursor
          undoStack, killRing, lastAction,
          history,       \* the latest first
          historyIndex,  \* 0 when the history is not browsed
          changes

vars == <<state, undoStack, killRing, lastAction, history, historyIndex, changes>>

At(lines, line, col) == [lines |-> lines, cursorLine |-> line, cursorCol |-> col]
Nothing == <<<<>>>>
Newline == <<<<>>, <<>>>>
Empty == At(Nothing, 1, 0)

\* The lines of one text followed by another.
Joined(t, u) == Front(t) \o <<Last(t) \o Head(u)>> \o Tail(u)

Line(s) == s.lines[s.cursorLine]
Before(s) == SubSeq(Line(s), 1, s.cursorCol)
After(s) == SubSeq(Line(s), s.cursorCol + 1, Len(Line(s)))
\* Lines i to j give way to others.
Splice(lines, i, j, new) == SubSeq(lines, 1, i - 1) \o new \o SubSeq(lines, j + 1, Len(lines))
\* The cursor's line gives way to one line, and the cursor is put at a column of it.
Rewritten(line, col) ==
  At(Splice(state.lines, state.cursorLine, state.cursorLine, <<line>>), state.cursorLine, col)

\* insertTextAtCursorInternal and insertYankedText.
Inserted(s, new) ==
  IF Len(new) = 1
  THEN At(Splice(s.lines, s.cursorLine, s.cursorLine, <<Before(s) \o new[1] \o After(s)>>),
          s.cursorLine, s.cursorCol + Len(new[1]))
  ELSE At(Splice(s.lines, s.cursorLine, s.cursorLine,
                 <<Before(s) \o Head(new)>> \o Tail(Front(new)) \o <<Last(new) \o After(s)>>),
          s.cursorLine + Len(new) - 1, Len(Last(new)))

\* Mutant: of several lines yanked, the first is looked for at the start of its line.
YankedFromStart(s, text) == 0

YankStartCol(s, text) ==
  IF Len(text) = 1 THEN s.cursorCol - Len(text[1])
  ELSE Len(s.lines[s.cursorLine - (Len(text) - 1)]) - Len(text[1])

\* deleteYankedText.
WithoutYanked(s, text) ==
  LET startLine == s.cursorLine - (Len(text) - 1)
      startCol == YankStartCol(s, text)
  IN  At(Splice(s.lines, startLine, s.cursorLine,
                <<SubSeq(s.lines[startLine], 1, startCol) \o After(s)>>), startLine, startCol)

MergedWithPrevious ==
  LET previous == state.lines[state.cursorLine - 1]
  IN  At(Splice(state.lines, state.cursorLine - 1, state.cursorLine, <<previous \o Line(state)>>),
         state.cursorLine - 1, Len(previous))
MergedWithNext ==
  At(Splice(state.lines, state.cursorLine, state.cursorLine + 1,
            <<Line(state) \o state.lines[state.cursorLine + 1]>>),
     state.cursorLine, state.cursorCol)

\* moveWordBackwards and moveWordForwards: past white space, and then past a word, or
\* past what is neither.
Class(c) == IF c \in Blanks THEN "blank" ELSE IF c \in Letters THEN "word" ELSE "punctuation"
WordStart ==
  LET line == Line(state)
      end == Max({0} \union { i \in 1..state.cursorCol : Class(line[i]) # "blank" })
  IN  Max({0} \union { i \in 1..end : Class(line[i]) # Class(line[end]) })
WordEnd ==
  LET line == Line(state)
      past(i, class) == Min({ j \in i..(Len(line) + 1) :
                              j = Len(line) + 1 \/ Class(line[j]) # class })
      start == past(state.cursorCol + 1, "blank")
  IN  IF start > Len(line) THEN Len(line) ELSE past(start, Class(line[start])) - 1

(***************************************************************************)
(* Undo: a snapshot before each change, of the state as it was.            *)
(***************************************************************************)
PushUndoSnapshot == undoStack' = Append(undoStack, state)

MayChange == changes < MaxChanges /\ changes' = changes + 1

\* A change with a snapshot, after which nothing is carried on.
Changed(new) ==
  /\ MayChange
  /\ PushUndoSnapshot
  /\ state' = new /\ lastAction' = "none" /\ historyIndex' = 0
  /\ UNCHANGED <<killRing, history>>

\* A letter after another belongs to what the other's snapshot takes back.
Coalesces(c) == c \notin Blanks /\ lastAction = "type-word"

InsertCharacter(c) ==
  /\ MayChange
  /\ IF Coalesces(c) THEN UNCHANGED undoStack ELSE PushUndoSnapshot
  /\ state' = Inserted(state, <<<<c>>>>)
  /\ lastAction' = "type-word" /\ historyIndex' = 0
  /\ UNCHANGED <<killRing, history>>

\* handlePaste, and insertTextAtCursor for programs.
InsertText(text) == Changed(Inserted(state, text))

AddNewLine == Changed(Inserted(state, Newline))

\* applyCompletion: what precedes the cursor gives way to the item that was chosen.  It
\* may be shorter or longer than what the list was made for.
Complete(item, prefix) ==
  /\ prefix <= state.cursorCol
  /\ MayChange
  /\ PushUndoSnapshot
  /\ state' = Rewritten(SubSeq(Line(state), 1, state.cursorCol - prefix) \o item \o After(state),
                        state.cursorCol - prefix + Len(item))
  /\ lastAction' = "none"
  /\ UNCHANGED <<killRing, history, historyIndex>>

EndOf(lines) == At(lines, Len(lines), Len(Last(lines)))

SetText(text) ==
  /\ MayChange
  /\ IF text = state.lines THEN UNCHANGED undoStack ELSE PushUndoSnapshot
  /\ state' = EndOf(text) /\ lastAction' = "none" /\ historyIndex' = 0
  /\ UNCHANGED <<killRing, history>>

\* A key that finds nothing to delete still ends the browsing of the history.
Nowhere(last) == /\ lastAction' = last /\ historyIndex' = 0
                 /\ UNCHANGED <<state, undoStack, killRing, history, changes>>
AtStart == state.cursorCol = 0 /\ state.cursorLine = 1
AtEnd == After(state) = <<>> /\ state.cursorLine = Len(state.lines)

HandleBackspace ==
  \/ AtStart /\ Nowhere("none")
  \/ /\ state.cursorCol > 0
     /\ Changed(Rewritten(Front(Before(state)) \o After(state), state.cursorCol - 1))
  \/ state.cursorCol = 0 /\ state.cursorLine > 1 /\ Changed(MergedWithPrevious)

HandleForwardDelete ==
  \/ AtEnd /\ Nowhere("none")
  \/ /\ After(state) # <<>>
     /\ Changed(Rewritten(Before(state) \o Tail(After(state)), state.cursorCol))
  \/ After(state) = <<>> /\ state.cursorLine < Len(state.lines) /\ Changed(MergedWithNext)

(***************************************************************************)
(* The kill ring.                                                          *)
(***************************************************************************)
\* KillRing.push.
Pushed(text, prepend) ==
  IF lastAction = "kill" /\ killRing # <<>>
  THEN Append(Front(killRing), IF prepend THEN Joined(text, Last(killRing))
                                          ELSE Joined(Last(killRing), text))
  ELSE Append(killRing, text)

Killing(text, prepend, new) ==
  /\ MayChange
  /\ PushUndoSnapshot
  /\ killRing' = Pushed(text, prepend)
  /\ state' = new /\ lastAction' = "kill" /\ historyIndex' = 0
  /\ UNCHANGED history

KillBackTo(col) ==
  \/ AtStart /\ Nowhere(lastAction)
  \/ /\ state.cursorCol > 0
     /\ Killing(<<SubSeq(Line(state), col + 1, state.cursorCol)>>, TRUE,
                Rewritten(SubSeq(Line(state), 1, col) \o After(state), col))
  \/ /\ state.cursorCol = 0 /\ state.cursorLine > 1
     /\ Killing(Newline, TRUE, MergedWithPrevious)
KillOnTo(col) ==
  \/ AtEnd /\ Nowhere(lastAction)
  \/ /\ After(state) # <<>>
     /\ Killing(<<SubSeq(Line(state), state.cursorCol + 1, col)>>, FALSE,
                Rewritten(Before(state) \o SubSeq(Line(state), col + 1, Len(Line(state))),
                          state.cursorCol))
  \/ /\ After(state) = <<>> /\ state.cursorLine < Len(state.lines)
     /\ Killing(Newline, FALSE, MergedWithNext)

DeleteToStartOfLine == KillBackTo(0)
DeleteWordBackwards == KillBackTo(WordStart)
DeleteToEndOfLine == KillOnTo(Len(Line(state)))
DeleteWordForward == KillOnTo(WordEnd)

Yank ==
  /\ killRing # <<>>
  /\ MayChange
  /\ PushUndoSnapshot
  /\ state' = Inserted(state, Last(killRing))
  /\ lastAction' = "yank" /\ historyIndex' = 0
  /\ UNCHANGED <<killRing, history>>

Rotated == <<Last(killRing)>> \o Front(killRing)

YankPop ==
  /\ lastAction = "yank" /\ Len(killRing) > 1
  /\ MayChange
  /\ PushUndoSnapshot
  /\ killRing' = Rotated
  /\ state' = Inserted(WithoutYanked(state, Last(killRing)), Last(Rotated))
  /\ historyIndex' = 0
  /\ UNCHANGED <<lastAction, history>>

(***************************************************************************)
(* The cursor, undo, the history, and the end of a prompt.                 *)
(***************************************************************************)
\* A line up or down, or a page, ends at a column of some line that depends on widths;
\* the other keys go where they say.
Positions ==
  UNION { { <<l, c>> : c \in 0..Len(state.lines[l]) } : l \in DOMAIN state.lines }
Move ==
  /\ \E p \in Positions : state' = At(state.lines, p[1], p[2])
  /\ lastAction' = "none"
  /\ UNCHANGED <<undoStack, killRing, history, historyIndex, changes>>

Undo ==
  /\ historyIndex' = 0
  /\ IF undoStack = <<>>
     THEN UNCHANGED <<state, undoStack, lastAction>>
     ELSE /\ state' = Last(undoStack) /\ undoStack' = Front(undoStack)
          /\ lastAction' = "none"
  /\ UNCHANGED <<killRing, history, changes>>

\* Mutant: no snapshot is taken when the history is entered.
EntersAnyway == FALSE

EntersHistory == historyIndex = 0

\* Up in an empty editor, or at the top of a text of the history; down at its bottom.
NavigateHistory(up) ==
  LET newIndex == historyIndex + (IF up THEN 1 ELSE -1)
  IN  /\ EntersHistory => Len(undoStack) <= MaxChanges
      /\ IF up THEN state = Empty \/ (historyIndex > 0 /\ state.cursorLine = 1)
               ELSE historyIndex > 0 /\ state.cursorLine = Len(state.lines)
      /\ lastAction' = "none"
      /\ IF newIndex \in 0..Len(history)
         THEN /\ IF EntersHistory THEN PushUndoSnapshot ELSE UNCHANGED undoStack
              /\ historyIndex' = newIndex
              /\ state' = IF newIndex = 0 THEN Empty ELSE EndOf(history[newIndex])
         ELSE UNCHANGED <<state, undoStack, historyIndex>>
      /\ UNCHANGED <<killRing, history, changes>>

\* White space around a prompt is trimmed.
Trimmed(lines) ==
  LET written(l) == { c \in DOMAIN lines[l] : lines[l][c] \notin Blanks }
      first == Min({ l \in DOMAIN lines : written(l) # {} })
      last == Max({ l \in DOMAIN lines : written(l) # {} })
      head == SubSeq(lines[first], Min(written(first)), Len(lines[first]))
      tail == SubSeq(lines[last], 1, Max(written(last)))
  IN  IF \A l \in DOMAIN lines : written(l) = {} THEN Nothing
      ELSE IF first = last THEN <<SubSeq(tail, Min(written(first)), Len(tail))>>
      ELSE <<head>> \o SubSeq(lines, first + 1, last - 1) \o <<tail>>

AddToHistory(text) ==
  IF text = Nothing \/ (history # <<>> /\ Head(history) = text) THEN history
  ELSE SubSeq(<<text>> \o history, 1, Min({Len(history) + 1, MaxHistory}))

\* The owner adds what is submitted to the history.  What happens in the next prompt is
\* left to another behaviour, which begins with its history and kill ring.
SubmitValue ==
  /\ state' = Empty /\ undoStack' = <<>> /\ lastAction' = "none" /\ historyIndex' = 0
  /\ history' = AddToHistory(Trimmed(state.lines))
  /\ changes' = MaxChanges
  /\ UNCHANGED killRing

\* Earlier prompts have left their texts in the history, and what was killed in them.
Init ==
  /\ state = Empty
  /\ undoStack = <<>> /\ lastAction = "none"
  /\ killRing \in KilledBefore /\ history \in PromptsBefore
  /\ historyIndex = 0 /\ changes = 0

Next ==
  \/ \E c \in Typed : InsertCharacter(c)
  \/ \E text \in Texts : InsertText(text) \/ SetText(text)
  \/ \E text \in Texts, prefix \in 0..MaxPrefix : Len(text) = 1 /\ Complete(text[1], prefix)
  \/ AddNewLine \/ HandleBackspace \/ HandleForwardDelete
  \/ DeleteToStartOfLine \/ DeleteWordBackwards \/ DeleteToEndOfLine \/ DeleteWordForward
  \/ Yank \/ YankPop \/ Move \/ Undo \/ SubmitValue
  \/ \E up \in BOOLEAN : NavigateHistory(up)

Spec == Init /\ [][Next]_vars

TypeOK ==
  /\ state.cursorLine \in DOMAIN state.lines
  /\ state.cursorCol \in 0..Len(Line(state))
  /\ \A i \in DOMAIN undoStack : LET s == undoStack[i]
                                IN s.cursorLine \in DOMAIN s.lines /\ s.cursorCol \in 0..Len(Line(s))
  /\ historyIndex \in 0..Len(history)
  /\ lastAction \in {"none", "type-word", "kill", "yank"}

\* Undo leads back to where the prompt began: while there is any text, there is
\* something to undo, whatever was typed on, browsed, yanked or completed in between,
\* and the last thing it leads to is the empty prompt.
UndoLeadsBack ==
  /\ undoStack = <<>> => state.lines = Nothing
  /\ undoStack # <<>> => Head(undoStack).lines = Nothing

(***************************************************************************)
(* Over lines, the editor does what EditBuffer says of one text: what is   *)
(* killed in one go comes back in one piece, a yank-pop takes out exactly   *)
(* what was yanked, and every change can be undone in order.               *)
(***************************************************************************)
Flat(lines) == FoldLeft(LAMBDA t, l : t \o <<"newline">> \o l, Head(lines), Tail(lines))
TextBefore(s) == Flat(Append(SubSeq(s.lines, 1, s.cursorLine - 1), Before(s)))
TextAfter(s) == Flat(<<After(s)>> \o SubSeq(s.lines, s.cursorLine + 1, Len(s.lines)))
Buffer == INSTANCE EditBuffer WITH
  before <- TextBefore(state), after <- TextAfter(state),
  undo <- [i \in DOMAIN undoStack |-> <<TextBefore(undoStack[i]), TextAfter(undoStack[i])>>],
  ring <- [i \in DOMAIN killRing |-> Flat(killRing[i])],
  last <- lastAction, browsing <- historyIndex > 0
ImplementsBuffer == Buffer!Spec
=============================================================================
