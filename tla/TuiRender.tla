----------------------------- MODULE TuiRender -----------------------------
(***************************************************************************)
(* tui/src/tui.ts: differential rendering.  TUI keeps the lines it last    *)
(* wrote and where it believes the cursor is, and sends only what changed, *)
(* with moves relative to the cursor; the terminal scrolls and clamps.     *)
(*                                                                         *)
(* Rows of the content are counted from 0, as in the source.  The terminal *)
(* is modelled by what the sequences it is sent do to its screen.          *)
(***************************************************************************)
EXTENDS Integers, Sequences, SequencesExt, FiniteSetsExt

CONSTANTS Lines,        \* what a line of the content may be
          EmptyLine,    \* the one of them that compositeOverlays fills up with
          OverlayLine,  \* a line of an overlay
          Blank,        \* a row of the screen that was never written or was cleared
          Heights,      \* the heights the terminal may have
          MaxLines,     \* bound: lines of the content
          MaxRenders    \* bound: renders, resizes and forced renders

VARIABLES previousLines, previousViewportTop, hardwareCursorRow, maxLinesRendered,
          previousHeight,  \* and previousWidth: 0 at first, -1 when a render is forced
          clearOnShrink,
          screen,          \* the rows of the terminal
          cursor,          \* the row it writes to
          origin,          \* the row line 0 is in, negative once it has scrolled off
          height,          \* its rows
          overlays,        \* the lines of the content that show an overlay
          astray,          \* history: since the last clearing the cursor was sent off
                           \* the screen, or all the content was taken away
          renders          \* history: renders, resizes and forced renders

believed == <<previousLines, previousViewportTop, hardwareCursorRow, maxLinesRendered,
              previousHeight>>
terminal == <<screen, cursor, origin>>
vars == <<believed, clearOnShrink, terminal, height, overlays, astray, renders>>

(***************************************************************************)
(* The terminal: moves are clamped, a newline in the last row scrolls.     *)
(***************************************************************************)
Rows == 0..(height - 1)
BlankScreen == [r \in Rows |-> Blank]
Term == [screen |-> screen, cursor |-> cursor, origin |-> origin]
TermFromHere == [Term EXCEPT !.origin = cursor]
ClearedTerm == [screen |-> BlankScreen, cursor |-> 0, origin |-> 0]

Larger(a, b) == IF a > b THEN a ELSE b
Smaller(a, b) == IF a < b THEN a ELSE b
Clamp(row) == Larger(0, Smaller(height - 1, row))
MoveBy(term, n) == [term EXCEPT !.cursor = Clamp(@ + n)]

\* n lines, the first of them in the cursor's row, with newlines between them.
WriteLines(term, n, Line(_)) ==
  LET scrolled == Larger(0, term.cursor + n - height)
  IN  [screen |-> [r \in Rows |->
                     LET k == r + scrolled - term.cursor
                     IN  IF k \in 0..(n - 1) THEN Line(k)
                         ELSE IF r + scrolled \in Rows THEN term.screen[r + scrolled]
                         ELSE Blank],
       cursor |-> Clamp(term.cursor + Larger(0, n - 1)),
       origin |-> term.origin - scrolled]

\* n times: a row down, as far as there is one, and clear it.
ClearBelow(term, n) ==
  [term EXCEPT !.screen = [r \in Rows |-> IF \E k \in 1..n : r = Clamp(term.cursor + k)
                                          THEN Blank ELSE @[r]],
               !.cursor = Clamp(@ + n)]

(***************************************************************************)
(* The ways to render: what becomes of the terminal, previousViewportTop,  *)
(* the cursor's row and maxLinesRendered.                                  *)
(***************************************************************************)
Rendered(term, top, row, max) ==
  [term |-> term, top |-> top, row |-> row, max |-> max, cleared |-> FALSE]

FullRender(lines, clear) ==
  LET last == Len(lines) - 1
      Line(k) == lines[k + 1]
  IN  [Rendered(WriteLines(IF clear THEN ClearedTerm ELSE TermFromHere, Len(lines), Line),
                Larger(0, Len(lines) - height), Larger(0, last),
                Larger(Len(lines), IF clear THEN 0 ELSE maxLinesRendered))
       EXCEPT !.cleared = clear]

LineOf(lines, i) == IF i < Len(lines) THEN lines[i + 1] ELSE Blank
Changed(lines) ==
  { i \in 0..(Larger(Len(lines), Len(previousLines)) - 1) :
      LineOf(lines, i) # LineOf(previousLines, i) }
ExtraLines(lines) == Len(previousLines) - Len(lines)

\* No line changed: all that may move is the cursor.
NothingToWrite == Rendered(Term, previousViewportTop, hardwareCursorRow, maxLinesRendered)

\* All changes are in deleted lines: their rows are cleared from the row below the
\* content on.
DeleteLines(lines) ==
  LET end == Larger(0, Len(lines) - 1)
      clear == ClearBelow(MoveBy(Term, end - hardwareCursorRow), ExtraLines(lines))
  IN  Rendered(MoveBy(clear, -ExtraLines(lines)), previousViewportTop, end, maxLinesRendered)

\* From the first changed line to the last, then the rows of deleted lines.
Differential(lines) ==
  LET first == Min(Changed(lines))
      appendStart == first = Len(previousLines)
      renderEnd == Smaller(Max(Changed(lines)), Len(lines) - 1)
      extra == Larger(0, ExtraLines(lines))
      \* The cursor goes to the line before an appended one, which stays as it is.
      from == IF appendStart THEN first - 1 ELSE first
      atFirst == MoveBy(Term, from - hardwareCursorRow)
      Line(k) == IF from + k < first THEN screen[atFirst.cursor] ELSE LineOf(lines, from + k)
      written == WriteLines(atFirst, renderEnd + 1 + extra - from, Line)
      cleared == MoveBy(written, -extra)
  IN  Rendered(cleared, Larger(previousViewportTop, renderEnd - height + 1), renderEnd,
               Larger(maxLinesRendered, Len(lines)))

(***************************************************************************)
(* doRender: which of them it is.                                          *)
(***************************************************************************)
Resized == previousHeight \notin {0, height}

Shrunk(lines, stacked) == clearOnShrink /\ Len(lines) < maxLinesRendered /\ ~stacked

OnlyDeleted(lines) == Min(Changed(lines)) >= Len(lines)

\* Mutant: a changed line is within reach as long as the content has it.
AnyLineInReach(lines) == TRUE

\* What was scrolled off the screen can only be rewritten with all the rest.
InReach(lines) ==
  IF OnlyDeleted(lines)
  THEN Larger(0, Len(lines) - 1) >= previousViewportTop /\ ExtraLines(lines) <= height
  ELSE Min(Changed(lines)) >= previousViewportTop

DoRender(lines, stacked) ==
  IF previousLines = <<>> /\ ~Resized THEN FullRender(lines, FALSE)
  ELSE IF Resized \/ Shrunk(lines, stacked) THEN FullRender(lines, TRUE)
  ELSE IF Changed(lines) = {} THEN NothingToWrite
  ELSE IF ~InReach(lines) THEN FullRender(lines, TRUE)
  ELSE IF OnlyDeleted(lines) THEN DeleteLines(lines)
  ELSE Differential(lines)

\* compositeOverlays: the working area is filled up to what was ever rendered, and
\* the rows of an overlay are those of the viewport at its end.
WorkingHeight(content, rows) ==
  Max({maxLinesRendered, Len(content)} \union { row + 1 : row \in rows })
OverlayIndices(content, rows) ==
  { row + Larger(0, WorkingHeight(content, rows) - height) : row \in rows }
CompositeOverlays(content, rows) ==
  [k \in 1..WorkingHeight(content, rows) |->
     IF k - 1 \in OverlayIndices(content, rows) THEN OverlayLine
     ELSE IF k <= Len(content) THEN content[k] ELSE EmptyLine]

\* Where extractCursorPosition looks for the marker of the focused component.
CursorRows(lines) == Larger(0, Len(lines) - height)..(Len(lines) - 1)

(***************************************************************************)
(* The render of a next tick: any content, with or without a stack of      *)
(* overlays, of which the visible ones have the given rows, and with the   *)
(* cursor in any row that is looked at, or hidden.                         *)
(***************************************************************************)
RenderLines(lines, stacked) ==
  \E done \in { DoRender(lines, stacked) } :
    \E row \in CursorRows(lines) \union {done.row} :
        \* positionHardwareCursor
        /\ LET term == MoveBy(done.term, row - done.row)
           IN  screen' = term.screen /\ cursor' = term.cursor /\ origin' = term.origin
        /\ hardwareCursorRow' = row
        /\ astray' = \/ astray /\ ~done.cleared
                     \/ row + done.term.origin \notin Rows
                     \/ lines = <<>> /\ previousLines # <<>> /\ ~done.cleared
        /\ previousLines' = lines
        /\ previousViewportTop' = done.top
        /\ maxLinesRendered' = done.max
        /\ previousHeight' = height

Render ==
  \E content \in SeqOf(Lines, MaxLines), stacked \in BOOLEAN :
    \E rows \in { {} } \union (IF stacked THEN { {row} : row \in Rows } ELSE {}) :
      /\ \E lines \in { IF stacked THEN CompositeOverlays(content, rows) ELSE content } :
           RenderLines(lines, stacked)
      /\ overlays' = OverlayIndices(content, rows)
      /\ UNCHANGED <<clearOnShrink, height>>

\* What a terminal makes of its screen when it is resized is its own affair: the
\* render that follows, in the next tick, must clear it.
Resize ==
  \E h \in Heights :
    /\ previousHeight \in {0, height}
    /\ height' = h
    /\ h # height
    /\ screen' = [r \in 0..(h - 1) |-> IF r \in Rows THEN screen[r] ELSE Blank]
    /\ cursor' \in 0..(h - 1)
    /\ UNCHANGED <<believed, clearOnShrink, origin, overlays, astray>>

\* requestRender(true), as after an editor or a shell had the terminal.
ForceRender ==
  /\ previousLines' = <<>> /\ previousViewportTop' = 0 /\ hardwareCursorRow' = 0
  /\ maxLinesRendered' = 0 /\ previousHeight' = -1
  /\ cursor' \in Rows
  /\ UNCHANGED <<clearOnShrink, screen, origin, height, overlays, astray>>

\* A program starts below what its shell has written.
Init == /\ height \in Heights /\ clearOnShrink \in BOOLEAN
        /\ previousLines = <<>> /\ previousViewportTop = 0 /\ hardwareCursorRow = 0
        /\ maxLinesRendered = 0 /\ previousHeight = 0
        /\ screen = BlankScreen /\ cursor \in Rows /\ origin = cursor
        /\ overlays = {} /\ astray = FALSE /\ renders = 0

Next == renders < MaxRenders /\ renders' = renders + 1 /\ (Render \/ Resize \/ ForceRender)

Spec == Init /\ [][Next]_vars

TypeOK ==
  /\ previousLines \in Seq(Lines \union {EmptyLine, OverlayLine})
  /\ {previousViewportTop, hardwareCursorRow, maxLinesRendered, cursor, renders} \subseteq Nat
  /\ origin \in Int
  /\ height \in Heights /\ previousHeight \in Heights \union {0, -1}
  /\ screen \in [Rows -> Lines \union {EmptyLine, OverlayLine, Blank}]
  /\ overlays \subseteq Nat
  /\ {clearOnShrink, astray} \subseteq BOOLEAN

(***************************************************************************)
(* What the screen must be after a render that began with the cursor where *)
(* TUI believed it to be.                                                  *)
(***************************************************************************)
CursorTracked == cursor = origin + hardwareCursorRow
RowsShowLines == \A r \in Rows : r >= origin => screen[r] = LineOf(previousLines, r - origin)
EndInSight == previousLines # <<>> => origin + Len(previousLines) - 1 \in Rows
ReachInSight == origin + previousViewportTop >= 0
OverlaysInSight == \A i \in overlays : origin + i \in Rows

\* However renders, resizes, overlays and scrolling follow one another, differential
\* rendering leaves on the screen what a full redraw would: each row shows its line and
\* the rest is blank, the end of the content and every overlay are on the screen, and
\* the cursor is where the next render takes it to be.
ScreenShowsContent ==
  previousHeight = height /\ ~astray =>
    CursorTracked /\ RowsShowLines /\ EndInSight /\ ReachInSight /\ OverlaysInSight
=============================================================================
