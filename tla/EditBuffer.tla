------------------------------ MODULE EditBuffer ------------------------------
(***************************************************************************)
(* What an editor with undo and a kill ring promises, over one text with a  *)
(* cursor in it.                                                           *)
(***************************************************************************)
EXTENDS SequencesExt

CONSTANTS Blanks

VARIABLES before, after,  \* the text before the cursor and after it
          undo,           \* the texts, each with its cursor, that undo goes back to
          ring,           \* what was killed, the latest last
          last,           \* what the last action was, if a later one depends on it
          browsing        \* the text is one of the history

vars == <<before, after, undo, ring, last, browsing>>

\* The ring is what earlier texts have left in it.
Init == /\ before = <<>> /\ after = <<>>
        /\ undo = <<>> /\ last = "none" /\ browsing = FALSE

Snapshot == undo' = Append(undo, <<before, after>>)

\* A change that undo takes back.
Change == /\ last' \in {"none", "type-word"} /\ browsing' \in {FALSE, browsing}
          /\ Snapshot
          /\ UNCHANGED ring

\* Letters typed one after the other are taken back together.
TypeOn == /\ last = "type-word"
          /\ before' # <<>> /\ before = Front(before') /\ Last(before') \notin Blanks
          /\ UNCHANGED <<after, undo, ring, last>> /\ browsing' = FALSE

\* Text next to the cursor is cut out; what is cut out in one go stays together.
Killed(text, backward) ==
  ring' = IF last # "kill" \/ ring = <<>> THEN Append(ring, text)
          ELSE Append(Front(ring), IF backward THEN text \o Last(ring) ELSE Last(ring) \o text)
Kill == /\ last' = "kill" /\ browsing' = FALSE /\ Snapshot
        /\ \/ /\ IsPrefix(before', before) /\ after' = after
              /\ Killed(SubSeq(before, Len(before') + 1, Len(before)), TRUE)
           \/ /\ IsSuffix(after', after) /\ before' = before
              /\ Killed(SubSeq(after, 1, Len(after) - Len(after')), FALSE)
        /\ <<before, after>>' # <<before, after>>

Yank == /\ ring # <<>> /\ last' = "yank" /\ browsing' = FALSE
        /\ before' = before \o Last(ring)
        /\ UNCHANGED <<after, ring>>
        /\ Snapshot

\* What was yanked, and nothing else, is replaced by what was killed before it.
YankPop == /\ last = "yank" /\ Len(ring) > 1
           /\ ring' = <<Last(ring)>> \o Front(ring)
           /\ \E kept \in {SubSeq(before, 1, Len(before) - Len(Last(ring)))} :
                /\ before = kept \o Last(ring)
                /\ before' = kept \o Last(ring')
           /\ UNCHANGED <<after, last>>
           /\ Snapshot /\ browsing' = FALSE

Move == /\ last' \in {"none", last} /\ browsing' \in {FALSE, browsing}
        /\ UNCHANGED <<undo, ring>>
        /\ before' \o after' = before \o after

Undo == /\ undo # <<>> /\ last' = "none" /\ browsing' = FALSE
        /\ <<before', after'>> = Last(undo) /\ undo' = Front(undo)
        /\ UNCHANGED ring

\* A text of the history gives way to another.
Browse == /\ browsing /\ last' = "none"
          /\ UNCHANGED <<undo, ring>>
BeginToBrowse == /\ ~browsing /\ browsing' /\ before = <<>> /\ after = <<>>
                 /\ Snapshot /\ last' = "none" /\ UNCHANGED ring

Submit == /\ before' = <<>> /\ after' = <<>> /\ undo' = <<>>
          /\ last' = "none" /\ browsing' = FALSE
          /\ UNCHANGED ring

Next == \/ Move \/ Change \/ TypeOn \/ Kill \/ Yank \/ YankPop \/ Undo
        \/ Browse \/ BeginToBrowse \/ Submit

Spec == Init /\ [][Next]_vars
=============================================================================
