------------------------------- MODULE Channel -------------------------------
(***************************************************************************)
(* What an asynchronous event stream promises its two ends, with no queue, *)
(* no waiters and no promises in it: events are accepted in some order     *)
(* until the stream is closed, and are taken, each once, in that order.    *)
(***************************************************************************)
EXTENDS Naturals, Sequences

CONSTANT Event

VARIABLES sent,    \* every event the stream accepted, in order
          taken,   \* how many of them have left the stream
          closed   \* no further event is accepted

vars == <<sent, taken, closed>>

Init == /\ sent = <<>>
        /\ taken = 0
        /\ closed = FALSE

\* An event is accepted; an event handed over at once is also taken.
Send(e, atOnce, last) ==
  /\ ~closed
  /\ atOnce => taken = Len(sent)
  /\ sent' = Append(sent, e)
  /\ taken' = IF atOnce THEN taken + 1 ELSE taken
  /\ closed' = last

Close == /\ closed' = TRUE
         /\ UNCHANGED <<sent, taken>>

Take == /\ taken < Len(sent)
        /\ taken' = taken + 1
        /\ UNCHANGED <<sent, closed>>

Next == \/ \E e \in Event, atOnce, last \in BOOLEAN : Send(e, atOnce, last)
        \/ Close
        \/ Take

SafeSpec == Init /\ [][Next]_vars

Spec == SafeSpec /\ WF_vars(Take)
=============================================================================
