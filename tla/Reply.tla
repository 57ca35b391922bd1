-------------------------------- MODULE Reply --------------------------------
(***************************************************************************)
(* What whoever reads a reply of a model may count on, whichever provider  *)
(* sends it (the protocol of AssistantMessageEvent, ai/src/types.ts): at   *)
(* most one start, before any block; the blocks numbered in the order they *)
(* start; text only for a block that is open; one end of the reply, and    *)
(* nothing after it.                                                       *)
(***************************************************************************)
EXTENDS Naturals, Sequences

VARIABLES phase,    \* "silent", "started", "over"
          blocks    \* the blocks that started, as [kind, open]

vars == <<phase, blocks>>

Kinds == {"text", "thinking", "toolCall"}

Init == phase = "silent" /\ blocks = <<>>

Start == phase = "silent" /\ phase' = "started" /\ UNCHANGED blocks

BlockStart(kind) == /\ phase = "started"
                    /\ blocks' = Append(blocks, [kind |-> kind, open |-> TRUE])
                    /\ UNCHANGED phase

\* Text arrives for an open block; what is in a block is not told apart here.
BlockDelta == phase = "started" /\ (\E i \in DOMAIN blocks : blocks[i].open) /\ UNCHANGED vars

BlockEnd(i) == /\ phase = "started" /\ blocks[i].open
               /\ blocks' = [blocks EXCEPT ![i].open = FALSE]
               /\ UNCHANGED phase

\* The final message or the error, with or without anything before it.
Over == phase # "over" /\ phase' = "over" /\ UNCHANGED blocks

Next == \/ Start \/ Over \/ BlockDelta
        \/ \E kind \in Kinds : BlockStart(kind)
        \/ \E i \in DOMAIN blocks : BlockEnd(i)

Spec == Init /\ [][Next]_vars
=============================================================================
