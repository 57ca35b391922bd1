-------------------------- MODULE TransformMessages --------------------------
(***************************************************************************)
(* ai/src/providers/transform-messages.ts, the second pass: how a          *)
(* transcript becomes the message list of a provider request.  Replies     *)
(* that were aborted or failed are left out, and a tool call that nobody   *)
(* answered gets an empty result before the next user or assistant         *)
(* message.  The first pass rewrites the text of blocks and renames call   *)
(* ids for another provider; ids are abstract here, so it changes nothing. *)
(*                                                                         *)
(* A message is a record with a role; an assistant message has a stop      *)
(* reason and the sequence of its calls, a result names the call it        *)
(* answers.                                                                *)
(***************************************************************************)
EXTENDS Naturals, Sequences, FiniteSets, SequencesExt

CallIds(m) == { m.calls[i].id : i \in DOMAIN m.calls }

\* pendingToolCalls and existingToolResultIds belong to the last assistant
\* message that was kept.
NothingPending == [out |-> <<>>, pendingToolCalls |-> <<>>, existingToolResultIds |-> {}]

Synthetic(call) == [role |-> "toolResult", call |-> call.id, err |-> TRUE]

\* Mutant: a call is given a synthetic result whether it has one or not.
SyntheticForAll(acc) ==
  [NothingPending EXCEPT !.out =
     acc.out \o [i \in DOMAIN acc.pendingToolCalls |-> Synthetic(acc.pendingToolCalls[i])]]

\* "No result provided", for each pending call without a result.
InsertSynthetic(acc) ==
  LET Insert(out, call) == IF call.id \in acc.existingToolResultIds
                           THEN out ELSE Append(out, Synthetic(call))
  IN  [NothingPending EXCEPT !.out = FoldLeft(Insert, acc.out, acc.pendingToolCalls)]

Skipped(m) == m.stop \in {"error", "aborted"}

AddMessage(acc, m) ==
  CASE m.role = "assistant" ->
         LET flushed == InsertSynthetic(acc)
         IN  IF Skipped(m) THEN flushed
             ELSE [flushed EXCEPT !.out = Append(@, m), !.pendingToolCalls = m.calls]
    [] m.role = "user" -> [InsertSynthetic(acc) EXCEPT !.out = Append(@, m)]
    [] OTHER -> [acc EXCEPT !.out = Append(@, m), !.existingToolResultIds = @ \cup {m.call}]

Transform(messages) == FoldLeft(AddMessage, NothingPending, messages).out

(***************************************************************************)
(* What a provider demands of a request.                                   *)
(***************************************************************************)
\* The results that directly follow message j.
Answers(request, j) ==
  { i \in (j + 1)..Len(request) : \A k \in (j + 1)..i : request[k].role = "toolResult" }

\* Each call of an assistant message is answered exactly once, directly after it,
\* and nothing else is answered there.
WellFormed(request) ==
  /\ \A j \in DOMAIN request : request[j].role = "assistant" =>
       /\ \A id \in CallIds(request[j]) :
            Cardinality({ i \in Answers(request, j) : request[i].call = id }) = 1
       /\ \A i \in Answers(request, j) : request[i].call \in CallIds(request[j])
  /\ \A i \in DOMAIN request : request[i].role = "toolResult" =>
       \E j \in 1..(i - 1) : request[j].role = "assistant" /\ i \in Answers(request, j)
=============================================================================
