--------------------------- MODULE AgentLoopProofs ---------------------------
(***************************************************************************)
(* Proofs about AgentLoop, for any number of requests, messages, runs and  *)
(* calls in a reply, any queue modes and both modes of tool execution: its *)
(* types, the loop's phases, what the model is shown and that a provider   *)
(* accepts it, where the user's messages are and in which order, what is   *)
(* edited, and the Agent's events.                                         *)
(***************************************************************************)
EXTENDS AgentLoop, SequenceTheorems, FiniteSetTheorems, FunctionTheorems, WellFoundedInduction,
        TLAPS

LEMMA LastOfAppend ==
  ASSUME NEW S, NEW s \in Seq(S), NEW e \in S
  PROVE  Append(s, e) # <<>> /\ Last(Append(s, e)) = e
  BY DEF Last

LEMMA FrontIsSeq ==
  ASSUME NEW S, NEW s \in Seq(S), s # <<>>
  PROVE  Front(s) \in Seq(S)
  BY SubSeqProperties DEF Front

LEMMA DrainType ==
  ASSUME NEW S, NEW q \in Seq(S), NEW mode
  PROVE  Drain(q, mode).msgs \in Seq(S) /\ Drain(q, mode).rest \in Seq(S)
  <1>1. CASE mode = "all" \/ q = <<>>
    BY <1>1, EmptySeq DEF Drain
  <1>2. CASE ~(mode = "all" \/ q = <<>>)
    <2>1. SubSeq(q, 1, 1) \in Seq(S) /\ Tail(q) \in Seq(S)
      BY <1>2
    <2>2. QED
      BY <1>2, <2>1 DEF Drain
  <1>3. QED
    BY <1>1, <1>2

LEMMA IdsType ==
  ASSUME NEW s \in Seq(UserMessage)
  PROVE  Ids(s) \subseteq Nat
  <1>1. \A i \in DOMAIN s : s[i] \in UserMessage
    OBVIOUS
  <1>2. QED
    BY <1>1 DEF Ids, ToSet, UserMessage

LEMMA MessageKinds ==
  /\ Nudge \in UserMessage /\ ForceEdit \in UserMessage
  /\ \A id \in Nat : /\ User(id, "prompt") \in UserMessage
                     /\ User(id, "steer") \in UserMessage
                     /\ User(id, "followUp") \in UserMessage
  /\ UserMessage \subseteq Message /\ Reply \subseteq Message /\ Result \subseteq Message
  BY DEF Nudge, ForceEdit, User, UserMessage, Message

LEMMA UserSeqIsMessageSeq ==
  ASSUME NEW s \in Seq(UserMessage)
  PROVE  s \in Seq(Message)
  BY MessageKinds

\* The bounds and limits, one by one.
LEMMA BoundsAreNat ==
  /\ UPSTREAM_RETRY_LIMIT \in Nat /\ EMPTY_TURN_MAX \in Nat /\ MAX_COVERAGE_RETRIES \in Nat
  /\ MAX_CRITERIA_COVERAGE_RETRIES \in Nat /\ MaxRequests \in Nat /\ MaxUser \in Nat
  /\ MaxRuns \in Nat /\ MaxCalls \in Nat
  BY AgentLoopAssumption

LEMMA FreshLoopType == FreshLoop \in LoopState
  BY BoundsAreNat DEF LoopState, FreshLoop

(***************************************************************************)
(* Type correctness needs to know what the loop knows of the reply it is   *)
(* working on: the reply is the last message of the context.               *)
(***************************************************************************)
ReplyInHand ==
  pc \in {"decide", "tools"} =>
    /\ context # <<>>
    /\ Last(context) \in Reply
    /\ Len(calls) <= MaxCalls

TInv == TypeOK /\ ReplyInHand

LEMMA InitTInv == Init => TInv
  <1> SUFFICES ASSUME Init PROVE TInv
    OBVIOUS
  <1>1. /\ steering \in Seq(UserMessage) /\ followUp \in Seq(UserMessage)
        /\ prompts \in Seq(UserMessage) /\ pending \in Seq(UserMessage)
        /\ transcript \in Seq(Message) /\ context \in Seq(Message)
        /\ results \in Seq(OutcomeRecord)
    BY EmptySeq DEF Init
  <1>2. /\ pc \in PCs /\ clock \in 0..HARD_ABORT_MS
        /\ runnable \subseteq CallIndex /\ executing \subseteq CallIndex
        /\ failed \subseteq CallIndex /\ next \in Nat \ {0}
        /\ submitted \in Nat /\ runs \in Nat
        /\ cleared \subseteq Nat /\ passedOver \subseteq Nat
        /\ orphans \in {"none", "transcript", "context"}
    BY DEF Init, PCs, HARD_ABORT_MS
  <1>3. loop \in LoopState
    BY FreshLoopType DEF Init
  <1>4. ReplyInHand
    BY DEF Init, ReplyInHand
  <1>5. aborted \in BOOLEAN /\ parted \in BOOLEAN
    BY DEF Init
  <1>6. QED
    BY <1>1, <1>2, <1>3, <1>4, <1>5 DEF TInv, TypeOK

(***************************************************************************)
(* Steps of the user.                                                      *)
(***************************************************************************)
LEMMA UserTInv == TInv /\ UserCall => TInv'
  <1> SUFFICES ASSUME TInv, UserCall PROVE TInv'
    OBVIOUS
  <1> USE DEF queues, toolVars, history, breaks, calls
  <1>1. CASE Steer
    BY <1>1, MessageKinds DEF TInv, TypeOK, ReplyInHand, Steer, Enqueue, Submit
  <1>2. CASE FollowUp
    BY <1>2, MessageKinds DEF TInv, TypeOK, ReplyInHand, FollowUp, Enqueue, Submit
  <1>3. CASE ClearQueues
    <2>1. Ids(steering \o followUp) \subseteq Nat
      <3>1. steering \o followUp \in Seq(UserMessage)
        BY DEF TInv, TypeOK
      <3>2. QED
        BY <3>1, IdsType
    <2>2. cleared' \subseteq Nat
      BY <1>3, <2>1 DEF TInv, TypeOK, ClearQueues
    <2>3. steering' \in Seq(UserMessage) /\ followUp' \in Seq(UserMessage)
      BY <1>3, EmptySeq DEF ClearQueues
    <2>4. QED
      BY <1>3, <2>2, <2>3 DEF TInv, TypeOK, ReplyInHand, ClearQueues
  <1>4. CASE Abort
    BY <1>4 DEF TInv, TypeOK, ReplyInHand, Abort
  <1>5. ASSUME NEW msgs \in Seq(UserMessage), NEW skip \in BOOLEAN, StartRun(msgs, skip),
               steering' \in Seq(UserMessage), followUp' \in Seq(UserMessage),
               submitted' \in Nat
        PROVE  TInv'
    <2>1. pc' = "prompts" /\ prompts' = msgs /\ context' = transcript \o msgs
          /\ runs' = runs + 1 /\ loop' \in LoopState
          /\ UNCHANGED <<aborted, clock, pending, transcript, next, runnable, executing,
                         failed, results, cleared, passedOver, parted>>
          /\ orphans' \in {"none", "transcript", "context"}
      BY <1>5 DEF StartRun, TInv, TypeOK, LoopState
    <2>2. context' \in Seq(Message)
      BY <2>1, UserSeqIsMessageSeq DEF TInv, TypeOK
    <2>3. "prompts" \in PCs
      BY DEF PCs
    <2>4. QED
      BY <1>5, <2>1, <2>2, <2>3 DEF TInv, TypeOK, ReplyInHand
  <1>6. CASE Prompt
    <2>1. <<Submit("prompt")>> \in Seq(UserMessage)
      BY MessageKinds DEF Submit, TInv, TypeOK
    <2>2. StartRun(<<Submit("prompt")>>, FALSE)
      BY <1>6 DEF Prompt
    <2>3. steering' \in Seq(UserMessage) /\ followUp' \in Seq(UserMessage) /\ submitted' \in Nat
      BY <1>6 DEF Prompt, TInv, TypeOK
    <2>4. FALSE \in BOOLEAN
      OBVIOUS
    <2>5. QED
      BY <1>5, <2>1, <2>2, <2>3, <2>4
  <1>7. CASE Continue
    <2>1. /\ DrainedSteering.msgs \in Seq(UserMessage) /\ DrainedSteering.rest \in Seq(UserMessage)
          /\ DrainedFollowUp.msgs \in Seq(UserMessage) /\ DrainedFollowUp.rest \in Seq(UserMessage)
      BY DrainType DEF DrainedSteering, DrainedFollowUp, TInv, TypeOK
    <2>2. CASE steering' = DrainedSteering.rest /\ UNCHANGED <<followUp, submitted>>
               /\ StartRun(DrainedSteering.msgs, TRUE)
      BY <1>5, <2>1, <2>2 DEF TInv, TypeOK
    <2>3. CASE followUp' = DrainedFollowUp.rest /\ UNCHANGED <<steering, submitted>>
               /\ StartRun(DrainedFollowUp.msgs, FALSE)
      BY <1>5, <2>1, <2>3 DEF TInv, TypeOK
    <2>4. CASE StartRun(<<>>, FALSE) /\ UNCHANGED <<steering, followUp, submitted>>
      BY <1>5, <2>4, EmptySeq DEF TInv, TypeOK
    <2>5. QED
      BY <1>7, <2>2, <2>3, <2>4 DEF Continue
  <1>8. CASE DropLastReply
    <2>1. transcript' \in Seq(Message)
      BY <1>8, FrontIsSeq DEF DropLastReply, LastIsReply, TInv, TypeOK
    <2>2. parted' \in BOOLEAN /\ orphans' \in {"none", "transcript", "context"}
      BY <1>8 DEF DropLastReply, TInv, TypeOK
    <2>3. QED
      BY <1>8, <2>1, <2>2 DEF DropLastReply, TInv, TypeOK, ReplyInHand
  <1>9. QED
    BY <1>1, <1>2, <1>3, <1>4, <1>6, <1>7, <1>8 DEF UserCall

(***************************************************************************)
(* Steps of the loop.                                                      *)
(***************************************************************************)
\* Steps that move the loop on and change at most its counters.
LEMMA ControlTInv ==
  TInv /\ (\/ StartTurn \/ GateShut \/ Request \/ FinalReply \/ GracefulExit
           \/ Finish \/ AgentEnd \/ BeginTools \/ Tick)
       => TInv'
  <1> SUFFICES ASSUME TInv,
                      \/ StartTurn \/ GateShut \/ Request \/ FinalReply \/ GracefulExit
                      \/ Finish \/ AgentEnd \/ BeginTools \/ Tick
               PROVE  TInv'
    OBVIOUS
  <1> USE DEF queues, toolVars, history, breaks, calls, TInv, TypeOK, ReplyInHand, PCs
  <1>1. CASE StartTurn
    BY <1>1 DEF StartTurn
  <1>2. CASE GateShut
    BY <1>2 DEF GateShut
  <1>3. CASE Request
    <2>1. loop \in LoopState /\ loop.requests < MaxRequests
      BY <1>3 DEF Request, GateOpen
    <2>2. loop.requests + 1 \in 0..MaxRequests
      BY <2>1, BoundsAreNat DEF LoopState
    <2>3. Signal \in BOOLEAN
      BY DEF Signal
    <2>4. \A n \in 0..MaxRequests, b \in BOOLEAN :
            [loop EXCEPT !.requests = n, !.dead = b] \in LoopState
      BY <2>1 DEF LoopState
    <2>5. loop' \in LoopState
      BY <1>3, <2>2, <2>3, <2>4 DEF Request
    <2>6. QED
      BY <1>3, <2>5 DEF Request, GateOpen
  <1>4. CASE FinalReply
    BY <1>4 DEF FinalReply, Deciding
  <1>5. CASE GracefulExit
    BY <1>5 DEF GracefulExit
  <1>6. CASE Finish
    BY <1>6 DEF Finish
  <1>7. CASE AgentEnd
    BY <1>7 DEF AgentEnd
  <1>8. CASE BeginTools
    <2>1. loop' \in LoopState
      <3>1. loop \in LoopState /\ 0 \in 0..MAX_COVERAGE_RETRIES
            /\ 0 \in 0..MAX_CRITERIA_COVERAGE_RETRIES
        BY BoundsAreNat
      <3>2. [loop EXCEPT !.coverage = 0, !.criteria = 0] \in LoopState
        BY <3>1 DEF LoopState
      <3>3. QED
        BY <1>8, <3>2 DEF BeginTools
    <2>2. results' \in Seq(OutcomeRecord)
      BY <1>8, EmptySeq DEF BeginTools
    <2>3. QED
      BY <1>8, <2>1, <2>2 DEF BeginTools, Deciding
  <1>9. CASE Tick
    BY <1>9 DEF Tick, HARD_ABORT_MS
  <1>10. QED
    BY <1>1, <1>2, <1>3, <1>4, <1>5, <1>6, <1>7, <1>8, <1>9

\* Steps that make a nudge pending and begin another turn.
LEMMA NudgeTInv ==
  TInv /\ (\/ UpstreamRetry \/ EmptyTurn \/ ZeroDiffTurn \/ CoverageTurn \/ CriteriaTurn
           \/ ReviewPass)
       => TInv'
  <1> SUFFICES ASSUME TInv,
                      \/ UpstreamRetry \/ EmptyTurn \/ ZeroDiffTurn \/ CoverageTurn
                      \/ CriteriaTurn \/ ReviewPass
               PROVE  TInv'
    OBVIOUS
  <1>1. ASSUME NEW l \in LoopState, NudgeWith(l) PROVE TInv'
    <2>1. pending' \in Seq(UserMessage)
      BY <1>1, MessageKinds DEF NudgeWith
    <2>2. QED
      BY <1>1, <2>1
      DEF NudgeWith, TInv, TypeOK, ReplyInHand, PCs, queues, toolVars, history, breaks
  <1>2. loop \in LoopState
    BY DEF TInv, TypeOK
  <1>3. CASE UpstreamRetry
    <2>1. [loop EXCEPT !.upstream = @ + 1] \in LoopState
      BY <1>2, <1>3, BoundsAreNat DEF UpstreamRetry, LoopState
    <2>2. QED
      BY <1>1, <1>3, <2>1 DEF UpstreamRetry
  <1>4. CASE EmptyTurn
    <2>1. [loop EXCEPT !.empty = @ + 1] \in LoopState
      BY <1>2, <1>4, BoundsAreNat DEF EmptyTurn, EmptyTurnFits, LoopState
    <2>2. QED
      BY <1>1, <1>4, <2>1 DEF EmptyTurn
  <1>5. CASE ZeroDiffTurn
    <2>1. [loop EXCEPT !.empty = 0] \in LoopState
      BY <1>2, BoundsAreNat DEF LoopState
    <2>2. QED
      BY <1>1, <1>5, <2>1 DEF ZeroDiffTurn
  <1>6. CASE CoverageTurn
    <2>1. [loop EXCEPT !.coverage = @ + 1] \in LoopState
      BY <1>2, <1>6, BoundsAreNat DEF CoverageTurn, LoopState
    <2>2. QED
      BY <1>1, <1>6, <2>1 DEF CoverageTurn
  <1>7. CASE CriteriaTurn
    <2>1. [loop EXCEPT !.criteria = @ + 1] \in LoopState
      BY <1>2, <1>7, BoundsAreNat DEF CriteriaTurn, LoopState
    <2>2. QED
      BY <1>1, <1>7, <2>1 DEF CriteriaTurn
  <1>8. CASE ReviewPass
    <2>1. [loop EXCEPT !.review = TRUE] \in LoopState
      BY <1>2 DEF LoopState
    <2>2. QED
      BY <1>1, <1>8, <2>1 DEF ReviewPass
  <1>9. QED
    BY <1>3, <1>4, <1>5, <1>6, <1>7, <1>8

\* Steps that move messages between the queues, the pending list and the transcript.
LEMMA MessageTInv ==
  TInv /\ (\/ EmitPrompt \/ BeginLoop \/ InjectMessage \/ RequestThrows \/ StreamReply
           \/ TextReply \/ TurnEnd \/ PollFollowUps \/ Settle)
       => TInv'
  <1> SUFFICES ASSUME TInv,
                      \/ EmitPrompt \/ BeginLoop \/ InjectMessage \/ RequestThrows \/ StreamReply
                      \/ TextReply \/ TurnEnd \/ PollFollowUps \/ Settle
               PROVE  TInv'
    OBVIOUS
  <1> USE DEF queues, toolVars, history, breaks, calls, PCs
  <1>1. CASE EmitPrompt
    <2>1. Head(prompts) \in Message /\ prompts' \in Seq(UserMessage)
      BY <1>1, MessageKinds DEF EmitPrompt, TInv, TypeOK
    <2>2. transcript' \in Seq(Message)
      BY <1>1, <2>1 DEF EmitPrompt, TInv, TypeOK
    <2>3. QED
      BY <1>1, <2>1, <2>2 DEF EmitPrompt, TInv, TypeOK, ReplyInHand
  <1>2. ASSUME NEW before \in Seq(UserMessage), NEW after \in Seq(UserMessage),
               PollSteering(before, after)
        PROVE  /\ pending' \in Seq(UserMessage) /\ steering' \in Seq(UserMessage)
               /\ followUp' \in Seq(UserMessage) /\ passedOver' \subseteq Nat
               /\ UNCHANGED <<submitted, cleared, runs, parted, orphans>>
    <2>1. DrainedSteering.msgs \in Seq(UserMessage) /\ DrainedSteering.rest \in Seq(UserMessage)
      BY DrainType DEF DrainedSteering, TInv, TypeOK
    <2>2. DrainedSteering.rest \o followUp \in Seq(UserMessage)
      BY <2>1 DEF TInv, TypeOK
    <2>3. Ids(DrainedSteering.rest \o followUp) \subseteq Nat
      BY <2>2, IdsType
    <2>4. QED
      BY <1>2, <2>1, <2>3 DEF PollSteering, TInv, TypeOK
  <1>3. CASE BeginLoop
    <2>1. <<>> \in Seq(UserMessage) /\ <<Nudge>> \in Seq(UserMessage)
      BY EmptySeq, MessageKinds
    <2>2. PICK setup \in {<<>>, <<Nudge>>} :
            LET hurry == IF ShortBudget /\ loop.prompted THEN <<Nudge>> ELSE <<>>
            IN  IF loop.skipPoll
                THEN pending' = hurry \o setup /\ UNCHANGED <<steering, followUp, submitted,
                                                              cleared, passedOver, runs,
                                                              breaks>>
                ELSE PollSteering(hurry, setup)
      BY <1>3 DEF BeginLoop
    <2> DEFINE hurry == IF ShortBudget /\ loop.prompted THEN <<Nudge>> ELSE <<>>
    <2>3. hurry \in Seq(UserMessage) /\ setup \in Seq(UserMessage)
      BY <2>1, <2>2
    <2> HIDE DEF hurry
    <2>4. loop' \in LoopState
      BY <1>3 DEF BeginLoop, TInv, TypeOK, LoopState
    <2>5. CASE loop.skipPoll
      <3>1. /\ pending' = hurry \o setup
            /\ UNCHANGED <<steering, followUp, submitted, cleared, passedOver, runs, breaks>>
        BY <2>2, <2>5 DEF hurry
      <3>2. pending' \in Seq(UserMessage)
        BY <2>3, <3>1
      <3>3. QED
        BY <1>3, <2>4, <3>1, <3>2 DEF BeginLoop, TInv, TypeOK, ReplyInHand
    <2>6. CASE ~loop.skipPoll
      <3>1. PollSteering(hurry, setup)
        BY <2>2, <2>6 DEF hurry
      <3>2. QED
        BY <1>2, <1>3, <2>3, <2>4, <3>1 DEF BeginLoop, TInv, TypeOK, ReplyInHand
    <2>7. QED
      BY <2>5, <2>6
  <1>4. CASE InjectMessage
    <2>1. Head(pending) \in Message /\ pending' \in Seq(UserMessage)
      BY <1>4, MessageKinds DEF InjectMessage, TInv, TypeOK
    <2>2. transcript' \in Seq(Message) /\ context' \in Seq(Message)
      BY <1>4, <2>1 DEF InjectMessage, TInv, TypeOK
    <2>3. QED
      BY <1>4, <2>1, <2>2 DEF InjectMessage, TInv, TypeOK, ReplyInHand
  <1>5. CASE RequestThrows
    <2>1. \A why \in {"error", "aborted"} : ReplyMessage(why, <<>>) \in Message
      BY EmptySeq DEF ReplyMessage, Message, Reply
    <2>2. transcript' \in Seq(Message)
      BY <1>5, <2>1 DEF RequestThrows, TInv, TypeOK
    <2>3. QED
      BY <1>5, <2>2 DEF RequestThrows, TInv, TypeOK, ReplyInHand
  <1>6. CASE StreamReply
    <2>1. PICK r \in Replies :
            LET m == ReplyMessage(r[1], Calls(r[2]))
            IN  transcript' = Append(transcript, m) /\ context' = Append(context, m)
      BY <1>6 DEF StreamReply
    <2>2. r[1] \in {"stop", "length", "error", "aborted"} /\ r[2] \in CallLists
      BY <2>1 DEF Replies
    <2>3. r[2] \in Seq({"edit", "read"}) /\ Len(r[2]) <= MaxCalls
      BY <2>2, AgentLoopAssumption
    <2>4. runs \in Nat /\ loop.requests \in Nat
      BY DEF TInv, TypeOK, LoopState
    <2>5. \A i \in 1..Len(r[2]) :
            [id |-> <<runs, loop.requests, i>>, name |-> r[2][i]] \in Call
      BY <2>3, <2>4 DEF Call
    <2>6. Calls(r[2]) \in Seq(Call) /\ Len(Calls(r[2])) = Len(r[2])
      BY <2>3, <2>5 DEF Calls
    <2> DEFINE m == ReplyMessage(r[1], Calls(r[2]))
    <2>7. m \in Reply /\ m.calls = Calls(r[2])
      BY <2>2, <2>6 DEF ReplyMessage, Reply
    <2> HIDE DEF m
    <2>8. transcript' = Append(transcript, m) /\ context' = Append(context, m)
      BY <2>1 DEF m
    <2>9. /\ transcript' \in Seq(Message) /\ context' \in Seq(Message)
          /\ context' # <<>> /\ Last(context') = m
      <3>1. m \in Message /\ transcript \in Seq(Message) /\ context \in Seq(Message)
        BY <2>7, MessageKinds DEF TInv, TypeOK
      <3> QED BY <2>8, <3>1, LastOfAppend
    <2>10. ReplyInHand'
      BY <2>3, <2>6, <2>7, <2>9 DEF ReplyInHand
    <2>11. QED
      BY <1>6, <2>9, <2>10 DEF StreamReply, TInv, TypeOK
  <1>7. CASE TextReply \/ TurnEnd
    <2>1. PollSteering(<<>>, <<>>)
      BY <1>7 DEF TextReply, TurnEnd
    <2>2. <<>> \in Seq(UserMessage)
      BY EmptySeq
    <2>3. pc' \in {"followUp", "turn"}
      BY <1>7 DEF TextReply, TurnEnd
    <2>4. UNCHANGED <<aborted, clock, prompts, transcript, context, loop, next, runnable,
                      executing, failed, results>>
      BY <1>7 DEF TextReply, TurnEnd
    <2>5. QED
      BY <1>2, <2>1, <2>2, <2>3, <2>4 DEF TInv, TypeOK, ReplyInHand
  <1>8. CASE PollFollowUps
    <2>1. DrainedFollowUp.msgs \in Seq(UserMessage) /\ DrainedFollowUp.rest \in Seq(UserMessage)
      BY DrainType DEF DrainedFollowUp, TInv, TypeOK
    <2>2. QED
      BY <1>8, <2>1 DEF PollFollowUps, TInv, TypeOK, ReplyInHand
  <1>9. CASE Settle
    <2>1. /\ pending' \in Seq(UserMessage) /\ context' \in Seq(Message)
          /\ results' \in Seq(OutcomeRecord) /\ loop' \in LoopState
      BY <1>9, EmptySeq, FreshLoopType DEF Settle
    <2>2. aborted' \in BOOLEAN /\ parted' \in BOOLEAN
      BY <1>9 DEF Settle
    <2>3. QED
      BY <1>9, <2>1, <2>2 DEF Settle, TInv, TypeOK, ReplyInHand, HARD_ABORT_MS
  <1>10. QED
    BY <1>1, <1>3, <1>4, <1>5, <1>6, <1>7, <1>8, <1>9

(***************************************************************************)
(* The tool phase.  What runs was started, what was started is a call of   *)
(* the reply in hand that has been prepared, and outside the tool phase    *)
(* nothing is started.                                                     *)
(***************************************************************************)
ToolsInTurn ==
  /\ executing \subseteq runnable
  /\ pc # "tools" => runnable = {}
  /\ pc = "tools" => runnable \subseteq 1..(next - 1) /\ next <= Len(calls) + 1

IInv == TInv /\ ToolsInTurn

\* The calls of the reply in hand.
LEMMA CallsInHand ==
  ASSUME TInv, pc = "tools"
  PROVE  /\ calls \in Seq(Call) /\ Len(calls) \in Nat /\ Len(calls) <= MaxCalls
         /\ \A i \in 1..Len(calls) : i \in CallIndex /\ calls[i] \in Call
  <1>1. calls \in Seq(Call) /\ Len(calls) <= MaxCalls
    BY DEF TInv, ReplyInHand, calls, Reply
  <1> HIDE DEF calls
  <1>2. QED
    BY <1>1, BoundsAreNat DEF CallIndex

\* A call's outcome is a result of it in both lists.
LEMMA OutcomeType ==
  ASSUME TInv, pc = "tools", NEW i \in 1..Len(calls), NEW err \in BOOLEAN, Outcome(i, err)
  PROVE  /\ results' \in Seq(OutcomeRecord)
         /\ transcript' \in Seq(Message)
  <1>1. calls[i] \in Call
    BY CallsInHand
  <1> DEFINE r == [call |-> calls[i], err |-> err]
  <1>2. r \in OutcomeRecord /\ ResultMessage(r) \in Message
    BY <1>1 DEF ResultMessage, OutcomeRecord, Call, Result, Message
  <1>3. results' = Append(results, r) /\ transcript' = Append(transcript, ResultMessage(r))
    BY DEF Outcome
  <1> HIDE DEF r
  <1>4. QED
    BY <1>2, <1>3 DEF TInv, TypeOK

LEMMA ToolTInv ==
  IInv /\ (\/ PrepareCall \/ RefuseCall \/ FinalizeCall \/ RecordResults \/ Tools)
       => TInv'
  <1> SUFFICES ASSUME IInv,
                      \/ PrepareCall \/ RefuseCall \/ FinalizeCall \/ RecordResults \/ Tools
               PROVE  TInv'
    OBVIOUS
  <1> USE DEF queues, toolVars, history, breaks, IInv
  <1>1. ASSUME ReplyInHand, UNCHANGED <<pc, context>> PROVE ReplyInHand'
    BY <1>1 DEF ReplyInHand, calls
  <1>2. ASSUME pc = "tools", NEW ready \in SUBSET CallIndex, NEW i
        PROVE  Started(ready, i) \subseteq CallIndex
    BY DEF Started
  <1>3. CASE PrepareCall
    <2>1. pc = "tools" /\ next <= Len(calls) /\ next \in Nat \ {0}
      BY <1>3 DEF PrepareCall, CanPrepare, TInv, TypeOK
    <2>2. next \in CallIndex
      BY <2>1, CallsInHand
    <2>3. runnable' \subseteq CallIndex /\ executing' \subseteq CallIndex
      BY <1>2, <1>3, <2>1, <2>2 DEF PrepareCall, TInv, TypeOK
    <2>4. next' \in Nat \ {0}
      BY <1>3, <2>1 DEF PrepareCall
    <2>5. QED
      BY <1>1, <1>3, <2>3, <2>4 DEF PrepareCall, TInv, TypeOK
  <1>4. CASE RefuseCall
    <2>1. pc = "tools" /\ next <= Len(calls) /\ next \in Nat \ {0} /\ Outcome(next, TRUE)
      BY <1>4 DEF RefuseCall, CanPrepare, TInv, TypeOK
    <2>2. next \in 1..Len(calls)
      BY <2>1, CallsInHand
    <2>3. results' \in Seq(OutcomeRecord) /\ transcript' \in Seq(Message)
      BY <2>1, <2>2, OutcomeType
    <2>4. executing' \subseteq CallIndex
      BY <1>2, <1>4, <2>1 DEF RefuseCall, TInv, TypeOK
    <2>5. next' \in Nat \ {0}
      BY <1>4, <2>1 DEF RefuseCall
    <2>6. QED
      BY <1>1, <1>4, <2>3, <2>4, <2>5 DEF RefuseCall, TInv, TypeOK
  <1>5. CASE FinalizeCall
    <2>1. PICK i \in runnable : Outcome(i, i \in failed) /\ runnable' = runnable \ {i}
      BY <1>5 DEF FinalizeCall
    <2>2. pc = "tools"
      BY <1>5 DEF FinalizeCall
    <2>3. i \in 1..Len(calls)
      BY <2>1, <2>2, CallsInHand DEF ToolsInTurn, TInv, TypeOK
    <2>4. (i \in failed) \in BOOLEAN
      OBVIOUS
    <2>5. results' \in Seq(OutcomeRecord) /\ transcript' \in Seq(Message)
      BY <2>1, <2>2, <2>3, <2>4, OutcomeType
    <2>6. QED
      BY <1>1, <1>5, <2>1, <2>5 DEF FinalizeCall, TInv, TypeOK
  <1>6. CASE RecordResults
    <2>1. \A i \in 1..Len(results) : ResultMessage(results[i]) \in Message
      <3>1. \A r \in OutcomeRecord : ResultMessage(r) \in Message
        BY DEF ResultMessage, OutcomeRecord, Call, Result, Message
      <3>2. \A i \in 1..Len(results) : results[i] \in OutcomeRecord
        BY DEF TInv, TypeOK
      <3>3. QED
        BY <3>1, <3>2, Zenon
    <2>2. ToolResults \in Seq(Message)
      <3>1. DOMAIN results = 1..Len(results) /\ Len(results) \in Nat
        BY DEF TInv, TypeOK
      <3>2. ToolResults = [i \in 1..Len(results) |-> ResultMessage(results[i])]
        BY <3>1, Zenon DEF ToolResults
      <3>3. QED
        BY <2>1, <3>1, <3>2
    <2>3. context' \in Seq(Message)
      BY <1>6, <2>2 DEF RecordResults, TInv, TypeOK
    <2>4. loop' \in LoopState
      <3>1. loop \in LoopState
        BY DEF TInv, TypeOK
      <3>2. \A b \in BOOLEAN : [loop EXCEPT !.produced = b] \in LoopState
        BY <3>1 DEF LoopState
      <3> DEFINE produced == loop.produced \/ SomeEdit
      <3>3. produced \in BOOLEAN
        OBVIOUS
      <3>4. loop' = [loop EXCEPT !.produced = produced]
        BY <1>6 DEF RecordResults
      <3> HIDE DEF produced
      <3>5. QED
        BY <3>2, <3>3, <3>4, SMT
    <2>5. pending' \in Seq(UserMessage)
      <3>1. /\ <<ForceEdit>> \in Seq(UserMessage) /\ <<Nudge>> \in Seq(UserMessage)
            /\ <<>> \in Seq(UserMessage)
        BY MessageKinds, EmptySeq
      <3>2. pending' \in {<<ForceEdit>>, <<Nudge>>, <<>>}
        BY <1>6 DEF RecordResults, RecordedNudges
      <3>3. QED
        BY <3>1, <3>2
    <2>6. pc' = "turnEnd"
          /\ UNCHANGED <<aborted, clock, steering, followUp, prompts, transcript, next, runnable,
                         executing, failed, results, submitted, cleared, passedOver, runs,
                         parted, orphans>>
      BY <1>6 DEF RecordResults
    <2>7. QED
      BY <2>3, <2>4, <2>5, <2>6 DEF TInv, TypeOK, ReplyInHand, PCs
  <1>7. CASE Tools
    <2>1. PICK i \in CallIndex : ToolReturns(i)
      BY <1>7 DEF Tools
    <2>2. QED
      BY <1>1, <2>1 DEF ToolReturns, TInv, TypeOK
  <1>8. QED
    BY <1>3, <1>4, <1>5, <1>6, <1>7

LEMMA NextTInv == IInv /\ [Next]_vars => TInv'
  <1>1. CASE UNCHANGED vars
    BY <1>1 DEF vars, queues, toolVars, history, breaks, calls, IInv, TInv, TypeOK, ReplyInHand
  <1>2. QED
    BY <1>1, UserTInv, ControlTInv, NudgeTInv, MessageTInv, ToolTInv DEF IInv, Next, Loop

LEMMA NextToolsInTurn == IInv /\ [Next]_vars => ToolsInTurn'
  <1> SUFFICES ASSUME IInv, [Next]_vars PROVE ToolsInTurn'
    OBVIOUS
  <1> USE DEF queues, toolVars, history, breaks, calls
  <1>1. ASSUME UNCHANGED <<executing, runnable>>, pc # "tools", pc' # "tools"
        PROVE  ToolsInTurn'
    BY <1>1 DEF ToolsInTurn, IInv
  <1>2. ASSUME UNCHANGED <<executing, runnable, next, context, pc>> PROVE ToolsInTurn'
    BY <1>2 DEF ToolsInTurn, IInv
  <1>3. CASE UserCall
    <2>1. CASE Steer \/ FollowUp \/ ClearQueues \/ Abort \/ DropLastReply
      BY <1>2, <2>1 DEF Steer, FollowUp, ClearQueues, Abort, DropLastReply
    <2>2. CASE Prompt \/ Continue
      BY <1>1, <2>2 DEF Prompt, Continue, StartRun
    <2>3. QED
      BY <1>3, <2>1, <2>2 DEF UserCall
  <1>4. CASE Tick
    BY <1>2, <1>4 DEF Tick
  <1>5. CASE \/ EmitPrompt \/ BeginLoop \/ StartTurn \/ InjectMessage \/ GateShut \/ Request
             \/ RequestThrows \/ StreamReply \/ GracefulExit \/ TurnEnd
    BY <1>1, <1>5 DEF EmitPrompt, BeginLoop, StartTurn, InjectMessage, GateShut, GateOpen,
       Request, RequestThrows, StreamReply, GracefulExit, TurnEnd
  <1>6. CASE \/ FinalReply \/ UpstreamRetry \/ EmptyTurn \/ ZeroDiffTurn \/ CoverageTurn
             \/ CriteriaTurn \/ TextReply \/ PollFollowUps \/ ReviewPass \/ Finish \/ AgentEnd
    BY <1>1, <1>6 DEF FinalReply, UpstreamRetry, EmptyTurn, ZeroDiffTurn, CoverageTurn,
       CriteriaTurn, TextReply, PollFollowUps, ReviewPass, Finish, AgentEnd, NudgeWith,
       TextOnly, Deciding
  <1>7. CASE Settle
    BY <1>7 DEF Settle, ToolsInTurn, IInv
  <1>8. CASE BeginTools
    <2>1. context # <<>> /\ Len(calls) \in Nat
      BY <1>8 DEF BeginTools, Deciding, IInv, TInv, ReplyInHand, Reply
    <2>2. pc = "decide" /\ pc' = "tools" /\ next' = 1 /\ UNCHANGED <<runnable, executing, context>>
      BY <1>8 DEF BeginTools, Deciding
    <2>3. QED
      BY <2>1, <2>2 DEF IInv, ToolsInTurn
  <1>9. CASE PrepareCall
    <2>1. pc = "tools" /\ next <= Len(calls) /\ next \in Nat \ {0} /\ Len(calls) \in Nat
      BY <1>9, CallsInHand DEF PrepareCall, CanPrepare, IInv, TInv, TypeOK
    <2>2. runnable' = runnable \cup {next} /\ executing' \subseteq runnable' /\ next' = next + 1
          /\ UNCHANGED <<pc, context>>
      BY <1>9 DEF PrepareCall, Started
    <2> HIDE DEF calls
    <2>3. calls' = calls
      BY <2>2 DEF calls
    <2>4. QED
      BY <2>1, <2>2, <2>3 DEF IInv, ToolsInTurn
  <1>10. CASE RefuseCall
    <2>1. pc = "tools" /\ next <= Len(calls) /\ next \in Nat \ {0} /\ Len(calls) \in Nat
      BY <1>10, CallsInHand DEF RefuseCall, CanPrepare, IInv, TInv, TypeOK
    <2>2. runnable' = runnable /\ executing' \subseteq runnable' /\ next' = next + 1
          /\ UNCHANGED <<pc, context>>
      BY <1>10 DEF RefuseCall, Started
    <2> HIDE DEF calls
    <2>3. calls' = calls
      BY <2>2 DEF calls
    <2>4. QED
      BY <2>1, <2>2, <2>3 DEF IInv, ToolsInTurn
  <1>11. CASE FinalizeCall
    <2>1. PICK i \in runnable \ executing : runnable' = runnable \ {i}
      BY <1>11 DEF FinalizeCall
    <2>2. UNCHANGED <<pc, context, next, executing>>
      BY <1>11 DEF FinalizeCall
    <2>3. QED
      BY <2>1, <2>2 DEF IInv, ToolsInTurn
  <1>12. CASE RecordResults
    BY <1>12 DEF RecordResults, AllEnded, IInv, ToolsInTurn
  <1>13. CASE Tools
    <2>1. PICK i \in CallIndex : ToolReturns(i)
      BY <1>13 DEF Tools
    <2>2. QED
      BY <2>1 DEF ToolReturns, IInv, ToolsInTurn
  <1>14. CASE UNCHANGED vars
    BY <1>2, <1>14 DEF vars
  <1>15. QED
    BY <1>3, <1>4, <1>5, <1>6, <1>7, <1>8, <1>9, <1>10, <1>11, <1>12, <1>13, <1>14 DEF Next, Loop

\* Every reachable state satisfies the inductive invariant.
THEOREM Invariance == Spec => []IInv
  <1>1. Init => IInv
    BY InitTInv DEF IInv, ToolsInTurn, Init
  <1>2. IInv /\ [Next]_vars => IInv'
    BY NextTInv, NextToolsInTurn DEF IInv
  <1>3. QED
    BY <1>1, <1>2, PTL DEF Spec

\* Type correctness: among others, the loop's retry counters keep to their limits.
THEOREM TypeCorrect == Spec => []TypeOK
  <1>1. IInv => TypeOK
    BY DEF IInv, TInv
  <1>2. QED
    BY <1>1, Invariance, PTL

\* executeToolCalls waits for every tool it started before the loop goes on.
THEOREM ToolsEndInTheirTurn == Spec => []NoToolOutlivesItsTurn
  <1>1. IInv => NoToolOutlivesItsTurn
    BY DEF IInv, ToolsInTurn, NoToolOutlivesItsTurn
  <1>2. QED
    BY <1>1, Invariance, PTL

(***************************************************************************)
(* A run that is aborted makes no further request.  A request that starts  *)
(* under an aborted signal can only end as "aborted", because no signal is *)
(* ever taken back while the run lasts.                                    *)
(***************************************************************************)
DeadEnds ==
  loop.dead => /\ Signal
               /\ pc \in {"streaming", "decide", "ending"}
               /\ pc = "decide" => Last(context).stop = "aborted"

LEMMA InitDeadEnds == Init => DeadEnds
  BY DEF Init, DeadEnds, FreshLoop

\* Once the signal is aborted it stays so until the run is settled.
LEMMA SignalStays == IInv /\ [Next]_vars /\ ~Settle /\ Signal => Signal'
  <1> SUFFICES ASSUME IInv, [Next]_vars, ~Settle, Signal PROVE Signal'
    OBVIOUS
  <1> USE DEF Signal, HARD_ABORT_MS
  <1>1. ASSUME UNCHANGED <<aborted, clock>> PROVE Signal'
    BY <1>1
  <1>2. CASE UserCall
    <2>1. CASE Abort
      BY <2>1 DEF Abort
    <2>2. CASE Steer \/ FollowUp \/ ClearQueues \/ Prompt \/ Continue \/ DropLastReply
      BY <1>1, <2>2 DEF Steer, FollowUp, ClearQueues, Prompt, Continue, DropLastReply, StartRun
    <2>3. QED
      BY <1>2, <2>1, <2>2 DEF UserCall
  <1>3. CASE Tick
    BY <1>3 DEF Tick
  <1>4. CASE \/ EmitPrompt \/ BeginLoop \/ StartTurn \/ InjectMessage \/ GateShut \/ Request
             \/ RequestThrows \/ StreamReply \/ GracefulExit \/ TurnEnd \/ BeginTools
    BY <1>1, <1>4 DEF EmitPrompt, BeginLoop, StartTurn, InjectMessage, GateShut, Request,
       RequestThrows, StreamReply, GracefulExit, TurnEnd, BeginTools
  <1>5. CASE \/ FinalReply \/ UpstreamRetry \/ EmptyTurn \/ ZeroDiffTurn \/ CoverageTurn
             \/ CriteriaTurn \/ TextReply \/ PollFollowUps \/ ReviewPass \/ Finish \/ AgentEnd
    BY <1>1, <1>5 DEF FinalReply, UpstreamRetry, EmptyTurn, ZeroDiffTurn, CoverageTurn,
       CriteriaTurn, TextReply, PollFollowUps, ReviewPass, Finish, AgentEnd, NudgeWith
  <1>6. CASE PrepareCall \/ RefuseCall \/ FinalizeCall \/ RecordResults \/ Tools
    BY <1>1, <1>6 DEF PrepareCall, RefuseCall, FinalizeCall, RecordResults, Tools, ToolReturns
  <1>7. CASE UNCHANGED vars
    BY <1>1, <1>7 DEF vars
  <1>8. QED
    BY <1>2, <1>3, <1>4, <1>5, <1>6, <1>7 DEF Next, Loop

\* What a step does to a dead request: it goes on to "decide" with an aborted
\* reply, from there to the end of the run, and then the loop's state is new.
LEMMA DeadStep ==
  ASSUME IInv, DeadEnds, [Next]_vars, loop.dead
  PROVE  /\ DeadEnds'
         /\ loop'.requests \in {loop.requests, 0}
  <1>1. pc \in {"streaming", "decide", "ending"} /\ Signal
    BY DEF DeadEnds
  <1>2. ASSUME UNCHANGED <<pc, context, loop>>, ~Settle
        PROVE  DeadEnds' /\ loop'.requests \in {loop.requests, 0}
    BY <1>2, SignalStays DEF DeadEnds
  <1>3. CASE UserCall \/ Tick
    <2>1. UNCHANGED <<pc, context, loop>>
      BY <1>1, <1>3 DEF UserCall, Tick, Steer, FollowUp, ClearQueues, Abort, Prompt, Continue,
         DropLastReply
    <2>2. ~Settle
      BY <1>1, <2>1 DEF Settle
    <2>3. QED
      BY <1>2, <2>1, <2>2
  <1>4. CASE StreamReply
    <2>1. PICK r \in Replies :
            LET m == ReplyMessage(r[1], Calls(r[2]))
            IN  transcript' = Append(transcript, m) /\ context' = Append(context, m)
      BY <1>4 DEF StreamReply
    <2>2. r[1] = "aborted"
      BY <1>1, <2>1 DEF Replies
    <2> DEFINE m == ReplyMessage(r[1], Calls(r[2]))
    <2>3. m.stop = "aborted"
      BY <2>2 DEF ReplyMessage
    <2> HIDE DEF m
    <2>4. context' = Append(context, m)
      BY <2>1 DEF m
    <2>5. Last(context') = m
      <3>1. context \in Seq(Message \cup {m}) /\ m \in Message \cup {m}
        BY DEF IInv, TInv, TypeOK
      <3>2. QED
        BY <2>4, <3>1, LastOfAppend
    <2>6. pc' = "decide" /\ UNCHANGED loop /\ ~Settle
      BY <1>4 DEF StreamReply, Settle
    <2>7. QED
      BY <1>1, <2>3, <2>5, <2>6, SignalStays DEF DeadEnds
  <1>5. CASE FinalReply
    BY <1>1, <1>5, SignalStays DEF FinalReply, DeadEnds, Settle
  <1>6. CASE Settle
    BY <1>6 DEF Settle, DeadEnds, FreshLoop
  <1>7. CASE UNCHANGED vars
    <2>1. CASE Settle
      BY <1>1, <1>6, <2>1
    <2>2. QED
      BY <1>2, <1>7, <2>1 DEF vars
  <1>8. ASSUME pc = "decide", stop # "aborted" PROVE FALSE
    BY <1>8 DEF DeadEnds, stop
  <1>9. CASE \/ UpstreamRetry \/ EmptyTurn \/ ZeroDiffTurn \/ CoverageTurn \/ CriteriaTurn
             \/ TextReply \/ BeginTools
    BY <1>8, <1>9 DEF UpstreamRetry, EmptyTurn, ZeroDiffTurn, CoverageTurn, CriteriaTurn,
       TextReply, BeginTools, TextOnly, Deciding, IsError
  <1>10. CASE \/ EmitPrompt \/ BeginLoop \/ StartTurn \/ InjectMessage \/ GateShut \/ Request
              \/ RequestThrows \/ GracefulExit \/ TurnEnd \/ PollFollowUps \/ ReviewPass
              \/ Finish \/ AgentEnd \/ PrepareCall \/ RefuseCall \/ FinalizeCall \/ RecordResults
    BY <1>1, <1>10 DEF EmitPrompt, BeginLoop, StartTurn, InjectMessage, GateShut, GateOpen,
       Request, RequestThrows, GracefulExit, TurnEnd, PollFollowUps, ReviewPass, Finish,
       AgentEnd, PrepareCall, RefuseCall, CanPrepare, FinalizeCall, RecordResults
  <1>11. CASE Tools
    BY <1>1, <1>11 DEF Tools, ToolReturns, IInv, ToolsInTurn
  <1>12. QED
    BY <1>3, <1>4, <1>5, <1>6, <1>7, <1>9, <1>10, <1>11 DEF Next, Loop

\* A request that is made now is dead exactly when the signal is aborted now.
LEMMA LiveStep ==
  ASSUME IInv, DeadEnds, [Next]_vars, ~loop.dead
  PROVE  DeadEnds'
  <1>1. CASE Request
    BY <1>1 DEF Request, GateOpen, Signal, DeadEnds, IInv, TInv, TypeOK, LoopState
  <1>2. loop \in LoopState
    BY DEF IInv, TInv, TypeOK
  <1>3. ASSUME ~Request PROVE ~loop'.dead
    <2>1. ASSUME UNCHANGED loop PROVE ~loop'.dead
      BY <2>1
    <2>2. CASE UserCall
      <3>1. ASSUME NEW msgs, NEW skip, StartRun(msgs, skip) PROVE ~loop'.dead
        BY <1>2, <3>1 DEF StartRun, LoopState
      <3>2. QED
        BY <2>1, <2>2, <3>1 DEF UserCall, Steer, FollowUp, ClearQueues, Abort, Prompt, Continue,
           DropLastReply
    <2>3. CASE Tick \/ Tools
      BY <2>1, <2>3 DEF Tick, Tools, ToolReturns
    <2>4. CASE \/ EmitPrompt \/ StartTurn \/ InjectMessage \/ GateShut \/ RequestThrows
               \/ StreamReply \/ FinalReply \/ TextReply \/ PrepareCall \/ RefuseCall
               \/ FinalizeCall \/ GracefulExit \/ TurnEnd \/ PollFollowUps \/ Finish \/ AgentEnd
      BY <2>1, <2>4 DEF EmitPrompt, StartTurn, InjectMessage, GateShut, RequestThrows,
         StreamReply, FinalReply, TextReply, PrepareCall, RefuseCall, FinalizeCall,
         GracefulExit, TurnEnd, PollFollowUps, Finish, AgentEnd
    <2>5. CASE UpstreamRetry \/ EmptyTurn \/ ZeroDiffTurn
      BY <1>2, <2>5 DEF UpstreamRetry, EmptyTurn, ZeroDiffTurn, NudgeWith, LoopState
    <2>6. CASE CoverageTurn \/ CriteriaTurn \/ ReviewPass
      BY <1>2, <2>6 DEF CoverageTurn, CriteriaTurn, ReviewPass, NudgeWith, LoopState
    <2>7. CASE BeginLoop \/ BeginTools
      BY <1>2, <2>7 DEF BeginLoop, BeginTools, LoopState
    <2>8. CASE RecordResults
      BY <1>2, <2>8 DEF RecordResults, LoopState
    <2>9. CASE Settle
      BY <2>9 DEF Settle, FreshLoop
    <2>10. CASE UNCHANGED vars
      BY <2>1, <2>10 DEF vars
    <2>11. QED
      BY <1>3, <2>2, <2>3, <2>4, <2>5, <2>6, <2>7, <2>8, <2>9, <2>10 DEF Next, Loop
  <1>4. QED
    BY <1>1, <1>3 DEF DeadEnds

\* After a request that started under an aborted signal the run makes no other.
THEOREM AbortIsFinal == Spec => NoRequestAfterAbort
  <1>1. IInv /\ DeadEnds /\ [Next]_vars => DeadEnds'
    BY DeadStep, LiveStep
  <1>2. IInv /\ DeadEnds /\ [Next]_vars => [loop.dead => loop'.requests \in {loop.requests, 0}]_vars
    BY DeadStep
  <1>3. QED
    BY <1>1, <1>2, InitDeadEnds, Invariance, PTL DEF Spec, NoRequestAfterAbort

(***************************************************************************)
(* The Agent implements the protocol of its events.                        *)
(***************************************************************************)
\* Where a turn is open.
InTurn == {"prompts", "inject", "streaming", "decide", "tools", "turnEnd"}

\* A step that only moves pc is a step of the protocol, or shows nothing.
LEMMA PcStep ==
  ASSUME IInv, UNCHANGED runnable,
         \/ pc = "idle" /\ pc' = "prompts"
         \/ pc = "turn" /\ pc' = "inject"
         \/ pc \in {"decide", "turnEnd"} /\ pc' \in {"turn", "followUp"}
         \/ pc \in {"inject", "decide", "turnEnd", "finish"} /\ pc' = "ending"
         \/ pc = "ending" /\ pc' = "idle"
         \/ pc \in InTurn /\ pc' \in InTurn
         \/ pc \in {"turn", "followUp", "finish"} /\ pc' \in {"turn", "followUp", "finish"}
         \/ pc' = pc
  PROVE  [Events!Next]_(Events!vars)
  <1>1. pc # "tools" => runnable = {}
    BY DEF IInv, ToolsInTurn
  <1>2. CASE pc = "idle" /\ pc' = "prompts"
    BY <1>2 DEF Events!Next, Events!AgentStart
  <1>3. CASE pc = "turn" /\ pc' = "inject"
    BY <1>3 DEF Events!Next, Events!TurnStart
  <1>4. CASE pc \in {"decide", "turnEnd"} /\ pc' \in {"turn", "followUp"}
    BY <1>1, <1>4 DEF Events!Next, Events!TurnEnd
  <1>5. CASE pc \in {"inject", "decide", "turnEnd", "finish"} /\ pc' = "ending"
    BY <1>1, <1>5 DEF Events!Next, Events!AgentEnd
  <1>6. CASE pc = "ending" /\ pc' = "idle"
    BY <1>6 DEF Events!Next, Events!Settle
  <1>7. CASE pc \in InTurn /\ pc' \in InTurn
    BY <1>7 DEF Events!vars, InTurn
  <1>8. CASE pc \in {"turn", "followUp", "finish"} /\ pc' \in {"turn", "followUp", "finish"}
    BY <1>8 DEF Events!vars
  <1>9. CASE pc' = pc
    BY <1>9 DEF Events!vars
  <1>10. QED
    BY <1>2, <1>3, <1>4, <1>5, <1>6, <1>7, <1>8, <1>9

LEMMA StepIsEvent == IInv /\ [Next]_vars => [Events!Next]_(Events!vars)
  <1> SUFFICES ASSUME IInv, [Next]_vars PROVE [Events!Next]_(Events!vars)
    OBVIOUS
  <1> USE DEF queues, toolVars, history, breaks, InTurn
  <1>1. CASE UserCall
    BY <1>1, PcStep DEF UserCall, Steer, FollowUp, ClearQueues, Abort, Prompt, Continue,
       DropLastReply, StartRun
  <1>2. CASE Tick \/ Tools
    BY <1>2, PcStep DEF Tick, Tools, ToolReturns
  <1>3. CASE \/ EmitPrompt \/ BeginLoop \/ StartTurn \/ InjectMessage \/ GateShut \/ Request
             \/ RequestThrows \/ StreamReply
    BY <1>3, PcStep DEF EmitPrompt, BeginLoop, StartTurn, InjectMessage, GateShut, GateOpen,
       Request, RequestThrows, StreamReply
  <1>4. CASE FinalReply \/ TextReply \/ BeginTools
    BY <1>4, PcStep DEF FinalReply, TextReply, BeginTools, TextOnly, Deciding
  <1>5. CASE \/ UpstreamRetry \/ EmptyTurn \/ ZeroDiffTurn \/ CoverageTurn \/ CriteriaTurn
             \/ ReviewPass
    BY <1>5, PcStep DEF UpstreamRetry, EmptyTurn, ZeroDiffTurn, CoverageTurn, CriteriaTurn,
       ReviewPass, NudgeWith, TextOnly, Deciding
  <1>6. CASE \/ RefuseCall \/ RecordResults \/ GracefulExit \/ TurnEnd \/ PollFollowUps
             \/ Finish \/ AgentEnd
    BY <1>6, PcStep DEF RefuseCall, RecordResults, GracefulExit, TurnEnd, PollFollowUps,
       Finish, AgentEnd
  <1>7. CASE Settle
    <2>1. UNCHANGED runnable
      BY <1>7 DEF Settle, IInv, ToolsInTurn
    <2>2. QED
      BY <1>7, <2>1, PcStep DEF Settle
  <1>8. CASE PrepareCall
    <2>1. pc = "tools" /\ next <= Len(calls) /\ next \in Nat \ {0}
      BY <1>8 DEF PrepareCall, CanPrepare, IInv, TInv, TypeOK
    <2>2. next \in CallIndex
      BY <2>1, CallsInHand DEF IInv
    <2>3. next \notin runnable
      BY <2>1 DEF IInv, ToolsInTurn
    <2>4. runnable' = runnable \cup {next} /\ pc' = "tools"
      BY <1>8, <2>1 DEF PrepareCall
    <2>5. Events!ToolStart(next)
      BY <2>1, <2>3, <2>4 DEF Events!ToolStart
    <2>6. QED
      BY <2>2, <2>5 DEF Events!Next
  <1>9. CASE FinalizeCall
    <2>1. PICK i \in runnable : runnable' = runnable \ {i}
      BY <1>9 DEF FinalizeCall
    <2>2. pc = "tools" /\ pc' = "tools"
      BY <1>9 DEF FinalizeCall
    <2>3. i \in CallIndex
      BY <2>1 DEF IInv, TInv, TypeOK
    <2>4. Events!ToolEnd(i)
      BY <2>1, <2>2 DEF Events!ToolEnd
    <2>5. QED
      BY <2>3, <2>4 DEF Events!Next
  <1>10. CASE UNCHANGED vars
    BY <1>10, PcStep DEF vars
  <1>11. QED
    BY <1>1, <1>2, <1>3, <1>4, <1>5, <1>6, <1>7, <1>8, <1>9, <1>10 DEF Next, Loop

\* Every step of a run is a step of the protocol its listeners rely on (the
\* safety part of ImplementsEvents).
THEOREM RefinesEvents == Spec => Events!SafeSpec
  <1>1. Init => Events!Init
    BY DEF Init, Events!Init
  <1>2. QED
    BY <1>1, StepIsEvent, Invariance, PTL DEF Spec, Events!SafeSpec

(***************************************************************************)
(* The loop's list and the Agent's transcript.  They differ by the prompts  *)
(* that are still to be announced, and by the results that are, while the  *)
(* loop waits for the others; until a reply leaves the transcript.         *)
(***************************************************************************)
ContextFollows ==
  /\ pc # "prompts" => prompts = <<>>
  /\ pc = "prompts" /\ ~parted => context = transcript \o prompts
  /\ pc = "tools" /\ ~parted => transcript = context \o ToolResults
  /\ pc \in {"turn", "inject", "streaming", "decide", "turnEnd", "followUp", "finish"}
       => parted \/ context = transcript

\* Taking the first of what is to come, and putting it behind what there is.
LEMMA HeadMoves ==
  ASSUME NEW S, NEW s \in Seq(S), NEW t \in Seq(S), t # <<>>
  PROVE  /\ Append(s, Head(t)) \o Tail(t) = s \o t
         /\ t = <<Head(t)>> \o Tail(t)
         /\ Head(t) \in S /\ Tail(t) \in Seq(S)
  <1>1. Head(t) \in S /\ Tail(t) \in Seq(S) /\ Len(Tail(t)) = Len(t) - 1
        /\ \A i \in 1..(Len(t) - 1) : Tail(t)[i] = t[i + 1]
        /\ Head(t) = t[1] /\ Len(t) \in Nat \ {0}
    OBVIOUS
  <1>2. Append(s, Head(t)) \o Tail(t) = s \o t
    <2> DEFINE a == Append(s, Head(t)) \o Tail(t)
               b == s \o t
    <2>1. a \in Seq(S) /\ b \in Seq(S) /\ Len(a) = Len(b)
      BY <1>1
    <2>2. ASSUME NEW i \in 1..Len(a) PROVE a[i] = b[i]
      BY <1>1
    <2> HIDE DEF a, b
    <2>3. a = b
      BY <2>1, <2>2, SeqEqual
    <2> QED
      BY <2>3 DEF a, b
  <1>3. t = <<Head(t)>> \o Tail(t)
    <2> DEFINE a == <<Head(t)>> \o Tail(t)
    <2>1. a \in Seq(S) /\ Len(a) = Len(t)
      BY <1>1
    <2>2. ASSUME NEW i \in 1..Len(a) PROVE a[i] = t[i]
      BY <1>1
    <2> HIDE DEF a
    <2>3. a = t
      BY <2>1, <2>2, SeqEqual
    <2> QED
      BY <2>3 DEF a
  <1> QED
    BY <1>1, <1>2, <1>3

\* Appending to the second of two sequences.
LEMMA AppendBehind ==
  ASSUME NEW S, NEW s \in Seq(S), NEW t \in Seq(S), NEW e \in S,
         NEW st, st = s \o t, NEW te, te = Append(t, e), NEW ste, ste = Append(st, e)
  PROVE  ste = s \o te
  <1> DEFINE b == s \o te
  <1>1. st \in Seq(S) /\ te \in Seq(S) /\ ste \in Seq(S)
    OBVIOUS
  <1>2. b \in Seq(S) /\ Len(ste) = Len(b)
    OBVIOUS
  <1>3. ASSUME NEW i \in 1..Len(ste) PROVE ste[i] = b[i]
    <2>1. i \in 1..Len(st) \/ i = Len(st) + 1
      OBVIOUS
    <2> QED
      BY <2>1
  <1> HIDE DEF b
  <1>4. ste = b
    BY <1>1, <1>2, <1>3, SeqEqual
  <1> QED
    BY <1>4 DEF b

\* The results as the messages that the context will hold.
LEMMA ToolResultsType ==
  ASSUME TInv
  PROVE  /\ ToolResults \in Seq(Message) /\ Len(ToolResults) = Len(results)
         /\ \A i \in DOMAIN results : ToolResults[i] = ResultMessage(results[i])
  <1>1. results \in Seq(OutcomeRecord)
    BY DEF TInv, TypeOK
  <1>2. \A r \in OutcomeRecord : ResultMessage(r) \in Message
    BY DEF ResultMessage, OutcomeRecord, Call, Result, Message
  <1>3. \A i \in 1..Len(results) : ResultMessage(results[i]) \in Message
    BY <1>1, <1>2
  <1>4. DOMAIN results = 1..Len(results) /\ Len(results) \in Nat
    BY <1>1
  <1>5. ToolResults = [i \in 1..Len(results) |-> ResultMessage(results[i])]
    BY <1>4 DEF ToolResults
  <1> QED
    BY <1>3, <1>4, <1>5

LEMMA OutcomeAppends ==
  ASSUME TInv, pc = "tools", NEW i \in 1..Len(calls), NEW err \in BOOLEAN, Outcome(i, err)
  PROVE  \E m \in Message : /\ m = ResultMessage([call |-> calls[i], err |-> err])
                            /\ transcript' = Append(transcript, m)
                            /\ ToolResults' = Append(ToolResults, m)
  <1>1. calls[i] \in Call
    BY CallsInHand
  <1> DEFINE r == [call |-> calls[i], err |-> err]
             m == ResultMessage(r)
  <1>2. r \in OutcomeRecord /\ m \in Message
    BY <1>1 DEF ResultMessage, OutcomeRecord, Call, Result, Message
  <1>3. results' = Append(results, r) /\ transcript' = Append(transcript, m)
    BY DEF Outcome
  <1> HIDE DEF r
  <1>4. results \in Seq(OutcomeRecord)
    BY DEF TInv, TypeOK
  <1>5. /\ DOMAIN results' = 1..(Len(results) + 1) /\ DOMAIN results = 1..Len(results)
        /\ Len(results) \in Nat
        /\ \A j \in 1..Len(results) : results'[j] = results[j]
        /\ results'[Len(results) + 1] = r
    BY <1>2, <1>3, <1>4
  <1>6. ToolResults' = [j \in DOMAIN results' |-> ResultMessage(results'[j])]
    BY DEF ToolResults
  <1>7. /\ ToolResults \in Seq(Message) /\ Len(ToolResults) = Len(results)
        /\ \A j \in DOMAIN results : ToolResults[j] = ResultMessage(results[j])
    BY ToolResultsType
  <1> HIDE DEF m
  <1>8. /\ Append(ToolResults, m) \in Seq(Message)
        /\ Len(Append(ToolResults, m)) = Len(results) + 1
        /\ \A j \in 1..Len(results) : Append(ToolResults, m)[j] = ToolResults[j]
        /\ Append(ToolResults, m)[Len(results) + 1] = m
    BY <1>2, <1>5, <1>7
  <1>9. ToolResults' = Append(ToolResults, m)
    <2>1. ToolResults' = [j \in 1..(Len(results) + 1) |-> ResultMessage(results'[j])]
      BY <1>5, <1>6
    <2>2. \A j \in 1..(Len(results) + 1) : ResultMessage(results'[j]) = Append(ToolResults, m)[j]
      BY <1>5, <1>7, <1>8 DEF m
    <2> DEFINE a == ToolResults'
               b == Append(ToolResults, m)
    <2>3. a \in Seq(Message) /\ b \in Seq(Message) /\ Len(a) = Len(b)
      <3>1. \A j \in 1..(Len(results) + 1) : b[j] \in Message
        BY <1>2, <1>5, <1>7, <1>8
      <3> QED
        BY <1>5, <1>8, <2>1, <2>2, <3>1
    <2>4. \A j \in 1..Len(a) : a[j] = b[j]
      BY <1>5, <1>8, <2>1, <2>2, <2>3
    <2> HIDE DEF a, b
    <2>5. a = b
      BY <2>3, <2>4, SeqEqual
    <2> QED
      BY <2>5 DEF a, b
  <1>10. m = ResultMessage([call |-> calls[i], err |-> err])
    BY DEF m, r
  <1> QED
    BY <1>2, <1>3, <1>9, <1>10

LEMMA NextContextFollows == IInv /\ ContextFollows /\ [Next]_vars => ContextFollows'
  <1> SUFFICES ASSUME IInv, ContextFollows, [Next]_vars PROVE ContextFollows'
    OBVIOUS
  <1> USE DEF queues, toolVars, history, breaks
  <1>t. /\ transcript \in Seq(Message) /\ context \in Seq(Message) /\ prompts \in Seq(Message)
        /\ pending \in Seq(Message) /\ ToolResults \in Seq(Message) /\ <<>> \in Seq(Message)
    BY UserSeqIsMessageSeq, ToolResultsType, EmptySeq DEF IInv, TInv, TypeOK
  <1>r. UNCHANGED results => UNCHANGED ToolResults
    BY DEF ToolResults
  <1>1. ASSUME UNCHANGED <<pc, prompts, transcript, context, results, parted>> PROVE ContextFollows'
    BY <1>1, <1>r DEF ContextFollows
  <1>2. ASSUME UNCHANGED <<prompts, transcript, context, parted>>,
               pc \in {"turn", "inject", "streaming", "decide", "turnEnd", "followUp", "finish"},
               pc' \notin {"prompts", "tools"}
        PROVE  ContextFollows'
    BY <1>2 DEF ContextFollows
  <1>3. CASE Steer \/ FollowUp \/ ClearQueues \/ Abort \/ Tick \/ PrepareCall \/ Tools
    BY <1>1, <1>3 DEF Steer, FollowUp, ClearQueues, Abort, Tick, PrepareCall, Tools, ToolReturns
  <1>4. CASE Prompt \/ Continue
    <2>1. pc' = "prompts" /\ context' = transcript' \o prompts'
      BY <1>4 DEF Prompt, Continue, StartRun
    <2> QED
      BY <2>1 DEF ContextFollows
  <1>5. CASE DropLastReply
    BY <1>5 DEF DropLastReply, ContextFollows
  <1>6. CASE EmitPrompt
    <2>1. Append(transcript, Head(prompts)) \o Tail(prompts) = transcript \o prompts
      <3>1. prompts # <<>>
        BY <1>6 DEF EmitPrompt
      <3> QED
        BY ONLY <1>t, <3>1, HeadMoves
    <2> QED
      BY <1>6, <2>1 DEF EmitPrompt, ContextFollows
  <1>7. CASE BeginLoop
    <2>1. transcript \o <<>> = transcript
      BY <1>t, ConcatEmptySeq
    <2> QED
      BY <1>7, <2>1 DEF BeginLoop, PollSteering, ContextFollows
  <1>8. CASE InjectMessage
    BY <1>8 DEF InjectMessage, ContextFollows
  <1>9. CASE StreamReply
    BY <1>9 DEF StreamReply, ContextFollows
  <1>10. CASE \/ StartTurn \/ GateShut \/ Request \/ FinalReply \/ GracefulExit \/ TurnEnd
              \/ PollFollowUps \/ Finish \/ AgentEnd \/ TextReply
    BY <1>2, <1>10 DEF StartTurn, GateShut, GateOpen, Request, FinalReply, GracefulExit, TurnEnd,
       PollFollowUps, Finish, AgentEnd, TextReply, TextOnly, Deciding, PollSteering
  <1>11. CASE \/ UpstreamRetry \/ EmptyTurn \/ ZeroDiffTurn \/ CoverageTurn \/ CriteriaTurn
              \/ ReviewPass
    BY <1>2, <1>11 DEF UpstreamRetry, EmptyTurn, ZeroDiffTurn, CoverageTurn, CriteriaTurn,
       ReviewPass, NudgeWith, TextOnly, Deciding
  <1>12. CASE RequestThrows
    BY <1>12 DEF RequestThrows, GateOpen, ContextFollows
  <1>13. CASE BeginTools
    <2>1. ToolResults' = <<>>
      BY <1>13 DEF BeginTools, ToolResults
    <2>2. context \o <<>> = context
      BY <1>t, ConcatEmptySeq
    <2> QED
      BY <1>13, <2>1, <2>2 DEF BeginTools, Deciding, ContextFollows
  <1>14. CASE RefuseCall \/ FinalizeCall
    <2>1. pc = "tools" /\ UNCHANGED <<pc, prompts, context, parted>>
      BY <1>14 DEF RefuseCall, CanPrepare, FinalizeCall
    <2>2. \E i \in 1..Len(calls), err \in BOOLEAN : Outcome(i, err)
      <3>1. CASE RefuseCall
        <4>1. next \in 1..Len(calls)
          BY <2>1, <3>1, CallsInHand DEF RefuseCall, CanPrepare, IInv, TInv, TypeOK
        <4> QED
          BY <3>1, <4>1 DEF RefuseCall
      <3>2. CASE FinalizeCall
        <4>1. PICK i \in runnable \ executing : Outcome(i, i \in failed)
          BY <3>2 DEF FinalizeCall
        <4>2. i \in 1..(next - 1) /\ next <= Len(calls) + 1
          BY <2>1 DEF IInv, ToolsInTurn
        <4>3. next \in Nat /\ Len(calls) \in Nat
          BY <2>1, CallsInHand DEF IInv, TInv, TypeOK
        <4>4. i \in 1..Len(calls)
          BY <4>2, <4>3
        <4>5. (i \in failed) \in BOOLEAN
          OBVIOUS
        <4> QED
          BY <4>1, <4>4, <4>5
      <3> QED
        BY <1>14, <3>1, <3>2
    <2>3. PICK m \in Message : /\ transcript' = Append(transcript, m)
                               /\ ToolResults' = Append(ToolResults, m)
      BY <2>1, <2>2, OutcomeAppends DEF IInv
    <2>4. ASSUME ~parted PROVE transcript' = context \o ToolResults'
      <3>1. context \in Seq(Message) /\ ToolResults \in Seq(Message)
        BY <1>t
      <3>2. transcript = context \o ToolResults
        BY <2>1, <2>4 DEF ContextFollows
      <3> QED
        BY <2>3, <3>1, <3>2, AppendBehind
    <2> QED
      BY <2>1, <2>4 DEF ContextFollows
  <1>15. CASE RecordResults
    BY <1>15 DEF RecordResults, ContextFollows
  <1>16. CASE Settle
    BY <1>16 DEF Settle, ContextFollows
  <1>17. CASE UNCHANGED vars
    BY <1>1, <1>17 DEF vars
  <1> QED
    BY <1>3, <1>4, <1>5, <1>6, <1>7, <1>8, <1>9, <1>10, <1>11, <1>12, <1>13, <1>14, <1>15, <1>16,
       <1>17 DEF Next, UserCall, Loop

\* Whatever was aborted, refused, retried or continued, a request shows the model the
\* transcript, in every run under which no reply was taken from it.
THEOREM ModelIsShownTheTranscript == Spec => []ModelSeesTranscript
  <1>1. Init => ContextFollows
    BY DEF Init, ContextFollows
  <1>2. ContextFollows => ModelSeesTranscript
    BY DEF ContextFollows, ModelSeesTranscript
  <1>3. QED
    BY <1>1, <1>2, NextContextFollows, Invariance, PTL DEF Spec

(***************************************************************************)
(* What a run leaves queued when it ends by itself.  The ids of the queued *)
(* messages have been given out, so that a message that comes after a poll *)
(* is none of those the poll left.                                         *)
(***************************************************************************)
\* The ids of a sequence of messages.
LEMMA IdsByIndex ==
  ASSUME NEW s
  PROVE  \A id : id \in Ids(s) <=> \E i \in DOMAIN s : s[i].id = id
  BY DEF Ids, ToSet

LEMMA IdsOfConcat ==
  ASSUME NEW s \in Seq(UserMessage), NEW t \in Seq(UserMessage), NEW st, st = s \o t
  PROVE  Ids(st) = Ids(s) \cup Ids(t)
  <1>1. ASSUME NEW i \in DOMAIN st
        PROVE  (\E j \in DOMAIN s : st[i] = s[j]) \/ (\E j \in DOMAIN t : st[i] = t[j])
    <2>1. CASE i \in 1..Len(s)
      <3>1. st[i] = s[i] /\ i \in DOMAIN s
        BY <2>1
      <3> QED
        BY <3>1
    <2>2. CASE i \notin 1..Len(s)
      <3>1. st[i] = t[i - Len(s)] /\ i - Len(s) \in DOMAIN t
        BY <2>2
      <3> QED
        BY <3>1
    <2> QED
      BY <2>1, <2>2
  <1>2. ASSUME NEW i \in DOMAIN s PROVE \E j \in DOMAIN st : st[j] = s[i]
    <2>1. st[i] = s[i] /\ i \in DOMAIN st
      OBVIOUS
    <2> QED
      BY <2>1
  <1>3. ASSUME NEW i \in DOMAIN t PROVE \E j \in DOMAIN st : st[j] = t[i]
    <2>1. st[i + Len(s)] = t[i] /\ i + Len(s) \in DOMAIN st
      OBVIOUS
    <2> QED
      BY <2>1
  <1>4. ASSUME NEW id \in Ids(st) PROVE id \in Ids(s) \/ id \in Ids(t)
    <2>1. PICK i \in DOMAIN st : st[i].id = id
      BY IdsByIndex
    <2>2. (\E j \in DOMAIN s : s[j].id = id) \/ (\E j \in DOMAIN t : t[j].id = id)
      BY <1>1, <2>1
    <2> QED
      BY <2>2, IdsByIndex
  <1>5. ASSUME NEW id, id \in Ids(s) \/ id \in Ids(t) PROVE id \in Ids(st)
    <2>1. (\E j \in DOMAIN s : s[j].id = id) \/ (\E j \in DOMAIN t : t[j].id = id)
      BY <1>5, IdsByIndex
    <2>2. \E i \in DOMAIN st : st[i].id = id
      BY <1>2, <1>3, <2>1
    <2> QED
      BY <2>2, IdsByIndex
  <1> QED
    BY <1>4, <1>5

LEMMA IdsOfAppend ==
  ASSUME NEW s \in Seq(UserMessage), NEW m \in UserMessage, NEW sm, sm = Append(s, m)
  PROVE  Ids(sm) = Ids(s) \cup {m.id}
  <1>1. /\ \A i \in DOMAIN s : i \in DOMAIN sm /\ sm[i] = s[i]
        /\ Len(s) + 1 \in DOMAIN sm /\ sm[Len(s) + 1] = m
        /\ \A i \in DOMAIN sm : i \in DOMAIN s \/ i = Len(s) + 1
    OBVIOUS
  <1>2. ASSUME NEW id \in Ids(sm) PROVE id \in Ids(s) \/ id = m.id
    <2>1. PICK i \in DOMAIN sm : sm[i].id = id
      BY IdsByIndex
    <2> QED
      BY <1>1, <2>1, IdsByIndex
  <1>3. ASSUME NEW id \in Ids(s) PROVE id \in Ids(sm)
    <2>1. PICK i \in DOMAIN s : s[i].id = id
      BY IdsByIndex
    <2> QED
      BY <1>1, <2>1, IdsByIndex
  <1>4. m.id \in Ids(sm)
    BY <1>1, IdsByIndex
  <1> QED
    BY <1>2, <1>3, <1>4

LEMMA IdsOfEmpty == Ids(<<>>) = {}
  BY DEF Ids, ToSet

LEMMA IdsOfDrained ==
  ASSUME NEW q \in Seq(UserMessage), NEW mode
  PROVE  /\ Ids(Drain(q, mode).msgs) \subseteq Ids(q)
         /\ Ids(Drain(q, mode).rest) \subseteq Ids(q)
         /\ Drain(q, mode).msgs = <<>> => q = <<>> /\ Drain(q, mode).rest = <<>>
  <1>1. CASE mode = "all" \/ q = <<>>
    BY <1>1, IdsOfEmpty DEF Drain
  <1>2. CASE ~(mode = "all" \/ q = <<>>)
    <2>1. Drain(q, mode) = [msgs |-> SubSeq(q, 1, 1), rest |-> Tail(q)]
      BY <1>2 DEF Drain
    <2> DEFINE h == SubSeq(q, 1, 1)
               t == Tail(q)
    <2>2. /\ 1 \in DOMAIN q
          /\ DOMAIN h = {1} /\ h[1] = q[1]
          /\ \A i \in DOMAIN t : i + 1 \in DOMAIN q /\ t[i] = q[i + 1]
      BY <1>2
    <2>3. h # <<>>
      <3>1. Len(h) = 1 /\ Len(<<>>) = 0
        BY <1>2
      <3> HIDE DEF h
      <3> QED
        BY <3>1
    <2> HIDE DEF h, t
    <2>4. ASSUME NEW id \in Ids(h) PROVE id \in Ids(q)
      <3>1. PICK i \in DOMAIN h : h[i].id = id
        BY IdsByIndex
      <3>2. q[1].id = id
        BY <2>2, <3>1
      <3> QED
        BY <2>2, <3>2, IdsByIndex
    <2>5. ASSUME NEW id \in Ids(t) PROVE id \in Ids(q)
      <3>1. PICK i \in DOMAIN t : t[i].id = id
        BY IdsByIndex
      <3>2. i + 1 \in DOMAIN q /\ q[i + 1].id = id
        BY <2>2, <3>1
      <3> QED
        BY <3>2, IdsByIndex
    <2>6. Drain(q, mode).msgs = h /\ Drain(q, mode).rest = t
      BY <2>1 DEF h, t
    <2> QED
      BY <2>3, <2>4, <2>5, <2>6
  <1> QED
    BY <1>1, <1>2

LateOnly ==
  /\ Ids(steering) \subseteq 0..submitted /\ Ids(followUp) \subseteq 0..submitted
  /\ passedOver \subseteq 0..submitted
  /\ pc = "followUp" => passedOver \cap Ids(steering) = {}
  /\ pc = "finish" => passedOver \cap Ids(steering \o followUp) = {}

LEMMA NextLateOnly == IInv /\ LateOnly /\ [Next]_vars => LateOnly'
  <1> SUFFICES ASSUME IInv, LateOnly, [Next]_vars PROVE LateOnly'
    OBVIOUS
  <1> USE DEF queues, toolVars, history, breaks
  <1>t. /\ steering \in Seq(UserMessage) /\ followUp \in Seq(UserMessage)
        /\ submitted \in Nat
    BY DEF IInv, TInv, TypeOK
  <1>u. Ids(steering \o followUp) = Ids(steering) \cup Ids(followUp)
    BY <1>t, IdsOfConcat
  <1>d. /\ Ids(DrainedSteering.msgs) \subseteq Ids(steering)
        /\ Ids(DrainedSteering.rest) \subseteq Ids(steering)
        /\ DrainedSteering.msgs = <<>> => steering = <<>> /\ DrainedSteering.rest = <<>>
        /\ Ids(DrainedFollowUp.rest) \subseteq Ids(followUp)
        /\ DrainedSteering.rest \in Seq(UserMessage) /\ DrainedFollowUp.rest \in Seq(UserMessage)
    BY <1>t, IdsOfDrained, DrainType DEF DrainedSteering, DrainedFollowUp
  <1>e. Ids(<<>>) = {}
    BY IdsOfEmpty
  <1>1. ASSUME UNCHANGED <<queues, submitted, passedOver>>,
               pc' = pc \/ pc' \notin {"followUp", "finish"}
        PROVE  LateOnly'
    BY <1>1 DEF LateOnly
  <1>2. ASSUME steering' \in {steering, DrainedSteering.rest, <<>>},
               followUp' \in {followUp, DrainedFollowUp.rest, <<>>},
               UNCHANGED <<submitted, passedOver>>, pc' \notin {"followUp", "finish"}
        PROVE  LateOnly'
    BY <1>2, <1>d, <1>e DEF LateOnly
  <1>3. ASSUME NEW before, NEW after, PollSteering(before, after), pc' # "finish",
               pc' = "followUp" => DrainedSteering.msgs = <<>>
        PROVE  LateOnly'
    <2>1. /\ steering' = DrainedSteering.rest /\ UNCHANGED <<followUp, submitted>>
          /\ passedOver' = Ids(DrainedSteering.rest \o followUp)
      BY <1>3 DEF PollSteering
    <2>2. Ids(DrainedSteering.rest \o followUp) = Ids(DrainedSteering.rest) \cup Ids(followUp)
      BY <1>t, <1>d, IdsOfConcat
    <2> QED
      BY <1>3, <1>d, <1>e, <2>1, <2>2 DEF LateOnly
  <1>4. ASSUME NEW via \in {"steer", "followUp"}, UNCHANGED <<pc, passedOver>>,
               submitted' = submitted + 1,
               \/ steering' = Append(steering, Submit(via)) /\ UNCHANGED followUp
               \/ followUp' = Append(followUp, Submit(via)) /\ UNCHANGED steering
        PROVE  LateOnly'
    <2>1. Submit(via) \in UserMessage /\ Submit(via).id = submitted + 1
      BY <1>t DEF Submit, User, UserMessage
    <2>2. /\ steering' \in Seq(UserMessage) /\ followUp' \in Seq(UserMessage)
          /\ Ids(steering') \subseteq Ids(steering) \cup {submitted + 1}
          /\ Ids(followUp') \subseteq Ids(followUp) \cup {submitted + 1}
      <3> HIDE DEF Submit
      <3>1. CASE steering' = Append(steering, Submit(via)) /\ UNCHANGED followUp
        <4> DEFINE m == Submit(via)
        <4>1. m \in UserMessage /\ m.id = submitted + 1 /\ steering' = Append(steering, m)
          BY <2>1, <3>1
        <4> HIDE DEF m
        <4>2. steering' \in Seq(UserMessage)
          BY <1>t, <4>1
        <4>3. Ids(steering') = Ids(steering) \cup {m.id}
          BY <1>t, <4>1, IdsOfAppend, Zenon
        <4> QED
          BY <1>t, <3>1, <4>1, <4>2, <4>3
      <3>2. CASE followUp' = Append(followUp, Submit(via)) /\ UNCHANGED steering
        <4> DEFINE m == Submit(via)
        <4>1. m \in UserMessage /\ m.id = submitted + 1 /\ followUp' = Append(followUp, m)
          BY <2>1, <3>2
        <4> HIDE DEF m
        <4>2. followUp' \in Seq(UserMessage)
          BY <1>t, <4>1
        <4>3. Ids(followUp') = Ids(followUp) \cup {m.id}
          BY <1>t, <4>1, IdsOfAppend, Zenon
        <4> QED
          BY <1>t, <3>2, <4>1, <4>2, <4>3
      <3> QED
        BY <1>4, <3>1, <3>2
    <2>3. Ids(steering' \o followUp') = Ids(steering') \cup Ids(followUp')
      BY <2>2, IdsOfConcat
    <2>4. submitted + 1 \notin passedOver /\ 0..submitted \subseteq 0..submitted'
          /\ submitted + 1 \in 0..submitted'
      BY <1>4, <1>t DEF LateOnly
    <2>5. pc = "finish" => passedOver \cap (Ids(steering) \cup Ids(followUp)) = {}
      BY <1>u DEF LateOnly
    <2> QED
      BY <1>4, <2>2, <2>3, <2>4, <2>5 DEF LateOnly
  <1>5. CASE Steer
    BY <1>4, <1>5 DEF Steer, Enqueue
  <1>6. CASE FollowUp
    BY <1>4, <1>6 DEF FollowUp, Enqueue
  <1>7. CASE ClearQueues
    <2>1. steering' \o followUp' = <<>> /\ UNCHANGED <<pc, submitted, passedOver>>
          /\ steering' = <<>> /\ followUp' = <<>>
      BY <1>7, ConcatEmptySeq, EmptySeq DEF ClearQueues
    <2> QED
      BY <1>e, <2>1 DEF LateOnly
  <1>8. CASE Abort \/ DropLastReply \/ Tick \/ Tools
    BY <1>1, <1>8 DEF Abort, DropLastReply, Tick, Tools, ToolReturns
  <1>9. CASE Prompt
    <2>1. UNCHANGED <<queues, passedOver>> /\ submitted' = submitted + 1 /\ pc' = "prompts"
      BY <1>9 DEF Prompt, StartRun
    <2>2. 0..submitted \subseteq 0..submitted'
      BY <1>t, <2>1
    <2> QED
      BY <2>1, <2>2 DEF LateOnly
  <1>10. CASE Continue
    BY <1>2, <1>10 DEF Continue, StartRun
  <1>11. CASE BeginLoop
    <2>1. pc' = "inject"
      BY <1>11 DEF BeginLoop
    <2>2. (\E before, after : PollSteering(before, after)) \/ UNCHANGED <<queues, history>>
      BY <1>11 DEF BeginLoop
    <2> QED
      BY <1>1, <1>3, <2>1, <2>2
  <1>12. CASE TextReply
    BY <1>3, <1>12 DEF TextReply
  <1>13. CASE TurnEnd
    BY <1>3, <1>13 DEF TurnEnd
  <1>14. CASE PollFollowUps
    BY <1>2, <1>14 DEF PollFollowUps
  <1>15. CASE Finish
    <2>1. followUp = <<>> /\ pc = "followUp" /\ pc' = "finish"
          /\ UNCHANGED <<queues, submitted, passedOver>>
      BY <1>15 DEF Finish, NoFollowUp
    <2> QED
      BY <1>u, <1>e, <2>1 DEF LateOnly
  <1>16. CASE Settle
    BY <1>16 DEF Settle, LateOnly
  <1>17. CASE \/ EmitPrompt \/ StartTurn \/ InjectMessage \/ GateShut \/ Request \/ RequestThrows
              \/ StreamReply \/ FinalReply \/ BeginTools \/ PrepareCall \/ RefuseCall
              \/ FinalizeCall \/ RecordResults \/ GracefulExit \/ AgentEnd
    BY <1>1, <1>17 DEF EmitPrompt, StartTurn, InjectMessage, GateShut, Request, RequestThrows,
       StreamReply, FinalReply, BeginTools, PrepareCall, RefuseCall, FinalizeCall, RecordResults,
       GracefulExit, AgentEnd
  <1>18. CASE \/ UpstreamRetry \/ EmptyTurn \/ ZeroDiffTurn \/ CoverageTurn \/ CriteriaTurn
              \/ ReviewPass
    BY <1>1, <1>18 DEF UpstreamRetry, EmptyTurn, ZeroDiffTurn, CoverageTurn, CriteriaTurn,
       ReviewPass, NudgeWith
  <1>19. CASE UNCHANGED vars
    BY <1>1, <1>19 DEF vars
  <1> QED
    BY <1>5, <1>6, <1>7, <1>8, <1>9, <1>10, <1>11, <1>12, <1>13, <1>14, <1>15, <1>16, <1>17,
       <1>18, <1>19 DEF Next, UserCall, Loop

\* A run that ends by itself has taken every message that was queued when it last
\* looked: what is left came later.
THEOREM OnlyLateMessagesWait == Spec => []FinishedRunLeavesOnlyLateMessages
  <1>1. Init => LateOnly
    BY IdsOfEmpty DEF Init, LateOnly
  <1>2. LateOnly => FinishedRunLeavesOnlyLateMessages
    BY DEF LateOnly, FinishedRunLeavesOnlyLateMessages
  <1>3. QED
    BY <1>1, <1>2, NextLateOnly, Invariance, PTL DEF Spec

(***************************************************************************)
(* How often a message occurs in a sequence.                               *)
(***************************************************************************)
At(s, id) == { i \in DOMAIN s : s[i].role = "user" /\ s[i].id = id }
Count(s, id) == Cardinality(At(s, id))
One(m, id) == IF m.role = "user" /\ m.id = id THEN 1 ELSE 0

LEMMA CountType ==
  ASSUME NEW s \in Seq(Message), NEW id
  PROVE  IsFiniteSet(At(s, id)) /\ Count(s, id) \in Nat
  <1>1. IsFiniteSet(1..Len(s)) /\ At(s, id) \in SUBSET (1..Len(s))
    BY FS_Interval DEF At
  <1>2. IsFiniteSet(At(s, id))
    BY <1>1, FS_Subset
  <1> QED
    BY <1>2, FS_CardinalityType DEF Count

LEMMA CountOfEmpty == \A id : Count(<<>>, id) = 0
  BY FS_EmptySet DEF Count, At

LEMMA CountOfConcat ==
  ASSUME NEW s \in Seq(Message), NEW t \in Seq(Message), NEW id
  PROVE  Count(s \o t, id) = Count(s, id) + Count(t, id)
  <1> DEFINE st == s \o t
             A == At(s, id)
             B == At(t, id)
             n == Len(s)
             C == { i \in At(st, id) : i > n }
             f == [i \in B |-> i + n]
  <1>1. /\ st \in Seq(Message) /\ n \in Nat /\ Len(st) = n + Len(t)
        /\ \A i \in 1..n : st[i] = s[i]
        /\ \A i \in 1..Len(t) : st[i + n] = t[i]
        /\ DOMAIN st = 1..Len(st) /\ DOMAIN s = 1..n /\ DOMAIN t = 1..Len(t)
    OBVIOUS
  <1> HIDE DEF n, st
  <1>2. At(st, id) = A \cup C /\ A \cap C = {}
    BY <1>1 DEF At
  <1>3. IsFiniteSet(A) /\ IsFiniteSet(B)
    BY CountType
  <1>4. f \in Bijection(B, C)
    <2>1. f \in [B -> C]
      <3>1. ASSUME NEW i \in B PROVE i + n \in C
        <4>1. i \in 1..Len(t) /\ t[i].role = "user" /\ t[i].id = id
          BY <1>1 DEF At
        <4>2. i + n \in 1..Len(st) /\ i + n > n /\ st[i + n] = t[i]
          BY <1>1, <4>1
        <4> QED
          BY <1>1, <4>1, <4>2 DEF At
      <3> QED
        BY <3>1
    <2>2. ASSUME NEW a \in B, NEW b \in B, f[a] = f[b] PROVE a = b
      BY <1>1, <2>2 DEF At
    <2>3. ASSUME NEW c \in C PROVE \E b \in B : f[b] = c
      <3>1. c \in 1..Len(st) /\ c > n /\ st[c].role = "user" /\ st[c].id = id
        BY <1>1 DEF At
      <3>2. c - n \in 1..Len(t) /\ (c - n) + n = c
        BY <1>1, <3>1
      <3>3. st[c] = t[c - n]
        BY <1>1, <3>2
      <3>4. c - n \in B
        BY <1>1, <3>1, <3>2, <3>3 DEF At
      <3> QED
        BY <3>2, <3>4
    <2> HIDE DEF f, B, C
    <2> QED
      BY <2>1, <2>2, <2>3, Fun_IsBij
  <1>5. IsFiniteSet(C) /\ Cardinality(C) = Cardinality(B)
    <2>1. ExistsBijection(B, C)
      BY <1>4, Fun_ExistsBij
    <2> HIDE DEF B, C
    <2> QED
      BY <1>3, <2>1, FS_Bijection
  <1>6. Cardinality(A \cup C) = Cardinality(A) + Cardinality(C) - Cardinality(A \cap C)
    <2> HIDE DEF A, C
    <2> QED
      BY <1>3, <1>5, FS_Union
  <1>7. Cardinality(A \cap C) = 0
    BY <1>2, FS_EmptySet
  <1>8. Cardinality(A) \in Nat /\ Cardinality(B) \in Nat
    BY <1>3, FS_CardinalityType
  <1> HIDE DEF A, B, C
  <1>9. Cardinality(At(st, id)) = Cardinality(A) + Cardinality(B)
    BY <1>2, <1>5, <1>6, <1>7, <1>8
  <1> QED
    BY <1>9 DEF Count, A, B, st

LEMMA CountOfOne ==
  ASSUME NEW m, NEW id
  PROVE  Count(<<m>>, id) = One(m, id)
  <1>1. At(<<m>>, id) = IF m.role = "user" /\ m.id = id THEN {1} ELSE {}
    BY DEF At
  <1> QED
    BY <1>1, FS_EmptySet, FS_Singleton DEF Count, One

LEMMA CountOfAppend ==
  ASSUME NEW s \in Seq(Message), NEW m \in Message, NEW id
  PROVE  Count(Append(s, m), id) = Count(s, id) + One(m, id)
  <1> DEFINE sm == Append(s, m)
  <1>1. sm = s \o <<m>> /\ <<m>> \in Seq(Message)
    <2> DEFINE b == s \o <<m>>
    <2>1. sm \in Seq(Message) /\ b \in Seq(Message) /\ Len(sm) = Len(b)
      OBVIOUS
    <2>2. ASSUME NEW i \in 1..Len(sm) PROVE sm[i] = b[i]
      OBVIOUS
    <2> HIDE DEF b
    <2>3. sm = b
      BY <2>1, <2>2, SeqEqual
    <2> QED
      BY <2>3 DEF b
  <1> DEFINE u == <<m>>
  <1>2. Count(u, id) = One(m, id)
    BY CountOfOne
  <1>3. sm = s \o u /\ u \in Seq(Message)
    BY <1>1
  <1> HIDE DEF u, sm
  <1>4. Count(sm, id) = Count(s, id) + Count(u, id)
    BY <1>3, CountOfConcat
  <1> QED
    BY <1>2, <1>4 DEF sm

\* A message that occurs is counted.
LEMMA CountPositive ==
  ASSUME NEW s \in Seq(Message), NEW i \in DOMAIN s, s[i].role = "user"
  PROVE  Count(s, s[i].id) >= 1
  <1>1. i \in At(s, s[i].id)
    BY DEF At
  <1>2. IsFiniteSet(At(s, s[i].id)) /\ Count(s, s[i].id) \in Nat
    BY CountType
  <1>3. Count(s, s[i].id) # 0
    BY <1>1, <1>2, FS_EmptySet DEF Count
  <1> QED
    BY <1>2, <1>3

LEMMA CountNone ==
  ASSUME NEW s, NEW id, \A i \in DOMAIN s : ~(s[i].role = "user" /\ s[i].id = id)
  PROVE  Count(s, id) = 0
  <1>1. At(s, id) = {}
    BY DEF At
  <1> QED
    BY <1>1, FS_EmptySet DEF Count

(***************************************************************************)
(* What a step does with the messages.  Each step of the Agent is one of   *)
(* these moves between the transcript, the prompts, the pending list and   *)
(* the queues; what a move preserves, every step preserves.                *)
(***************************************************************************)
OnlyNudges(s) == \A i \in DOMAIN s : s[i] \in {Nudge, ForceEdit}

Still == UNCHANGED <<transcript, prompts, pending, queues, submitted, cleared>>

\* A message that is not the user's comes last in the transcript, or leaves it.
Told == /\ \E m \in Message : m.role # "user" /\ transcript' = Append(transcript, m)
        /\ UNCHANGED <<prompts, pending, queues, submitted, cleared>>

Untold == /\ \E m \in Message : m.role # "user" /\ transcript = Append(transcript', m)
          /\ UNCHANGED <<prompts, pending, queues, submitted, cleared>>

Announced == /\ prompts # <<>>
             /\ transcript' = Append(transcript, Head(prompts)) /\ prompts' = Tail(prompts)
             /\ UNCHANGED <<pending, queues, submitted, cleared>>

Injected == /\ prompts = <<>> /\ pending # <<>>
            /\ transcript' = Append(transcript, Head(pending)) /\ pending' = Tail(pending)
            /\ UNCHANGED <<prompts, queues, submitted, cleared>>

Renewed == /\ OnlyNudges(pending) /\ OnlyNudges(pending')
           /\ UNCHANGED <<transcript, prompts, queues, submitted, cleared>>

SteeringPolled ==
  /\ prompts = <<>> /\ OnlyNudges(pending)
  /\ \E before, after \in Seq(UserMessage) :
       /\ OnlyNudges(before) /\ OnlyNudges(after)
       /\ pending' = before \o DrainedSteering.msgs \o after
  /\ steering' = DrainedSteering.rest
  /\ UNCHANGED <<transcript, prompts, followUp, submitted, cleared>>

FollowUpPolled ==
  /\ prompts = <<>> /\ OnlyNudges(pending)
  /\ pending' = DrainedFollowUp.msgs /\ followUp' = DrainedFollowUp.rest
  /\ UNCHANGED <<transcript, prompts, steering, submitted, cleared>>

SteeringStarted ==
  /\ prompts = <<>> /\ pending = <<>>
  /\ prompts' = DrainedSteering.msgs /\ steering' = DrainedSteering.rest
  /\ UNCHANGED <<transcript, pending, followUp, submitted, cleared>>

FollowUpStarted ==
  /\ prompts = <<>> /\ pending = <<>>
  /\ prompts' = DrainedFollowUp.msgs /\ followUp' = DrainedFollowUp.rest
  /\ UNCHANGED <<transcript, pending, steering, submitted, cleared>>

Submitted ==
  /\ submitted' = submitted + 1
  /\ \/ steering' = Append(steering, Submit("steer")) /\ UNCHANGED <<prompts, followUp>>
     \/ followUp' = Append(followUp, Submit("followUp")) /\ UNCHANGED <<prompts, steering>>
     \/ prompts = <<>> /\ prompts' = <<Submit("prompt")>> /\ UNCHANGED queues
  /\ UNCHANGED <<transcript, pending, cleared>>

TakenBack ==
  /\ cleared' = cleared \cup Ids(steering \o followUp)
  /\ steering' = <<>> /\ followUp' = <<>>
  /\ UNCHANGED <<transcript, prompts, pending, submitted>>

Move == \/ Still \/ Told \/ Untold \/ Announced \/ Injected \/ Renewed
        \/ SteeringPolled \/ FollowUpPolled \/ SteeringStarted \/ FollowUpStarted
        \/ Submitted \/ TakenBack

\* Where a step may put a list in the place of the pending one, that one holds
\* nothing of the user's.
PendingByPc == /\ pc \notin {"inject", "turn"} => OnlyNudges(pending)
               /\ pc = "idle" => pending = <<>>

\* A sequence ends with its last element.
LEMMA FrontAndLast ==
  ASSUME NEW S, NEW s \in Seq(S), s # <<>>
  PROVE  /\ Last(s) \in S /\ Front(s) \in Seq(S)
         /\ s = Append(Front(s), Last(s))
  <1>1. Front(s) \in Seq(S) /\ Len(Front(s)) = Len(s) - 1 /\ Len(s) \in Nat \ {0}
        /\ \A i \in 1..(Len(s) - 1) : Front(s)[i] = s[i]
    <2>1. Len(s) \in Nat \ {0} /\ \A i \in 1..(Len(s) - 1) : s[i] \in S
      OBVIOUS
    <2> DEFINE n == Len(s) - 1
    <2>2. /\ 1 \in Int /\ n \in Int /\ n >= 0 /\ Front(s) = SubSeq(s, 1, n)
          /\ \A i \in 1..n : s[i] \in S
      BY <2>1 DEF Front
    <2> HIDE DEF n
    <2>3. Len(SubSeq(s, 1, n)) = IF 1 <= n THEN n - 1 + 1 ELSE 0
      BY <2>2, SubSeqProperties
    <2>4. \A i \in 1..(n - 1 + 1) : SubSeq(s, 1, n)[i] = s[1 + i - 1]
      BY <2>2, SubSeqProperties
    <2>5. Len(SubSeq(s, 1, n)) = n /\ \A i \in 1..n : SubSeq(s, 1, n)[i] = s[i]
      BY <2>2, <2>3, <2>4
    <2> QED
      BY <2>1, <2>2, <2>5, FrontIsSeq DEF n
  <1>2. Last(s) = s[Len(s)] /\ Last(s) \in S
    <2>1. Len(s) \in 1..Len(s)
      BY <1>1
    <2>2. s[Len(s)] \in S
      BY <2>1
    <2> QED
      BY <2>2 DEF Last
  <1> DEFINE f == Front(s)
             l == Last(s)
             b == Append(f, l)
  <1> HIDE DEF f, l
  <1>3. f \in Seq(S) /\ Len(f) = Len(s) - 1 /\ l \in S /\ l = s[Len(s)]
        /\ \A i \in 1..(Len(s) - 1) : f[i] = s[i]
    BY <1>1, <1>2 DEF f, l
  <1>4. b \in Seq(S) /\ Len(b) = Len(s)
    BY <1>1, <1>3
  <1>5. ASSUME NEW i \in 1..Len(s) PROVE s[i] = b[i]
    <2>1. i \in 1..(Len(s) - 1) \/ i = Len(s)
      BY <1>1
    <2> QED
      BY <1>1, <1>3, <2>1
  <1> HIDE DEF b
  <1>6. s = b
    BY <1>4, <1>5, SeqEqual
  <1> QED
    BY <1>2, <1>3, <1>6 DEF f, l, b

LEMMA NudgeLists == OnlyNudges(<<>>) /\ OnlyNudges(<<Nudge>>) /\ OnlyNudges(<<ForceEdit>>)
  BY DEF OnlyNudges

LEMMA PolledNothing ==
  ASSUME DrainedSteering.msgs = <<>>
  PROVE  OnlyNudges((<<>> \o DrainedSteering.msgs) \o <<>>)
  <1>1. (<<>> \o <<>>) \o <<>> = <<>>
    BY ConcatEmptySeq, EmptySeq
  <1> QED
    BY <1>1, NudgeLists

LEMMA NextMoves ==
  ASSUME IInv, ContextFollows, PendingByPc, [Next]_vars
  PROVE  Move /\ PendingByPc'
  <1> USE DEF queues, toolVars, history, breaks
  <1>t. /\ transcript \in Seq(Message) /\ transcript' \in Seq(Message)
        /\ pending \in Seq(UserMessage)
        /\ <<>> \in Seq(UserMessage) /\ <<Nudge>> \in Seq(UserMessage)
    BY NextTInv, EmptySeq, MessageKinds DEF IInv, TInv, TypeOK
  <1>p. pc # "prompts" => prompts = <<>>
    BY DEF ContextFollows
  <1>1. ASSUME Still, pc' = pc \/ pc' \in {"inject", "turn"} \/ OnlyNudges(pending),
               pc' = "idle" => pc = "idle"
        PROVE  Move /\ PendingByPc'
    BY <1>1 DEF Still, Move, PendingByPc
  <1>2. ASSUME NEW m \in Message, m.role # "user",
               transcript' = Append(transcript, m) \/ transcript = Append(transcript', m),
               UNCHANGED <<prompts, pending, queues, submitted, cleared>>,
               pc' = pc \/ OnlyNudges(pending), pc' = "idle" => pc = "idle"
        PROVE  Move /\ PendingByPc'
    BY <1>2 DEF Told, Untold, Move, PendingByPc
  <1>3. ASSUME Renewed, pc' # "idle" PROVE Move /\ PendingByPc'
    BY <1>3 DEF Renewed, Move, PendingByPc
  <1>4. CASE Steer \/ FollowUp
    BY <1>4 DEF Steer, FollowUp, Enqueue, Submitted, Move, PendingByPc
  <1>5. CASE ClearQueues
    BY <1>5 DEF ClearQueues, TakenBack, Move, PendingByPc
  <1>6. CASE Abort \/ Tick \/ Tools
    BY <1>1, <1>6 DEF Abort, Tick, Tools, ToolReturns, Still
  <1>7. CASE Prompt
    BY <1>7, <1>p, NudgeLists DEF Prompt, StartRun, Submitted, Move, PendingByPc
  <1>8. CASE Continue
    <2>1. /\ pc = "idle" /\ pc' = "prompts" /\ prompts = <<>> /\ pending = <<>> /\ pending' = <<>>
          /\ UNCHANGED <<transcript, submitted, cleared>>
      BY <1>8, <1>p DEF Continue, StartRun, PendingByPc
    <2>2. \/ prompts' = DrainedSteering.msgs /\ steering' = DrainedSteering.rest
             /\ UNCHANGED followUp
          \/ prompts' = DrainedFollowUp.msgs /\ followUp' = DrainedFollowUp.rest
             /\ UNCHANGED steering
          \/ prompts' = <<>> /\ UNCHANGED <<steering, followUp>>
      BY <1>8 DEF Continue, StartRun
    <2>3. SteeringStarted \/ FollowUpStarted \/ Still
      BY <2>1, <2>2 DEF SteeringStarted, FollowUpStarted, Still
    <2> QED
      BY <2>1, <2>3, NudgeLists DEF Move, PendingByPc
  <1>9. CASE DropLastReply
    <2>1. /\ transcript # <<>> /\ transcript' = Front(transcript) /\ pc' = pc
          /\ Last(transcript).role = "assistant"
          /\ UNCHANGED <<prompts, pending, queues, submitted, cleared>>
      BY <1>9 DEF DropLastReply, LastIsReply
    <2>2. transcript = Append(Front(transcript), Last(transcript)) /\ Last(transcript) \in Message
      BY <1>t, <2>1, FrontAndLast
    <2> QED
      BY <1>2, <2>1, <2>2
  <1>10. CASE EmitPrompt
    BY <1>10 DEF EmitPrompt, Announced, Move, PendingByPc
  <1>11. CASE BeginLoop
    <2>1. pc = "prompts" /\ prompts = <<>> /\ pc' = "inject"
          /\ UNCHANGED <<prompts, transcript, followUp, submitted, cleared>>
      BY <1>11 DEF BeginLoop, PollSteering
    <2>2. OnlyNudges(pending)
      BY <2>1 DEF PendingByPc
    <2> DEFINE hurry == IF ShortBudget /\ loop.prompted THEN <<Nudge>> ELSE <<>>
    <2>3. PICK setup \in {<<>>, <<Nudge>>} :
            \/ pending' = hurry \o setup /\ UNCHANGED <<steering, submitted, cleared>>
            \/ PollSteering(hurry, setup)
      BY <1>11 DEF BeginLoop
    <2>4. /\ hurry \in Seq(UserMessage) /\ setup \in Seq(UserMessage)
          /\ OnlyNudges(hurry) /\ OnlyNudges(setup)
      BY <1>t, <2>3, NudgeLists
    <2> HIDE DEF hurry
    <2>5. CASE pending' = hurry \o setup /\ UNCHANGED <<steering, submitted, cleared>>
      <3>1. OnlyNudges(pending')
        BY <2>4, <2>5 DEF OnlyNudges
      <3> QED
        BY <1>3, <2>1, <2>2, <2>5, <3>1 DEF Renewed
    <2>6. CASE PollSteering(hurry, setup)
      BY <2>1, <2>2, <2>4, <2>6 DEF PollSteering, SteeringPolled, Move, PendingByPc
    <2> QED
      BY <2>3, <2>5, <2>6
  <1>12. CASE StartTurn \/ GateShut \/ Request
    BY <1>1, <1>12, NudgeLists DEF StartTurn, GateShut, Request, GateOpen, Still
  <1>13. CASE InjectMessage
    BY <1>13, <1>p DEF InjectMessage, Injected, Move, PendingByPc
  <1>14. CASE RequestThrows
    <2>1. PICK why \in {"error", "aborted"} :
            transcript' = Append(transcript, ReplyMessage(why, <<>>))
      BY <1>14 DEF RequestThrows
    <2>2. ReplyMessage(why, <<>>) \in Message /\ ReplyMessage(why, <<>>).role # "user"
      BY EmptySeq DEF ReplyMessage, Message, Reply
    <2>3. UNCHANGED <<prompts, pending, queues, submitted, cleared>> /\ pc' = "ending"
          /\ OnlyNudges(pending)
      BY <1>14, NudgeLists DEF RequestThrows, GateOpen
    <2> QED
      BY <1>2, <2>1, <2>2, <2>3
  <1>15. CASE StreamReply
    <2>1. PICK r : transcript' = Append(transcript, ReplyMessage(r[1], Calls(r[2])))
      BY <1>15 DEF StreamReply
    <2> DEFINE m == ReplyMessage(r[1], Calls(r[2]))
    <2>2. m.role # "user"
      BY DEF ReplyMessage
    <2> HIDE DEF m
    <2>3. transcript' = Append(transcript, m)
      BY <2>1 DEF m
    <2>4. m \in Message
      <3>1. transcript'[Len(transcript')] = m /\ transcript' # <<>>
        BY <1>t, <2>3
      <3> QED
        BY <1>t, <3>1
    <2>5. pc = "streaming" /\ pc' = "decide"
          /\ UNCHANGED <<prompts, pending, queues, submitted, cleared>>
      BY <1>15 DEF StreamReply
    <2> QED
      BY <1>2, <2>2, <2>3, <2>4, <2>5 DEF PendingByPc
  <1>16. CASE FinalReply \/ BeginTools \/ GracefulExit \/ Finish \/ AgentEnd \/ PrepareCall
    BY <1>1, <1>16 DEF FinalReply, BeginTools, Deciding, GracefulExit, Finish, AgentEnd,
       PrepareCall, CanPrepare, Still, PendingByPc
  <1>17. CASE \/ UpstreamRetry \/ EmptyTurn \/ ZeroDiffTurn \/ CoverageTurn \/ CriteriaTurn
              \/ ReviewPass
    <2>1. pc \in {"decide", "followUp"} /\ \E l : NudgeWith(l)
      BY <1>17 DEF UpstreamRetry, EmptyTurn, ZeroDiffTurn, CoverageTurn, CriteriaTurn, ReviewPass,
         TextOnly, Deciding
    <2> QED
      BY <1>3, <2>1, NudgeLists DEF NudgeWith, Renewed, PendingByPc
  <1>18. CASE TextReply \/ TurnEnd
    <2>1. /\ pc \in {"decide", "turnEnd"} /\ PollSteering(<<>>, <<>>)
          /\ pc' = "turn" \/ (pc' = "followUp" /\ DrainedSteering.msgs = <<>>)
          /\ UNCHANGED <<prompts, transcript>>
      BY <1>18 DEF TextReply, TextOnly, Deciding, TurnEnd
    <2>2. pending' = (<<>> \o DrainedSteering.msgs) \o <<>>
          /\ steering' = DrainedSteering.rest /\ UNCHANGED <<followUp, submitted, cleared>>
      BY <2>1 DEF PollSteering
    <2>3. SteeringPolled
      BY <1>t, <1>p, <2>1, <2>2, NudgeLists DEF SteeringPolled, PendingByPc
    <2>4. PendingByPc'
      BY <2>1, <2>2, PolledNothing DEF PendingByPc
    <2> QED
      BY <2>3, <2>4 DEF Move
  <1>19. CASE RefuseCall \/ FinalizeCall
    <2>1. PICK i, err :
            transcript' = Append(transcript, ResultMessage([call |-> calls[i], err |-> err]))
      BY <1>19 DEF RefuseCall, FinalizeCall, Outcome
    <2> DEFINE m == ResultMessage([call |-> calls[i], err |-> err])
    <2>2. m.role # "user"
      BY DEF ResultMessage
    <2> HIDE DEF m
    <2>3. transcript' = Append(transcript, m)
      BY <2>1 DEF m
    <2>4. m \in Message
      <3>1. transcript'[Len(transcript')] = m /\ transcript' # <<>>
        BY <1>t, <2>3
      <3> QED
        BY <1>t, <3>1
    <2>5. pc' = pc /\ UNCHANGED <<prompts, pending, queues, submitted, cleared>>
      BY <1>19 DEF RefuseCall, FinalizeCall
    <2> QED
      BY <1>2, <2>2, <2>3, <2>4, <2>5
  <1>20. CASE RecordResults
    <2>1. pending' \in {<<>>, <<Nudge>>, <<ForceEdit>>}
      BY <1>20 DEF RecordResults, RecordedNudges
    <2> QED
      BY <1>3, <1>20, <2>1, NudgeLists DEF RecordResults, Renewed, PendingByPc
  <1>21. CASE PollFollowUps
    BY <1>21, <1>p DEF PollFollowUps, FollowUpPolled, Move, PendingByPc
  <1>22. CASE Settle
    BY <1>22, NudgeLists DEF Settle, Renewed, Move, PendingByPc
  <1>23. CASE UNCHANGED vars
    BY <1>1, <1>23 DEF vars, Still
  <1> QED
    BY <1>4, <1>5, <1>6, <1>7, <1>8, <1>9, <1>10, <1>11, <1>12, <1>13, <1>14, <1>15, <1>16, <1>17,
       <1>18, <1>19, <1>20, <1>21, <1>22, <1>23 DEF Next, UserCall, Loop

(***************************************************************************)
(* A message the user has submitted is in one place, and one that the user *)
(* has not submitted, or has taken back, is in none.                       *)
(***************************************************************************)
Total(id) == Count(transcript, id) + Count(prompts, id) + Count(pending, id)
               + Count(steering, id) + Count(followUp, id)

Owed(id) == IF id \in 1..submitted /\ id \notin cleared THEN 1 ELSE 0

Counted == /\ cleared \subseteq 0..submitted
           /\ \A id \in Nat \ {0} : Total(id) = Owed(id)

LEMMA NudgesAreNotCounted ==
  ASSUME NEW s \in Seq(UserMessage), OnlyNudges(s), NEW id \in Nat \ {0}
  PROVE  Count(s, id) = 0
  <1>1. \A i \in DOMAIN s : s[i].id = 0
    BY DEF OnlyNudges, Nudge, ForceEdit, User
  <1> QED
    BY <1>1, CountNone

LEMMA CountOfHead ==
  ASSUME NEW s \in Seq(Message), s # <<>>, NEW id
  PROVE  Count(s, id) = One(Head(s), id) + Count(Tail(s), id)
  <1> DEFINE h == <<Head(s)>>
             t == Tail(s)
  <1>1. s = h \o t /\ t \in Seq(Message) /\ h \in Seq(Message)
    BY HeadMoves
  <1>2. Count(h, id) = One(Head(s), id)
    BY CountOfOne
  <1> HIDE DEF h, t
  <1>3. Count(s, id) = Count(h, id) + Count(t, id)
    BY <1>1, CountOfConcat
  <1> QED
    BY <1>2, <1>3 DEF t

\* Draining splits a queue.
LEMMA DrainSplits ==
  ASSUME NEW q \in Seq(UserMessage), NEW mode
  PROVE  q = Drain(q, mode).msgs \o Drain(q, mode).rest
  <1>1. CASE mode = "all" \/ q = <<>>
    <2>1. q \o <<>> = q /\ Drain(q, mode).msgs = q /\ Drain(q, mode).rest = <<>>
      BY <1>1, ConcatEmptySeq DEF Drain
    <2> QED
      BY <2>1
  <1>2. CASE ~(mode = "all" \/ q = <<>>)
    <2>1. q = <<Head(q)>> \o Tail(q)
      BY <1>2, HeadMoves
    <2> DEFINE a == SubSeq(q, 1, 1)
               b == <<Head(q)>>
    <2>2. a \in Seq(UserMessage) /\ b \in Seq(UserMessage) /\ Len(a) = 1 /\ Len(b) = 1
          /\ a[1] = b[1]
      BY <1>2
    <2> HIDE DEF a, b
    <2>3. a = b
      BY <2>2, SeqEqual
    <2> QED
      BY <1>2, <2>1, <2>3 DEF Drain, a, b
  <1> QED
    BY <1>1, <1>2

LEMMA CountOfDrained ==
  ASSUME NEW q \in Seq(UserMessage), NEW mode, NEW id
  PROVE  Count(q, id) = Count(Drain(q, mode).msgs, id) + Count(Drain(q, mode).rest, id)
  <1> DEFINE m == Drain(q, mode).msgs
             r == Drain(q, mode).rest
  <1>1. q = m \o r /\ m \in Seq(Message) /\ r \in Seq(Message)
    BY DrainSplits, DrainType, UserSeqIsMessageSeq
  <1> HIDE DEF m, r
  <1>2. Count(q, id) = Count(m, id) + Count(r, id)
    BY <1>1, CountOfConcat
  <1> QED
    BY <1>2 DEF m, r

\* What is counted of the lists and queues, as natural numbers.
LEMMA CountsAreNat ==
  ASSUME TInv, NEW id
  PROVE  /\ transcript \in Seq(Message) /\ prompts \in Seq(Message) /\ pending \in Seq(Message)
         /\ steering \in Seq(Message) /\ followUp \in Seq(Message)
         /\ Count(transcript, id) \in Nat /\ Count(prompts, id) \in Nat
         /\ Count(pending, id) \in Nat /\ Count(steering, id) \in Nat
         /\ Count(followUp, id) \in Nat
  <1>1. /\ transcript \in Seq(Message) /\ prompts \in Seq(Message) /\ pending \in Seq(Message)
        /\ steering \in Seq(Message) /\ followUp \in Seq(Message)
    BY UserSeqIsMessageSeq DEF TInv, TypeOK
  <1> QED
    BY <1>1, CountType

\* A move that neither submits nor takes back leaves every count as it is.
LEMMA MoveKeepsTotal ==
  ASSUME TInv, TInv', Move, ~Submitted, ~TakenBack, NEW id \in Nat \ {0}
  PROVE  Total(id)' = Total(id)
  <1> USE DEF queues, Total
  <1>t. /\ transcript \in Seq(Message) /\ transcript' \in Seq(Message)
        /\ prompts \in Seq(Message) /\ pending \in Seq(Message)
        /\ pending \in Seq(UserMessage) /\ pending' \in Seq(UserMessage)
        /\ steering \in Seq(UserMessage) /\ followUp \in Seq(UserMessage)
    BY CountsAreNat DEF TInv, TypeOK
  <1>n. /\ Count(transcript, id) \in Nat /\ Count(prompts, id) \in Nat
        /\ Count(pending, id) \in Nat /\ Count(steering, id) \in Nat
        /\ Count(followUp, id) \in Nat
    BY CountsAreNat
  <1>m. /\ Count(transcript', id) \in Nat /\ Count(prompts', id) \in Nat
        /\ Count(pending', id) \in Nat /\ Count(steering', id) \in Nat
        /\ Count(followUp', id) \in Nat
    <2>1. /\ transcript' \in Seq(Message) /\ prompts' \in Seq(Message)
          /\ pending' \in Seq(Message) /\ steering' \in Seq(Message)
          /\ followUp' \in Seq(Message)
      BY UserSeqIsMessageSeq DEF TInv, TypeOK
    <2> QED
      BY <2>1, CountType
  <1>e. Count(<<>>, id) = 0
    BY CountOfEmpty
  <1>1. CASE Still
    BY <1>1 DEF Still
  <1>2. CASE Told
    <2>1. PICK m \in Message : m.role # "user" /\ transcript' = Append(transcript, m)
      BY <1>2 DEF Told
    <2>2. Count(transcript', id) = Count(transcript, id) + One(m, id) /\ One(m, id) = 0
      BY <1>t, <2>1, CountOfAppend DEF One
    <2> QED
      BY <1>2, <1>n, <2>2 DEF Told
  <1>3. CASE Untold
    <2>1. PICK m \in Message : m.role # "user" /\ transcript = Append(transcript', m)
      BY <1>3 DEF Untold
    <2>2. Count(transcript, id) = Count(transcript', id) + One(m, id) /\ One(m, id) = 0
      BY <1>t, <2>1, CountOfAppend DEF One
    <2> QED
      BY <1>3, <1>m, <2>2 DEF Untold
  <1>4. CASE Announced
    <2> DEFINE h == Head(prompts)
    <2>1. h \in Message /\ transcript' = Append(transcript, h)
      BY <1>t, <1>4 DEF Announced
    <2>2. Count(prompts, id) = One(h, id) + Count(prompts', id)
      BY <1>t, <1>4, CountOfHead DEF Announced
    <2> HIDE DEF h
    <2>3. Count(transcript', id) = Count(transcript, id) + One(h, id) /\ One(h, id) \in Nat
      BY <1>t, <2>1, CountOfAppend DEF One
    <2> QED
      BY <1>4, <1>n, <1>m, <2>2, <2>3 DEF Announced
  <1>5. CASE Injected
    <2> DEFINE h == Head(pending)
    <2>1. h \in Message /\ transcript' = Append(transcript, h)
      BY <1>t, <1>5 DEF Injected
    <2>2. Count(pending, id) = One(h, id) + Count(pending', id)
      BY <1>t, <1>5, CountOfHead DEF Injected
    <2> HIDE DEF h
    <2>3. Count(transcript', id) = Count(transcript, id) + One(h, id) /\ One(h, id) \in Nat
      BY <1>t, <2>1, CountOfAppend DEF One
    <2> QED
      BY <1>5, <1>n, <1>m, <2>2, <2>3 DEF Injected
  <1>6. CASE Renewed
    <2>1. Count(pending, id) = 0 /\ Count(pending', id) = 0
      BY <1>6, <1>t, NudgesAreNotCounted DEF Renewed
    <2> QED
      BY <1>6, <2>1 DEF Renewed
  <1>s. /\ Count(steering, id) = Count(DrainedSteering.msgs, id) + Count(DrainedSteering.rest, id)
        /\ Count(followUp, id) = Count(DrainedFollowUp.msgs, id) + Count(DrainedFollowUp.rest, id)
    BY <1>t, CountOfDrained DEF DrainedSteering, DrainedFollowUp
  <1>7. CASE SteeringPolled
    <2>1. PICK before \in Seq(UserMessage), after \in Seq(UserMessage) :
            /\ OnlyNudges(before) /\ OnlyNudges(after)
            /\ pending' = (before \o DrainedSteering.msgs) \o after
      BY <1>7 DEF SteeringPolled
    <2> DEFINE m == DrainedSteering.msgs
               bm == before \o m
    <2>2. /\ m \in Seq(Message) /\ before \in Seq(Message) /\ after \in Seq(Message)
          /\ bm \in Seq(Message)
      BY <1>t, DrainType, UserSeqIsMessageSeq DEF DrainedSteering
    <2>3. Count(before, id) = 0 /\ Count(after, id) = 0 /\ Count(pending, id) = 0
      BY <1>7, <1>t, <2>1, NudgesAreNotCounted DEF SteeringPolled
    <2>4. pending' = bm \o after
      BY <2>1
    <2>5. Count(bm, id) = Count(before, id) + Count(m, id)
      <3> HIDE DEF m
      <3> QED
        BY <2>2, CountOfConcat
    <2> HIDE DEF bm
    <2>6. Count(pending', id) = Count(bm, id) + Count(after, id)
      BY <2>2, <2>4, CountOfConcat
    <2>7. Count(m, id) \in Nat
      BY <2>2, CountType
    <2>8. Count(pending', id) = Count(m, id)
      BY <2>3, <2>5, <2>6, <2>7
    <2>9. /\ Count(steering, id) = Count(pending', id) + Count(steering', id)
          /\ UNCHANGED <<transcript, prompts, followUp>>
      BY <1>7, <1>s, <2>8 DEF SteeringPolled
    <2> QED
      BY <1>n, <1>m, <2>3, <2>9
  <1>8. CASE FollowUpPolled
    <2>1. Count(pending, id) = 0
      BY <1>8, <1>t, NudgesAreNotCounted DEF FollowUpPolled
    <2> QED
      BY <1>8, <1>n, <1>m, <1>s, <2>1 DEF FollowUpPolled
  <1>9. CASE SteeringStarted
    BY <1>9, <1>n, <1>m, <1>s, <1>e DEF SteeringStarted
  <1>10. CASE FollowUpStarted
    BY <1>10, <1>n, <1>m, <1>s, <1>e DEF FollowUpStarted
  <1> QED
    BY <1>1, <1>2, <1>3, <1>4, <1>5, <1>6, <1>7, <1>8, <1>9, <1>10 DEF Move

LEMMA SubmittedKeepsCounted ==
  ASSUME TInv, TInv', Submitted, Counted
  PROVE  Counted'
  <1> USE DEF queues
  <1>t. /\ submitted \in Nat /\ submitted' = submitted + 1
        /\ UNCHANGED <<transcript, pending, cleared>>
    BY DEF TInv, TypeOK, Submitted
  <1>1. cleared' \subseteq 0..submitted'
    BY <1>t DEF Counted
  <1>2. ASSUME NEW id \in Nat \ {0} PROVE Total(id)' = Owed(id)'
    <2>n. /\ prompts \in Seq(Message) /\ steering \in Seq(Message) /\ followUp \in Seq(Message)
          /\ Count(transcript, id) \in Nat /\ Count(prompts, id) \in Nat
          /\ Count(pending, id) \in Nat /\ Count(steering, id) \in Nat
          /\ Count(followUp, id) \in Nat
      BY CountsAreNat
    <2>1. \A via \in {"prompt", "steer", "followUp"} :
            /\ Submit(via) \in Message
            /\ One(Submit(via), id) = IF id = submitted + 1 THEN 1 ELSE 0
      BY <1>t DEF Submit, User, UserMessage, Message, One
    <2> HIDE DEF Submit
    <2>2. \/ /\ Count(steering', id) = Count(steering, id) + One(Submit("steer"), id)
             /\ UNCHANGED <<prompts, followUp>>
          \/ /\ Count(followUp', id) = Count(followUp, id) + One(Submit("followUp"), id)
             /\ UNCHANGED <<prompts, steering>>
          \/ /\ Count(prompts', id) = One(Submit("prompt"), id) /\ Count(prompts, id) = 0
             /\ UNCHANGED <<steering, followUp>>
      <3>1. CASE steering' = Append(steering, Submit("steer")) /\ UNCHANGED <<prompts, followUp>>
        BY <2>1, <2>n, <3>1, CountOfAppend
      <3>2. CASE followUp' = Append(followUp, Submit("followUp")) /\ UNCHANGED <<prompts, steering>>
        BY <2>1, <2>n, <3>2, CountOfAppend
      <3>3. CASE prompts = <<>> /\ prompts' = <<Submit("prompt")>> /\ UNCHANGED queues
        BY <3>3, CountOfOne, CountOfEmpty
      <3> QED
        BY <3>1, <3>2, <3>3 DEF Submitted
    <2>3. Total(id)' = Total(id) + IF id = submitted + 1 THEN 1 ELSE 0
      BY <1>t, <2>1, <2>2, <2>n DEF Total
    <2>4. Total(id) = Owed(id)
      BY DEF Counted
    <2>5. CASE id = submitted + 1
      <3>1. Owed(id) = 0 /\ Owed(id)' = 1
        BY <1>t, <2>5 DEF Owed, Counted
      <3> QED
        BY <2>3, <2>4, <2>5, <3>1
    <2>6. CASE id # submitted + 1
      <3>1. Owed(id)' = Owed(id)
        BY <1>t, <2>6 DEF Owed
      <3>2. Total(id) + 0 = Total(id)
        BY <2>n DEF Total
      <3> QED
        BY <2>3, <2>4, <2>6, <3>1, <3>2
    <2> QED
      BY <2>5, <2>6
  <1> QED
    BY <1>1, <1>2 DEF Counted

\* A message that is somewhere was submitted.
LEMMA CountedWasSubmitted ==
  ASSUME TInv, Counted, NEW s \in {transcript, prompts, pending, steering, followUp},
         NEW i \in DOMAIN s, s[i].role = "user"
  PROVE  s[i].id \in 0..submitted
  <1>1. s \in Seq(Message) /\ submitted \in Nat
    BY CountsAreNat DEF TInv, TypeOK
  <1>2. s[i].id \in Nat
    <2>1. s[i] \in Message
      BY <1>1
    <2> QED
      BY <2>1 DEF Message, UserMessage, Reply, Result
  <1>3. CASE s[i].id # 0
    <2>1. Count(s, s[i].id) >= 1
      BY <1>1, CountPositive
    <2>2. Total(s[i].id) >= 1
      BY <2>1, CountsAreNat DEF Total
    <2>3. Total(s[i].id) = Owed(s[i].id)
      BY <1>2, <1>3 DEF Counted
    <2> QED
      BY <1>1, <2>2, <2>3 DEF Owed
  <1> QED
    BY <1>1, <1>2, <1>3

LEMMA TakenBackKeepsCounted ==
  ASSUME TInv, TInv', TakenBack, Counted
  PROVE  Counted'
  <1>t. /\ steering \in Seq(UserMessage) /\ followUp \in Seq(UserMessage)
        /\ steering \in Seq(Message) /\ followUp \in Seq(Message) /\ submitted \in Nat
    BY UserSeqIsMessageSeq DEF TInv, TypeOK
  <1>u. Ids(steering \o followUp) = Ids(steering) \cup Ids(followUp)
    BY <1>t, IdsOfConcat
  <1>r. ASSUME NEW s \in {steering, followUp}, NEW i \in DOMAIN s PROVE s[i].role = "user"
    <2>1. s \in Seq(UserMessage)
      BY <1>t
    <2>2. s[i] \in UserMessage
      BY <2>1
    <2> QED
      BY <2>2 DEF UserMessage
  <1>1. cleared' \subseteq 0..submitted'
    <2>1. ASSUME NEW s \in {steering, followUp}, NEW id \in Ids(s) PROVE id \in 0..submitted
      <3>1. PICK i \in DOMAIN s : s[i].id = id
        BY IdsByIndex
      <3> QED
        BY <1>r, <3>1, CountedWasSubmitted
    <2> QED
      BY <1>u, <2>1 DEF TakenBack, Counted
  <1>2. ASSUME NEW id \in Nat \ {0} PROVE Total(id)' = Owed(id)'
    <2>n. /\ Count(transcript, id) \in Nat /\ Count(prompts, id) \in Nat
          /\ Count(pending, id) \in Nat /\ Count(steering, id) \in Nat
          /\ Count(followUp, id) \in Nat
      BY CountsAreNat
    <2>1. Total(id)' = Count(transcript, id) + Count(prompts, id) + Count(pending, id)
      BY <2>n, CountOfEmpty DEF Total, TakenBack
    <2>2. Total(id) = Owed(id)
      BY DEF Counted
    <2>3. CASE id \in Ids(steering) \cup Ids(followUp)
      <3>1. Count(steering, id) >= 1 \/ Count(followUp, id) >= 1
        <4>1. ASSUME NEW s \in {steering, followUp}, id \in Ids(s) PROVE Count(s, id) >= 1
          <5>1. PICK i \in DOMAIN s : s[i].id = id
            BY <4>1, IdsByIndex
          <5> QED
            BY <1>t, <1>r, <5>1, CountPositive
        <4> QED
          BY <2>3, <4>1
      <3>2. Owed(id)' = 0
        BY <1>u, <2>3 DEF Owed, TakenBack
      <3>3. Total(id) <= 1
        BY <2>2 DEF Owed
      <3> QED
        BY <2>1, <2>n, <3>1, <3>2, <3>3 DEF Total
    <2>4. CASE id \notin Ids(steering) \cup Ids(followUp)
      <3>1. Count(steering, id) = 0 /\ Count(followUp, id) = 0
        <4>1. \A s \in {steering, followUp} : \A i \in DOMAIN s : s[i].id # id
          BY <2>4, IdsByIndex
        <4> QED
          BY <4>1, CountNone
      <3>2. Owed(id)' = Owed(id)
        BY <1>u, <2>4 DEF Owed, TakenBack
      <3> QED
        BY <2>1, <2>2, <2>n, <3>1, <3>2 DEF Total
    <2> QED
      BY <2>3, <2>4
  <1> QED
    BY <1>1, <1>2 DEF Counted

LEMMA MoveKeepsCounted == TInv /\ TInv' /\ Move /\ Counted => Counted'
  <1> SUFFICES ASSUME TInv, TInv', Move, Counted PROVE Counted'
    OBVIOUS
  <1>1. CASE ~Submitted /\ ~TakenBack
    <2>1. UNCHANGED <<submitted, cleared>>
      BY <1>1 DEF Move, Still, Told, Untold, Announced, Injected, Renewed, SteeringPolled,
         FollowUpPolled, SteeringStarted, FollowUpStarted
    <2>2. \A id : Owed(id)' = Owed(id)
      BY <2>1 DEF Owed
    <2> QED
      BY <1>1, <2>1, <2>2, MoveKeepsTotal DEF Counted
  <1> QED
    BY <1>1, SubmittedKeepsCounted, TakenBackKeepsCounted

LEMMA InitCounted == Init => Counted
  <1> SUFFICES ASSUME Init PROVE Counted
    OBVIOUS
  <1>1. \A id : Total(id) = 0
    BY CountOfEmpty DEF Init, Total
  <1> QED
    BY <1>1 DEF Init, Counted, Owed

LEMMA CountedIsConserved == TInv /\ Counted => Conserved
  <1> SUFFICES ASSUME TInv, Counted, NEW id \in 1..submitted
               PROVE  Count(Places, id) = IF id \in cleared THEN 0 ELSE 1
    BY DEF Conserved, Count, At
  <1> DEFINE a == transcript \o prompts
             b == a \o pending
             c == b \o steering
  <1>1. /\ transcript \in Seq(Message) /\ prompts \in Seq(Message) /\ pending \in Seq(Message)
        /\ steering \in Seq(Message) /\ followUp \in Seq(Message)
    BY CountsAreNat
  <1>2. a \in Seq(Message) /\ Count(a, id) = Count(transcript, id) + Count(prompts, id)
    BY <1>1, CountOfConcat
  <1> HIDE DEF a
  <1>3. b \in Seq(Message) /\ Count(b, id) = Count(a, id) + Count(pending, id)
    BY <1>1, <1>2, CountOfConcat
  <1> HIDE DEF b
  <1>4. c \in Seq(Message) /\ Count(c, id) = Count(b, id) + Count(steering, id)
    BY <1>1, <1>3, CountOfConcat
  <1> HIDE DEF c
  <1>5. Count(c \o followUp, id) = Count(c, id) + Count(followUp, id)
    BY <1>1, <1>4, CountOfConcat
  <1>6. Count(Places, id) = Total(id)
    BY <1>2, <1>3, <1>4, <1>5 DEF Places, Total, a, b, c
  <1>7. submitted \in Nat /\ Total(id) = Owed(id)
    BY DEF Counted, TInv, TypeOK
  <1> QED
    BY <1>6, <1>7 DEF Owed

LEMMA MessagesInvariance == Spec => [](IInv /\ ContextFollows /\ PendingByPc /\ Counted)
  <1>1. Init => ContextFollows /\ PendingByPc
    BY NudgeLists DEF Init, ContextFollows, PendingByPc
  <1>2. IInv /\ IInv' => TInv /\ TInv'
    BY DEF IInv
  <1>3. IInv /\ IInv' /\ ContextFollows /\ PendingByPc /\ Counted /\ [Next]_vars
          => ContextFollows' /\ PendingByPc' /\ Counted'
    BY <1>2, NextContextFollows, NextMoves, MoveKeepsCounted
  <1> QED
    BY <1>1, <1>3, InitCounted, Invariance, PTL DEF Spec

\* Every message the user submitted is in exactly one place, through every poll, abort,
\* failure, time-out and retry.
THEOREM MessagesAreConserved == Spec => []Conserved
  <1>1. IInv /\ Counted => Conserved
    BY CountedIsConserved DEF IInv
  <1> QED
    BY <1>1, MessagesInvariance, PTL

(***************************************************************************)
(* The order of one queue's messages.  Places is a line in which messages  *)
(* move forward; between the two messages of a queue no step lets the      *)
(* later one pass the earlier.                                             *)
(***************************************************************************)
Foreign(s, via) == \A i \in DOMAIN s : ~Via(s[i], via)
Before(s, t, via) ==
  \A i \in DOMAIN s, j \in DOMAIN t : Via(s[i], via) /\ Via(t[j], via) => s[i].id < t[j].id

\* What is to be known of a sequence that is put together from two.
Splits(u, s, t, via) ==
  /\ Ordered(u, via) <=> Ordered(s, via) /\ Ordered(t, via) /\ Before(s, t, via)
  /\ \A w : Before(u, w, via) <=> Before(s, w, via) /\ Before(t, w, via)
  /\ \A w : Before(w, u, via) <=> Before(w, s, via) /\ Before(w, t, via)
  /\ Foreign(u, via) <=> Foreign(s, via) /\ Foreign(t, via)

LEMMA ConcatSplits ==
  ASSUME NEW s \in Seq(Message), NEW t \in Seq(Message), NEW via
  PROVE  Splits(s \o t, s, t, via)
  <1> DEFINE u == s \o t
             n == Len(s)
  <1>1. /\ n \in Nat /\ Len(t) \in Nat
        /\ DOMAIN u = 1..(n + Len(t)) /\ DOMAIN s = 1..n /\ DOMAIN t = 1..Len(t)
        /\ \A i \in 1..n : u[i] = s[i]
        /\ \A i \in 1..Len(t) : u[i + n] = t[i]
        /\ \A i \in (n + 1)..(n + Len(t)) : u[i] = t[i - n]
    OBVIOUS
  <1> HIDE DEF u, n
  <1>2. \A i \in DOMAIN s : i \in DOMAIN u /\ u[i] = s[i]
    BY <1>1
  <1>3. \A i \in DOMAIN t : i + n \in DOMAIN u /\ u[i + n] = t[i]
    BY <1>1
  <1>4. \A i \in DOMAIN u : \/ i \in DOMAIN s /\ u[i] = s[i]
                            \/ i - n \in DOMAIN t /\ u[i] = t[i - n]
    BY <1>1
  <1>5. Ordered(u, via) <=> Ordered(s, via) /\ Ordered(t, via) /\ Before(s, t, via)
    <2>1. ASSUME Ordered(u, via) PROVE Ordered(s, via) /\ Ordered(t, via) /\ Before(s, t, via)
      <3>1. Ordered(s, via)
        BY <1>2, <2>1 DEF Ordered
      <3>2. Ordered(t, via)
        <4> SUFFICES ASSUME NEW i \in DOMAIN t, NEW j \in DOMAIN t, i < j, Via(t[i], via),
                            Via(t[j], via)
                     PROVE  t[i].id < t[j].id
          BY DEF Ordered
        <4>1. i + n < j + n /\ i + n \in DOMAIN u /\ j + n \in DOMAIN u
          BY <1>1, <1>3
        <4> QED
          BY <1>3, <2>1, <4>1 DEF Ordered
      <3>3. Before(s, t, via)
        <4> SUFFICES ASSUME NEW i \in DOMAIN s, NEW j \in DOMAIN t, Via(s[i], via), Via(t[j], via)
                     PROVE  s[i].id < t[j].id
          BY DEF Before
        <4>1. i < j + n /\ i \in DOMAIN u /\ j + n \in DOMAIN u
          BY <1>1, <1>2, <1>3
        <4> QED
          BY <1>2, <1>3, <2>1, <4>1 DEF Ordered
      <3> QED
        BY <3>1, <3>2, <3>3
    <2>2. ASSUME Ordered(s, via), Ordered(t, via), Before(s, t, via),
                 NEW i \in DOMAIN u, NEW j \in DOMAIN u, i < j, Via(u[i], via), Via(u[j], via)
          PROVE  u[i].id < u[j].id
      <3>1. CASE i \in DOMAIN s /\ j \in DOMAIN s
        BY <1>2, <2>2, <3>1 DEF Ordered
      <3>2. CASE i \in DOMAIN s /\ j \notin DOMAIN s
        BY <1>2, <1>4, <2>2, <3>2 DEF Before
      <3>3. CASE i \notin DOMAIN s
        <4>1. j \notin DOMAIN s
          BY <1>1, <2>2, <3>3
        <4>2. /\ i - n \in DOMAIN t /\ u[i] = t[i - n] /\ j - n \in DOMAIN t /\ u[j] = t[j - n]
              /\ i - n < j - n
          BY <1>1, <1>4, <2>2, <3>3, <4>1
        <4> QED
          BY <2>2, <4>2 DEF Ordered
      <3> QED
        BY <3>1, <3>2, <3>3
    <2> QED
      BY <2>1, <2>2 DEF Ordered
  <1>6. ASSUME NEW w PROVE Before(u, w, via) <=> Before(s, w, via) /\ Before(t, w, via)
    <2>1. Before(u, w, via) => Before(s, w, via)
      BY <1>2 DEF Before
    <2>2. Before(u, w, via) => Before(t, w, via)
      BY <1>3 DEF Before
    <2>3. Before(s, w, via) /\ Before(t, w, via) => Before(u, w, via)
      BY <1>4 DEF Before
    <2> QED
      BY <2>1, <2>2, <2>3
  <1>7. ASSUME NEW w PROVE Before(w, u, via) <=> Before(w, s, via) /\ Before(w, t, via)
    <2>1. Before(w, u, via) => Before(w, s, via)
      BY <1>2 DEF Before
    <2>2. Before(w, u, via) => Before(w, t, via)
      BY <1>3 DEF Before
    <2>3. Before(w, s, via) /\ Before(w, t, via) => Before(w, u, via)
      BY <1>4 DEF Before
    <2> QED
      BY <2>1, <2>2, <2>3
  <1>8. Foreign(u, via) <=> Foreign(s, via) /\ Foreign(t, via)
    <2>1. Foreign(u, via) => Foreign(s, via)
      BY <1>2 DEF Foreign
    <2>2. Foreign(u, via) => Foreign(t, via)
      BY <1>3 DEF Foreign
    <2>3. Foreign(s, via) /\ Foreign(t, via) => Foreign(u, via)
      BY <1>4 DEF Foreign
    <2> QED
      BY <2>1, <2>2, <2>3
  <1> QED
    BY <1>5, <1>6, <1>7, <1>8 DEF Splits, u

LEMMA AppendSplits ==
  ASSUME NEW s \in Seq(Message), NEW m \in Message, NEW via
  PROVE  Splits(Append(s, m), s, <<m>>, via)
  <1> DEFINE a == Append(s, m)
             b == s \o <<m>>
  <1>1. a \in Seq(Message) /\ b \in Seq(Message) /\ Len(a) = Len(b)
    OBVIOUS
  <1>2. ASSUME NEW i \in 1..Len(a) PROVE a[i] = b[i]
    OBVIOUS
  <1>3. Splits(b, s, <<m>>, via)
    <2> DEFINE o == <<m>>
    <2>1. o \in Seq(Message)
      OBVIOUS
    <2> HIDE DEF o
    <2>2. Splits(s \o o, s, o, via)
      BY <2>1, ConcatSplits
    <2> QED
      BY <2>2 DEF o
  <1> HIDE DEF a, b
  <1>4. a = b
    BY <1>1, <1>2, SeqEqual
  <1> QED
    BY <1>3, <1>4 DEF a

LEMMA HeadSplits ==
  ASSUME NEW s \in Seq(Message), s # <<>>, NEW via
  PROVE  Splits(s, <<Head(s)>>, Tail(s), via)
  <1> DEFINE h == <<Head(s)>>
             t == Tail(s)
  <1>1. s = h \o t /\ h \in Seq(Message) /\ t \in Seq(Message)
    BY HeadMoves
  <1> HIDE DEF h, t
  <1>2. Splits(h \o t, h, t, via)
    BY <1>1, ConcatSplits
  <1> QED
    BY <1>1, <1>2 DEF h, t

LEMMA DrainedSplits ==
  ASSUME NEW q \in Seq(UserMessage), NEW mode, NEW via
  PROVE  Splits(q, Drain(q, mode).msgs, Drain(q, mode).rest, via)
  <1> DEFINE m == Drain(q, mode).msgs
             r == Drain(q, mode).rest
  <1>1. q = m \o r /\ m \in Seq(Message) /\ r \in Seq(Message)
    BY DrainSplits, DrainType, UserSeqIsMessageSeq
  <1> HIDE DEF m, r
  <1>2. Splits(m \o r, m, r, via)
    BY <1>1, ConcatSplits
  <1> QED
    BY <1>1, <1>2 DEF m, r

LEMMA ForeignIsInOrder ==
  ASSUME NEW s, NEW via, Foreign(s, via)
  PROVE  Ordered(s, via) /\ \A w : Before(s, w, via) /\ Before(w, s, via)
  BY DEF Foreign, Ordered, Before

LEMMA NoneIsForeign == \A via : Foreign(<<>>, via)
  BY DEF Foreign

LEMMA NudgesAreForeign ==
  ASSUME NEW s, OnlyNudges(s), NEW via \in {"steer", "followUp"}
  PROVE  Foreign(s, via)
  BY DEF OnlyNudges, Foreign, Via, Nudge, ForceEdit, User

\* The messages of one queue: its own, and those ahead of it.
Queue(via) == IF via = "steer" THEN steering ELSE followUp
OtherQueue(via) == IF via = "steer" THEN followUp ELSE steering

InLine(via) ==
  /\ Ordered(transcript, via) /\ Ordered(prompts, via) /\ Ordered(pending, via)
  /\ Ordered(Queue(via), via)
  /\ Before(transcript, prompts, via) /\ Before(transcript, pending, via)
  /\ Before(transcript, Queue(via), via) /\ Before(prompts, pending, via)
  /\ Before(prompts, Queue(via), via) /\ Before(pending, Queue(via), via)
  /\ Foreign(OtherQueue(via), via)

LEMMA MoveKeepsLine ==
  ASSUME TInv, TInv', Counted, Move, NEW via \in {"steer", "followUp"}, InLine(via)
  PROVE  InLine(via)'
  <1> USE DEF queues, InLine, Queue, OtherQueue
  <1>t. /\ transcript \in Seq(Message) /\ transcript' \in Seq(Message)
        /\ prompts \in Seq(Message) /\ pending \in Seq(Message)
        /\ pending' \in Seq(UserMessage)
        /\ steering \in Seq(UserMessage) /\ followUp \in Seq(UserMessage)
        /\ steering \in Seq(Message) /\ followUp \in Seq(Message)
    BY CountsAreNat DEF TInv, TypeOK
  <1>e. Foreign(<<>>, via)
    BY NoneIsForeign
  <1>f. \A s : Foreign(s, via) => Ordered(s, via) /\ \A w : Before(s, w, via) /\ Before(w, s, via)
    BY ForeignIsInOrder
  <1>s. /\ Splits(steering, DrainedSteering.msgs, DrainedSteering.rest, via)
        /\ Splits(followUp, DrainedFollowUp.msgs, DrainedFollowUp.rest, via)
    BY <1>t, DrainedSplits DEF DrainedSteering, DrainedFollowUp
  <1>1. CASE Still
    BY <1>1 DEF Still
  <1>2. CASE Told
    <2>1. PICK m \in Message : m.role # "user" /\ transcript' = Append(transcript, m)
      BY <1>2 DEF Told
    <2> DEFINE o == <<m>>
    <2>2. Foreign(o, via)
      BY <2>1 DEF Foreign, Via
    <2>3. Splits(transcript', transcript, o, via)
      BY <1>t, <2>1, AppendSplits
    <2> HIDE DEF o
    <2> QED
      BY <1>2, <1>f, <2>2, <2>3 DEF Told, Splits
  <1>3. CASE Untold
    <2>1. PICK m \in Message : m.role # "user" /\ transcript = Append(transcript', m)
      BY <1>3 DEF Untold
    <2>2. Splits(transcript, transcript', <<m>>, via)
      BY <1>t, <2>1, AppendSplits
    <2> QED
      BY <1>3, <2>2 DEF Untold, Splits
  <1>4. CASE Announced
    <2> DEFINE h == Head(prompts)
               o == <<h>>
    <2>1. Splits(prompts, o, prompts', via)
      BY <1>t, <1>4, HeadSplits DEF Announced
    <2>2. h \in Message /\ transcript' = Append(transcript, h)
      BY <1>t, <1>4 DEF Announced
    <2> HIDE DEF h
    <2>3. Splits(transcript', transcript, o, via)
      BY <1>t, <2>2, AppendSplits
    <2> HIDE DEF o
    <2> QED
      BY <1>4, <2>1, <2>3 DEF Announced, Splits
  <1>5. CASE Injected
    <2> DEFINE h == Head(pending)
               o == <<h>>
    <2>1. Splits(pending, o, pending', via)
      BY <1>t, <1>5, HeadSplits DEF Injected
    <2>2. h \in Message /\ transcript' = Append(transcript, h)
      BY <1>t, <1>5 DEF Injected
    <2> HIDE DEF h
    <2>3. Splits(transcript', transcript, o, via)
      BY <1>t, <2>2, AppendSplits
    <2> HIDE DEF o
    <2> QED
      BY <1>5, <1>e, <1>f, <2>1, <2>3 DEF Injected, Splits
  <1>6. CASE Renewed
    <2>1. Foreign(pending', via)
      BY <1>6, NudgesAreForeign DEF Renewed
    <2> QED
      BY <1>6, <1>f, <2>1 DEF Renewed
  <1>7. CASE SteeringPolled
    <2>1. PICK before \in Seq(UserMessage), after \in Seq(UserMessage) :
            /\ OnlyNudges(before) /\ OnlyNudges(after)
            /\ pending' = (before \o DrainedSteering.msgs) \o after
      BY <1>7 DEF SteeringPolled
    <2> DEFINE m == DrainedSteering.msgs
               r == DrainedSteering.rest
               bm == before \o m
    <2>2. /\ m \in Seq(Message) /\ before \in Seq(Message) /\ after \in Seq(Message)
          /\ bm \in Seq(Message)
      BY <1>t, DrainType, UserSeqIsMessageSeq DEF DrainedSteering
    <2>3. Foreign(before, via) /\ Foreign(after, via)
      BY <2>1, NudgesAreForeign
    <2>4. pending' = bm \o after
      BY <2>1
    <2>5. Splits(steering, m, r, via) /\ steering' = r /\ prompts = <<>>
          /\ UNCHANGED <<transcript, prompts, followUp>>
      BY <1>7, <1>s DEF SteeringPolled
    <2> HIDE DEF m, r
    <2>6. Splits(bm, before, m, via)
      BY <2>2, ConcatSplits
    <2> HIDE DEF bm
    <2>7. Splits(pending', bm, after, via)
      BY <2>2, <2>4, ConcatSplits
    <2>8. /\ Ordered(pending', via) <=> Ordered(m, via)
          /\ \A w : /\ Before(pending', w, via) <=> Before(m, w, via)
                    /\ Before(w, pending', via) <=> Before(w, m, via)
          /\ Foreign(pending', via) <=> Foreign(m, via)
      BY <1>f, <2>3, <2>6, <2>7 DEF Splits
    <2>9. CASE via = "steer"
      BY <1>e, <1>f, <2>5, <2>8, <2>9 DEF Splits
    <2>10. CASE via = "followUp"
      <3>1. Foreign(m, via) /\ Foreign(r, via)
        BY <2>5, <2>10 DEF Splits
      <3> QED
        BY <1>f, <2>5, <2>8, <2>10, <3>1
    <2> QED
      BY <2>9, <2>10
  <1>8. CASE FollowUpPolled
    <2> DEFINE m == DrainedFollowUp.msgs
               r == DrainedFollowUp.rest
    <2>1. /\ Splits(followUp, m, r, via) /\ pending' = m /\ followUp' = r /\ prompts = <<>>
          /\ UNCHANGED <<transcript, prompts, steering>>
      BY <1>8, <1>s DEF FollowUpPolled
    <2> HIDE DEF m, r
    <2>2. CASE via = "followUp"
      BY <1>e, <1>f, <2>1, <2>2 DEF Splits
    <2>3. CASE via = "steer"
      <3>1. Foreign(m, via) /\ Foreign(r, via)
        BY <2>1, <2>3 DEF Splits
      <3> QED
        BY <1>f, <2>1, <2>3, <3>1
    <2> QED
      BY <2>2, <2>3
  <1>9. CASE SteeringStarted
    <2> DEFINE m == DrainedSteering.msgs
               r == DrainedSteering.rest
    <2>1. /\ Splits(steering, m, r, via) /\ prompts' = m /\ steering' = r /\ pending = <<>>
          /\ UNCHANGED <<transcript, pending, followUp>>
      BY <1>9, <1>s DEF SteeringStarted
    <2> HIDE DEF m, r
    <2>2. CASE via = "steer"
      BY <1>e, <1>f, <2>1, <2>2 DEF Splits
    <2>3. CASE via = "followUp"
      <3>1. Foreign(m, via) /\ Foreign(r, via)
        BY <2>1, <2>3 DEF Splits
      <3> QED
        BY <1>f, <2>1, <2>3, <3>1
    <2> QED
      BY <2>2, <2>3
  <1>10. CASE FollowUpStarted
    <2> DEFINE m == DrainedFollowUp.msgs
               r == DrainedFollowUp.rest
    <2>1. /\ Splits(followUp, m, r, via) /\ prompts' = m /\ followUp' = r /\ pending = <<>>
          /\ UNCHANGED <<transcript, pending, steering>>
      BY <1>10, <1>s DEF FollowUpStarted
    <2> HIDE DEF m, r
    <2>2. CASE via = "followUp"
      BY <1>e, <1>f, <2>1, <2>2 DEF Splits
    <2>3. CASE via = "steer"
      <3>1. Foreign(m, via) /\ Foreign(r, via)
        BY <2>1, <2>3 DEF Splits
      <3> QED
        BY <1>f, <2>1, <2>3, <3>1
    <2> QED
      BY <2>2, <2>3
  <1>11. CASE Submitted
    <2>t. submitted \in Nat /\ UNCHANGED <<transcript, pending>>
      BY <1>11 DEF TInv, TypeOK, Submitted
    <2>1. CASE prompts = <<>> /\ prompts' = <<Submit("prompt")>> /\ UNCHANGED queues
      <3>1. Foreign(prompts', via)
        BY <2>1 DEF Foreign, Via, Submit, User
      <3> QED
        BY <1>f, <2>t, <2>1, <3>1
    <2> DEFINE m == Submit(via)
               o == <<m>>
    <2>2. m \in Message /\ m.id = submitted + 1
      BY <2>t DEF Submit, User, UserMessage, Message
    <2>3. ASSUME NEW s \in {transcript, prompts, pending, Queue(via)} PROVE Before(s, o, via)
      <3>1. ASSUME NEW i \in DOMAIN s, Via(s[i], via) PROVE s[i].id < m.id
        <4>1. s[i].id \in 0..submitted
          BY <3>1, CountedWasSubmitted DEF Via
        <4> QED
          BY <2>t, <2>2, <4>1
      <3> QED
        BY <3>1 DEF Before
    <2>4. Ordered(o, via)
      BY DEF Ordered
    <2>5. CASE Queue(via)' = Append(Queue(via), m) /\ UNCHANGED <<prompts, OtherQueue(via)>>
      <3> HIDE DEF m
      <3>1. Queue(via) \in Seq(Message)
        BY <1>t
      <3> DEFINE q == Queue(via)
      <3>2. Splits(Append(q, m), q, o, via)
        BY <2>2, <3>1, AppendSplits
      <3> HIDE DEF o
      <3> QED
        BY <2>t, <2>3, <2>4, <2>5, <3>2 DEF Splits
    <2> DEFINE other == IF via = "steer" THEN "followUp" ELSE "steer"
    <2>6. CASE /\ UNCHANGED <<prompts, Queue(via)>>
               /\ OtherQueue(via)' = Append(OtherQueue(via), Submit(other))
      <3> DEFINE n == Submit(other)
                 k == <<n>>
      <3>1. n \in Message
        BY <2>t DEF Submit, User, UserMessage, Message
      <3>2. Foreign(k, via)
        BY DEF Foreign, Via, Submit, User
      <3> HIDE DEF n
      <3>3. OtherQueue(via) \in Seq(Message)
        BY <1>t
      <3> DEFINE q == OtherQueue(via)
      <3>4. Splits(Append(q, n), q, k, via)
        BY <3>1, <3>3, AppendSplits
      <3>5. Foreign(OtherQueue(via)', via)
        <4> HIDE DEF k
        <4> QED
          BY <2>6, <3>2, <3>4 DEF Splits, n
      <3> QED
        BY <2>t, <2>6, <3>5
    <2> QED
      BY <1>11, <2>1, <2>5, <2>6 DEF Submitted
  <1>12. CASE TakenBack
    BY <1>12, <1>e, <1>f DEF TakenBack
  <1> QED
    BY <1>1, <1>2, <1>3, <1>4, <1>5, <1>6, <1>7, <1>8, <1>9, <1>10, <1>11, <1>12 DEF Move

LEMMA InLineIsOrdered ==
  ASSUME TInv, NEW via \in {"steer", "followUp"}, InLine(via)
  PROVE  Ordered(Places, via)
  <1> DEFINE a == transcript \o prompts
             b == a \o pending
             c == b \o steering
             d == c \o followUp
  <1>1. /\ transcript \in Seq(Message) /\ prompts \in Seq(Message) /\ pending \in Seq(Message)
        /\ steering \in Seq(Message) /\ followUp \in Seq(Message)
    BY CountsAreNat
  <1>2. a \in Seq(Message) /\ Splits(a, transcript, prompts, via)
    BY <1>1, ConcatSplits
  <1> HIDE DEF a
  <1>3. b \in Seq(Message) /\ Splits(b, a, pending, via)
    BY <1>1, <1>2, ConcatSplits
  <1> HIDE DEF b
  <1>4. c \in Seq(Message) /\ Splits(c, b, steering, via)
    BY <1>1, <1>3, ConcatSplits
  <1> HIDE DEF c
  <1>5. Splits(d, c, followUp, via)
    BY <1>1, <1>4, ConcatSplits
  <1> HIDE DEF d
  <1>6. \A s : Foreign(s, via) => Ordered(s, via) /\ \A w : Before(s, w, via) /\ Before(w, s, via)
    BY ForeignIsInOrder
  <1>7. Ordered(b, via) /\ Before(b, Queue(via), via)
    BY <1>2, <1>3 DEF Splits, InLine
  <1>8. Ordered(d, via)
    <2>1. CASE via = "steer"
      BY <1>4, <1>5, <1>6, <1>7, <2>1 DEF Splits, InLine, Queue, OtherQueue
    <2>2. CASE via = "followUp"
      BY <1>4, <1>5, <1>6, <1>7, <2>2 DEF Splits, InLine, Queue, OtherQueue
    <2> QED
      BY <2>1, <2>2
  <1> QED
    BY <1>8 DEF Places, a, b, c, d

\* Messages of one queue reach the transcript in the order they were queued.
THEOREM QueuesKeepTheirOrder == Spec => []QueuedInOrder
  <1> DEFINE Lined == InLine("steer") /\ InLine("followUp")
  <1>1. Init => Lined
    BY NoneIsForeign, ForeignIsInOrder DEF Init, InLine, Queue, OtherQueue
  <1>2. IInv /\ IInv' /\ ContextFollows /\ PendingByPc /\ Counted /\ [Next]_vars /\ Lined => Lined'
    <2> SUFFICES ASSUME IInv, IInv', ContextFollows, PendingByPc, Counted, [Next]_vars, Lined
                 PROVE  Lined'
      OBVIOUS
    <2>1. TInv /\ TInv' /\ Move
      BY NextMoves DEF IInv
    <2> QED
      BY <2>1, MoveKeepsLine
  <1>3. IInv /\ Lined => QueuedInOrder
    BY InLineIsOrdered DEF IInv, QueuedInOrder
  <1> HIDE DEF Lined
  <1> QED
    BY <1>1, <1>2, <1>3, MessagesInvariance, PTL DEF Spec

(***************************************************************************)
(* What the loop has edited.  It reads results[i] as the result of call i. *)
(* In sequential mode it is: a call ends before the next one is prepared.  *)
(***************************************************************************)
InCallOrder ==
  pc = "tools" =>
    /\ \A k \in DOMAIN results : results[k].call = calls[k]
    /\ runnable = {} => Len(results) = next - 1
    /\ runnable # {} => runnable = {next - 1} /\ Len(results) = next - 2

Produced == /\ loop.produced => EditSucceeded
            /\ pc = "idle" => ~loop.produced
            /\ pc \in {"followUp", "finish"} => loop.produced

\* An edit that has succeeded stays in a context that grows.
LEMMA EditStays ==
  ASSUME EditSucceeded,
         \A i \in DOMAIN context : i \in DOMAIN context' /\ context'[i] = context[i]
  PROVE  EditSucceeded'
  <1>1. PICK i \in DOMAIN context, j \in DOMAIN context :
          /\ context[i].role = "toolResult" /\ ~context[i].err
          /\ context[j].role = "assistant"
          /\ \E c \in ToSet(context[j].calls) : c.id = context[i].call /\ c.name = "edit"
    BY DEF EditSucceeded
  <1>2. i \in DOMAIN context' /\ j \in DOMAIN context' /\ context'[i] = context[i]
        /\ context'[j] = context[j]
    OBVIOUS
  <1> QED
    BY <1>1, <1>2 DEF EditSucceeded

LEMMA AppendKeeps ==
  ASSUME TInv, NEW m, context' = Append(context, m)
  PROVE  \A i \in DOMAIN context : i \in DOMAIN context' /\ context'[i] = context[i]
  <1> DEFINE S == Message \cup {m}
  <1>1. context \in Seq(S) /\ m \in S
    BY DEF TInv, TypeOK
  <1> HIDE DEF S
  <1> QED
    BY <1>1

LEMMA NextInCallOrder ==
  ASSUME ToolExecution = "sequential", IInv, InCallOrder, [Next]_vars
  PROVE  InCallOrder'
  <1> USE DEF queues, toolVars, history, breaks
  <1>1. ASSUME UNCHANGED <<pc, context, results, runnable, next>> PROVE InCallOrder'
    BY <1>1 DEF InCallOrder, calls
  <1>2. ASSUME pc' # "tools" PROVE InCallOrder'
    BY <1>2 DEF InCallOrder
  <1>3. CASE BeginTools
    <2>1. runnable = {}
      BY <1>3 DEF BeginTools, Deciding, IInv, ToolsInTurn
    <2> QED
      BY <1>3, <2>1 DEF BeginTools, InCallOrder
  <1>4. ASSUME pc = "tools", UNCHANGED <<pc, context>>,
               NEW k \in Nat \ {0}, Len(results) = k - 1, Outcome(k, TRUE) \/ Outcome(k, FALSE)
        PROVE  /\ Len(results') = k
               /\ \A j \in DOMAIN results' : results'[j].call = calls'[j]
    <2>1. results \in Seq(OutcomeRecord)
      BY DEF IInv, TInv, TypeOK
    <2>2. PICK err \in BOOLEAN : results' = Append(results, [call |-> calls[k], err |-> err])
      BY <1>4 DEF Outcome
    <2> DEFINE r == [call |-> calls[k], err |-> err]
               S == OutcomeRecord \cup {r}
    <2>3. results \in Seq(S) /\ r \in S /\ results' = Append(results, r) /\ r.call = calls[k]
      BY <2>1, <2>2
    <2> HIDE DEF r, S
    <2>4. /\ Len(results') = k /\ DOMAIN results' = 1..k
          /\ \A j \in 1..(k - 1) : j \in DOMAIN results /\ results'[j] = results[j]
          /\ results'[k] = r
      BY <1>4, <2>3
    <2>5. \A j \in 1..(k - 1) : results'[j].call = calls[j]
      BY <1>4, <2>4 DEF InCallOrder
    <2>6. ASSUME NEW j \in 1..k PROVE results'[j].call = calls[j]
      <3>1. CASE j = k
        BY <2>3, <2>4, <3>1
      <3>2. CASE j # k
        <4>1. j \in 1..(k - 1)
          BY <3>2
        <4> QED
          BY <2>5, <4>1
      <3> QED
        BY <3>1, <3>2
    <2>7. calls' = calls
      BY <1>4 DEF calls
    <2> QED
      BY <2>4, <2>6, <2>7
  <1>5. CASE PrepareCall
    <2>1. pc = "tools" /\ runnable = {} /\ runnable' = {next} /\ next' = next + 1
          /\ UNCHANGED <<pc, context, results>> /\ next \in Nat \ {0}
      BY <1>5 DEF PrepareCall, CanPrepare, IInv, TInv, TypeOK
    <2> QED
      BY <2>1 DEF InCallOrder, calls
  <1>6. CASE RefuseCall
    <2>1. pc = "tools" /\ runnable = {} /\ runnable' = {} /\ next' = next + 1
          /\ UNCHANGED <<pc, context>> /\ next \in Nat \ {0} /\ Outcome(next, TRUE)
      BY <1>6 DEF RefuseCall, CanPrepare, IInv, TInv, TypeOK
    <2>2. Len(results) = next - 1
      BY <2>1 DEF InCallOrder
    <2>3. Len(results') = next /\ \A j \in DOMAIN results' : results'[j].call = calls'[j]
      BY <1>4, <2>1, <2>2
    <2> QED
      BY <2>1, <2>3 DEF InCallOrder
  <1>7. CASE FinalizeCall
    <2>1. PICK i \in runnable : Outcome(i, i \in failed) /\ runnable' = runnable \ {i}
      BY <1>7 DEF FinalizeCall
    <2>2. pc = "tools" /\ UNCHANGED <<pc, context, next>>
      BY <1>7 DEF FinalizeCall
    <2>3. runnable = {next - 1} /\ Len(results) = next - 2
      BY <2>1, <2>2 DEF InCallOrder
    <2>4. i \in Nat \ {0} /\ next \in Nat /\ i = next - 1 /\ runnable' = {}
      <3>1. i \in CallIndex /\ next \in Nat
        BY <2>1 DEF IInv, TInv, TypeOK
      <3> QED
        BY <2>1, <2>3, <3>1 DEF CallIndex
    <2>5. Outcome(i, TRUE) \/ Outcome(i, FALSE)
      <3>1. CASE i \in failed
        <4>1. (i \in failed) = TRUE
          BY <3>1
        <4> QED
          BY <2>1, <4>1
      <3>2. CASE i \notin failed
        <4>1. (i \in failed) = FALSE
          BY <3>2
        <4> QED
          BY <2>1, <4>1
      <3> QED
        BY <3>1, <3>2
    <2>6. Len(results) = i - 1
      BY <2>3, <2>4
    <2>7. Len(results') = i /\ \A j \in DOMAIN results' : results'[j].call = calls'[j]
      BY <1>4, <2>2, <2>4, <2>5, <2>6
    <2> QED
      BY <2>2, <2>4, <2>7 DEF InCallOrder
  <1>8. CASE UserCall \/ Tick \/ Tools
    <2>1. pc' # "tools" \/ UNCHANGED <<pc, context, results, runnable, next>>
      BY <1>8 DEF UserCall, Steer, FollowUp, ClearQueues, Abort, Prompt, Continue, StartRun,
         DropLastReply, Tick, Tools, ToolReturns
    <2> QED
      BY <1>1, <1>2, <2>1
  <1>9. CASE \/ EmitPrompt \/ BeginLoop \/ StartTurn \/ InjectMessage \/ GateShut \/ Request
             \/ RequestThrows \/ StreamReply \/ FinalReply \/ TextReply
    BY <1>2, <1>9 DEF EmitPrompt, BeginLoop, StartTurn, InjectMessage, GateShut, GateOpen, Request,
       RequestThrows, StreamReply, FinalReply, TextReply
  <1>10. CASE \/ UpstreamRetry \/ EmptyTurn \/ ZeroDiffTurn \/ CoverageTurn \/ CriteriaTurn
              \/ ReviewPass
    BY <1>2, <1>10 DEF UpstreamRetry, EmptyTurn, ZeroDiffTurn, CoverageTurn, CriteriaTurn,
       ReviewPass, NudgeWith
  <1>11. CASE \/ RecordResults \/ GracefulExit \/ TurnEnd \/ PollFollowUps \/ Finish \/ AgentEnd
              \/ Settle
    BY <1>2, <1>11 DEF RecordResults, GracefulExit, TurnEnd, PollFollowUps, Finish, AgentEnd, Settle
  <1>12. CASE UNCHANGED vars
    BY <1>1, <1>12 DEF vars
  <1> QED
    BY <1>3, <1>5, <1>6, <1>7, <1>8, <1>9, <1>10, <1>11, <1>12 DEF Next, Loop

\* The context a turn leaves shows the edit that the turn has booked.
LEMMA RecordedEditShows ==
  ASSUME IInv, InCallOrder, RecordResults, SomeEdit
  PROVE  EditSucceeded'
  <1>1. PICK k \in DOMAIN results : calls[k].name = "edit" /\ ~results[k].err
    BY DEF SomeEdit, Succeeded
  <1>2. /\ pc = "tools" /\ runnable = {} /\ context' = context \o ToolResults
        /\ next <= Len(calls) + 1
    BY DEF RecordResults, AllEnded, IInv, ToolsInTurn
  <1>3. /\ calls \in Seq(Call) /\ Len(calls) \in Nat /\ next \in Nat
        /\ results \in Seq(OutcomeRecord)
        /\ context \in Seq(Message) /\ context # <<>> /\ Last(context) \in Reply
    BY <1>2, CallsInHand DEF IInv, TInv, TypeOK, ReplyInHand
  <1>4. /\ ToolResults \in Seq(Message) /\ Len(ToolResults) = Len(results)
        /\ ToolResults[k] = ResultMessage(results[k])
    BY ToolResultsType DEF IInv
  <1>5. k \in 1..Len(calls) /\ k \in 1..Len(results)
    BY <1>2, <1>3 DEF InCallOrder
  <1>6. calls[k] \in ToSet(calls) /\ results[k].call = calls[k]
    BY <1>2, <1>3, <1>5 DEF ToSet, InCallOrder
  <1> DEFINE j == Len(context)
             i == Len(context) + k
  <1>7. j \in DOMAIN context' /\ context'[j] = Last(context)
    <2>1. j \in 1..Len(context) /\ context[j] = Last(context)
      BY <1>3 DEF Last
    <2> QED
      BY <1>2, <1>3, <1>4, <2>1
  <1>8. i \in DOMAIN context' /\ context'[i] = ResultMessage(results[k])
    <2> DEFINE t == ToolResults
    <2> HIDE DEF t
    <2>1. t \in Seq(Message) /\ k \in 1..Len(t) /\ context' = context \o t
          /\ t[k] = ResultMessage(results[k])
      BY <1>2, <1>4, <1>5 DEF t
    <2> QED
      BY <1>3, <2>1
  <1>9. Last(context).role = "assistant" /\ Last(context).calls = calls
    BY <1>3 DEF calls, Reply
  <1>10. /\ context'[i].role = "toolResult" /\ ~context'[i].err
         /\ context'[i].call = calls[k].id
    BY <1>1, <1>6, <1>8 DEF ResultMessage
  <1> HIDE DEF i, j
  <1> QED
    BY <1>1, <1>6, <1>7, <1>8, <1>9, <1>10 DEF EditSucceeded

LEMMA NextProduced ==
  ASSUME IInv, InCallOrder, Produced, [Next]_vars
  PROVE  Produced'
  <1> USE DEF queues, toolVars, history, breaks
  <1>l. loop \in LoopState
    BY DEF IInv, TInv, TypeOK
  <1>1. ASSUME EditSucceeded => EditSucceeded', loop'.produced = loop.produced,
               pc' \in {"idle", "followUp", "finish"}
                 => pc' = pc \/ (pc' \in {"followUp", "finish"} /\ loop.produced)
        PROVE  Produced'
    BY <1>1 DEF Produced
  <1>2. ASSUME UNCHANGED context PROVE EditSucceeded => EditSucceeded'
    BY <1>2 DEF EditSucceeded
  <1>3. CASE Prompt \/ Continue
    <2>1. pc = "idle" /\ pc' = "prompts" /\ loop'.produced = loop.produced
      BY <1>l, <1>3 DEF Prompt, Continue, StartRun, LoopState
    <2> QED
      BY <2>1 DEF Produced
  <1>4. CASE \/ Steer \/ FollowUp \/ ClearQueues \/ Abort \/ DropLastReply \/ Tick \/ Tools
             \/ PrepareCall \/ RefuseCall \/ FinalizeCall
    BY <1>1, <1>2, <1>4 DEF Steer, FollowUp, ClearQueues, Abort, DropLastReply, Tick, Tools,
       ToolReturns, PrepareCall, RefuseCall, FinalizeCall
  <1>5. CASE \/ EmitPrompt \/ StartTurn \/ GateShut \/ RequestThrows \/ FinalReply
             \/ GracefulExit \/ TurnEnd \/ PollFollowUps
    BY <1>1, <1>2, <1>5 DEF EmitPrompt, StartTurn, GateShut, RequestThrows, FinalReply,
       GracefulExit, TurnEnd, PollFollowUps
  <1>6. CASE BeginLoop \/ Request \/ BeginTools
    BY <1>1, <1>2, <1>6, <1>l DEF BeginLoop, Request, BeginTools, LoopState
  <1>7. CASE InjectMessage \/ StreamReply
    <2>1. \E m : context' = Append(context, m)
      BY <1>7 DEF InjectMessage, StreamReply
    <2>2. EditSucceeded => EditSucceeded'
      BY <2>1, AppendKeeps, EditStays DEF IInv
    <2> QED
      BY <1>1, <1>7, <2>2 DEF InjectMessage, StreamReply
  <1>8. CASE UpstreamRetry \/ EmptyTurn \/ ZeroDiffTurn
    BY <1>1, <1>2, <1>8, <1>l DEF UpstreamRetry, EmptyTurn, ZeroDiffTurn, NudgeWith, LoopState
  <1>9. CASE CoverageTurn \/ CriteriaTurn \/ ReviewPass
    BY <1>1, <1>2, <1>9, <1>l DEF CoverageTurn, CriteriaTurn, ReviewPass, NudgeWith, LoopState
  <1>10. CASE TextReply
    <2>1. loop.produced /\ UNCHANGED <<context, loop>> /\ pc' \in {"turn", "followUp"}
      BY <1>10 DEF TextReply, MayStop
    <2> QED
      BY <1>1, <1>2, <2>1
  <1>11. CASE RecordResults
    <2>1. /\ loop'.produced = (loop.produced \/ SomeEdit) /\ pc' = "turnEnd"
          /\ context' = context \o ToolResults
      BY <1>11, <1>l DEF RecordResults, LoopState
    <2>2. EditSucceeded => EditSucceeded'
      <3> DEFINE t == ToolResults
      <3>1. t \in Seq(Message) /\ context \in Seq(Message)
        BY ToolResultsType DEF IInv, TInv, TypeOK
      <3> HIDE DEF t
      <3>2. \A i \in DOMAIN context : i \in DOMAIN (context \o t) /\ (context \o t)[i] = context[i]
        BY <3>1
      <3> QED
        BY <2>1, <3>2, EditStays DEF t
    <2> QED
      BY <1>11, <2>1, <2>2, RecordedEditShows DEF Produced
  <1>12. CASE Finish \/ AgentEnd
    BY <1>1, <1>2, <1>12 DEF Finish, AgentEnd, Produced
  <1>13. CASE Settle
    BY <1>13 DEF Settle, Produced, FreshLoop
  <1>14. CASE UNCHANGED vars
    BY <1>1, <1>2, <1>14 DEF vars
  <1> QED
    BY <1>3, <1>4, <1>5, <1>6, <1>7, <1>8, <1>9, <1>10, <1>11, <1>12, <1>13, <1>14
    DEF Next, UserCall, Loop

\* "ZERO-DIFF PREVENTION", where the tools run one after the other: a run ends by itself
\* only if some edit succeeded.
THEOREM SequentialRunHasEdited ==
  ASSUME ToolExecution = "sequential"
  PROVE  Spec => []FinishedRunHasEdited
  <1>1. Init => InCallOrder /\ Produced
    BY DEF Init, InCallOrder, Produced, FreshLoop
  <1>2. IInv /\ InCallOrder /\ Produced /\ [Next]_vars => InCallOrder' /\ Produced'
    BY NextInCallOrder, NextProduced
  <1>3. Produced => FinishedRunHasEdited
    BY DEF Produced, FinishedRunHasEdited
  <1> QED
    BY <1>1, <1>2, <1>3, Invariance, PTL DEF Spec

(***************************************************************************)
(* Recursion on positions, and folds.                                      *)
(***************************************************************************)
LEMMA LeastExists ==
  ASSUME NEW N \in SUBSET Nat, N # {}
  PROVE  \E x \in N : \A y \in N : x <= y
  <1> DEFINE R == OpToRel(<, Nat)
  <1>1. PICK x \in N : \A y \in N : <<y, x>> \notin R
    <2>1. IsWellFoundedOn(R, Nat)
      BY NatLessThanWellFounded
    <2> HIDE DEF R
    <2> QED BY <2>1, WFMin
  <1>2. \A y \in N : ~(y < x)
    BY <1>1 DEF OpToRel
  <1> QED BY <1>2

\* What holds of 0, and of n if it does of n - 1, holds up to m.
LEMMA Steps ==
  ASSUME NEW m \in Nat, NEW N, 0 \in N, \A n \in 1..m : n - 1 \in N => n \in N
  PROVE  \A n \in 0..m : n \in N
  <1> DEFINE Rest == { n \in 0..m : n \notin N }
  <1> SUFFICES ASSUME Rest # {} PROVE FALSE
    OBVIOUS
  <1>1. PICK n \in Rest : \A k \in Rest : n <= k
    <2> Rest \in SUBSET Nat
      OBVIOUS
    <2> HIDE DEF Rest
    <2> QED BY LeastExists
  <1>2. n \in 1..m /\ n - 1 \in 0..m /\ n - 1 \notin Rest
    BY <1>1
  <1> QED BY <1>2

\* A recursion on 0..m, one step from each value to the next, has a solution.
StepFunctions(m, W) == [1..m -> [W -> W]]
Solution(b, F, m, W) ==
  \E g \in [0..m -> W] : g[0] = b /\ \A n \in 1..m : g[n] = F[n][g[n - 1]]

LEMMA RecursionExists ==
  ASSUME NEW W, NEW b \in W, NEW m \in Nat, NEW F \in StepFunctions(m, W)
  PROVE  Solution(b, F, m, W)
  <1> USE DEF StepFunctions, Solution
  <1> DEFINE Solved(k) == \E g \in [0..k -> W] :
                             g[0] = b /\ \A n \in 1..k : g[n] = F[n][g[n - 1]]
             N == { k \in 0..m : Solved(k) }
  <1>1. 0 \in N
    <2> DEFINE g0 == [n \in 0..0 |-> b]
    <2>1. g0 \in [0..0 -> W] /\ g0[0] = b /\ 1..0 = {}
      OBVIOUS
    <2> HIDE DEF g0
    <2>2. Solved(0)
      BY <2>1
    <2> HIDE DEF Solved
    <2> QED BY <2>2
  <1>2. ASSUME NEW k \in 1..m, k - 1 \in N
        PROVE  k \in N
    <2>1. PICK g \in [0..(k - 1) -> W] :
            g[0] = b /\ \A n \in 1..(k - 1) : g[n] = F[n][g[n - 1]]
      BY <1>2
    <2> DEFINE last == F[k][g[k - 1]]
               h == [n \in 0..k |-> IF n = k THEN last ELSE g[n]]
    <2>2. last \in W
      <3>1. g[k - 1] \in W /\ F[k] \in [W -> W]
        BY <2>1
      <3> QED BY <3>1
    <2>3. h \in [0..k -> W]
      BY <2>1, <2>2
    <2>4. h[0] = b
      BY <2>1
    <2>5. ASSUME NEW n \in 1..k
          PROVE  h[n] = F[n][h[n - 1]]
      <3>1. n - 1 \in 0..k /\ n - 1 # k /\ h[n - 1] = g[n - 1]
        OBVIOUS
      <3>2. CASE n = k
        <4>1. h[n] = last
          BY <3>2
        <4> HIDE DEF h
        <4> QED BY <3>1, <3>2, <4>1
      <3>3. CASE n # k
        <4>1. h[n] = g[n] /\ n \in 1..(k - 1)
          BY <3>3
        <4> HIDE DEF h
        <4> QED BY <3>1, <4>1, <2>1
      <3> QED BY <3>2, <3>3
    <2> HIDE DEF h
    <2>6. Solved(k)
      BY <2>3, <2>4, <2>5
    <2> HIDE DEF Solved
    <2> QED BY <2>6
  <1>3. \A k \in 1..m : k - 1 \in N => k \in N
    BY <1>2
  <1>4. \A k \in 0..m : k \in N
    <2> HIDE DEF N
    <2> QED BY <1>1, <1>3, Steps
  <1> QED BY <1>4

\* The greatest of some positions.
LEMMA MaxIsGreatest ==
  ASSUME NEW n \in Nat, NEW k \in SUBSET (1..n), k # {}
  PROVE  Max(k) \in k /\ \A j \in k : Max(k) >= j
  <1> DEFINE above == { n - j : j \in k }
  <1>1. above \in SUBSET Nat /\ above # {}
    <2>1. PICK j \in k : TRUE
      OBVIOUS
    <2>2. n - j \in above
      OBVIOUS
    <2>3. \A m \in 1..n : n - m \in Nat
      OBVIOUS
    <2> QED BY <2>2, <2>3
  <1>2. PICK a \in above : \A b \in above : a <= b
    <2> HIDE DEF above
    <2> QED BY <1>1, LeastExists
  <1>3. PICK x \in k : a = n - x
    BY <1>2
  <1>4. ASSUME NEW j \in k PROVE x >= j
    <2>1. n - j \in above
      OBVIOUS
    <2>2. n - x <= n - j /\ x \in 1..n /\ j \in 1..n
      BY <1>2, <1>3, <2>1
    <2> QED BY <2>2
  <1> QED BY <1>4 DEF Max

\* A recursion on sets of positions, from the greatest down, has a solution.
Stays(Op, top, V) == \A m \in 1..top, v \in V : Op[m][v] \in V
SetSolution(first, Op, top, V) ==
  \E g \in [SUBSET (1..top) -> V] :
    /\ g[{}] = first
    /\ \A k \in SUBSET (1..top) : k # {} => g[k] = Op[Max(k)][g[k \ {Max(k)}]]

LEMMA SetRecursionExists ==
  ASSUME NEW V, NEW first \in V, NEW top \in Nat, NEW Op, Stays(Op, top, V)
  PROVE  SetSolution(first, Op, top, V)
  <1> USE DEF Stays, SetSolution
  <1> DEFINE Tables == [SUBSET (1..top) -> V]
             base == [k \in SUBSET (1..top) |-> first]
             Fill == [m \in 1..top |-> [g \in Tables |-> [k \in SUBSET (1..top) |->
                    IF m \in k THEN Op[m][g[k \ {m}]] ELSE g[k]]]]
  <1>1. base \in Tables
    OBVIOUS
  <1>2. Fill \in [1..top -> [Tables -> Tables]]
    <2>1. ASSUME NEW m \in 1..top, NEW g \in Tables, NEW k \in SUBSET (1..top)
          PROVE  (IF m \in k THEN Op[m][g[k \ {m}]] ELSE g[k]) \in V
      <3>1. k \ {m} \in SUBSET (1..top)
        OBVIOUS
      <3>2. g[k \ {m}] \in V /\ g[k] \in V
        BY <3>1
      <3> QED BY <3>2
    <2> QED BY <2>1
  <1>3. \E h \in [0..top -> Tables] : h[0] = base /\ \A m \in 1..top : h[m] = Fill[m][h[m - 1]]
    <2>1. Fill \in StepFunctions(top, Tables)
      BY <1>2, Zenon DEF StepFunctions
    <2>2. Solution(base, Fill, top, Tables)
      <3> HIDE DEF Tables, base, Fill
      <3> QED BY <1>1, <2>1, RecursionExists, Zenon
    <2> HIDE DEF Tables, base, Fill
    <2> QED BY <2>2, Zenon DEF Solution
  <1>p. PICK h \in [0..top -> Tables] : h[0] = base /\ \A m \in 1..top : h[m] = Fill[m][h[m - 1]]
    <2> HIDE DEF Tables, base, Fill
    <2> QED BY <1>3
  <1>4. ASSUME NEW m \in 1..top, NEW k \in SUBSET (1..top)
        PROVE  /\ m \in k => h[m][k] = Op[m][h[m - 1][k \ {m}]]
               /\ m \notin k => h[m][k] = h[m - 1][k]
    <2>1. m - 1 \in 0..top /\ h[m - 1] \in Tables
      BY <1>p
    <2>2. h[m] = [j \in SUBSET (1..top) |->
                    IF m \in j THEN Op[m][h[m - 1][j \ {m}]] ELSE h[m - 1][j]]
      <3>1. h[m] = Fill[m][h[m - 1]]
        BY <1>p
      <3> DEFINE hm == h[m - 1]
      <3>2. hm \in Tables
        BY <2>1
      <3> HIDE DEF Tables, hm
      <3>3. Fill[m][hm] = [j \in SUBSET (1..top) |-> IF m \in j THEN Op[m][hm[j \ {m}]] ELSE hm[j]]
        BY <3>2
      <3> QED BY <3>1, <3>3 DEF hm
    <2> QED BY <2>2
  <1>5. ASSUME NEW k \in SUBSET (1..top), NEW x \in 0..top, \A j \in k : j <= x
        PROVE  h[top][k] = h[x][k]
    <2> DEFINE N == { m \in 0..top : m >= x => h[m][k] = h[x][k] }
    <2>1. 0 \in N
      OBVIOUS
    <2>2. ASSUME NEW m \in 1..top, m - 1 \in N PROVE m \in N
      <3>1. CASE m > x
        <4>1. m \notin k /\ m - 1 >= x
          BY <1>5, <3>1
        <4>2. h[m][k] = h[m - 1][k]
          BY <1>4, <4>1
        <4>3. h[m - 1][k] = h[x][k]
          BY <2>2, <4>1
        <4> QED BY <4>2, <4>3
      <3> QED BY <3>1
    <2>3. \A m \in 0..top : m \in N
      <3> HIDE DEF N
      <3> QED BY <2>1, <2>2, Steps
    <2> QED BY <2>3
  <1> DEFINE g == h[top]
  <1>6. g \in [SUBSET (1..top) -> V]
    BY <1>p
  <1>7. g[{}] = first
    <2>1. h[top][{}] = h[0][{}]
      BY <1>5
    <2> QED BY <1>p, <2>1
  <1>8. ASSUME NEW k \in SUBSET (1..top), k # {}
        PROVE  g[k] = Op[Max(k)][g[k \ {Max(k)}]]
    <2>1. PICK x \in k : x = Max(k) /\ \A j \in k : x >= j
      BY <1>8, MaxIsGreatest
    <2>2. x \in 1..top /\ x - 1 \in 0..top /\ x \in 0..top
      OBVIOUS
    <2>3. h[top][k] = h[x][k]
      BY <1>5, <2>1, <2>2
    <2>4. h[top][k \ {x}] = h[x - 1][k \ {x}]
      <3>1. \A j \in k \ {x} : j <= x - 1
        BY <2>1
      <3> QED BY <1>5, <2>2, <3>1
    <2>5. h[x][k] = Op[x][h[x - 1][k \ {x}]]
      BY <1>4, <2>2
    <2> HIDE DEF Fill, Tables, base
    <2> QED BY <2>1, <2>3, <2>4, <2>5
  <1> HIDE DEF g
  <1> QED BY <1>6, <1>7, <1>8

(***************************************************************************)
(* transformMessages().  Its two loops, call by call and message by        *)
(* message; what fits behind a message of a transcript; and what it makes  *)
(* of a transcript whose results fit.                                      *)
(***************************************************************************)
Acc == [out : Seq(Message), pendingToolCalls : Seq(Call),
        existingToolResultIds : SUBSET (Nat \X Nat \X Nat)]

LEMMA NothingType == NothingPending \in Acc
  BY EmptySeq DEF NothingPending, Acc

Inserted(acc, out, m) ==
  IF acc.pendingToolCalls[m].id \in acc.existingToolResultIds
  THEN out ELSE Append(out, Synthetic(acc.pendingToolCalls[m]))

\* What InsertSynthetic appends, call by call.
LEMMA InsertSteps ==
  ASSUME NEW acc \in Acc
  PROVE  \E h \in [0..Len(acc.pendingToolCalls) -> Seq(Message)] :
           /\ h[0] = acc.out
           /\ \A m \in 1..Len(acc.pendingToolCalls) : h[m] = Inserted(acc, h[m - 1], m)
           /\ InsertSynthetic(acc) = [NothingPending EXCEPT !.out = h[Len(acc.pendingToolCalls)]]
  <1> DEFINE top == Len(acc.pendingToolCalls)
             V == Seq(Message)
             first == acc.out
             Op == [m \in 1..top |-> [v \in V |-> Inserted(acc, v, m)]]
             Step(g) == [k \in SUBSET (1..top) |->
                           IF k = {} THEN first ELSE Inserted(acc, g[k \ {Max(k)}], Max(k))]
             folded == CHOOSE g : g = Step(g)
  <1>1. top \in Nat /\ first \in V /\ DOMAIN acc.pendingToolCalls = 1..top
    BY DEF Acc
  <1>2. InsertSynthetic(acc) = [NothingPending EXCEPT !.out = folded[1..top]]
    <2>1. DOMAIN acc.pendingToolCalls = 1..Len(acc.pendingToolCalls)
      BY <1>1
    <2> QED BY <2>1, Zenon DEF InsertSynthetic, Inserted, FoldLeft, MapThenFoldSet
  <1>3. \A m \in 1..top, v \in V : Op[m][v] = Inserted(acc, v, m) /\ Op[m][v] \in V
    <2>1. ASSUME NEW m \in 1..top, NEW v \in V
          PROVE  Inserted(acc, v, m) \in V
      <3>1. acc.pendingToolCalls[m] \in Call
        BY DEF Acc
      <3>2. Synthetic(acc.pendingToolCalls[m]) \in Message
        BY <3>1 DEF Synthetic, Call, Message, Result
      <3> QED BY <3>2 DEF Inserted
    <2> HIDE DEF V, top
    <2> QED BY <2>1
  <1>4. \E g : g = Step(g)
    <2>1. PICK g \in [SUBSET (1..top) -> V] :
            /\ g[{}] = first
            /\ \A k \in SUBSET (1..top) : k # {} => g[k] = Op[Max(k)][g[k \ {Max(k)}]]
      <3>1. Stays(Op, top, V)
        BY <1>3 DEF Stays
      <3> HIDE DEF top, V, first, Op, Step, folded
      <3>2. SetSolution(first, Op, top, V)
        BY <1>1, <3>1, SetRecursionExists, Zenon
      <3> QED BY <3>2, Zenon DEF SetSolution
    <2> HIDE DEF top, V, first, Op, folded
    <2>2. ASSUME NEW k \in SUBSET (1..top), k # {}
          PROVE  g[k] = Inserted(acc, g[k \ {Max(k)}], Max(k))
      <3>1. Max(k) \in 1..top
        BY <1>1, <2>2, MaxIsGreatest
      <3>2. g[k \ {Max(k)}] \in V
        BY <2>1
      <3>3. g[k] = Op[Max(k)][g[k \ {Max(k)}]]
        BY <2>1, <2>2
      <3> HIDE DEF Step
      <3> QED BY <1>3, <3>1, <3>2, <3>3, Zenon
    <2>3. \A k \in SUBSET (1..top) :
            g[k] = IF k = {} THEN first ELSE Inserted(acc, g[k \ {Max(k)}], Max(k))
      <3> HIDE DEF Step
      <3> QED BY <2>1, <2>2, Zenon
    <2>4. g = [k \in SUBSET (1..top) |-> g[k]]
      <3> HIDE DEF Step
      <3> QED BY <2>1
    <2>5. g = Step(g)
      BY <2>3, <2>4
    <2> HIDE DEF Step
    <2> QED BY <2>5
  <1>5. folded = Step(folded)
    <2> HIDE DEF Step
    <2> QED BY <1>4
  <1> HIDE DEF folded
  <1>6. \A k \in SUBSET (1..top) :
          folded[k] = IF k = {} THEN first ELSE Inserted(acc, folded[k \ {Max(k)}], Max(k))
    <2> HIDE DEF top, V, first, Op
    <2> QED BY <1>5
  <1> DEFINE h == [m \in 0..top |-> folded[1..m]]
  <1>7. h[0] = first
    <2>1. 1..0 = {} /\ {} \in SUBSET (1..top) /\ 0 \in 0..top
      BY <1>1
    <2>2. folded[{}] = first
      <3> HIDE DEF top, V, first, Op
      <3> QED BY <1>6, <2>1, Zenon
    <2> HIDE DEF first, top
    <2> QED BY <2>1, <2>2
  <1>8. ASSUME NEW m \in 1..top
        PROVE  h[m] = Inserted(acc, h[m - 1], m)
    <2> HIDE DEF top, V, first, Op
    <2> DEFINE k == 1..m
    <2>1. k \in SUBSET (1..top) /\ k # {} /\ m \in k /\ \A j \in k : m >= j
      <3>1. m \in k /\ \A j \in k : m >= j /\ j \in 1..top
        BY <1>1
      <3> HIDE DEF k
      <3> QED BY <3>1
    <2>2. Max(k) = m
      <3>1. Max(k) \in k /\ \A j \in k : Max(k) >= j
        <4> HIDE DEF k
        <4> QED BY <1>1, <2>1, MaxIsGreatest
      <3> QED BY <2>1, <3>1
    <2>3. k \ {m} = 1..(m - 1) /\ m - 1 \in 0..top /\ m \in 0..top
      BY <1>1
    <2>4. folded[k] = Inserted(acc, folded[k \ {m}], m)
      <3> HIDE DEF k
      <3> QED BY <1>6, <2>1, <2>2, Zenon
    <2>5. h[m] = folded[k] /\ h[m - 1] = folded[k \ {m}]
      BY <2>3
    <2> HIDE DEF h, k
    <2> QED BY <2>4, <2>5, Zenon
  <1>9. \A m \in 0..top : h[m] \in V
    <2> DEFINE N == { m \in 0..top : h[m] \in V }
    <2>1. 0 \in N
      BY <1>1, <1>7
    <2>2. ASSUME NEW m \in 1..top, m - 1 \in N PROVE m \in N
      <3>1. h[m - 1] \in V /\ m \in 0..top
        BY <1>1, <2>2
      <3>2. Op[m][h[m - 1]] \in V /\ Op[m][h[m - 1]] = h[m]
        <4> HIDE DEF h, top, V, Op
        <4> QED BY <1>3, <1>8, <3>1
      <3> HIDE DEF h, V, Op
      <3> QED BY <3>1, <3>2
    <2> HIDE DEF N
    <2>3. \A m \in 0..top : m \in N
      <3> HIDE DEF top
      <3> QED BY <1>1, <2>1, <2>2, Steps
    <2> QED BY <2>3 DEF N
  <1>10. h \in [0..top -> V] /\ h[top] = folded[1..top]
    <2> HIDE DEF V, top
    <2> QED BY <1>1, <1>9
  <1> HIDE DEF h, Op
  <1> QED BY <1>2, <1>7, <1>8, <1>10

LEMMA InsertType ==
  ASSUME NEW acc \in Acc
  PROVE  /\ InsertSynthetic(acc) \in Acc
         /\ InsertSynthetic(acc).pendingToolCalls = <<>>
         /\ InsertSynthetic(acc).existingToolResultIds = {}
  <1>1. PICK out \in Seq(Message) : InsertSynthetic(acc) = [NothingPending EXCEPT !.out = out]
    <2>1. PICK h \in [0..Len(acc.pendingToolCalls) -> Seq(Message)] :
            InsertSynthetic(acc) = [NothingPending EXCEPT !.out = h[Len(acc.pendingToolCalls)]]
      BY InsertSteps
    <2>2. Len(acc.pendingToolCalls) \in Nat
      BY DEF Acc
    <2> QED BY <2>1, <2>2
  <1> QED BY <1>1, NothingType DEF Acc, NothingPending

LEMMA AddType ==
  ASSUME NEW acc \in Acc, NEW m \in Message
  PROVE  AddMessage(acc, m) \in Acc
  <1>1. InsertSynthetic(acc) \in Acc
    BY InsertType
  <1> DEFINE flushed == InsertSynthetic(acc)
  <1>2. CASE m.role = "assistant"
    <2>1. m \in Reply
      BY <1>2 DEF Message, Result, UserMessage
    <2>2. flushed \in Acc
      BY <1>1
    <2> HIDE DEF flushed
    <2>3. Append(flushed.out, m) \in Seq(Message) /\ m.calls \in Seq(Call)
      BY <2>1, <2>2 DEF Acc, Reply
    <2>4. [flushed EXCEPT !.out = Append(@, m), !.pendingToolCalls = m.calls] \in Acc
      BY <2>2, <2>3 DEF Acc
    <2> QED BY <1>1, <1>2, <2>4 DEF AddMessage, flushed
  <1>3. CASE m.role = "user"
    <2>1. flushed \in Acc
      BY <1>1
    <2> HIDE DEF flushed
    <2>2. Append(flushed.out, m) \in Seq(Message)
      BY <2>1 DEF Acc
    <2>3. [flushed EXCEPT !.out = Append(@, m)] \in Acc
      BY <2>1, <2>2 DEF Acc
    <2> QED BY <1>3, <2>3 DEF AddMessage, flushed
  <1>4. CASE m.role # "assistant" /\ m.role # "user"
    <2>1. m \in Result
      BY <1>4 DEF Message, Reply, UserMessage
    <2>2. Append(acc.out, m) \in Seq(Message)
          /\ (acc.existingToolResultIds \cup {m.call}) \in SUBSET (Nat \X Nat \X Nat)
      BY <2>1 DEF Acc, Result
    <2>3. [acc EXCEPT !.out = Append(@, m), !.existingToolResultIds = @ \cup {m.call}] \in Acc
      BY <2>2 DEF Acc
    <2> QED BY <1>4, <2>3 DEF AddMessage
  <1> QED BY <1>2, <1>3, <1>4

\* What Transform makes of a transcript, message by message.
LEMMA TransformSteps ==
  ASSUME NEW s \in Seq(Message)
  PROVE  \E h \in [0..Len(s) -> Acc] :
           /\ h[0] = NothingPending
           /\ \A m \in 1..Len(s) : h[m] = AddMessage(h[m - 1], s[m])
           /\ Transform(s) = h[Len(s)].out
  <1> DEFINE top == Len(s)
             V == Acc
             first == NothingPending
             Op == [m \in 1..top |-> [v \in V |-> AddMessage(v, s[m])]]
             Step(g) == [k \in SUBSET (1..top) |->
                           IF k = {} THEN first ELSE AddMessage(g[k \ {Max(k)}], s[Max(k)])]
             folded == CHOOSE g : g = Step(g)
  <1>1. top \in Nat /\ first \in V /\ DOMAIN s = 1..top
    BY NothingType
  <1>2. Transform(s) = folded[1..top].out
    <2>1. DOMAIN s = 1..Len(s)
      BY <1>1
    <2> QED BY <2>1, Zenon DEF Transform, FoldLeft, MapThenFoldSet
  <1>3. \A m \in 1..top, v \in V : Op[m][v] = AddMessage(v, s[m]) /\ Op[m][v] \in V
    <2>1. ASSUME NEW m \in 1..top, NEW v \in V
          PROVE  AddMessage(v, s[m]) \in V
      <3>1. s[m] \in Message
        OBVIOUS
      <3> QED BY <3>1, AddType
    <2> HIDE DEF V, top
    <2> QED BY <2>1
  <1>4. \E g : g = Step(g)
    <2>1. PICK g \in [SUBSET (1..top) -> V] :
            /\ g[{}] = first
            /\ \A k \in SUBSET (1..top) : k # {} => g[k] = Op[Max(k)][g[k \ {Max(k)}]]
      <3>1. Stays(Op, top, V)
        BY <1>3 DEF Stays
      <3> HIDE DEF top, V, first, Op, Step, folded
      <3>2. SetSolution(first, Op, top, V)
        BY <1>1, <3>1, SetRecursionExists, Zenon
      <3> QED BY <3>2, Zenon DEF SetSolution
    <2> HIDE DEF top, V, first, Op, folded
    <2>2. ASSUME NEW k \in SUBSET (1..top), k # {}
          PROVE  g[k] = AddMessage(g[k \ {Max(k)}], s[Max(k)])
      <3>1. Max(k) \in 1..top
        BY <1>1, <2>2, MaxIsGreatest
      <3>2. g[k \ {Max(k)}] \in V
        BY <2>1
      <3>3. g[k] = Op[Max(k)][g[k \ {Max(k)}]]
        BY <2>1, <2>2
      <3> HIDE DEF Step
      <3> QED BY <1>3, <3>1, <3>2, <3>3, Zenon
    <2>3. \A k \in SUBSET (1..top) :
            g[k] = IF k = {} THEN first ELSE AddMessage(g[k \ {Max(k)}], s[Max(k)])
      <3> HIDE DEF Step
      <3> QED BY <2>1, <2>2, Zenon
    <2>4. g = [k \in SUBSET (1..top) |-> g[k]]
      <3> HIDE DEF Step
      <3> QED BY <2>1
    <2>5. g = Step(g)
      BY <2>3, <2>4
    <2> HIDE DEF Step
    <2> QED BY <2>5
  <1>5. folded = Step(folded)
    <2> HIDE DEF Step
    <2> QED BY <1>4
  <1> HIDE DEF folded
  <1>6. \A k \in SUBSET (1..top) :
          folded[k] = IF k = {} THEN first ELSE AddMessage(folded[k \ {Max(k)}], s[Max(k)])
    <2> HIDE DEF top, V, first, Op
    <2> QED BY <1>5
  <1> DEFINE h == [m \in 0..top |-> folded[1..m]]
  <1>7. h[0] = first
    <2>1. 1..0 = {} /\ {} \in SUBSET (1..top) /\ 0 \in 0..top
      BY <1>1
    <2>2. folded[{}] = first
      <3> HIDE DEF top, V, first, Op
      <3> QED BY <1>6, <2>1, Zenon
    <2> HIDE DEF first, top
    <2> QED BY <2>1, <2>2
  <1>8. ASSUME NEW m \in 1..top
        PROVE  h[m] = AddMessage(h[m - 1], s[m])
    <2> HIDE DEF top, V, first, Op
    <2> DEFINE k == 1..m
    <2>1. k \in SUBSET (1..top) /\ k # {} /\ m \in k /\ \A j \in k : m >= j
      <3>1. m \in k /\ \A j \in k : m >= j /\ j \in 1..top
        BY <1>1
      <3> HIDE DEF k
      <3> QED BY <3>1
    <2>2. Max(k) = m
      <3>1. Max(k) \in k /\ \A j \in k : Max(k) >= j
        <4> HIDE DEF k
        <4> QED BY <1>1, <2>1, MaxIsGreatest
      <3> QED BY <2>1, <3>1
    <2>3. k \ {m} = 1..(m - 1) /\ m - 1 \in 0..top /\ m \in 0..top
      BY <1>1
    <2>4. folded[k] = AddMessage(folded[k \ {m}], s[m])
      <3> HIDE DEF k
      <3> QED BY <1>6, <2>1, <2>2, Zenon
    <2>5. h[m] = folded[k] /\ h[m - 1] = folded[k \ {m}]
      BY <2>3
    <2> HIDE DEF h, k
    <2> QED BY <2>4, <2>5, Zenon
  <1>9. \A m \in 0..top : h[m] \in V
    <2> DEFINE N == { m \in 0..top : h[m] \in V }
    <2>1. 0 \in N
      BY <1>1, <1>7
    <2>2. ASSUME NEW m \in 1..top, m - 1 \in N PROVE m \in N
      <3>1. h[m - 1] \in V /\ m \in 0..top
        BY <1>1, <2>2
      <3>2. Op[m][h[m - 1]] \in V /\ Op[m][h[m - 1]] = h[m]
        <4> HIDE DEF h, top, V, Op
        <4> QED BY <1>3, <1>8, <3>1
      <3> HIDE DEF h, V, Op
      <3> QED BY <3>1, <3>2
    <2> HIDE DEF N
    <2>3. \A m \in 0..top : m \in N
      <3> HIDE DEF top
      <3> QED BY <1>1, <2>1, <2>2, Steps
    <2> QED BY <2>3 DEF N
  <1>10. h \in [0..top -> V] /\ h[top] = folded[1..top]
    <2> HIDE DEF V, top
    <2> QED BY <1>1, <1>9
  <1> HIDE DEF h, Op
  <1> QED BY <1>2, <1>7, <1>8, <1>10

Kept(m) == m.role = "assistant" /\ ~Skipped(m)

\* Nothing but results from behind message j up to message i.
Follows(s, j, i) == \A k \in (j + 1)..i : s[k].role = "toolResult"

DistinctIds(m) == \A c, d \in DOMAIN m.calls : m.calls[c].id = m.calls[d].id => c = d

\* Result i answers a call of message j, and is the first to do so.
IsResultOf(s, j, i) ==
  /\ Kept(s[j]) /\ Follows(s, j, i) /\ s[i].call \in CallIds(s[j])
  /\ \A k \in (j + 1)..(i - 1) : s[k].call # s[i].call

ResultsFit(s) ==
  /\ \A i \in DOMAIN s : s[i].role = "toolResult" => \E j \in 1..(i - 1) : IsResultOf(s, j, i)
  /\ \A j \in DOMAIN s : Kept(s[j]) => DistinctIds(s[j])

AnsweredAt(s, j) ==
  \A id \in CallIds(s[j]) : \E i \in (j + 1)..Len(s) : Follows(s, j, i) /\ s[i].call = id

LEMMA AppendIs ==
  ASSUME NEW s \in Seq(Message), NEW m \in Message, NEW t, t = Append(s, m)
  PROVE  /\ t \in Seq(Message) /\ Len(s) \in Nat /\ Len(t) = Len(s) + 1
         /\ DOMAIN s = 1..Len(s) /\ DOMAIN t = 1..(Len(s) + 1)
         /\ \A i \in 1..Len(s) : t[i] = s[i]
         /\ t[Len(s) + 1] = m
  OBVIOUS

LEMMA AnsweredStays ==
  ASSUME NEW s \in Seq(Message), NEW m \in Message, NEW t, t = Append(s, m),
         NEW j \in 1..Len(s), AnsweredAt(s, j)
  PROVE  AnsweredAt(t, j)
  <1>1. /\ Len(s) \in Nat /\ Len(t) = Len(s) + 1
        /\ \A i \in 1..Len(s) : t[i] = s[i]
    BY AppendIs
  <1>2. ASSUME NEW id \in CallIds(t[j])
        PROVE  \E i \in (j + 1)..Len(t) : Follows(t, j, i) /\ t[i].call = id
    <2>1. id \in CallIds(s[j])
      BY <1>1, <1>2
    <2>2. PICK i \in (j + 1)..Len(s) : Follows(s, j, i) /\ s[i].call = id
      BY <2>1 DEF AnsweredAt
    <2>3. Follows(t, j, i) /\ t[i].call = id /\ i \in (j + 1)..Len(t)
      BY <1>1, <2>2 DEF Follows
    <2> QED BY <2>3
  <1> QED BY <1>2 DEF AnsweredAt

\* Whose result i is does not change.
LEMMA RepliesStay ==
  ASSUME NEW s \in Seq(Message), NEW m \in Message, NEW t, t = Append(s, m),
         NEW i \in 1..Len(s), NEW j \in 1..(i - 1)
  PROVE  IsResultOf(t, j, i) <=> IsResultOf(s, j, i)
  <1>1. /\ Len(s) \in Nat /\ \A k \in 1..Len(s) : t[k] = s[k]
    BY AppendIs
  <1>2. /\ t[j] = s[j] /\ t[i] = s[i]
        /\ \A k \in (j + 1)..i : t[k] = s[k]
        /\ (j + 1)..(i - 1) \subseteq (j + 1)..i
    BY <1>1
  <1>3. Follows(t, j, i) <=> Follows(s, j, i)
    BY <1>2 DEF Follows
  <1> QED BY <1>2, <1>3 DEF IsResultOf

LEMMA FitsWithOther ==
  ASSUME NEW s \in Seq(Message), ResultsFit(s), NEW m \in Message, m.role # "toolResult",
         Kept(m) => DistinctIds(m), NEW t, t = Append(s, m)
  PROVE  ResultsFit(t)
  <1>1. /\ Len(s) \in Nat /\ DOMAIN s = 1..Len(s) /\ DOMAIN t = 1..(Len(s) + 1)
        /\ \A i \in 1..Len(s) : t[i] = s[i]
        /\ t[Len(s) + 1] = m
    BY AppendIs
  <1>2. ASSUME NEW i \in DOMAIN t, t[i].role = "toolResult"
        PROVE  \E j \in 1..(i - 1) : IsResultOf(t, j, i)
    <2>1. i \in 1..Len(s) /\ s[i].role = "toolResult"
      BY <1>1, <1>2
    <2>2. PICK j \in 1..(i - 1) : IsResultOf(s, j, i)
      BY <1>1, <2>1 DEF ResultsFit
    <2> QED BY <2>1, <2>2, RepliesStay
  <1>3. ASSUME NEW j \in DOMAIN t, Kept(t[j]) PROVE DistinctIds(t[j])
    BY <1>1, <1>3 DEF ResultsFit
  <1> QED BY <1>2, <1>3 DEF ResultsFit

LEMMA FitsWithResult ==
  ASSUME NEW s \in Seq(Message), ResultsFit(s), NEW m \in Message, m.role = "toolResult",
         NEW j \in 1..Len(s), Kept(s[j]), Follows(s, j, Len(s)), m.call \in CallIds(s[j]),
         \A k \in (j + 1)..Len(s) : s[k].call # m.call,
         NEW t, t = Append(s, m)
  PROVE  ResultsFit(t) /\ Follows(t, j, Len(t)) /\ t[j] = s[j]
  <1>1. /\ Len(s) \in Nat /\ DOMAIN s = 1..Len(s) /\ DOMAIN t = 1..(Len(s) + 1)
        /\ \A i \in 1..Len(s) : t[i] = s[i]
        /\ t[Len(s) + 1] = m /\ Len(t) = Len(s) + 1
    BY AppendIs
  <1>2. Follows(t, j, Len(t)) /\ t[j] = s[j]
    BY <1>1 DEF Follows
  <1>3. ASSUME NEW i \in DOMAIN t, t[i].role = "toolResult"
        PROVE  \E l \in 1..(i - 1) : IsResultOf(t, l, i)
    <2>1. CASE i \in 1..Len(s)
      <3>1. s[i].role = "toolResult"
        BY <1>1, <1>3, <2>1
      <3>2. PICK l \in 1..(i - 1) : IsResultOf(s, l, i)
        BY <1>1, <2>1, <3>1 DEF ResultsFit
      <3> QED BY <2>1, <3>2, RepliesStay
    <2>2. CASE i = Len(s) + 1
      <3>1. j \in 1..(i - 1) /\ t[i] = m
        BY <1>1, <2>2
      <3>2. Follows(t, j, i)
        BY <1>1, <1>2, <2>2
      <3>3. \A k \in (j + 1)..(i - 1) : t[k].call # t[i].call
        BY <1>1, <2>2
      <3>4. IsResultOf(t, j, i)
        BY <1>2, <3>1, <3>2, <3>3 DEF IsResultOf
      <3> QED BY <3>1, <3>4
    <2> QED BY <1>1, <2>1, <2>2
  <1>4. ASSUME NEW l \in DOMAIN t, Kept(t[l]) PROVE DistinctIds(t[l])
    <2>1. l # Len(s) + 1
      BY <1>1, <1>4 DEF Kept
    <2> QED BY <1>1, <1>4, <2>1 DEF ResultsFit
  <1> QED BY <1>2, <1>3, <1>4 DEF ResultsFit

\* Only one message can be followed by nothing but results up to i.
LEMMA OneIsFollowed ==
  ASSUME NEW s, NEW i \in Nat, NEW j \in Nat, NEW l \in Nat, j <= i, l <= i,
         s[j].role # "toolResult", s[l].role # "toolResult",
         Follows(s, j, i), Follows(s, l, i)
  PROVE  j = l
  <1>1. l \notin (j + 1)..i /\ j \notin (l + 1)..i
    BY DEF Follows
  <1> QED BY <1>1

\* Where results fit and every call is answered, a provider has nothing to object.
LEMMA FitIsWellFormed ==
  ASSUME NEW s \in Seq(Message), ResultsFit(s),
         \A j \in DOMAIN s : s[j].role = "assistant" => AnsweredAt(s, j)
  PROVE  WellFormed(s)
  <1>1. DOMAIN s = 1..Len(s) /\ Len(s) \in Nat
    OBVIOUS
  <1>2. ASSUME NEW j \in DOMAIN s, NEW i \in Answers(s, j), s[j].role = "assistant"
        PROVE  IsResultOf(s, j, i)
    <2>1. i \in (j + 1)..Len(s) /\ Follows(s, j, i)
      BY DEF Answers, Follows
    <2>2. i \in DOMAIN s /\ s[i].role = "toolResult"
      BY <1>1, <2>1 DEF Follows
    <2>3. PICK l \in 1..(i - 1) : IsResultOf(s, l, i)
      BY <2>2 DEF ResultsFit
    <2>4. Follows(s, l, i) /\ s[l].role # "toolResult" /\ s[j].role # "toolResult"
      BY <1>2, <2>3 DEF IsResultOf, Kept
    <2>5. i \in Nat /\ j \in Nat /\ l \in Nat /\ j <= i /\ l <= i
      BY <1>1, <2>1
    <2>6. l = j
      BY <2>1, <2>4, <2>5, OneIsFollowed
    <2> QED BY <2>3, <2>6
  <1>3. ASSUME NEW j \in DOMAIN s, s[j].role = "assistant", NEW id \in CallIds(s[j])
        PROVE  Cardinality({ i \in Answers(s, j) : s[i].call = id }) = 1
    <2> DEFINE R == { i \in Answers(s, j) : s[i].call = id }
    <2>1. PICK i \in (j + 1)..Len(s) : Follows(s, j, i) /\ s[i].call = id
      BY <1>3 DEF AnsweredAt
    <2>2. i \in R
      BY <2>1 DEF Answers, Follows
    <2>3. ASSUME NEW k \in R PROVE k = i
      <3>1. IsResultOf(s, j, k) /\ IsResultOf(s, j, i) /\ s[k].call = s[i].call
        BY <1>2, <1>3, <2>1, <2>2
      <3>2. k \in (j + 1)..Len(s) /\ j \in Nat
        BY <1>1 DEF Answers
      <3>3. k \notin (j + 1)..(i - 1) /\ i \notin (j + 1)..(k - 1)
        BY <3>1 DEF IsResultOf
      <3> QED BY <1>1, <2>1, <3>2, <3>3
    <2>4. R = {i}
      BY <2>2, <2>3
    <2> HIDE DEF R
    <2>5. Cardinality(R) = 1
      BY <2>4, FS_Singleton
    <2> QED BY <2>5 DEF R
  <1>4. ASSUME NEW j \in DOMAIN s, s[j].role = "assistant", NEW i \in Answers(s, j)
        PROVE  s[i].call \in CallIds(s[j])
    BY <1>2, <1>4 DEF IsResultOf
  <1>5. ASSUME NEW i \in DOMAIN s, s[i].role = "toolResult"
        PROVE  \E j \in 1..(i - 1) : s[j].role = "assistant" /\ i \in Answers(s, j)
    <2>1. PICK j \in 1..(i - 1) : IsResultOf(s, j, i)
      BY <1>5 DEF ResultsFit
    <2>2. i \in (j + 1)..Len(s)
      BY <1>1
    <2>3. s[j].role = "assistant" /\ i \in Answers(s, j)
      BY <2>1, <2>2 DEF IsResultOf, Kept, Answers, Follows
    <2> QED BY <2>3
  <1> QED BY <1>3, <1>4, <1>5 DEF WellFormed

\* The last assistant message of a request, its calls, and which of them are answered.
OpenAt(out, j, pend, ids) ==
  /\ Follows(out, j, Len(out)) /\ out[j].calls = pend
  /\ ids = { out[i].call : i \in (j + 1)..Len(out) }

\* A request in the making: no call of an earlier message is without a result.
Half(out, pend, ids) ==
  /\ ResultsFit(out)
  /\ \A j \in DOMAIN out : out[j].role = "assistant" =>
       Kept(out[j]) /\ (AnsweredAt(out, j) \/ OpenAt(out, j, pend, ids))
  /\ pend # <<>> =>
       \E j \in DOMAIN out : out[j].role = "assistant" /\ OpenAt(out, j, pend, ids)

LEMMA HalfWithResult ==
  ASSUME NEW out \in Seq(Message), NEW pend \in Seq(Call), NEW ids, Half(out, pend, ids),
         NEW m \in Message, m.role = "toolResult",
         NEW c \in DOMAIN pend, m.call = pend[c].id, m.call \notin ids
  PROVE  Half(Append(out, m), pend, ids \cup {m.call})
  <1> DEFINE t == Append(out, m)
  <1>1. /\ Len(out) \in Nat /\ DOMAIN out = 1..Len(out) /\ DOMAIN t = 1..(Len(out) + 1)
        /\ \A i \in 1..Len(out) : t[i] = out[i]
        /\ t[Len(out) + 1] = m /\ Len(t) = Len(out) + 1 /\ t = Append(out, m)
    BY AppendIs
  <1> HIDE DEF t
  <1>2. pend # <<>>
    OBVIOUS
  <1>3. PICK j \in 1..Len(out) : out[j].role = "assistant" /\ OpenAt(out, j, pend, ids)
    BY <1>1, <1>2 DEF Half
  <1>4. Kept(out[j]) /\ Follows(out, j, Len(out)) /\ m.call \in CallIds(out[j])
    BY <1>1, <1>3 DEF Half, OpenAt, CallIds
  <1>5. \A k \in (j + 1)..Len(out) : out[k].call # m.call
    BY <1>3 DEF OpenAt
  <1>6. ResultsFit(t) /\ Follows(t, j, Len(t)) /\ t[j] = out[j]
    BY <1>1, <1>4, <1>5, FitsWithResult DEF Half
  <1>7. OpenAt(t, j, pend, ids \cup {m.call})
    <2> DEFINE old == { out[i].call : i \in (j + 1)..Len(out) }
               new == { t[i].call : i \in (j + 1)..Len(t) }
    <2>1. ASSUME NEW x \in new PROVE x \in old \cup {m.call}
      <3>1. PICK i \in (j + 1)..Len(t) : x = t[i].call
        OBVIOUS
      <3>2. i = Len(out) + 1 \/ i \in (j + 1)..Len(out)
        BY <1>1
      <3> QED BY <1>1, <3>1, <3>2
    <2>2. ASSUME NEW x \in old PROVE x \in new
      <3>1. PICK i \in (j + 1)..Len(out) : x = out[i].call
        OBVIOUS
      <3>2. i \in (j + 1)..Len(t) /\ t[i] = out[i]
        BY <1>1
      <3> QED BY <3>1, <3>2
    <2>3. m.call \in new
      <3>1. Len(out) + 1 \in (j + 1)..Len(t)
        BY <1>1
      <3> QED BY <1>1, <3>1
    <2>4. new = old \cup {m.call}
      <3> HIDE DEF new, old
      <3> QED BY <2>1, <2>2, <2>3
    <2> QED BY <1>3, <1>6, <2>4 DEF OpenAt
  <1>8. ASSUME NEW l \in DOMAIN t, t[l].role = "assistant"
        PROVE  Kept(t[l]) /\ (AnsweredAt(t, l) \/ OpenAt(t, l, pend, ids \cup {m.call}))
    <2>1. l \in 1..Len(out) /\ out[l].role = "assistant" /\ t[l] = out[l]
      <3>1. l # Len(out) + 1
        <4>1. CASE l = Len(out) + 1
          BY <1>1, <1>8, <4>1
        <4> QED BY <4>1
      <3>2. l \in 1..Len(out)
        BY <1>1, <3>1
      <3> QED BY <1>1, <1>8, <3>2
    <2>2. CASE AnsweredAt(out, l)
      BY <1>1, <2>1, <2>2, AnsweredStays DEF Half
    <2>3. CASE OpenAt(out, l, pend, ids)
      <3>1. l = j
        BY <1>1, <1>3, <2>1, <2>3, OneIsFollowed DEF OpenAt
      <3> QED BY <1>1, <1>7, <2>1, <3>1 DEF Half
    <2> QED BY <1>1, <2>1, <2>2, <2>3 DEF Half
  <1>9. j \in DOMAIN t /\ t[j].role = "assistant"
    BY <1>1, <1>3, <1>6
  <1> QED BY <1>6, <1>7, <1>8, <1>9 DEF Half, t

LEMMA HalfWithOther ==
  ASSUME NEW out \in Seq(Message), Half(out, <<>>, {}),
         NEW m \in Message, m.role # "toolResult",
         m.role = "assistant" => Kept(m) /\ DistinctIds(m),
         NEW pend, pend = IF m.role = "assistant" THEN m.calls ELSE <<>>
  PROVE  Half(Append(out, m), pend, {})
  <1> DEFINE t == Append(out, m)
  <1>1. /\ Len(out) \in Nat /\ DOMAIN out = 1..Len(out) /\ DOMAIN t = 1..(Len(out) + 1)
        /\ \A i \in 1..Len(out) : t[i] = out[i]
        /\ t[Len(out) + 1] = m /\ Len(t) = Len(out) + 1 /\ t = Append(out, m)
    BY AppendIs
  <1> HIDE DEF t
  <1>2. ResultsFit(t)
    BY <1>1, FitsWithOther DEF Half, Kept
  <1>3. ASSUME m.role = "assistant"
        PROVE  OpenAt(t, Len(out) + 1, pend, {})
    <2>1. ((Len(out) + 1) + 1)..Len(t) = {}
      BY <1>1
    <2>2. { t[i].call : i \in ((Len(out) + 1) + 1)..Len(t) } = {}
      BY <2>1
    <2> QED BY <1>1, <1>3, <2>1, <2>2 DEF OpenAt, Follows
  <1>4. ASSUME NEW l \in DOMAIN t, t[l].role = "assistant"
        PROVE  Kept(t[l]) /\ (AnsweredAt(t, l) \/ OpenAt(t, l, pend, {}))
    <2>1. CASE l = Len(out) + 1
      BY <1>1, <1>3, <1>4, <2>1
    <2>2. CASE l # Len(out) + 1
      <3>1. l \in 1..Len(out) /\ out[l].role = "assistant" /\ t[l] = out[l]
        BY <1>1, <1>4, <2>2
      <3>2. AnsweredAt(out, l)
        <4>1. CASE OpenAt(out, l, <<>>, {})
          BY <4>1 DEF OpenAt, AnsweredAt, CallIds
        <4> QED BY <1>1, <3>1, <4>1 DEF Half
      <3> QED BY <1>1, <3>1, <3>2, AnsweredStays DEF Half
    <2> QED BY <2>1, <2>2
  <1>5. pend # <<>> =>
          \E j \in DOMAIN t : t[j].role = "assistant" /\ OpenAt(t, j, pend, {})
    BY <1>1, <1>3
  <1> QED BY <1>2, <1>4, <1>5 DEF Half, t

\* When the calls of the last message are answered, none is pending.
LEMMA HalfIsWhole ==
  ASSUME NEW out \in Seq(Message), NEW pend \in Seq(Call), NEW ids, Half(out, pend, ids),
         \A c \in DOMAIN pend : pend[c].id \in ids
  PROVE  /\ \A j \in DOMAIN out : out[j].role = "assistant" => AnsweredAt(out, j)
         /\ Half(out, <<>>, {})
  <1>1. ASSUME NEW j \in DOMAIN out, out[j].role = "assistant" PROVE AnsweredAt(out, j)
    <2>1. CASE OpenAt(out, j, pend, ids)
      <3>1. ASSUME NEW id \in CallIds(out[j])
            PROVE  \E i \in (j + 1)..Len(out) : Follows(out, j, i) /\ out[i].call = id
        <4>1. id \in ids
          BY <2>1, <3>1 DEF OpenAt, CallIds
        <4>2. PICK i \in (j + 1)..Len(out) : id = out[i].call
          BY <2>1, <4>1 DEF OpenAt
        <4>3. Follows(out, j, i)
          <5>1. Len(out) \in Nat /\ j \in Nat
            OBVIOUS
          <5>2. (j + 1)..i \subseteq (j + 1)..Len(out)
            BY <5>1
          <5> QED BY <2>1, <5>2 DEF OpenAt, Follows
        <4> QED BY <4>2, <4>3
      <3> QED BY <3>1 DEF AnsweredAt
    <2> QED BY <1>1, <2>1 DEF Half
  <1> QED BY <1>1 DEF Half

\* The calls that nobody answered are answered.
LEMMA InsertMakesWhole ==
  ASSUME NEW acc \in Acc, Half(acc.out, acc.pendingToolCalls, acc.existingToolResultIds)
  PROVE  /\ InsertSynthetic(acc).out \in Seq(Message)
         /\ Half(InsertSynthetic(acc).out, <<>>, {})
  <1> DEFINE pend == acc.pendingToolCalls
             ids == acc.existingToolResultIds
             top == Len(pend)
             Done(m) == ids \cup { pend[c].id : c \in 1..m }
  <1>1. pend \in Seq(Call) /\ top \in Nat /\ DOMAIN pend = 1..top /\ acc.out \in Seq(Message)
    BY DEF Acc
  <1>2. PICK h \in [0..top -> Seq(Message)] :
          /\ h[0] = acc.out
          /\ \A m \in 1..top : h[m] = Inserted(acc, h[m - 1], m)
          /\ InsertSynthetic(acc) = [NothingPending EXCEPT !.out = h[top]]
    BY InsertSteps
  <1>3. \A c, d \in DOMAIN pend : pend[c].id = pend[d].id => c = d
    <2>1. CASE pend = <<>>
      <3>1. DOMAIN pend = {}
        BY <2>1
      <3> QED BY <3>1
    <2>2. CASE pend # <<>>
      <3>1. PICK j \in DOMAIN acc.out :
              acc.out[j].role = "assistant" /\ OpenAt(acc.out, j, pend, ids)
        BY <2>2 DEF Half
      <3>2. DistinctIds(acc.out[j]) /\ acc.out[j].calls = pend
        BY <3>1 DEF Half, ResultsFit, OpenAt
      <3> HIDE DEF pend
      <3> QED BY <3>2 DEF DistinctIds
    <2> QED BY <2>1, <2>2
  <1> DEFINE N == { m \in 0..top : Half(h[m], pend, Done(m)) }
  <1>4. 0 \in N
    <2>1. Done(0) = ids
      <3>1. 1..0 = {}
        OBVIOUS
      <3>2. { pend[c].id : c \in 1..0 } = {}
        BY <3>1
      <3> QED BY <3>2
    <2>2. Half(h[0], pend, ids)
      BY <1>2
    <2> HIDE DEF Done
    <2> QED BY <1>1, <2>1, <2>2
  <1>5. ASSUME NEW m \in 1..top, m - 1 \in N
        PROVE  m \in N
    <2>1. m \in 0..top /\ m - 1 \in 0..top /\ h[m - 1] \in Seq(Message)
      BY <1>1, <1>2
    <2>2. Half(h[m - 1], pend, Done(m - 1))
      BY <1>5
    <2>3. Done(m) = Done(m - 1) \cup {pend[m].id}
      <3>1. 1..m = (1..(m - 1)) \cup {m}
        OBVIOUS
      <3>2. { pend[c].id : c \in 1..m } = { pend[c].id : c \in 1..(m - 1) } \cup {pend[m].id}
        BY <3>1
      <3> QED BY <3>2
    <2>4. h[m] = IF pend[m].id \in ids THEN h[m - 1] ELSE Append(h[m - 1], Synthetic(pend[m]))
      BY <1>2 DEF Inserted
    <2>5. CASE pend[m].id \in ids
      <3>1. Done(m) = Done(m - 1)
        BY <2>3, <2>5
      <3>2. h[m] = h[m - 1]
        BY <2>4, <2>5
      <3> HIDE DEF Done, pend, ids, top
      <3> QED BY <2>1, <2>2, <3>1, <3>2
    <2>6. CASE pend[m].id \notin ids
      <3>1. pend[m].id \notin Done(m - 1)
        <4>1. ASSUME NEW c \in 1..(m - 1) PROVE pend[c].id # pend[m].id
          <5>1. c \in DOMAIN pend /\ m \in DOMAIN pend /\ c # m
            BY <1>1
          <5> HIDE DEF pend
          <5> QED BY <1>3, <5>1
        <4> HIDE DEF pend, ids
        <4> QED BY <2>6, <4>1
      <3>2. pend[m] \in Call /\ m \in DOMAIN pend
        BY <1>1
      <3> DEFINE r == Synthetic(pend[m])
      <3>3. r \in Message /\ r.role = "toolResult" /\ r.call = pend[m].id
        BY <3>2 DEF Synthetic, Message, Result, Call
      <3>4. h[m] = Append(h[m - 1], r)
        BY <2>4, <2>6
      <3>5. Half(Append(h[m - 1], r), pend, Done(m - 1) \cup {r.call})
        <4> HIDE DEF Done, pend, ids, r
        <4> QED BY <1>1, <2>1, <2>2, <3>1, <3>2, <3>3, HalfWithResult
      <3> HIDE DEF Done, pend, ids, r
      <3> QED BY <2>1, <2>3, <3>3, <3>4, <3>5
    <2> QED BY <2>5, <2>6
  <1>6. top \in N
    <2>1. \A m \in 0..top : m \in N
      <3> HIDE DEF N, top
      <3> QED BY <1>1, <1>4, <1>5, Steps
    <2> HIDE DEF N
    <2> QED BY <1>1, <2>1
  <1>7. Half(h[top], pend, Done(top)) /\ h[top] \in Seq(Message)
    BY <1>1, <1>2, <1>6
  <1>8. \A c \in DOMAIN pend : pend[c].id \in Done(top)
    BY <1>1
  <1>9. Half(h[top], <<>>, {})
    <2> HIDE DEF Done, pend, ids, top
    <2> QED BY <1>1, <1>7, <1>8, HalfIsWhole
  <1>10. InsertSynthetic(acc).out = h[top]
    <2> HIDE DEF top
    <2> QED BY <1>2 DEF NothingPending
  <1> QED BY <1>7, <1>9, <1>10

\* The last message but for results has all of its calls answered.
LastAnswered(s) ==
  \A j \in DOMAIN s : Kept(s[j]) /\ Follows(s, j, Len(s)) => AnsweredAt(s, j)

\* The accumulator after n messages of transcript s.
Tracks(acc, s, n) ==
  /\ Half(acc.out, acc.pendingToolCalls, acc.existingToolResultIds)
  /\ \A j \in 1..n : Kept(s[j]) /\ Follows(s, j, n) =>
       /\ acc.pendingToolCalls = s[j].calls
       /\ acc.existingToolResultIds = { s[k].call : k \in (j + 1)..n }
  /\ acc.pendingToolCalls = <<>> \/ \E j \in 1..n : Kept(s[j]) /\ Follows(s, j, n)

LEMMA TracksNothing ==
  ASSUME NEW s PROVE Tracks(NothingPending, s, 0)
  <1>1. DOMAIN <<>> = {} /\ 1..0 = {}
    OBVIOUS
  <1>2. ResultsFit(<<>>)
    BY <1>1 DEF ResultsFit
  <1>3. Half(<<>>, <<>>, {})
    BY <1>1, <1>2 DEF Half
  <1> QED BY <1>1, <1>3 DEF Tracks, NothingPending

\* Behind a message that is not a result, no message is followed by results only.
LEMMA OtherEndsResults ==
  ASSUME NEW s, NEW n \in Nat \ {0}, s[n].role # "toolResult", NEW j \in 1..(n - 1)
  PROVE  ~Follows(s, j, n)
  <1>1. n \in (j + 1)..n
    OBVIOUS
  <1> QED BY <1>1 DEF Follows

LEMMA FlushedIs ==
  ASSUME NEW acc \in Acc, NEW s, NEW n, Tracks(acc, s, n), NEW f, f = InsertSynthetic(acc)
  PROVE  /\ f \in Acc /\ f.out \in Seq(Message) /\ f.pendingToolCalls = <<>>
         /\ f.existingToolResultIds = {} /\ Half(f.out, <<>>, {})
  BY InsertType, InsertMakesWhole DEF Tracks, Acc

LEMMA TracksReply ==
  ASSUME NEW s \in Seq(Message), ResultsFit(s), NEW n \in 1..Len(s), NEW acc \in Acc,
         Tracks(acc, s, n - 1), s[n].role = "assistant"
  PROVE  Tracks(AddMessage(acc, s[n]), s, n)
  <1> DEFINE f == InsertSynthetic(acc)
             m == s[n]
  <1>1. /\ f \in Acc /\ f.out \in Seq(Message) /\ f.pendingToolCalls = <<>>
        /\ f.existingToolResultIds = {} /\ Half(f.out, <<>>, {})
    BY FlushedIs
  <1>2. m \in Message /\ n \in Nat \ {0} /\ n \in DOMAIN s
    OBVIOUS
  <1>3. m \in Reply
    BY <1>2 DEF Message, UserMessage, Result
  <1>4. \A j \in 1..(n - 1) : ~Follows(s, j, n)
    BY <1>2, OtherEndsResults
  <1>5. AddMessage(acc, m) = IF Skipped(m) THEN f
          ELSE [f EXCEPT !.out = Append(@, m), !.pendingToolCalls = m.calls]
    BY DEF AddMessage
  <1>6. CASE Skipped(m)
    <2>1. \A j \in 1..n : ~(Kept(s[j]) /\ Follows(s, j, n))
      <3>1. \A j \in 1..n : j = n \/ j \in 1..(n - 1)
        BY <1>2
      <3> QED BY <1>4, <1>6, <3>1 DEF Kept
    <2>2. AddMessage(acc, s[n]) = f
      BY <1>5, <1>6
    <2> HIDE DEF f, m
    <2> QED BY <1>1, <2>1, <2>2 DEF Tracks
  <1>7. CASE ~Skipped(m)
    <2>1. Kept(m) /\ DistinctIds(m)
      BY <1>2, <1>7 DEF Kept, ResultsFit
    <2>2. Half(Append(f.out, m), m.calls, {})
      <3> HIDE DEF f, m
      <3>1. m.role = "assistant"
        BY DEF m
      <3> QED BY <1>1, <1>2, <2>1, <3>1, HalfWithOther
    <2> DEFINE g == AddMessage(acc, m)
    <2>3. /\ g.out = Append(f.out, m) /\ g.pendingToolCalls = m.calls
          /\ g.existingToolResultIds = {}
      <3> HIDE DEF f, m
      <3>1. g = [f EXCEPT !.out = Append(@, m), !.pendingToolCalls = m.calls]
        BY <1>5, <1>7
      <3> HIDE DEF g
      <3> QED BY <1>1, <3>1 DEF Acc
    <2>4. Follows(s, n, n) /\ { s[k].call : k \in (n + 1)..n } = {}
      <3>1. (n + 1)..n = {}
        BY <1>2
      <3> QED BY <3>1 DEF Follows
    <2>5. \A j \in 1..n : Follows(s, j, n) => j = n
      <3>1. \A j \in 1..n : j = n \/ j \in 1..(n - 1)
        BY <1>2
      <3> QED BY <1>4, <3>1
    <2>6. n \in 1..n
      BY <1>2
    <2> HIDE DEF g, f
    <2> QED BY <2>1, <2>2, <2>3, <2>4, <2>5, <2>6 DEF Tracks, g
  <1> QED BY <1>6, <1>7

LEMMA TracksUser ==
  ASSUME NEW s \in Seq(Message), NEW n \in 1..Len(s), NEW acc \in Acc,
         Tracks(acc, s, n - 1), s[n].role = "user"
  PROVE  Tracks(AddMessage(acc, s[n]), s, n)
  <1> DEFINE f == InsertSynthetic(acc)
             m == s[n]
             g == AddMessage(acc, m)
  <1>1. /\ f \in Acc /\ f.out \in Seq(Message) /\ f.pendingToolCalls = <<>>
        /\ f.existingToolResultIds = {} /\ Half(f.out, <<>>, {})
    BY FlushedIs
  <1>2. m \in Message /\ m.role = "user" /\ n \in Nat \ {0}
    OBVIOUS
  <1>3. g = [f EXCEPT !.out = Append(@, m)]
    BY DEF AddMessage
  <1>4. \A j \in 1..n : ~(Kept(s[j]) /\ Follows(s, j, n))
    <2>1. \A j \in 1..(n - 1) : ~Follows(s, j, n)
      BY <1>2, OtherEndsResults
    <2>2. \A j \in 1..n : j = n \/ j \in 1..(n - 1)
      BY <1>2
    <2> QED BY <1>2, <2>1, <2>2 DEF Kept
  <1> HIDE DEF f, m, g
  <1>5. Half(Append(f.out, m), <<>>, {})
    BY <1>1, <1>2, HalfWithOther
  <1>6. /\ g.out = Append(f.out, m) /\ g.pendingToolCalls = <<>>
        /\ g.existingToolResultIds = {}
    BY <1>1, <1>3 DEF Acc
  <1>7. Tracks(g, s, n)
    BY <1>4, <1>5, <1>6 DEF Tracks
  <1> QED BY <1>7 DEF g, m

LEMMA TracksResult ==
  ASSUME NEW s \in Seq(Message), ResultsFit(s), NEW n \in 1..Len(s), NEW acc \in Acc,
         Tracks(acc, s, n - 1), s[n].role = "toolResult"
  PROVE  Tracks(AddMessage(acc, s[n]), s, n)
  <1> DEFINE m == s[n]
             g == AddMessage(acc, m)
             pend == acc.pendingToolCalls
             ids == acc.existingToolResultIds
  <1>1. m \in Message /\ m.role = "toolResult" /\ n \in Nat \ {0} /\ n \in DOMAIN s
    OBVIOUS
  <1>2. g = [acc EXCEPT !.out = Append(@, m), !.existingToolResultIds = @ \cup {m.call}]
    BY DEF AddMessage
  <1>3. g.out = Append(acc.out, m) /\ g.pendingToolCalls = pend
        /\ g.existingToolResultIds = ids \cup {m.call}
    <2> HIDE DEF g, m
    <2> QED BY <1>2 DEF Acc
  <1>4. PICK j \in 1..(n - 1) : IsResultOf(s, j, n)
    BY <1>1 DEF ResultsFit
  <1>5. \A l \in 1..(n - 1) : Follows(s, l, n) => Follows(s, l, n - 1)
    <2>1. \A l \in 1..(n - 1) : (l + 1)..(n - 1) \subseteq (l + 1)..n
      BY <1>1
    <2> QED BY <2>1 DEF Follows
  <1>6. /\ Kept(s[j]) /\ Follows(s, j, n) /\ pend = s[j].calls
        /\ ids = { s[k].call : k \in (j + 1)..(n - 1) }
    BY <1>4, <1>5 DEF IsResultOf, Tracks
  <1>7. PICK c \in DOMAIN pend : m.call = pend[c].id
    BY <1>4, <1>6 DEF IsResultOf, CallIds
  <1>8. m.call \notin ids
    BY <1>4, <1>6 DEF IsResultOf
  <1>9. Half(g.out, pend, ids \cup {m.call})
    <2>1. acc.out \in Seq(Message) /\ pend \in Seq(Call) /\ Half(acc.out, pend, ids)
      BY DEF Acc, Tracks
    <2> HIDE DEF m, g, pend, ids
    <2>2. Half(Append(acc.out, m), pend, ids \cup {m.call})
      BY <1>1, <1>7, <1>8, <2>1, HalfWithResult
    <2> QED BY <1>3, <2>2
  <1>10. ASSUME NEW l \in 1..n, Kept(s[l]), Follows(s, l, n)
         PROVE  pend = s[l].calls /\ ids \cup {m.call} = { s[k].call : k \in (l + 1)..n }
    <2>1. l # n
      BY <1>1, <1>10 DEF Kept
    <2>2. l \in 1..(n - 1)
      BY <1>1, <2>1
    <2>3. pend = s[l].calls /\ ids = { s[k].call : k \in (l + 1)..(n - 1) }
      BY <1>5, <1>10, <2>2 DEF Tracks
    <2>4. (l + 1)..n = ((l + 1)..(n - 1)) \cup {n}
      BY <1>1, <2>2
    <2>5. { s[k].call : k \in (l + 1)..n }
            = { s[k].call : k \in (l + 1)..(n - 1) } \cup {s[n].call}
      BY <2>4
    <2> QED BY <2>3, <2>5
  <1>11. j \in 1..n
    BY <1>1
  <1> HIDE DEF m, g, pend, ids
  <1>12. Tracks(g, s, n)
    BY <1>3, <1>6, <1>9, <1>10, <1>11 DEF Tracks
  <1> QED BY <1>12 DEF g, m

\* transformMessages() makes of a transcript a request that a provider accepts, whatever
\* calls of earlier replies were left without a result.
THEOREM TransformIsWellFormed ==
  ASSUME NEW s \in Seq(Message), ResultsFit(s), LastAnswered(s)
  PROVE  WellFormed(Transform(s))
  <1> DEFINE top == Len(s)
  <1>1. top \in Nat /\ DOMAIN s = 1..top
    OBVIOUS
  <1>2. PICK h \in [0..top -> Acc] :
          /\ h[0] = NothingPending
          /\ \A n \in 1..top : h[n] = AddMessage(h[n - 1], s[n])
          /\ Transform(s) = h[top].out
    BY TransformSteps
  <1> DEFINE N == { n \in 0..top : Tracks(h[n], s, n) }
  <1>3. 0 \in N
    BY <1>1, <1>2, TracksNothing
  <1>4. ASSUME NEW n \in 1..top, n - 1 \in N
        PROVE  n \in N
    <2>1. n \in 0..top /\ n - 1 \in 0..top /\ h[n - 1] \in Acc /\ Tracks(h[n - 1], s, n - 1)
      BY <1>1, <1>2, <1>4
    <2>2. s[n].role \in {"assistant", "user", "toolResult"}
      <3>1. s[n] \in Message
        BY <1>1
      <3> QED BY <3>1 DEF Message, UserMessage, Reply, Result
    <2>3. Tracks(AddMessage(h[n - 1], s[n]), s, n)
      <3>1. n \in 1..Len(s)
        OBVIOUS
      <3> HIDE DEF top
      <3> QED BY <2>1, <2>2, <3>1, TracksReply, TracksUser, TracksResult
    <2> HIDE DEF top
    <2> QED BY <1>2, <2>1, <2>3
  <1>5. top \in N
    <2>1. \A n \in 0..top : n \in N
      <3> HIDE DEF N, top
      <3> QED BY <1>1, <1>3, <1>4, Steps
    <2> HIDE DEF N
    <2> QED BY <1>1, <2>1
  <1>6. h[top] \in Acc /\ Tracks(h[top], s, top)
    BY <1>1, <1>2, <1>5
  <1> DEFINE out == h[top].out
             pend == h[top].pendingToolCalls
             ids == h[top].existingToolResultIds
  <1>7. out \in Seq(Message) /\ pend \in Seq(Call) /\ Half(out, pend, ids)
    <2> HIDE DEF top
    <2> QED BY <1>6 DEF Acc, Tracks
  <1>8. \A c \in DOMAIN pend : pend[c].id \in ids
    <2>1. CASE pend = <<>>
      <3>1. DOMAIN pend = {}
        BY <2>1
      <3> QED BY <3>1
    <2>2. CASE pend # <<>>
      <3>1. PICK j \in 1..top : Kept(s[j]) /\ Follows(s, j, top)
        <4> HIDE DEF top
        <4> QED BY <1>6, <2>2 DEF Tracks
      <3>2. pend = s[j].calls /\ ids = { s[k].call : k \in (j + 1)..top }
        <4> HIDE DEF top
        <4> QED BY <1>6, <3>1 DEF Tracks
      <3>3. AnsweredAt(s, j)
        BY <1>1, <3>1 DEF LastAnswered
      <3>4. ASSUME NEW c \in DOMAIN pend PROVE pend[c].id \in ids
        <4>1. pend[c].id \in CallIds(s[j])
          <5> HIDE DEF pend
          <5> QED BY <3>2 DEF CallIds
        <4>2. PICK i \in (j + 1)..top : s[i].call = pend[c].id
          BY <3>3, <4>1 DEF AnsweredAt
        <4> HIDE DEF pend, ids
        <4> QED BY <3>2, <4>2
      <3> QED BY <3>4
    <2> QED BY <2>1, <2>2
  <1>9. \A j \in DOMAIN out : out[j].role = "assistant" => AnsweredAt(out, j)
    <2> HIDE DEF out, pend, ids
    <2> QED BY <1>7, <1>8, HalfIsWhole
  <1>10. ResultsFit(out)
    BY <1>7 DEF Half
  <1>11. WellFormed(out)
    <2> HIDE DEF out
    <2> QED BY <1>7, <1>9, <1>10, FitIsWellFormed
  <1> QED BY <1>2, <1>11

(***************************************************************************)
(* What the loop shows the model.  The loop's list and the transcript are  *)
(* two lists of messages, and what one step appends to either keeps it     *)
(* whole: every call of a reply that is kept has its result, but for those *)
(* of the reply in hand while tools are running.                           *)
(***************************************************************************)
AllAnswered(s) == \A j \in DOMAIN s : Kept(s[j]) => AnsweredAt(s, j)

AnsweredBelow(s, n) == \A j \in 1..(n - 1) : Kept(s[j]) => AnsweredAt(s, j)

\* Between two replies, with a reply in hand, and with some of its results.
Settled(s) == ResultsFit(s) /\ AllAnswered(s)

Replied(s, reply) ==
  IF HasCalls(reply)
  THEN /\ ResultsFit(s) /\ s # <<>> /\ s[Len(s)] = reply
       /\ AnsweredBelow(s, Len(s))
  ELSE Settled(s)

Answering(s, reply, res) ==
  /\ ResultsFit(s)
  /\ \E n \in 1..Len(s) :
       /\ s[n] = reply /\ Len(s) = n + Len(res)
       /\ \A k \in 1..Len(res) : s[n + k] = res[k]
       /\ AnsweredBelow(s, n)

Whole(s) ==
  /\ pc \notin {"decide", "tools"} => Settled(s)
  /\ pc = "decide" => Replied(s, Last(context))
  /\ pc = "tools" => Answering(s, Last(context), ToolResults)

\* The list the loop works on.
LoopList == IF pc = "tools" THEN context \o ToolResults ELSE context

\* A reply with calls that leaves the transcript spoils the transcript at once, and
\* the context of the runs that start from it.
RepliesAnswered ==
  /\ orphans = "none" => Whole(transcript)
  /\ orphans # "context" => Whole(LoopList)

\* Calls that are prepared and have ended.
Ended == (1..(next - 1)) \ runnable

ResultsAreIn ==
  pc = "tools" =>
    /\ Kept(Last(context)) /\ calls # <<>>
    /\ \A r \in DOMAIN results : \E c \in Ended : results[r].call = calls[c]
    /\ \A c \in Ended : \E r \in DOMAIN results : results[r].call = calls[c]

LEMMA NextResultsAreIn == IInv /\ ResultsAreIn /\ [Next]_vars => ResultsAreIn'
  <1> SUFFICES ASSUME IInv, ResultsAreIn, [Next]_vars PROVE ResultsAreIn'
    OBVIOUS
  <1> USE DEF queues, toolVars, history, breaks
  <1>1. ASSUME UNCHANGED <<pc, context, results, runnable, next>> PROVE ResultsAreIn'
    BY <1>1 DEF ResultsAreIn, Ended, calls
  <1>2. ASSUME pc' # "tools" PROVE ResultsAreIn'
    BY <1>2 DEF ResultsAreIn
  <1>3. CASE BeginTools
    <2>1. runnable = {} /\ runnable' = {} /\ next' = 1 /\ results' = <<>> /\ UNCHANGED context
          /\ stop \in {"stop", "length"} /\ pc = "decide"
      BY <1>3 DEF BeginTools, Deciding, IInv, ToolsInTurn
    <2>2. Kept(Last(context)) /\ calls # <<>> /\ calls' # <<>>
      <3>1. Last(context) \in Reply
        BY <2>1 DEF IInv, TInv, ReplyInHand
      <3>2. calls # <<>> /\ calls' = calls
        BY <1>3, <2>1 DEF BeginTools, calls
      <3> QED BY <2>1, <3>1, <3>2 DEF Kept, Skipped, stop, Reply
    <2>3. Ended' = {} /\ DOMAIN results' = {}
      BY <2>1 DEF Ended
    <2> QED BY <2>1, <2>2, <2>3 DEF ResultsAreIn
  <1>4. CASE PrepareCall
    <2>1. pc = "tools" /\ runnable' = runnable \cup {next} /\ next' = next + 1
          /\ UNCHANGED <<pc, context, results>> /\ next \in Nat \ {0}
      BY <1>4 DEF PrepareCall, CanPrepare, IInv, TInv, TypeOK
    <2>2. Ended' = Ended
      BY <2>1 DEF Ended
    <2> QED BY <2>1, <2>2 DEF ResultsAreIn, calls
  <1>5. ASSUME pc = "tools", UNCHANGED <<pc, context>>,
               NEW i \in 1..Len(calls), NEW err \in BOOLEAN, Outcome(i, err),
               Ended' = Ended \cup {i}
        PROVE  ResultsAreIn'
    <2> DEFINE r == [call |-> calls[i], err |-> err]
    <2>1. results \in Seq(OutcomeRecord) /\ r \in OutcomeRecord
      BY <1>5, CallsInHand DEF IInv, TInv, TypeOK, OutcomeRecord
    <2>2. results' = Append(results, r) /\ r.call = calls[i] /\ calls' = calls
      BY <1>5 DEF Outcome, calls
    <2> HIDE DEF r
    <2>3. /\ Len(results) \in Nat /\ DOMAIN results = 1..Len(results)
          /\ DOMAIN results' = 1..(Len(results) + 1)
          /\ \A k \in 1..Len(results) : results'[k] = results[k]
          /\ results'[Len(results) + 1] = r
      BY <2>1, <2>2
    <2>4. ASSUME NEW k \in DOMAIN results' PROVE \E c \in Ended' : results'[k].call = calls[c]
      <3>1. CASE k \in DOMAIN results
        BY <1>5, <2>3, <3>1 DEF ResultsAreIn
      <3>2. CASE k = Len(results) + 1
        BY <1>5, <2>2, <2>3, <3>2
      <3> QED BY <2>3, <3>1, <3>2
    <2>5. ASSUME NEW c \in Ended' PROVE \E k \in DOMAIN results' : results'[k].call = calls[c]
      <3>1. CASE c \in Ended
        <4>1. PICK k \in DOMAIN results : results[k].call = calls[c]
          BY <1>5, <3>1 DEF ResultsAreIn
        <4>2. k \in DOMAIN results' /\ results'[k] = results[k]
          BY <2>3
        <4> QED BY <4>1, <4>2
      <3>2. CASE c = i
        <4>1. Len(results) + 1 \in DOMAIN results'
          BY <2>3
        <4> QED BY <2>2, <2>3, <3>2, <4>1
      <3> QED BY <1>5, <3>1, <3>2
    <2>6. Kept(Last(context')) /\ calls' # <<>>
      BY <1>5, <2>2 DEF ResultsAreIn
    <2> QED BY <2>2, <2>4, <2>5, <2>6 DEF ResultsAreIn
  <1>6. CASE RefuseCall
    <2>1. /\ pc = "tools" /\ UNCHANGED <<pc, context, runnable>> /\ next' = next + 1
          /\ Outcome(next, TRUE) /\ next \in Nat \ {0} /\ next <= Len(calls)
      BY <1>6 DEF RefuseCall, CanPrepare, IInv, TInv, TypeOK
    <2>2. runnable \subseteq 1..(next - 1) /\ Len(calls) \in Nat
      BY <2>1, CallsInHand DEF IInv, ToolsInTurn
    <2>3. Ended' = Ended \cup {next} /\ next \in 1..Len(calls)
      BY <2>1, <2>2 DEF Ended
    <2> QED BY <1>5, <2>1, <2>3
  <1>7. CASE FinalizeCall
    <2>1. PICK i \in runnable : Outcome(i, i \in failed) /\ runnable' = runnable \ {i}
      BY <1>7 DEF FinalizeCall
    <2>2. pc = "tools" /\ UNCHANGED <<pc, context, next>>
      BY <1>7 DEF FinalizeCall
    <2>3. runnable \subseteq 1..(next - 1) /\ Len(calls) \in Nat /\ next \in Nat
          /\ next <= Len(calls) + 1
      BY <2>2, CallsInHand DEF IInv, TInv, TypeOK, ToolsInTurn
    <2>4. Ended' = Ended \cup {i} /\ i \in 1..Len(calls) /\ (i \in failed) \in BOOLEAN
      BY <2>1, <2>2, <2>3 DEF Ended
    <2> DEFINE err == i \in failed
    <2>5. Outcome(i, err) /\ err \in BOOLEAN
      BY <2>1
    <2> HIDE DEF err
    <2> QED BY <1>5, <2>2, <2>4, <2>5
  <1>8. CASE UserCall \/ Tick \/ Tools
    <2>1. pc' # "tools" \/ UNCHANGED <<pc, context, results, runnable, next>>
      BY <1>8 DEF UserCall, Steer, FollowUp, ClearQueues, Abort, Prompt, Continue, StartRun,
         DropLastReply, Tick, Tools, ToolReturns
    <2> QED BY <1>1, <1>2, <2>1
  <1>9. CASE \/ EmitPrompt \/ BeginLoop \/ StartTurn \/ InjectMessage \/ GateShut \/ Request
             \/ RequestThrows \/ StreamReply \/ FinalReply \/ TextReply
    BY <1>2, <1>9 DEF EmitPrompt, BeginLoop, StartTurn, InjectMessage, GateShut, GateOpen, Request,
       RequestThrows, StreamReply, FinalReply, TextReply
  <1>10. CASE \/ UpstreamRetry \/ EmptyTurn \/ ZeroDiffTurn \/ CoverageTurn \/ CriteriaTurn
              \/ ReviewPass
    BY <1>2, <1>10 DEF UpstreamRetry, EmptyTurn, ZeroDiffTurn, CoverageTurn, CriteriaTurn,
       ReviewPass, NudgeWith
  <1>11. CASE \/ RecordResults \/ GracefulExit \/ TurnEnd \/ PollFollowUps \/ Finish \/ AgentEnd
              \/ Settle
    BY <1>2, <1>11 DEF RecordResults, GracefulExit, TurnEnd, PollFollowUps, Finish, AgentEnd, Settle
  <1>12. CASE UNCHANGED vars
    BY <1>1, <1>12 DEF vars
  <1> QED
    BY <1>3, <1>4, <1>6, <1>7, <1>8, <1>9, <1>10, <1>11, <1>12 DEF Next, Loop

LEMMA AllAnsweredWithOther ==
  ASSUME NEW s \in Seq(Message), ResultsFit(s), AllAnswered(s),
         NEW m \in Message, m.role # "toolResult", ~Kept(m), NEW t, t = Append(s, m)
  PROVE  ResultsFit(t) /\ AllAnswered(t)
  <1>1. ResultsFit(t)
    BY FitsWithOther
  <1>2. ASSUME NEW j \in DOMAIN t, Kept(t[j]) PROVE AnsweredAt(t, j)
    <2>1. /\ DOMAIN t = 1..(Len(s) + 1) /\ DOMAIN s = 1..Len(s) /\ Len(s) \in Nat
          /\ \A i \in 1..Len(s) : t[i] = s[i]
          /\ t[Len(s) + 1] = m
      BY AppendIs
    <2>2. j # Len(s) + 1
      <3>1. CASE j = Len(s) + 1
        BY <1>2, <2>1, <3>1
      <3> QED BY <3>1
    <2>3. j \in 1..Len(s) /\ Kept(s[j])
      BY <1>2, <2>1, <2>2
    <2> QED BY <2>1, <2>3, AnsweredStays DEF AllAnswered
  <1> QED BY <1>1, <1>2 DEF AllAnswered

\* What is true behind a message that is not a result was true before it.
LEMMA AllAnsweredBefore ==
  ASSUME NEW s \in Seq(Message), NEW m \in Message, m.role # "toolResult",
         NEW t, t = Append(s, m), ResultsFit(t), AllAnswered(t)
  PROVE  ResultsFit(s) /\ AllAnswered(s)
  <1>1. /\ DOMAIN t = 1..(Len(s) + 1) /\ DOMAIN s = 1..Len(s) /\ Len(s) \in Nat
        /\ Len(t) = Len(s) + 1
        /\ \A i \in 1..Len(s) : t[i] = s[i]
        /\ t[Len(s) + 1] = m
    BY AppendIs
  <1>2. ASSUME NEW i \in DOMAIN s, s[i].role = "toolResult"
        PROVE  \E j \in 1..(i - 1) : IsResultOf(s, j, i)
    <2>1. i \in DOMAIN t /\ t[i].role = "toolResult" /\ i \in 1..Len(s)
      BY <1>1, <1>2
    <2>2. PICK j \in 1..(i - 1) : IsResultOf(t, j, i)
      BY <2>1 DEF ResultsFit
    <2> QED BY <2>1, <2>2, RepliesStay
  <1>3. ASSUME NEW j \in DOMAIN s, Kept(s[j])
        PROVE  DistinctIds(s[j]) /\ AnsweredAt(s, j)
    <2>1. j \in DOMAIN t /\ t[j] = s[j] /\ Kept(t[j])
      BY <1>1, <1>3
    <2>2. DistinctIds(s[j])
      BY <2>1 DEF ResultsFit
    <2>3. ASSUME NEW id \in CallIds(s[j])
          PROVE  \E i \in (j + 1)..Len(s) : Follows(s, j, i) /\ s[i].call = id
      <3>1. PICK i \in (j + 1)..Len(t) : Follows(t, j, i) /\ t[i].call = id
        BY <2>1, <2>3 DEF AllAnswered, AnsweredAt
      <3>2. t[i].role = "toolResult" /\ i # Len(s) + 1
        <4>1. i \in (j + 1)..i /\ j \in Nat
          BY <1>1
        <4>2. t[i].role = "toolResult"
          BY <3>1, <4>1 DEF Follows
        <4>3. CASE i = Len(s) + 1
          BY <1>1, <4>2, <4>3
        <4> QED BY <4>2, <4>3
      <3>3. i \in (j + 1)..Len(s) /\ \A k \in (j + 1)..i : t[k] = s[k]
        BY <1>1, <3>2
      <3>4. Follows(s, j, i) /\ s[i].call = id
        BY <3>1, <3>3 DEF Follows
      <3> QED BY <3>3, <3>4
    <2> QED BY <2>2, <2>3 DEF AnsweredAt
  <1> QED BY <1>2, <1>3 DEF ResultsFit, AllAnswered

LEMMA ConcatIs ==
  ASSUME NEW s \in Seq(Message), NEW u \in Seq(Message), NEW t, t = s \o u
  PROVE  /\ t \in Seq(Message) /\ Len(s) \in Nat /\ Len(u) \in Nat
         /\ Len(t) = Len(s) + Len(u)
         /\ DOMAIN s = 1..Len(s) /\ DOMAIN u = 1..Len(u) /\ DOMAIN t = 1..(Len(s) + Len(u))
         /\ \A i \in 1..Len(s) : t[i] = s[i]
         /\ \A i \in 1..Len(u) : t[Len(s) + i] = u[i]
  OBVIOUS

LEMMA AnsweredStaysBehind ==
  ASSUME NEW s \in Seq(Message), NEW u \in Seq(Message), NEW t, t = s \o u,
         NEW j \in 1..Len(s), AnsweredAt(s, j)
  PROVE  AnsweredAt(t, j)
  <1>1. /\ Len(s) \in Nat /\ Len(u) \in Nat /\ Len(t) = Len(s) + Len(u)
        /\ \A i \in 1..Len(s) : t[i] = s[i]
    BY ConcatIs
  <1>2. ASSUME NEW id \in CallIds(t[j])
        PROVE  \E i \in (j + 1)..Len(t) : Follows(t, j, i) /\ t[i].call = id
    <2>1. id \in CallIds(s[j])
      BY <1>1, <1>2
    <2>2. PICK i \in (j + 1)..Len(s) : Follows(s, j, i) /\ s[i].call = id
      BY <2>1 DEF AnsweredAt
    <2>3. Follows(t, j, i) /\ t[i].call = id /\ i \in (j + 1)..Len(t)
      BY <1>1, <2>2 DEF Follows
    <2> QED BY <2>3
  <1> QED BY <1>2 DEF AnsweredAt

\* The user's messages come behind a list that is settled.
LEMMA SettledWithUsers ==
  ASSUME NEW s \in Seq(Message), Settled(s), NEW u \in Seq(UserMessage), NEW t, t = s \o u
  PROVE  Settled(t)
  <1>1. u \in Seq(Message)
    BY UserSeqIsMessageSeq
  <1>2. /\ Len(s) \in Nat /\ Len(u) \in Nat /\ Len(t) = Len(s) + Len(u)
        /\ DOMAIN s = 1..Len(s) /\ DOMAIN t = 1..(Len(s) + Len(u))
        /\ \A i \in 1..Len(s) : t[i] = s[i]
        /\ \A i \in 1..Len(u) : t[Len(s) + i] = u[i]
    BY <1>1, ConcatIs
  <1>3. ASSUME NEW i \in DOMAIN t, i \notin 1..Len(s) PROVE t[i].role = "user"
    <2>1. i - Len(s) \in 1..Len(u) /\ i = Len(s) + (i - Len(s))
      BY <1>2, <1>3
    <2>2. u[i - Len(s)] \in UserMessage
      BY <2>1
    <2>3. t[i] = u[i - Len(s)]
      BY <1>2, <2>1
    <2> QED BY <2>2, <2>3 DEF UserMessage
  <1>4. ASSUME NEW i \in DOMAIN t, t[i].role = "toolResult"
        PROVE  \E j \in 1..(i - 1) : IsResultOf(t, j, i)
    <2>1. i \in 1..Len(s)
      BY <1>3, <1>4
    <2>2. PICK j \in 1..(i - 1) : IsResultOf(s, j, i)
      BY <1>2, <1>4, <2>1 DEF Settled, ResultsFit
    <2>3. /\ t[j] = s[j] /\ t[i] = s[i]
          /\ \A k \in (j + 1)..i : t[k] = s[k]
          /\ (j + 1)..(i - 1) \subseteq (j + 1)..i
      BY <1>2, <2>1
    <2>4. Follows(t, j, i)
      BY <2>2, <2>3 DEF IsResultOf, Follows
    <2>5. IsResultOf(t, j, i)
      BY <2>2, <2>3, <2>4 DEF IsResultOf
    <2> QED BY <2>5
  <1>5. ASSUME NEW j \in DOMAIN t, Kept(t[j])
        PROVE  DistinctIds(t[j]) /\ AnsweredAt(t, j)
    <2>1. j \in 1..Len(s)
      BY <1>3, <1>5 DEF Kept
    <2>2. j \in DOMAIN s /\ t[j] = s[j] /\ Kept(s[j])
      BY <1>2, <1>5, <2>1
    <2>3. DistinctIds(t[j]) /\ AnsweredAt(s, j)
      BY <2>2 DEF Settled, ResultsFit, AllAnswered
    <2>4. AnsweredAt(t, j)
      BY <1>1, <2>1, <2>3, AnsweredStaysBehind
    <2> QED BY <2>3, <2>4
  <1> QED BY <1>4, <1>5 DEF Settled, ResultsFit, AllAnswered

\* A reply without calls, or one that will be skipped, needs no answer.
LEMMA NoCallsAnswered ==
  ASSUME NEW s, NEW j, s[j] \in Reply, ~HasCalls(s[j]), Kept(s[j])
  PROVE  AnsweredAt(s, j)
  <1>1. s[j].calls = <<>>
    BY DEF HasCalls, Kept
  <1>2. DOMAIN s[j].calls = {}
    BY <1>1
  <1> QED BY <1>2 DEF AnsweredAt, CallIds

\* A reply comes last.
LEMMA SettledThenReplied ==
  ASSUME NEW s \in Seq(Message), Settled(s), NEW m \in Reply, DistinctIds(m),
         NEW t, t = Append(s, m)
  PROVE  Replied(t, m)
  <1>1. m \in Message /\ m.role = "assistant"
    BY DEF Reply, Message
  <1>2. ResultsFit(t)
    BY <1>1, FitsWithOther DEF Settled
  <1>3. /\ t \in Seq(Message) /\ Len(s) \in Nat /\ Len(t) = Len(s) + 1
        /\ DOMAIN s = 1..Len(s) /\ DOMAIN t = 1..(Len(s) + 1)
        /\ \A i \in 1..Len(s) : t[i] = s[i]
        /\ t[Len(s) + 1] = m
    BY <1>1, AppendIs
  <1>4. ASSUME NEW j \in 1..Len(s), Kept(t[j]) PROVE AnsweredAt(t, j)
    <2>1. Kept(s[j]) /\ j \in DOMAIN s
      BY <1>3, <1>4
    <2>2. AnsweredAt(s, j)
      BY <2>1 DEF Settled, AllAnswered
    <2> QED BY <1>1, <2>2, AnsweredStays
  <1>5. CASE HasCalls(m)
    <2>1. t # <<>> /\ t[Len(t)] = m
      BY <1>3
    <2>2. AnsweredBelow(t, Len(t))
      BY <1>3, <1>4 DEF AnsweredBelow
    <2> QED BY <1>2, <1>5, <2>1, <2>2 DEF Replied
  <1>6. CASE ~HasCalls(m)
    <2>1. ASSUME NEW j \in DOMAIN t, Kept(t[j]) PROVE AnsweredAt(t, j)
      <3>1. CASE j \in 1..Len(s)
        BY <1>4, <2>1, <3>1
      <3>2. CASE j = Len(s) + 1
        BY <1>3, <1>6, <2>1, <3>2, NoCallsAnswered
      <3> QED BY <1>3, <3>1, <3>2
    <2> QED BY <1>2, <1>6, <2>1 DEF Replied, Settled, AllAnswered
  <1> QED BY <1>5, <1>6

\* The loop begins to answer its calls.
LEMMA RepliedThenAnswering ==
  ASSUME NEW s \in Seq(Message), NEW m, HasCalls(m), Replied(s, m), NEW res, res = <<>>
  PROVE  Answering(s, m, res)
  <1>1. ResultsFit(s) /\ s # <<>> /\ s[Len(s)] = m /\ AnsweredBelow(s, Len(s))
    BY DEF Replied
  <1>2. Len(s) \in 1..Len(s) /\ Len(s) = Len(s) + Len(res)
    BY <1>1
  <1>3. \A k \in 1..Len(res) : s[Len(s) + k] = res[k]
    OBVIOUS
  <1>4. \E n \in 1..Len(s) : /\ s[n] = m /\ Len(s) = n + Len(res)
                             /\ \A k \in 1..Len(res) : s[n + k] = res[k]
                             /\ AnsweredBelow(s, n)
    BY <1>1, <1>2, <1>3, Zenon
  <1> QED BY <1>1, <1>4 DEF Answering

\* A result comes behind the others.
LEMMA AnsweringMore ==
  ASSUME NEW s \in Seq(Message), NEW reply, Kept(reply), NEW res \in Seq(Message),
         \A k \in 1..Len(res) : res[k].role = "toolResult",
         Answering(s, reply, res),
         NEW m \in Message, m.role = "toolResult", m.call \in CallIds(reply),
         DistinctIds(reply) => \A k \in 1..Len(res) : res[k].call # m.call,
         NEW t, t = Append(s, m), NEW more, more = Append(res, m)
  PROVE  Answering(t, reply, more)
  <1>1. PICK n \in 1..Len(s) :
          /\ s[n] = reply /\ Len(s) = n + Len(res)
          /\ \A k \in 1..Len(res) : s[n + k] = res[k]
          /\ AnsweredBelow(s, n)
    BY DEF Answering
  <1>2. /\ t \in Seq(Message) /\ Len(s) \in Nat /\ Len(t) = Len(s) + 1
        /\ DOMAIN s = 1..Len(s) /\ DOMAIN t = 1..(Len(s) + 1)
        /\ \A i \in 1..Len(s) : t[i] = s[i]
        /\ t[Len(s) + 1] = m
    BY AppendIs
  <1>3. /\ Len(res) \in Nat /\ Len(more) = Len(res) + 1
        /\ \A i \in 1..Len(res) : more[i] = res[i]
        /\ more[Len(res) + 1] = m
    BY AppendIs
  <1>4. DistinctIds(reply)
    <2>1. n \in DOMAIN s
      BY <1>2
    <2> QED BY <1>1, <2>1 DEF Answering, ResultsFit
  <1>5. ASSUME NEW k \in (n + 1)..Len(s)
        PROVE  s[k].role = "toolResult" /\ s[k].call # m.call
    <2>1. k - n \in 1..Len(res) /\ k = n + (k - n)
      BY <1>1, <1>2, <1>3
    <2>2. s[k] = res[k - n]
      BY <1>1, <2>1
    <2> QED BY <1>4, <2>1, <2>2
  <1>6. Follows(s, n, Len(s))
    BY <1>5 DEF Follows
  <1>7. ResultsFit(s)
    BY DEF Answering
  <1>8. ResultsFit(t)
    BY <1>1, <1>5, <1>6, <1>7, FitsWithResult
  <1>9. n \in 1..Len(t) /\ t[n] = reply /\ Len(t) = n + Len(more)
    BY <1>1, <1>2, <1>3
  <1>10. ASSUME NEW k \in 1..Len(more) PROVE t[n + k] = more[k]
    <2>1. CASE k \in 1..Len(res)
      BY <1>1, <1>2, <1>3, <2>1
    <2>2. CASE k = Len(res) + 1
      BY <1>1, <1>2, <1>3, <2>2
    <2>3. k \in 1..Len(res) \/ k = Len(res) + 1
      BY <1>3
    <2> QED BY <2>1, <2>2, <2>3
  <1>11. ASSUME NEW j \in 1..(n - 1), Kept(t[j]) PROVE AnsweredAt(t, j)
    <2>1. j \in 1..Len(s) /\ t[j] = s[j]
      BY <1>2
    <2>2. AnsweredAt(s, j)
      BY <1>1, <1>11, <2>1 DEF AnsweredBelow
    <2> QED BY <2>1, <2>2, AnsweredStays
  <1>12. AnsweredBelow(t, n)
    BY <1>11 DEF AnsweredBelow
  <1> QED BY <1>8, <1>9, <1>10, <1>12 DEF Answering

\* When every call has its result, the list is settled.
LEMMA AnsweringEnds ==
  ASSUME NEW s \in Seq(Message), NEW reply, NEW res \in Seq(Message),
         \A k \in 1..Len(res) : res[k].role = "toolResult",
         Answering(s, reply, res),
         \A id \in CallIds(reply) : \E k \in 1..Len(res) : res[k].call = id
  PROVE  Settled(s)
  <1>1. PICK n \in 1..Len(s) :
          /\ s[n] = reply /\ Len(s) = n + Len(res)
          /\ \A k \in 1..Len(res) : s[n + k] = res[k]
          /\ AnsweredBelow(s, n)
    BY DEF Answering
  <1>2. Len(s) \in Nat /\ DOMAIN s = 1..Len(s) /\ Len(res) \in Nat
    OBVIOUS
  <1>3. ASSUME NEW k \in (n + 1)..Len(s) PROVE s[k].role = "toolResult"
    <2>1. k - n \in 1..Len(res) /\ k = n + (k - n)
      BY <1>1, <1>2
    <2>2. s[k] = res[k - n]
      BY <1>1, <2>1
    <2> QED BY <2>1, <2>2
  <1>4. AnsweredAt(s, n)
    <2>1. ASSUME NEW id \in CallIds(s[n])
          PROVE  \E i \in (n + 1)..Len(s) : Follows(s, n, i) /\ s[i].call = id
      <3>1. PICK k \in 1..Len(res) : res[k].call = id
        BY <1>1, <2>1
      <3>2. n + k \in (n + 1)..Len(s) /\ s[n + k].call = id
        BY <1>1, <1>2, <3>1
      <3>3. (n + 1)..(n + k) \subseteq (n + 1)..Len(s)
        BY <1>1, <1>2, <3>2
      <3>4. Follows(s, n, n + k)
        BY <1>3, <3>3 DEF Follows
      <3> QED BY <3>2, <3>4
    <2> QED BY <2>1 DEF AnsweredAt
  <1>5. ASSUME NEW j \in DOMAIN s, Kept(s[j]) PROVE AnsweredAt(s, j)
    <2>1. CASE j \in 1..(n - 1)
      BY <1>1, <1>5, <2>1 DEF AnsweredBelow
    <2>2. CASE j = n
      BY <1>4, <2>2
    <2>3. CASE j \in (n + 1)..Len(s)
      BY <1>3, <1>5, <2>3 DEF Kept
    <2> QED BY <1>2, <2>1, <2>2, <2>3
  <1> QED BY <1>5 DEF Settled, Answering, AllAnswered

\* The results in hand, as messages.
LEMMA ResultsInHand ==
  ASSUME IInv, ResultsAreIn, pc = "tools"
  PROVE  /\ ToolResults \in Seq(Message) /\ Len(ToolResults) = Len(results)
         /\ DOMAIN results = 1..Len(results) /\ Len(results) \in Nat
         /\ \A k \in 1..Len(results) : /\ ToolResults[k].role = "toolResult"
                                       /\ ToolResults[k].call = results[k].call.id
         /\ HasCalls(Last(context)) /\ Last(context) \in Reply
         /\ CallIds(Last(context)) = { calls[c].id : c \in 1..Len(calls) }
  <1>1. /\ ToolResults \in Seq(Message) /\ Len(ToolResults) = Len(results)
        /\ \A k \in DOMAIN results : ToolResults[k] = ResultMessage(results[k])
    BY ToolResultsType DEF IInv
  <1>2. results \in Seq(OutcomeRecord)
    BY DEF IInv, TInv, TypeOK
  <1>3. DOMAIN results = 1..Len(results) /\ Len(results) \in Nat
    BY <1>2
  <1>4. \A k \in 1..Len(results) : /\ ToolResults[k].role = "toolResult"
                                   /\ ToolResults[k].call = results[k].call.id
    <2> SUFFICES ASSUME NEW k \in 1..Len(results)
                 PROVE  /\ ToolResults[k].role = "toolResult"
                        /\ ToolResults[k].call = results[k].call.id
      OBVIOUS
    <2>1. ToolResults[k] = ResultMessage(results[k])
      BY <1>1, <1>3
    <2> QED BY <2>1 DEF ResultMessage
  <1>5. HasCalls(Last(context)) /\ Last(context) \in Reply
    BY DEF ResultsAreIn, Kept, HasCalls, calls, IInv, TInv, ReplyInHand
  <1>6. CallIds(Last(context)) = { calls[c].id : c \in 1..Len(calls) }
    <2>1. calls \in Seq(Call) /\ Last(context).calls = calls
      BY CallsInHand DEF IInv, calls
    <2>2. DOMAIN calls = 1..Len(calls)
      BY <2>1
    <2> HIDE DEF calls
    <2> QED BY <2>1, <2>2 DEF CallIds
  <1> QED BY <1>1, <1>3, <1>4, <1>5, <1>6

\* A call's outcome fits behind the reply in hand.
LEMMA OutcomeFits ==
  ASSUME IInv, ResultsAreIn, pc = "tools",
         NEW s \in Seq(Message), Answering(s, Last(context), ToolResults),
         NEW i \in 1..Len(calls), i \notin Ended, NEW err \in BOOLEAN,
         NEW m \in Message, m = ResultMessage([call |-> calls[i], err |-> err]),
         NEW t, t = Append(s, m), NEW more, more = Append(ToolResults, m)
  PROVE  Answering(t, Last(context), more)
  <1> DEFINE reply == Last(context)
             res == ToolResults
  <1>1. /\ res \in Seq(Message) /\ Len(res) = Len(results)
        /\ DOMAIN results = 1..Len(results)
        /\ \A k \in 1..Len(results) : /\ res[k].role = "toolResult"
                                      /\ res[k].call = results[k].call.id
        /\ CallIds(reply) = { calls[c].id : c \in 1..Len(calls) }
    BY ResultsInHand
  <1>2. calls[i] \in Call /\ calls \in Seq(Call)
        /\ Len(calls) \in Nat /\ next \in Nat /\ next <= Len(calls) + 1
    BY CallsInHand DEF IInv, TInv, TypeOK, ToolsInTurn
  <1>3. m.role = "toolResult" /\ m.call = calls[i].id
    BY DEF ResultMessage
  <1>4. Kept(reply)
    BY DEF ResultsAreIn
  <1>5. ASSUME DistinctIds(reply), NEW k \in 1..Len(res) PROVE res[k].call # m.call
    <2>1. k \in DOMAIN results /\ res[k].call = results[k].call.id
      BY <1>1
    <2>2. PICK c \in Ended : results[k].call = calls[c]
      BY <2>1 DEF ResultsAreIn
    <2>3. c \in 1..Len(calls) /\ c # i
      BY <1>2 DEF Ended
    <2>4. reply.calls = calls /\ DOMAIN calls = 1..Len(calls)
      BY <1>2 DEF calls
    <2>5. calls[c].id # calls[i].id
      <3> HIDE DEF calls, reply
      <3> QED BY <1>5, <2>3, <2>4 DEF DistinctIds
    <2> QED BY <1>3, <2>1, <2>2, <2>5
  <1>6. m.call \in CallIds(reply)
    BY <1>1, <1>3
  <1> HIDE DEF reply, res
  <1>7. Answering(s, reply, res) /\ more = Append(res, m)
    BY DEF reply, res
  <1>8. Answering(t, reply, more)
    BY <1>1, <1>3, <1>4, <1>5, <1>6, <1>7, AnsweringMore
  <1> QED BY <1>8 DEF reply

\* When every call has ended, none is without a result.
LEMMA ToolsAnswerAll ==
  ASSUME IInv, ResultsAreIn, pc = "tools", AllEnded,
         NEW s \in Seq(Message), Answering(s, Last(context), ToolResults)
  PROVE  Settled(s)
  <1> DEFINE reply == Last(context)
             res == ToolResults
  <1>1. /\ res \in Seq(Message) /\ Len(res) = Len(results)
        /\ DOMAIN results = 1..Len(results)
        /\ \A k \in 1..Len(results) : /\ res[k].role = "toolResult"
                                      /\ res[k].call = results[k].call.id
        /\ CallIds(reply) = { calls[c].id : c \in 1..Len(calls) }
    BY ResultsInHand
  <1>2. Len(calls) \in Nat /\ next \in Nat /\ next > Len(calls) /\ runnable = {}
    BY CallsInHand DEF IInv, TInv, TypeOK, AllEnded
  <1>3. ASSUME NEW id \in CallIds(reply) PROVE \E k \in 1..Len(res) : res[k].call = id
    <2>1. PICK c \in 1..Len(calls) : id = calls[c].id
      BY <1>1, <1>3
    <2>2. c \in Ended
      BY <1>2 DEF Ended
    <2>3. PICK r \in DOMAIN results : results[r].call = calls[c]
      BY <2>2 DEF ResultsAreIn
    <2> QED BY <1>1, <2>1, <2>3
  <1>4. Answering(s, reply, res)
    OBVIOUS
  <1> HIDE DEF reply, res
  <1> QED BY <1>1, <1>3, <1>4, AnsweringEnds

\* A reply leaves a list that is whole: its calls had no result yet, or it had none.
LEMMA DropKeepsWhole ==
  ASSUME IInv, ResultsAreIn, NEW s \in Seq(Message), s # <<>>, Whole(s),
         Last(s).role = "assistant", ~HasCalls(Last(s)), NEW t, t = Front(s)
  PROVE  Whole(t)
  <1> DEFINE m == Last(s)
  <1>1. m \in Message /\ t \in Seq(Message) /\ s = Append(t, m)
    BY FrontAndLast
  <1>2. m = s[Len(s)]
    BY DEF Last
  <1>3. ASSUME Settled(s) PROVE Settled(t)
    <2> HIDE DEF m
    <2>1. m.role # "toolResult"
      BY DEF m
    <2> QED BY <1>1, <1>3, <2>1, AllAnsweredBefore DEF Settled
  <1>4. CASE pc \notin {"decide", "tools"}
    BY <1>3, <1>4 DEF Whole
  <1>5. CASE pc = "decide"
    <2>1. Replied(s, Last(context))
      BY <1>5 DEF Whole
    <2>2. ~HasCalls(Last(context))
      <3>1. CASE HasCalls(Last(context))
        BY <1>2, <2>1, <3>1 DEF Replied
      <3> QED BY <3>1
    <2> QED BY <1>3, <1>5, <2>1, <2>2 DEF Replied, Whole
  <1>6. CASE pc = "tools"
    <2> DEFINE reply == Last(context)
               res == ToolResults
    <2>1. /\ res \in Seq(Message) /\ HasCalls(reply) /\ Len(res) = Len(results)
          /\ \A k \in 1..Len(results) : res[k].role = "toolResult"
      BY <1>6, ResultsInHand
    <2>2. PICK n \in 1..Len(s) :
            /\ s[n] = reply /\ Len(s) = n + Len(res)
            /\ \A k \in 1..Len(res) : s[n + k] = res[k]
      BY <1>6 DEF Whole, Answering
    <2>3. Len(res) \in Nat /\ Len(s) \in Nat
      BY <2>1
    <2> HIDE DEF reply, res
    <2>4. CASE Len(res) = 0
      BY <1>2, <2>1, <2>2, <2>3, <2>4
    <2>5. CASE Len(res) # 0
      <3>1. Len(res) \in 1..Len(res) /\ s[Len(s)] = res[Len(res)]
        BY <2>2, <2>3, <2>5
      <3> QED BY <1>2, <2>1, <3>1
    <2> QED BY <2>4, <2>5
  <1> QED BY <1>4, <1>5, <1>6

LEMMA NextRepliesAnswered ==
  IInv /\ ResultsAreIn /\ RepliesAnswered /\ [Next]_vars => RepliesAnswered'
  <1> SUFFICES ASSUME IInv, ResultsAreIn, RepliesAnswered, [Next]_vars
               PROVE  RepliesAnswered'
    OBVIOUS
  <1> USE DEF queues, toolVars, history, breaks
  <1>t. /\ transcript \in Seq(Message) /\ context \in Seq(Message)
        /\ prompts \in Seq(UserMessage) /\ pending \in Seq(UserMessage)
        /\ ToolResults \in Seq(Message)
    BY ToolResultsType DEF IInv, TInv, TypeOK
  <1>u. \A m \in UserMessage : m \in Message /\ m.role # "toolResult" /\ ~Kept(m)
    BY DEF UserMessage, Message, Kept
  <1>r. UNCHANGED results => UNCHANGED ToolResults
    BY DEF ToolResults
  <1>1. ASSUME UNCHANGED <<pc, transcript, context, results, orphans>> PROVE RepliesAnswered'
    BY <1>1, <1>r DEF RepliesAnswered, Whole, LoopList
  <1>2. ASSUME UNCHANGED <<transcript, context, orphans>>,
               pc \notin {"decide", "tools"}, pc' \notin {"decide", "tools"}
        PROVE  RepliesAnswered'
    BY <1>2 DEF RepliesAnswered, Whole, LoopList
  <1>3. ASSUME NEW s \in Seq(Message), Settled(s),
               NEW m \in Message, m.role # "toolResult", ~Kept(m)
        PROVE  Settled(Append(s, m))
    BY <1>3, AllAnsweredWithOther DEF Settled
  <1>4. ASSUME pc = "decide", ~HasCalls(Last(context)), UNCHANGED <<transcript, context, orphans>>,
               pc' \notin {"decide", "tools"}
        PROVE  RepliesAnswered'
    BY <1>4 DEF RepliesAnswered, Whole, LoopList, Replied
  <1>5. CASE Steer \/ FollowUp \/ ClearQueues \/ Abort \/ Tick \/ PrepareCall \/ Tools
    BY <1>1, <1>5 DEF Steer, FollowUp, ClearQueues, Abort, Tick, PrepareCall, Tools, ToolReturns
  <1>6. CASE Prompt \/ Continue
    <2>1. PICK msgs \in Seq(UserMessage) : context' = transcript \o msgs
      <3>1. DrainedSteering.msgs \in Seq(UserMessage) /\ DrainedFollowUp.msgs \in Seq(UserMessage)
        BY DrainType DEF DrainedSteering, DrainedFollowUp, IInv, TInv, TypeOK
      <3>2. <<>> \in Seq(UserMessage)
        BY EmptySeq
      <3>3. <<Submit("prompt")>> \in Seq(UserMessage)
        BY MessageKinds DEF Submit, IInv, TInv, TypeOK
      <3> QED BY <1>6, <3>1, <3>2, <3>3 DEF Prompt, Continue, StartRun
    <2>2. /\ pc = "idle" /\ pc' = "prompts" /\ UNCHANGED transcript
          /\ orphans' = IF orphans = "none" THEN "none" ELSE "context"
      BY <1>6 DEF Prompt, Continue, StartRun
    <2>3. ASSUME orphans' # "context" PROVE Settled(transcript) /\ Settled(context')
      <3>1. Settled(transcript)
        BY <2>2, <2>3 DEF RepliesAnswered, Whole
      <3> QED BY <1>t, <2>1, <3>1, SettledWithUsers
    <2>4. orphans' = "none" => orphans' # "context"
      OBVIOUS
    <2> QED BY <2>2, <2>3, <2>4 DEF RepliesAnswered, Whole, LoopList
  <1>7. CASE DropLastReply
    <2>1. /\ transcript # <<>> /\ Last(transcript).role = "assistant"
          /\ transcript' = Front(transcript) /\ UNCHANGED <<pc, context, results>>
          /\ orphans' = IF orphans = "none" /\ HasCalls(Last(transcript)) THEN "transcript"
                                                                       ELSE orphans
      BY <1>7 DEF DropLastReply, LastIsReply
    <2>2. UNCHANGED ToolResults
      BY <1>r, <2>1
    <2>3. ASSUME orphans' # "context" PROVE Whole(LoopList)'
      <3>1. orphans # "context"
        BY <2>1, <2>3
      <3> QED BY <2>1, <2>2, <3>1 DEF RepliesAnswered, Whole, LoopList
    <2>4. ASSUME orphans' = "none" PROVE Whole(transcript)'
      <3>1. orphans = "none" /\ ~HasCalls(Last(transcript))
        BY <2>1, <2>4
      <3>2. PICK t : t = Front(transcript)
        OBVIOUS
      <3>3. Whole(t)
        BY <1>t, <2>1, <3>1, <3>2, DropKeepsWhole DEF RepliesAnswered
      <3> QED BY <2>1, <2>2, <3>2, <3>3 DEF Whole
    <2> QED BY <2>3, <2>4 DEF RepliesAnswered
  <1>8. CASE EmitPrompt
    <2>1. Head(prompts) \in UserMessage
      BY <1>t, <1>8 DEF EmitPrompt
    <2>2. /\ pc = "prompts" /\ transcript' = Append(transcript, Head(prompts))
          /\ UNCHANGED <<pc, context, orphans>>
      BY <1>8 DEF EmitPrompt
    <2>3. Settled(transcript) => Settled(transcript')
      BY <1>t, <1>3, <1>u, <2>1, <2>2
    <2> QED BY <2>2, <2>3 DEF RepliesAnswered, Whole, LoopList
  <1>9. CASE InjectMessage
    <2>1. Head(pending) \in UserMessage
      BY <1>t, <1>9 DEF InjectMessage
    <2>2. /\ pc = "inject" /\ transcript' = Append(transcript, Head(pending))
          /\ context' = Append(context, Head(pending)) /\ UNCHANGED <<pc, orphans>>
      BY <1>9 DEF InjectMessage
    <2>3. /\ Settled(transcript) => Settled(transcript')
          /\ Settled(context) => Settled(context')
      BY <1>t, <1>3, <1>u, <2>1, <2>2
    <2> QED BY <2>2, <2>3 DEF RepliesAnswered, Whole, LoopList
  <1>10. CASE RequestThrows
    <2> DEFINE m == ReplyMessage(IF aborted THEN "aborted" ELSE "error", <<>>)
    <2>1. m \in Message /\ m.role # "toolResult" /\ ~Kept(m)
      <3>1. <<>> \in Seq(Call)
        BY EmptySeq
      <3> QED BY <3>1 DEF ReplyMessage, Message, Reply, Kept, Skipped
    <2>2. /\ transcript' = Append(transcript, m) /\ UNCHANGED <<context, orphans>>
          /\ pc = "inject" /\ pc' = "ending"
      BY <1>10 DEF RequestThrows, GateOpen
    <2> HIDE DEF m
    <2>3. Settled(transcript) => Settled(transcript')
      BY <1>t, <1>3, <2>1, <2>2
    <2> QED BY <2>2, <2>3 DEF RepliesAnswered, Whole, LoopList
  <1>11. CASE BeginLoop \/ StartTurn \/ GateShut \/ Request
    BY <1>2, <1>11 DEF BeginLoop, PollSteering, StartTurn, GateShut, GateOpen, Request
  <1>12. CASE StreamReply
    <2>1. PICK r \in Replies : /\ transcript' = Append(transcript, ReplyMessage(r[1], Calls(r[2])))
                               /\ context' = Append(context, ReplyMessage(r[1], Calls(r[2])))
      BY <1>12 DEF StreamReply
    <2> DEFINE m == ReplyMessage(r[1], Calls(r[2]))
    <2>2. pc = "streaming" /\ pc' = "decide" /\ UNCHANGED orphans
      BY <1>12 DEF StreamReply
    <2>3. Last(context') = m
      <3> DEFINE S == Message \cup {m}
      <3>1. context \in Seq(S) /\ m \in S /\ context' = Append(context, m)
        BY <1>t, <2>1
      <3> HIDE DEF S, m
      <3> QED BY <3>1, LastOfAppend
    <2>4. m \in Reply
      <3>1. Last(context') \in Reply
        BY <2>2, NextTInv DEF TInv, ReplyInHand
      <3> QED BY <2>3, <3>1
    <2>5. DistinctIds(m)
      BY DEF ReplyMessage, DistinctIds, Calls
    <2> HIDE DEF m
    <2>6. transcript' = Append(transcript, m) /\ context' = Append(context, m)
      BY <2>1 DEF m
    <2>7. /\ Settled(transcript) => Replied(transcript', m)
          /\ Settled(context) => Replied(context', m)
      BY <1>t, <2>4, <2>5, <2>6, SettledThenReplied
    <2> QED BY <2>2, <2>3, <2>7 DEF RepliesAnswered, Whole, LoopList
  <1>13. CASE FinalReply \/ UpstreamRetry
    <2>1. pc = "decide" /\ pc' \in {"ending", "turn"} /\ UNCHANGED <<transcript, context, orphans>>
          /\ stop \in {"error", "aborted"}
      BY <1>13 DEF FinalReply, UpstreamRetry, NudgeWith, Deciding, IsError
    <2> QED BY <1>4, <2>1 DEF Skipped, HasCalls, stop
  <1>14. CASE EmptyTurn \/ ZeroDiffTurn \/ CoverageTurn \/ CriteriaTurn \/ TextReply
    <2>1. pc = "decide" /\ pc' \in {"followUp", "turn"} /\ calls = <<>>
          /\ UNCHANGED <<transcript, context, orphans>>
      BY <1>14 DEF EmptyTurn, ZeroDiffTurn, CoverageTurn, CriteriaTurn, TextReply, TextOnly,
         NudgeWith, Deciding, PollSteering
    <2> QED BY <1>4, <2>1 DEF HasCalls, calls
  <1>15. CASE BeginTools
    <2>1. /\ pc = "decide" /\ pc' = "tools" /\ UNCHANGED <<transcript, context, orphans>>
          /\ stop \in {"stop", "length"} /\ calls # <<>> /\ results' = <<>>
      BY <1>15 DEF BeginTools, Deciding
    <2>2. HasCalls(Last(context))
      BY <2>1 DEF HasCalls, Skipped, stop, calls
    <2>3. ToolResults' = <<>>
      BY <2>1 DEF ToolResults
    <2>4. context \o <<>> = context
      BY <1>t, ConcatEmptySeq
    <2>5. \A s \in Seq(Message) :
            Replied(s, Last(context)) => Answering(s, Last(context), <<>>)
      BY <2>2, RepliedThenAnswering
    <2>6. LoopList' = context /\ LoopList = context
      BY <2>1, <2>3, <2>4 DEF LoopList
    <2> QED BY <1>t, <2>1, <2>3, <2>5, <2>6 DEF RepliesAnswered, Whole
  <1>16. CASE RefuseCall \/ FinalizeCall
    <2>1. pc = "tools" /\ UNCHANGED <<pc, context, orphans>>
      BY <1>16 DEF RefuseCall, CanPrepare, FinalizeCall
    <2>2. Len(calls) \in Nat /\ next \in Nat \ {0} /\ runnable \subseteq 1..(next - 1)
          /\ next <= Len(calls) + 1
      BY <2>1, CallsInHand DEF IInv, TInv, TypeOK, ToolsInTurn
    <2>3. \E i \in 1..Len(calls), err \in BOOLEAN : i \notin Ended /\ Outcome(i, err)
      <3>1. CASE RefuseCall
        <4>1. next <= Len(calls) /\ Outcome(next, TRUE)
          BY <3>1 DEF RefuseCall, CanPrepare
        <4>2. next \in 1..Len(calls) /\ next \notin 1..(next - 1)
          BY <2>2, <4>1
        <4> QED BY <4>1, <4>2 DEF Ended
      <3>2. CASE FinalizeCall
        <4>1. PICK i \in runnable \ executing : Outcome(i, i \in failed)
          BY <3>2 DEF FinalizeCall
        <4>2. i \in 1..Len(calls) /\ i \notin Ended /\ (i \in failed) \in BOOLEAN
          BY <2>2, <4>1 DEF Ended
        <4> QED BY <4>1, <4>2
      <3> QED BY <1>16, <3>1, <3>2
    <2>4. PICK i \in 1..Len(calls), err \in BOOLEAN : i \notin Ended /\ Outcome(i, err)
      BY <2>3
    <2>5. PICK m \in Message : /\ m = ResultMessage([call |-> calls[i], err |-> err])
                               /\ transcript' = Append(transcript, m)
                               /\ ToolResults' = Append(ToolResults, m)
      BY <2>1, <2>4, OutcomeAppends DEF IInv
    <2>6. ASSUME NEW s \in Seq(Message), Answering(s, Last(context), ToolResults)
          PROVE  Answering(Append(s, m), Last(context), ToolResults')
      BY <2>1, <2>4, <2>5, <2>6, OutcomeFits
    <2>7. LoopList = context \o ToolResults /\ LoopList \in Seq(Message)
      BY <1>t, <2>1 DEF LoopList
    <2>8. LoopList' = Append(LoopList, m)
      <3>1. PICK u \in Seq(Message) : u = ToolResults
        BY <1>t
      <3>2. Append(context \o u, m) = context \o Append(u, m)
        BY <1>t, <3>1, AppendBehind
      <3>3. LoopList' = context \o ToolResults'
        BY <2>1 DEF LoopList
      <3> QED BY <2>5, <2>7, <3>1, <3>2, <3>3
    <2>9. ASSUME orphans = "none" PROVE Answering(transcript', Last(context), ToolResults')
      <3>1. Answering(transcript, Last(context), ToolResults)
        BY <2>1, <2>9 DEF RepliesAnswered, Whole
      <3> QED BY <1>t, <2>5, <2>6, <3>1
    <2>10. ASSUME orphans # "context" PROVE Answering(LoopList', Last(context), ToolResults')
      <3>1. Answering(LoopList, Last(context), ToolResults)
        BY <2>1, <2>10 DEF RepliesAnswered, Whole
      <3> QED BY <2>6, <2>7, <2>8, <3>1
    <2> QED BY <2>1, <2>9, <2>10 DEF RepliesAnswered, Whole
  <1>17. CASE RecordResults
    <2>1. /\ pc = "tools" /\ AllEnded /\ pc' = "turnEnd" /\ UNCHANGED <<transcript, orphans>>
          /\ context' = context \o ToolResults
      BY <1>17 DEF RecordResults
    <2>2. LoopList \in Seq(Message) /\ LoopList' = LoopList
      BY <1>t, <2>1 DEF LoopList
    <2>3. \A s \in Seq(Message) : Answering(s, Last(context), ToolResults) => Settled(s)
      BY <2>1, ToolsAnswerAll
    <2> QED BY <1>t, <2>1, <2>2, <2>3 DEF RepliesAnswered, Whole
  <1>18. CASE GracefulExit \/ TurnEnd \/ PollFollowUps \/ ReviewPass \/ Finish \/ AgentEnd
    BY <1>2, <1>18 DEF GracefulExit, TurnEnd, PollSteering, PollFollowUps, ReviewPass, NudgeWith,
       Finish, AgentEnd
  <1>19. CASE Settle
    <2>1. /\ pc = "ending" /\ pc' = "idle" /\ context' = <<>> /\ UNCHANGED <<transcript, orphans>>
      BY <1>19 DEF Settle
    <2>2. Settled(<<>>)
      <3>1. DOMAIN <<>> = {}
        OBVIOUS
      <3> QED BY <3>1 DEF Settled, ResultsFit, AllAnswered
    <2> QED BY <2>1, <2>2 DEF RepliesAnswered, Whole, LoopList
  <1>20. CASE UNCHANGED vars
    BY <1>1, <1>20 DEF vars
  <1> QED
    BY <1>5, <1>6, <1>7, <1>8, <1>9, <1>10, <1>11, <1>12, <1>13, <1>14, <1>15, <1>16, <1>17, <1>18,
       <1>19, <1>20 DEF Next, UserCall, Loop

\* The request a provider gets is one it accepts: whatever was aborted, failed, refused,
\* retried or continued before, each tool call in it has its result and each result its
\* call, unless the run began with results whose reply had been taken from the transcript.
THEOREM RequestsAreWellFormed == Spec => []RequestWellFormed
  <1>1. Init => ResultsAreIn /\ RepliesAnswered
    <2> SUFFICES ASSUME Init PROVE ResultsAreIn /\ RepliesAnswered
      OBVIOUS
    <2>1. ResultsAreIn
      BY DEF Init, ResultsAreIn
    <2>2. DOMAIN transcript = {} /\ LoopList = transcript /\ pc = "idle"
      BY DEF Init, LoopList
    <2>3. Settled(transcript)
      BY <2>2 DEF Settled, ResultsFit, AllAnswered
    <2> QED BY <2>1, <2>2, <2>3 DEF RepliesAnswered, Whole
  <1>2. /\ IInv /\ ResultsAreIn /\ RepliesAnswered /\ [Next]_vars
          => ResultsAreIn' /\ RepliesAnswered'
    BY NextResultsAreIn, NextRepliesAnswered
  <1>3. IInv /\ RepliesAnswered => RequestWellFormed
    <2> SUFFICES ASSUME IInv, RepliesAnswered, pc = "streaming", orphans # "context"
                 PROVE  WellFormed(Transform(context))
      BY DEF RequestWellFormed
    <2>1. ResultsFit(context) /\ AllAnswered(context) /\ context \in Seq(Message)
      BY DEF RepliesAnswered, Whole, LoopList, Settled, IInv, TInv, TypeOK
    <2>2. LastAnswered(context)
      BY <2>1 DEF AllAnswered, LastAnswered
    <2> QED BY <2>1, <2>2, TransformIsWellFormed
  <1> QED BY <1>1, <1>2, <1>3, Invariance, PTL DEF Spec
=============================================================================
