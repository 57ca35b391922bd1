------------------------------ MODULE AgentLoop ------------------------------
(***************************************************************************)
(* agent/src/agent.ts and agent/src/agent-loop.ts: an Agent, its queues of *)
(* steering and follow-up messages, and the loop that runs turns against a *)
(* model until nothing is left to do, the time budget is spent, or the run *)
(* is aborted.                                                             *)
(*                                                                         *)
(* The loop's steps are the stretches between two awaits that somebody     *)
(* else's step can tell apart; the user's calls, the clock, the model and  *)
(* the tools step between them.                                            *)
(***************************************************************************)
EXTENDS Naturals, Sequences, FiniteSets, TransformMessages

CONSTANTS
  SteeringMode, FollowUpMode,      \* "all" or "one-at-a-time"
  ToolExecution,                   \* "parallel" or "sequential"
  ShortBudget,                     \* the environment sets a budget below 150 s
  CallLists,                       \* the tool names a reply's calls may have, in order
  UPSTREAM_RETRY_LIMIT, EMPTY_TURN_MAX,
  MAX_COVERAGE_RETRIES, MAX_CRITERIA_COVERAGE_RETRIES,
  MaxCalls,                        \* bound: calls in one reply
  MaxRequests,                     \* bound: requests that fit in one run's time
  MaxUser,                         \* bound: messages the user submits
  MaxRuns                          \* bound: runs

ASSUME AgentLoopAssumption ==
  /\ {SteeringMode, FollowUpMode} \subseteq {"all", "one-at-a-time"}
  /\ ToolExecution \in {"parallel", "sequential"}
  /\ ShortBudget \in BOOLEAN
  /\ CallLists \subseteq Seq({"edit", "read"})
  /\ MaxCalls \in Nat /\ \A kinds \in CallLists : Len(kinds) <= MaxCalls
  /\ {UPSTREAM_RETRY_LIMIT, EMPTY_TURN_MAX, MAX_COVERAGE_RETRIES,
      MAX_CRITERIA_COVERAGE_RETRIES, MaxRequests, MaxUser, MaxRuns} \subseteq Nat

VARIABLES
  pc,            \* where the active run is; "idle" when there is none
  aborted,       \* the run's AbortController
  clock,         \* time since the loop started, in the thresholds it compares with
  steering, followUp,   \* the two PendingMessageQueues
  prompts,       \* prompts whose events are still to be emitted
  pending,       \* pendingMessages
  transcript,    \* Agent.state.messages
  context,       \* currentContext.messages
  loop,          \* the loop's flags and counters
  next,          \* the call executeToolCalls prepares next
  runnable,      \* calls started and not ended: state.pendingToolCalls
  executing,     \* calls whose tool is running
  failed,        \* calls whose tool has thrown
  results,       \* toolResults, in the order they were pushed
  submitted,     \* history: how many messages the user has submitted
  cleared,       \* history: the messages the user took back
  passedOver,    \* history: the messages the last steering poll left queued
  runs,          \* history: how many runs have started
  parted,        \* history: a reply has left the transcript under the active run
  orphans        \* history: where results stand whose reply has left the transcript

queues == <<steering, followUp>>
toolVars == <<next, runnable, executing, failed, results>>
breaks == <<parted, orphans>>
history == <<submitted, cleared, passedOver, runs, breaks>>
vars == <<pc, aborted, clock, queues, prompts, pending, transcript, context, loop,
          toolVars, history>>

(***************************************************************************)
(* Time: below 25 s, below 60 s, then GRACEFUL_EXIT_MS and HARD_ABORT_MS,  *)
(* in the order they have with a budget of 67 s or more.                   *)
(***************************************************************************)
FORCE_EDIT_MS == 1
REVIEW_MS == 2
GRACEFUL_EXIT_MS == 3
HARD_ABORT_MS == 4

\* The loop's signal: the run's, or the watchdog's at HARD_ABORT_MS.
Signal == aborted \/ clock = HARD_ABORT_MS

(***************************************************************************)
(* Messages.  Two nudges of the loop that are pushed one after the other    *)
(* are one here.                                                            *)
(***************************************************************************)
User(id, via) == [role |-> "user", id |-> id, via |-> via]
Nudge == User(0, "loop")
ForceEdit == User(0, "force")
ReplyMessage(stop, calls) == [role |-> "assistant", stop |-> stop, calls |-> calls]
ResultMessage(r) == [role |-> "toolResult", call |-> r.call.id, err |-> r.err]

\* A call's id names the request that is being answered, so that it is unique.
Calls(kinds) ==
  [i \in DOMAIN kinds |-> [id |-> <<runs, loop.requests, i>>, name |-> kinds[i]]]

\* The calls of the reply that is being worked on.
calls == Last(context).calls

FreshLoop == [skipPoll |-> FALSE, prompted |-> FALSE, produced |-> FALSE, review |-> FALSE,
              dead |-> FALSE, requests |-> 0, upstream |-> 0, empty |-> 0,
              coverage |-> 0, criteria |-> 0]

Init == /\ pc = "idle" /\ aborted = FALSE /\ clock = 0
        /\ steering = <<>> /\ followUp = <<>> /\ prompts = <<>> /\ pending = <<>>
        /\ transcript = <<>> /\ context = <<>> /\ loop = FreshLoop
        /\ next = 1 /\ runnable = {} /\ executing = {} /\ failed = {} /\ results = <<>>
        /\ submitted = 0 /\ cleared = {} /\ passedOver = {} /\ runs = 0
        /\ parted = FALSE /\ orphans = "none"

\* Mutant: in one-at-a-time mode the queue is emptied as well.
DrainAndClear(q, mode) ==
  [msgs |-> IF mode = "all" \/ q = <<>> THEN q ELSE SubSeq(q, 1, 1), rest |-> <<>>]

\* PendingMessageQueue.drain(): what it returns and what it leaves.
Drain(q, mode) ==
  IF mode = "all" \/ q = <<>> THEN [msgs |-> q, rest |-> <<>>]
                              ELSE [msgs |-> SubSeq(q, 1, 1), rest |-> Tail(q)]

DrainedSteering == Drain(steering, SteeringMode)
DrainedFollowUp == Drain(followUp, FollowUpMode)
Ids(msgs) == { m.id : m \in ToSet(msgs) }

(***************************************************************************)
(* The user's side: calls that may come between any two steps.             *)
(***************************************************************************)
\* Mutant: a message is put at the head of its queue.
Prepend(q, m) == <<m>> \o q

Enqueue(q, m) == Append(q, m)

Submit(via) == User(submitted + 1, via)

Steer == /\ submitted < MaxUser
         /\ steering' = Enqueue(steering, Submit("steer"))
         /\ submitted' = submitted + 1
         /\ UNCHANGED <<pc, aborted, clock, followUp, prompts, pending, transcript, context,
                        loop, toolVars, cleared, passedOver, runs, breaks>>

FollowUp == /\ submitted < MaxUser
            /\ followUp' = Enqueue(followUp, Submit("followUp"))
            /\ submitted' = submitted + 1
            /\ UNCHANGED <<pc, aborted, clock, steering, prompts, pending, transcript, context,
                           loop, toolVars, cleared, passedOver, runs, breaks>>

\* clearAllQueues(): the messages go back to the user's editor.
ClearQueues == /\ steering \o followUp # <<>>
               /\ cleared' = cleared \cup Ids(steering \o followUp)
               /\ steering' = <<>> /\ followUp' = <<>>
               /\ UNCHANGED <<pc, aborted, clock, prompts, pending, transcript, context, loop,
                              toolVars, submitted, passedOver, runs, breaks>>

Abort == /\ pc # "idle" /\ ~aborted
         /\ aborted' = TRUE
         /\ UNCHANGED <<pc, clock, queues, prompts, pending, transcript, context, loop,
                        toolVars, history>>

\* runWithLifecycle, up to the loop's first await.
StartRun(msgs, skipPoll) ==
  /\ runs < MaxRuns
  /\ pc' = "prompts"
  /\ prompts' = msgs
  /\ context' = transcript \o msgs
  /\ loop' = [loop EXCEPT !.skipPoll = skipPoll, !.prompted = msgs # <<>>]
  /\ runs' = runs + 1
  /\ orphans' = IF orphans = "none" THEN "none" ELSE "context"
  /\ UNCHANGED <<aborted, clock, pending, transcript, toolVars, cleared, passedOver, parted>>

\* prompt() throws while a run is active; so does continue().
Prompt == /\ pc = "idle" /\ submitted < MaxUser
          /\ StartRun(<<Submit("prompt")>>, FALSE)
          /\ submitted' = submitted + 1
          /\ UNCHANGED queues

\* continue(), which throws when the transcript is empty, or ends with a reply
\* and nothing is queued.
Continue ==
  /\ pc = "idle" /\ transcript # <<>>
  /\ UNCHANGED submitted
  /\ \/ /\ Last(transcript).role = "assistant" /\ steering # <<>>
        /\ StartRun(DrainedSteering.msgs, TRUE)
        /\ steering' = DrainedSteering.rest
        /\ UNCHANGED followUp
     \/ /\ Last(transcript).role = "assistant" /\ steering = <<>> /\ followUp # <<>>
        /\ StartRun(DrainedFollowUp.msgs, FALSE)
        /\ followUp' = DrainedFollowUp.rest
        /\ UNCHANGED steering
     \/ /\ Last(transcript).role # "assistant"
        /\ StartRun(<<>>, FALSE)
        /\ UNCHANGED queues

\* AgentSession, before it retries after an error or an overflow, "removes the error
\* message": the last message, if it is a reply, whichever it is by then.  It answers
\* the end of an earlier run, from a queue of its own, and another may be active; a
\* reply that overflowed silently has not failed.
HasCalls(m) == ~Skipped(m) /\ m.calls # <<>>

LastIsReply == transcript # <<>> /\ Last(transcript).role = "assistant"

DropLastReply ==
  /\ pc = "idle" \/ runs > 1
  /\ LastIsReply
  /\ transcript' = Front(transcript)
  /\ parted' = (parted \/ pc # "idle")
  /\ orphans' = IF orphans = "none" /\ HasCalls(Last(transcript)) THEN "transcript"
                                                               ELSE orphans
  /\ UNCHANGED <<pc, aborted, clock, queues, prompts, pending, context, loop, toolVars,
                 submitted, cleared, passedOver, runs>>

\* A tick matters only before the next time the loop reads the clock.
Tick == /\ pc \in {"inject", "streaming", "tools"}
        /\ clock < HARD_ABORT_MS
        /\ clock' = clock + 1
        /\ UNCHANGED <<pc, aborted, queues, prompts, pending, transcript, context, loop,
                       toolVars, history>>

(***************************************************************************)
(* The loop: starting a run and a turn.                                    *)
(***************************************************************************)
\* message_start and message_end: processEvents appends to the transcript.
EmitPrompt == /\ pc = "prompts" /\ prompts # <<>>
              /\ transcript' = Append(transcript, Head(prompts))
              /\ prompts' = Tail(prompts)
              /\ UNCHANGED <<pc, aborted, clock, queues, pending, context, loop, toolVars, history>>

\* getSteeringMessages(): what it makes pending, between what stands before and after.
PollSteering(before, after) ==
  /\ pending' = before \o DrainedSteering.msgs \o after
  /\ steering' = DrainedSteering.rest
  /\ passedOver' = Ids(DrainedSteering.rest \o followUp)
  /\ UNCHANGED <<followUp, submitted, cleared, runs, breaks>>

\* The initial poll, with the nudges of a short budget and of the prefetch.
BeginLoop ==
  /\ pc = "prompts" /\ prompts = <<>>
  /\ pc' = "inject"
  /\ \E setup \in {<<>>, <<Nudge>>} :
       LET hurry == IF ShortBudget /\ loop.prompted THEN <<Nudge>> ELSE <<>>
       IN  IF loop.skipPoll
           THEN pending' = hurry \o setup /\ UNCHANGED <<queues, history>>
           ELSE PollSteering(hurry, setup)
  /\ loop' = [loop EXCEPT !.skipPoll = FALSE]
  /\ UNCHANGED <<aborted, clock, prompts, transcript, context, toolVars>>

\* turn_start, of every turn but the first.
StartTurn == /\ pc = "turn"
             /\ pc' = "inject"
             /\ UNCHANGED <<aborted, clock, queues, prompts, pending, transcript, context, loop,
                            toolVars, history>>

InjectMessage == /\ pc = "inject" /\ pending # <<>>
                 /\ transcript' = Append(transcript, Head(pending))
                 /\ context' = Append(context, Head(pending))
                 /\ pending' = Tail(pending)
                 /\ UNCHANGED <<pc, aborted, clock, queues, prompts, loop, toolVars, history>>

\* agent_end, with the turn still open when the gate before a request is shut.
GateShut == /\ pc = "inject" /\ pending = <<>> /\ clock >= GRACEFUL_EXIT_MS
            /\ pc' = "ending"
            /\ UNCHANGED <<aborted, clock, queues, prompts, pending, transcript, context, loop,
                           toolVars, history>>

GateOpen == /\ pc = "inject" /\ pending = <<>> /\ clock < GRACEFUL_EXIT_MS
            /\ loop.requests < MaxRequests

\* streamFn is called; a request that starts under an aborted signal is dead.
Request == /\ GateOpen
           /\ pc' = "streaming"
           /\ loop' = [loop EXCEPT !.requests = @ + 1, !.dead = Signal]
           /\ UNCHANGED <<aborted, clock, queues, prompts, pending, transcript, context,
                          toolVars, history>>

\* streamFn throws: handleRunFailure appends a reply of its own and emits agent_end.
RequestThrows ==
  /\ GateOpen
  /\ pc' = "ending"
  /\ transcript' = Append(transcript, ReplyMessage(IF aborted THEN "aborted" ELSE "error", <<>>))
  /\ UNCHANGED <<aborted, clock, queues, prompts, pending, context, loop, toolVars, history>>

(***************************************************************************)
(* The model's reply and what the loop makes of it.                        *)
(***************************************************************************)
\* Replies a provider can give now.  A provider whose request failed reports
\* "aborted" when the signal is, and a reply may be complete before it notices.
Replies ==
  (IF Signal THEN { <<"aborted", k>> : k \in CallLists }
             ELSE { <<"error", k>> : k \in CallLists })
  \cup (IF loop.dead THEN {}
        ELSE { <<"length", k>> : k \in CallLists } \cup { <<"stop", k>> : k \in CallLists })

StreamReply ==
  /\ pc = "streaming"
  /\ \E r \in Replies :
       LET m == ReplyMessage(r[1], Calls(r[2]))
       IN  transcript' = Append(transcript, m) /\ context' = Append(context, m)
  /\ pc' = "decide"
  /\ UNCHANGED <<aborted, clock, queues, prompts, pending, loop, toolVars, history>>

stop == Last(context).stop
Deciding == pc = "decide"
TextOnly == Deciding /\ stop \in {"stop", "length"} /\ calls = <<>>

\* Mutant: an aborted reply is retried like a failed one.
IsFailure == stop \in {"error", "aborted"}

IsError == stop = "error"

\* turn_end and agent_end at once.
FinalReply ==
  /\ Deciding
  /\ stop = "aborted" \/ (stop = "error" /\ loop.upstream >= UPSTREAM_RETRY_LIMIT)
  /\ pc' = "ending"
  /\ UNCHANGED <<aborted, clock, queues, prompts, pending, transcript, context, loop,
                 toolVars, history>>

\* turn_end, and the loop goes on with a nudge of its own and without a poll.
NudgeWith(counters) ==
  /\ pc' = "turn"
  /\ pending' = <<Nudge>>
  /\ loop' = counters
  /\ UNCHANGED <<aborted, clock, queues, prompts, transcript, context, toolVars, history>>

UpstreamRetry == /\ Deciding /\ IsError /\ loop.upstream < UPSTREAM_RETRY_LIMIT
                 /\ NudgeWith([loop EXCEPT !.upstream = @ + 1])

EmptyTurnFits == loop.empty < EMPTY_TURN_MAX /\ (stop = "length" \/ ~loop.produced)

EmptyTurn == /\ TextOnly /\ EmptyTurnFits
             /\ NudgeWith([loop EXCEPT !.empty = @ + 1])

ZeroDiffTurn == /\ TextOnly /\ ~loop.produced /\ loop.empty >= EMPTY_TURN_MAX
                /\ NudgeWith([loop EXCEPT !.empty = 0])

\* Which files are expected and found is data: some file may be missing.
CoverageTurn == /\ TextOnly /\ loop.produced /\ ~EmptyTurnFits
                /\ loop.coverage < MAX_COVERAGE_RETRIES
                /\ NudgeWith([loop EXCEPT !.coverage = @ + 1])

CriteriaTurn == /\ TextOnly /\ loop.produced /\ ~EmptyTurnFits
                /\ loop.criteria < MAX_CRITERIA_COVERAGE_RETRIES
                /\ NudgeWith([loop EXCEPT !.criteria = @ + 1])

\* Mutant: a run may stop although nothing was edited.
MayStopAnyway == TRUE

\* No guard against an early stop applies.
MayStop == loop.produced /\ ~EmptyTurnFits

\* A text reply that may stand: turn_end and the steering poll.
TextReply ==
  /\ TextOnly /\ MayStop
  /\ PollSteering(<<>>, <<>>)
  /\ pc' = IF DrainedSteering.msgs = <<>> THEN "followUp" ELSE "turn"
  /\ UNCHANGED <<aborted, clock, prompts, transcript, context, loop, toolVars>>

(***************************************************************************)
(* Tool calls.                                                             *)
(***************************************************************************)
BeginTools == /\ Deciding /\ stop \in {"stop", "length"} /\ calls # <<>>
              /\ pc' = "tools"
              /\ loop' = [loop EXCEPT !.coverage = 0, !.criteria = 0]
              /\ next' = 1 /\ failed' = {} /\ results' = <<>>
              /\ UNCHANGED <<aborted, clock, queues, prompts, pending, transcript, context,
                             runnable, executing, history>>

\* emitToolCallOutcome: tool_execution_end, and the result as a message.
Outcome(i, err) ==
  LET r == [call |-> calls[i], err |-> err]
  IN  results' = Append(results, r) /\ transcript' = Append(transcript, ResultMessage(r))

\* Sequential mode prepares a call when the one before it has ended.
CanPrepare == /\ pc = "tools" /\ next <= Len(calls)
              /\ ToolExecution = "sequential" => runnable = {}

\* Parallel mode starts the tools when every call is prepared.
Started(ready, i) == IF ToolExecution = "sequential" \/ i = Len(calls) THEN ready ELSE {}

PrepareCall ==
  /\ CanPrepare
  /\ runnable' = runnable \cup {next}
  /\ executing' = Started(runnable', next)
  /\ next' = next + 1
  /\ UNCHANGED <<pc, aborted, clock, queues, prompts, pending, transcript, context, loop,
                 failed, results, history>>

\* prepareToolCall finds no tool, invalid arguments or a hook that blocks the call.
RefuseCall ==
  /\ CanPrepare
  /\ Outcome(next, TRUE)
  /\ executing' = Started(runnable, next)
  /\ next' = next + 1
  /\ UNCHANGED <<pc, aborted, clock, queues, prompts, pending, context, loop,
                 runnable, failed, history>>

\* The tool resolves, or throws: every error, its abort included, is a throw.
ToolReturns(i) ==
  /\ i \in executing
  /\ executing' = executing \ {i}
  /\ failed' \in {failed, failed \cup {i}}
  /\ UNCHANGED <<pc, aborted, clock, queues, prompts, pending, transcript, context, loop,
                 next, runnable, results, history>>

\* The loop awaits the calls in the order they were prepared.
FirstRunnable(i) == i \in runnable /\ \A j \in runnable : i <= j

AllPrepared == ToolExecution = "parallel" => next > Len(calls)

FinalizeCall ==
  /\ pc = "tools" /\ AllPrepared
  /\ \E i \in runnable \ executing :
       /\ FirstRunnable(i)
       /\ Outcome(i, i \in failed)
       /\ runnable' = runnable \ {i}
  /\ UNCHANGED <<pc, aborted, clock, queues, prompts, pending, context, loop,
                 next, executing, failed, history>>

(***************************************************************************)
(* After the tools: results[i] is read as the result of call i.            *)
(***************************************************************************)
Succeeded(i) == calls[i].name = "edit" /\ ~results[i].err
SomeEdit == \E i \in DOMAIN results : Succeeded(i)

\* Every edit that is booked, whether it failed or not, may push a nudge; other
\* nudges look at what the tools printed, which is data.
RecordedNudges == IF SomeEdit THEN { <<Nudge>> } ELSE { <<>>, <<Nudge>> }

\* Mutant: the loop does not wait for the tools it has started.
AllStarted == next > Len(calls)

AllEnded == next > Len(calls) /\ runnable = {}

\* Mutant: a failed call leaves no result with the model.
SuccessfulResults ==
  LET Good(m) == ~m.err
  IN  SelectSeq([i \in DOMAIN results |-> ResultMessage(results[i])], Good)

ToolResults == [i \in DOMAIN results |-> ResultMessage(results[i])]

RecordResults ==
  /\ pc = "tools" /\ AllEnded
  /\ context' = context \o ToolResults
  /\ loop' = [loop EXCEPT !.produced = @ \/ SomeEdit]
  /\ IF ~loop'.produced /\ clock >= FORCE_EDIT_MS
     THEN pending' = <<ForceEdit>>
     ELSE pending' \in RecordedNudges
  /\ pc' = "turnEnd"
  /\ UNCHANGED <<aborted, clock, queues, prompts, transcript, toolVars, history>>

\* turn_end, and agent_end at once when the time is up.
GracefulExit == /\ pc = "turnEnd" /\ clock >= GRACEFUL_EXIT_MS
                /\ pc' = "ending"
                /\ UNCHANGED <<aborted, clock, queues, prompts, pending, transcript, context,
                               loop, toolVars, history>>

\* turn_end; the poll's result takes the place of whatever was pending.
TurnEnd == /\ pc = "turnEnd" /\ clock < GRACEFUL_EXIT_MS
           /\ PollSteering(<<>>, <<>>)
           /\ pc' = "turn"
           /\ UNCHANGED <<aborted, clock, prompts, transcript, context, loop, toolVars>>

(***************************************************************************)
(* The end of a run.                                                       *)
(***************************************************************************)
PollFollowUps == /\ pc = "followUp" /\ followUp # <<>>
                 /\ pending' = DrainedFollowUp.msgs
                 /\ followUp' = DrainedFollowUp.rest
                 /\ pc' = "turn"
                 /\ UNCHANGED <<aborted, clock, steering, prompts, transcript, context, loop,
                                toolVars, history>>

\* Mutant: the follow-up queue is not looked at.
FollowUpsWait == TRUE

NoFollowUp == followUp = <<>>

\* One review turn when the run was quick.
ReviewPass == /\ pc = "followUp" /\ NoFollowUp
              /\ ~loop.review /\ loop.produced /\ clock < REVIEW_MS
              /\ NudgeWith([loop EXCEPT !.review = TRUE])

\* The clean-up of cosmetic changes, which awaits, and then agent_end.
Finish == /\ pc = "followUp" /\ NoFollowUp
          /\ loop.review \/ ~loop.produced \/ clock >= REVIEW_MS
          /\ pc' = "finish"
          /\ UNCHANGED <<aborted, clock, queues, prompts, pending, transcript, context, loop,
                         toolVars, history>>

AgentEnd == /\ pc = "finish"
            /\ pc' = "ending"
            /\ UNCHANGED <<aborted, clock, queues, prompts, pending, transcript, context, loop,
                           toolVars, history>>

\* The listeners of agent_end have settled: finishRun(), and the loop's locals die.
Settle == /\ pc = "ending"
          /\ pc' = "idle" /\ aborted' = FALSE /\ clock' = 0
          /\ pending' = <<>> /\ context' = <<>> /\ loop' = FreshLoop
          /\ next' = 1 /\ runnable' = {} /\ failed' = {} /\ results' = <<>>
          /\ passedOver' = {} /\ parted' = FALSE
          /\ UNCHANGED <<queues, prompts, transcript, executing, submitted, cleared, runs,
                         orphans>>

Loop == \/ EmitPrompt \/ BeginLoop \/ StartTurn \/ InjectMessage
        \/ GateShut \/ Request \/ RequestThrows \/ StreamReply
        \/ FinalReply \/ UpstreamRetry \/ EmptyTurn \/ ZeroDiffTurn
        \/ CoverageTurn \/ CriteriaTurn \/ TextReply
        \/ BeginTools \/ PrepareCall \/ RefuseCall \/ FinalizeCall
        \/ RecordResults \/ GracefulExit \/ TurnEnd
        \/ PollFollowUps \/ ReviewPass \/ Finish \/ AgentEnd \/ Settle

CallIndex == 1..MaxCalls

Tools == \E i \in CallIndex : ToolReturns(i)

UserCall == Steer \/ FollowUp \/ ClearQueues \/ Abort \/ Prompt \/ Continue \/ DropLastReply

Next == UserCall \/ Tick \/ Loop \/ Tools

\* The loop, the model and the tools get on, and time passes; the user owes nothing.
Spec == /\ Init /\ [][Next]_vars
        /\ WF_vars(Loop) /\ WF_vars(Tools) /\ WF_vars(Tick)

(***************************************************************************)
(* Properties.                                                             *)
(***************************************************************************)
PCs == {"idle", "prompts", "turn", "inject", "streaming", "decide", "tools", "turnEnd",
        "followUp", "finish", "ending"}

UserMessage == [role : {"user"}, id : Nat, via : {"prompt", "steer", "followUp", "loop", "force"}]
Call == [id : Nat \X Nat \X Nat, name : {"edit", "read"}]
Reply == [role : {"assistant"}, stop : {"stop", "length", "error", "aborted"}, calls : Seq(Call)]
Result == [role : {"toolResult"}, call : Nat \X Nat \X Nat, err : BOOLEAN]
OutcomeRecord == [call : Call, err : BOOLEAN]
Message == UserMessage \cup Reply \cup Result

LoopState == [skipPoll : BOOLEAN, prompted : BOOLEAN, produced : BOOLEAN, review : BOOLEAN,
              dead : BOOLEAN, requests : 0..MaxRequests, upstream : 0..UPSTREAM_RETRY_LIMIT,
              empty : 0..EMPTY_TURN_MAX, coverage : 0..MAX_COVERAGE_RETRIES,
              criteria : 0..MAX_CRITERIA_COVERAGE_RETRIES]

TypeOK == /\ pc \in PCs /\ aborted \in BOOLEAN /\ clock \in 0..HARD_ABORT_MS
          /\ steering \in Seq(UserMessage) /\ followUp \in Seq(UserMessage)
          /\ prompts \in Seq(UserMessage) /\ pending \in Seq(UserMessage)
          /\ transcript \in Seq(Message) /\ context \in Seq(Message)
          /\ loop \in LoopState
          /\ runnable \subseteq CallIndex /\ executing \subseteq CallIndex
          /\ failed \subseteq CallIndex /\ next \in Nat \ {0}
          /\ results \in Seq(OutcomeRecord)
          /\ submitted \in Nat /\ runs \in Nat
          /\ cleared \subseteq Nat /\ passedOver \subseteq Nat
          /\ parted \in BOOLEAN /\ orphans \in {"none", "transcript", "context"}

\* Every message the user submitted is in exactly one place: a queue, the loop's
\* pending list, the transcript, or back with the user.  No poll, abort, failure,
\* time-out or retry loses one or delivers it twice.
Places == transcript \o prompts \o pending \o steering \o followUp
Conserved ==
  LET at == Places
  IN  \A id \in 1..submitted :
        Cardinality({ i \in DOMAIN at : at[i].role = "user" /\ at[i].id = id })
          = IF id \in cleared THEN 0 ELSE 1

\* Messages of one queue reach the transcript in the order they were queued.
Via(m, via) == m.role = "user" /\ m.via = via
Ordered(s, via) ==
  \A i \in DOMAIN s : Via(s[i], via) =>
    \A j \in DOMAIN s : i < j /\ Via(s[j], via) => s[i].id < s[j].id
QueuedInOrder == LET at == Places IN Ordered(at, "steer") /\ Ordered(at, "followUp")

\* The request a provider gets is one it accepts: whatever was aborted, failed,
\* refused, retried or continued before, each tool call in it has its result, and each
\* result its call.  The exception are the runs that start after AgentSession has taken
\* a reply with calls from the transcript while its tools were running.
RequestWellFormed ==
  pc = "streaming" /\ orphans # "context" => WellFormed(Transform(context))

\* The loop's private list and the Agent's transcript, kept by different code,
\* agree whenever a request is sent, unless AgentSession has taken a reply from the
\* transcript while this run was active.
ModelSeesTranscript == pc = "streaming" /\ ~parted => context = transcript

\* When a run ends by itself, what is still queued came after the last poll.
FinishedRunLeavesOnlyLateMessages ==
  pc = "finish" => passedOver \cap Ids(steering \o followUp) = {}

\* "ZERO-DIFF PREVENTION": a run ends by itself only if some edit succeeded.
EditSucceeded ==
  \E i, j \in DOMAIN context :
    /\ context[i].role = "toolResult" /\ ~context[i].err
    /\ context[j].role = "assistant"
    /\ \E c \in ToSet(context[j].calls) : c.id = context[i].call /\ c.name = "edit"
FinishedRunHasEdited == pc = "finish" => EditSucceeded

\* No tool runs outside the tool phase of its turn: what can be running is what
\* the loop has started and will wait for.
NoToolOutlivesItsTurn == pc # "tools" => executing = {} /\ runnable = {}

\* After a request that started under an aborted signal the run makes no other.
NoRequestAfterAbort == [][loop.dead => loop'.requests \in {loop.requests, 0}]_vars

\* FORCE EDIT "always triggers": while the run lasts it stays pending until it is
\* in the context.
ForceEditStays ==
  [][(ForceEdit \in ToSet(pending)) /\ pc' # "idle"
       => ForceEdit \in ToSet(pending' \o context')]_vars

\* The Agent keeps its promise to its listeners, and every run becomes idle.
Events == INSTANCE AgentEvents WITH
  Position <- CallIndex,
  run <- CASE pc = "idle" -> "idle" [] pc = "ending" -> "ended" [] OTHER -> "open",
  turn <- pc \in {"prompts", "inject", "streaming", "decide", "tools", "turnEnd"},
  tools <- runnable
ImplementsEvents == Events!Spec
=============================================================================
