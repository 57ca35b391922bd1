----------------------------- MODULE AgentSession -----------------------------
(***************************************************************************)
(* coding-agent/src/core/agent-session.ts: prompts, automatic retries,      *)
(* compactions and bash results around an Agent, and the session that       *)
(* keeps what was said.                                                    *)
(*                                                                         *)
(* The agent emits its events without waiting for this class: they are     *)
(* processed one after the other, later, because extensions may take their  *)
(* time over each.  The retry sleeps and the compaction runs inside that   *)
(* queue, while the user prompts, aborts, compacts and runs bash commands. *)
(***************************************************************************)
EXTENDS Naturals, Sequences, FiniteSets, SequencesExt

CONSTANTS
  NPrompts,      \* bound: calls of prompt(), numbered as they are made
  MaxRetries,    \* settings.retry.maxRetries
  MaxTroubles    \* bound: replies that fail, overflow or call a tool, compactions,
                 \* messages queued, bash results and aborts, taken together

ASSUME AgentSessionAssumption == {NPrompts, MaxRetries, MaxTroubles} \subseteq Nat

Prompts == 1..NPrompts

VARIABLES
  messages,    \* agent.state.messages
  run,         \* the agent's active run
  queued,      \* how many messages the agent's two queues hold
  session,     \* the entries of the session's branch
  events,      \* the events that _agentEventQueue has not processed
  handler,     \* what the event that is being processed awaits
  handling,    \* msg in _processAgentEvent
  lastAssistant,   \* _lastAssistantMessage
  retrying,    \* there is a _retryPromise
  retryAttempt,
  overflowRecoveryAttempted,
  pendingBash, \* _pendingBashMessages
  timers,      \* continue() calls that setTimeout will make
  caller,      \* where each call of prompt() is
  compaction,  \* where each compaction is
  controller,  \* _autoCompactionAbortController
  lastId,      \* messages and entries are numbered as they come to be
  left,        \* what is left of MaxTroubles
  lost,        \* history: messages that only one of transcript and session has
  orphaned,    \* history: an agent_end or a continue() came to nothing, unheard
  disturbed    \* history: an abort, or a run that began among events of another

agentVars == <<messages, run, queued>>
retryVars == <<retrying, retryAttempt, timers>>
compactionVars == <<compaction, controller, overflowRecoveryAttempted>>
eventVars == <<events, handler, handling, lastAssistant>>
history == <<orphaned, disturbed>>
vars == <<agentVars, session, eventVars, retryVars, compactionVars, pendingBash, caller,
          lastId, left, lost, history>>

(***************************************************************************)
(* Messages and entries.  A reply fails with a retryable error, a context  *)
(* overflow or another failure; "oversized" is one that stops as it should *)
(* but says that it read more than the model's context window.  keep is a  *)
(* compaction's firstKeptEntryId.                                          *)
(***************************************************************************)
Message(id, role, stop) == [id |-> id, role |-> role, stop |-> stop, keep |-> 0]
NoMessage == Message(0, "none", "")
Compaction(id, keep) == [id |-> id, role |-> "compaction", stop |-> "", keep |-> keep]

IsReply(m) == m.role = "assistant"
IsRetryableError(m) == m.stop = "error"
IsContextOverflow(m) == m.stop \in {"overflow", "oversized"}
IsError(m) == IsReply(m) /\ m.stop \in {"error", "overflow", "failed"}
IdsIn(s) == { m.id : m \in ToSet(s) }
LastIsReply(s) == s # <<>> /\ IsReply(Last(s))
LastThat(s, Test(_)) == LET i == SelectLastInSeq(s, Test)
                        IN  IF i = 0 THEN NoMessage ELSE s[i]
LastReply(s) == LastThat(s, IsReply)

\* Those messages of a sequence that are in a set.
Only(s, set) == LET Add(out, m) == IF m \in set THEN Append(out, m) ELSE out
                IN  FoldLeft(Add, <<>>, s)

\* getLatestCompactionEntry.
LatestCompaction(s) == LastThat(s, LAMBDA e : e.role = "compaction")

\* buildSessionContext: the last compaction's summary, what it kept, what came after.
PositionOf(s, id) == CHOOSE i \in DOMAIN s : s[i].id = id
SinceKept(s) == LET latest == LatestCompaction(s)
                IN  IF latest = NoMessage THEN s
                    ELSE SubSeq(s, PositionOf(s, latest.keep), Len(s))
Said(s) == Only(s, { e \in ToSet(s) : e.role # "compaction" })
Context(s) ==
  LET latest == LatestCompaction(s)
  IN  IF latest = NoMessage THEN s
      ELSE <<Message(latest.id, "summary", "")>> \o Said(SinceKept(s))

\* prepareCompaction: a cut never comes before a tool result, nor twice in a row.
CutPoints(s) ==
  IF s = <<>> \/ Last(s).role = "compaction" THEN {}
  ELSE { e.id : e \in { e \in ToSet(SinceKept(s)) : e.role \notin {"compaction", "toolResult"} } }

\* What a compaction runs for: a prompt, the event queue, or compact().
EventQueue == 0
Manual == NPrompts + 1
Compactors == Prompts \cup {EventQueue, Manual}
Idle == [pc |-> "none", retry |-> FALSE, keep |-> 0]
NoRun == [pc |-> "idle", aborted |-> FALSE, reply |-> NoMessage]
IsStreaming == run.pc # "idle"
Connected == compaction[Manual].pc = "none"

Init ==
  /\ messages = <<>> /\ run = NoRun /\ queued = 0
  /\ session = <<>> /\ events = <<>> /\ handler = "free" /\ handling = NoMessage
  /\ lastAssistant = NoMessage
  /\ retrying = FALSE /\ retryAttempt = 0 /\ timers = 0
  /\ overflowRecoveryAttempted = FALSE /\ pendingBash = <<>>
  /\ caller = [p \in Prompts |-> "new"]
  /\ compaction = [c \in Compactors |-> Idle] /\ controller = "none"
  /\ lastId = 0
  /\ left = MaxTroubles
  /\ lost = {} /\ orphaned = FALSE /\ disturbed = FALSE

Spend == left > 0 /\ left' = left - 1

\* Mutant: the promise is dropped without being resolved.
RetryForgotten == retrying' = FALSE /\ UNCHANGED caller

\* _resolveRetry: every prompt() that waits for the promise goes on.
ResolveRetry ==
  /\ retrying' = FALSE
  /\ caller' = [p \in Prompts |-> IF caller[p] = "waiting" THEN "idling" ELSE caller[p]]

(***************************************************************************)
(* The agent, as far as its callers and listeners see it: a user message   *)
(* (a prompt, a queued message, or one the loop writes itself), then       *)
(* replies and tool results.                                               *)
(***************************************************************************)
StartRun(pc) ==
  /\ run' = [NoRun EXCEPT !.pc = pc]
  /\ disturbed' = (disturbed \/ events # <<>> \/ handler # "free")

\* processEvents pushes the message; _handleAgentEvent chains its processing.
Emit(m) ==
  /\ messages' = Append(messages, m)
  /\ lastId' = m.id
  /\ IF Connected
     THEN events' = Append(events, [type |-> "message_end", message |-> m]) /\ UNCHANGED lost
     ELSE lost' = lost \cup {m.id} /\ UNCHANGED events
  /\ UNCHANGED <<session, handler, handling, lastAssistant, retryVars, compactionVars,
                 pendingBash, caller, history>>

EmitUser ==
  /\ run.pc = "prompts"
  /\ Emit(Message(lastId + 1, "user", ""))
  /\ run' = [run EXCEPT !.pc = "request"]
  /\ UNCHANGED <<queued, left>>

\* A poll of the steering queue.
InjectQueued ==
  /\ run.pc = "request" /\ queued > 0
  /\ Emit(Message(lastId + 1, "user", ""))
  /\ queued' = queued - 1
  /\ UNCHANGED <<run, left>>

\* A reply without a call ends the run unless a message is queued; the loop
\* retries some failures itself, with a message of its own.
HasStopped(stop) == stop \in {"stop", "oversized"}
After(stop) ==
  CASE stop = "toolUse" -> {"tools"}
    [] HasStopped(stop) -> IF queued > 0 THEN {"prompts"} ELSE {"ending"}
    [] stop = "aborted" -> {"ending"}
    [] OTHER -> {"ending", "prompts"}

StreamReply(stop) ==
  LET m == Message(lastId + 1, "assistant", stop)
  IN  /\ run.pc = "request"
      /\ stop = "aborted" => run.aborted
      /\ IF stop \in {"stop", "aborted"} THEN UNCHANGED left ELSE Spend
      /\ Emit(m)
      /\ \E pc \in After(stop) : run' = [run EXCEPT !.pc = pc, !.reply = m]
      /\ queued' = IF HasStopped(stop) /\ queued > 0 THEN queued - 1 ELSE queued

ToolResult ==
  /\ run.pc = "tools"
  /\ Emit(Message(lastId + 1, "toolResult", ""))
  /\ run' = [run EXCEPT !.pc = "request"]
  /\ UNCHANGED <<queued, left>>

\* Mutant: no promise before the queue reaches the agent_end.
PromisesWhenProcessed(reply) == retrying

\* _createRetryPromiseForAgentEnd.
PromisesRetry(reply) == retrying \/ IsRetryableError(reply)

\* agent_end, for which _handleAgentEvent creates the retry promise at once, and
\* finishRun, which lets the caller of agent.prompt go on.
AgentEnd(reply) ==
  /\ run' = NoRun
  /\ caller' = [p \in Prompts |-> IF caller[p] = "running" THEN "returned" ELSE caller[p]]
  /\ IF Connected
     THEN /\ events' = Append(events, [type |-> "agent_end", message |-> reply])
          /\ retrying' = PromisesRetry(reply)
          /\ UNCHANGED orphaned
     ELSE UNCHANGED <<events, retrying>> /\ orphaned' = TRUE
  /\ UNCHANGED <<queued, session, handler, handling, lastAssistant, retryAttempt, timers,
                 compactionVars, pendingBash, disturbed>>

EndRun == /\ run.pc = "ending"
          /\ AgentEnd(run.reply)
          /\ UNCHANGED <<messages, lastId, left, lost>>

\* The time budget is spent before a request.
GateShut == /\ run.pc = "request"
            /\ AgentEnd(run.reply)
            /\ UNCHANGED <<messages, lastId, left, lost>>

\* handleRunFailure: the failure is in the transcript and in agent_end, but no
\* message_end tells of it.
RequestThrows(stop) ==
  LET failure == Message(lastId + 1, "assistant", stop)
  IN  /\ run.pc = "request"
      /\ (stop = "aborted") = run.aborted
      /\ Spend
      /\ messages' = Append(messages, failure)
      /\ lastId' = failure.id
      /\ lost' = lost \cup {failure.id}
      /\ AgentEnd(failure)

Stops == {"stop", "oversized", "toolUse", "error", "overflow", "failed", "aborted"}
AgentStep == \/ EmitUser \/ InjectQueued \/ ToolResult \/ EndRun \/ GateShut
             \/ \E stop \in Stops : StreamReply(stop)
             \/ \E stop \in {"error", "failed", "aborted"} : RequestThrows(stop)

(***************************************************************************)
(* Compaction.                                                             *)
(***************************************************************************)
\* What _checkCompaction decides; whether usage is over the threshold is data.
\* BOUND: no compaction begins when MaxTroubles is used up.
CheckOutcomes(m, skipAborted) ==
  IF \/ skipAborted /\ m.stop = "aborted"
     \/ m.id < LatestCompaction(session).id
     \/ IsContextOverflow(m) /\ overflowRecoveryAttempted
     \/ left = 0
  THEN {"none"}
  ELSE IF IsContextOverflow(m) THEN {"overflow"} ELSE {"none", "threshold"}

\* Mutant: the last message is taken out, whatever it is.
DroppingAnything(s) == IF s # <<>> THEN Front(s) ELSE s

\* The last reply of a transcript, taken out before a retry, whichever it is.
Dropping(s) == IF LastIsReply(s) THEN Front(s) ELSE s
LostByDropping(s) == IF LastIsReply(s) /\ ~IsError(Last(s)) THEN {Last(s).id} ELSE {}

\* _checkCompaction up to the first await of _runAutoCompaction.
CheckCompaction(c, outcome, transcript) ==
  IF outcome = "none"
  THEN /\ messages' = transcript
       /\ UNCHANGED <<compactionVars, left, lost>>
  ELSE /\ Spend
       /\ compaction' = [compaction EXCEPT ![c] =
                           [Idle EXCEPT !.pc = "auth", !.retry = (outcome = "overflow")]]
       /\ controller' = "live"
       /\ IF outcome = "overflow"
          THEN /\ overflowRecoveryAttempted' = TRUE
               /\ messages' = Dropping(transcript)
               /\ lost' = lost \cup LostByDropping(transcript)
          ELSE messages' = transcript /\ UNCHANGED <<overflowRecoveryAttempted, lost>>

\* prepareCompaction, when there is a credential.
Prepare(c) ==
  /\ compaction[c].pc = "auth"
  /\ \E keep \in CutPoints(session) :
       compaction' = [compaction EXCEPT ![c].pc = "summary", ![c].keep = keep]
  /\ UNCHANGED <<agentVars, session, eventVars, retryVars, controller,
                 overflowRecoveryAttempted, pendingBash, caller, lastId, left, lost,
                 history>>

\* The finally block, and what awaited the compaction.
EndCompaction(c) ==
  /\ compaction' = [compaction EXCEPT ![c] = Idle]
  /\ controller' = IF c = Manual THEN controller ELSE "none"
  /\ caller' = IF c \in Prompts THEN [caller EXCEPT ![c] = "ready"] ELSE caller
  /\ handler' = IF c = EventQueue THEN "free" ELSE handler
  /\ handling' = IF c = EventQueue THEN NoMessage ELSE handling
  /\ UNCHANGED <<run, queued, events, lastAssistant, retrying, retryAttempt,
                 overflowRecoveryAttempted, pendingBash, left, history>>

\* No credential, nothing to compact, cancelled, or an error on the way; a
\* controller that another compaction has cleared is such an error.
CompactionFails(c) ==
  /\ compaction[c].pc \in {"auth", "summary"}
  /\ EndCompaction(c)
  /\ UNCHANGED <<messages, session, timers, lastId, lost>>

\* appendCompaction; the transcript becomes the session's context.
Summarized(c) ==
  /\ compaction[c].pc = "summary"
  /\ c # Manual => controller = "live"
  /\ lastId' = lastId + 1
  /\ session' = Append(session, Compaction(lastId', compaction[c].keep))
  /\ messages' = LET built == Context(session')
                 IN  IF compaction[c].retry /\ IsError(Last(built)) THEN Front(built) ELSE built
  /\ lost' = lost \cup (IdsIn(messages) \ IdsIn(session))
  /\ timers' = IF c # Manual /\ (compaction[c].retry \/ queued > 0) THEN timers + 1 ELSE timers
  /\ EndCompaction(c)

\* compact(), which does not listen to the agent until it is done.
Compact ==
  /\ Connected
  /\ Spend
  /\ compaction' = [compaction EXCEPT ![Manual].pc = "waiting"]
  /\ run' = [run EXCEPT !.aborted = IsStreaming]
  /\ handler' = IF handler = "sleep" THEN "cancelled" ELSE handler
  /\ ResolveRetry
  /\ disturbed' = TRUE
  /\ UNCHANGED <<messages, queued, session, events, handling, lastAssistant, retryAttempt,
                 timers, controller, overflowRecoveryAttempted, pendingBash, lastId, lost,
                 orphaned>>

CompactIdle ==
  /\ compaction[Manual].pc = "waiting" /\ ~IsStreaming
  /\ compaction' = [compaction EXCEPT ![Manual].pc = "auth"]
  /\ UNCHANGED <<agentVars, session, eventVars, retryVars, controller,
                 overflowRecoveryAttempted, pendingBash, caller, lastId, left, lost,
                 history>>

CompactionStep == \/ CompactIdle
                  \/ \E c \in Compactors : Prepare(c) \/ CompactionFails(c) \/ Summarized(c)

(***************************************************************************)
(* _processAgentEvent, one event after the other.                          *)
(***************************************************************************)
MayProcess(type) == handler = "free" /\ events # <<>> /\ Head(events).type = type

ProcessMessageEnd ==
  LET m == Head(events).message
      answered == IsReply(m) /\ ~IsError(m)
  IN  /\ MayProcess("message_end")
      /\ events' = Tail(events)
      /\ session' = Append(session, m)
      /\ lastAssistant' = IF IsReply(m) THEN m ELSE lastAssistant
      /\ retryAttempt' = IF answered THEN 0 ELSE retryAttempt
      /\ overflowRecoveryAttempted' =
           (overflowRecoveryAttempted /\ m.role # "user" /\ ~answered)
      /\ UNCHANGED <<agentVars, handler, handling, retrying, timers, compaction, controller,
                     pendingBash, caller, lastId, left, lost, history>>

\* agent_end of a run of which no reply was seen.
AgentEndForNobody ==
  /\ MayProcess("agent_end") /\ lastAssistant = NoMessage
  /\ events' = Tail(events)
  /\ orphaned' = TRUE
  /\ UNCHANGED <<agentVars, session, handler, handling, lastAssistant, retryVars,
                 compactionVars, pendingBash, caller, lastId, left, lost, disturbed>>

TakeAgentEnd ==
  /\ MayProcess("agent_end") /\ lastAssistant # NoMessage
  /\ events' = Tail(events)
  /\ lastAssistant' = NoMessage

\* Mutant: the counter of attempts is not compared with the limit.
AlwaysRetries(m) == IsRetryableError(m)

Retries(m) == IsRetryableError(m) /\ retryAttempt < MaxRetries

\* _handleRetryableError up to its sleep.
HandleRetryableError ==
  /\ TakeAgentEnd /\ Retries(lastAssistant)
  /\ handler' = "sleep" /\ handling' = lastAssistant
  /\ retrying' = TRUE
  /\ retryAttempt' = retryAttempt + 1
  /\ messages' = Dropping(messages)
  /\ lost' = lost \cup LostByDropping(messages)
  /\ UNCHANGED <<run, queued, session, timers, compactionVars, pendingBash, caller, lastId,
                 left, history>>

\* No retry, or none any more: _resolveRetry and _checkCompaction.
SettleAgentEnd(m) ==
  /\ retryAttempt' = IF IsRetryableError(m) THEN 0 ELSE retryAttempt
  /\ ResolveRetry
  /\ \E outcome \in CheckOutcomes(m, TRUE) :
       /\ CheckCompaction(EventQueue, outcome, messages)
       /\ handler' = IF outcome = "none" THEN "free" ELSE "compacting"
       /\ handling' = IF outcome = "none" THEN NoMessage ELSE m
  /\ UNCHANGED <<run, queued, session, timers, pendingBash, lastId, history>>

AgentEndWithoutRetry ==
  TakeAgentEnd /\ ~Retries(lastAssistant) /\ SettleAgentEnd(lastAssistant)

\* abortRetry rejected the sleep.
RetryCancelled ==
  /\ handler = "cancelled"
  /\ SettleAgentEnd(handling)
  /\ UNCHANGED <<events, lastAssistant>>

RetrySleepEnds ==
  /\ handler = "sleep"
  /\ handler' = "free" /\ handling' = NoMessage
  /\ timers' = timers + 1
  /\ UNCHANGED <<agentVars, session, events, lastAssistant, retrying, retryAttempt,
                 compactionVars, pendingBash, caller, lastId, left, lost, history>>

\* agent.continue(), whose errors nobody hears.
Continue ==
  \/ /\ IsStreaming
     /\ UNCHANGED <<run, queued, orphaned, disturbed>>
  \/ /\ ~IsStreaming /\ messages # <<>> /\ ~LastIsReply(messages)
     /\ StartRun("request")
     /\ UNCHANGED <<queued, orphaned>>
  \/ /\ ~IsStreaming /\ LastIsReply(messages) /\ queued > 0
     /\ StartRun("prompts")
     /\ queued' = queued - 1 /\ UNCHANGED orphaned
  \/ /\ ~IsStreaming
     /\ messages = <<>> \/ (LastIsReply(messages) /\ queued = 0)
     /\ orphaned' = TRUE
     /\ UNCHANGED <<run, queued, disturbed>>

TimerFires ==
  /\ timers > 0
  /\ timers' = timers - 1
  /\ Continue
  /\ UNCHANGED <<messages, session, eventVars, retrying, retryAttempt, compactionVars,
                 pendingBash, caller, lastId, left, lost>>

EventStep == \/ ProcessMessageEnd \/ AgentEndForNobody \/ HandleRetryableError
             \/ AgentEndWithoutRetry \/ RetryCancelled \/ RetrySleepEnds \/ TimerFires

(***************************************************************************)
(* The user.                                                               *)
(***************************************************************************)
\* prompt() while the agent is idle, up to the await of _checkCompaction.
Prompt(p) ==
  LET transcript == messages \o pendingBash
      reply == LastReply(transcript)
  IN  /\ caller[p] = "new" /\ ~IsStreaming /\ \A q \in 1..(p - 1) : caller[q] # "new"
      /\ session' = session \o pendingBash
      /\ pendingBash' = <<>>
      /\ \E outcome \in IF reply = NoMessage THEN {"none"} ELSE CheckOutcomes(reply, FALSE) :
           /\ CheckCompaction(p, outcome, transcript)
           /\ caller' = [caller EXCEPT ![p] = IF outcome = "none" THEN "ready" ELSE "compacting"]
      /\ UNCHANGED <<run, queued, eventVars, retryVars, lastId, history>>

\* agent.prompt, which throws when a run has begun meanwhile.
StartPrompt(p) ==
  /\ caller[p] = "ready"
  /\ IF IsStreaming
     THEN caller' = [caller EXCEPT ![p] = "threw"] /\ UNCHANGED <<run, disturbed>>
     ELSE caller' = [caller EXCEPT ![p] = "running"] /\ StartRun("prompts")
  /\ UNCHANGED <<messages, queued, session, eventVars, retryVars, compactionVars, pendingBash,
                 lastId, left, lost, orphaned>>

\* waitForRetry.
WaitForRetry(p) ==
  /\ \/ caller[p] = "returned"
        /\ caller' = [caller EXCEPT ![p] = IF retrying THEN "waiting" ELSE "done"]
     \/ caller[p] = "idling" /\ ~IsStreaming
        /\ caller' = [caller EXCEPT ![p] = "done"]
  /\ UNCHANGED <<agentVars, session, eventVars, retryVars, compactionVars, pendingBash, lastId,
                 left, lost, history>>

\* steer and followUp, and prompt() while the agent runs.
Queue ==
  /\ IsStreaming /\ Spend
  /\ queued' = queued + 1
  /\ UNCHANGED <<messages, run, session, eventVars, retryVars, compactionVars, pendingBash,
                 caller, lastId, lost, history>>

RecordBashResult ==
  LET m == Message(lastId + 1, "bashExecution", "")
  IN  /\ Spend
      /\ lastId' = m.id
      /\ IF IsStreaming
         THEN pendingBash' = Append(pendingBash, m) /\ UNCHANGED <<messages, session>>
         ELSE /\ messages' = Append(messages, m)
              /\ session' = Append(session, m)
              /\ UNCHANGED pendingBash
      /\ UNCHANGED <<run, queued, eventVars, retryVars, compactionVars, caller, lost, history>>

\* abort(), and abortRetry() alone when the agent is idle.
Abort ==
  /\ Spend
  /\ run' = [run EXCEPT !.aborted = IsStreaming]
  /\ handler' = IF handler = "sleep" THEN "cancelled" ELSE handler
  /\ ResolveRetry
  /\ disturbed' = TRUE
  /\ UNCHANGED <<messages, queued, session, events, handling, lastAssistant, retryAttempt,
                 timers, compactionVars, pendingBash, lastId, lost, orphaned>>

AbortCompaction ==
  /\ controller = "live" /\ Spend
  /\ controller' = "aborted"
  /\ UNCHANGED <<agentVars, session, eventVars, retryVars, compaction,
                 overflowRecoveryAttempted, pendingBash, caller, lastId, lost, history>>

UserStep == \/ \E p \in Prompts : Prompt(p)
            \/ Queue \/ RecordBashResult \/ Abort \/ AbortCompaction \/ Compact

SystemStep == \/ AgentStep \/ CompactionStep \/ EventStep
              \/ \E p \in Prompts : StartPrompt(p) \/ WaitForRetry(p)

Next == SystemStep \/ UserStep

\* Promises and timers run as long as there are some, and a request ends.  Every
\* step spends something bounded, so fairness to the system as a whole is enough.
Fairness == WF_vars(SystemStep)
Spec == Init /\ [][Next]_vars /\ Fairness

(***************************************************************************)
(* Properties.                                                             *)
(***************************************************************************)
Roles == {"user", "assistant", "toolResult", "bashExecution", "summary", "compaction", "none"}
IsMessage(m) == /\ m.id \in 0..lastId /\ m.role \in Roles /\ m.stop \in Stops \cup {""}
                /\ m.keep \in 0..lastId

\* Types; no more than MaxRetries attempts are ever made for one answer.
TypeOK ==
  /\ \A s \in {messages, session, pendingBash} : \A m \in ToSet(s) : IsMessage(m)
  /\ \A e \in ToSet(events) : e.type \in {"message_end", "agent_end"} /\ IsMessage(e.message)
  /\ IsMessage(handling) /\ IsMessage(lastAssistant) /\ IsMessage(run.reply)
  /\ run.pc \in {"idle", "prompts", "request", "tools", "ending"}
  /\ handler \in {"free", "sleep", "cancelled", "compacting"}
  /\ caller \in [Prompts -> {"new", "compacting", "ready", "running", "returned", "waiting",
                             "idling", "done", "threw"}]
  /\ controller \in {"none", "live", "aborted"}
  /\ {retrying, overflowRecoveryAttempted, orphaned, disturbed} \subseteq BOOLEAN
  /\ {queued, timers, lastId} \subseteq Nat
  /\ retryAttempt \in 0..MaxRetries
  /\ lost \subseteq 1..lastId

Quiescent == /\ ~IsStreaming /\ events = <<>> /\ handler = "free"
             /\ \A c \in Compactors : compaction[c].pc = "none"

\* When all is quiet the model's transcript is what the session would give when it
\* is opened again: the same messages (failures aside, which a retry takes out of
\* the transcript only), in the same order but for bash results, which are entered
\* when they arrive.  The exceptions are listed in lost.
ContextAgrees ==
  Quiescent =>
    LET context == Context(session)
        both == { m \in ToSet(messages \o context) : ~IsError(m) /\ m.id \notin lost }
        talk == { m \in both : m.role # "bashExecution" }
    IN  /\ Only(messages, talk) = Only(context, talk)
        /\ both \subseteq ToSet(messages) /\ both \subseteq ToSet(context)

\* As long as nobody aborts and no run begins before the events of the one before
\* are processed (whose agent_end resolves whichever promise there is), a retry that
\* is due or slept for is announced by the promise that prompt() waits for.
RetryIsAwaited ==
  handler = "sleep" \/ (\E i \in DOMAIN events : /\ events[i].type = "agent_end"
                                                 /\ IsRetryableError(events[i].message))
    => retrying \/ disturbed

\* Every prompt() returns, unless an agent_end came without a reply or to a session
\* that does not listen, or a retry found nothing to continue: the errors of its
\* continue() are dropped for the next agent_end to see, and none follows.
PromptReturns ==
  \A p \in Prompts : caller[p] # "new" ~> caller[p] \in {"done", "threw"} \/ orphaned
=============================================================================
