------------------------------ MODULE Interactive ------------------------------
(***************************************************************************)
(* coding-agent/src/modes/interactive/interactive-mode.ts: what becomes of *)
(* a text that the user submits, queues, takes back, or submits while the  *)
(* context is being compacted; and what the escape key means meanwhile.    *)
(*                                                                         *)
(* The session below it is agent-session.ts as this class sees it: when it *)
(* is streaming, compacting or waiting for a retry, its two queues, and    *)
(* the events, which it emits one after the other and later than they      *)
(* happen when extensions take their time.  AgentSession models the rest.  *)
(***************************************************************************)
EXTENDS Naturals, Sequences, FiniteSets, SequencesExt

CONSTANTS
  NTexts,      \* BOUND: texts the user types, numbered as they are typed
  Commands,    \* those of them that are commands of an extension
  NFlushes,    \* BOUND: calls of flushCompactionQueue under way at once
  MaxRetries,  \* settings.retry.maxRetries
  MaxSteps     \* BOUND: texts, replies that fail or call a tool, compactions, navigations,
               \* prompts that are refused, and texts that are taken back, taken together

Flushes == 1..NFlushes
Loop == 0
Callers == {Loop} \cup Flushes     \* who calls session.prompt and waits for it
EventQueue == NFlushes + 1
Manual == NFlushes + 2
Compactors == Callers \cup {EventQueue, Manual}
Modes == {"steer", "followUp"}

VARIABLES
  editor,      \* the texts that make up what the editor holds
  held,        \* compactionQueuedMessages
  flush,       \* the calls of flushCompactionQueue: what is restored, what is left to send
  ui,          \* the escape handler, those that were saved, and the indicators
  prompts,     \* the calls of session.prompt
  run,         \* the agent's run
  waiting,     \* the agent's two queues
  shown,       \* _steeringMessages and _followUpMessages
  answered,    \* the transcript ends with a reply
  events,      \* the events that _agentEventQueue has not processed
  handler,     \* what the event that is being processed awaits
  retrying,    \* there is a _retryPromise
  retryAttempt,
  timers,      \* continue() calls that setTimeout will make
  compaction,  \* where each compaction is
  overflowRecoveryAttempted,
  navigation,  \* where navigateTree is, if it summarises, and the escape handler before it
  branchSummary, \* there is a _branchSummaryAbortController
  typed, troubles, \* how many texts were typed, and how much else of MaxSteps happened
  said,        \* history: the texts the agent or a command was given
  dropped,     \* history: texts the code gives up
  repeated,    \* history: texts the code has kept although they were said, or will be, or
               \* puts back while they are somewhere else as well
  unheard,     \* history: some of held was submitted while a branch was summarised, and
               \* nothing compacted
  crossed      \* history: two compactions, a compaction and a retry, or /compact and the
               \* events of a run or a retry to come, at once; or a navigation

texts == <<editor, held, flush, unheard>>
agent == <<run, waiting, answered>>
retry == <<retrying, retryAttempt, timers>>
compactions == <<compaction, overflowRecoveryAttempted>>
navigations == <<navigation, branchSummary>>
bounds == <<typed, troubles>>
history == <<dropped, repeated>>
vars == <<texts, ui, prompts, agent, shown, events, handler, retry, compactions, navigations,
          bounds, said, history, crossed>>

NoText == <<>>
NoPrompt == [pc |-> "none", text |-> NoText]
NoFlush == [batch |-> <<>>, rest |-> <<>>, asked |-> FALSE]
NoRun == [pc |-> "idle", aborted |-> FALSE, last |-> "stop", owner |-> Manual]
NotCompacting == [pc |-> "none", again |-> FALSE]
NoNavigation == [pc |-> "none", summarize |-> FALSE, onEscape |-> "main"]
Queues == [mode \in Modes |-> <<>>]
AtRest == [onEscape |-> "main", savedRetry |-> "none", savedCompaction |-> "none",
           loading |-> FALSE, retryLoader |-> FALSE, compactionLoader |-> FALSE]

Init ==
  /\ editor = NoText /\ held = <<>> /\ flush = [f \in Flushes |-> NoFlush]
  /\ ui = AtRest /\ prompts = [c \in Callers |-> NoPrompt]
  /\ run = NoRun /\ waiting = Queues /\ shown = Queues /\ answered = FALSE
  /\ events = <<>> /\ handler = "free"
  /\ retrying = FALSE /\ retryAttempt = 0 /\ timers = 0
  /\ compaction = [c \in Compactors |-> NotCompacting] /\ overflowRecoveryAttempted = FALSE
  /\ navigation = NoNavigation /\ branchSummary = FALSE
  /\ typed = 0 /\ troubles = 0 /\ said = <<>>
  /\ dropped = {} /\ repeated = {} /\ unheard = FALSE /\ crossed = FALSE

Spend == typed + troubles < MaxSteps /\ troubles' = troubles + 1

IsStreaming == run.pc # "idle"
Running == { c \in Compactors : compaction[c].pc = "running" }
Compacts == Running # {}
IsCompacting == Compacts \/ branchSummary
IsListening == prompts[Loop].pc = "none"    \* onInputCallback is set
Connected == compaction[Manual].pc = "none"

\* isExtensionCommand: a slash and a name that an extension has registered.
IsExtensionCommand(text) == text[1] \in Commands

Texts(messages) == [i \in DOMAIN messages |-> messages[i].text]
OfMode(messages, mode) ==
  FlattenSeq([i \in DOMAIN messages |->
                IF messages[i].mode = mode THEN <<messages[i].text>> ELSE <<>>])
Atoms(some) == UNION { ToSet(some[i]) : i \in DOMAIN some }
Queued(queues) == Atoms(queues["steer"]) \cup Atoms(queues["followUp"])
Said == Atoms(said)

\* What a prompt, and a flush, has still to say.
InHand(c) == IF prompts[c].pc \in {"compacting", "ready", "threw"} THEN ToSet(prompts[c].text)
             ELSE {}
Sending(f) == Atoms(Texts(flush[f].rest))

(***************************************************************************)
(* handleEvent, as far as the escape key and the indicators go.            *)
(***************************************************************************)
\* Mutant: the handler of a retry stays when its run begins.
KeepsRetryHandler(u) == [u EXCEPT !.retryLoader = FALSE, !.loading = TRUE]

AgentStarted(u) ==
  [u EXCEPT !.onEscape = IF u.savedRetry = "none" THEN @ ELSE u.savedRetry,
            !.savedRetry = "none", !.retryLoader = FALSE, !.loading = TRUE]

AgentEnded(u) == [u EXCEPT !.loading = FALSE]

CompactionStarted(u) ==
  [u EXCEPT !.savedCompaction = u.onEscape, !.onEscape = "abortCompaction",
            !.compactionLoader = TRUE]

CompactionEnded(u) ==
  [u EXCEPT !.onEscape = IF u.savedCompaction = "none" THEN @ ELSE u.savedCompaction,
            !.savedCompaction = "none", !.compactionLoader = FALSE]

RetryStarted(u) ==
  [u EXCEPT !.savedRetry = u.onEscape, !.onEscape = "abortRetry", !.retryLoader = TRUE]

RetryEnded(u) ==
  [u EXCEPT !.onEscape = IF u.savedRetry = "none" THEN @ ELSE u.savedRetry,
            !.savedRetry = "none", !.retryLoader = FALSE]

\* A handler is saved while another than the main one is set.
Crossing(u) == crossed' = (crossed \/ u.onEscape # "main")

(***************************************************************************)
(* flushCompactionQueue                                                    *)
(***************************************************************************)
IsFree(f) == flush[f].rest = <<>> /\ prompts[f] = NoPrompt
Begin(f, again) ==
  /\ IsFree(f) /\ \A g \in 1..(f - 1) : ~IsFree(g)
  /\ flush' = [flush EXCEPT ![f] = [batch |-> held, rest |-> held, asked |-> again]]

\* Called at the end of a compaction; with a retry to come nothing is prompted.
TakeHeld(again) ==
  /\ held' = <<>> /\ unheard' = FALSE
  /\ IF held = <<>> THEN UNCHANGED flush ELSE \E f \in Flushes : Begin(f, again)

\* Mutant: followUp enters the text in the list of steering messages.
ListsAsSteering(mode, text) ==
  /\ waiting' = [waiting EXCEPT ![mode] = Append(@, text)]
  /\ shown' = [shown EXCEPT !["steer"] = Append(@, text)]

\* steer and followUp: the session's list and the agent's queue.
Enqueue(mode, text) ==
  /\ waiting' = [waiting EXCEPT ![mode] = Append(@, text)]
  /\ shown' = [shown EXCEPT ![mode] = Append(@, text)]

\* restoreQueue, when the prompt was refused: the session's queue is emptied,
\* the messages are queued again, whatever has become of them (one was said, taken
\* back to the editor, or is in the hands of another flush) and whatever has been
\* queued since.
RestoreQueue(f) ==
  LET batch == Atoms(Texts(flush[f].batch))
      elsewhere == ToSet(editor) \cup (UNION { InHand(c) : c \in Callers \ {f} })
                   \cup (UNION { Sending(g) : g \in Flushes })
  IN  /\ waiting' = Queues /\ shown' = Queues
      /\ held' = flush[f].batch
      /\ dropped' = dropped \cup ((Queued(waiting) \cup Atoms(Texts(held))) \ batch)
      /\ repeated' = repeated \cup (batch \cap (Said \cup elsewhere))

(***************************************************************************)
(* session.prompt, as far as its next await.  Without a handler for input  *)
(* it gets there at once.                                                  *)
(***************************************************************************)
StartCompaction(c, again, u) ==
  /\ compaction' = [compaction EXCEPT ![c] = [pc |-> "running", again |-> again]]
  /\ ui' = CompactionStarted(u)
  /\ Crossing(u)

\* Between two messages of a flush, and between an error and what catches it, there are
\* only promises that have resolved: nothing else happens.
Settled == /\ \A f \in Flushes : flush[f].rest = <<>>
           /\ \A c \in Callers : prompts[c].pc # "threw"

PromptAt(c, pc, text) == prompts' = [prompts EXCEPT ![c] = [pc |-> pc, text |-> text]]

CallPrompt(c, text) ==
  \/ \* No streamingBehavior, no model, or no credential.
     /\ IF IsStreaming THEN UNCHANGED troubles ELSE Spend
     /\ PromptAt(c, "threw", text)
     /\ UNCHANGED <<ui, compaction, crossed>>
  \/ /\ ~IsStreaming
     /\ PromptAt(c, "ready", text)
     /\ UNCHANGED <<ui, compaction, crossed, troubles>>
  \/ \* _checkCompaction, of the last reply.
     /\ ~IsStreaming /\ said # <<>> /\ Spend
     /\ PromptAt(c, "compacting", text)
     /\ StartCompaction(c, FALSE, ui)

Emit(some) == events' = IF Connected THEN events \o some ELSE events
Emitted(type, text, stop) == [type |-> type, text |-> text, stop |-> stop]

StartRun(pc, owner) == run' = [NoRun EXCEPT !.pc = pc, !.owner = owner]

\* agent.prompt, which throws when a run has begun meanwhile.
StartPrompt(c) ==
  /\ prompts[c].pc = "ready"
  /\ IF IsStreaming
     THEN /\ PromptAt(c, "threw", prompts[c].text)
          /\ UNCHANGED <<run, answered, events, said>>
     ELSE /\ PromptAt(c, "running", prompts[c].text)
          /\ StartRun("poll", c)
          /\ said' = Append(said, prompts[c].text)
          /\ answered' = FALSE
          /\ Emit(<<Emitted("agent_start", NoText, ""), Emitted("user", prompts[c].text, "")>>)
  /\ UNCHANGED <<texts, ui, waiting, shown, handler, retry, compactions, bounds, history,
                 crossed>>

\* The loop of run() shows the error and asks for the next text.
LoopRefused ==
  /\ prompts[Loop].pc = "threw"
  /\ PromptAt(Loop, "none", NoText)
  /\ dropped' = dropped \cup ToSet(prompts[Loop].text)
  /\ UNCHANGED <<texts, ui, agent, shown, events, handler, retry, compactions, bounds, said,
                 repeated, crossed>>

FlushRefused(f) ==
  /\ prompts[f].pc = "threw"
  /\ PromptAt(f, "none", NoText)
  /\ RestoreQueue(f)
  /\ UNCHANGED <<editor, flush, unheard, ui, run, answered, events, handler, retry,
                 compactions, bounds, said, crossed>>

\* waitForRetry.
PromptReturns(c) ==
  /\ \/ /\ prompts[c].pc = "returned"
        /\ IF retrying THEN PromptAt(c, "waiting", NoText) ELSE PromptAt(c, "none", NoText)
     \/ /\ prompts[c].pc = "idling" /\ ~IsStreaming
        /\ PromptAt(c, "none", NoText)
  /\ UNCHANGED <<texts, ui, agent, shown, events, handler, retry, compactions, bounds, said,
                 history, crossed>>

\* One message of a flush: the first is prompted, what follows it is queued for the run
\* that the prompt begins.  No command of an extension is ever held.
FlushNext(f) ==
  /\ flush[f].rest # <<>>
  /\ LET m == Head(flush[f].rest)
         sent == [flush[f] EXCEPT !.rest = Tail(@)]
     IN  \/ /\ ~flush[f].asked
            /\ flush' = [flush EXCEPT ![f] = [sent EXCEPT !.asked = TRUE]]
            /\ CallPrompt(f, m.text)
            /\ UNCHANGED <<waiting, shown>>
         \/ /\ flush[f].asked
            /\ flush' = [flush EXCEPT ![f] = sent]
            /\ Enqueue(m.mode, m.text)
            /\ UNCHANGED <<prompts, ui, compaction, crossed, troubles>>
  /\ UNCHANGED <<editor, held, unheard, run, answered, events, handler, retry,
                 overflowRecoveryAttempted, typed, said, history>>

(***************************************************************************)
(* The agent: it polls its queues, asks, and ends.                         *)
(***************************************************************************)
\* What it takes while the session does not listen stays in the session's list.
Take(mode) ==
  LET text == Head(waiting[mode])
  IN  /\ waiting' = [waiting EXCEPT ![mode] = Tail(@)]
      /\ said' = Append(said, text)
      /\ repeated' = IF Connected THEN repeated ELSE repeated \cup ToSet(text)

\* A poll of the steering queue.
Poll ==
  /\ Settled
  /\ run.pc = "poll"
  /\ run' = [run EXCEPT !.pc = "request"]
  /\ IF waiting["steer"] = <<>>
     THEN UNCHANGED <<waiting, answered, events, said, repeated>>
     ELSE /\ Take("steer")
          /\ answered' = FALSE
          /\ Emit(<<Emitted("user", Head(waiting["steer"]), "")>>)
  /\ UNCHANGED <<texts, ui, prompts, shown, handler, retry, compactions, bounds, dropped,
                 crossed>>

Stops == {"toolUse", "stop", "aborted", "error", "overflow"}

\* A reply without a call ends the run unless a message is queued.
Reply(stop) ==
  LET replied == Emitted("reply", NoText, stop)
      continues == stop = "toolUse" \/ (stop = "stop" /\ waiting["steer"] # <<>>)
      follows == stop = "stop" /\ waiting["steer"] = <<>> /\ waiting["followUp"] # <<>>
  IN  /\ Settled /\ run.pc = "request"
      /\ stop = "aborted" => run.aborted
      /\ IF stop \in {"stop", "aborted"} THEN UNCHANGED troubles ELSE Spend
      /\ run' = [run EXCEPT !.last = stop,
                            !.pc = IF continues \/ follows THEN "poll" ELSE "ending"]
      /\ answered' = ~follows
      /\ IF follows
         THEN /\ Take("followUp")
              /\ Emit(<<replied, Emitted("user", Head(waiting["followUp"]), "")>>)
         ELSE Emit(<<replied>>) /\ UNCHANGED <<waiting, said, repeated>>
      /\ UNCHANGED <<texts, ui, prompts, shown, handler, retry, compactions, typed, dropped,
                     crossed>>

\* agent_end, whose retry promise is made at once, and finishRun.
EndRun ==
  /\ Settled
  /\ run.pc = "ending"
  /\ Emit(<<Emitted("agent_end", NoText, run.last)>>)
  /\ retrying' = (retrying \/ (Connected /\ run.last = "error"))
  /\ prompts' = IF run.owner \in Callers THEN [prompts EXCEPT ![run.owner].pc = "returned"]
                ELSE prompts
  /\ run' = NoRun
  /\ UNCHANGED <<texts, ui, waiting, answered, shown, handler, retryAttempt, timers,
                 compactions, bounds, said, history, crossed>>

\* agent.continue(), whose errors nobody hears.
TimerFires ==
  /\ Settled
  /\ timers > 0
  /\ timers' = timers - 1
  /\ LET mode == IF waiting["steer"] # <<>> THEN "steer" ELSE "followUp"
     IN  IF IsStreaming \/ (answered /\ waiting = Queues)
         THEN UNCHANGED <<run, waiting, answered, events, said, repeated>>
         ELSE IF answered
         THEN /\ Take(mode)
              /\ StartRun(IF mode = "steer" THEN "request" ELSE "poll", Manual)
              /\ answered' = FALSE
              /\ Emit(<<Emitted("agent_start", NoText, ""),
                        Emitted("user", Head(waiting[mode]), "")>>)
         ELSE /\ StartRun("poll", Manual)
              /\ Emit(<<Emitted("agent_start", NoText, "")>>)
              /\ UNCHANGED <<waiting, answered, said, repeated>>
  /\ UNCHANGED <<texts, ui, prompts, shown, handler, retrying, retryAttempt, compactions, bounds,
                 dropped, crossed>>

AgentStep == Poll \/ EndRun \/ TimerFires \/ \E stop \in Stops : Reply(stop)

(***************************************************************************)
(* The session processes its events; what it tells the mode is handled at  *)
(* once.                                                                   *)
(***************************************************************************)
MayProcess(type) == Settled /\ handler = "free" /\ events # <<>> /\ Head(events).type = type

ProcessStart ==
  /\ MayProcess("agent_start")
  /\ events' = Tail(events)
  /\ ui' = AgentStarted(ui)
  /\ UNCHANGED <<texts, prompts, agent, shown, handler, retry, compactions, bounds, said,
                 history, crossed>>

\* A message that was queued leaves the list before anybody is told of it.
ProcessUser ==
  LET text == Head(events).text
      mode == IF text \in ToSet(shown["steer"]) THEN "steer" ELSE "followUp"
  IN  /\ MayProcess("user")
      /\ events' = Tail(events)
      /\ overflowRecoveryAttempted' = FALSE
      /\ shown' = [shown EXCEPT ![mode] = RemoveFirst(@, text)]
      /\ UNCHANGED <<texts, ui, prompts, agent, handler, retry, compaction, bounds, said,
                     history, crossed>>

ProcessReply ==
  LET failed == Head(events).stop \in {"error", "overflow"}
  IN  /\ MayProcess("reply")
      /\ events' = Tail(events)
      /\ IF failed THEN UNCHANGED <<retryAttempt, overflowRecoveryAttempted, ui>>
         ELSE /\ overflowRecoveryAttempted' = FALSE
              /\ retryAttempt' = 0
              /\ ui' = IF retryAttempt > 0 THEN RetryEnded(ui) ELSE ui
      /\ UNCHANGED <<texts, prompts, agent, shown, handler, retrying, timers, compaction, bounds,
                     said, history, crossed>>

\* _resolveRetry: every prompt() that waits for the promise goes on.
ResolveRetry ==
  /\ retrying' = FALSE
  /\ prompts' = [c \in Callers |-> IF prompts[c].pc = "waiting"
                                   THEN [prompts[c] EXCEPT !.pc = "idling"] ELSE prompts[c]]

\* _checkCompaction after a run that ended so; recovery is tried once.
CheckCompaction(stop, u) ==
  \/ /\ ui' = u /\ handler' = "free"
     /\ UNCHANGED <<held, flush, unheard, compactions, crossed, answered, troubles>>
  \/ /\ stop # "aborted" /\ stop # "overflow" /\ Spend
     /\ StartCompaction(EventQueue, FALSE, u) /\ handler' = "compacting"
     /\ UNCHANGED <<held, flush, unheard, overflowRecoveryAttempted, answered>>
  \/ /\ stop = "overflow" /\ ~overflowRecoveryAttempted
     /\ StartCompaction(EventQueue, TRUE, u) /\ handler' = "compacting"
     /\ overflowRecoveryAttempted' = TRUE /\ answered' = FALSE
     /\ UNCHANGED <<held, flush, unheard, troubles>>
  \/ /\ stop = "overflow" /\ overflowRecoveryAttempted
     /\ ui' = CompactionEnded(u) /\ handler' = "free"
     /\ TakeHeld(FALSE)
     /\ crossed' = (crossed \/ Compacts)
     /\ UNCHANGED <<compactions, answered, troubles>>

\* _handleRetryableError up to its sleep.
RetryAgain ==
  /\ MayProcess("agent_end") /\ Head(events).stop = "error" /\ retryAttempt < MaxRetries
  /\ events' = Tail(events)
  /\ ui' = RetryStarted(AgentEnded(ui)) /\ Crossing(ui)
  /\ handler' = "sleep" /\ retrying' = TRUE /\ retryAttempt' = retryAttempt + 1
  /\ answered' = FALSE
  /\ UNCHANGED <<texts, prompts, run, waiting, shown, timers, compactions, bounds, said,
                 history>>

ProcessEnd ==
  LET stop == Head(events).stop
      ended == AgentEnded(ui)
  IN  /\ MayProcess("agent_end") /\ ~(stop = "error" /\ retryAttempt < MaxRetries)
      /\ events' = Tail(events)
      /\ retryAttempt' = IF stop = "error" THEN 0 ELSE retryAttempt
      /\ ResolveRetry
      /\ CheckCompaction(stop, IF stop = "error" THEN RetryEnded(ended) ELSE ended)
      /\ UNCHANGED <<editor, run, waiting, shown, timers, typed, said, history>>

RetrySleepEnds ==
  /\ Settled
  /\ handler = "sleep"
  /\ handler' = "free"
  /\ timers' = timers + 1
  /\ UNCHANGED <<texts, ui, prompts, agent, shown, events, retrying, retryAttempt, compactions,
                 bounds, said, history, crossed>>

\* compact() once the agent is idle.
CompactIdle ==
  /\ Settled /\ compaction[Manual].pc = "waiting" /\ ~IsStreaming
  /\ StartCompaction(Manual, FALSE, ui)
  /\ UNCHANGED <<texts, prompts, agent, shown, events, handler, retry,
                 overflowRecoveryAttempted, bounds, said, history>>

\* Done, failed or cancelled: the mode is told, and sends what was queued.
EndCompaction(c, done) ==
  /\ Settled
  /\ compaction[c].pc = "running"
  /\ compaction' = [compaction EXCEPT ![c] = NotCompacting]
  /\ ui' = CompactionEnded(ui)
  /\ TakeHeld(done /\ compaction[c].again)
  /\ timers' = IF done /\ c # Manual /\ (compaction[c].again \/ waiting # Queues)
               THEN timers + 1 ELSE timers
  /\ prompts' = IF c \in Callers THEN [prompts EXCEPT ![c].pc = "ready"] ELSE prompts
  /\ handler' = IF c = EventQueue THEN "free" ELSE handler
  /\ UNCHANGED <<editor, agent, shown, events, retrying, retryAttempt,
                 overflowRecoveryAttempted, bounds, said, history, crossed>>

SessionStep == \/ ProcessStart \/ ProcessUser \/ ProcessReply \/ ProcessEnd \/ RetryAgain
               \/ RetrySleepEnds \/ CompactIdle
               \/ \E c \in Compactors, done \in BOOLEAN : EndCompaction(c, done)

(***************************************************************************)
(* The user.                                                               *)
(***************************************************************************)
\* Enter empties the editor before onSubmit is called; handleFollowUp does so when it queues
\* the text itself, and else calls onSubmit as it is.
Remains(mode, text) ==
  IF mode = "followUp" /\ ~IsCompacting /\ ~IsStreaming THEN text ELSE NoText

\* queueCompactionMessage.
Hold(text, mode) == held' = Append(held, [text |-> text, mode |-> mode])

\* onSubmit and handleFollowUp with a text that ends with a new one.
Submit(mode) ==
  LET text == Append(editor, typed + 1)
  IN  /\ Settled /\ typed < NTexts /\ typed + troubles < MaxSteps
      /\ typed' = typed + 1
      /\ editor' = Remains(mode, text)
      /\ \/ /\ IsCompacting /\ ~IsExtensionCommand(text)
            /\ Hold(text, mode) /\ unheard' = (unheard \/ ~Compacts)
            /\ UNCHANGED <<prompts, ui, compaction, crossed, troubles, said, waiting, shown,
                           history>>
         \/ /\ IsCompacting \/ IsStreaming
            /\ IsExtensionCommand(text)
            /\ said' = Append(said, text)
            /\ UNCHANGED <<held, unheard, prompts, ui, compaction, crossed, troubles, waiting,
                           shown, history>>
         \/ /\ ~IsCompacting /\ IsStreaming /\ ~IsExtensionCommand(text)
            /\ Enqueue(mode, text)
            /\ UNCHANGED <<held, unheard, prompts, ui, compaction, crossed, troubles, said,
                           history>>
         \/ /\ ~IsCompacting /\ ~IsStreaming /\ IsListening
            /\ \/ /\ IsExtensionCommand(text)
                  /\ said' = Append(said, text)
                  /\ UNCHANGED <<prompts, ui, compaction, crossed, troubles>>
               \/ /\ ~IsExtensionCommand(text)
                  /\ CallPrompt(Loop, text)
                  /\ UNCHANGED said
            /\ repeated' = IF mode = "followUp" THEN repeated \cup ToSet(text) ELSE repeated
            /\ UNCHANGED <<held, unheard, waiting, shown, dropped>>
         \/ /\ ~IsCompacting /\ ~IsStreaming /\ ~IsListening
            /\ dropped' = IF mode = "steer" THEN dropped \cup ToSet(text) ELSE dropped
            /\ UNCHANGED <<held, unheard, prompts, ui, compaction, crossed, troubles, said,
                           waiting, shown, repeated>>
      /\ UNCHANGED <<flush, run, answered, events, handler, retry, overflowRecoveryAttempted>>

\* Mutant: what was queued during a compaction stays where it is.
ForgetsHeld(mode) == shown[mode]

\* clearAllQueues.
AllQueued(mode) == shown[mode] \o OfMode(held, mode)

\* restoreQueuedMessagesToEditor: what is listed comes back, also what the agent has
\* already been given when its message_start is still to be processed.
TakeBack ==
  LET taken == AllQueued("steer") \o AllQueued("followUp")
  IN  /\ editor' = FlattenSeq(taken) \o editor
      /\ waiting' = Queues /\ shown' = Queues /\ held' = <<>> /\ unheard' = FALSE
      /\ repeated' = repeated \cup (Atoms(taken) \cap Said)
      /\ UNCHANGED dropped

Dequeue ==
  /\ Settled
  /\ Spend
  /\ TakeBack
  /\ UNCHANGED <<flush, ui, prompts, run, answered, events, handler, retry, compactions, typed,
                 said, crossed>>

Escape ==
  /\ Settled /\ ui.onEscape = "main" /\ ui.loading /\ Spend
  /\ TakeBack
  /\ run' = [run EXCEPT !.aborted = IsStreaming]
  /\ UNCHANGED <<flush, ui, prompts, answered, events, handler, retry, compactions, typed, said,
                 crossed>>

\* abortRetry: the promise, and a sleep that rejects.
AbortRetry(u) ==
  /\ ResolveRetry
  /\ IF handler = "sleep"
     THEN retryAttempt' = 0 /\ CheckCompaction("error", RetryEnded(u))
     ELSE /\ ui' = u
          /\ UNCHANGED <<retryAttempt, handler, held, flush, unheard, compactions, crossed,
                         answered, troubles>>

EscapeRetry ==
  /\ Settled /\ ui.onEscape = "abortRetry"
  /\ AbortRetry(ui)
  /\ UNCHANGED <<editor, run, waiting, shown, events, timers, typed, said, history>>

\* handleCompactCommand and compact(), which does not listen to the agent until it
\* is done.  BOUND: one at a time.
Compact ==
  /\ Settled /\ Connected /\ said # <<>> /\ Spend
  /\ LET u == AgentEnded(ui)
     IN  IF handler = "sleep"
         THEN /\ ui' = RetryEnded(u) /\ retryAttempt' = 0 /\ handler' = "free"
         ELSE /\ ui' = u /\ UNCHANGED <<retryAttempt, handler>>
  /\ ResolveRetry
  /\ compaction' = [compaction EXCEPT ![Manual].pc = "waiting"]
  /\ run' = [run EXCEPT !.aborted = IsStreaming]
  /\ crossed' = (crossed \/ events # <<>> \/ timers > 0)
  /\ UNCHANGED <<texts, waiting, answered, shown, events, timers, overflowRecoveryAttempted,
                 typed, said, history>>

UserStep == Dequeue \/ Escape \/ EscapeRetry \/ Compact \/ \E mode \in Modes : Submit(mode)

PromptStep == \/ LoopRefused
              \/ \E f \in Flushes : FlushNext(f) \/ FlushRefused(f)
              \/ \E c \in Callers : StartPrompt(c) \/ PromptReturns(c)

(***************************************************************************)
(* /tree: the user has chosen an entry and whether the branch that is left *)
(* is summarised.  BOUND: one at a time.                                   *)
(***************************************************************************)
\* The controller is made for any navigation, the escape handler only for a summary.
Navigate(summarize) ==
  /\ Settled /\ navigation.pc = "none" /\ said # <<>> /\ Spend
  /\ navigation' = [pc |-> "asking", summarize |-> summarize, onEscape |-> ui.onEscape]
  /\ branchSummary' = TRUE
  /\ ui' = IF summarize THEN [ui EXCEPT !.onEscape = "abortBranchSummary"] ELSE ui
  /\ crossed' = TRUE
  /\ UNCHANGED <<texts, prompts, agent, shown, events, handler, retry, compactions, typed, said,
                 history>>

\* Extensions were asked, and the summary is made, if one was wanted and there was
\* something to summarise; only then is the controller let go before the end.  The
\* messages of the agent are those of the new branch.
NavigationMoves ==
  /\ Settled /\ navigation.pc = "asking"
  /\ navigation' = [navigation EXCEPT !.pc = "telling"]
  /\ branchSummary' \in IF navigation.summarize THEN BOOLEAN ELSE {TRUE}
  /\ answered' \in BOOLEAN
  /\ UNCHANGED <<texts, ui, prompts, run, waiting, shown, events, handler, retry, compactions,
                 bounds, said, history, crossed>>

\* The extensions were told; the text of a prompt that was chosen goes to an empty editor.
NavigationEnds ==
  /\ Settled /\ navigation.pc = "telling"
  /\ navigation' = NoNavigation /\ branchSummary' = FALSE
  /\ ui' = [ui EXCEPT !.onEscape = navigation.onEscape]
  /\ \/ UNCHANGED <<editor, repeated>>
     \/ \E i \in DOMAIN said : /\ editor = NoText /\ ~IsExtensionCommand(said[i])
                             /\ editor' = said[i]
                             /\ repeated' = repeated \cup ToSet(said[i])
  /\ UNCHANGED <<held, flush, unheard, prompts, agent, shown, events, handler, retry,
                 compactions, bounds, said, dropped, crossed>>

\* An extension cancels it, or there is no credential, and the controller stays; or the
\* summary fails or is aborted.
NavigationFails ==
  /\ Settled /\ navigation.pc = "asking"
  /\ navigation' = NoNavigation /\ branchSummary' \in BOOLEAN
  /\ ui' = [ui EXCEPT !.onEscape = navigation.onEscape]
  /\ UNCHANGED <<texts, prompts, agent, shown, events, handler, retry, compactions, bounds, said,
                 history, crossed>>

NavigationStep == \/ NavigationMoves \/ NavigationEnds \/ NavigationFails
                  \/ \E summarize \in BOOLEAN : Navigate(summarize)

Next == \/ (PromptStep \/ AgentStep \/ SessionStep \/ UserStep) /\ UNCHANGED navigations
        \/ NavigationStep
Spec == Init /\ [][Next]_vars

(***************************************************************************)
(* Properties.                                                             *)
(***************************************************************************)
\* Where a text is that was neither said nor given up.
Kept == ToSet(editor) \cup Atoms(Texts(held)) \cup Queued(waiting)
        \cup (UNION { InHand(c) : c \in Callers }) \cup (UNION { Sending(f) : f \in Flushes })

\* Whatever the user has submitted was given to the agent, or waits to be, or is back in
\* the editor, unless the code gave it up at one of the places that dropped names.
NothingLost == 1..typed \subseteq Kept \cup Said \cup dropped

\* No text is given to the agent twice, nor kept when the agent has it, but for those the
\* code puts back although they are gone.
NothingTwice ==
  /\ Kept \cap Said \subseteq repeated
  /\ \A i, j \in DOMAIN said : i # j => ToSet(said[i]) \cap ToSet(said[j]) \subseteq repeated

\* The list of queued messages holds what waits in the agent's queues, and what the agent
\* was given and has not been announced yet; only a text that is there twice can be missing
\* from it, since the announcement of the one takes the other off the list.
ShownIsWaiting ==
  \A mode \in Modes :
    LET announced == { events[i].text : i \in DOMAIN events }
    IN  /\ \A text \in ToSet(waiting[mode]) \ ToSet(shown[mode]) : ToSet(text) \subseteq repeated
        /\ \A text \in ToSet(shown[mode]) \ (ToSet(waiting[mode]) \cup announced) :
             ToSet(text) \subseteq repeated

\* A text that was submitted during a compaction is not held once nothing is being
\* compacted, unless the session refused it, and then it is held with all that was held
\* with it.  The exception are texts that were submitted while a branch was summarised and
\* nothing compacted: nobody sends those until a compaction ends.
HeldWhileCompacting ==
  \/ Compacts \/ held = <<>> \/ unheard
  \/ \E f \in Flushes : held = flush[f].batch

Quiet == /\ ~IsStreaming /\ events = <<>> /\ handler = "free" /\ timers = 0 /\ ~IsCompacting

\* Escape cancels what is under way, and does what it always does when nothing is.
EscapeFits ==
  \/ crossed
  \/ /\ handler = "sleep" => ui.onEscape = "abortRetry"
     /\ IsCompacting => ui.onEscape = "abortCompaction"
     /\ Quiet => ui = AtRest
=============================================================================
