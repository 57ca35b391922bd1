--------------------------- MODULE AgentSessionProofs ---------------------------
(***************************************************************************)
(* That a retry which is due is always announced by the promise prompt()   *)
(* waits for, that retries are limited, and that the transcript and the    *)
(* session stay the same, for any numbers of prompts, retries and troubles. *)
(*                                                                         *)
(* The promise is made when the run ends and is resolved when whichever    *)
(* agent_end is processed next.  What makes the two belong together is an   *)
(* order of turns between the agent and the event queue, InTurn below: as   *)
(* long as nobody aborts and every run waits for the events of the one      *)
(* before, at most one agent_end is queued, it is the last event, and       *)
(* whatever the queue awaits, no event waits behind it.                    *)
(*                                                                         *)
(* While events are queued the transcript runs ahead of what the session   *)
(* would give, by the messages that the events carry.                      *)
(* Entered below says so in every state, and what makes every step keep it *)
(* is that messages are entered once, each under a number of its own, and  *)
(* that what a compaction keeps is in the session when it is appended.     *)
(***************************************************************************)
EXTENDS AgentSession, WellFoundedInduction, SequenceTheorems, FiniteSetTheorems, TLAPS

AnyMessage == [id : Nat, role : Roles, stop : Stops \cup {""}, keep : Nat]
Event == [type : {"message_end", "agent_end"}, message : AnyMessage]
Phases == {"idle", "prompts", "request", "tools", "ending"}

Types == /\ run \in [pc : Phases, aborted : BOOLEAN, reply : AnyMessage]
         /\ events \in Seq(Event)
         /\ handler \in {"free", "sleep", "cancelled", "compacting"}
         /\ retrying \in BOOLEAN /\ disturbed \in BOOLEAN
         /\ lastId \in Nat
         /\ retryAttempt \in 0..MaxRetries

Ends == { i \in DOMAIN events : events[i].type = "agent_end" }
Due == { i \in Ends : IsRetryableError(events[i].message) }

InTurn == /\ IsStreaming => handler = "free" /\ Ends = {}
          /\ handler # "free" => events = <<>>
          /\ \A i \in Ends : i = Len(events)
          /\ handler # "cancelled"

Announced == handler = "sleep" \/ Due # {} => retrying

IInv == Types /\ (disturbed \/ (InTurn /\ Announced))

(***************************************************************************)
(* What the steps have in common.                                          *)
(***************************************************************************)
LEMMA MessageType ==
  ASSUME NEW id \in Nat, NEW role \in Roles, NEW stop \in Stops \cup {""}
  PROVE  Message(id, role, stop) \in AnyMessage
BY DEF Message, AnyMessage

LEMMA NoMessageType == NoMessage \in AnyMessage
BY DEF NoMessage, Message, AnyMessage, Roles

\* Most steps of the user and of a compaction leave turns and promises alone.
LEMMA Untouched ==
  ASSUME IInv, UNCHANGED <<run, events, handler, retrying, disturbed>>,
         lastId' \in Nat, retryAttempt' \in 0..MaxRetries
  PROVE  IInv'
BY DEF IInv, Types, InTurn, Announced, Ends, Due, IsStreaming

\* The queue may become free again, and only that.
LEMMA Freed ==
  ASSUME IInv, UNCHANGED <<run, events, retrying, disturbed, retryAttempt>>,
         handler' \in {handler, "free"}, lastId' \in Nat
  PROVE  IInv'
<1>1. Types' /\ Ends' = Ends /\ Due' = Due
  BY DEF IInv, Types, Ends, Due
<1>2. ASSUME ~disturbed, InTurn, Announced PROVE InTurn' /\ Announced'
  BY <1>1, <1>2 DEF InTurn, Announced, IsStreaming
<1> QED BY <1>1, <1>2 DEF IInv

\* After an abort nothing is promised.
LEMMA Disturbed ==
  ASSUME Types', disturbed'
  PROVE  IInv'
BY DEF IInv

\* The events behind the first, which are the last ones still.
LEMMA TailEnds ==
  ASSUME Types, events # <<>>, events' = Tail(events)
  PROVE  /\ events' \in Seq(Event) /\ Len(events)' = Len(events) - 1
         /\ \A i \in Ends' : i + 1 \in Ends
         /\ \A i \in Due' : i + 1 \in Due
<1> DEFINE t == Tail(events)
<1>1. /\ t \in Seq(Event) /\ Len(t) = Len(events) - 1 /\ Len(events) \in Nat
      /\ \A i \in 1..Len(t) : t[i] = events[i + 1]
  BY DEF Types
<1> HIDE DEF t
<1>2. events' = t
  BY DEF t
<1>3. DOMAIN events = 1..Len(events) /\ DOMAIN t = 1..Len(t)
  BY <1>1 DEF Types
<1>4. \A i \in Ends' : i + 1 \in Ends
  BY <1>1, <1>2, <1>3 DEF Ends
<1>5. \A i \in Due' : i + 1 \in Due
  BY <1>1, <1>2, <1>3, <1>4 DEF Due, Ends
<1> QED BY <1>1, <1>2, <1>4, <1>5

\* In turn, an agent_end at the head is the only event there is, and no run goes on.
LEMMA OnlyEnd ==
  ASSUME Types, InTurn, MayProcess("agent_end")
  PROVE  /\ ~IsStreaming /\ handler = "free" /\ events # <<>> /\ Len(events) = 1
         /\ Tail(events) = <<>>
<1>1. handler = "free" /\ events # <<>> /\ Head(events).type = "agent_end"
  BY DEF MayProcess
<1>2. 1 \in Ends
  BY <1>1 DEF Ends, Types
<1>3. Len(events) = 1
  BY <1>2 DEF InTurn
<1>4. Tail(events) = <<>>
  <2> DEFINE t == Tail(events)
  <2>1. t \in Seq(Event) /\ Len(t) = 0
    BY <1>1, <1>3 DEF Types
  <2> HIDE DEF t
  <2>2. t = <<>>
    BY <2>1
  <2> QED BY <2>2 DEF t
<1> QED BY <1>1, <1>2, <1>3, <1>4 DEF InTurn

\* A run that begins without disturbing finds no events.
LEMMA RunStarts ==
  ASSUME IInv, NEW pc \in Phases, StartRun(pc),
         UNCHANGED <<events, handler, retrying, lastId, retryAttempt>>
  PROVE  IInv'
<1>1. run' \in [pc : Phases, aborted : BOOLEAN, reply : AnyMessage] /\ disturbed' \in BOOLEAN
  BY NoMessageType DEF StartRun, NoRun, IInv, Types
<1>2. Types'
  BY <1>1 DEF IInv, Types
<1>3. ASSUME ~disturbed' PROVE InTurn' /\ Announced'
  <2>1. events = <<>> /\ handler = "free" /\ ~disturbed
    BY <1>3 DEF StartRun
  <2>2. Ends' = {} /\ Due' = {}
    BY <2>1 DEF Ends, Due
  <2> QED BY <2>1, <2>2 DEF InTurn, Announced
<1> QED BY <1>1, <1>2, <1>3 DEF IInv

(***************************************************************************)
(* The agent.                                                              *)
(***************************************************************************)
\* A message of a run that goes on.
LEMMA EmitStep ==
  ASSUME IInv, NEW m \in AnyMessage, Emit(m), IsStreaming,
         run' \in [pc : Phases, aborted : BOOLEAN, reply : AnyMessage]
  PROVE  IInv'
<1>1. /\ UNCHANGED <<handler, retrying, disturbed, retryAttempt>> /\ lastId' = m.id
      /\ events' \in {events, Append(events, [type |-> "message_end", message |-> m])}
  BY DEF Emit, retryVars, history
<1> DEFINE e == [type |-> "message_end", message |-> m]
<1>2. e \in Event /\ e.type = "message_end"
  BY DEF Event
<1> HIDE DEF e
<1>3. Types'
  <2>1. events' \in Seq(Event)
    BY <1>1, <1>2 DEF IInv, Types, e
  <2>2. lastId' \in Nat
    BY <1>1 DEF AnyMessage
  <2> QED BY <1>1, <2>1, <2>2 DEF IInv, Types
<1>4. ASSUME ~disturbed' PROVE InTurn' /\ Announced'
  <2>1. handler = "free" /\ Ends = {}
    BY <1>1, <1>4 DEF IInv, InTurn
  <2>2. Ends' = {}
    <3>1. CASE events' = events
      BY <2>1, <3>1 DEF Ends
    <3>2. CASE events' = Append(events, e)
      BY <1>2, <2>1, <3>2 DEF Ends, IInv, Types
    <3> QED BY <1>1, <3>1, <3>2 DEF e
  <2> QED BY <1>1, <2>1, <2>2 DEF InTurn, Announced, Due
<1> QED BY <1>3, <1>4 DEF IInv

\* The promise is made with the agent_end that it is about.
LEMMA AgentEndStep ==
  ASSUME IInv, NEW reply \in AnyMessage, AgentEnd(reply), IsStreaming, lastId' \in Nat
  PROVE  IInv'
<1> DEFINE e == [type |-> "agent_end", message |-> reply]
<1>1. /\ UNCHANGED <<handler, disturbed, retryAttempt>> /\ run' = NoRun
      /\ \/ events' = events /\ retrying' = retrying
         \/ events' = Append(events, e) /\ retrying' = PromisesRetry(reply)
  BY DEF AgentEnd
<1>2. e \in Event /\ e.type = "agent_end" /\ e.message = reply
  BY DEF Event
<1> HIDE DEF e
<1>3. run' \in [pc : Phases, aborted : BOOLEAN, reply : AnyMessage] /\ ~IsStreaming'
  BY <1>1, NoMessageType DEF NoRun, Phases, IsStreaming
<1>4. events' \in Seq(Event) /\ retrying' \in BOOLEAN
  <2>1. events' \in Seq(Event)
    BY <1>1, <1>2 DEF IInv, Types
  <2>2. PromisesRetry(reply) \in BOOLEAN
    BY Zenon DEF PromisesRetry
  <2> QED BY <1>1, <2>1, <2>2 DEF IInv, Types
<1>5. Types'
  BY <1>1, <1>3, <1>4 DEF IInv, Types
<1>6. ASSUME ~disturbed' PROVE InTurn' /\ Announced'
  <2>1. handler = "free" /\ Ends = {} /\ handler' = "free"
    BY <1>1, <1>6 DEF IInv, InTurn
  <2>2. CASE events' = events /\ retrying' = retrying
    <3>1. Ends' = {} /\ Due' = {}
      BY <2>1, <2>2 DEF Ends, Due
    <3> QED BY <1>3, <2>1, <3>1 DEF InTurn, Announced
  <2>3. CASE events' = Append(events, e) /\ retrying' = PromisesRetry(reply)
    <3>1. /\ Len(events)' = Len(events) + 1 /\ Len(events) \in Nat
          /\ events'[Len(events) + 1] = e
          /\ \A i \in 1..Len(events) : events'[i] = events[i]
      BY <1>2, <2>3 DEF IInv, Types
    <3>2. \A i \in Ends' : i = Len(events) + 1
      BY <1>4, <2>1, <3>1 DEF Ends, IInv, Types
    <3>3. Due' # {} => IsRetryableError(reply)
      BY <1>2, <3>1, <3>2 DEF Due
    <3>4. Due' # {} => retrying'
      BY <2>3, <3>3 DEF PromisesRetry
    <3> QED BY <1>3, <2>1, <3>1, <3>2, <3>4 DEF InTurn, Announced
  <2> QED BY <1>1, <2>2, <2>3
<1> QED BY <1>5, <1>6 DEF IInv

LEMMA AgentStepStep ==
  ASSUME IInv, AgentStep
  PROVE  IInv'
<1>1. /\ run \in [pc : Phases, aborted : BOOLEAN, reply : AnyMessage]
      /\ run.reply \in AnyMessage /\ lastId \in Nat /\ lastId + 1 \in Nat
  BY DEF IInv, Types
<1>2. /\ Message(lastId + 1, "user", "") \in AnyMessage
      /\ Message(lastId + 1, "toolResult", "") \in AnyMessage
      /\ \A stop \in Stops : Message(lastId + 1, "assistant", stop) \in AnyMessage
  BY <1>1, MessageType DEF Roles
<1>3. CASE EmitUser \/ InjectQueued \/ ToolResult
  <2>1. /\ IsStreaming
        /\ run' \in [pc : Phases, aborted : BOOLEAN, reply : AnyMessage]
    BY <1>1, <1>3 DEF EmitUser, InjectQueued, ToolResult, IsStreaming, Phases
  <2>2. \E m \in AnyMessage : Emit(m)
    BY <1>2, <1>3 DEF EmitUser, InjectQueued, ToolResult
  <2> QED BY <2>1, <2>2, EmitStep
<1>4. ASSUME NEW stop \in Stops, StreamReply(stop) PROVE IInv'
  <2> DEFINE m == Message(lastId + 1, "assistant", stop)
  <2>1. m \in AnyMessage
    BY <1>2
  <2>2. IsStreaming /\ Emit(m) /\ \E pc \in After(stop) : run' = [run EXCEPT !.pc = pc, !.reply = m]
    BY <1>4 DEF StreamReply, IsStreaming
  <2> HIDE DEF m
  <2>3. After(stop) \subseteq Phases
    BY DEF After, HasStopped, Phases
  <2>4. run' \in [pc : Phases, aborted : BOOLEAN, reply : AnyMessage]
    BY <1>1, <2>1, <2>2, <2>3
  <2> QED BY <2>1, <2>2, <2>4, EmitStep
<1>5. CASE EndRun \/ GateShut
  <2>1. IsStreaming /\ AgentEnd(run.reply) /\ lastId' \in Nat
    BY <1>1, <1>5 DEF EndRun, GateShut, IsStreaming
  <2> QED BY <1>1, <2>1, AgentEndStep
<1>6. ASSUME NEW stop \in {"error", "failed", "aborted"}, RequestThrows(stop) PROVE IInv'
  <2> DEFINE m == Message(lastId + 1, "assistant", stop)
  <2>1. m \in AnyMessage
    BY <1>2 DEF Stops
  <2>2. IsStreaming /\ AgentEnd(m) /\ lastId' = m.id
    BY <1>6 DEF RequestThrows, IsStreaming
  <2> HIDE DEF m
  <2>3. lastId' \in Nat
    BY <2>1, <2>2 DEF AnyMessage
  <2> QED BY <2>1, <2>2, <2>3, AgentEndStep
<1> QED BY <1>3, <1>4, <1>5, <1>6 DEF AgentStep

(***************************************************************************)
(* Compactions.                                                            *)
(***************************************************************************)
LEMMA EndCompactionStep ==
  ASSUME IInv, NEW c, EndCompaction(c), lastId' \in Nat
  PROVE  IInv'
BY Freed DEF EndCompaction, history

LEMMA CompactionStepStep ==
  ASSUME IInv, CompactionStep
  PROVE  IInv'
<1>1. lastId \in Nat /\ retryAttempt \in 0..MaxRetries
  BY DEF IInv, Types
<1>2. CASE CompactIdle
  BY <1>1, <1>2, Untouched DEF CompactIdle, agentVars, eventVars, retryVars, history
<1>3. ASSUME NEW c \in Compactors, Prepare(c) PROVE IInv'
  BY <1>1, <1>3, Untouched DEF Prepare, agentVars, eventVars, retryVars, history
<1>4. ASSUME NEW c \in Compactors, CompactionFails(c) PROVE IInv'
  BY <1>1, <1>4, EndCompactionStep DEF CompactionFails
<1>5. ASSUME NEW c \in Compactors, Summarized(c) PROVE IInv'
  BY <1>1, <1>5, EndCompactionStep DEF Summarized
<1> QED BY <1>2, <1>3, <1>4, <1>5 DEF CompactionStep

(***************************************************************************)
(* The event queue, its timers, and the user.                              *)
(***************************************************************************)
LEMMA ProcessMessageEndStep ==
  ASSUME IInv, ProcessMessageEnd
  PROVE  IInv'
<1>1. /\ handler = "free" /\ events # <<>> /\ events' = Tail(events)
      /\ UNCHANGED <<run, handler, retrying, disturbed, lastId>>
      /\ retryAttempt' \in {0, retryAttempt}
  BY DEF ProcessMessageEnd, MayProcess, agentVars, history
<1>2. /\ events' \in Seq(Event) /\ Len(events)' = Len(events) - 1 /\ Len(events) \in Nat
      /\ \A i \in Ends' : i + 1 \in Ends
      /\ \A i \in Due' : i + 1 \in Due
  BY <1>1, TailEnds DEF IInv, Types
<1>3. Types'
  BY <1>1, <1>2, AgentSessionAssumption DEF IInv, Types
<1>4. ASSUME ~disturbed' PROVE InTurn' /\ Announced'
  <2>1. InTurn /\ Announced
    BY <1>1, <1>4 DEF IInv
  <2>2. IsStreaming' => Ends' = {}
    BY <1>1, <1>2, <2>1 DEF InTurn, IsStreaming
  <2>3. ASSUME NEW i \in Ends' PROVE i = Len(events)'
    <3>1. i + 1 = Len(events) /\ i \in Nat
      BY <1>2, <2>1 DEF InTurn, Ends
    <3> QED BY <1>2, <3>1
  <2>4. Due' # {} => retrying'
    BY <1>1, <1>2, <2>1 DEF Announced
  <2> QED BY <1>1, <2>2, <2>3, <2>4 DEF InTurn, Announced
<1> QED BY <1>3, <1>4 DEF IInv

\* Whatever an agent_end leads to, no event is left behind it.
LEMMA TakenStep ==
  ASSUME IInv, MayProcess("agent_end"), events' = Tail(events),
         UNCHANGED <<run, disturbed, lastId>>,
         handler' \in {"free", "sleep", "compacting"}, retryAttempt' \in 0..MaxRetries,
         retrying' \in BOOLEAN, handler' = "sleep" => retrying'
  PROVE  IInv'
<1>1. Types'
  BY TailEnds DEF IInv, Types, MayProcess
<1>2. ASSUME ~disturbed' PROVE InTurn' /\ Announced'
  <2>1. ~IsStreaming /\ Tail(events) = <<>>
    BY <1>2, OnlyEnd DEF IInv
  <2>2. events' = <<>> /\ Ends' = {} /\ Due' = {}
    BY <2>1 DEF Ends, Due
  <2> QED BY <2>1, <2>2 DEF InTurn, Announced, IsStreaming
<1> QED BY <1>1, <1>2 DEF IInv

LEMMA SettleTypes ==
  ASSUME IInv, NEW m, SettleAgentEnd(m)
  PROVE  /\ UNCHANGED <<run, disturbed, lastId>> /\ retrying' = FALSE
         /\ handler' \in {"free", "compacting"} /\ retryAttempt' \in 0..MaxRetries
<1>1. retryAttempt \in 0..MaxRetries /\ MaxRetries \in Nat
  BY AgentSessionAssumption DEF IInv, Types
<1> QED BY <1>1 DEF SettleAgentEnd, ResolveRetry, history

LEMMA EventStepStep ==
  ASSUME IInv, EventStep
  PROVE  IInv'
<1>1. /\ lastId \in Nat /\ retryAttempt \in 0..MaxRetries /\ MaxRetries \in Nat
      /\ retrying \in BOOLEAN
  BY AgentSessionAssumption DEF IInv, Types
<1>2. CASE ProcessMessageEnd
  BY <1>2, ProcessMessageEndStep
<1>3. CASE AgentEndForNobody
  <2>1. handler' = "free"
    BY <1>3 DEF AgentEndForNobody, MayProcess
  <2> QED BY <1>1, <1>3, <2>1, TakenStep DEF AgentEndForNobody, agentVars, retryVars
<1>4. CASE HandleRetryableError
  <2>1. retryAttempt' \in 0..MaxRetries
    BY <1>1, <1>4 DEF HandleRetryableError, Retries
  <2> QED BY <1>4, <2>1, TakenStep DEF HandleRetryableError, TakeAgentEnd, history
<1>5. CASE AgentEndWithoutRetry
  BY <1>5, SettleTypes, TakenStep DEF AgentEndWithoutRetry, TakeAgentEnd
<1>6. CASE RetryCancelled
  <2>1. /\ handler = "cancelled" /\ events' = events
        /\ UNCHANGED <<run, disturbed, lastId>> /\ retrying' = FALSE
        /\ handler' \in {"free", "compacting"} /\ retryAttempt' \in 0..MaxRetries
    BY <1>6, SettleTypes DEF RetryCancelled
  <2>2. Types' /\ disturbed'
    BY <2>1 DEF IInv, Types, InTurn
  <2> QED BY <2>2, Disturbed
<1>7. CASE RetrySleepEnds
  BY <1>1, <1>7, Freed DEF RetrySleepEnds, agentVars, history
<1>8. CASE TimerFires
  <2>1. /\ UNCHANGED <<events, handler, retrying, lastId, retryAttempt>>
        /\ UNCHANGED <<run, disturbed>> \/ StartRun("request") \/ StartRun("prompts")
    BY <1>8 DEF TimerFires, Continue, eventVars
  <2>2. "request" \in Phases /\ "prompts" \in Phases
    BY DEF Phases
  <2> QED BY <1>1, <2>1, <2>2, RunStarts, Untouched
<1> QED BY <1>2, <1>3, <1>4, <1>5, <1>6, <1>7, <1>8 DEF EventStep

LEMMA CallStep ==
  ASSUME IInv, NEW p \in Prompts, StartPrompt(p) \/ WaitForRetry(p)
  PROVE  IInv'
<1>1. lastId \in Nat /\ retryAttempt \in 0..MaxRetries /\ "prompts" \in Phases
  BY DEF IInv, Types, Phases
<1>2. CASE StartPrompt(p)
  <2>1. /\ UNCHANGED <<events, handler, retrying, lastId, retryAttempt>>
        /\ UNCHANGED <<run, disturbed>> \/ StartRun("prompts")
    BY <1>2 DEF StartPrompt, eventVars, retryVars
  <2> QED BY <1>1, <2>1, RunStarts, Untouched
<1>3. CASE WaitForRetry(p)
  BY <1>1, <1>3, Untouched DEF WaitForRetry, agentVars, eventVars, retryVars, history
<1> QED BY <1>2, <1>3

\* abort and compact take a run's turn from it: nothing is claimed from here on.
LEMMA AbortStep ==
  ASSUME IInv, Abort \/ Compact
  PROVE  IInv'
<1>1. /\ run' = [run EXCEPT !.aborted = IsStreaming] /\ disturbed' = TRUE /\ retrying' = FALSE
      /\ handler' \in {handler, "cancelled"} /\ UNCHANGED <<events, lastId, retryAttempt>>
  BY DEF Abort, Compact, ResolveRetry
<1>2. Types'
  BY <1>1 DEF IInv, Types, IsStreaming
<1> QED BY <1>1, <1>2, Disturbed

LEMMA UserStepStep ==
  ASSUME IInv, UserStep
  PROVE  IInv'
<1>1. lastId \in Nat /\ retryAttempt \in 0..MaxRetries
  BY DEF IInv, Types
<1>2. ASSUME NEW p \in Prompts, Prompt(p) PROVE IInv'
  BY <1>1, <1>2, Untouched DEF Prompt, eventVars, retryVars, history
<1>3. CASE Queue
  BY <1>1, <1>3, Untouched DEF Queue, eventVars, retryVars, history
<1>4. CASE RecordBashResult
  <2>1. Message(lastId + 1, "bashExecution", "").id \in Nat
    BY <1>1 DEF Message
  <2>2. lastId' \in Nat
    BY <1>4, <2>1 DEF RecordBashResult
  <2> QED BY <1>1, <1>4, <2>2, Untouched DEF RecordBashResult, eventVars, retryVars, history
<1>5. CASE AbortCompaction
  BY <1>1, <1>5, Untouched DEF AbortCompaction, agentVars, eventVars, retryVars, history
<1>6. CASE Abort \/ Compact
  BY <1>6, AbortStep
<1> QED BY <1>2, <1>3, <1>4, <1>5, <1>6 DEF UserStep

(***************************************************************************)
(* The theorems.                                                           *)
(***************************************************************************)
LEMMA Invariance == Spec => []IInv
<1>1. Init => IInv
  <2> SUFFICES ASSUME Init PROVE IInv
    OBVIOUS
  <2>1. Types
    <3>1. NoRun \in [pc : Phases, aborted : BOOLEAN, reply : AnyMessage]
      BY NoMessageType DEF NoRun, Phases
    <3>2. events \in Seq(Event) /\ 0 \in 0..MaxRetries
      BY AgentSessionAssumption DEF Init
    <3> QED BY <3>1, <3>2 DEF Init, Types
  <2>2. Ends = {} /\ Due = {}
    BY DEF Init, Ends, Due
  <2>3. InTurn /\ Announced
    BY <2>2 DEF Init, InTurn, Announced, IsStreaming, NoRun
  <2> QED BY <2>1, <2>3 DEF IInv
<1>2. IInv /\ [Next]_vars => IInv'
  <2> SUFFICES ASSUME IInv, [Next]_vars PROVE IInv'
    OBVIOUS
  <2>1. CASE SystemStep
    BY <2>1, AgentStepStep, CompactionStepStep, EventStepStep, CallStep DEF SystemStep
  <2>2. CASE UserStep
    BY <2>2, UserStepStep
  <2>3. CASE UNCHANGED vars
    <3>1. UNCHANGED <<run, events, handler, retrying, disturbed, lastId, retryAttempt>>
      BY <2>3 DEF vars, agentVars, eventVars, retryVars, history
    <3> QED BY <3>1, Untouched DEF IInv, Types
  <2> QED BY <2>1, <2>2, <2>3 DEF Next
<1> QED BY <1>1, <1>2, PTL DEF Spec

\* _createRetryPromiseForAgentEnd: whoever asks, after a run, whether a retry is to
\* be awaited is told so before the queue has come to decide on it.
THEOREM RetryAwaited == Spec => []RetryIsAwaited
<1>1. IInv => RetryIsAwaited
  <2> SUFFICES ASSUME IInv, ~disturbed,
                      \/ handler = "sleep"
                      \/ \E i \in DOMAIN events : /\ events[i].type = "agent_end"
                                                  /\ IsRetryableError(events[i].message)
               PROVE  retrying
    BY DEF RetryIsAwaited
  <2> QED BY DEF IInv, Announced, Due, Ends
<1> QED BY <1>1, Invariance, PTL

\* _handleRetryableError: one answer is attempted MaxRetries times more, at most.
THEOREM RetriesAreLimited == Spec => [](retryAttempt \in 0..MaxRetries)
<1>1. IInv => retryAttempt \in 0..MaxRetries
  BY DEF IInv, Types
<1> QED BY <1>1, Invariance, PTL

LEMMA LeastExists ==
  ASSUME NEW N \in SUBSET Nat, N # {}
  PROVE  \E x \in N : \A y \in N : x <= y
  <1> DEFINE R == OpToRel(<, Nat)
  <1>1. PICK x \in N : \A y \in N : <<y, x>> \notin R
    <2>1. IsWellFoundedOn(R, Nat)
      BY NatLessThanWellFounded
    <2> HIDE DEF R
    <2> QED BY <2>1, WFMin
  <1>2. \A y \in N : ~(y < x)
    BY <1>1 DEF OpToRel
  <1> QED BY <1>2

\* What holds of 0, and of n if it does of n - 1, holds up to m.
LEMMA Steps ==
  ASSUME NEW m \in Nat, NEW N, 0 \in N, \A n \in 1..m : n - 1 \in N => n \in N
  PROVE  \A n \in 0..m : n \in N
  <1> DEFINE Rest == { n \in 0..m : n \notin N }
  <1> SUFFICES ASSUME Rest # {} PROVE FALSE
    OBVIOUS
  <1>1. PICK n \in Rest : \A k \in Rest : n <= k
    <2> Rest \in SUBSET Nat
      OBVIOUS
    <2> HIDE DEF Rest
    <2> QED BY LeastExists
  <1>2. n \in 1..m /\ n - 1 \in 0..m /\ n - 1 \notin Rest
    BY <1>1
  <1> QED BY <1>2

\* A recursion on 0..m, one step from each value to the next, has a solution.
StepFunctions(m, W) == [1..m -> [W -> W]]
Solution(b, F, m, W) ==
  \E g \in [0..m -> W] : g[0] = b /\ \A n \in 1..m : g[n] = F[n][g[n - 1]]

LEMMA RecursionExists ==
  ASSUME NEW W, NEW b \in W, NEW m \in Nat, NEW F \in StepFunctions(m, W)
  PROVE  Solution(b, F, m, W)
  <1> USE DEF StepFunctions, Solution
  <1> DEFINE Solved(k) == \E g \in [0..k -> W] :
                             g[0] = b /\ \A n \in 1..k : g[n] = F[n][g[n - 1]]
             N == { k \in 0..m : Solved(k) }
  <1>1. 0 \in N
    <2> DEFINE g0 == [n \in 0..0 |-> b]
    <2>1. g0 \in [0..0 -> W] /\ g0[0] = b /\ 1..0 = {}
      OBVIOUS
    <2> HIDE DEF g0
    <2>2. Solved(0)
      BY <2>1
    <2> HIDE DEF Solved
    <2> QED BY <2>2
  <1>2. ASSUME NEW k \in 1..m, k - 1 \in N
        PROVE  k \in N
    <2>1. PICK g \in [0..(k - 1) -> W] :
            g[0] = b /\ \A n \in 1..(k - 1) : g[n] = F[n][g[n - 1]]
      BY <1>2
    <2> DEFINE last == F[k][g[k - 1]]
               h == [n \in 0..k |-> IF n = k THEN last ELSE g[n]]
    <2>2. last \in W
      <3>1. g[k - 1] \in W /\ F[k] \in [W -> W]
        BY <2>1
      <3> QED BY <3>1
    <2>3. h \in [0..k -> W]
      BY <2>1, <2>2
    <2>4. h[0] = b
      BY <2>1
    <2>5. ASSUME NEW n \in 1..k
          PROVE  h[n] = F[n][h[n - 1]]
      <3>1. n - 1 \in 0..k /\ n - 1 # k /\ h[n - 1] = g[n - 1]
        OBVIOUS
      <3>2. CASE n = k
        <4>1. h[n] = last
          BY <3>2
        <4> HIDE DEF h
        <4> QED BY <3>1, <3>2, <4>1
      <3>3. CASE n # k
        <4>1. h[n] = g[n] /\ n \in 1..(k - 1)
          BY <3>3
        <4> HIDE DEF h
        <4> QED BY <3>1, <4>1, <2>1
      <3> QED BY <3>2, <3>3
    <2> HIDE DEF h
    <2>6. Solved(k)
      BY <2>3, <2>4, <2>5
    <2> HIDE DEF Solved
    <2> QED BY <2>6
  <1>3. \A k \in 1..m : k - 1 \in N => k \in N
    BY <1>2
  <1>4. \A k \in 0..m : k \in N
    <2> HIDE DEF N
    <2> QED BY <1>1, <1>3, Steps
  <1> QED BY <1>4

\* The greatest of some positions.
LEMMA MaxIsGreatest ==
  ASSUME NEW n \in Nat, NEW k \in SUBSET (1..n), k # {}
  PROVE  Max(k) \in k /\ \A j \in k : Max(k) >= j
  <1> DEFINE above == { n - j : j \in k }
  <1>1. above \in SUBSET Nat /\ above # {}
    <2>1. PICK j \in k : TRUE
      OBVIOUS
    <2>2. n - j \in above
      OBVIOUS
    <2>3. \A m \in 1..n : n - m \in Nat
      OBVIOUS
    <2> QED BY <2>2, <2>3
  <1>2. PICK a \in above : \A b \in above : a <= b
    <2> HIDE DEF above
    <2> QED BY <1>1, LeastExists
  <1>3. PICK x \in k : a = n - x
    BY <1>2
  <1>4. ASSUME NEW j \in k PROVE x >= j
    <2>1. n - j \in above
      OBVIOUS
    <2>2. n - x <= n - j /\ x \in 1..n /\ j \in 1..n
      BY <1>2, <1>3, <2>1
    <2> QED BY <2>2
  <1> QED BY <1>4 DEF Max

\* A recursion on sets of positions, from the greatest down, has a solution.
Stays(Op, top, V) == \A m \in 1..top, v \in V : Op[m][v] \in V
SetSolution(first, Op, top, V) ==
  \E g \in [SUBSET (1..top) -> V] :
    /\ g[{}] = first
    /\ \A k \in SUBSET (1..top) : k # {} => g[k] = Op[Max(k)][g[k \ {Max(k)}]]

LEMMA SetRecursionExists ==
  ASSUME NEW V, NEW first \in V, NEW top \in Nat, NEW Op, Stays(Op, top, V)
  PROVE  SetSolution(first, Op, top, V)
  <1> USE DEF Stays, SetSolution
  <1> DEFINE Tables == [SUBSET (1..top) -> V]
             base == [k \in SUBSET (1..top) |-> first]
             Fill == [m \in 1..top |-> [g \in Tables |-> [k \in SUBSET (1..top) |->
                    IF m \in k THEN Op[m][g[k \ {m}]] ELSE g[k]]]]
  <1>1. base \in Tables
    OBVIOUS
  <1>2. Fill \in [1..top -> [Tables -> Tables]]
    <2>1. ASSUME NEW m \in 1..top, NEW g \in Tables, NEW k \in SUBSET (1..top)
          PROVE  (IF m \in k THEN Op[m][g[k \ {m}]] ELSE g[k]) \in V
      <3>1. k \ {m} \in SUBSET (1..top)
        OBVIOUS
      <3>2. g[k \ {m}] \in V /\ g[k] \in V
        BY <3>1
      <3> QED BY <3>2
    <2> QED BY <2>1
  <1>3. \E h \in [0..top -> Tables] : h[0] = base /\ \A m \in 1..top : h[m] = Fill[m][h[m - 1]]
    <2>1. Fill \in StepFunctions(top, Tables)
      BY <1>2, Zenon DEF StepFunctions
    <2>2. Solution(base, Fill, top, Tables)
      <3> HIDE DEF Tables, base, Fill
      <3> QED BY <1>1, <2>1, RecursionExists, Zenon
    <2> HIDE DEF Tables, base, Fill
    <2> QED BY <2>2, Zenon DEF Solution
  <1>p. PICK h \in [0..top -> Tables] : h[0] = base /\ \A m \in 1..top : h[m] = Fill[m][h[m - 1]]
    <2> HIDE DEF Tables, base, Fill
    <2> QED BY <1>3
  <1>4. ASSUME NEW m \in 1..top, NEW k \in SUBSET (1..top)
        PROVE  /\ m \in k => h[m][k] = Op[m][h[m - 1][k \ {m}]]
               /\ m \notin k => h[m][k] = h[m - 1][k]
    <2>1. m - 1 \in 0..top /\ h[m - 1] \in Tables
      BY <1>p
    <2>2. h[m] = [j \in SUBSET (1..top) |->
                    IF m \in j THEN Op[m][h[m - 1][j \ {m}]] ELSE h[m - 1][j]]
      <3>1. h[m] = Fill[m][h[m - 1]]
        BY <1>p
      <3> DEFINE hm == h[m - 1]
      <3>2. hm \in Tables
        BY <2>1
      <3> HIDE DEF Tables, hm
      <3>3. Fill[m][hm] = [j \in SUBSET (1..top) |-> IF m \in j THEN Op[m][hm[j \ {m}]] ELSE hm[j]]
        BY <3>2
      <3> QED BY <3>1, <3>3 DEF hm
    <2> QED BY <2>2
  <1>5. ASSUME NEW k \in SUBSET (1..top), NEW x \in 0..top, \A j \in k : j <= x
        PROVE  h[top][k] = h[x][k]
    <2> DEFINE N == { m \in 0..top : m >= x => h[m][k] = h[x][k] }
    <2>1. 0 \in N
      OBVIOUS
    <2>2. ASSUME NEW m \in 1..top, m - 1 \in N PROVE m \in N
      <3>1. CASE m > x
        <4>1. m \notin k /\ m - 1 >= x
          BY <1>5, <3>1
        <4>2. h[m][k] = h[m - 1][k]
          BY <1>4, <4>1
        <4>3. h[m - 1][k] = h[x][k]
          BY <2>2, <4>1
        <4> QED BY <4>2, <4>3
      <3> QED BY <3>1
    <2>3. \A m \in 0..top : m \in N
      <3> HIDE DEF N
      <3> QED BY <2>1, <2>2, Steps
    <2> QED BY <2>3
  <1> DEFINE g == h[top]
  <1>6. g \in [SUBSET (1..top) -> V]
    BY <1>p
  <1>7. g[{}] = first
    <2>1. h[top][{}] = h[0][{}]
      BY <1>5
    <2> QED BY <1>p, <2>1
  <1>8. ASSUME NEW k \in SUBSET (1..top), k # {}
        PROVE  g[k] = Op[Max(k)][g[k \ {Max(k)}]]
    <2>1. PICK x \in k : x = Max(k) /\ \A j \in k : x >= j
      BY <1>8, MaxIsGreatest
    <2>2. x \in 1..top /\ x - 1 \in 0..top /\ x \in 0..top
      OBVIOUS
    <2>3. h[top][k] = h[x][k]
      BY <1>5, <2>1, <2>2
    <2>4. h[top][k \ {x}] = h[x - 1][k \ {x}]
      <3>1. \A j \in k \ {x} : j <= x - 1
        BY <2>1
      <3> QED BY <1>5, <2>2, <3>1
    <2>5. h[x][k] = Op[x][h[x - 1][k \ {x}]]
      BY <1>4, <2>2
    <2> HIDE DEF Fill, Tables, base
    <2> QED BY <2>1, <2>3, <2>4, <2>5
  <1> HIDE DEF g
  <1> QED BY <1>6, <1>7, <1>8
(***************************************************************************)
(* The messages of a sequence that are in a set.                           *)
(***************************************************************************)
Kept(out, m, set) == IF m \in set THEN Append(out, m) ELSE out

LEMMA OnlySteps ==
  ASSUME NEW s \in Seq(AnyMessage), NEW set
  PROVE  \E h \in [0..Len(s) -> Seq(AnyMessage)] :
           /\ h[0] = <<>>
           /\ \A n \in 1..Len(s) : h[n] = Kept(h[n - 1], s[n], set)
           /\ Only(s, set) = h[Len(s)]
  <1> DEFINE top == Len(s)
             V == Seq(AnyMessage)
             first == <<>>
             Op == [m \in 1..top |-> [v \in V |-> Kept(v, s[m], set)]]
             Step(g) == [k \in SUBSET (1..top) |->
                           IF k = {} THEN first ELSE Kept(g[k \ {Max(k)}], s[Max(k)], set)]
             folded == CHOOSE g : g = Step(g)
  <1>1. top \in Nat /\ first \in V /\ DOMAIN s = 1..top
    OBVIOUS
  <1>2. Only(s, set) = folded[1..top]
    <2>1. DOMAIN s = 1..Len(s)
      BY <1>1
    <2> QED BY <2>1, Zenon DEF Only, Kept, FoldLeft, MapThenFoldSet
  <1>3. \A m \in 1..top, v \in V : Op[m][v] = Kept(v, s[m], set) /\ Op[m][v] \in V
    <2>1. ASSUME NEW m \in 1..top, NEW v \in V
          PROVE  Kept(v, s[m], set) \in V
      <3>1. s[m] \in AnyMessage
        OBVIOUS
      <3> QED BY <3>1 DEF Kept
    <2> HIDE DEF V, top
    <2> QED BY <2>1
  <1>4. \E g : g = Step(g)
    <2>1. PICK g \in [SUBSET (1..top) -> V] :
            /\ g[{}] = first
            /\ \A k \in SUBSET (1..top) : k # {} => g[k] = Op[Max(k)][g[k \ {Max(k)}]]
      <3>1. Stays(Op, top, V)
        BY <1>3 DEF Stays
      <3> HIDE DEF top, V, first, Op, Step, folded
      <3>2. SetSolution(first, Op, top, V)
        BY <1>1, <3>1, SetRecursionExists, Zenon
      <3> QED BY <3>2, Zenon DEF SetSolution
    <2> HIDE DEF top, V, first, Op, folded
    <2>2. ASSUME NEW k \in SUBSET (1..top), k # {}
          PROVE  g[k] = Kept(g[k \ {Max(k)}], s[Max(k)], set)
      <3>1. Max(k) \in 1..top
        BY <1>1, <2>2, MaxIsGreatest
      <3>2. g[k \ {Max(k)}] \in V
        BY <2>1
      <3>3. g[k] = Op[Max(k)][g[k \ {Max(k)}]]
        BY <2>1, <2>2
      <3> HIDE DEF Step
      <3> QED BY <1>3, <3>1, <3>2, <3>3, Zenon
    <2>3. \A k \in SUBSET (1..top) :
            g[k] = IF k = {} THEN first ELSE Kept(g[k \ {Max(k)}], s[Max(k)], set)
      <3> HIDE DEF Step
      <3> QED BY <2>1, <2>2, Zenon
    <2>4. g = [k \in SUBSET (1..top) |-> g[k]]
      <3> HIDE DEF Step
      <3> QED BY <2>1
    <2>5. g = Step(g)
      BY <2>3, <2>4
    <2> HIDE DEF Step
    <2> QED BY <2>5
  <1>5. folded = Step(folded)
    <2> HIDE DEF Step
    <2> QED BY <1>4
  <1> HIDE DEF folded
  <1>6. \A k \in SUBSET (1..top) :
          folded[k] = IF k = {} THEN first ELSE Kept(folded[k \ {Max(k)}], s[Max(k)], set)
    <2> HIDE DEF top, V, first, Op
    <2> QED BY <1>5
  <1> DEFINE h == [m \in 0..top |-> folded[1..m]]
  <1>7. h[0] = first
    <2>1. 1..0 = {} /\ {} \in SUBSET (1..top) /\ 0 \in 0..top
      BY <1>1
    <2>2. folded[{}] = first
      <3> HIDE DEF top, V, first, Op
      <3> QED BY <1>6, <2>1, Zenon
    <2> HIDE DEF first, top
    <2> QED BY <2>1, <2>2
  <1>8. ASSUME NEW m \in 1..top
        PROVE  h[m] = Kept(h[m - 1], s[m], set)
    <2> HIDE DEF top, V, first, Op
    <2> DEFINE k == 1..m
    <2>1. k \in SUBSET (1..top) /\ k # {} /\ m \in k /\ \A j \in k : m >= j
      <3>1. m \in k /\ \A j \in k : m >= j /\ j \in 1..top
        BY <1>1
      <3> HIDE DEF k
      <3> QED BY <3>1
    <2>2. Max(k) = m
      <3>1. Max(k) \in k /\ \A j \in k : Max(k) >= j
        <4> HIDE DEF k
        <4> QED BY <1>1, <2>1, MaxIsGreatest
      <3> QED BY <2>1, <3>1
    <2>3. k \ {m} = 1..(m - 1) /\ m - 1 \in 0..top /\ m \in 0..top
      BY <1>1
    <2>4. folded[k] = Kept(folded[k \ {m}], s[m], set)
      <3> HIDE DEF k
      <3> QED BY <1>6, <2>1, <2>2, Zenon
    <2>5. h[m] = folded[k] /\ h[m - 1] = folded[k \ {m}]
      BY <2>3
    <2> HIDE DEF h, k
    <2> QED BY <2>4, <2>5, Zenon
  <1>9. \A m \in 0..top : h[m] \in V
    <2> DEFINE N == { m \in 0..top : h[m] \in V }
    <2>1. 0 \in N
      <3>1. 0 \in 0..top /\ h[0] \in V
        <4> HIDE DEF h, V, first
        <4> QED BY <1>1, <1>7
      <3> HIDE DEF h, V
      <3> QED BY <3>1
    <2>2. ASSUME NEW m \in 1..top, m - 1 \in N PROVE m \in N
      <3>1. h[m - 1] \in V /\ m \in 0..top
        BY <1>1, <2>2
      <3>2. Op[m][h[m - 1]] \in V /\ Op[m][h[m - 1]] = h[m]
        <4> HIDE DEF h, top, V, Op
        <4> QED BY <1>3, <1>8, <3>1
      <3> HIDE DEF h, V, Op
      <3> QED BY <3>1, <3>2
    <2> HIDE DEF N
    <2>3. \A m \in 0..top : m \in N
      <3> HIDE DEF top
      <3> QED BY <1>1, <2>1, <2>2, Steps
    <2> QED BY <2>3 DEF N
  <1>10. h \in [0..top -> V] /\ h[top] = folded[1..top]
    <2> HIDE DEF V, top
    <2> QED BY <1>1, <1>9
  <1> HIDE DEF h, Op
  <1> QED BY <1>2, <1>7, <1>8, <1>10
LEMMA OnlyNone == ASSUME NEW set PROVE Only(<<>>, set) = <<>>
  <1> DEFINE s == <<>>
  <1>1. s \in Seq(AnyMessage) /\ Len(s) = 0
    OBVIOUS
  <1> HIDE DEF s
  <1>2. Only(s, set) = <<>>
    BY <1>1, OnlySteps
  <1> QED BY <1>2 DEF s

LEMMA OnlyType ==
  ASSUME NEW s \in Seq(AnyMessage), NEW set PROVE Only(s, set) \in Seq(AnyMessage)
  <1>1. PICK h \in [0..Len(s) -> Seq(AnyMessage)] : Only(s, set) = h[Len(s)]
    BY OnlySteps
  <1>2. Len(s) \in 0..Len(s)
    OBVIOUS
  <1> QED BY <1>1, <1>2

LEMMA OnlyAppend ==
  ASSUME NEW s \in Seq(AnyMessage), NEW m \in AnyMessage, NEW set
  PROVE  Only(Append(s, m), set) = Kept(Only(s, set), m, set)
  <1> DEFINE t == Append(s, m)
             top == Len(s)
  <1>1. /\ t \in Seq(AnyMessage) /\ Len(t) = top + 1 /\ top \in Nat /\ t[top + 1] = m
        /\ \A n \in 1..top : t[n] = s[n]
    OBVIOUS
  <1> HIDE DEF t
  <1>2. PICK h \in [0..top -> Seq(AnyMessage)] :
          /\ h[0] = <<>>
          /\ \A n \in 1..top : h[n] = Kept(h[n - 1], s[n], set)
          /\ Only(s, set) = h[top]
    BY OnlySteps
  <1>3. PICK g \in [0..Len(t) -> Seq(AnyMessage)] :
          /\ g[0] = <<>>
          /\ \A n \in 1..Len(t) : g[n] = Kept(g[n - 1], t[n], set)
          /\ Only(t, set) = g[Len(t)]
    BY <1>1, OnlySteps
  <1> HIDE DEF top
  <1>4. \A n \in 0..top : g[n] = h[n]
    <2> DEFINE N == { n \in 0..top : g[n] = h[n] }
    <2>1. 0 \in N
      BY <1>1, <1>2, <1>3
    <2>2. ASSUME NEW n \in 1..top, n - 1 \in N PROVE n \in N
      <3>1. n \in 1..Len(t) /\ n \in 0..top /\ t[n] = s[n] /\ g[n - 1] = h[n - 1]
        BY <1>1, <2>2
      <3>2. g[n] = Kept(g[n - 1], t[n], set) /\ h[n] = Kept(h[n - 1], s[n], set)
        BY <1>2, <1>3, <3>1
      <3> QED BY <3>1, <3>2
    <2> HIDE DEF N
    <2>3. \A n \in 0..top : n \in N
      BY <1>1, <2>1, <2>2, Steps
    <2> QED BY <2>3 DEF N
  <1>5. g[top + 1] = Kept(g[top], t[top + 1], set)
    <2>1. top + 1 \in 1..Len(t) /\ (top + 1) - 1 = top
      BY <1>1
    <2> QED BY <1>3, <2>1
  <1>6. g[top] = h[top]
    BY <1>1, <1>4
  <1>7. Only(t, set) = Kept(Only(s, set), m, set)
    BY <1>1, <1>2, <1>3, <1>5, <1>6
  <1> QED BY <1>7 DEF t

\* What holds of the empty sequence, and of a longer one if of the shorter, holds.
LEMMA Growing ==
  ASSUME NEW N, <<>> \in N,
         \A s \in Seq(AnyMessage), m \in AnyMessage : s \in N => Append(s, m) \in N
  PROVE  \A s \in Seq(AnyMessage) : s \in N
  <1> SUFFICES ASSUME NEW s \in Seq(AnyMessage) PROVE s \in N
    OBVIOUS
  <1> DEFINE first(n) == SubSeq(s, 1, n)
             Lengths == { n \in 0..Len(s) : first(n) \in N }
  <1>1. 0 \in Lengths
    <2>1. first(0) = <<>> /\ 0 \in 0..Len(s)
      OBVIOUS
    <2> HIDE DEF first
    <2> QED BY <2>1
  <1>2. ASSUME NEW n \in 1..Len(s), n - 1 \in Lengths PROVE n \in Lengths
    <2>1. first(n - 1) \in Seq(AnyMessage) /\ s[n] \in AnyMessage /\ first(n - 1) \in N
      BY <1>2
    <2>2. first(n) = Append(first(n - 1), s[n])
      OBVIOUS
    <2> HIDE DEF first
    <2>3. first(n) \in N
      BY <2>1, <2>2
    <2> QED BY <2>3
  <1>3. Len(s) \in Nat /\ Len(s) \in 0..Len(s)
    OBVIOUS
  <1>4. \A n \in 0..Len(s) : n \in Lengths
    <2> HIDE DEF Lengths
    <2> QED BY <1>1, <1>2, <1>3, Steps
  <1>5. first(Len(s)) \in N
    BY <1>3, <1>4
  <1>6. first(Len(s)) = s
    OBVIOUS
  <1> QED BY <1>5, <1>6

LEMMA EmptyType == <<>> \in Seq(AnyMessage)
  OBVIOUS

LEMMA JoinType ==
  ASSUME NEW s \in Seq(AnyMessage), NEW t \in Seq(AnyMessage), NEW m \in AnyMessage
  PROVE  /\ s \o t \in Seq(AnyMessage) /\ Append(t, m) \in Seq(AnyMessage)
         /\ s \o Append(t, m) = Append(s \o t, m)
         /\ s \o <<>> = s
  OBVIOUS

LEMMA JoinAppend ==
  ASSUME NEW a \in Seq(AnyMessage), NEW b \in Seq(AnyMessage), NEW m \in AnyMessage
  PROVE  Append(a \o b, m) = a \o Append(b, m)
  OBVIOUS

LEMMA KeptJoin ==
  ASSUME NEW a \in Seq(AnyMessage), NEW b \in Seq(AnyMessage), NEW m \in AnyMessage, NEW set
  PROVE  Kept(a \o b, m, set) = a \o Kept(b, m, set)
  <1>1. Append(a \o b, m) = a \o Append(b, m)
    BY JoinAppend
  <1> QED BY <1>1, Zenon DEF Kept

LEMMA OnlyConcat ==
  ASSUME NEW s \in Seq(AnyMessage), NEW t \in Seq(AnyMessage), NEW set
  PROVE  Only(s \o t, set) = Only(s, set) \o Only(t, set)
  <1> DEFINE N == { r \in Seq(AnyMessage) : Only(s \o r, set) = Only(s, set) \o Only(r, set) }
  <1>1. <<>> \in N
    <2>1. s \o <<>> = s /\ <<>> \in Seq(AnyMessage)
      OBVIOUS
    <2>2. Only(s, set) \o <<>> = Only(s, set)
      <3>1. Only(s, set) \in Seq(AnyMessage)
        BY OnlyType
      <3> HIDE DEF Only
      <3> QED BY <3>1
    <2> QED BY <2>1, <2>2, OnlyNone
  <1>2. ASSUME NEW r \in Seq(AnyMessage), NEW m \in AnyMessage, r \in N
        PROVE  Append(r, m) \in N
    <2> DEFINE a == Only(s, set)
               b == Only(r, set)
    <2>1. a \in Seq(AnyMessage) /\ b \in Seq(AnyMessage)
      BY OnlyType
    <2>2. s \o r \in Seq(AnyMessage) /\ Append(r, m) \in Seq(AnyMessage)
          /\ s \o Append(r, m) = Append(s \o r, m)
      BY JoinType
    <2>a. Only(s \o r, set) = a \o b
      BY <1>2
    <2>b. Only(Append(s \o r, m), set) = Kept(Only(s \o r, set), m, set)
      BY <2>2, OnlyAppend
    <2>3. Only(s \o Append(r, m), set) = Kept(a \o b, m, set)
      <3> HIDE DEF a, b
      <3> QED BY <2>a, <2>b, <2>2
    <2>4. Only(Append(r, m), set) = Kept(b, m, set)
      BY OnlyAppend
    <2> HIDE DEF a, b
    <2>5. Kept(a \o b, m, set) = a \o Kept(b, m, set)
      BY <2>1, KeptJoin
    <2> QED BY <2>2, <2>3, <2>4, <2>5 DEF a
  <1> HIDE DEF N
  <1>3. t \in N
    BY <1>1, <1>2, Growing
  <1> QED BY <1>3 DEF N

\* A choice among those already chosen.
LEMMA OnlyTwice ==
  ASSUME NEW s \in Seq(AnyMessage), NEW few, NEW many, few \subseteq many
  PROVE  Only(Only(s, many), few) = Only(s, few)
  <1> DEFINE N == { r \in Seq(AnyMessage) : Only(Only(r, many), few) = Only(r, few) }
  <1>1. <<>> \in N
    BY OnlyNone, EmptyType
  <1>2. ASSUME NEW r \in Seq(AnyMessage), NEW m \in AnyMessage, r \in N
        PROVE  Append(r, m) \in N
    <2> DEFINE a == Only(r, many)
    <2>1. a \in Seq(AnyMessage) /\ Only(a, few) = Only(r, few) /\ Append(r, m) \in Seq(AnyMessage)
      BY <1>2, OnlyType, JoinType
    <2>2. Only(Append(r, m), many) = Kept(a, m, many)
      BY OnlyAppend
    <2>3. Only(Append(r, m), few) = Kept(Only(a, few), m, few)
      BY <2>1, OnlyAppend
    <2>4. Only(Append(a, m), few) = Kept(Only(a, few), m, few)
      BY <2>1, OnlyAppend
    <2> HIDE DEF a
    <2>5. Only(Kept(a, m, many), few) = Kept(Only(a, few), m, few)
      BY <2>4 DEF Kept
    <2> QED BY <2>1, <2>2, <2>3, <2>5
  <1> HIDE DEF N
  <1>3. s \in N
    BY <1>1, <1>2, Growing
  <1> QED BY <1>3 DEF N

LEMMA Members ==
  ASSUME NEW s \in Seq(AnyMessage), NEW t \in Seq(AnyMessage), NEW m \in AnyMessage
  PROVE  /\ ToSet(<<>>) = {} /\ ToSet(Append(s, m)) = ToSet(s) \cup {m}
         /\ ToSet(s \o t) = ToSet(s) \cup ToSet(t)
         /\ ToSet(s) \subseteq AnyMessage
  <1>1. ToSet(<<>>) = {}
    BY DEF ToSet
  <1>2. ToSet(Append(s, m)) = ToSet(s) \cup {m}
    <2> DEFINE r == Append(s, m)
    <2>1. /\ DOMAIN r = 1..(Len(s) + 1) /\ DOMAIN s = 1..Len(s) /\ Len(s) \in Nat
          /\ r[Len(s) + 1] = m
          /\ \A i \in 1..Len(s) : r[i] = s[i]
      OBVIOUS
    <2> HIDE DEF r
    <2>2. ToSet(r) \subseteq ToSet(s) \cup {m}
      <3> SUFFICES ASSUME NEW i \in 1..(Len(s) + 1) PROVE r[i] \in ToSet(s) \cup {m}
        BY <2>1 DEF ToSet
      <3>1. i = Len(s) + 1 \/ i \in 1..Len(s)
        BY <2>1
      <3> QED BY <2>1, <3>1 DEF ToSet
    <2>3. ToSet(s) \subseteq ToSet(r)
      <3> SUFFICES ASSUME NEW i \in 1..Len(s) PROVE s[i] \in ToSet(r)
        BY <2>1 DEF ToSet
      <3>1. i \in 1..(Len(s) + 1) /\ r[i] = s[i]
        BY <2>1
      <3> QED BY <2>1, <3>1 DEF ToSet
    <2>4. m \in ToSet(r)
      <3>1. Len(s) + 1 \in 1..(Len(s) + 1)
        BY <2>1
      <3> QED BY <2>1, <3>1 DEF ToSet
    <2> QED BY <2>2, <2>3, <2>4 DEF r
  <1>3. ToSet(s \o t) = ToSet(s) \cup ToSet(t)
    <2>1. /\ s \o t \in Seq(AnyMessage) /\ Len(s \o t) = Len(s) + Len(t)
          /\ \A i \in 1..Len(s) : (s \o t)[i] = s[i]
          /\ \A i \in 1..Len(t) : (s \o t)[Len(s) + i] = t[i]
      OBVIOUS
    <2>2. Len(s) \in Nat /\ Len(t) \in Nat
      OBVIOUS
    <2> DEFINE r == s \o t
    <2>3. DOMAIN s = 1..Len(s) /\ DOMAIN t = 1..Len(t) /\ DOMAIN r = 1..Len(r)
      BY <2>1
    <2> HIDE DEF r
    <2>4. ASSUME NEW i \in 1..Len(r) PROVE r[i] \in ToSet(s) \cup ToSet(t)
      <3>1. CASE i <= Len(s)
        BY <2>1, <2>2, <2>3, <3>1 DEF r, ToSet
      <3>2. CASE i > Len(s)
        <4>1. i - Len(s) \in 1..Len(t) /\ Len(s) + (i - Len(s)) = i
          BY <2>1, <2>2, <3>2 DEF r
        <4>2. r[i] = t[i - Len(s)]
          BY <2>1, <4>1 DEF r
        <4> QED BY <2>3, <4>1, <4>2 DEF ToSet
      <3> QED BY <2>2, <3>1, <3>2
    <2>5. ASSUME NEW i \in 1..Len(s) PROVE s[i] \in ToSet(r)
      <3>1. i \in 1..Len(r) /\ r[i] = s[i]
        BY <2>1, <2>2 DEF r
      <3> QED BY <2>3, <3>1 DEF ToSet
    <2>6. ASSUME NEW i \in 1..Len(t) PROVE t[i] \in ToSet(r)
      <3>1. Len(s) + i \in 1..Len(r) /\ r[Len(s) + i] = t[i]
        BY <2>1, <2>2 DEF r
      <3> QED BY <2>3, <3>1 DEF ToSet
    <2>7. ToSet(r) \subseteq ToSet(s) \cup ToSet(t)
      BY <2>3, <2>4 DEF ToSet
    <2>8. ToSet(s) \subseteq ToSet(r) /\ ToSet(t) \subseteq ToSet(r)
      BY <2>3, <2>5, <2>6 DEF ToSet
    <2> QED BY <2>7, <2>8 DEF r
  <1>4. ToSet(s) \subseteq AnyMessage
    BY DEF ToSet
  <1> QED BY <1>1, <1>2, <1>3, <1>4

\* Only the members of the sequence count.
LEMMA OnlySame ==
  ASSUME NEW s \in Seq(AnyMessage), NEW one, NEW other,
         \A m \in ToSet(s) : m \in one <=> m \in other
  PROVE  Only(s, one) = Only(s, other)
  <1> DEFINE N == { r \in Seq(AnyMessage) :
                      (\A m \in ToSet(r) : m \in one <=> m \in other)
                        => Only(r, one) = Only(r, other) }
  <1>1. <<>> \in N
    BY OnlyNone, EmptyType
  <1>2. ASSUME NEW r \in Seq(AnyMessage), NEW m \in AnyMessage, r \in N
        PROVE  Append(r, m) \in N
    <2>1. ToSet(Append(r, m)) = ToSet(r) \cup {m} /\ Append(r, m) \in Seq(AnyMessage)
      BY Members, JoinType
    <2>2. SUFFICES ASSUME \A x \in ToSet(r) \cup {m} : x \in one <=> x \in other
                   PROVE  Only(Append(r, m), one) = Only(Append(r, m), other)
      BY <2>1
    <2>3. Only(r, one) = Only(r, other)
      BY <1>2, <2>2
    <2>4. /\ Only(Append(r, m), one) = Kept(Only(r, one), m, one)
          /\ Only(Append(r, m), other) = Kept(Only(r, other), m, other)
      BY OnlyAppend
    <2> QED BY <2>2, <2>3, <2>4 DEF Kept
  <1> HIDE DEF N
  <1>3. s \in N
    BY <1>1, <1>2, Growing
  <1> QED BY <1>3 DEF N

LEMMA OnlyNobody ==
  ASSUME NEW s \in Seq(AnyMessage), NEW set, \A m \in ToSet(s) : m \notin set
  PROVE  Only(s, set) = <<>>
  <1> DEFINE N == { r \in Seq(AnyMessage) : Only(r, {}) = <<>> }
  <1>1. <<>> \in N
    BY OnlyNone, EmptyType
  <1>2. ASSUME NEW r \in Seq(AnyMessage), NEW m \in AnyMessage, r \in N
        PROVE  Append(r, m) \in N
    <2>1. Only(Append(r, m), {}) = Kept(Only(r, {}), m, {})
      BY OnlyAppend
    <2> QED BY <1>2, <2>1, JoinType DEF Kept
  <1> HIDE DEF N
  <1>3. s \in N
    BY <1>1, <1>2, Growing
  <1>4. Only(s, set) = Only(s, {})
    BY OnlySame
  <1> QED BY <1>3, <1>4 DEF N

(***************************************************************************)
(* The context of a session that grows.                                    *)
(***************************************************************************)
\* No two messages of a sequence have a number in common.
OneEach(s) == \A i, j \in DOMAIN s : s[i].id = s[j].id => i = j

\* What a compaction of a session kept is in it.
KeepsKnown(s) == \A i \in DOMAIN s : s[i].role = "compaction" => s[i].keep \in IdsIn(s)

Marks(s) == { i \in 1..Len(s) : s[i].role = "compaction" }

LEMMA LatestIs ==
  ASSUME NEW s
  PROVE  LatestCompaction(s) = LET i == IF Marks(s) # {} THEN Max(Marks(s)) ELSE 0
                               IN  IF i = 0 THEN NoMessage ELSE s[i]
  BY Zenon DEF LatestCompaction, LastThat, SelectLastInSeq, Marks

LEMMA LatestIn ==
  ASSUME NEW s \in Seq(AnyMessage)
  PROVE  \/ LatestCompaction(s) = NoMessage /\ Marks(s) = {}
         \/ \E i \in DOMAIN s : LatestCompaction(s) = s[i] /\ s[i].role = "compaction"
  <1> DEFINE marks == Marks(s)
  <1>1. marks \in SUBSET (1..Len(s)) /\ Len(s) \in Nat /\ DOMAIN s = 1..Len(s)
    BY DEF Marks
  <1>2. CASE marks = {}
    BY <1>2, LatestIs
  <1>3. CASE marks # {}
    <2>1. Max(marks) \in marks
      <3> HIDE DEF marks
      <3> QED BY <1>1, <1>3, MaxIsGreatest
    <2>2. Max(marks) \in 1..Len(s) /\ Max(marks) # 0
      BY <1>1, <2>1
    <2>3. LatestCompaction(s) = s[Max(marks)]
      <3>1. LatestCompaction(s) = LET i == IF marks # {} THEN Max(marks) ELSE 0
                                  IN  IF i = 0 THEN NoMessage ELSE s[i]
        BY LatestIs
      <3> HIDE DEF marks
      <3> QED BY <1>3, <2>2, <3>1
    <2>4. s[Max(marks)].role = "compaction"
      BY <2>1 DEF Marks
    <2> QED BY <1>1, <2>2, <2>3, <2>4
  <1> QED BY <1>2, <1>3

LEMMA LatestStays ==
  ASSUME NEW s \in Seq(AnyMessage), NEW m \in AnyMessage, m.role # "compaction"
  PROVE  LatestCompaction(Append(s, m)) = LatestCompaction(s)
  <1> DEFINE t == Append(s, m)
             marks == Marks(s)
  <1>1. /\ Len(t) = Len(s) + 1 /\ Len(s) \in Nat /\ t[Len(s) + 1] = m
        /\ \A i \in 1..Len(s) : t[i] = s[i]
    OBVIOUS
  <1> HIDE DEF t
  <1>2. Marks(t) = marks
    BY <1>1 DEF Marks
  <1>3. marks \in SUBSET (1..Len(s))
    BY DEF Marks
  <1>4. LatestCompaction(t) = LatestCompaction(s)
    <2>1. /\ LatestCompaction(t) = LET i == IF Marks(t) # {} THEN Max(Marks(t)) ELSE 0
                                  IN  IF i = 0 THEN NoMessage ELSE t[i]
          /\ LatestCompaction(s) = LET i == IF marks # {} THEN Max(marks) ELSE 0
                                  IN  IF i = 0 THEN NoMessage ELSE s[i]
      BY LatestIs
    <2> HIDE DEF marks
    <2>2. CASE marks = {}
      BY <1>2, <2>1, <2>2
    <2>3. CASE marks # {}
      <3>1. Max(marks) \in 1..Len(s)
        BY <1>1, <1>3, <2>3, MaxIsGreatest
      <3>2. t[Max(marks)] = s[Max(marks)]
        BY <1>1, <3>1
      <3> QED BY <1>2, <2>1, <2>3, <3>2
    <2> QED BY <2>2, <2>3
  <1> QED BY <1>4 DEF t

LEMMA PositionIs ==
  ASSUME NEW s \in Seq(AnyMessage), OneEach(s), NEW i \in DOMAIN s
  PROVE  PositionOf(s, s[i].id) = i
  BY DEF PositionOf, OneEach

LEMMA SaidType ==
  ASSUME NEW s \in Seq(AnyMessage) PROVE Said(s) \in Seq(AnyMessage)
  BY OnlyType DEF Said

LEMMA SaidAppend ==
  ASSUME NEW s \in Seq(AnyMessage), NEW m \in AnyMessage, m.role # "compaction"
  PROVE  Said(Append(s, m)) = Append(Said(s), m)
  <1> DEFINE t == Append(s, m)
             old == { e \in ToSet(s) : e.role # "compaction" }
             new == { e \in ToSet(t) : e.role # "compaction" }
  <1>1. ToSet(t) = ToSet(s) \cup {m}
    BY Members
  <1> HIDE DEF t
  <1>2. \A e \in ToSet(s) : e \in old <=> e \in new
    BY <1>1
  <1>3. m \in new
    BY <1>1
  <1>4. Only(s, old) = Only(s, new)
    <2> HIDE DEF old, new
    <2> QED BY <1>2, OnlySame
  <1>5. Only(Append(s, m), new) = Kept(Only(s, new), m, new)
    BY OnlyAppend
  <1>6. Kept(Only(s, new), m, new) = Append(Only(s, new), m)
    BY <1>3, Zenon DEF Kept
  <1>7. Said(s) = Only(s, old) /\ Said(t) = Only(t, new)
    BY DEF Said
  <1> HIDE DEF old, new
  <1>8. Said(t) = Append(Said(s), m)
    BY <1>4, <1>5, <1>6, <1>7 DEF t
  <1> QED BY <1>8 DEF t

LEMMA TailOf ==
  ASSUME NEW s \in Seq(AnyMessage), NEW m \in AnyMessage, NEW i \in 1..Len(s)
  PROVE  /\ SubSeq(Append(s, m), i, Len(s) + 1) = Append(SubSeq(s, i, Len(s)), m)
         /\ SubSeq(s, i, Len(s)) \in Seq(AnyMessage)
  OBVIOUS

LEMMA KeptAt ==
  ASSUME NEW s \in Seq(AnyMessage), KeepsKnown(s), OneEach(s), LatestCompaction(s) # NoMessage
  PROVE  \E i \in 1..Len(s) : /\ s[i].id = LatestCompaction(s).keep
                              /\ PositionOf(s, LatestCompaction(s).keep) = i
  <1>1. PICK k \in DOMAIN s : LatestCompaction(s) = s[k] /\ s[k].role = "compaction"
    BY LatestIn
  <1>2. s[k].keep \in IdsIn(s)
    BY <1>1 DEF KeepsKnown
  <1>3. PICK i \in DOMAIN s : s[k].keep = s[i].id
    BY <1>2 DEF IdsIn, ToSet
  <1>4. PositionOf(s, s[i].id) = i
    BY PositionIs
  <1>5. DOMAIN s = 1..Len(s)
    OBVIOUS
  <1> QED BY <1>1, <1>3, <1>4, <1>5

LEMMA SummaryType ==
  ASSUME NEW s \in Seq(AnyMessage)
  PROVE  Message(LatestCompaction(s).id, "summary", "") \in AnyMessage
  <1>1. LatestCompaction(s) \in AnyMessage
    BY LatestIn, NoMessageType
  <1>2. LatestCompaction(s).id \in Nat
    BY <1>1 DEF AnyMessage
  <1> QED BY <1>2, MessageType DEF Roles

LEMMA ContextType ==
  ASSUME NEW s \in Seq(AnyMessage), KeepsKnown(s), OneEach(s)
  PROVE  /\ Context(s) \in Seq(AnyMessage)
         /\ LatestCompaction(s) # NoMessage => Context(s) # <<>>
  <1>1. CASE LatestCompaction(s) = NoMessage
    BY <1>1, Zenon DEF Context
  <1>2. CASE LatestCompaction(s) # NoMessage
    <2> DEFINE summary == Message(LatestCompaction(s).id, "summary", "")
               rest == Said(SinceKept(s))
    <2>1. PICK i \in 1..Len(s) : PositionOf(s, LatestCompaction(s).keep) = i
      BY <1>2, KeptAt
    <2>2. SinceKept(s) = SubSeq(s, i, Len(s))
      BY <1>2, <2>1, Zenon DEF SinceKept
    <2>3. SinceKept(s) \in Seq(AnyMessage)
      BY <2>2
    <2>4. rest \in Seq(AnyMessage) /\ summary \in AnyMessage
      BY <2>3, SaidType, SummaryType
    <2>5. Context(s) = <<summary>> \o rest
      BY <1>2, Zenon DEF Context
    <2> HIDE DEF summary, rest
    <2>6. /\ <<summary>> \o rest \in Seq(AnyMessage)
          /\ Len(<<summary>> \o rest) = Len(rest) + 1 /\ Len(rest) \in Nat
      BY <2>4
    <2>7. <<summary>> \o rest # <<>>
      BY <2>6
    <2> QED BY <2>5, <2>6, <2>7
  <1> QED BY <1>1, <1>2

LEMMA ContextAppend ==
  ASSUME NEW s \in Seq(AnyMessage), KeepsKnown(s), OneEach(s),
         NEW m \in AnyMessage, m.role # "compaction", OneEach(Append(s, m))
  PROVE  Context(Append(s, m)) = Append(Context(s), m)
  <1> DEFINE t == Append(s, m)
             latest == LatestCompaction(s)
  <1>1. LatestCompaction(t) = latest
    BY LatestStays
  <1>2. CASE latest = NoMessage
    BY <1>1, <1>2, Zenon DEF Context
  <1>3. CASE latest # NoMessage
    <2> DEFINE summary == Message(latest.id, "summary", "")
               rest == Said(SinceKept(s))
    <2>1. PICK i \in 1..Len(s) : s[i].id = latest.keep /\ PositionOf(s, latest.keep) = i
      BY <1>3, KeptAt
    <2>2. /\ t \in Seq(AnyMessage) /\ t[i] = s[i] /\ i \in DOMAIN t /\ Len(t) = Len(s) + 1
      OBVIOUS
    <2>3. PositionOf(t, latest.keep) = i
      <3> HIDE DEF t, latest
      <3>1. OneEach(t)
        BY DEF t
      <3>2. PositionOf(t, t[i].id) = i
        BY <2>2, <3>1, PositionIs
      <3> QED BY <2>1, <2>2, <3>2
    <2>4. SinceKept(s) = SubSeq(s, i, Len(s))
      BY <1>3, <2>1, Zenon DEF SinceKept
    <2>5. SinceKept(t) = SubSeq(t, i, Len(t))
      BY <1>1, <1>3, <2>3, Zenon DEF SinceKept
    <2>6. SinceKept(t) = Append(SinceKept(s), m) /\ SinceKept(s) \in Seq(AnyMessage)
      BY <2>2, <2>4, <2>5, TailOf
    <2>7. Said(SinceKept(t)) = Append(rest, m)
      BY <2>6, SaidAppend
    <2>8. rest \in Seq(AnyMessage) /\ summary \in AnyMessage
      BY <2>6, SaidType, SummaryType
    <2>9. Context(s) = <<summary>> \o rest
      BY <1>3, Zenon DEF Context
    <2>10. Context(t) = <<summary>> \o Append(rest, m)
      BY <1>1, <1>3, <2>7, Zenon DEF Context
    <2> HIDE DEF summary, rest, t
    <2>11. <<summary>> \o Append(rest, m) = Append(<<summary>> \o rest, m)
      BY <2>8
    <2>12. Context(t) = Append(Context(s), m)
      BY <2>9, <2>10, <2>11
    <2> QED BY <2>12 DEF t
  <1> QED BY <1>2, <1>3

(***************************************************************************)
(* Numbers.                                                                *)
(***************************************************************************)
\* Messages with a number have one of their own.
Distinct(s) == \A i, j \in DOMAIN s : s[i].id = s[j].id => i = j \/ s[i].id = 0

LEMMA IdsAre ==
  ASSUME NEW s \in Seq(AnyMessage), NEW t \in Seq(AnyMessage), NEW m \in AnyMessage
  PROVE  /\ IdsIn(<<>>) = {} /\ IdsIn(Append(s, m)) = IdsIn(s) \cup {m.id}
         /\ IdsIn(s \o t) = IdsIn(s) \cup IdsIn(t)
         /\ IdsIn(<<m>> \o t) = {m.id} \cup IdsIn(t)
  <1>1. /\ ToSet(<<>>) = {} /\ ToSet(Append(s, m)) = ToSet(s) \cup {m}
        /\ ToSet(s \o t) = ToSet(s) \cup ToSet(t)
    BY Members
  <1>2. ToSet(<<m>> \o t) = {m} \cup ToSet(t)
    <2> DEFINE one == <<m>>
    <2>1. one \in Seq(AnyMessage) /\ ToSet(one) = {m}
      BY DEF ToSet
    <2> HIDE DEF one
    <2>2. ToSet(one \o t) = ToSet(one) \cup ToSet(t)
      BY <2>1, Members
    <2> QED BY <2>1, <2>2 DEF one
  <1> QED BY <1>1, <1>2 DEF IdsIn

LEMMA IdOf ==
  ASSUME NEW s \in Seq(AnyMessage), NEW i \in DOMAIN s PROVE s[i].id \in IdsIn(s)
  BY DEF IdsIn, ToSet

LEMMA DistinctAppend ==
  ASSUME NEW s \in Seq(AnyMessage), NEW m \in AnyMessage, Distinct(s),
         m.id \notin IdsIn(s) \/ m.id = 0
  PROVE  Distinct(Append(s, m))
  <1> DEFINE t == Append(s, m)
  <1>1. /\ DOMAIN t = 1..(Len(s) + 1) /\ DOMAIN s = 1..Len(s) /\ Len(s) \in Nat
        /\ t[Len(s) + 1] = m /\ \A i \in 1..Len(s) : t[i] = s[i]
    OBVIOUS
  <1>2. \A i \in 1..Len(s) : s[i].id \in IdsIn(s)
    BY <1>1, IdOf
  <1> HIDE DEF t
  <1>3. \A i \in 1..(Len(s) + 1) : i \in 1..Len(s) \/ i = Len(s) + 1
    BY <1>1
  <1>4. Distinct(t)
    <2> SUFFICES ASSUME NEW i \in DOMAIN t, NEW j \in DOMAIN t, t[i].id = t[j].id
                 PROVE  i = j \/ t[i].id = 0
      BY DEF Distinct
    <2>1. CASE i \in 1..Len(s) /\ j \in 1..Len(s)
      BY <1>1, <2>1 DEF Distinct
    <2>2. CASE i \in 1..Len(s) /\ j = Len(s) + 1
      BY <1>1, <1>2, <2>2
    <2>3. CASE j \in 1..Len(s) /\ i = Len(s) + 1
      BY <1>1, <1>2, <2>3
    <2> QED BY <1>1, <1>3, <2>1, <2>2, <2>3
  <1> QED BY <1>4 DEF t

LEMMA DistinctTail ==
  ASSUME NEW t \in Seq(AnyMessage), NEW m \in AnyMessage, Distinct(<<m>> \o t)
  PROVE  Distinct(t) /\ (m.id \notin IdsIn(t) \/ m.id = 0)
  <1> DEFINE s == <<m>> \o t
  <1>1. /\ DOMAIN s = 1..(Len(t) + 1) /\ DOMAIN t = 1..Len(t) /\ Len(t) \in Nat
        /\ s[1] = m /\ \A i \in 1..Len(t) : s[i + 1] = t[i]
    OBVIOUS
  <1>2. Distinct(s)
    OBVIOUS
  <1> HIDE DEF s
  <1>3. \A i \in 1..Len(t) : i + 1 \in DOMAIN s /\ i + 1 # 1 /\ 1 \in DOMAIN s
    BY <1>1
  <1>4. Distinct(t)
    <2> SUFFICES ASSUME NEW i \in DOMAIN t, NEW j \in DOMAIN t, t[i].id = t[j].id
                 PROVE  i = j \/ t[i].id = 0
      BY DEF Distinct
    <2>1. i + 1 = j + 1 \/ s[i + 1].id = 0
      BY <1>1, <1>2, <1>3 DEF Distinct
    <2> QED BY <1>1, <2>1
  <1>5. ASSUME m.id \in IdsIn(t) PROVE m.id = 0
    <2>1. PICK i \in DOMAIN t : m.id = t[i].id
      BY <1>5 DEF IdsIn, ToSet
    <2> QED BY <1>1, <1>2, <1>3, <2>1 DEF Distinct
  <1> QED BY <1>4, <1>5

LEMMA DistinctJoin ==
  ASSUME NEW s \in Seq(AnyMessage), NEW t \in Seq(AnyMessage), Distinct(s), Distinct(t),
         IdsIn(s) \cap IdsIn(t) = {}
  PROVE  Distinct(s \o t)
  <1> DEFINE r == s \o t
  <1>1. /\ DOMAIN r = 1..(Len(s) + Len(t)) /\ DOMAIN s = 1..Len(s) /\ DOMAIN t = 1..Len(t)
        /\ Len(s) \in Nat /\ Len(t) \in Nat
        /\ \A i \in 1..Len(s) : r[i] = s[i]
        /\ \A i \in 1..(Len(s) + Len(t)) : i > Len(s) => r[i] = t[i - Len(s)]
    OBVIOUS
  <1> HIDE DEF r
  <1>2. \A i \in DOMAIN r : \/ i \in DOMAIN s /\ r[i] = s[i]
                            \/ i > Len(s) /\ i - Len(s) \in DOMAIN t /\ r[i] = t[i - Len(s)]
    BY <1>1
  <1>3. /\ \A i \in DOMAIN s : s[i].id \in IdsIn(s)
        /\ \A i \in DOMAIN t : t[i].id \in IdsIn(t)
    BY IdOf
  <1>4. Distinct(r)
    <2> SUFFICES ASSUME NEW i \in DOMAIN r, NEW j \in DOMAIN r, r[i].id = r[j].id
                 PROVE  i = j \/ r[i].id = 0
      BY DEF Distinct
    <2>1. CASE i \in DOMAIN s /\ r[i] = s[i] /\ j \in DOMAIN s /\ r[j] = s[j]
      BY <2>1 DEF Distinct
    <2>2. CASE /\ i - Len(s) \in DOMAIN t /\ r[i] = t[i - Len(s)]
               /\ j - Len(s) \in DOMAIN t /\ r[j] = t[j - Len(s)]
      <3>1. i - Len(s) = j - Len(s) \/ r[i].id = 0
        BY <2>2 DEF Distinct
      <3> QED BY <1>1, <3>1
    <2>3. CASE i \in DOMAIN s /\ r[i] = s[i] /\ j - Len(s) \in DOMAIN t /\ r[j] = t[j - Len(s)]
      BY <1>3, <2>3
    <2>4. CASE j \in DOMAIN s /\ r[j] = s[j] /\ i - Len(s) \in DOMAIN t /\ r[i] = t[i - Len(s)]
      BY <1>3, <2>4
    <2> QED BY <1>2, <2>1, <2>2, <2>3, <2>4
  <1> QED BY <1>4 DEF r

LEMMA OneEachIs ==
  ASSUME NEW s \in Seq(AnyMessage), Distinct(s), 0 \notin IdsIn(s) PROVE OneEach(s)
  BY IdOf DEF Distinct, OneEach

LEMMA KeepsAppend ==
  ASSUME NEW s \in Seq(AnyMessage), NEW m \in AnyMessage, KeepsKnown(s),
         m.role = "compaction" => m.keep \in IdsIn(s)
  PROVE  KeepsKnown(Append(s, m))
  <1> DEFINE t == Append(s, m)
  <1>1. /\ DOMAIN t = 1..(Len(s) + 1) /\ DOMAIN s = 1..Len(s) /\ Len(s) \in Nat
        /\ t[Len(s) + 1] = m /\ \A i \in 1..Len(s) : t[i] = s[i]
    OBVIOUS
  <1>2. IdsIn(t) = IdsIn(s) \cup {m.id}
    BY IdsAre
  <1> HIDE DEF t
  <1>3. \A i \in 1..(Len(s) + 1) : i \in 1..Len(s) \/ i = Len(s) + 1
    BY <1>1
  <1>4. KeepsKnown(t)
    BY <1>1, <1>2, <1>3 DEF KeepsKnown
  <1> QED BY <1>4 DEF t

\* Bash results that are entered together.
LEMMA ContextJoin ==
  ASSUME NEW s \in Seq(AnyMessage), NEW t \in Seq(AnyMessage), KeepsKnown(s),
         Distinct(s), Distinct(t), IdsIn(s) \cap IdsIn(t) = {}, 0 \notin IdsIn(s) \cup IdsIn(t),
         \A m \in ToSet(t) : m.role # "compaction"
  PROVE  Context(s \o t) = Context(s) \o t /\ KeepsKnown(s \o t)
  <1> DEFINE May(r) == /\ Distinct(r) /\ IdsIn(s) \cap IdsIn(r) = {} /\ 0 \notin IdsIn(r)
                       /\ \A m \in ToSet(r) : m.role # "compaction"
             Is(r) == Context(s \o r) = Context(s) \o r /\ KeepsKnown(s \o r)
             N == { r \in Seq(AnyMessage) : May(r) => Is(r) }
  <1>0. OneEach(s) /\ Context(s) \in Seq(AnyMessage)
    BY OneEachIs, ContextType
  <1>1. <<>> \in N
    <2>1. s \o <<>> = s /\ Context(s) \o <<>> = Context(s)
      <3> HIDE DEF Context
      <3> QED BY <1>0
    <2>2. Is(<<>>)
      BY <2>1
    <2> HIDE DEF May, Is
    <2> QED BY <2>2, EmptyType
  <1>2. ASSUME NEW r \in Seq(AnyMessage), NEW m \in AnyMessage, r \in N
        PROVE  Append(r, m) \in N
    <2> SUFFICES ASSUME May(Append(r, m)) PROVE Is(Append(r, m))
      <3> HIDE DEF May, Is
      <3> QED BY JoinType
    <2>1. IdsIn(Append(r, m)) = IdsIn(r) \cup {m.id} /\ ToSet(Append(r, m)) = ToSet(r) \cup {m}
      BY IdsAre, Members
    <2>2. Distinct(r) /\ m.id \notin IdsIn(r)
      <3> DEFINE u == Append(r, m)
      <3>1. /\ DOMAIN u = 1..(Len(r) + 1) /\ DOMAIN r = 1..Len(r) /\ Len(r) \in Nat
            /\ u[Len(r) + 1] = m /\ \A i \in 1..Len(r) : u[i] = r[i]
        OBVIOUS
      <3>2. Distinct(u) /\ m.id # 0
        BY <2>1
      <3> HIDE DEF u
      <3>3. \A i \in 1..Len(r) : i \in DOMAIN u /\ i # Len(r) + 1 /\ Len(r) + 1 \in DOMAIN u
        BY <3>1
      <3>4. Distinct(r)
        BY <3>1, <3>2, <3>3 DEF Distinct
      <3>5. ASSUME m.id \in IdsIn(r) PROVE FALSE
        <4>1. PICK i \in DOMAIN r : m.id = r[i].id
          BY <3>5 DEF IdsIn, ToSet
        <4> QED BY <3>1, <3>2, <3>3, <4>1 DEF Distinct
      <3> QED BY <3>4, <3>5
    <2>3. May(r)
      BY <2>1, <2>2
    <2>4. Is(r)
      <3> HIDE DEF May, Is
      <3> QED BY <1>2, <2>3
    <2> DEFINE w == s \o r
    <2>5. w \in Seq(AnyMessage) /\ s \o Append(r, m) = Append(w, m)
      BY JoinType
    <2>6. Distinct(w) /\ IdsIn(w) = IdsIn(s) \cup IdsIn(r)
      BY <2>3, DistinctJoin, IdsAre
    <2>7. KeepsKnown(w) /\ Context(w) = Context(s) \o r
      BY <2>4
    <2> HIDE DEF w
    <2>8. m.id \notin IdsIn(w) /\ 0 \notin IdsIn(w) /\ m.id # 0 /\ m.role # "compaction"
      BY <2>1, <2>2, <2>6
    <2>9. OneEach(w) /\ OneEach(Append(w, m)) /\ KeepsKnown(Append(w, m))
      <3>1. Distinct(Append(w, m)) /\ Append(w, m) \in Seq(AnyMessage)
        BY <2>5, <2>6, <2>8, DistinctAppend, JoinType
      <3>2. 0 \notin IdsIn(Append(w, m))
        <4>1. IdsIn(Append(w, m)) = IdsIn(w) \cup {m.id}
          BY <2>5, IdsAre
        <4> QED BY <2>8, <4>1
      <3> QED BY <2>5, <2>6, <2>7, <2>8, <3>1, <3>2, OneEachIs, KeepsAppend
    <2>10. Context(Append(w, m)) = Append(Context(w), m)
      BY <2>5, <2>7, <2>8, <2>9, ContextAppend
    <2>11. Append(Context(s) \o r, m) = Context(s) \o Append(r, m)
      BY <1>0, JoinAppend
    <2> QED BY <2>5, <2>7, <2>9, <2>10, <2>11
  <1> HIDE DEF N
  <1>3. t \in N
    BY <1>1, <1>2, Growing
  <1> QED BY <1>3 DEF N

(***************************************************************************)
(* What two sequences have in common.                                      *)
(***************************************************************************)
Common(L) == { m \in AnyMessage : ~IsError(m) /\ m.id \notin L }
Spoken(L) == { m \in Common(L) : m.role # "bashExecution" }

\* The same messages, but for failures and those numbered in L, and but for bash
\* results in the same order.
Agree(a, b, L) == /\ Only(a, Spoken(L)) = Only(b, Spoken(L))
                  /\ ToSet(a) \cap Common(L) = ToSet(b) \cap Common(L)

LEMMA JoinIn ==
  ASSUME NEW s \in Seq(AnyMessage), NEW t \in Seq(AnyMessage)
  PROVE  s \o t \in Seq(AnyMessage) /\ ToSet(s \o t) = ToSet(s) \cup ToSet(t)
  <1>1. ToSet(s \o t) = ToSet(s) \cup ToSet(t)
    BY Members, NoMessageType
  <1> QED BY <1>1

LEMMA AgreeMore ==
  ASSUME NEW a \in Seq(AnyMessage), NEW b \in Seq(AnyMessage), NEW L, NEW M, Agree(a, b, L),
         L \subseteq M
  PROVE  Agree(a, b, M)
  <1>1. Spoken(M) \subseteq Spoken(L) /\ Common(M) \subseteq Common(L)
    BY DEF Spoken, Common
  <1>2. /\ Only(Only(a, Spoken(L)), Spoken(M)) = Only(a, Spoken(M))
        /\ Only(Only(b, Spoken(L)), Spoken(M)) = Only(b, Spoken(M))
    BY <1>1, OnlyTwice
  <1>3. Only(a, Spoken(M)) = Only(b, Spoken(M))
    BY <1>2, Zenon DEF Agree
  <1>4. ToSet(a) \cap Common(M) = ToSet(b) \cap Common(M)
    BY <1>1, Zenon DEF Agree
  <1> QED BY <1>3, <1>4, Zenon DEF Agree

LEMMA AgreeJoin ==
  ASSUME NEW a \in Seq(AnyMessage), NEW b \in Seq(AnyMessage), NEW c \in Seq(AnyMessage),
         NEW d \in Seq(AnyMessage), NEW L, Agree(a, b, L), Agree(c, d, L)
  PROVE  Agree(a \o c, b \o d, L)
  <1>1. /\ Only(a \o c, Spoken(L)) = Only(a, Spoken(L)) \o Only(c, Spoken(L))
        /\ Only(b \o d, Spoken(L)) = Only(b, Spoken(L)) \o Only(d, Spoken(L))
    BY OnlyConcat
  <1>2. Only(a \o c, Spoken(L)) = Only(b \o d, Spoken(L))
    BY <1>1, Zenon DEF Agree
  <1>3. ToSet(a \o c) = ToSet(a) \cup ToSet(c) /\ ToSet(b \o d) = ToSet(b) \cup ToSet(d)
    BY JoinIn
  <1>4. ToSet(a \o c) \cap Common(L) = ToSet(b \o d) \cap Common(L)
    BY <1>3, Zenon DEF Agree
  <1> QED BY <1>2, <1>4, Zenon DEF Agree

LEMMA AgreeSame == ASSUME NEW a, NEW L PROVE Agree(a, a, L)
  BY Zenon DEF Agree

LEMMA AgreeTurn == ASSUME NEW a, NEW b, NEW L, Agree(a, b, L) PROVE Agree(b, a, L)
  BY Zenon DEF Agree

LEMMA AgreeChain ==
  ASSUME NEW a, NEW b, NEW c, NEW L, Agree(a, b, L), Agree(b, c, L) PROVE Agree(a, c, L)
  BY Zenon DEF Agree

\* Sequences of which nothing counts.
LEMMA AgreeNothing ==
  ASSUME NEW a \in Seq(AnyMessage), NEW L, \A m \in ToSet(a) : m \notin Common(L)
  PROVE  Agree(a, <<>>, L) /\ Agree(<<>>, a, L)
  <1>1. \A m \in ToSet(a) : m \notin Spoken(L)
    BY DEF Spoken
  <1>2. Only(a, Spoken(L)) = <<>> /\ Only(<<>>, Spoken(L)) = <<>>
    BY <1>1, OnlyNobody, OnlyNone
  <1>3. ToSet(<<>>) = {}
    BY Members, EmptyType, NoMessageType
  <1> QED BY <1>2, <1>3 DEF Agree

LEMMA OneIs ==
  ASSUME NEW a \in Seq(AnyMessage), NEW m \in AnyMessage
  PROVE  <<m>> \in Seq(AnyMessage) /\ ToSet(<<m>>) = {m} /\ Append(a, m) = a \o <<m>>
         /\ a \o <<>> = a
  BY DEF ToSet

LEMMA AgreeAppend ==
  ASSUME NEW a \in Seq(AnyMessage), NEW b \in Seq(AnyMessage), NEW m \in AnyMessage, NEW L,
         Agree(a, b, L)
  PROVE  Agree(Append(a, m), Append(b, m), L)
  <1>1. <<m>> \in Seq(AnyMessage) /\ Append(a, m) = a \o <<m>> /\ Append(b, m) = b \o <<m>>
    BY OneIs
  <1>2. Agree(<<m>>, <<m>>, L)
    BY AgreeSame
  <1> QED BY <1>1, <1>2, AgreeJoin

LEMMA AgreeWithout ==
  ASSUME NEW a \in Seq(AnyMessage), NEW m \in AnyMessage, NEW L, m \notin Common(L)
  PROVE  Agree(Append(a, m), a, L) /\ Agree(a, Append(a, m), L)
  <1>1. <<m>> \in Seq(AnyMessage) /\ ToSet(<<m>>) = {m} /\ Append(a, m) = a \o <<m>>
        /\ a \o <<>> = a
    BY OneIs
  <1>2. Agree(<<m>>, <<>>, L)
    BY <1>1, AgreeNothing
  <1>3. Agree(a, a, L)
    BY AgreeSame
  <1>4. Agree(a \o <<m>>, a \o <<>>, L)
    BY <1>1, <1>2, <1>3, EmptyType, AgreeJoin
  <1> QED BY <1>1, <1>4, AgreeTurn

\* The last message is taken out.
LEMMA FrontLast ==
  ASSUME NEW a \in Seq(AnyMessage), a # <<>>
  PROVE  Front(a) \in Seq(AnyMessage) /\ Last(a) \in AnyMessage /\ Last(a) \in ToSet(a)
         /\ a = Append(Front(a), Last(a))
  <1>1. Len(a) \in Nat /\ Len(a) # 0 /\ DOMAIN a = 1..Len(a) /\ Len(a) \in 1..Len(a)
    OBVIOUS
  <1>2. Last(a) = a[Len(a)] /\ Front(a) = SubSeq(a, 1, Len(a) - 1)
    BY DEF Last, Front
  <1>3. SubSeq(a, 1, Len(a) - 1) \in Seq(AnyMessage)
        /\ a = Append(SubSeq(a, 1, Len(a) - 1), a[Len(a)])
    BY <1>1
  <1>4. a[Len(a)] \in ToSet(a) /\ a[Len(a)] \in AnyMessage
    BY <1>1 DEF ToSet
  <1> QED BY <1>2, <1>3, <1>4

LEMMA AgreeFront ==
  ASSUME NEW a \in Seq(AnyMessage), a # <<>>, NEW L, Last(a) \notin Common(L)
  PROVE  Agree(Front(a), a, L)
  <1> DEFINE f == Front(a)
             m == Last(a)
  <1>1. f \in Seq(AnyMessage) /\ m \in AnyMessage /\ a = Append(f, m)
    BY FrontLast
  <1>2. m \notin Common(L)
    OBVIOUS
  <1> HIDE DEF f, m
  <1>3. Agree(f, Append(f, m), L)
    BY <1>1, <1>2, AgreeWithout
  <1>4. Agree(f, a, L)
    BY <1>1, <1>3
  <1> QED BY <1>4 DEF f

\* A reply taken out of a transcript before a retry.
LEMMA AgreeDropping ==
  ASSUME NEW a \in Seq(AnyMessage), NEW L, LostByDropping(a) \subseteq L
  PROVE  Dropping(a) \in Seq(AnyMessage) /\ Agree(Dropping(a), a, L)
  <1>1. CASE LastIsReply(a)
    <2>1. a # <<>>
      BY <1>1 DEF LastIsReply
    <2>2. Dropping(a) = Front(a)
      BY <1>1, Zenon DEF Dropping
    <2>3. Last(a) \notin Common(L)
      <3>1. CASE IsError(Last(a))
        BY <3>1, Zenon DEF Common
      <3>2. CASE ~IsError(Last(a))
        <4>1. LostByDropping(a) = {Last(a).id}
          BY <1>1, <3>2, Zenon DEF LostByDropping
        <4> QED BY <4>1, Zenon DEF Common
      <3> QED BY <3>1, <3>2
    <2> QED BY <2>1, <2>2, <2>3, FrontLast, AgreeFront
  <1>2. CASE ~LastIsReply(a)
    <2>1. Dropping(a) = a
      BY <1>2, Zenon DEF Dropping
    <2> QED BY <2>1, AgreeSame
  <1> QED BY <1>1, <1>2

\* Bash results, wherever they are entered.
LEMMA AgreeBash ==
  ASSUME NEW a \in Seq(AnyMessage), NEW b \in Seq(AnyMessage), NEW c \in Seq(AnyMessage),
         NEW t \in Seq(AnyMessage), \A m \in ToSet(t) : m.role = "bashExecution",
         NEW L, Agree(a, b \o c, L)
  PROVE  Agree(a \o t, (b \o t) \o c, L)
  <1> DEFINE T == Spoken(L)
  <1>1. \A m \in ToSet(t) : m \notin T
    BY DEF Spoken
  <1> HIDE DEF T
  <1>2. Only(t, T) = <<>>
    BY <1>1, OnlyNobody
  <1>j. b \o t \in Seq(AnyMessage) /\ b \o c \in Seq(AnyMessage)
    BY JoinIn
  <1>3. Only(a \o t, T) = Only(a, T) \o Only(t, T)
    BY OnlyConcat
  <1>k. Only(b \o t, T) = Only(b, T) \o Only(t, T)
    BY OnlyConcat, Zenon
  <1>l. Only(b \o c, T) = Only(b, T) \o Only(c, T)
    BY OnlyConcat, Zenon
  <1> DEFINE bt == b \o t
  <1>4. Only(bt \o c, T) = Only(bt, T) \o Only(c, T)
    <2>1. bt \in Seq(AnyMessage)
      BY <1>j
    <2> HIDE DEF bt
    <2> QED BY <2>1, OnlyConcat, Zenon
  <1>5. Only(a, T) \o <<>> = Only(a, T) /\ Only(b, T) \o <<>> = Only(b, T)
    BY OnlyType, OneIs, NoMessageType
  <1>6. Only(a, T) = Only(b \o c, T)
    BY Zenon DEF Agree, T
  <1>7. Only(a \o t, T) = Only((b \o t) \o c, T)
    BY <1>2, <1>3, <1>k, <1>l, <1>4, <1>5, <1>6, Zenon
  <1>8. /\ ToSet(a \o t) = ToSet(a) \cup ToSet(t) /\ ToSet(b \o t) = ToSet(b) \cup ToSet(t)
        /\ ToSet((b \o t) \o c) = ToSet(b \o t) \cup ToSet(c)
        /\ ToSet(b \o c) = ToSet(b) \cup ToSet(c)
    <2>1. ToSet(bt \o c) = ToSet(bt) \cup ToSet(c)
      <3>1. bt \in Seq(AnyMessage)
        BY <1>j
      <3> HIDE DEF bt
      <3> QED BY <3>1, JoinIn
    <2> QED BY <2>1, JoinIn
  <1>9. ToSet(a) \cap Common(L) = ToSet(b \o c) \cap Common(L)
    BY Zenon DEF Agree
  <1>10. ToSet(a \o t) \cap Common(L) = ToSet((b \o t) \o c) \cap Common(L)
    BY <1>8, <1>9, Zenon
  <1> QED BY <1>7, <1>10, Zenon DEF Agree, T

(***************************************************************************)
(* What the events that are not processed will bring.                      *)
(***************************************************************************)
\* A failure that nobody made stands for an agent_end.
Nothing == Message(0, "assistant", "failed")
Carried(e) == IF e.type = "message_end" THEN e.message ELSE Nothing
Carry(ev) == [i \in DOMAIN ev |-> Carried(ev[i])]
Coming == Carry(events)

LEMMA NothingIs == Nothing \in AnyMessage /\ IsError(Nothing) /\ Nothing.id = 0
                   /\ Nothing.role # "compaction"
  BY MessageType DEF Nothing, IsError, IsReply, Roles, Stops, Message

LEMMA CarryType ==
  ASSUME NEW ev \in Seq(Event) PROVE Carry(ev) \in Seq(AnyMessage)
  <1>1. \A i \in DOMAIN ev : Carried(ev[i]) \in AnyMessage
    <2> SUFFICES ASSUME NEW i \in DOMAIN ev PROVE Carried(ev[i]) \in AnyMessage
      OBVIOUS
    <2>1. ev[i] \in Event
      OBVIOUS
    <2>2. ev[i].message \in AnyMessage
      BY <2>1 DEF Event
    <2> QED BY <2>2, NothingIs, Zenon DEF Carried
  <1>2. DOMAIN ev = 1..Len(ev) /\ Len(ev) \in Nat
    OBVIOUS
  <1> QED BY <1>1, <1>2 DEF Carry

LEMMA CarriedType == ASSUME NEW e \in Event PROVE Carried(e) \in AnyMessage
  BY NothingIs DEF Carried, Event

LEMMA CarryMore ==
  ASSUME NEW ev \in Seq(Event), NEW e \in Event
  PROVE  Carry(Append(ev, e)) = Append(Carry(ev), Carried(e))
  <1> DEFINE t == Append(ev, e)
             l == Carry(t)
             r == Append(Carry(ev), Carried(e))
  <1>1. /\ t \in Seq(Event) /\ DOMAIN t = 1..(Len(ev) + 1) /\ DOMAIN ev = 1..Len(ev)
        /\ Len(ev) \in Nat
        /\ t[Len(ev) + 1] = e /\ \A i \in 1..Len(ev) : t[i] = ev[i]
    OBVIOUS
  <1> HIDE DEF t
  <1>2. /\ DOMAIN l = 1..(Len(ev) + 1) /\ l[Len(ev) + 1] = Carried(e)
        /\ \A i \in 1..Len(ev) : l[i] = Carried(ev[i])
    BY <1>1 DEF Carry
  <1>3. Carry(ev) \in Seq(AnyMessage) /\ Carried(e) \in AnyMessage
    BY CarryType, CarriedType
  <1>4. Len(Carry(ev)) = Len(ev) /\ \A i \in 1..Len(ev) : Carry(ev)[i] = Carried(ev[i])
    BY <1>1 DEF Carry
  <1> DEFINE c == Carry(ev)
  <1>c. c \in Seq(AnyMessage) /\ Len(c) = Len(ev) /\ \A i \in 1..Len(ev) : c[i] = Carried(ev[i])
    BY <1>3, <1>4
  <1> HIDE DEF c
  <1>5. /\ Append(c, Carried(e)) \in Seq(AnyMessage)
        /\ DOMAIN Append(c, Carried(e)) = 1..(Len(ev) + 1)
        /\ Append(c, Carried(e))[Len(ev) + 1] = Carried(e)
        /\ \A i \in 1..Len(ev) : Append(c, Carried(e))[i] = Carried(ev[i])
    BY <1>3, <1>c
  <1>6. l \in Seq(AnyMessage)
    BY <1>1, CarryType
  <1> HIDE DEF l
  <1>7. \A i \in 1..(Len(ev) + 1) : i \in 1..Len(ev) \/ i = Len(ev) + 1
    BY <1>1
  <1>8. l = Append(c, Carried(e))
    BY <1>1, <1>2, <1>5, <1>6, <1>7
  <1> QED BY <1>8 DEF l, t, c

LEMMA CarryLess ==
  ASSUME NEW ev \in Seq(Event), ev # <<>>
  PROVE  /\ Tail(ev) \in Seq(Event) /\ Head(ev) \in Event
         /\ Carry(ev) = <<Carried(Head(ev))>> \o Carry(Tail(ev))
  <1> DEFINE t == Tail(ev)
             h == Head(ev)
  <1>1. /\ t \in Seq(Event) /\ Len(ev) \in Nat /\ Len(ev) # 0 /\ Len(t) = Len(ev) - 1
        /\ DOMAIN t = 1..Len(t) /\ DOMAIN ev = 1..Len(ev)
        /\ h = ev[1] /\ h \in Event /\ \A i \in 1..Len(t) : t[i] = ev[i + 1]
    OBVIOUS
  <1> HIDE DEF t, h
  <1> DEFINE c == Carry(t)
             m == Carried(h)
             l == Carry(ev)
  <1>2. c \in Seq(AnyMessage) /\ m \in AnyMessage /\ l \in Seq(AnyMessage)
    BY <1>1, CarryType, CarriedType
  <1>3. /\ Len(c) = Len(t) /\ \A i \in 1..Len(t) : c[i] = Carried(ev[i + 1])
        /\ Len(l) = Len(ev) /\ \A i \in 1..Len(ev) : l[i] = Carried(ev[i])
    BY <1>1 DEF Carry
  <1>4. l[1] = m
    BY <1>1, <1>3
  <1> HIDE DEF c, m, l
  <1>5. \A i \in 1..Len(t) : i + 1 \in 1..Len(ev) /\ c[i] = l[i + 1]
    BY <1>1, <1>3
  <1>6. l = <<m>> \o c
    <2>1. /\ <<m>> \o c \in Seq(AnyMessage) /\ Len(<<m>> \o c) = Len(ev)
          /\ (<<m>> \o c)[1] = m /\ \A i \in 1..Len(c) : (<<m>> \o c)[i + 1] = c[i]
      BY <1>1, <1>2, <1>3
    <2> DEFINE r == <<m>> \o c
    <2>2. \A i \in 1..Len(ev) : r[i] = l[i]
      <3> SUFFICES ASSUME NEW i \in 1..Len(ev) PROVE r[i] = l[i]
        OBVIOUS
      <3>1. i = 1 \/ (i - 1 \in 1..Len(t) /\ (i - 1) + 1 = i)
        BY <1>1
      <3>2. r[1] = m /\ \A k \in 1..Len(t) : r[k + 1] = c[k]
        BY <1>3, <2>1
      <3> HIDE DEF r
      <3> QED BY <1>4, <1>5, <3>1, <3>2
    <2>3. r \in Seq(AnyMessage) /\ Len(r) = Len(ev)
      BY <2>1
    <2> HIDE DEF r
    <2>4. r = l
      BY <1>2, <1>3, <2>2, <2>3
    <2> QED BY <2>4 DEF r
  <1> QED BY <1>1, <1>6 DEF l, m, c, t, h

\* A message of an event has a number.
Loaded(ev) == \A i \in DOMAIN ev : ev[i].type = "message_end" => ev[i].message.id # 0

LEMMA LoadedMore ==
  ASSUME NEW ev \in Seq(Event), NEW e \in Event, Loaded(ev),
         e.type = "message_end" => e.message.id # 0
  PROVE  Loaded(Append(ev, e))
  <1> DEFINE t == Append(ev, e)
  <1>1. /\ DOMAIN t = 1..(Len(ev) + 1) /\ DOMAIN ev = 1..Len(ev) /\ Len(ev) \in Nat
        /\ t[Len(ev) + 1] = e /\ \A i \in 1..Len(ev) : t[i] = ev[i]
    OBVIOUS
  <1> HIDE DEF t
  <1>2. \A i \in 1..(Len(ev) + 1) : i \in 1..Len(ev) \/ i = Len(ev) + 1
    BY <1>1
  <1>3. Loaded(t)
    BY <1>1, <1>2 DEF Loaded
  <1> QED BY <1>3 DEF t

LEMMA LoadedLess ==
  ASSUME NEW ev \in Seq(Event), ev # <<>>, Loaded(ev)
  PROVE  Loaded(Tail(ev)) /\ (Head(ev).type = "message_end" => Head(ev).message.id # 0)
  <1> DEFINE t == Tail(ev)
             h == Head(ev)
  <1>1. /\ Len(ev) \in Nat /\ Len(ev) # 0 /\ Len(t) = Len(ev) - 1
        /\ DOMAIN t = 1..Len(t) /\ DOMAIN ev = 1..Len(ev)
        /\ h = ev[1] /\ \A i \in 1..Len(t) : t[i] = ev[i + 1]
    OBVIOUS
  <1> HIDE DEF t, h
  <1>2. 1 \in DOMAIN ev /\ \A i \in 1..Len(t) : i + 1 \in DOMAIN ev
    BY <1>1
  <1>3. Loaded(t) /\ (h.type = "message_end" => h.message.id # 0)
    BY <1>1, <1>2 DEF Loaded
  <1> QED BY <1>3 DEF t, h

(***************************************************************************)
(* The invariant.                                                          *)
(***************************************************************************)
Places == [pc : {"none", "auth", "summary", "waiting"}, retry : BOOLEAN, keep : Nat]

\* A summary that is being written keeps entries of the session.
Summarizing(places, s) ==
  /\ places \in [Compactors -> Places]
  /\ \A c \in Compactors : places[c].pc = "summary" => places[c].keep \in IdsIn(s)

Sequences == /\ messages \in Seq(AnyMessage) /\ session \in Seq(AnyMessage)
             /\ pendingBash \in Seq(AnyMessage) /\ events \in Seq(Event)
             /\ lastId \in Nat

\* What is entered, what is to be entered and what waits for the next prompt are
\* different messages.
NumberedBy(s, c, b, top) ==
  /\ Distinct(s) /\ Distinct(c) /\ Distinct(b)
  /\ IdsIn(s) \cap IdsIn(c) = {} /\ IdsIn(s) \cap IdsIn(b) = {} /\ IdsIn(c) \cap IdsIn(b) = {}
  /\ IdsIn(s) \subseteq 1..top /\ IdsIn(b) \subseteq 1..top /\ IdsIn(c) \subseteq 0..top

Roled(c, b) == /\ \A m \in ToSet(c) : m.role # "compaction"
               /\ \A m \in ToSet(b) : m.role = "bashExecution"

\* The transcript is what the session will be when the events are processed.
Matches == Agree(messages, Context(session) \o Coming, lost)

Entered == /\ Sequences
           /\ Loaded(events)
           /\ NumberedBy(session, Coming, pendingBash, lastId)
           /\ Roled(Coming, pendingBash)
           /\ KeepsKnown(session)
           /\ Summarizing(compaction, session)
           /\ Matches

\* What the invariant says of the session by itself.
LEMMA SessionIs ==
  ASSUME Entered
  PROVE  /\ OneEach(session) /\ 0 \notin IdsIn(session)
         /\ Context(session) \in Seq(AnyMessage) /\ Coming \in Seq(AnyMessage)
         /\ Context(session) \o Coming \in Seq(AnyMessage)
  <1>1. session \in Seq(AnyMessage) /\ events \in Seq(Event) /\ KeepsKnown(session)
        /\ Distinct(session) /\ 0 \notin IdsIn(session)
    BY DEF Entered, Sequences, NumberedBy
  <1>2. OneEach(session)
    BY <1>1, OneEachIs
  <1>3. Context(session) \in Seq(AnyMessage) /\ Coming \in Seq(AnyMessage)
    BY <1>1, <1>2, ContextType, CarryType DEF Coming
  <1> QED BY <1>1, <1>2, <1>3, JoinIn

(***************************************************************************)
(* What steps have in common.                                              *)
(***************************************************************************)
\* Nothing is entered, nothing new is to be.
LEMMA Unentered ==
  ASSUME Entered, UNCHANGED <<session, pendingBash>>, events' \in Seq(Event),
         messages' \in Seq(AnyMessage), lastId' \in {lastId, lastId + 1},
         Summarizing(compaction', session),
         lost \subseteq lost', Agree(messages', messages, lost'),
         \/ events' = events
         \/ \E e \in Event : e.type = "agent_end" /\ events' = Append(events, e)
         \/ events # <<>> /\ Head(events).type = "agent_end" /\ events' = Tail(events)
  PROVE  Entered'
  <1> DEFINE c == Coming
             d == Coming'
             x == Context(session)
  <1>1. /\ x \in Seq(AnyMessage) /\ c \in Seq(AnyMessage) /\ d \in Seq(AnyMessage)
        /\ messages \in Seq(AnyMessage) /\ lastId \in Nat /\ events \in Seq(Event)
    BY SessionIs, CarryType DEF Entered, Sequences, Coming
  <1>2. \/ d = c
        \/ d = Append(c, Nothing)
        \/ c = <<Nothing>> \o d
    <2>1. ASSUME NEW e \in Event, e.type = "agent_end", events' = Append(events, e)
          PROVE  d = Append(c, Nothing)
      <3>1. Carried(e) = Nothing
        BY <2>1 DEF Carried
      <3> QED BY <1>1, <2>1, <3>1, CarryMore DEF Coming
    <2>2. ASSUME events # <<>>, Head(events).type = "agent_end", events' = Tail(events)
          PROVE  c = <<Nothing>> \o d
      <3>1. Carried(Head(events)) = Nothing
        BY <2>2 DEF Carried
      <3> QED BY <1>1, <2>2, <3>1, CarryLess DEF Coming
    <2>3. events' = events => d = c
      BY DEF Coming
    <2> QED BY <2>1, <2>2, <2>3
  <1> HIDE DEF c, d, x
  <1>n. Nothing \in AnyMessage /\ Nothing.id = 0 /\ Nothing.role # "compaction"
        /\ Nothing \notin Common(lost)
    BY NothingIs DEF Common
  <1>3. /\ Distinct(d) /\ IdsIn(d) \subseteq IdsIn(c) \cup {0}
        /\ ToSet(d) \subseteq ToSet(c) \cup {Nothing}
    <2>1. Distinct(c)
      BY DEF Entered, NumberedBy, c
    <2>2. CASE d = c
      BY <2>1, <2>2
    <2>3. CASE d = Append(c, Nothing)
      <3>1. Distinct(Append(c, Nothing))
        BY <1>1, <1>n, <2>1, DistinctAppend
      <3>2. IdsIn(Append(c, Nothing)) = IdsIn(c) \cup {0}
        BY <1>1, <1>n, IdsAre
      <3>3. ToSet(Append(c, Nothing)) = ToSet(c) \cup {Nothing}
        BY <1>1, <1>n, Members
      <3> QED BY <2>3, <3>1, <3>2, <3>3
    <2>4. CASE c = <<Nothing>> \o d
      <3>1. Distinct(<<Nothing>> \o d)
        BY <2>1, <2>4
      <3>2. Distinct(d)
        BY <1>1, <1>n, <3>1, DistinctTail
      <3>3. IdsIn(<<Nothing>> \o d) = {0} \cup IdsIn(d)
        BY <1>1, <1>n, IdsAre
      <3>4. <<Nothing>> \in Seq(AnyMessage)
        BY <1>n
      <3>5. ToSet(<<Nothing>> \o d) = ToSet(<<Nothing>>) \cup ToSet(d)
        BY <1>1, <3>4, JoinIn
      <3> QED BY <2>4, <3>2, <3>3, <3>5
    <2> QED BY <1>2, <2>2, <2>3, <2>4
  <1>4. Agree(c, d, lost)
    <2>1. CASE d = c
      BY <2>1, AgreeSame
    <2>2. CASE d = Append(c, Nothing)
      BY <1>1, <1>n, <2>2, AgreeWithout
    <2>3. CASE c = <<Nothing>> \o d
      <3>1. /\ <<Nothing>> \in Seq(AnyMessage) /\ ToSet(<<Nothing>>) = {Nothing}
            /\ <<>> \o d = d
        BY <1>1, <1>n DEF ToSet
      <3>2. Agree(<<Nothing>>, <<>>, lost)
        BY <1>n, <3>1, AgreeNothing
      <3>3. Agree(d, d, lost)
        BY AgreeSame
      <3>4. Agree(<<Nothing>> \o d, <<>> \o d, lost)
        BY <1>1, <3>1, <3>2, <3>3, EmptyType, AgreeJoin
      <3> QED BY <2>3, <3>1, <3>4
    <2> QED BY <1>2, <2>1, <2>2, <2>3
  <1>5. Agree(messages, x \o c, lost)
    BY DEF Entered, Matches, x, c
  <1>6. Agree(x \o c, x \o d, lost)
    BY <1>1, <1>4, AgreeSame, AgreeJoin
  <1>7. Agree(messages, x \o d, lost)
    BY <1>5, <1>6, AgreeChain
  <1>8. Agree(messages', x \o d, lost')
    <2>1. x \o d \in Seq(AnyMessage)
      BY <1>1, JoinIn
    <2>2. Agree(messages, x \o d, lost')
      BY <1>1, <1>7, <2>1, AgreeMore
    <2> QED BY <2>2, AgreeChain
  <1>9. Matches'
    BY <1>8 DEF Matches, x, d
  <1>10. NumberedBy(session, d, pendingBash, lastId')
    <2>1. /\ NumberedBy(session, c, pendingBash, lastId) /\ 0 \notin IdsIn(session)
          /\ 0 \notin IdsIn(pendingBash)
      BY DEF Entered, NumberedBy, c
    <2>2. 1..lastId \subseteq 1..lastId' /\ 0..lastId \subseteq 0..lastId' /\ 0 \in 0..lastId'
      BY <1>1
    <2> QED BY <1>3, <2>1, <2>2 DEF NumberedBy
  <1>11. Roled(d, pendingBash)
    BY <1>3, <1>n DEF Entered, Roled, c
  <1>12. Sequences'
    BY <1>1 DEF Entered, Sequences
  <1>13. Loaded(events')
    <2>1. Loaded(events) /\ \A e \in Event : e.type = "agent_end" => e.type # "message_end"
      BY DEF Entered
    <2> QED BY <1>1, <2>1, LoadedMore, LoadedLess
  <1> QED BY <1>9, <1>10, <1>11, <1>12, <1>13 DEF Entered, d

\* A message that the session hears of, or will not.
LEMMA EmitEntered ==
  ASSUME Entered, NEW m \in AnyMessage, m.id = lastId + 1, m.role # "compaction", Emit(m)
  PROVE  Entered'
  <1> DEFINE e == [type |-> "message_end", message |-> m]
             c == Coming
             x == Context(session)
  <1>1. /\ x \in Seq(AnyMessage) /\ c \in Seq(AnyMessage) /\ x \o c \in Seq(AnyMessage)
        /\ messages \in Seq(AnyMessage) /\ lastId \in Nat /\ events \in Seq(Event)
    BY SessionIs DEF Entered, Sequences
  <1>2. e \in Event /\ Carried(e) = m
    BY DEF Event, Carried
  <1>3. /\ messages' = Append(messages, m) /\ lastId' = lastId + 1
        /\ UNCHANGED <<session, pendingBash, compaction>>
        /\ \/ events' = Append(events, e) /\ lost' = lost
           \/ lost' = lost \cup {m.id} /\ events' = events
    BY DEF Emit, compactionVars
  <1>4. messages' \in Seq(AnyMessage) /\ lastId' \in Nat
    BY <1>1, <1>3
  <1>5. Summarizing(compaction, session)
    BY DEF Entered
  <1>6. CASE lost' = lost \cup {m.id} /\ events' = events
    <2>1. m \notin Common(lost') /\ lost \subseteq lost'
      BY <1>6 DEF Common
    <2>2. Agree(messages', messages, lost')
      BY <1>1, <1>3, <2>1, AgreeWithout
    <2> QED BY <1>1, <1>3, <1>4, <1>5, <1>6, <2>1, <2>2, Unentered
  <1>7. CASE events' = Append(events, e) /\ lost' = lost
    <2> HIDE DEF e
    <2>1. Coming' = Append(c, m) /\ events' \in Seq(Event)
      BY <1>1, <1>2, <1>7, CarryMore DEF Coming
    <2>2. Context(session)' = x
      BY <1>3
    <2> HIDE DEF c, x
    <2>3. Agree(messages, x \o c, lost)
      BY DEF Entered, Matches, x, c
    <2>4. x \o Append(c, m) = Append(x \o c, m)
      BY <1>1, JoinAppend
    <2>5. Agree(Append(messages, m), Append(x \o c, m), lost)
      BY <1>1, <2>3, AgreeAppend
    <2>6. Matches'
      BY <1>3, <1>7, <2>1, <2>2, <2>4, <2>5 DEF Matches
    <2>7. /\ NumberedBy(session, c, pendingBash, lastId)
          /\ Roled(c, pendingBash) /\ KeepsKnown(session)
      BY DEF Entered, c
    <2>8. IdsIn(Append(c, m)) = IdsIn(c) \cup {m.id} /\ ToSet(Append(c, m)) = ToSet(c) \cup {m}
      BY <1>1, IdsAre, Members
    <2>9. /\ m.id \notin 0..lastId /\ m.id \notin 1..lastId /\ m.id \in 0..(lastId + 1)
          /\ 1..lastId \subseteq 1..(lastId + 1) /\ 0..lastId \subseteq 0..(lastId + 1)
      BY <1>1
    <2>10. Distinct(Append(c, m))
      <3>1. m.id \notin IdsIn(c) /\ Distinct(c)
        BY <2>7, <2>9 DEF NumberedBy
      <3> QED BY <1>1, <3>1, DistinctAppend
    <2>11. NumberedBy(session, Append(c, m), pendingBash, lastId + 1)
      BY <2>7, <2>8, <2>9, <2>10 DEF NumberedBy
    <2>12. Roled(Append(c, m), pendingBash)
      BY <2>7, <2>8 DEF Roled
    <2>13. Sequences'
      BY <1>3, <1>4, <2>1 DEF Entered, Sequences
    <2>14. Loaded(events')
      <3>1. Loaded(events) /\ e.message.id # 0
        BY <1>1 DEF Entered, e
      <3> QED BY <1>1, <1>2, <1>7, <3>1, LoadedMore
    <2> QED BY <1>3, <1>5, <2>1, <2>6, <2>7, <2>11, <2>12, <2>13, <2>14 DEF Entered
  <1> QED BY <1>3, <1>6, <1>7

\* An agent_end of which the session hears or not.
LEMMA EndEntered ==
  ASSUME Entered, NEW reply \in AnyMessage, AgentEnd(reply), lost \subseteq lost',
         messages' \in Seq(AnyMessage), Agree(messages', messages, lost'),
         lastId' \in {lastId, lastId + 1}
  PROVE  Entered'
  <1> DEFINE e == [type |-> "agent_end", message |-> reply]
  <1>1. e \in Event /\ e.type = "agent_end"
    BY DEF Event
  <1>2. /\ UNCHANGED <<session, pendingBash, compaction>>
        /\ events' = Append(events, e) \/ events' = events
    BY DEF AgentEnd, compactionVars
  <1> HIDE DEF e
  <1>3. events \in Seq(Event) /\ Summarizing(compaction, session)
    BY DEF Entered, Sequences
  <1>4. events' \in Seq(Event)
    BY <1>1, <1>2, <1>3
  <1> QED BY <1>1, <1>2, <1>3, <1>4, Unentered

LEMMA AgentEntered ==
  ASSUME IInv, Entered, AgentStep
  PROVE  Entered'
  <1>1. /\ run.reply \in AnyMessage /\ lastId \in Nat /\ lastId + 1 \in Nat
        /\ messages \in Seq(AnyMessage)
    BY DEF IInv, Types, Entered, Sequences
  <1>2. \A role \in Roles, stop \in Stops \cup {""} :
          LET m == Message(lastId + 1, role, stop)
          IN  m \in AnyMessage /\ m.id = lastId + 1 /\ m.role = role
    BY <1>1, MessageType DEF Message
  <1>3. CASE EmitUser \/ InjectQueued \/ ToolResult
    <2>1. \E role \in {"user", "toolResult"} : Emit(Message(lastId + 1, role, ""))
      BY <1>3 DEF EmitUser, InjectQueued, ToolResult
    <2>2. PICK role \in {"user", "toolResult"} : Emit(Message(lastId + 1, role, ""))
      BY <2>1
    <2>3. role \in Roles /\ "" \in Stops \cup {""} /\ role # "compaction"
      BY DEF Roles
    <2> QED BY <1>2, <2>2, <2>3, EmitEntered
  <1>4. ASSUME NEW stop \in Stops, StreamReply(stop) PROVE Entered'
    <2>1. Emit(Message(lastId + 1, "assistant", stop))
      BY <1>4 DEF StreamReply
    <2>2. "assistant" \in Roles /\ stop \in Stops \cup {""} /\ "assistant" # "compaction"
      BY DEF Roles
    <2> QED BY <1>2, <2>1, <2>2, EmitEntered
  <1>5. CASE EndRun \/ GateShut
    <2>1. AgentEnd(run.reply) /\ UNCHANGED <<messages, lastId, lost>>
      BY <1>5 DEF EndRun, GateShut
    <2>2. Agree(messages, messages, lost)
      BY AgreeSame
    <2> QED BY <1>1, <2>1, <2>2, EndEntered
  <1>6. ASSUME NEW stop \in {"error", "failed", "aborted"}, RequestThrows(stop) PROVE Entered'
    <2> DEFINE m == Message(lastId + 1, "assistant", stop)
    <2>1. /\ messages' = Append(messages, m) /\ lastId' = m.id /\ lost' = lost \cup {m.id}
          /\ AgentEnd(m)
      BY <1>6 DEF RequestThrows
    <2>2. m \in AnyMessage /\ m.id = lastId + 1
      <3>1. "assistant" \in Roles /\ stop \in Stops \cup {""}
        BY DEF Roles, Stops
      <3> QED BY <1>2, <3>1
    <2> HIDE DEF m
    <2>3. m \notin Common(lost') /\ lost \subseteq lost'
      BY <2>1 DEF Common
    <2>4. Agree(messages', messages, lost') /\ messages' \in Seq(AnyMessage)
      BY <1>1, <2>1, <2>2, <2>3, AgreeWithout
    <2> QED BY <2>1, <2>2, <2>3, <2>4, EndEntered
  <1> QED BY <1>3, <1>4, <1>5, <1>6 DEF AgentStep

(***************************************************************************)
(* Compactions.                                                            *)
(***************************************************************************)
LEMMA CompactorsAre == EventQueue \in Compactors /\ Manual \in Compactors
                       /\ \A p \in Prompts : p \in Compactors
  BY DEF Compactors

LEMMA PlaceTaken ==
  ASSUME NEW places, NEW s, Summarizing(places, s), NEW c \in Compactors,
         NEW place \in Places, place.pc = "summary" => place.keep \in IdsIn(s)
  PROVE  Summarizing([places EXCEPT ![c] = place], s)
  BY DEF Summarizing

LEMMA IdleIs == Idle \in Places /\ Idle.pc # "summary"
  BY DEF Idle, Places

\* What a compaction may keep is in the session.
LEMMA CutPointsKnown ==
  ASSUME NEW s \in Seq(AnyMessage), KeepsKnown(s), OneEach(s)
  PROVE  CutPoints(s) \subseteq IdsIn(s)
  <1>1. ToSet(SinceKept(s)) \subseteq ToSet(s)
    <2>1. CASE LatestCompaction(s) = NoMessage
      BY <2>1, Zenon DEF SinceKept
    <2>2. CASE LatestCompaction(s) # NoMessage
      <3>1. PICK i \in 1..Len(s) : PositionOf(s, LatestCompaction(s).keep) = i
        BY <2>2, KeptAt
      <3> DEFINE t == SubSeq(s, i, Len(s))
      <3>2. SinceKept(s) = t
        BY <2>2, <3>1, Zenon DEF SinceKept
      <3>3. /\ DOMAIN t = 1..(Len(s) - i + 1) /\ Len(s) \in Nat /\ DOMAIN s = 1..Len(s)
            /\ \A j \in 1..(Len(s) - i + 1) : t[j] = s[i + j - 1]
        OBVIOUS
      <3>4. \A j \in 1..(Len(s) - i + 1) : i + j - 1 \in 1..Len(s)
        BY <3>3
      <3> HIDE DEF t
      <3>5. ToSet(t) \subseteq ToSet(s)
        BY <3>3, <3>4 DEF ToSet
      <3> QED BY <3>2, <3>5
    <2> QED BY <2>1, <2>2
  <1> DEFINE kept == { e \in ToSet(SinceKept(s)) : e.role \notin {"compaction", "toolResult"} }
  <1>2. CutPoints(s) \subseteq { e.id : e \in kept }
    BY Zenon DEF CutPoints
  <1>3. kept \subseteq ToSet(s)
    BY <1>1
  <1> HIDE DEF kept
  <1> QED BY <1>2, <1>3 DEF IdsIn

\* A step that leaves the messages alone.
LEMMA Elsewhere ==
  ASSUME Entered, UNCHANGED <<messages, session, pendingBash, events, lastId, lost>>,
         Summarizing(compaction', session)
  PROVE  Entered'
  <1>1. /\ messages' \in Seq(AnyMessage) /\ events' \in Seq(Event)
    BY DEF Entered, Sequences
  <1>2. Agree(messages', messages, lost')
    BY AgreeSame
  <1> QED BY <1>1, <1>2, Unentered

LEMMA CompactionType ==
  ASSUME NEW id \in Nat, NEW keep \in Nat
  PROVE  /\ Compaction(id, keep) \in AnyMessage /\ Compaction(id, keep).id = id
         /\ Compaction(id, keep).role = "compaction" /\ Compaction(id, keep).keep = keep
  BY DEF Compaction, AnyMessage, Roles

LEMMA SummarizedEntered ==
  ASSUME Entered, NEW c \in Compactors, Summarized(c)
  PROVE  Entered'
  <1> DEFINE m == Compaction(lastId + 1, compaction[c].keep)
             s == Append(session, m)
             built == Context(s)
             x == Context(session)
             d == Coming
  <1>1. /\ x \in Seq(AnyMessage) /\ d \in Seq(AnyMessage) /\ OneEach(session)
        /\ 0 \notin IdsIn(session)
        /\ messages \in Seq(AnyMessage) /\ session \in Seq(AnyMessage) /\ lastId \in Nat
        /\ events \in Seq(Event) /\ KeepsKnown(session) /\ Summarizing(compaction, session)
        /\ NumberedBy(session, d, pendingBash, lastId) /\ Roled(d, pendingBash)
        /\ Loaded(events)
        /\ Agree(messages, x \o d, lost)
    BY SessionIs DEF Entered, Sequences, Matches
  <1>2. /\ lastId' = lastId + 1 /\ session' = s
        /\ messages' = (IF compaction[c].retry /\ IsError(Last(built)) THEN Front(built) ELSE built)
        /\ lost' = lost \cup (IdsIn(messages) \ IdsIn(session))
        /\ compaction' = [compaction EXCEPT ![c] = Idle]
        /\ UNCHANGED <<events, pendingBash>>
        /\ compaction[c].pc = "summary"
    BY DEF Summarized, EndCompaction
  <1>3. compaction[c].keep \in Nat /\ compaction[c].keep \in IdsIn(session)
    BY <1>1, <1>2 DEF Summarizing, Places
  <1>4. m \in AnyMessage /\ m.id = lastId + 1 /\ m.role = "compaction"
        /\ m.keep = compaction[c].keep
    <2>1. lastId + 1 \in Nat
      BY <1>1
    <2> QED BY <1>3, <2>1, CompactionType
  <1> HIDE DEF m
  <1>5. s \in Seq(AnyMessage) /\ IdsIn(s) = IdsIn(session) \cup {m.id}
    BY <1>1, <1>4, JoinType, IdsAre
  <1>6. /\ m.id \notin 0..lastId /\ m.id \notin 1..lastId /\ m.id \in 1..(lastId + 1)
        /\ 1..lastId \subseteq 1..(lastId + 1) /\ 0..lastId \subseteq 0..(lastId + 1)
    BY <1>1, <1>4
  <1>7. Distinct(s) /\ 0 \notin IdsIn(s) /\ OneEach(s)
    <2>1. m.id \notin IdsIn(session) /\ Distinct(session) /\ m.id # 0
      BY <1>1, <1>4, <1>6 DEF NumberedBy
    <2>2. Distinct(s)
      BY <1>1, <1>4, <2>1, DistinctAppend
    <2>3. 0 \notin IdsIn(s)
      BY <1>1, <1>5, <2>1
    <2> QED BY <1>5, <2>2, <2>3, OneEachIs
  <1>8. KeepsKnown(s)
    BY <1>1, <1>3, <1>4, KeepsAppend
  <1>9. LatestCompaction(s) # NoMessage
    <2>1. /\ Len(session) \in Nat /\ Len(s) = Len(session) + 1 /\ s[Len(session) + 1] = m
      BY <1>1, <1>4
    <2> HIDE DEF s
    <2>2. Len(session) + 1 \in Marks(s)
      BY <1>4, <2>1 DEF Marks
    <2>3. PICK i \in DOMAIN s : LatestCompaction(s) = s[i] /\ s[i].role = "compaction"
      BY <1>5, <2>2, LatestIn
    <2>4. NoMessage.role = "none"
      BY DEF NoMessage, Message
    <2> QED BY <2>3, <2>4
  <1>10. built \in Seq(AnyMessage) /\ built # <<>>
    BY <1>5, <1>7, <1>8, <1>9, ContextType
  <1> HIDE DEF s, built, x, d
  <1>11. messages' \in Seq(AnyMessage) /\ Agree(messages', built, lost')
    <2>1. CASE compaction[c].retry /\ IsError(Last(built))
      <3>1. messages' = Front(built)
        BY <1>2, <2>1
      <3>2. Last(built) \notin Common(lost')
        BY <2>1, Zenon DEF Common
      <3> QED BY <1>10, <3>1, <3>2, FrontLast, AgreeFront
    <2>2. CASE ~(compaction[c].retry /\ IsError(Last(built)))
      <3>1. messages' = built
        BY <1>2, <2>2
      <3> QED BY <1>10, <3>1, AgreeSame
    <2> QED BY <2>1, <2>2
  <1>12. \A e \in ToSet(d) : e \notin Common(lost')
    <2> SUFFICES ASSUME NEW e \in ToSet(d), e \in Common(lost') PROVE FALSE
      OBVIOUS
    <2>1. e \in Common(lost) /\ e.id \notin lost'
      BY <1>2 DEF Common
    <2>2. ToSet(x \o d) = ToSet(x) \cup ToSet(d)
      BY <1>1, JoinIn
    <2>3. e \in ToSet(messages)
      BY <1>1, <2>1, <2>2 DEF Agree
    <2>4. e.id \in IdsIn(messages) /\ e.id \in IdsIn(d)
      BY <2>3 DEF IdsIn
    <2>5. e.id \notin IdsIn(session)
      BY <1>1, <2>4 DEF NumberedBy
    <2> QED BY <1>2, <2>1, <2>4, <2>5
  <1>13. Agree(messages', built \o d, lost')
    <2>1. Agree(<<>>, d, lost')
      BY <1>1, <1>12, AgreeNothing
    <2>2. messages' \o <<>> = messages'
      BY <1>11
    <2>3. Agree(messages' \o <<>>, built \o d, lost')
      BY <1>1, <1>10, <1>11, <2>1, EmptyType, AgreeJoin
    <2> QED BY <2>2, <2>3
  <1>14. Coming' = d
    BY <1>2 DEF Coming, d
  <1>15. Matches'
    BY <1>2, <1>13, <1>14 DEF Matches, built
  <1>16. NumberedBy(s, d, pendingBash, lastId + 1)
    BY <1>1, <1>5, <1>6, <1>7 DEF NumberedBy
  <1>17. Summarizing(compaction', s)
    <2>1. Summarizing(compaction', session)
      BY <1>1, <1>2, IdleIs, PlaceTaken
    <2> QED BY <1>5, <2>1 DEF Summarizing
  <1>18. Sequences'
    BY <1>1, <1>2, <1>5, <1>11 DEF Entered, Sequences
  <1> QED BY <1>1, <1>2, <1>8, <1>14, <1>15, <1>16, <1>17, <1>18 DEF Entered

LEMMA CompactionEntered ==
  ASSUME Entered, CompactionStep
  PROVE  Entered'
  <1>1. Summarizing(compaction, session) /\ compaction \in [Compactors -> Places]
        /\ \A c \in Compactors : compaction[c] \in Places
    BY DEF Entered, Summarizing
  <1>2. CASE CompactIdle
    <2> DEFINE place == [compaction[Manual] EXCEPT !.pc = "auth"]
    <2>1. compaction' = [compaction EXCEPT ![Manual] = place]
          /\ UNCHANGED <<messages, session, pendingBash, events, lastId, lost>>
      BY <1>2 DEF CompactIdle, agentVars, eventVars
    <2>2. place \in Places /\ place.pc = "auth"
      BY <1>1, CompactorsAre DEF Places
    <2> HIDE DEF place
    <2> QED BY <1>1, <2>1, <2>2, CompactorsAre, PlaceTaken, Elsewhere
  <1>3. ASSUME NEW c \in Compactors, Prepare(c) PROVE Entered'
    <2>1. PICK keep \in CutPoints(session) :
            compaction' = [compaction EXCEPT ![c].pc = "summary", ![c].keep = keep]
      BY <1>3 DEF Prepare
    <2>2. UNCHANGED <<messages, session, pendingBash, events, lastId, lost>>
      BY <1>3 DEF Prepare, agentVars, eventVars
    <2>3. keep \in IdsIn(session)
      <3>1. session \in Seq(AnyMessage) /\ KeepsKnown(session)
        BY DEF Entered, Sequences
      <3> QED BY <3>1, SessionIs, CutPointsKnown
    <2>4. keep \in Nat
      <3>1. IdsIn(session) \subseteq 1..lastId /\ lastId \in Nat
        BY DEF Entered, NumberedBy, Sequences
      <3> QED BY <2>3, <3>1
    <2> DEFINE place == [compaction[c] EXCEPT !.pc = "summary", !.keep = keep]
    <2>5. compaction' = [compaction EXCEPT ![c] = place]
      BY <1>1, <2>1
    <2>6. place \in Places /\ place.keep = keep
      BY <1>1, <2>4 DEF Places
    <2> HIDE DEF place
    <2> QED BY <1>1, <2>2, <2>3, <2>5, <2>6, PlaceTaken, Elsewhere
  <1>4. ASSUME NEW c \in Compactors, CompactionFails(c) PROVE Entered'
    <2>1. compaction' = [compaction EXCEPT ![c] = Idle]
          /\ UNCHANGED <<messages, session, pendingBash, events, lastId, lost>>
      BY <1>4 DEF CompactionFails, EndCompaction
    <2> QED BY <1>1, <2>1, IdleIs, PlaceTaken, Elsewhere
  <1>5. ASSUME NEW c \in Compactors, Summarized(c) PROVE Entered'
    BY <1>5, SummarizedEntered
  <1> QED BY <1>2, <1>3, <1>4, <1>5 DEF CompactionStep

(***************************************************************************)
(* The event queue.                                                        *)
(***************************************************************************)
LEMMA MessageEndEntered ==
  ASSUME Entered, ProcessMessageEnd
  PROVE  Entered'
  <1> DEFINE m == Head(events).message
             c == Coming
             d == Coming'
             x == Context(session)
             s == Append(session, m)
  <1>1. /\ x \in Seq(AnyMessage) /\ c \in Seq(AnyMessage) /\ OneEach(session)
        /\ 0 \notin IdsIn(session)
        /\ messages \in Seq(AnyMessage) /\ session \in Seq(AnyMessage) /\ lastId \in Nat
        /\ pendingBash \in Seq(AnyMessage)
        /\ events \in Seq(Event) /\ KeepsKnown(session) /\ Summarizing(compaction, session)
        /\ NumberedBy(session, c, pendingBash, lastId) /\ Roled(c, pendingBash)
        /\ Agree(messages, x \o c, lost) /\ Loaded(events)
    BY SessionIs DEF Entered, Sequences, Matches
  <1>2. /\ events # <<>> /\ Head(events).type = "message_end"
        /\ events' = Tail(events) /\ session' = s
        /\ UNCHANGED <<messages, pendingBash, lastId, lost, compaction>>
    BY DEF ProcessMessageEnd, MayProcess, agentVars
  <1>3. m \in AnyMessage /\ d \in Seq(AnyMessage) /\ c = <<m>> \o d /\ events' \in Seq(Event)
    <2>1. Tail(events) \in Seq(Event) /\ Head(events) \in Event
          /\ c = <<Carried(Head(events))>> \o Carry(Tail(events))
      BY <1>1, <1>2, CarryLess DEF Coming
    <2>2. Carried(Head(events)) = m
      BY <1>2, Zenon DEF Carried
    <2>3. d = Carry(Tail(events))
      BY <1>2 DEF Coming
    <2>4. m \in AnyMessage
      BY <2>1 DEF Event
    <2>5. d \in Seq(AnyMessage)
      BY <2>1, <2>3, CarryType
    <2> QED BY <1>2, <2>1, <2>2, <2>3, <2>4, <2>5
  <1>i. m.id # 0 /\ Loaded(events')
    BY <1>1, <1>2, LoadedLess
  <1> HIDE DEF m, c, d
  <1>4. /\ <<m>> \in Seq(AnyMessage) /\ ToSet(<<m>>) = {m} /\ Append(session, m) = session \o <<m>>
    BY <1>1, <1>3, OneIs
  <1>5. IdsIn(c) = {m.id} \cup IdsIn(d) /\ ToSet(c) = {m} \cup ToSet(d)
    BY <1>3, <1>4, IdsAre, JoinIn
  <1>6. Distinct(d) /\ (m.id \notin IdsIn(d) \/ m.id = 0)
    BY <1>1, <1>3, DistinctTail DEF NumberedBy
  <1>7. /\ m.id \notin IdsIn(session) /\ m.id \notin IdsIn(pendingBash) /\ m.id \in 1..lastId
        /\ m.role # "compaction"
    <2>1. m.id \in 0..lastId
      BY <1>1, <1>5 DEF NumberedBy
    <2> QED BY <1>1, <1>5, <1>i, <2>1 DEF NumberedBy, Roled
  <1>8. IdsIn(s) = IdsIn(session) \cup {m.id} /\ s \in Seq(AnyMessage)
    BY <1>1, <1>3, IdsAre, JoinType
  <1>9. Distinct(s) /\ KeepsKnown(s) /\ 0 \notin IdsIn(s)
    <2>1. Distinct(session)
      BY <1>1 DEF NumberedBy
    <2> QED BY <1>1, <1>3, <1>7, <1>8, <1>i, <2>1, DistinctAppend, KeepsAppend
  <1>10. Context(s) = Append(x, m)
    <2>1. OneEach(s)
      BY <1>8, <1>9, OneEachIs
    <2> QED BY <1>1, <1>3, <1>7, <2>1, ContextAppend
  <1> HIDE DEF s, x
  <1>11. Append(x, m) \o d = x \o c
    BY <1>1, <1>3
  <1>12. Agree(messages, Context(s) \o d, lost)
    BY <1>1, <1>10, <1>11
  <1>13. Matches'
    BY <1>2, <1>12 DEF Matches, d
  <1>14. NumberedBy(s, d, pendingBash, lastId)
    BY <1>1, <1>5, <1>6, <1>7, <1>8, <1>9, <1>i DEF NumberedBy
  <1>15. Roled(d, pendingBash) /\ Summarizing(compaction, s)
    BY <1>1, <1>5, <1>8 DEF Roled, Summarizing
  <1>16. Sequences'
    BY <1>1, <1>2, <1>3, <1>8 DEF Sequences
  <1> QED BY <1>2, <1>9, <1>13, <1>14, <1>15, <1>16, <1>i DEF Entered, d

\* What _checkCompaction does to the transcript and to the compactions.
LEMMA CheckIs ==
  ASSUME NEW c \in Compactors, NEW outcome, NEW t \in Seq(AnyMessage),
         CheckCompaction(c, outcome, t), Entered
  PROVE  /\ messages' \in Seq(AnyMessage) /\ lost \subseteq lost' /\ Agree(messages', t, lost')
         /\ Summarizing(compaction', session)
  <1>1. Summarizing(compaction, session)
    BY DEF Entered
  <1>2. CASE outcome = "none"
    <2>1. messages' = t /\ UNCHANGED <<compaction, lost>>
      BY <1>2 DEF CheckCompaction, compactionVars
    <2> QED BY <1>1, <2>1, AgreeSame
  <1>3. CASE outcome # "none"
    <2> DEFINE place == [Idle EXCEPT !.pc = "auth", !.retry = (outcome = "overflow")]
    <2>1. place \in Places /\ place.pc = "auth"
      <3>1. (outcome = "overflow") \in BOOLEAN
        OBVIOUS
      <3> QED BY <3>1 DEF Idle, Places
    <2>2. compaction' = [compaction EXCEPT ![c] = place]
      BY <1>3 DEF CheckCompaction
    <2>3. \/ messages' = t /\ lost' = lost
          \/ messages' = Dropping(t) /\ lost' = lost \cup LostByDropping(t)
      BY <1>3, Zenon DEF CheckCompaction
    <2> HIDE DEF place
    <2>4. Summarizing(compaction', session)
      BY <1>1, <2>1, <2>2, PlaceTaken
    <2>5. CASE messages' = t /\ lost' = lost
      BY <2>4, <2>5, AgreeSame
    <2>6. CASE messages' = Dropping(t) /\ lost' = lost \cup LostByDropping(t)
      BY <2>4, <2>6, AgreeDropping
    <2> QED BY <2>3, <2>5, <2>6
  <1> QED BY <1>2, <1>3

\* An agent_end that is dealt with, or was.
LEMMA SettleEntered ==
  ASSUME Entered, NEW m, SettleAgentEnd(m), UNCHANGED pendingBash,
         \/ events' = events
         \/ events # <<>> /\ Head(events).type = "agent_end" /\ events' = Tail(events)
  PROVE  Entered'
  <1>1. PICK outcome : CheckCompaction(EventQueue, outcome, messages)
    BY Zenon DEF SettleAgentEnd
  <1>2. UNCHANGED <<session, lastId>>
    BY DEF SettleAgentEnd
  <1>3. messages \in Seq(AnyMessage) /\ events \in Seq(Event)
    BY DEF Entered, Sequences
  <1>4. /\ messages' \in Seq(AnyMessage) /\ lost \subseteq lost'
        /\ Agree(messages', messages, lost') /\ Summarizing(compaction', session)
    BY <1>1, <1>3, CompactorsAre, CheckIs
  <1>5. events' \in Seq(Event)
    BY <1>3, CarryLess
  <1> QED BY <1>2, <1>4, <1>5, Unentered

LEMMA EventEntered ==
  ASSUME Entered, EventStep
  PROVE  Entered'
  <1>1. Summarizing(compaction, session) /\ messages \in Seq(AnyMessage) /\ events \in Seq(Event)
    BY DEF Entered, Sequences
  <1>2. CASE ProcessMessageEnd
    BY <1>2, MessageEndEntered
  <1>3. CASE AgentEndForNobody
    <2>1. /\ events # <<>> /\ Head(events).type = "agent_end" /\ events' = Tail(events)
          /\ UNCHANGED <<messages, session, pendingBash, lastId, lost, compaction>>
      BY <1>3 DEF AgentEndForNobody, MayProcess, agentVars, compactionVars
    <2>2. events' \in Seq(Event)
      BY <1>1, <2>1, CarryLess
    <2>3. Agree(messages', messages, lost')
      BY <2>1, AgreeSame
    <2> QED BY <1>1, <2>1, <2>2, <2>3, Unentered
  <1>4. CASE HandleRetryableError
    <2>1. /\ events # <<>> /\ Head(events).type = "agent_end" /\ events' = Tail(events)
          /\ messages' = Dropping(messages) /\ lost' = lost \cup LostByDropping(messages)
          /\ UNCHANGED <<session, pendingBash, lastId, compaction>>
      BY <1>4 DEF HandleRetryableError, TakeAgentEnd, MayProcess, compactionVars
    <2>2. events' \in Seq(Event)
      BY <1>1, <2>1, CarryLess
    <2>3. messages' \in Seq(AnyMessage) /\ Agree(messages', messages, lost')
      BY <1>1, <2>1, AgreeDropping
    <2> QED BY <1>1, <2>1, <2>2, <2>3, Unentered
  <1>5. CASE AgentEndWithoutRetry
    <2>1. /\ events # <<>> /\ Head(events).type = "agent_end" /\ events' = Tail(events)
          /\ SettleAgentEnd(lastAssistant) /\ UNCHANGED pendingBash
      BY <1>5 DEF AgentEndWithoutRetry, TakeAgentEnd, MayProcess, SettleAgentEnd
    <2> QED BY <2>1, SettleEntered
  <1>6. CASE RetryCancelled
    <2>1. SettleAgentEnd(handling) /\ events' = events /\ UNCHANGED pendingBash
      BY <1>6 DEF RetryCancelled, SettleAgentEnd
    <2> QED BY <2>1, SettleEntered
  <1>7. CASE RetrySleepEnds \/ TimerFires
    <2>1. UNCHANGED <<messages, session, pendingBash, events, lastId, lost, compaction>>
      BY <1>7 DEF RetrySleepEnds, TimerFires, agentVars, eventVars, compactionVars
    <2> QED BY <1>1, <2>1, Elsewhere
  <1> QED BY <1>2, <1>3, <1>4, <1>5, <1>6, <1>7 DEF EventStep

(***************************************************************************)
(* The user.                                                               *)
(***************************************************************************)
\* Bash results are entered in the transcript and in the session.
LEMMA BashEntered ==
  ASSUME Entered, NEW t \in Seq(AnyMessage), Distinct(t),
         \A m \in ToSet(t) : m.role = "bashExecution",
         IdsIn(session) \cap IdsIn(t) = {}, 0 \notin IdsIn(t)
  PROVE  LET s == session \o t
         IN  /\ s \in Seq(AnyMessage) /\ messages \o t \in Seq(AnyMessage)
             /\ Distinct(s) /\ KeepsKnown(s) /\ IdsIn(s) = IdsIn(session) \cup IdsIn(t)
             /\ \A places : Summarizing(places, session) => Summarizing(places, s)
             /\ Agree(messages \o t, Context(s) \o Coming, lost)
  <1> DEFINE s == session \o t
             x == Context(session)
             c == Coming
  <1>1. /\ session \in Seq(AnyMessage) /\ messages \in Seq(AnyMessage) /\ c \in Seq(AnyMessage)
        /\ x \in Seq(AnyMessage) /\ KeepsKnown(session) /\ Distinct(session)
        /\ 0 \notin IdsIn(session) /\ Agree(messages, x \o c, lost)
    BY SessionIs DEF Entered, Sequences, NumberedBy, Matches
  <1>2. s \in Seq(AnyMessage) /\ messages \o t \in Seq(AnyMessage)
    BY <1>1, JoinIn
  <1>3. IdsIn(s) = IdsIn(session) \cup IdsIn(t)
    BY <1>1, IdsAre, NoMessageType
  <1>4. Distinct(s)
    BY <1>1, DistinctJoin
  <1>a. \A m \in ToSet(t) : m.role # "compaction"
    OBVIOUS
  <1>b. 0 \notin IdsIn(session) \cup IdsIn(t)
    BY <1>1
  <1>5. Context(s) = x \o t /\ KeepsKnown(s)
    BY <1>1, <1>a, <1>b, ContextJoin
  <1>6. \A places : Summarizing(places, session) => Summarizing(places, s)
    BY <1>3 DEF Summarizing
  <1> HIDE DEF s, x, c
  <1>7. Agree(messages \o t, (x \o t) \o c, lost)
    BY <1>1, AgreeBash
  <1>8. Agree(messages \o t, Context(s) \o c, lost)
    BY <1>5, <1>7
  <1> QED BY <1>2, <1>3, <1>4, <1>5, <1>6, <1>8 DEF s, c

LEMMA NobodyIs == <<>> \in Seq(AnyMessage) /\ ToSet(<<>>) = {} /\ IdsIn(<<>>) = {} /\ Distinct(<<>>)
  BY DEF ToSet, IdsIn, Distinct

LEMMA PromptEntered ==
  ASSUME Entered, NEW p \in Prompts, Prompt(p)
  PROVE  Entered'
  <1> DEFINE s == session \o pendingBash
             t == messages \o pendingBash
             c == Coming
  <1>1. /\ session \in Seq(AnyMessage) /\ pendingBash \in Seq(AnyMessage)
        /\ events \in Seq(Event) /\ lastId \in Nat /\ Loaded(events)
        /\ NumberedBy(session, c, pendingBash, lastId) /\ Roled(c, pendingBash)
        /\ Summarizing(compaction, session)
    BY DEF Entered, Sequences
  <1>2. /\ session' = s /\ pendingBash' = <<>> /\ events' = events /\ lastId' = lastId
        /\ c' = c
    BY DEF Prompt, eventVars, Coming
  <1>3. PICK outcome : CheckCompaction(p, outcome, t)
    BY Zenon DEF Prompt
  <1>4. /\ Distinct(pendingBash) /\ \A m \in ToSet(pendingBash) : m.role = "bashExecution"
        /\ IdsIn(session) \cap IdsIn(pendingBash) = {} /\ 0 \notin IdsIn(pendingBash)
    BY <1>1 DEF NumberedBy, Roled
  <1>5. /\ s \in Seq(AnyMessage) /\ t \in Seq(AnyMessage) /\ Distinct(s) /\ KeepsKnown(s)
        /\ IdsIn(s) = IdsIn(session) \cup IdsIn(pendingBash)
        /\ \A places : Summarizing(places, session) => Summarizing(places, s)
        /\ Agree(t, Context(s) \o c, lost)
    BY <1>1, <1>4, BashEntered
  <1> HIDE DEF s, t, c
  <1>6. /\ messages' \in Seq(AnyMessage) /\ lost \subseteq lost' /\ Agree(messages', t, lost')
        /\ Summarizing(compaction', session)
    BY <1>3, <1>5, CompactorsAre, CheckIs
  <1>7. Agree(messages', Context(s) \o c, lost')
    <2>1. 0 \notin IdsIn(s)
      BY <1>1, <1>4, <1>5 DEF NumberedBy
    <2>2. c \in Seq(AnyMessage)
      BY SessionIs DEF c
    <2>3. Context(s) \in Seq(AnyMessage)
      BY <1>5, <2>1, OneEachIs, ContextType
    <2>4. Context(s) \o c \in Seq(AnyMessage)
      BY <2>2, <2>3, JoinIn
    <2>5. Agree(t, Context(s) \o c, lost')
      BY <1>5, <1>6, <2>4, AgreeMore
    <2> QED BY <1>6, <2>5, AgreeChain
  <1>8. Matches'
    BY <1>2, <1>7 DEF Matches, c
  <1>9. NumberedBy(s, c, <<>>, lastId)
    BY <1>1, <1>5, NobodyIs DEF NumberedBy
  <1>10. Roled(c, <<>>)
    BY <1>1, NobodyIs DEF Roled
  <1>11. Sequences'
    BY <1>1, <1>2, <1>5, <1>6, NobodyIs DEF Sequences
  <1>12. Summarizing(compaction', s)
    BY <1>5, <1>6
  <1>13. NumberedBy(session', Coming', pendingBash', lastId')
    BY <1>2, <1>9 DEF c
  <1>14. Roled(Coming', pendingBash')
    BY <1>2, <1>10 DEF c
  <1>15. Loaded(events') /\ KeepsKnown(session') /\ Summarizing(compaction', session')
    BY <1>1, <1>2, <1>5, <1>12
  <1> QED BY <1>8, <1>11, <1>13, <1>14, <1>15 DEF Entered

LEMMA RecordEntered ==
  ASSUME Entered, RecordBashResult
  PROVE  Entered'
  <1> DEFINE m == Message(lastId + 1, "bashExecution", "")
             c == Coming
             s == session \o <<m>>
             b == pendingBash \o <<m>>
  <1>1. /\ session \in Seq(AnyMessage) /\ pendingBash \in Seq(AnyMessage)
        /\ messages \in Seq(AnyMessage)
        /\ events \in Seq(Event) /\ lastId \in Nat /\ Loaded(events)
        /\ NumberedBy(session, c, pendingBash, lastId) /\ Roled(c, pendingBash)
        /\ Summarizing(compaction, session) /\ KeepsKnown(session)
        /\ Agree(messages, Context(session) \o c, lost)
    BY DEF Entered, Sequences, Matches
  <1>2. m \in AnyMessage /\ m.id = lastId + 1 /\ m.role = "bashExecution"
    <2>1. "bashExecution" \in Roles /\ lastId + 1 \in Nat /\ "" \in Stops \cup {""}
      BY <1>1 DEF Roles
    <2>2. m \in AnyMessage
      BY <2>1, MessageType
    <2> QED BY <2>2 DEF Message
  <1>3. /\ UNCHANGED <<events, compaction, lost>> /\ lastId' = m.id /\ c' = c
        /\ \/ messages' = messages /\ session' = session
              /\ pendingBash' = Append(pendingBash, m)
           \/ messages' = Append(messages, m) /\ session' = Append(session, m)
              /\ pendingBash' = pendingBash
    BY DEF RecordBashResult, compactionVars, eventVars, Coming
  <1> HIDE DEF m, c, s, b
  <1>4. /\ <<m>> \in Seq(AnyMessage) /\ ToSet(<<m>>) = {m}
        /\ Append(pendingBash, m) = b /\ Append(session, m) = s
        /\ Append(messages, m) = messages \o <<m>>
    BY <1>1, <1>2, OneIs DEF s, b
  <1>5. IdsIn(<<m>>) = {m.id}
    BY <1>4 DEF IdsIn
  <1>6. Distinct(<<m>>)
    <2>1. Distinct(<<>>) /\ Append(<<>>, m) = <<m>> /\ m.id \notin IdsIn(<<>>)
      BY <1>2, NobodyIs
    <2> QED BY <1>2, <2>1, NobodyIs, DistinctAppend
  <1>7. /\ m.id \notin IdsIn(session) /\ m.id \notin IdsIn(pendingBash) /\ m.id \notin IdsIn(c)
        /\ m.id # 0 /\ 1..lastId \subseteq 1..m.id /\ 0..lastId \subseteq 0..m.id
        /\ m.id \in 1..m.id
    BY <1>1, <1>2 DEF NumberedBy
  <1>8. CASE messages' = messages /\ session' = session /\ pendingBash' = b
    <2>1. b \in Seq(AnyMessage) /\ ToSet(b) = ToSet(pendingBash) \cup {m}
      BY <1>1, <1>4, JoinIn DEF b
    <2>2. IdsIn(b) = IdsIn(pendingBash) \cup {m.id}
      BY <1>1, <1>2, <1>4, IdsAre
    <2>3. Distinct(b)
      <3>1. Distinct(pendingBash)
        BY <1>1 DEF NumberedBy
      <3> QED BY <1>1, <1>2, <1>4, <1>7, <3>1, DistinctAppend
    <2>4. NumberedBy(session, c, b, m.id)
      BY <1>1, <1>7, <2>2, <2>3 DEF NumberedBy
    <2>5. Roled(c, b)
      BY <1>1, <1>2, <2>1 DEF Roled
    <2>6. Sequences'
      BY <1>1, <1>2, <1>3, <1>8, <2>1 DEF Sequences
    <2>7. Matches'
      BY <1>1, <1>3, <1>8 DEF Matches, c
    <2>8. NumberedBy(session', Coming', pendingBash', lastId') /\ Roled(Coming', pendingBash')
      BY <1>3, <1>8, <2>4, <2>5 DEF c
    <2>9. Loaded(events') /\ KeepsKnown(session') /\ Summarizing(compaction', session')
      BY <1>1, <1>3, <1>8
    <2> QED BY <2>6, <2>7, <2>8, <2>9 DEF Entered
  <1>9. CASE messages' = messages \o <<m>> /\ session' = s /\ pendingBash' = pendingBash
    <2>a. IdsIn(session) \cap IdsIn(<<m>>) = {} /\ 0 \notin IdsIn(<<m>>)
          /\ \A k \in ToSet(<<m>>) : k.role = "bashExecution"
      BY <1>2, <1>4, <1>5, <1>7
    <2>1. /\ s \in Seq(AnyMessage) /\ messages \o <<m>> \in Seq(AnyMessage)
          /\ Distinct(s) /\ KeepsKnown(s) /\ IdsIn(s) = IdsIn(session) \cup IdsIn(<<m>>)
          /\ \A places : Summarizing(places, session) => Summarizing(places, s)
          /\ Agree(messages \o <<m>>, Context(s) \o c, lost)
      BY <1>4, <1>6, <2>a, BashEntered DEF s, c
    <2>4. NumberedBy(s, c, pendingBash, m.id)
      BY <1>1, <1>5, <1>7, <2>1 DEF NumberedBy
    <2>6. Sequences'
      BY <1>1, <1>2, <1>3, <1>9, <2>1 DEF Sequences
    <2>7. Matches'
      BY <1>3, <1>9, <2>1 DEF Matches, c
    <2>8. NumberedBy(session', Coming', pendingBash', lastId') /\ Roled(Coming', pendingBash')
      BY <1>1, <1>3, <1>9, <2>4 DEF c
    <2>9. Loaded(events') /\ KeepsKnown(session') /\ Summarizing(compaction', session')
      BY <1>1, <1>3, <1>9, <2>1
    <2> QED BY <2>6, <2>7, <2>8, <2>9 DEF Entered
  <1> QED BY <1>3, <1>4, <1>8, <1>9

LEMMA UserEntered ==
  ASSUME Entered, UserStep
  PROVE  Entered'
  <1>1. Summarizing(compaction, session) /\ compaction \in [Compactors -> Places]
    BY DEF Entered, Summarizing
  <1>2. ASSUME NEW p \in Prompts, Prompt(p) PROVE Entered'
    BY <1>2, PromptEntered
  <1>3. CASE RecordBashResult
    BY <1>3, RecordEntered
  <1>4. CASE Queue \/ Abort \/ AbortCompaction
    <2>1. UNCHANGED <<messages, session, pendingBash, events, lastId, lost, compaction>>
      BY <1>4 DEF Queue, Abort, AbortCompaction, eventVars, compactionVars, agentVars
    <2> QED BY <1>1, <2>1, Elsewhere
  <1>5. CASE Compact
    <2> DEFINE place == [compaction[Manual] EXCEPT !.pc = "waiting"]
    <2>1. compaction' = [compaction EXCEPT ![Manual] = place]
          /\ UNCHANGED <<messages, session, pendingBash, events, lastId, lost>>
      BY <1>5 DEF Compact
    <2>2. place \in Places /\ place.pc = "waiting"
      BY <1>1, CompactorsAre DEF Places
    <2> HIDE DEF place
    <2> QED BY <1>1, <2>1, <2>2, CompactorsAre, PlaceTaken, Elsewhere
  <1> QED BY <1>2, <1>3, <1>4, <1>5 DEF UserStep

(***************************************************************************)
(* The invariant holds, and what it says when all is quiet.                *)
(***************************************************************************)
LEMMA InitEntered == ASSUME Init PROVE Entered
  <1>1. /\ messages = <<>> /\ session = <<>> /\ events = <<>> /\ pendingBash = <<>> /\ lastId = 0
        /\ compaction = [c \in Compactors |-> Idle]
    BY DEF Init
  <1>2. Coming = <<>>
    BY <1>1 DEF Coming, Carry
  <1>3. Loaded(<<>>) /\ KeepsKnown(<<>>)
    BY DEF Loaded, KeepsKnown
  <1>4. Context(<<>>) = <<>>
    <2>1. Marks(<<>>) = {}
      BY DEF Marks
    <2>2. LatestCompaction(<<>>) = NoMessage
      BY <2>1, LatestIs
    <2> QED BY <2>2 DEF Context
  <1>5. Sequences
    BY <1>1, NobodyIs DEF Sequences
  <1>6. NumberedBy(<<>>, <<>>, <<>>, 0) /\ Roled(<<>>, <<>>)
    BY NobodyIs DEF NumberedBy, Roled
  <1>7. Summarizing(compaction, <<>>)
    BY <1>1, IdleIs DEF Summarizing
  <1>8. Agree(messages, Context(session) \o Coming, lost)
    <2>1. <<>> \o <<>> = <<>>
      OBVIOUS
    <2>2. Context(session) \o Coming = <<>>
      BY <1>1, <1>2, <1>4, <2>1
    <2> QED BY <1>1, <2>2, AgreeSame
  <1> QED BY <1>1, <1>2, <1>3, <1>5, <1>6, <1>7, <1>8 DEF Entered, Matches

LEMMA QuietAgrees ==
  ASSUME Entered PROVE ContextAgrees
  <1> DEFINE x == Context(session)
             both == { m \in ToSet(messages \o x) : ~IsError(m) /\ m.id \notin lost }
             talk == { m \in both : m.role # "bashExecution" }
  <1> SUFFICES ASSUME Quiescent
               PROVE  /\ Only(messages, talk) = Only(x, talk)
                      /\ both \subseteq ToSet(messages) /\ both \subseteq ToSet(x)
    BY Zenon DEF ContextAgrees
  <1>1. x \in Seq(AnyMessage) /\ messages \in Seq(AnyMessage)
    BY SessionIs DEF Entered, Sequences
  <1>2. Coming = <<>>
    BY DEF Quiescent, Coming, Carry
  <1>3. x \o <<>> = x
    BY <1>1
  <1>4. Agree(messages, x, lost)
    BY <1>2, <1>3 DEF Entered, Matches
  <1> HIDE DEF x
  <1>5. ToSet(messages \o x) = ToSet(messages) \cup ToSet(x)
    BY <1>1, JoinIn
  <1>6. \A m \in ToSet(messages) \cup ToSet(x) : m \in AnyMessage
    BY <1>1 DEF ToSet
  <1>7. both = (ToSet(messages) \cup ToSet(x)) \cap Common(lost)
    BY <1>5, <1>6 DEF Common
  <1>8. ToSet(messages) \cap Common(lost) = ToSet(x) \cap Common(lost)
    BY <1>4 DEF Agree
  <1>9. both \subseteq ToSet(messages) /\ both \subseteq ToSet(x)
    BY <1>7, <1>8
  <1>10. \A m \in ToSet(messages) \cup ToSet(x) : m \in talk <=> m \in Spoken(lost)
    BY <1>7 DEF Spoken
  <1> HIDE DEF talk
  <1>11. Only(messages, talk) = Only(messages, Spoken(lost))
    BY <1>1, <1>10, OnlySame
  <1>12. Only(x, talk) = Only(x, Spoken(lost))
    BY <1>1, <1>10, OnlySame
  <1>13. Only(messages, Spoken(lost)) = Only(x, Spoken(lost))
    BY <1>4 DEF Agree
  <1> QED BY <1>9, <1>11, <1>12, <1>13

LEMMA NextEntered ==
  ASSUME IInv, Entered, [Next]_vars
  PROVE  Entered'
  <1>1. Summarizing(compaction, session)
    BY DEF Entered
  <1>2. ASSUME NEW p \in Prompts, StartPrompt(p) \/ WaitForRetry(p) PROVE Entered'
    <2>1. UNCHANGED <<messages, session, pendingBash, events, lastId, lost, compaction>>
      BY <1>2 DEF StartPrompt, WaitForRetry, agentVars, eventVars, compactionVars
    <2> QED BY <1>1, <2>1, Elsewhere
  <1>3. CASE UNCHANGED vars
    <2>1. UNCHANGED <<messages, session, pendingBash, events, lastId, lost, compaction>>
      BY <1>3 DEF vars, agentVars, eventVars, compactionVars
    <2> QED BY <1>1, <2>1, Elsewhere
  <1>4. CASE SystemStep
    BY <1>2, <1>4, AgentEntered, CompactionEntered, EventEntered DEF SystemStep
  <1> QED BY <1>3, <1>4, UserEntered DEF Next

LEMMA BothInvariants == Spec => [](IInv /\ Entered)
<1>1. Init => Entered
  BY InitEntered
<1>2. IInv /\ Entered /\ [Next]_vars => Entered'
  BY NextEntered
<1> QED BY <1>1, <1>2, Invariance, PTL DEF Spec

\* What the model is shown and what the session would give when it is opened again
\* do not drift apart, whatever retries, compactions, aborts and bash results there
\* are between them: once _agentEventQueue is empty, the two are the same messages
\* in the same order, but for failures, for the places of bash results and for what
\* lost lists.
THEOREM ContextsAgree == Spec => []ContextAgrees
<1>1. Entered => ContextAgrees
  BY QuietAgrees
<1> QED BY <1>1, BothInvariants, PTL
=============================================================================
