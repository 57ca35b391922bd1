---------------------------------- MODULE Rpc ----------------------------------
(***************************************************************************)
(* coding-agent/src/modes/rpc: a program that embeds the agent (RpcClient), *)
(* the agent's process (runRpcMode), and the two pipes between them.        *)
(*                                                                         *)
(* A line is written and read as a whole, as jsonl.ts sees to.  Lines that *)
(* change nothing in the client are left out: most events, dialogs, and    *)
(* the answer to a command that throws, which has no id ("parse").         *)
(***************************************************************************)
EXTENDS Integers, Sequences, FiniteSets, SequencesExt

CONSTANTS MaxRequests,  \* bound: calls of send
          MaxStarts,    \* bound: calls of start
          MaxDialogs,   \* bound: dialogs of extensions
          MaxWaiters,   \* bound: calls of waitForIdle and collectEvents
          MaxStops      \* bound: calls of stop that are waiting

VARIABLES
  \* The client.
  process,       \* the number of the process it holds, or 0
  reading,       \* the process whose stdout it reads, or 0
  requests,      \* every call of send, in order
  pendingRequests,  \* a set of [id, request]: the map, by id
  eventListeners,   \* the calls of waitForIdle and collectEvents that listen, in order
  waiters,       \* of every such call, whether its timer is running
  stops,         \* the calls of stop that are waiting
  starts,        \* how many processes there were
  \* The process.
  alive,         \* the last process runs
  stdin, stdout, \* lines on their way
  commands,      \* the commands being handled
  sessions,      \* how many sessions there were
  session,       \* runtimeHost.session
  subscriptions, \* the listeners that output a session's events
  unsubscribe,   \* the command that made the one that would be taken back, or 0
  running,       \* sessions with a run
  pendingExtensionRequests,  \* the dialogs that may be answered
  dialogs,       \* of every dialog, whether it is open
  shutdownRequested,
  closing,       \* shutdown has begun
  stranded       \* history: a session was disposed of and not replaced

client == <<process, reading, requests, pendingRequests, eventListeners, waiters, stops, starts>>
host == <<sessions, session, subscriptions, unsubscribe, running, stranded>>
dialogVars == <<pendingExtensionRequests, dialogs>>
mode == <<commands, host, dialogVars, shutdownRequested, closing>>
pipes == <<alive, stdin, stdout>>
vars == <<client, pipes, mode>>

\* slow stands for the commands that wait for something: compact, bash, abort.
Commands == {"quick", "slow", "prompt", "new_session"}
AgentEnd == [type |-> "agent_end"]
Response(id) == [type |-> "response", id |-> id]
Subscription(s, by) == [session |-> s, by |-> by]

(***************************************************************************)
(* The client.                                                             *)
(***************************************************************************)
Settle(rs, r, how) == [rs EXCEPT ![r].state = IF @ = "waiting" THEN how ELSE @,
                                 ![r].timer = FALSE]

\* Mutant: the numbers begin again with each process.
IdsOfProcess == Cardinality({ r \in DOMAIN requests : requests[r].process = process }) + 1
NextId == Len(requests) + 1

Start ==
  /\ process = 0
  /\ starts < MaxStarts
  /\ starts' = starts + 1
  /\ process' = starts' /\ reading' = starts'
  /\ alive' = TRUE /\ stdin' = <<>> /\ stdout' = <<>>
  /\ commands' = {} /\ sessions' = 1 /\ session' = 1 /\ running' = {} /\ stranded' = FALSE
  /\ subscriptions' = {Subscription(1, 0)} /\ unsubscribe' = 0
  /\ pendingExtensionRequests' = {} /\ dialogs' = <<>>
  /\ shutdownRequested' = FALSE /\ closing' = FALSE
  /\ UNCHANGED <<requests, pendingRequests, eventListeners, waiters, stops>>

Send(command) ==
  /\ process # 0
  /\ Len(requests) < MaxRequests
  /\ LET id == NextId
     IN  /\ requests' = Append(requests, [id |-> id, process |-> process, state |-> "waiting",
                                          timer |-> TRUE, cleared |-> FALSE])
         /\ pendingRequests' = { p \in pendingRequests : p.id # id }
                               \union {[id |-> id, request |-> Len(requests) + 1]}
         /\ stdin' = IF alive THEN Append(stdin, [id |-> id, command |-> command]) ELSE stdin

\* waitForIdle, and collectEvents of promptAndWait.
Listen == /\ Len(waiters) < MaxWaiters
          /\ waiters' = Append(waiters, TRUE)
          /\ eventListeners' = Append(eventListeners, Len(waiters) + 1)

Call ==
  /\ \/ \E command \in Commands : Send(command) /\ UNCHANGED <<eventListeners, waiters>>
     \/ Send("prompt") /\ Listen
     \/ Listen /\ UNCHANGED <<requests, pendingRequests, stdin>>
  /\ UNCHANGED <<process, reading, stops, starts, alive, stdout, mode>>

\* The timer of a request is that of its promise, whatever the map holds by then.
RequestTimesOut(r) ==
  /\ requests[r].timer
  /\ requests' = Settle(requests, r, "rejected")
  /\ pendingRequests' = { p \in pendingRequests : p.id # requests[r].id }
  /\ UNCHANGED <<process, reading, eventListeners, waiters, stops, starts, pipes, mode>>

WaiterTimesOut(w) ==
  /\ waiters[w]
  /\ waiters' = [waiters EXCEPT ![w] = FALSE]
  /\ eventListeners' = RemoveFirst(eventListeners, w)
  /\ UNCHANGED <<process, reading, requests, pendingRequests, stops, starts, pipes, mode>>

\* Each listener that hears the end of a run unsubscribes while the list is walked,
\* and the one behind it moves into its place and is passed over.
Heard == { eventListeners[i] : i \in { j \in DOMAIN eventListeners : j % 2 = 1 } }
PassedOver == [i \in 1..(Len(eventListeners) \div 2) |-> eventListeners[2 * i]]

HandleLine ==
  /\ reading = starts /\ stdout # <<>>
  /\ stdout' = Tail(stdout)
  /\ LET line == Head(stdout)
         answered == { p \in pendingRequests : line.type = "response" /\ p.id = line.id }
     IN  \/ \E p \in answered :
              /\ pendingRequests' = pendingRequests \ {p}
              /\ requests' = Settle(requests, p.request, "resolved")
              /\ UNCHANGED <<eventListeners, waiters>>
         \/ /\ answered = {}
            /\ IF line = AgentEnd
               THEN /\ waiters' = [w \in DOMAIN waiters |-> waiters[w] /\ w \notin Heard]
                    /\ eventListeners' = PassedOver
               ELSE UNCHANGED <<eventListeners, waiters>>
            /\ UNCHANGED <<requests, pendingRequests>>
  /\ UNCHANGED <<process, reading, stops, starts, alive, stdin, mode>>

\* The exit of a process that has exited is not heard again.
Stop ==
  /\ process # 0
  /\ Len(stops) < MaxStops
  /\ reading' = 0
  /\ stops' = Append(stops, [process |-> process, listens |-> alive])
  /\ UNCHANGED <<process, requests, pendingRequests, eventListeners, waiters, starts, pipes,
                 mode>>

Cleared(rs) == [r \in DOMAIN rs |-> [rs[r] EXCEPT !.cleared = @ \/ rs[r].state = "waiting"]]

\* It killed the process that it was called for; after a second, it kills the process
\* that the client holds by then.
StopReturns(i) ==
  /\ \/ stops[i].listens /\ (stops[i].process < starts \/ ~alive) /\ UNCHANGED alive
     \/ alive' = (alive /\ process = 0)
  /\ stops' = RemoveAt(stops, i)
  /\ process' = 0
  /\ pendingRequests' = {}
  /\ requests' = Cleared(requests)
  /\ UNCHANGED <<reading, eventListeners, waiters, starts, stdin, stdout, mode>>

(***************************************************************************)
(* The process: runRpcMode.                                                *)
(***************************************************************************)
Handling(id, step, next) == [id |-> id, step |-> step, next |-> next]

\* A command that is answered is the occasion to shut down, if that was asked for.
Answer(id) ==
  /\ stdout' = Append(stdout, Response(id))
  /\ closing' = (closing \/ shutdownRequested)

\* When shutdown begins, nothing is output any more but answers.
Unsubscribed(subs, by) == { s \in subs : s.by # by }
AfterAnswer(subs, by) ==
  IF ~closing /\ shutdownRequested THEN Unsubscribed(subs, by) ELSE subs

HandleQuick(id) ==
  /\ Answer(id)
  /\ subscriptions' = AfterAnswer(subscriptions, unsubscribe)
  /\ UNCHANGED <<commands, sessions, session, unsubscribe, running, stranded>>

\* A prompt is not awaited: it is answered when it begins, and again when it fails.
HandlePrompt(id) ==
  /\ \/ /\ stdout' = Append(stdout, Response(id))
        /\ running' = running \union {session}
     \/ /\ stdout' = stdout \o <<Response(id), Response(id)>>
        /\ UNCHANGED running
  /\ closing' = (closing \/ shutdownRequested)
  /\ subscriptions' = AfterAnswer(subscriptions, unsubscribe)
  /\ UNCHANGED <<commands, sessions, session, unsubscribe, stranded>>

BeginSlow(id) == /\ commands' = commands \union {Handling(id, "slow", 0)}
                 /\ UNCHANGED <<stdout, closing, host>>

BeginSwitch(id) == /\ commands' = commands \union {Handling(id, "switch", 0)}
                   /\ UNCHANGED <<stdout, closing, host>>

HandleInputLine ==
  /\ alive /\ stdin # <<>>
  /\ stdin' = Tail(stdin)
  /\ LET line == Head(stdin)
     IN  \/ line.command = "quick" /\ HandleQuick(line.id)
         \/ line.command = "prompt" /\ HandlePrompt(line.id)
         \/ line.command = "slow" /\ BeginSlow(line.id)
         \/ line.command = "new_session" /\ BeginSwitch(line.id)
  /\ UNCHANGED <<client, alive, dialogVars, shutdownRequested>>

\* A command that throws is answered without an id.
CommandThrows(c) ==
  /\ alive /\ c.step \in {"slow", "switch"}
  /\ commands' = commands \ {c}
  /\ UNCHANGED <<client, pipes, host, dialogVars, shutdownRequested, closing>>

\* Also a switch that an extension cancels.
CommandReturns(c) ==
  /\ alive /\ c.step \in {"slow", "switch"}
  /\ commands' = commands \ {c}
  /\ Answer(c.id)
  /\ subscriptions' = AfterAnswer(subscriptions, unsubscribe)
  /\ UNCHANGED <<client, alive, stdin, sessions, session, unsubscribe, running, stranded,
                 dialogVars, shutdownRequested>>

\* The next runtime is made; session_shutdown is emitted on that of the moment.
CreateRuntime(c) ==
  /\ alive /\ c.step = "switch"
  /\ sessions' = sessions + 1
  /\ commands' = (commands \ {c}) \union {Handling(c.id, "created", sessions')}
  /\ UNCHANGED <<client, pipes, session, subscriptions, unsubscribe, running, stranded,
                 dialogVars, shutdownRequested, closing>>

\* The runtime of the moment, which another switch may have put there, is disposed of
\* and replaced, and the new one is bound to the extensions.
Disposed == { s \in subscriptions : s.session # session }
Replace(c) ==
  /\ alive /\ c.step = "created"
  /\ commands' = (commands \ {c}) \union {Handling(c.id, "binding", c.next)}
  /\ session' = c.next
  /\ subscriptions' = Disposed
  /\ UNCHANGED <<client, pipes, sessions, unsubscribe, running, stranded, dialogVars,
                 shutdownRequested, closing>>

\* The directory of the session cannot be entered.
ReplaceThrows(c) ==
  /\ alive /\ c.step = "created"
  /\ commands' = commands \ {c}
  /\ subscriptions' = Disposed
  /\ stranded' = TRUE
  /\ UNCHANGED <<client, pipes, sessions, session, unsubscribe, running, dialogVars,
                 shutdownRequested, closing>>

\* Mutant: the session is the one this switch has made.
SessionOfSwitch(c) == c.next
SessionToHear(c) == session

Rebind(c) ==
  /\ alive /\ c.step = "binding"
  /\ commands' = commands \ {c}
  /\ subscriptions' = AfterAnswer(Unsubscribed(subscriptions, unsubscribe)
                                  \union {Subscription(SessionToHear(c), c.id)}, c.id)
  /\ unsubscribe' = c.id
  /\ Answer(c.id)
  /\ UNCHANGED <<client, alive, stdin, sessions, session, running, stranded, dialogVars,
                 shutdownRequested>>

\* A run of a session that was replaced goes on, and nobody hears it.
RunEnds(s) ==
  /\ alive
  /\ running' = running \ {s}
  /\ stdout' = stdout \o [i \in 1..Cardinality({ t \in subscriptions : t.session = s }) |->
                             AgentEnd]
  /\ UNCHANGED <<client, alive, stdin, commands, sessions, session, subscriptions,
                 unsubscribe, stranded, dialogVars, shutdownRequested, closing>>

OpenDialog ==
  /\ alive
  /\ Len(dialogs) < MaxDialogs
  /\ dialogs' = Append(dialogs, TRUE)
  /\ pendingExtensionRequests' = pendingExtensionRequests \union {Len(dialogs) + 1}
  /\ UNCHANGED <<client, pipes, commands, host, shutdownRequested, closing>>

CleanUp(d) ==
  /\ dialogs' = [dialogs EXCEPT ![d] = FALSE]
  /\ pendingExtensionRequests' = pendingExtensionRequests \ {d}
  /\ UNCHANGED <<client, pipes, commands, host, shutdownRequested, closing>>

\* Its timer, or an abort of its signal.
DialogGivenUp(d) == alive /\ dialogs[d] /\ CleanUp(d)
DialogAnswered(d) == alive /\ CleanUp(d)

RequestShutdown ==
  /\ alive /\ ~shutdownRequested
  /\ shutdownRequested' = TRUE
  /\ UNCHANGED <<client, pipes, commands, host, dialogVars, closing>>

\* At the end of shutdown, by a signal, or by itself; what it has written can be read.
Exit ==
  /\ alive
  /\ alive' = FALSE /\ stdin' = <<>>
  /\ UNCHANGED <<client, stdout, mode>>

Init ==
  /\ process = 0 /\ reading = 0 /\ requests = <<>> /\ pendingRequests = {}
  /\ eventListeners = <<>> /\ waiters = <<>> /\ stops = <<>> /\ starts = 0
  /\ alive = FALSE /\ stdin = <<>> /\ stdout = <<>>
  /\ commands = {} /\ sessions = 0 /\ session = 0 /\ subscriptions = {} /\ unsubscribe = 0
  /\ running = {}
  /\ stranded = FALSE /\ pendingExtensionRequests = {} /\ dialogs = <<>>
  /\ shutdownRequested = FALSE /\ closing = FALSE

Next ==
  \/ Start \/ Call \/ HandleLine \/ Stop
  \/ \E r \in DOMAIN requests : RequestTimesOut(r)
  \/ \E w \in DOMAIN waiters : WaiterTimesOut(w)
  \/ \E i \in DOMAIN stops : StopReturns(i)
  \/ HandleInputLine
  \/ \E c \in commands : \/ CommandThrows(c) \/ CommandReturns(c) \/ CreateRuntime(c)
                         \/ Replace(c) \/ ReplaceThrows(c) \/ Rebind(c)
  \/ \E s \in running : RunEnds(s)
  \/ OpenDialog \/ RequestShutdown \/ Exit
  \/ \E d \in DOMAIN dialogs : DialogGivenUp(d)
  \/ \E d \in pendingExtensionRequests : DialogAnswered(d)

Spec == Init /\ [][Next]_vars

TypeOK ==
  /\ process \in 0..starts /\ reading \in 0..starts /\ starts \in 0..MaxStarts
  /\ requests \in Seq([id : 1..MaxRequests, process : 1..MaxStarts,
                       state : {"waiting", "resolved", "rejected"},
                       timer : BOOLEAN, cleared : BOOLEAN])
  /\ pendingRequests \subseteq [id : 1..MaxRequests, request : DOMAIN requests]
  /\ eventListeners \in Seq(DOMAIN waiters) /\ waiters \in Seq(BOOLEAN)
  /\ stops \in Seq([process : 1..MaxStarts, listens : BOOLEAN])
  /\ \A c \in commands : c.step \in {"slow", "switch", "created", "binding"}
  /\ session \in 0..sessions /\ running \subseteq 1..sessions
  /\ subscriptions \subseteq [session : 1..sessions, by : 0..MaxRequests]
  /\ unsubscribe \in 0..MaxRequests
  /\ pendingExtensionRequests \subseteq DOMAIN dialogs /\ dialogs \in Seq(BOOLEAN)

\* Nothing waits for ever, and nothing is settled twice.  A request that is not settled
\* has its timer, also when the process died or stop has cleared the map; unless stop
\* has, its answer will find it, whatever timers of other requests have run out.  Who
\* waits for the agent to become idle has a timer and listens.  A dialog that may be
\* answered is open.
RequestsAreTracked ==
  \A r \in DOMAIN requests :
    requests[r].state = "waiting" =>
      /\ requests[r].timer
      /\ requests[r].cleared \/ [id |-> requests[r].id, request |-> r] \in pendingRequests
WaitersListen == \A w \in DOMAIN waiters : waiters[w] <=> w \in ToSet(eventListeners)
DialogsAreOpen == pendingExtensionRequests = { d \in DOMAIN dialogs : dialogs[d] }
PendingIsOpen == RequestsAreTracked /\ WaitersListen /\ DialogsAreOpen

\* Between switches the mode outputs the events of the current session, once each,
\* however switches overlapped.  The exceptions are shutdown, and a session that was
\* disposed of although its successor could not be installed.
OneSubscription ==
  (\A c \in commands : c.step # "binding") /\ ~closing /\ ~stranded
    => IF session = 0 THEN subscriptions = {}
       ELSE \E s \in subscriptions : s.session = session /\ subscriptions = {s}
=============================================================================
