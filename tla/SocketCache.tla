----------------------------- MODULE SocketCache -----------------------------
(***************************************************************************)
(* websocketSessionCache of ai/src/providers/openai-codex-responses.ts:    *)
(* the connection a session keeps between its requests.  Requests of one   *)
(* session may overlap (a summary beside a reply); connecting takes time,  *)
(* and what was looked up before may no longer be there after.             *)
(***************************************************************************)
EXTENDS Naturals

CONSTANTS Request,   \* the requests of the session that are made
          MaxSockets \* bound: connections opened

NoSocket == 0
Socket == 1..MaxSockets

VARIABLES cache,    \* the socket of the session's entry in the map, or NoSocket
          opened,   \* how many sockets were made
          state,    \* of each socket: "new", "connecting", "open", "closed"
          busy,     \* entry.busy, of the entry with this socket
          timer,    \* entry.idleTimer is armed
          at,       \* of each request: "idle", "connecting", "using", "done"
          uses,     \* its socket
          release   \* the release function it got: "own", "reused", "entered"

vars == <<cache, opened, state, busy, timer, at, uses, release>>

Init == /\ cache = NoSocket /\ opened = 0
        /\ state = [s \in Socket |-> "new"]
        /\ busy = [s \in Socket |-> FALSE]
        /\ timer = [s \in Socket |-> FALSE]
        /\ at = [r \in Request |-> "idle"]
        /\ uses = [r \in Request |-> NoSocket]
        /\ release = [r \in Request |-> "own"]

\* isWebSocketReusable
Reusable(s) == state[s] = "open"

Closed(s) == [state EXCEPT ![s] = "closed"]

\* connectWebSocket, for a release function of its kind.
Connect(r, kind, sockets) ==
  /\ opened < MaxSockets
  /\ opened' = opened + 1
  /\ state' = [sockets EXCEPT ![opened + 1] = "connecting"]
  /\ at' = [at EXCEPT ![r] = "connecting"]
  /\ uses' = [uses EXCEPT ![r] = opened + 1]
  /\ release' = [release EXCEPT ![r] = kind]

\* Mutant: a connection in use is taken as well.
OpenToAll(s) == Reusable(s)

Free(s) == ~busy[s] /\ Reusable(s)

\* acquireWebSocket, up to its first await.
AcquireNew(r) == /\ at[r] = "idle" /\ cache = NoSocket
                 /\ Connect(r, "entered", state)
                 /\ UNCHANGED <<cache, busy, timer>>

AcquireCached(r) ==
  /\ at[r] = "idle" /\ cache # NoSocket /\ Free(cache)
  /\ timer' = [timer EXCEPT ![cache] = FALSE]
  /\ busy' = [busy EXCEPT ![cache] = TRUE]
  /\ at' = [at EXCEPT ![r] = "using"]
  /\ uses' = [uses EXCEPT ![r] = cache]
  /\ release' = [release EXCEPT ![r] = "reused"]
  /\ UNCHANGED <<cache, opened, state>>

AcquireBeside(r) ==
  /\ at[r] = "idle" /\ cache # NoSocket /\ ~Free(cache) /\ busy[cache]
  /\ timer' = [timer EXCEPT ![cache] = FALSE]
  /\ Connect(r, "own", state)
  /\ UNCHANGED <<cache, busy>>

AcquireAfter(r) ==
  /\ at[r] = "idle" /\ cache # NoSocket /\ ~Free(cache) /\ ~busy[cache]
  /\ timer' = [timer EXCEPT ![cache] = FALSE]
  /\ cache' = NoSocket
  /\ Connect(r, "entered", Closed(cache))
  /\ UNCHANGED busy

\* The connection is there: the entry replaces whatever was entered meanwhile.
Connected(r) ==
  /\ at[r] = "connecting"
  /\ at' = [at EXCEPT ![r] = "using"]
  /\ state' = [state EXCEPT ![uses[r]] = "open"]
  /\ IF release[r] = "entered"
     THEN cache' = uses[r] /\ busy' = [busy EXCEPT ![uses[r]] = TRUE]
     ELSE UNCHANGED <<cache, busy>>
  /\ UNCHANGED <<opened, timer, uses, release>>

\* It fails, or the request is aborted, which closes it.
ConnectFails(r) ==
  /\ at[r] = "connecting"
  /\ at' = [at EXCEPT ![r] = "done"]
  /\ state' = Closed(uses[r])
  /\ UNCHANGED <<cache, opened, busy, timer, uses, release>>

\* Mutant: a connection that is kept is not timed.
NotTimed(s) == timer

\* scheduleSessionWebSocketExpiry
Timed(s) == [timer EXCEPT ![s] = TRUE]

ReleaseOwn(r) == /\ at[r] = "using" /\ release[r] = "own"
                 /\ at' = [at EXCEPT ![r] = "done"]
                 /\ state' = Closed(uses[r])
                 /\ UNCHANGED <<cache, opened, busy, timer, uses, release>>

\* The connection is kept if the reply was complete and it is still open.
ReleaseKept(r) ==
  /\ at[r] = "using" /\ release[r] # "own" /\ Reusable(uses[r])
  /\ at' = [at EXCEPT ![r] = "done"]
  /\ busy' = [busy EXCEPT ![uses[r]] = FALSE]
  /\ timer' = Timed(uses[r])
  /\ UNCHANGED <<cache, opened, state, uses, release>>

\* Otherwise it is closed; only who entered it makes sure that the entry is its own.
ReleaseDropped(r) ==
  /\ at[r] = "using" /\ release[r] # "own"
  /\ at' = [at EXCEPT ![r] = "done"]
  /\ state' = Closed(uses[r])
  /\ cache' = IF release[r] = "reused" \/ cache = uses[r] THEN NoSocket ELSE cache
  /\ timer' = IF release[r] = "entered" THEN [timer EXCEPT ![uses[r]] = FALSE] ELSE timer
  /\ UNCHANGED <<opened, busy, uses, release>>

\* The timer closes its connection and forgets the session's entry, whichever it is.
Expire(s) ==
  /\ timer[s]
  /\ timer' = [timer EXCEPT ![s] = FALSE]
  /\ IF busy[s]
     THEN UNCHANGED <<cache, state>>
     ELSE state' = Closed(s) /\ cache' = NoSocket
  /\ UNCHANGED <<opened, busy, at, uses, release>>

\* The service closes a connection.
Drop(s) == /\ state[s] = "open"
           /\ state' = Closed(s)
           /\ UNCHANGED <<cache, opened, busy, timer, at, uses, release>>

Next == \/ \E r \in Request :
             \/ AcquireNew(r) \/ AcquireCached(r) \/ AcquireBeside(r) \/ AcquireAfter(r)
             \/ Connected(r) \/ ConnectFails(r)
             \/ ReleaseOwn(r) \/ ReleaseKept(r) \/ ReleaseDropped(r)
        \/ \E s \in Socket : Expire(s) \/ Drop(s)

Spec == Init /\ [][Next]_vars

(***************************************************************************)
(* Properties.                                                             *)
(***************************************************************************)
\* Overlapping requests never talk over one connection, and none is left open for
\* good: one that is open is used, or its timer will close it, whatever entry it was
\* replaced by, or forgotten with, in the meantime.
ConnectionsAreOwned ==
  /\ \A r, q \in Request : at[r] = "using" /\ at[q] = "using" /\ uses[r] = uses[q] => r = q
  /\ \A s \in Socket : state[s] = "open" =>
       timer[s] \/ \E r \in Request : at[r] = "using" /\ uses[r] = s
=============================================================================
