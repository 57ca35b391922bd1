----------------------------- MODULE RequestRetry -----------------------------
(***************************************************************************)
(* The requests of the two providers that speak HTTP themselves            *)
(* (google-gemini-cli.ts, openai-codex-responses.ts): attempts, waits,     *)
(* the endpoints that stand in for each other, the requests made again     *)
(* because a stream was empty, and the WebSocket that is tried first.      *)
(***************************************************************************)
EXTENDS Naturals

CONSTANTS MAX_RETRIES, MAX_EMPTY_STREAM_RETRIES,
          Endpoints   \* how many endpoints there are

VARIABLES provider,   \* "gemini" or "codex"
          pc,         \* "socket", "attempt", "waiting", "streaming", "empty", "over"
          attempt,    \* the loop's counter
          endpoint,   \* endpointIndex
          empties,    \* emptyAttempt
          begun,      \* history: how often the reader has been given a start
          requests    \* history: requests made

vars == <<provider, pc, attempt, endpoint, empties, begun, requests>>

\* Codex tries a WebSocket first unless its transport is "sse".
Init == /\ \/ provider = "gemini" /\ pc = "attempt"
           \/ provider = "codex" /\ pc \in {"attempt", "socket"}
        /\ attempt = 0 /\ endpoint = 1 /\ empties = 0
        /\ begun = 0 /\ requests = 0

AskService == requests' = requests + 1

\* Mutant: any failure of the WebSocket is followed by a request.
FallsBackAnyway == TRUE

\* websocketStarted is not set.
FallsBack == begun = 0

\* processWebSocketStream: the request is sent, and the reply begins.
SocketStarts == /\ pc = "socket" /\ begun = 0
                /\ begun' = 1 /\ AskService
                /\ UNCHANGED <<provider, pc, attempt, endpoint, empties>>

SocketDone == /\ pc = "socket" /\ begun = 1
              /\ pc' = "over"
              /\ UNCHANGED <<provider, attempt, endpoint, empties, begun, requests>>

\* With the transport "auto" the loop comes next, with "websocket" it does not.
SocketFails == /\ pc = "socket"
               /\ pc' \in (IF FallsBack THEN {"attempt"} ELSE {}) \cup {"over"}
               /\ UNCHANGED <<provider, attempt, endpoint, empties, begun, requests>>

\* The signal is looked at before an attempt, and ends every wait.
Abort == /\ pc \in {"attempt", "waiting", "empty"}
         /\ pc' = "over"
         /\ UNCHANGED <<provider, attempt, endpoint, empties, begun, requests>>

\* The start of Codex is emitted with the response, that of Gemini with the first part.
Succeeds == /\ pc = "attempt" /\ AskService
            /\ pc' = "streaming"
            /\ begun' = IF provider = "codex" THEN begun + 1 ELSE begun
            /\ UNCHANGED <<provider, attempt, endpoint, empties>>

\* 403 or 404: the next endpoint at once.  It is an attempt like any other.
Forbidden == /\ pc = "attempt" /\ provider = "gemini" /\ endpoint < Endpoints
             /\ AskService
             /\ endpoint' = endpoint + 1
             /\ attempt' = attempt + 1
             /\ pc' = IF attempt = MAX_RETRIES THEN "over" ELSE "attempt"
             /\ UNCHANGED <<provider, empties, begun>>

\* 429, 5xx or an error that says so: wait, and then the next endpoint if there is one.
Overloaded == /\ pc = "attempt" /\ attempt < MAX_RETRIES
              /\ AskService
              /\ pc' = "waiting"
              /\ endpoint' = IF provider = "gemini" /\ endpoint < Endpoints THEN endpoint + 1
                                                                          ELSE endpoint
              /\ UNCHANGED <<provider, attempt, empties, begun>>

\* Any other error, the service's, the network's or a delay that is too long, is thrown
\* inside the try: its catch waits and goes on, except for a usage limit of Codex.
Throws == /\ pc = "attempt"
          /\ AskService
          /\ \/ attempt < MAX_RETRIES /\ pc' = "waiting"
             \/ (attempt = MAX_RETRIES \/ provider = "codex") /\ pc' = "over"
          /\ UNCHANGED <<provider, attempt, endpoint, empties, begun>>

\* The wait of an attempt is over.
Waited == /\ pc = "waiting"
          /\ pc' = "attempt" /\ attempt' = attempt + 1
          /\ UNCHANGED <<provider, endpoint, empties, begun, requests>>

\* The first part of a stream of Gemini: ensureStarted.
FirstPart == /\ pc = "streaming" /\ begun = 0
             /\ begun' = 1
             /\ UNCHANGED <<provider, pc, attempt, endpoint, empties, requests>>

\* The stream ended with a reply, or failed.
StreamOver == /\ pc = "streaming"
              /\ pc' = "over"
              /\ UNCHANGED <<provider, attempt, endpoint, empties, begun, requests>>

\* hasContent is not set.
NothingCame == begun = 0

\* It ended without a part: the request is made again, after a wait.
StreamEmpty == /\ pc = "streaming" /\ provider = "gemini" /\ NothingCame
               /\ pc' = IF empties < MAX_EMPTY_STREAM_RETRIES THEN "empty" ELSE "over"
               /\ empties' = empties + 1
               /\ UNCHANGED <<provider, attempt, endpoint, begun, requests>>

\* The endpoint that answered is asked again, once.
AskAgain == /\ pc = "empty"
            /\ AskService
            /\ pc' \in {"streaming", "over"}
            /\ UNCHANGED <<provider, attempt, endpoint, empties, begun>>

Next == \/ SocketStarts \/ SocketDone \/ SocketFails \/ Abort \/ Succeeds
        \/ Forbidden \/ Overloaded \/ Throws \/ Waited
        \/ FirstPart \/ StreamOver \/ StreamEmpty \/ AskAgain

Spec == Init /\ [][Next]_vars

(***************************************************************************)
(* Properties.                                                             *)
(***************************************************************************)
\* A request is made again only while the reader has been given nothing of a reply,
\* whichever transport, endpoint or retry gave up before; so it sees one reply.
AsksAgainUnseen == [][requests' # requests => begun = 0]_vars
=============================================================================
