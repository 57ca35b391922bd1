------------------------------- MODULE MCReplies -------------------------------
(***************************************************************************)
(* How a text comes to a model and a reply from it, as TLC checks it: what   *)
(* the user submits, the requests that are made for one reply, the          *)
(* connections of a session's requests, the events of a reply and who       *)
(* rebuilds a message from them, or the queue of events between two loops.  *)
(* They share nothing but protocols: one of the five is explored at a time. *)
(***************************************************************************)
EXTENDS EventStream

CONSTANTS Families, MaxInputs, MAX_RETRIES, MAX_EMPTY_STREAM_RETRIES, Endpoints,
          Request, MaxSockets, NTexts, Commands, NFlushes, MaxRetries, MaxSteps

ASSUME RepliesAssumption == {MaxSockets, NTexts, NFlushes, MaxRetries, MaxSteps} \subseteq Nat

VARIABLES
  part,  \* which of the five is explored
  family, over, content, cur, item, upstream, refused, started, empties, inputs, wire,
  reader, phase, outcome, partial,
  provider, pc, attempt, endpoint, emptyAttempt, begun, requests,
  cache, opened, state, busy, timer, requestAt, uses, release,
  editor, held, flush, ui, prompts, run, queues, shown, answered, notices, handler, retrying,
  retryAttempt, timers, compaction, recovered, navigation, branchSummary, typed, troubles, said,
  dropped, repeated, unheard, crossed

replyVars == <<family, over, content, cur, item, upstream, refused, started, empties, inputs,
               wire, reader, phase, outcome, partial>>
retryVars == <<provider, pc, attempt, endpoint, emptyAttempt, begun, requests>>
socketVars == <<cache, opened, state, busy, timer, requestAt, uses, release>>
textVars ==
  <<editor, held, flush, ui, prompts, run, queues, shown, answered, notices, handler, retrying,
    retryAttempt, timers, compaction, recovered, navigation, branchSummary, typed, troubles,
    said, dropped, repeated, unheard, crossed>>
allVars == <<part, vars, replyVars, retryVars, socketVars, textVars>>

R == INSTANCE ReplyStream
Q == INSTANCE RequestRetry WITH empties <- emptyAttempt
C == INSTANCE SocketCache WITH at <- requestAt
T == INSTANCE Interactive
       WITH waiting <- queues, events <- notices, overflowRecoveryAttempted <- recovered

InitReplies ==
  /\ part \in {"events", "reply", "request", "sockets", "texts"}
  /\ Init /\ R!Init /\ Q!Init /\ C!Init /\ T!Init
  /\ part # "reply" => family = CHOOSE f \in Families : TRUE
  /\ part # "request" => provider = "gemini"

NextReplies ==
  /\ \/ part = "events" /\ Next /\ UNCHANGED <<replyVars, retryVars, socketVars, textVars>>
     \/ part = "reply" /\ R!Next /\ UNCHANGED <<vars, retryVars, socketVars, textVars>>
     \/ part = "request" /\ Q!Next /\ UNCHANGED <<vars, replyVars, socketVars, textVars>>
     \/ part = "sockets" /\ C!Next /\ UNCHANGED <<vars, replyVars, retryVars, textVars>>
     \/ part = "texts" /\ T!Next /\ UNCHANGED <<vars, replyVars, retryVars, socketVars>>
  /\ UNCHANGED part

\* The consumers of the queue run whenever they can.
Consumes(c) == /\ part = "events"
               /\ IteratorNext(c) \/ IteratorResume(c)
               /\ UNCHANGED <<part, replyVars, retryVars, socketVars, textVars>>

SpecReplies == /\ InitReplies /\ [][NextReplies]_allVars
               /\ \A c \in Consumers : WF_allVars(Consumes(c))

\* The properties of the modules, whose comments say what they mean.
ReaderRebuilds == R!ReaderRebuilds
ImplementsReply == R!ImplementsReply
AsksAgainUnseen == Q!AsksAgainUnseen
ConnectionsAreOwned == C!ConnectionsAreOwned
TextsKept == T!NothingLost /\ T!NothingTwice /\ T!ShownIsWaiting /\ T!HeldWhileCompacting
EscapeFits == T!EscapeFits
=============================================================================
