----------------------------- MODULE FileMutation -----------------------------
(***************************************************************************)
(* coding-agent/src/core/tools: the edit and write tools and the queue     *)
(* that serialises them, file-mutation-queue.ts.  A tool call chains       *)
(* itself to the last call on the same key and then runs its body, a       *)
(* promise around an async function that an abort rejects at once while    *)
(* the function's current file operation goes on.                          *)
(*                                                                         *)
(* A file's content is the sequence of the calls whose changes are in it.  *)
(***************************************************************************)
EXTENDS Naturals, Sequences, FiniteSets

CONSTANTS Op,          \* tool calls
          Kind,        \* "edit" or "write", of each
          Run,         \* the agent run each belongs to, which is its signal's
          Path,        \* resolved paths
          Names,       \* the path each call is given
          RealPath,    \* what realpath makes of a path whose file exists
          Missing,     \* the content of a file that does not exist
          Torn,        \* the content of a file that was opened and truncated
          None

ASSUME FileMutationAssumption ==
  /\ Kind \in [Op -> {"edit", "write"}]
  /\ Run \in [Op -> Nat]
  /\ Names \in [Op -> Path]
  /\ RealPath \in [Path -> Path]
  /\ None \notin Op
  /\ None \notin Path
  /\ {Missing, Torn} \cap Seq(Op) = {} /\ Missing # Torn

VARIABLES content,     \* what each file (named by its real path) holds
          tail,        \* fileMutationQueues: the call whose promise a key holds
          key,         \* the key a call has queued under
          awaits,      \* the call whose promise it awaits: currentQueue
          call,        \* where withFileMutationQueue is
          body,        \* where the tool's async function is
          base,        \* what an edit has read
          outcome,     \* how the tool's promise has settled
          aborted,     \* the runs whose signal is aborted
          ahead,       \* history: the calls that were queued under its key before it
          log,         \* history: the successful calls on each file, in order
          disturbed    \* history: files with a change that was aborted or failed

vars == <<content, tail, key, awaits, call, body, base, outcome, aborted,
          ahead, log, disturbed>>

File(o) == RealPath[Names[o]]
Aborted(o) == Run[o] \in aborted

Init == /\ content \in [Path -> {Missing, <<>>}]
        /\ tail = [p \in Path |-> None]
        /\ key = [o \in Op |-> None]
        /\ awaits = [o \in Op |-> None]
        /\ call = [o \in Op |-> "idle"]
        /\ body = [o \in Op |-> "none"]
        /\ base = [o \in Op |-> <<>>]
        /\ outcome = [o \in Op |-> "none"]
        /\ aborted = {}
        /\ ahead = [o \in Op |-> {}]
        /\ log = [p \in Path |-> <<>>]
        /\ disturbed = {}

\* getMutationQueueKey: realpath throws when the file does not exist.
Key(o) == IF content[File(o)] # Missing THEN File(o) ELSE Names[o]

Settled(o) == call[o] \in {"idle", "returned"}

\* A run starts when the calls of the runs before it have returned.
RunsInTurn(o) ==
  \A p \in Op : /\ Run[p] < Run[o] => Settled(p)
                /\ Run[p] > Run[o] => call[p] = "idle"

(***************************************************************************)
(* withFileMutationQueue.                                                  *)
(***************************************************************************)
\* Up to "await currentQueue".
Enqueue(o) ==
  /\ call[o] = "idle" /\ RunsInTurn(o)
  /\ call' = [call EXCEPT ![o] = "waiting"]
  /\ key' = [key EXCEPT ![o] = Key(o)]
  /\ awaits' = [awaits EXCEPT ![o] = tail[Key(o)]]
  /\ tail' = [tail EXCEPT ![Key(o)] = o]
  /\ ahead' = [ahead EXCEPT ![o] = { p \in Op : key[p] = Key(o) /\ ~Settled(p) }]
  /\ UNCHANGED <<content, body, base, outcome, aborted, log, disturbed>>

\* A call's promise is chained to the one before it, so it has resolved when the
\* call has been released.
Released(o) == call[o] = "returned"

\* Mutant: a call does not wait for the one it is chained to.
NeverWaits(o) == TRUE

QueueResolved(o) == awaits[o] # None => Released(awaits[o])

Reject(o) == outcome' = [outcome EXCEPT ![o] = "error"]

\* fn(): a signal that is aborted already rejects, and nothing is done.
Enter(o) ==
  /\ call[o] = "waiting" /\ QueueResolved(o)
  /\ IF Aborted(o)
     THEN /\ call' = [call EXCEPT ![o] = "settled"]
          /\ Reject(o)
          /\ UNCHANGED body
     ELSE /\ call' = [call EXCEPT ![o] = "running"]
          /\ body' = [body EXCEPT ![o] = "opening"]
          /\ UNCHANGED outcome
  /\ UNCHANGED <<content, tail, key, awaits, base, aborted, ahead, log, disturbed>>

\* Mutant: whoever leaves deletes the key, also when another call has queued.
DeletesAlways(o) == TRUE

IsTail(o) == tail[key[o]] = o

\* Mutant: a call that failed does not release the next one.
ReleasesOnSuccess(o) == call[o] = "settled" /\ outcome[o] = "ok"

Leaves(o) == call[o] = "settled"

\* The finally block.
Release(o) ==
  /\ Leaves(o)
  /\ call' = [call EXCEPT ![o] = "returned"]
  /\ tail' = IF IsTail(o) THEN [tail EXCEPT ![key[o]] = None] ELSE tail
  /\ UNCHANGED <<content, key, awaits, body, base, outcome, aborted, ahead, log, disturbed>>

(***************************************************************************)
(* The tools.  A body whose promise was rejected by an abort finds that    *)
(* out after its current file operation, and returns.                      *)
(***************************************************************************)
GivenUp(o) == call[o] # "running"

\* The body ends, and its promise, unless it was rejected, settles.
EndBody(o, result) ==
  /\ body' = [body EXCEPT ![o] = "over"]
  /\ IF GivenUp(o)
     THEN UNCHANGED <<call, outcome>>
     ELSE /\ call' = [call EXCEPT ![o] = "settled"]
          /\ outcome' = [outcome EXCEPT ![o] = result]

\* access() of an edit, mkdir() of a write.
Opened(o) ==
  /\ body[o] = "opening"
  /\ IF GivenUp(o) \/ (Kind[o] = "edit" /\ content[File(o)] = Missing)
     THEN EndBody(o, "error")
     ELSE /\ body' = [body EXCEPT ![o] = IF Kind[o] = "edit" THEN "reading" ELSE "writing"]
          /\ UNCHANGED <<call, outcome>>
  /\ UNCHANGED <<content, tail, key, awaits, base, aborted, ahead, log, disturbed>>

\* Mutant: an edit of a file that holds no text finds its old text all the same.
FoundAnywhere(o) == TRUE

\* Old text that is not empty is not found in a file that was just truncated.
MayMatch(o) == content[File(o)] # Torn

\* readFile() has returned.  Whether the old text is there, once, is data.
ReadDone(o) ==
  /\ body[o] = "reading"
  /\ \/ /\ ~GivenUp(o) /\ MayMatch(o)
        /\ base' = [base EXCEPT ![o] = content[File(o)]]
        /\ body' = [body EXCEPT ![o] = "writing"]
        /\ UNCHANGED <<call, outcome>>
     \/ /\ EndBody(o, "error")
        /\ UNCHANGED base
  /\ UNCHANGED <<content, tail, key, awaits, aborted, ahead, log, disturbed>>

\* writeFile() opens the file, which truncates it, and then fills it.
Truncate(o) ==
  /\ body[o] = "writing"
  /\ content' = [content EXCEPT ![File(o)] = Torn]
  /\ body' = [body EXCEPT ![o] = "filling"]
  /\ UNCHANGED <<tail, key, awaits, call, base, outcome, aborted, ahead, log, disturbed>>

Written(o) == Append(base[o], o)

Fill(o) ==
  /\ body[o] = "filling"
  /\ content' = [content EXCEPT ![File(o)] = Written(o)]
  /\ EndBody(o, "ok")
  /\ log' = IF GivenUp(o) THEN log ELSE [log EXCEPT ![File(o)] = Append(@, o)]
  /\ UNCHANGED <<tail, key, awaits, base, aborted, ahead, disturbed>>

\* The file system refuses to open the file, or to fill it.
WriteFails(o) ==
  /\ body[o] \in {"writing", "filling"}
  /\ EndBody(o, "error")
  /\ disturbed' = disturbed \cup {File(o)}
  /\ UNCHANGED <<content, tail, key, awaits, base, aborted, ahead, log>>

\* The user, or the loop's watchdog, aborts a run: the promises of the bodies
\* that run under its signal are rejected at once.
Abort(r) ==
  /\ r \notin aborted
  /\ aborted' = aborted \cup {r}
  /\ LET hit == { o \in Op : Run[o] = r /\ call[o] = "running" }
     IN  /\ call' = [o \in Op |-> IF o \in hit THEN "settled" ELSE call[o]]
         /\ outcome' = [o \in Op |-> IF o \in hit THEN "error" ELSE outcome[o]]
         /\ disturbed' = disturbed \cup { File(o) : o \in hit }
  /\ UNCHANGED <<content, tail, key, awaits, body, base, ahead, log>>

Body(o) == Opened(o) \/ ReadDone(o) \/ Truncate(o) \/ Fill(o) \/ WriteFails(o)
Runs == { Run[o] : o \in Op }

Next == \/ \E o \in Op : Enqueue(o) \/ Enter(o) \/ Release(o) \/ Body(o)
        \/ \E r \in Runs : Abort(r)

\* Promises that have resolved resume who awaits them, and the file system answers.
Spec == /\ Init /\ [][Next]_vars
        /\ \A o \in Op : WF_vars(Enter(o)) /\ WF_vars(Release(o)) /\ WF_vars(Body(o))

(***************************************************************************)
(* Properties.                                                             *)
(***************************************************************************)
TypeOK ==
  /\ content \in [Path -> Seq(Op) \cup {Missing, Torn}]
  /\ tail \in [Path -> Op \cup {None}]
  /\ key \in [Op -> Path \cup {None}]
  /\ awaits \in [Op -> Op \cup {None}]
  /\ call \in [Op -> {"idle", "waiting", "running", "settled", "returned"}]
  /\ body \in [Op -> {"none", "opening", "reading", "writing", "filling", "over"}]
  /\ base \in [Op -> Seq(Op)]
  /\ outcome \in [Op -> {"none", "ok", "error"}]
  /\ aborted \subseteq Runs
  /\ ahead \in [Op -> SUBSET Op]
  /\ log \in [Path -> Seq(Op)]
  /\ disturbed \subseteq Path

\* Two calls under one key never run their bodies at the same time.
Serialized ==
  \A o, p \in Op : o # p /\ key[o] = key[p] => ~(call[o] = "running" /\ call[p] = "running")

\* The calls of one key run one at a time, whoever fails, is aborted, or leaves while a
\* third is queueing, and in the order they were made: a body starts when all that were
\* queued before it have returned.
InCallOrder ==
  /\ Serialized
  /\ \A o \in Op : call[o] \in {"running", "settled"} => \A p \in ahead[o] : call[p] = "returned"

InBody(o) == body[o] \notin {"none", "over"}

\* What the calls that succeeded make of a file that did not exist or was empty.
Effect(done) ==
  LET writes == { i \in DOMAIN done : Kind[done[i]] = "write" }
      from == IF writes = {} THEN 1 ELSE CHOOSE i \in writes : \A j \in writes : j <= i
  IN  SubSeq(done, from, Len(done))

\* While no body is at work on it, a file holds the effects of exactly the calls
\* that reported success, none of them lost, unless a change of it was cut off or
\* calls queued for it under different keys.
OneKey(f) == \A o, p \in Op :
  File(o) = f /\ File(p) = f /\ key[o] # None /\ key[p] # None => key[o] = key[p]
FileHoldsSuccesses ==
  \A f \in { File(o) : o \in Op } :
    (f \notin disturbed /\ OneKey(f) /\ \A o \in Op : File(o) = f => ~InBody(o))
      => content[f] = Effect(log[f]) \/ (content[f] = Missing /\ log[f] = <<>>)

\* A key is in fileMutationQueues only while some call is queued under it.
QueueMapDrains ==
  \A p \in Path : tail[p] # None => \E o \in Op : key[o] = p /\ ~Settled(o)

\* Every call returns, after whatever the calls before it did.
EveryCallReturns == \A o \in Op : call[o] = "waiting" ~> call[o] = "returned"

\* "Serialize file mutation operations targeting the same file": no two calls have
\* a write of one file in flight.
Writing(o) == body[o] \in {"writing", "filling"}
MutationsSerialized ==
  \A o, p \in Op : o # p /\ File(o) = File(p) => ~(Writing(o) /\ Writing(p))
=============================================================================
