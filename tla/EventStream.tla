----------------------------- MODULE EventStream -----------------------------
(***************************************************************************)
(* ai/src/utils/event-stream.ts: the queue between a producer of events    *)
(* (a provider's stream, the agent loop) and the "for await" loops that    *)
(* consume them.  push and end run to completion; a consumer's step is one *)
(* turn of the async iterator, and a consumer that waits is resumed in a   *)
(* later microtask than the push that served it.                           *)
(***************************************************************************)
EXTENDS Naturals, Sequences

CONSTANTS Consumers,   \* the "for await" loops over the stream
          Event,       \* the events a producer pushes
          Complete,    \* the events isComplete holds of
          None,        \* no value: an unsettled promise, a resumed waiter told "done"
          MaxPush      \* bound: calls of push

ASSUME EventStreamAssumption ==
  /\ Complete \subseteq Event
  /\ None \notin Event
  /\ MaxPush \in Nat

VARIABLES queue,       \* this.queue
          waiting,     \* this.waiting, as the consumers whose resolvers are in it
          done,        \* this.done
          final,       \* what finalResultPromise resolved to
          at,          \* where each consumer's iterator is suspended
          resumed,     \* the value a served waiter will resume with
          sent,        \* history: the events push did not ignore
          taken,       \* history: how many of them a consumer holds or has held
          ended        \* history: end() was called

vars == <<queue, waiting, done, final, at, resumed, sent, taken, ended>>

At == {"next", "waiting", "resumed", "returned"}

Init == /\ queue = <<>>
        /\ waiting = <<>>
        /\ done = FALSE
        /\ final = None
        /\ at = [c \in Consumers |-> "next"]
        /\ resumed = [c \in Consumers |-> None]
        /\ sent = <<>>
        /\ taken = 0
        /\ ended = FALSE

\* Mutant: any event is taken for the last one.
EveryEventCompletes(e) == TRUE

IsComplete(e) == e \in Complete

\* Mutant: push no longer looks at done.
AcceptsForever == TRUE

Accepts == ~done

\* A promise keeps the first value it is resolved with.
Settle(v) == final' = IF final = None THEN v ELSE final

\* Mutant: the event is queued although a consumer waits for it.
QueueAlways(e) ==
  /\ queue' = Append(queue, e)
  /\ UNCHANGED <<waiting, at, resumed, taken>>

DeliverOrQueue(e) ==
  \/ /\ waiting # <<>>
     /\ waiting' = Tail(waiting)
     /\ at' = [at EXCEPT ![Head(waiting)] = "resumed"]
     /\ resumed' = [resumed EXCEPT ![Head(waiting)] = e]
     /\ taken' = taken + 1
     /\ UNCHANGED queue
  \/ /\ waiting = <<>>
     /\ queue' = Append(queue, e)
     /\ UNCHANGED <<waiting, at, resumed, taken>>

\* push(event).  A push on a stream that is done is ignored, and is no step.
Push(e) ==
  /\ Len(sent) < MaxPush
  /\ Accepts
  /\ IF IsComplete(e) THEN done' = TRUE /\ Settle(e) ELSE UNCHANGED <<done, final>>
  /\ DeliverOrQueue(e)
  /\ sent' = Append(sent, e)
  /\ UNCHANGED ended

\* Mutant: end() wakes the first waiter only.
WakeFirst == /\ waiting # <<>>
             /\ waiting' = Tail(waiting)
             /\ at' = [at EXCEPT ![Head(waiting)] = "resumed"]

WakeAll == /\ waiting' = <<>>
           /\ at' = [c \in Consumers |-> IF at[c] = "waiting" THEN "resumed" ELSE at[c]]

\* end(result?): every waiter resumes with "done".
End(r) ==
  /\ done' = TRUE
  /\ ended' = TRUE
  /\ IF r # None THEN Settle(r) ELSE UNCHANGED final
  /\ WakeAll
  /\ UNCHANGED <<queue, resumed, sent, taken>>

\* One turn of the iterator's loop: take from the queue, or return, or wait.
IteratorNext(c) ==
  /\ at[c] = "next"
  /\ \/ /\ queue # <<>>
        /\ queue' = Tail(queue)
        /\ taken' = taken + 1
        /\ UNCHANGED <<waiting, at>>
     \/ /\ queue = <<>> /\ done
        /\ at' = [at EXCEPT ![c] = "returned"]
        /\ UNCHANGED <<queue, waiting, taken>>
     \/ /\ queue = <<>> /\ ~done
        /\ waiting' = Append(waiting, c)
        /\ at' = [at EXCEPT ![c] = "waiting"]
        /\ UNCHANGED <<queue, taken>>
  /\ UNCHANGED <<done, final, resumed, sent, ended>>

\* The waiter's promise has resolved: yield its value, or return on "done".
IteratorResume(c) ==
  /\ at[c] = "resumed"
  /\ at' = [at EXCEPT ![c] = IF resumed[c] = None THEN "returned" ELSE "next"]
  /\ resumed' = [resumed EXCEPT ![c] = None]
  /\ UNCHANGED <<queue, waiting, done, final, sent, taken, ended>>

Next == \/ \E e \in Event : Push(e)
        \/ \E r \in Complete \cup {None} : End(r)
        \/ \E c \in Consumers : IteratorNext(c) \/ IteratorResume(c)

\* The consumers run whenever they can; a producer owes nothing.
Spec == /\ Init /\ [][Next]_vars
        /\ \A c \in Consumers : WF_vars(IteratorNext(c) \/ IteratorResume(c))

(***************************************************************************)
(* Properties.                                                             *)
(***************************************************************************)
TypeOK == /\ queue \in Seq(Event)
          /\ waiting \in Seq(Consumers)
          /\ done \in BOOLEAN /\ ended \in BOOLEAN
          /\ final \in Complete \cup {None}
          /\ at \in [Consumers -> At]
          /\ resumed \in [Consumers -> Event \cup {None}]
          /\ sent \in Seq(Event)
          /\ taken \in Nat

\* No consumer waits while an event is queued for it (push serves a waiter
\* before it queues; the iterator waits only on an empty queue).
NoWaiterBesideEvent == waiting # <<>> => queue = <<>>

\* What left the stream and what is still queued are together exactly what
\* push accepted: the queue is always the untaken rest of it, in order.
QueueIsUntaken == /\ taken <= Len(sent)
                  /\ queue = SubSeq(sent, taken + 1, Len(sent))

\* A stream completed by an event resolves result() with that event, which is
\* the last it accepts: nothing can follow the "done" of a provider's stream.
ResultIsLastEvent ==
  \A i \in 1..Len(sent) : sent[i] \in Complete => i = Len(sent) /\ final = sent[i]

\* Once end() was called no consumer is left waiting: each drains the queue
\* and returns, whatever the order of pushes, ends and resumptions.
EndStopsConsumers == ended ~> (queue = <<>> /\ \A c \in Consumers : at[c] = "returned")

\* The stream implements the channel.
AbstractChannel == INSTANCE Channel WITH closed <- done
ImplementsChannel == AbstractChannel!Spec
=============================================================================
