---------------------------- MODULE RepliesProofs ----------------------------
(***************************************************************************)
(* Proofs about EventStream, for any number of consumers and of pushes:    *)
(* its invariants, and that every step of it is a step of the channel or   *)
(* changes nothing the channel shows.  Then about SocketCache and          *)
(* RequestRetry, which MCReplies has beside it, for any number of          *)
(* requests, connections, retries and endpoints; and that the reader of    *)
(* ReplyStream rebuilds the message of any provider, the events it reads   *)
(* being a reply, for any number of events.                                *)
(***************************************************************************)
EXTENDS InteractiveProofs

\* The rest of a sequence after its first n elements.
RestAfter(s, n) == SubSeq(s, n + 1, Len(s))

\* Taking the first element of a rest leaves the next rest.
LEMMA TailOfRest ==
  ASSUME NEW S, NEW s \in Seq(S), NEW n \in Nat, n < Len(s)
  PROVE  /\ RestAfter(s, n) # <<>>
         /\ Tail(RestAfter(s, n)) = RestAfter(s, n + 1)
  <1>1. Len(RestAfter(s, n)) = Len(s) - n
    BY SubSeqProperties DEF RestAfter
  <1>2. Tail(SubSeq(s, n + 1, Len(s))) = SubSeq(s, (n + 1) + 1, Len(s))
    BY HeadTailOfSubSeq
  <1>3. RestAfter(s, n) # <<>>
    BY <1>1
  <1>4. Tail(RestAfter(s, n)) = RestAfter(s, n + 1)
    BY <1>2, Zenon DEF RestAfter
  <1>5. QED
    BY <1>3, <1>4

\* Appending to a sequence appends to its rest.
LEMMA AppendToRest ==
  ASSUME NEW S, NEW s \in Seq(S), NEW e \in S, NEW n \in Nat, n <= Len(s)
  PROVE  RestAfter(Append(s, e), n) = Append(RestAfter(s, n), e)
  <1> DEFINE t == Append(s, e)
             r == RestAfter(t, n)
             q == Append(RestAfter(s, n), e)
  <1>1. /\ t \in Seq(S) /\ Len(t) = Len(s) + 1
        /\ \A i \in 1..Len(s) : t[i] = s[i]
        /\ t[Len(s) + 1] = e
    OBVIOUS
  <1>2. r \in Seq(S) /\ Len(r) = Len(s) + 1 - n
        /\ \A i \in 1..(Len(s) + 1 - n) : r[i] = t[n + i]
    <2>1. \A i \in (n + 1)..Len(t) : t[i] \in S
      BY <1>1
    <2>2. QED
      BY <1>1, <2>1, SubSeqProperties DEF RestAfter
  <1>3. RestAfter(s, n) \in Seq(S) /\ Len(RestAfter(s, n)) = Len(s) - n
        /\ \A i \in 1..(Len(s) - n) : RestAfter(s, n)[i] = s[n + i]
    <2>1. \A i \in (n + 1)..Len(s) : s[i] \in S
      OBVIOUS
    <2>2. QED
      BY <2>1, SubSeqProperties DEF RestAfter
  <1>4. /\ q \in Seq(S) /\ Len(q) = Len(s) + 1 - n
        /\ \A i \in 1..(Len(s) - n) : q[i] = s[n + i]
        /\ q[Len(s) + 1 - n] = e
    BY <1>3
  <1> HIDE DEF t, r, q
  <1>5. ASSUME NEW i \in 1..Len(r) PROVE r[i] = q[i]
    <2>1. i \in Int /\ n \in Nat /\ Len(s) \in Nat /\ i \in 1..(Len(s) + 1 - n)
      BY <1>2
    <2>2. r[i] = t[n + i]
      BY <1>2, <2>1
    <2>3. CASE i \in 1..(Len(s) - n)
      <3>1. n + i \in 1..Len(s)
        BY <2>1, <2>3
      <3>2. t[n + i] = s[n + i]
        BY <1>1, <3>1
      <3>3. q[i] = s[n + i]
        BY <1>4, <2>3
      <3>4. QED
        BY <2>2, <3>2, <3>3, Zenon
    <2>4. CASE i = Len(s) + 1 - n
      <3>1. n + i = Len(s) + 1
        BY <2>1, <2>4
      <3>2. r[i] = e
        BY <1>1, <2>2, <3>1
      <3>3. q[i] = e
        BY <1>4, <2>4
      <3>4. QED
        BY <3>2, <3>3, Zenon
    <2>5. n <= Len(s) /\ (i <= Len(s) - n \/ i = Len(s) + 1 - n)
      BY <2>1
    <2>6. QED
      BY <2>1, <2>3, <2>4, <2>5
  <1>6. r = q
    BY <1>2, <1>4, <1>5, SeqEqual
  <1>7. QED
    BY <1>6 DEF r, q, t

LEMMA InitEstablishes == Init => IInv
  <1> SUFFICES ASSUME Init PROVE IInv
    OBVIOUS
  <1>1. TypeOK
    <2>1. queue \in Seq(Event) /\ waiting \in Seq(Consumers) /\ sent \in Seq(Event)
      BY EmptySeq DEF Init
    <2>2. at \in [Consumers -> At] /\ resumed \in [Consumers -> Event \cup {None}]
      BY DEF Init, At
    <2>3. done \in BOOLEAN /\ ended \in BOOLEAN /\ final \in Complete \cup {None}
          /\ taken \in Nat
      BY DEF Init
    <2>4. QED
      BY <2>1, <2>2, <2>3 DEF TypeOK
  <1>2. SubSeq(<<>>, 0 + 1, Len(<<>>)) = <<>>
    <2>1. Len(<<>>) = 0
      OBVIOUS
    <2>2. SubSeq(<<>>, 1, 0) = <<>>
      BY SubSeqEmpty
    <2>3. QED
      BY <2>1, <2>2
  <1>3. QueueIsUntaken /\ NoWaiterBesideEvent
    BY <1>2 DEF Init, QueueIsUntaken, NoWaiterBesideEvent
  <1>4. QED
    BY <1>1, <1>3 DEF IInv

\* A push keeps the invariant: the event goes to a waiter exactly when nothing
\* is queued, and to the end of the queue exactly when nobody waits.
LEMMA PushPreserves ==
  ASSUME IInv, NEW e \in Event, Push(e)
  PROVE  IInv'
  <1> USE EventStreamAssumption
  <1>1. sent' = Append(sent, e) /\ sent' \in Seq(Event) /\ Len(sent') = Len(sent) + 1
    BY DEF Push, IInv, TypeOK
  <1>2. done' \in BOOLEAN /\ ended' \in BOOLEAN /\ final' \in Complete \cup {None}
    BY DEF Push, IsComplete, Settle, IInv, TypeOK
  <1>3. queue = RestAfter(sent, taken) /\ taken \in Nat /\ taken <= Len(sent)
    BY DEF IInv, TypeOK, QueueIsUntaken, RestAfter
  <1>4. CASE waiting # <<>>
    <2>1. /\ waiting' = Tail(waiting)
          /\ at' = [at EXCEPT ![Head(waiting)] = "resumed"]
          /\ resumed' = [resumed EXCEPT ![Head(waiting)] = e]
          /\ taken' = taken + 1
          /\ queue' = queue
      BY <1>4 DEF Push, DeliverOrQueue
    <2>2. queue = <<>>
      BY <1>4 DEF IInv, NoWaiterBesideEvent
    <2>3. taken = Len(sent)
      <3>1. CASE taken < Len(sent)
        BY <1>3, <2>2, <3>1, TailOfRest DEF IInv, TypeOK
      <3>2. QED
        BY <1>3, <3>1 DEF IInv, TypeOK
    <2>4. SubSeq(sent', taken' + 1, Len(sent')) = <<>>
      BY <1>1, <2>1, <2>3, SubSeqEmpty DEF IInv, TypeOK
    <2>5. TypeOK'
      BY <1>1, <1>2, <1>4, <2>1 DEF IInv, TypeOK, At
    <2>6. QED
      BY <1>1, <2>1, <2>2, <2>3, <2>4, <2>5 DEF IInv, TypeOK, QueueIsUntaken, NoWaiterBesideEvent
  <1>5. CASE waiting = <<>>
    <2>1. queue' = Append(queue, e) /\ UNCHANGED <<waiting, at, resumed, taken>>
      BY <1>5 DEF Push, DeliverOrQueue
    <2>2. queue' = RestAfter(sent', taken')
      BY <1>1, <1>3, <2>1, AppendToRest DEF IInv, TypeOK
    <2>3. TypeOK'
      BY <1>1, <1>2, <2>1 DEF IInv, TypeOK
    <2>4. taken' <= Len(sent')
      BY <1>1, <1>3, <2>1 DEF IInv, TypeOK
    <2>5. QueueIsUntaken'
      BY <2>2, <2>4 DEF QueueIsUntaken, RestAfter
    <2>6. NoWaiterBesideEvent'
      BY <1>5, <2>1 DEF NoWaiterBesideEvent
    <2>7. QED
      BY <2>3, <2>5, <2>6 DEF IInv
  <1>6. QED
    BY <1>4, <1>5

\* end() empties the list of waiters and touches neither events nor counts.
LEMMA EndPreserves ==
  ASSUME IInv, NEW r \in Complete \cup {None}, End(r)
  PROVE  IInv'
  BY EventStreamAssumption
  DEF IInv, TypeOK, At, QueueIsUntaken, NoWaiterBesideEvent, End, WakeAll, Settle

\* A turn of the iterator takes the head of the queue, or leaves it alone.
LEMMA IteratorPreserves ==
  ASSUME IInv, NEW c \in Consumers, IteratorNext(c) \/ IteratorResume(c)
  PROVE  IInv'
  <1> USE EventStreamAssumption
  <1>1. queue = RestAfter(sent, taken) /\ taken \in Nat /\ taken <= Len(sent)
    BY DEF IInv, TypeOK, QueueIsUntaken, RestAfter
  <1>2. CASE IteratorNext(c) /\ queue # <<>>
    <2>1. queue' = Tail(queue) /\ taken' = taken + 1
          /\ UNCHANGED <<waiting, at, done, final, resumed, sent, ended>>
      BY <1>2 DEF IteratorNext
    <2>2. taken < Len(sent)
      <3>1. CASE taken = Len(sent)
        BY <1>1, <1>2, <3>1, SubSeqEmpty DEF RestAfter, IInv, TypeOK
      <3>2. QED
        BY <1>1, <3>1 DEF IInv, TypeOK
    <2>3. queue' = RestAfter(sent', taken')
      BY <1>1, <2>1, <2>2, TailOfRest DEF IInv, TypeOK
    <2>4. waiting = <<>>
      BY <1>2 DEF IInv, NoWaiterBesideEvent
    <2>5. TypeOK'
      BY <1>2, <2>1 DEF IInv, TypeOK
    <2>6. QED
      BY <1>1, <2>1, <2>2, <2>3, <2>4, <2>5
      DEF IInv, TypeOK, QueueIsUntaken, NoWaiterBesideEvent, RestAfter
  <1>3. CASE IteratorNext(c) /\ queue = <<>>
    <2>1. queue' = <<>> /\ UNCHANGED <<queue, taken, done, final, resumed, sent, ended>>
      BY <1>3 DEF IteratorNext
    <2>2. waiting' \in Seq(Consumers) /\ at' \in [Consumers -> At]
      <3>1. waiting \in Seq(Consumers) /\ at \in [Consumers -> At]
        BY DEF IInv, TypeOK
      <3>2. "returned" \in At /\ "waiting" \in At
        BY DEF At
      <3>3. CASE done
        BY <1>3, <3>1, <3>2, <3>3 DEF IteratorNext
      <3>4. CASE ~done
        <4>1. waiting' = Append(waiting, c) /\ at' = [at EXCEPT ![c] = "waiting"]
          BY <1>3, <3>4 DEF IteratorNext
        <4>2. waiting' \in Seq(Consumers)
          BY <3>1, <4>1
        <4>3. at' \in [Consumers -> At]
          BY <3>1, <3>2, <4>1, Zenon
        <4>4. QED
          BY <4>2, <4>3
      <3>5. QED
        BY <3>3, <3>4
    <2>3. TypeOK'
      BY <2>1, <2>2 DEF IInv, TypeOK
    <2>4. QueueIsUntaken' /\ NoWaiterBesideEvent'
      BY <2>1 DEF IInv, QueueIsUntaken, NoWaiterBesideEvent
    <2>5. QED
      BY <2>3, <2>4 DEF IInv
  <1>4. CASE IteratorResume(c)
    BY <1>4 DEF IteratorResume, IInv, TypeOK, At, QueueIsUntaken, NoWaiterBesideEvent
  <1>5. QED
    BY <1>2, <1>3, <1>4

LEMMA NextPreserves == IInv /\ [Next]_vars => IInv'
  <1> SUFFICES ASSUME IInv, [Next]_vars PROVE IInv'
    OBVIOUS
  <1>1. ASSUME NEW e \in Event, Push(e) PROVE IInv'
    BY <1>1, PushPreserves
  <1>2. ASSUME NEW r \in Complete \cup {None}, End(r) PROVE IInv'
    BY <1>2, EndPreserves
  <1>3. ASSUME NEW c \in Consumers, IteratorNext(c) \/ IteratorResume(c) PROVE IInv'
    BY <1>3, IteratorPreserves
  <1>4. CASE UNCHANGED vars
    BY <1>4 DEF vars, IInv, TypeOK, QueueIsUntaken, NoWaiterBesideEvent
  <1>5. QED
    BY <1>1, <1>2, <1>3, <1>4 DEF Next

\* Every reachable state satisfies the inductive invariant.
THEOREM Invariance == Spec => []IInv
  BY InitEstablishes, NextPreserves, PTL DEF Spec

\* Type correctness of the stream's state.
THEOREM TypeCorrect == Spec => []TypeOK
  <1>1. IInv => TypeOK
    BY DEF IInv
  <1>2. QED
    BY <1>1, Invariance, PTL

\* push and the iterator never leave a consumer waiting beside a queued event.
THEOREM NeverWaitsBesideEvent == Spec => []NoWaiterBesideEvent
  <1>1. IInv => NoWaiterBesideEvent
    BY DEF IInv
  <1>2. QED
    BY <1>1, Invariance, PTL

\* No event is lost, duplicated or reordered between push and the consumers, whatever
\* else goes on beside them.
THEOREM Fifo == SpecReplies => []QueueIsUntaken
  <1>1. InitReplies => IInv
    BY InitEstablishes DEF InitReplies
  <1>2. IInv /\ [NextReplies]_allVars => IInv'
    <2>1. [NextReplies]_allVars => [Next]_vars
      BY DEF NextReplies, allVars
    <2>2. QED
      BY <2>1, NextPreserves
  <1>3. IInv => QueueIsUntaken
    BY DEF IInv
  <1>4. QED
    BY <1>1, <1>2, <1>3, PTL DEF SpecReplies

\* Every step of the stream is a step of the channel, or changes nothing the
\* channel shows (the safety part of ImplementsChannel).
THEOREM RefinesChannel == Spec => AbstractChannel!SafeSpec
  <1>1. Init => AbstractChannel!Init
    BY DEF Init, AbstractChannel!Init
  <1>2. IInv /\ [Next]_vars => [AbstractChannel!Next]_(AbstractChannel!vars)
    <2> SUFFICES ASSUME IInv, [Next]_vars
                 PROVE  [AbstractChannel!Next]_(AbstractChannel!vars)
      OBVIOUS
    <2>1. queue = RestAfter(sent, taken) /\ taken \in Nat /\ taken <= Len(sent)
          /\ sent \in Seq(Event) /\ Len(sent) \in Nat
      BY DEF IInv, TypeOK, QueueIsUntaken, RestAfter
    <2>2. ASSUME NEW e \in Event, Push(e) PROVE AbstractChannel!Next
      <3>1. ~done /\ done' \in BOOLEAN /\ sent' = Append(sent, e)
        BY <2>2 DEF Push, Accepts, IsComplete, IInv, TypeOK
      <3>2. CASE waiting # <<>>
        <4>1. queue = <<>> /\ taken' = taken + 1
          BY <2>2, <3>2 DEF IInv, NoWaiterBesideEvent, Push, DeliverOrQueue
        <4>2. taken = Len(sent)
          <5>1. CASE taken < Len(sent)
            BY <2>1, <4>1, <5>1, TailOfRest
          <5>2. QED
            BY <2>1, <5>1
        <4>3. AbstractChannel!Send(e, TRUE, done')
          BY <3>1, <4>1, <4>2 DEF AbstractChannel!Send
        <4>4. QED
          BY <3>1, <4>3 DEF AbstractChannel!Next
      <3>3. CASE waiting = <<>>
        <4>1. taken' = taken
          BY <2>2, <3>3 DEF Push, DeliverOrQueue
        <4>2. AbstractChannel!Send(e, FALSE, done')
          BY <3>1, <4>1 DEF AbstractChannel!Send
        <4>3. QED
          BY <3>1, <4>2 DEF AbstractChannel!Next
      <3>4. QED
        BY <3>2, <3>3
    <2>3. ASSUME NEW r \in Complete \cup {None}, End(r) PROVE AbstractChannel!Next
      BY <2>3 DEF End, AbstractChannel!Next, AbstractChannel!Close
    <2>4. ASSUME NEW c \in Consumers, IteratorNext(c), queue # <<>> PROVE AbstractChannel!Next
      <3>1. taken < Len(sent)
        <4>1. CASE taken = Len(sent)
          BY <2>1, <2>4, <4>1, SubSeqEmpty DEF RestAfter
        <4>2. QED
          BY <2>1, <4>1
      <3>2. QED
        BY <2>4, <3>1 DEF IteratorNext, AbstractChannel!Next, AbstractChannel!Take
    <2>5. ASSUME NEW c \in Consumers, IteratorNext(c), queue = <<>>
          PROVE  UNCHANGED AbstractChannel!vars
      BY <2>5 DEF IteratorNext, AbstractChannel!vars
    <2>6. ASSUME NEW c \in Consumers, IteratorResume(c) PROVE UNCHANGED AbstractChannel!vars
      BY <2>6 DEF IteratorResume, AbstractChannel!vars
    <2>7. CASE UNCHANGED vars
      BY <2>7 DEF vars, AbstractChannel!vars
    <2>8. QED
      BY <2>2, <2>3, <2>4, <2>5, <2>6, <2>7 DEF Next
  <1>3. QED
    BY <1>1, <1>2, Invariance, PTL DEF Spec, AbstractChannel!SafeSpec

(***************************************************************************)
(* Connections.                                                            *)
(***************************************************************************)
LEMMA SocketsBegin == C!Init => SocketInv
BY DEF C!Init, C!NoSocket, C!Socket, SocketInv, SocketTypes, Numbered, OneRequest, BusyIsUsed,
       Holds, Uses

\* A new socket is one that nobody holds.
LEMMA ConnectKeeps ==
  ASSUME SocketInv, NEW r \in Request, NEW kind \in {"own", "entered"}, NEW sockets,
         ~Holds(r), C!Connect(r, kind, sockets),
         \/ sockets = state /\ cache' = cache
         \/ cache \in C!Socket /\ sockets = C!Closed(cache) /\ cache' = C!NoSocket,
         busy' = busy, timer' \in [C!Socket -> BOOLEAN],
         \A s \in C!Socket :
           timer'[s] = timer[s] \/ (s = cache /\ (busy[s] \/ sockets = C!Closed(s)))
  PROVE  SocketInv'
<1> USE DEF C!Socket, C!NoSocket, C!Closed
<1>1. opened + 1 \in C!Socket /\ opened' = opened + 1
  BY RepliesAssumption DEF C!Connect, SocketInv, SocketTypes
<1>2. SocketTypes'
  BY <1>1 DEF C!Connect, SocketInv, SocketTypes
<1>3. Numbered'
  BY <1>1, <1>2 DEF C!Connect, SocketInv, SocketTypes, Numbered, Holds
<1>4. OneRequest'
  BY <1>1, <1>2 DEF C!Connect, SocketInv, SocketTypes, Numbered, OneRequest, Holds
<1>5. BusyIsUsed'
  BY <1>1, <1>2 DEF C!Connect, SocketInv, SocketTypes, Numbered, BusyIsUsed, Holds, Uses
<1> QED BY <1>2, <1>3, <1>4, <1>5 DEF SocketInv

LEMMA SocketsStep == SocketInv /\ [C!Next]_C!vars => SocketInv'
<1> SUFFICES ASSUME SocketInv, [C!Next]_C!vars PROVE SocketInv'
  OBVIOUS
<1> USE DEF C!Socket, C!NoSocket
<1>1. ASSUME NEW r \in Request, C!AcquireNew(r) PROVE SocketInv'
  <2>1. ~Holds(r) /\ C!Connect(r, "entered", state)
    BY <1>1 DEF C!AcquireNew, Holds
  <2>2. timer' \in [C!Socket -> BOOLEAN] /\ busy' = busy
    BY <1>1 DEF C!AcquireNew, SocketInv, SocketTypes
  <2>3. \A s \in C!Socket : timer'[s] = timer[s] \/ (s = cache /\ (busy[s] \/ state = C!Closed(s)))
    BY <1>1 DEF C!AcquireNew
  <2>4. cache' = cache
    BY <1>1 DEF C!AcquireNew, SocketInv, Numbered
  <2> QED BY <2>1, <2>2, <2>3, <2>4, ConnectKeeps
<1>2. ASSUME NEW r \in Request, C!AcquireBeside(r) PROVE SocketInv'
  <2>1. ~Holds(r) /\ C!Connect(r, "own", state)
    BY <1>2 DEF C!AcquireBeside, Holds
  <2>2. timer' \in [C!Socket -> BOOLEAN] /\ busy' = busy
    BY <1>2 DEF C!AcquireBeside, SocketInv, SocketTypes
  <2>3. \A s \in C!Socket : timer'[s] = timer[s] \/ (s = cache /\ (busy[s] \/ state = C!Closed(s)))
    BY <1>2 DEF C!AcquireBeside, SocketInv, SocketTypes
  <2>4. cache' = cache
    BY <1>2 DEF C!AcquireBeside, SocketInv, Numbered
  <2> QED BY <2>1, <2>2, <2>3, <2>4, ConnectKeeps
<1>3. ASSUME NEW r \in Request, C!AcquireAfter(r) PROVE SocketInv'
  <2>1. ~Holds(r) /\ C!Connect(r, "entered", C!Closed(cache))
    BY <1>3 DEF C!AcquireAfter, Holds
  <2>2. timer' \in [C!Socket -> BOOLEAN] /\ busy' = busy
    BY <1>3 DEF C!AcquireAfter, SocketInv, SocketTypes
  <2>3. \A s \in C!Socket :
          timer'[s] = timer[s] \/ (s = cache /\ (busy[s] \/ C!Closed(cache) = C!Closed(s)))
    <3>1. timer' = [timer EXCEPT ![cache] = FALSE]
      BY <1>3 DEF C!AcquireAfter
    <3>2. timer \in [C!Socket -> BOOLEAN]
      BY DEF SocketInv, SocketTypes
    <3> QED BY <3>1, <3>2
  <2>4. cache \in C!Socket /\ cache' = C!NoSocket
    BY <1>3 DEF C!AcquireAfter, SocketInv, Numbered
  <2> QED BY <2>1, <2>2, <2>3, <2>4, ConnectKeeps
<1>4. ASSUME NEW r \in Request, C!AcquireCached(r) PROVE SocketInv'
  <2> USE <1>4 DEF C!AcquireCached, C!Closed, C!Timed, C!Reusable, C!Free
  <2>1. SocketTypes'
    BY DEF SocketInv, SocketTypes
  <2>2. Numbered'
    BY DEF SocketInv, SocketTypes, Numbered, Holds
  <2>3. OneRequest'
    BY DEF SocketInv, SocketTypes, Numbered, OneRequest, BusyIsUsed, Holds
  <2>4. BusyIsUsed'
    BY DEF SocketInv, SocketTypes, Numbered, OneRequest, BusyIsUsed, Holds, Uses
  <2> QED BY <2>1, <2>2, <2>3, <2>4 DEF SocketInv
<1>5. ASSUME NEW r \in Request, C!Connected(r) PROVE SocketInv'
  <2> USE DEF C!Connected
  <2>1. uses[r] \in C!Socket
    BY <1>5 DEF SocketInv, Numbered, Holds
  <2>2. CASE release[r] = "entered"
    <3>0. SocketTypes'
      <4>1. /\ cache' = uses[r] /\ opened' = opened /\ UNCHANGED <<timer, uses, release>>
            /\ requestAt' = [requestAt EXCEPT ![r] = "using"]
        BY <1>5, <2>2
      <4>2. /\ state' = [state EXCEPT ![uses[r]] = "open"]
            /\ busy' = [busy EXCEPT ![uses[r]] = TRUE]
        BY <1>5, <2>2
      <4>3. state' \in [C!Socket -> {"new", "connecting", "open", "closed"}]
        BY <4>2 DEF SocketInv, SocketTypes
      <4>4. busy' \in [C!Socket -> BOOLEAN]
        BY <4>2 DEF SocketInv, SocketTypes
      <4> QED BY <4>1, <4>3, <4>4 DEF SocketInv, SocketTypes
    <3>1. Numbered'
      BY <1>5, <2>1, <2>2 DEF SocketInv, SocketTypes, Numbered, Holds
    <3>2. OneRequest'
      BY <1>5, <2>1, <2>2 DEF SocketInv, SocketTypes, Numbered, OneRequest, Holds
    <3>3. BusyIsUsed'
      <4>1. busy' = [busy EXCEPT ![uses[r]] = TRUE] /\ UNCHANGED <<timer, uses, release>>
        BY <1>5, <2>2
      <4>2. \A s \in C!Socket : s # uses[r] => state'[s] = state[s] /\ busy'[s] = busy[s]
        BY <1>5, <4>1 DEF SocketInv, SocketTypes
      <4>3. busy'[uses[r]] /\ requestAt' = [requestAt EXCEPT ![r] = "using"]
        BY <1>5, <2>1, <4>1 DEF SocketInv, SocketTypes
      <4> QED BY <2>1, <4>1, <4>2, <4>3
              DEF SocketInv, SocketTypes, Numbered, OneRequest, BusyIsUsed, Holds, Uses
    <3> QED BY <3>0, <3>1, <3>2, <3>3 DEF SocketInv
  <2>3. CASE release[r] # "entered"
    <3>0. release[r] = "own"
      BY <1>5, <2>3 DEF SocketInv, SocketTypes, OneRequest, Holds
    <3>1. SocketTypes' /\ Numbered'
      BY <1>5, <2>1, <2>3 DEF SocketInv, SocketTypes, Numbered, Holds
    <3>2. OneRequest'
      BY <1>5, <2>1, <2>3 DEF SocketInv, SocketTypes, Numbered, OneRequest, Holds
    <3>3. BusyIsUsed'
      BY <1>5, <2>1, <2>3, <3>0
         DEF SocketInv, SocketTypes, Numbered, OneRequest, BusyIsUsed, Holds, Uses
    <3> QED BY <3>1, <3>2, <3>3 DEF SocketInv
  <2> QED BY <2>2, <2>3
<1>6. ASSUME NEW r \in Request, C!ConnectFails(r) PROVE SocketInv'
  <2> USE <1>6 DEF C!ConnectFails, C!Closed, C!Timed, C!Reusable, C!Free
  <2>1. SocketTypes'
    BY DEF SocketInv, SocketTypes
  <2>2. Numbered'
    BY DEF SocketInv, SocketTypes, Numbered, Holds
  <2>3. OneRequest'
    BY DEF SocketInv, SocketTypes, Numbered, OneRequest, BusyIsUsed, Holds
  <2>4. BusyIsUsed'
    BY DEF SocketInv, SocketTypes, Numbered, OneRequest, BusyIsUsed, Holds, Uses
  <2> QED BY <2>1, <2>2, <2>3, <2>4 DEF SocketInv
<1>7. ASSUME NEW r \in Request, C!ReleaseOwn(r) PROVE SocketInv'
  <2> USE <1>7 DEF C!ReleaseOwn, C!Closed, C!Timed, C!Reusable, C!Free
  <2>1. SocketTypes'
    BY DEF SocketInv, SocketTypes
  <2>2. Numbered'
    BY DEF SocketInv, SocketTypes, Numbered, Holds
  <2>3. OneRequest'
    BY DEF SocketInv, SocketTypes, Numbered, OneRequest, BusyIsUsed, Holds
  <2>4. BusyIsUsed'
    BY DEF SocketInv, SocketTypes, Numbered, OneRequest, BusyIsUsed, Holds, Uses
  <2> QED BY <2>1, <2>2, <2>3, <2>4 DEF SocketInv
<1>8. ASSUME NEW r \in Request, C!ReleaseKept(r) PROVE SocketInv'
  <2> USE <1>8 DEF C!ReleaseKept, C!Closed, C!Timed, C!Reusable, C!Free
  <2>1. SocketTypes'
    BY DEF SocketInv, SocketTypes
  <2>2. Numbered'
    BY DEF SocketInv, SocketTypes, Numbered, Holds
  <2>3. OneRequest'
    BY DEF SocketInv, SocketTypes, Numbered, OneRequest, BusyIsUsed, Holds
  <2>4. BusyIsUsed'
    BY DEF SocketInv, SocketTypes, Numbered, OneRequest, BusyIsUsed, Holds, Uses
  <2> QED BY <2>1, <2>2, <2>3, <2>4 DEF SocketInv
<1>9. ASSUME NEW r \in Request, C!ReleaseDropped(r) PROVE SocketInv'
  <2> USE <1>9 DEF C!ReleaseDropped, C!Closed, C!Timed, C!Reusable, C!Free
  <2>1. SocketTypes'
    BY DEF SocketInv, SocketTypes
  <2>2. Numbered'
    BY DEF SocketInv, SocketTypes, Numbered, Holds
  <2>3. OneRequest'
    BY DEF SocketInv, SocketTypes, Numbered, OneRequest, BusyIsUsed, Holds
  <2>4. BusyIsUsed'
    BY DEF SocketInv, SocketTypes, Numbered, OneRequest, BusyIsUsed, Holds, Uses
  <2> QED BY <2>1, <2>2, <2>3, <2>4 DEF SocketInv
<1>10. ASSUME NEW s \in C!Socket, C!Expire(s) PROVE SocketInv'
  <2> USE <1>10 DEF C!Expire, C!Closed
  <2>1. SocketTypes'
    BY DEF SocketInv, SocketTypes
  <2>2. Numbered'
    BY DEF SocketInv, SocketTypes, Numbered, Holds
  <2>3. OneRequest'
    BY DEF SocketInv, SocketTypes, Numbered, OneRequest, BusyIsUsed, Holds
  <2>4. CASE busy[s]
    <3>1. BusyIsUsed'
      BY <2>4 DEF SocketInv, SocketTypes, BusyIsUsed, Uses
    <3> QED BY <2>1, <2>2, <2>3, <3>1 DEF SocketInv
  <2>5. CASE ~busy[s]
    <3>1. /\ state' = [state EXCEPT ![s] = "closed"]
          /\ UNCHANGED <<busy, requestAt, uses, release>>
      BY <2>5
    <3>2. \A t \in C!Socket :
            state'[t] = "open" => t # s /\ state[t] = "open" /\ timer'[t] = timer[t]
      BY <3>1 DEF SocketInv, SocketTypes
    <3>3. \A q \in Request, t \in C!Socket : Uses(q, t)' <=> Uses(q, t)
      BY <3>1 DEF Uses
    <3>4. \A t \in C!Socket : state'[t] = "open" => timer'[t] \/ \E q \in Request : Uses(q, t)'
      <4> SUFFICES ASSUME NEW t \in C!Socket, state'[t] = "open"
                   PROVE  timer'[t] \/ \E q \in Request : Uses(q, t)'
        OBVIOUS
      <4>1. timer[t] \/ \E q \in Request : Uses(q, t)
        BY <3>2 DEF SocketInv, BusyIsUsed
      <4> QED BY <3>2, <3>3, <4>1
    <3>5. \A t \in C!Socket : busy'[t] /\ state'[t] = "open" => \E q \in Request : Uses(q, t)'
      BY <3>1, <3>2, <3>3 DEF SocketInv, BusyIsUsed
    <3>6. \A q \in Request : requestAt'[q] = "using" /\ release'[q] # "own" => busy'[uses'[q]]
      BY <3>1 DEF SocketInv, BusyIsUsed
    <3>7. BusyIsUsed'
      BY <3>4, <3>5, <3>6 DEF BusyIsUsed
    <3> QED BY <2>1, <2>2, <2>3, <3>7 DEF SocketInv
  <2> QED BY <2>4, <2>5
<1>11. ASSUME NEW s \in C!Socket, C!Drop(s) PROVE SocketInv'
  <2> USE <1>11 DEF C!Drop, C!Closed, C!Timed, C!Reusable, C!Free
  <2>1. SocketTypes'
    BY DEF SocketInv, SocketTypes
  <2>2. Numbered'
    BY DEF SocketInv, SocketTypes, Numbered, Holds
  <2>3. OneRequest'
    BY DEF SocketInv, SocketTypes, Numbered, OneRequest, BusyIsUsed, Holds
  <2>4. BusyIsUsed'
    BY DEF SocketInv, SocketTypes, Numbered, OneRequest, BusyIsUsed, Holds, Uses
  <2> QED BY <2>1, <2>2, <2>3, <2>4 DEF SocketInv
<1>12. CASE UNCHANGED C!vars
  BY <1>12 DEF C!vars, SocketInv, SocketTypes, Numbered, OneRequest, BusyIsUsed, Holds, Uses
<1> QED BY <1>1, <1>2, <1>3, <1>4, <1>5, <1>6, <1>7, <1>8, <1>9, <1>10, <1>11, <1>12 DEF C!Next

\* acquireWebSocket and its release functions: however many requests of a session
\* overlap, a connection has one user, and an open one is used or will be closed.
THEOREM ConnectionsOwned == SpecReplies => []ConnectionsAreOwned
<1>1. InitReplies => SocketInv
  BY SocketsBegin DEF InitReplies
<1>2. SocketInv /\ [NextReplies]_allVars => SocketInv'
  <2>1. [NextReplies]_allVars => [C!Next]_C!vars
    BY DEF NextReplies, allVars, socketVars, C!vars
  <2> QED BY <2>1, SocketsStep
<1>3. SocketInv => ConnectionsAreOwned
  BY DEF SocketInv, OneRequest, BusyIsUsed, Holds, Uses, ConnectionsAreOwned, C!ConnectionsAreOwned
<1> QED BY <1>1, <1>2, <1>3, PTL DEF SpecReplies

(***************************************************************************)
(* Requests.                                                               *)
(***************************************************************************)
\* streamGoogleGeminiCli and streamOpenAICodexResponses: however often endpoints,
\* transports and streams give up, a reply that has begun is not asked for again.
THEOREM AskedAgainUnseen == SpecReplies => AsksAgainUnseen
<1>1. InitReplies => RequestInv
  BY DEF InitReplies, Q!Init, RequestInv
<1>2. RequestInv /\ [NextReplies]_allVars => RequestInv'
  <2>1. [NextReplies]_allVars => [Q!Next]_Q!vars
    BY DEF NextReplies, allVars, retryVars, Q!vars
  <2>2. RequestInv /\ [Q!Next]_Q!vars => RequestInv'
    BY DEF RequestInv, Q!Next, Q!vars, Q!SocketStarts, Q!SocketDone, Q!SocketFails, Q!FallsBack,
           Q!Abort, Q!Succeeds, Q!Forbidden, Q!Overloaded, Q!Throws, Q!Waited, Q!FirstPart,
           Q!StreamOver, Q!StreamEmpty, Q!NothingCame, Q!AskAgain
  <2> QED BY <2>1, <2>2
<1>3. RequestInv /\ [NextReplies]_allVars => [requests' # requests => begun = 0]_Q!vars
  BY DEF RequestInv, NextReplies, allVars, retryVars, Q!Next, Q!vars, Q!SocketStarts, Q!SocketDone,
         Q!SocketFails, Q!Abort, Q!Succeeds, Q!Forbidden, Q!Overloaded, Q!Throws, Q!Waited,
         Q!FirstPart, Q!StreamOver, Q!StreamEmpty, Q!AskAgain
<1> QED BY <1>1, <1>2, <1>3, PTL DEF SpecReplies, AsksAgainUnseen, Q!AsksAgainUnseen

(***************************************************************************)
(* A reply: what is on its way leads the reader from what it has to what   *)
(* the provider has.                                                       *)
(***************************************************************************)
\* No event leads from a view to itself.
LEMMA LeadsNowhere ==
  ASSUME NEW v \in Views, NEW c, Beneath(v.blocks, c)
  PROVE  Leads(<<>>, v, v, c)
<1> DEFINE g == [n \in 0..0 |-> v]
<1>1. Path(g, <<>>, v, v, c)
  BY DEF Path
<1>2. <<>> \in Seq({})
  OBVIOUS
<1> QED BY <1>1, <1>2 DEF Leads

\* What leads somewhere starts at a view of the message and gets to one.
LEMMA LeadsThere ==
  ASSUME NEW w, NEW v0, NEW v1, NEW c, Leads(w, v0, v1, c)
  PROVE  /\ v0 \in Views /\ v1 \in Views /\ Beneath(v0.blocks, c) /\ Beneath(v1.blocks, c)
         /\ w = <<>> => v0 = v1
<1>1. PICK g : Path(g, w, v0, v1, c)
  BY DEF Leads
<1>2. Len(w) \in Nat /\ (w = <<>> => Len(w) = 0)
  BY DEF Leads
<1> QED BY <1>1, <1>2 DEF Path

\* One event leads on as it is read.
LEMMA LeadsOneStep ==
  ASSUME NEW e, NEW v0 \in Views, NEW v1 \in Views, NEW c, Reads(v0, e, v1),
         Beneath(v0.blocks, c), Beneath(v1.blocks, c)
  PROVE  Leads(<<e>>, v0, v1, c)
<1> DEFINE g == [n \in 0..1 |-> IF n = 0 THEN v0 ELSE v1]
<1>1. Len(<<e>>) = 1 /\ <<e>>[1] = e /\ <<e>> \in Seq({e})
  OBVIOUS
<1>2. g \in [0..1 -> Views] /\ g[0] = v0 /\ g[1] = v1
  OBVIOUS
<1> HIDE DEF g
<1>3. \A n \in 1..1 : Reads(g[n - 1], <<e>>[n], g[n])
  BY <1>1, <1>2
<1>4. \A n \in 0..1 : Beneath(g[n].blocks, c)
  BY <1>2
<1>5. Path(g, <<e>>, v0, v1, c)
  BY <1>1, <1>2, <1>3, <1>4 DEF Path
<1> QED BY <1>1, <1>5 DEF Leads

\* What leads on from where other events lead.
LEMMA LeadsOn ==
  ASSUME NEW a, NEW b, NEW v0, NEW v1, NEW v2, NEW c,
         Leads(a, v0, v1, c), Leads(b, v1, v2, c)
  PROVE  Leads(a \o b, v0, v2, c)
<1>1. PICK g : Path(g, a, v0, v1, c)
  BY DEF Leads
<1>2. PICK h : Path(h, b, v1, v2, c)
  BY DEF Leads
<1>3. PICK A : a \in Seq(A)
  BY DEF Leads
<1>4. PICK B : b \in Seq(B)
  BY DEF Leads
<1> DEFINE S == A \union B
           w == a \o b
           m == Len(a)
           f == [n \in 0..Len(w) |-> IF n <= m THEN g[n] ELSE h[n - m]]
<1>5. a \in Seq(S) /\ b \in Seq(S)
  BY <1>3, <1>4, SeqMonotonic
<1>6. w \in Seq(S) /\ Len(w) = m + Len(b) /\ m \in Nat /\ Len(b) \in Nat
  BY <1>5
<1>7. /\ \A n \in 1..m : w[n] = a[n]
      /\ \A n \in (m + 1)..Len(w) : w[n] = b[n - m]
  BY <1>5, <1>6
<1>8. /\ g \in [0..m -> Views] /\ g[0] = v0 /\ g[m] = v1
      /\ \A n \in 1..m : Reads(g[n - 1], a[n], g[n])
      /\ \A n \in 0..m : Beneath(g[n].blocks, c)
  BY <1>1 DEF Path
<1>9. /\ h \in [0..Len(b) -> Views] /\ h[0] = v1 /\ h[Len(b)] = v2
      /\ \A n \in 1..Len(b) : Reads(h[n - 1], b[n], h[n])
      /\ \A n \in 0..Len(b) : Beneath(h[n].blocks, c)
  BY <1>2 DEF Path
<1> HIDE DEF w, m
<1>10. \A n \in 0..Len(w) : f[n] = IF n <= m THEN g[n] ELSE h[n - m]
  OBVIOUS
<1>11. f \in [0..Len(w) -> Views]
  <2>1. ASSUME NEW n \in 0..Len(w)
        PROVE  (IF n <= m THEN g[n] ELSE h[n - m]) \in Views
    <3>1. CASE n <= m
      <4>1. n \in 0..m
        BY <3>1, <1>6
      <4> QED BY <3>1, <4>1, <1>8
    <3>2. CASE ~(n <= m)
      <4>1. n - m \in 0..Len(b)
        BY <3>2, <1>6
      <4> QED BY <3>2, <4>1, <1>9
    <3> QED BY <3>1, <3>2
  <2> QED BY <2>1
<1> HIDE DEF f
<1>12. f[0] = v0 /\ f[Len(w)] = v2
  <2>1. f[0] = v0
    BY <1>6, <1>8, <1>10
  <2>2. CASE Len(b) = 0
    BY <2>2, <1>6, <1>8, <1>9, <1>10
  <2>3. CASE Len(b) > 0
    BY <2>3, <1>6, <1>8, <1>9, <1>10
  <2> QED BY <2>1, <2>2, <2>3, <1>6
<1>13. ASSUME NEW n \in 1..Len(w) PROVE Reads(f[n - 1], w[n], f[n])
  <2>1. CASE n <= m
    BY <2>1, <1>6, <1>7, <1>8, <1>10
  <2>2. CASE n = m + 1
    <3>1. f[n - 1] = v1 /\ f[n] = h[1] /\ w[n] = b[1] /\ 1 \in 1..Len(b)
      <4>1. n - 1 = m /\ n - 1 \in 0..Len(w) /\ n - m = 1 /\ Len(b) >= 1 /\ n \in 0..Len(w)
            /\ n \in (m + 1)..Len(w) /\ ~(n <= m)
        BY <2>2, <1>6
      <4>2. f[n - 1] = g[m] /\ f[n] = h[n - m]
        BY <4>1, <1>10
      <4>3. w[n] = b[n - m]
        BY <4>1, <1>7
      <4>4. f[n] = h[1] /\ w[n] = b[1]
        BY <4>1, <4>2, <4>3, Zenon
      <4>5. f[n - 1] = v1
        BY <4>2, <1>8, Zenon
      <4>6. 1 \in 1..Len(b)
        BY <4>1, <1>6
      <4> QED BY <4>4, <4>5, <4>6
    <3>2. Reads(h[1 - 1], b[1], h[1])
      BY <3>1, <1>9
    <3>3. h[1 - 1] = v1
      BY <1>9
    <3> QED BY <3>1, <3>2, <3>3
  <2>3. CASE n > m + 1
    <3> DEFINE k == n - m
    <3>1. k \in 1..Len(b) /\ f[n - 1] = h[k - 1] /\ f[n] = h[k] /\ w[n] = b[k]
      BY <2>3, <1>6, <1>7, <1>10
    <3> HIDE DEF k
    <3> QED BY <3>1, <1>9
  <2> QED BY <2>1, <2>2, <2>3, <1>6
<1>14. ASSUME NEW n \in 0..Len(w) PROVE Beneath(f[n].blocks, c)
  <2>1. CASE n <= m
    <3>1. n \in 0..m
      BY <2>1, <1>6
    <3> QED BY <2>1, <3>1, <1>8, <1>10
  <2>2. CASE ~(n <= m)
    <3>1. n - m \in 0..Len(b)
      BY <2>2, <1>6
    <3> QED BY <2>2, <3>1, <1>9, <1>10
  <2> QED BY <2>1, <2>2
<1>15. Path(f, w, v0, v2, c)
  BY <1>11, <1>12, <1>13, <1>14 DEF Path
<1> QED BY <1>6, <1>15 DEF Leads, w

\* The first event is read, and the others lead on from there.
LEMMA LeadsAway ==
  ASSUME NEW w, NEW v0, NEW v1, NEW c, Leads(w, v0, v1, c), w # <<>>
  PROVE  \E v \in Views : Reads(v0, Head(w), v) /\ Leads(Tail(w), v, v1, c)
<1>1. PICK g : Path(g, w, v0, v1, c)
  BY DEF Leads
<1>2. PICK S : w \in Seq(S)
  BY DEF Leads
<1> DEFINE t == Tail(w)
           f == [n \in 0..Len(t) |-> g[n + 1]]
<1>3. /\ t \in Seq(S) /\ Len(t) = Len(w) - 1 /\ Len(t) \in Nat /\ Len(w) \in Nat
      /\ \A n \in 1..Len(t) : t[n] = w[n + 1]
      /\ Head(w) = w[1]
  BY <1>2
<1>4. /\ g \in [0..Len(w) -> Views] /\ g[0] = v0 /\ g[Len(w)] = v1
      /\ \A n \in 1..Len(w) : Reads(g[n - 1], w[n], g[n])
      /\ \A n \in 0..Len(w) : Beneath(g[n].blocks, c)
  BY <1>1 DEF Path
<1> HIDE DEF t
<1>5. f \in [0..Len(t) -> Views] /\ f[0] = g[1] /\ f[Len(t)] = v1
      /\ \A n \in 0..Len(t) : f[n] = g[n + 1]
  BY <1>3, <1>4
<1> HIDE DEF f
<1>6. ASSUME NEW n \in 1..Len(t) PROVE Reads(f[n - 1], t[n], f[n])
  <2>1. n + 1 \in 1..Len(w) /\ f[n - 1] = g[(n + 1) - 1] /\ f[n] = g[n + 1]
    BY <1>3, <1>5
  <2> QED BY <2>1, <1>3, <1>4
<1>7. \A n \in 0..Len(t) : Beneath(f[n].blocks, c)
  BY <1>3, <1>4, <1>5
<1>8. Path(f, t, g[1], v1, c)
  BY <1>5, <1>6, <1>7 DEF Path
<1>9. Reads(v0, Head(w), g[1]) /\ g[1] \in Views
  <2>1. 1 \in 1..Len(w) /\ 1 - 1 = 0
    BY <1>3
  <2> QED BY <2>1, <1>3, <1>4
<1> QED BY <1>3, <1>8, <1>9 DEF Leads, t

(***************************************************************************)
(* Bodies grow, and so do messages.                                        *)
(***************************************************************************)
\* What a block of the provider is made of.
LEMMA CellAt ==
  ASSUME NEW c \in Seq(Cell), NEW i \in DOMAIN c
  PROVE  /\ i \in 1..Len(c) /\ c[i] \in Cell /\ c[i].said \in Seq(Nat)
         /\ c[i].kind \in R!Kinds /\ c[i].id \in Nat /\ c[i].key \in Nat
         /\ c[i].body \in Seq(Nat) /\ c[i].origin \in {"deltas", "service"}
         /\ c[i].origin = "deltas" => c[i].body = c[i].said
<1>1. i \in 1..Len(c) /\ c[i] \in Cell
  BY ElementOfSeq
<1> QED BY <1>1 DEF Cell

\* What a block of the reader is made of.
LEMMA PieceAt ==
  ASSUME NEW bs \in Seq(Piece), NEW i \in DOMAIN bs
  PROVE  /\ i \in 1..Len(bs) /\ bs[i] \in Piece /\ bs[i].said \in Seq(Nat)
         /\ bs[i].kind \in R!Kinds /\ bs[i].id \in Nat /\ bs[i].open \in BOOLEAN
<1>1. i \in 1..Len(bs) /\ bs[i] \in Piece
  BY ElementOfSeq
<1> QED BY <1>1 DEF Piece

\* The beginning of a text, element by element.
LEMMA PrefixIs ==
  ASSUME NEW s \in Seq(Nat), NEW t \in Seq(Nat)
  PROVE  R!IsPrefix(s, t) <=> Len(s) <= Len(t) /\ \A i \in 1..Len(s) : s[i] = t[i]
<1>1. CASE Len(s) <= Len(t)
  <2>1. /\ SubSeq(s, 1, Len(s)) \in Seq(Nat) /\ Len(SubSeq(s, 1, Len(s))) = Len(s)
        /\ \A i \in 1..Len(s) : SubSeq(s, 1, Len(s))[i] = s[i]
    BY SubSeqProperties
  <2>2. /\ SubSeq(t, 1, Len(s)) \in Seq(Nat) /\ Len(SubSeq(t, 1, Len(s))) = Len(s)
        /\ \A i \in 1..Len(s) : SubSeq(t, 1, Len(s))[i] = t[i]
    BY <1>1, SubSeqProperties
  <2> DEFINE a == SubSeq(s, 1, Len(s))
             b == SubSeq(t, 1, Len(s))
  <2>3. R!IsPrefix(s, t) <=> a = b
    BY <1>1 DEF R!IsPrefix
  <2> HIDE DEF a, b
  <2>4. a = b <=> \A i \in 1..Len(s) : a[i] = b[i]
    BY <2>1, <2>2, SeqEqual DEF a, b
  <2> QED BY <1>1, <2>1, <2>2, <2>3, <2>4 DEF a, b
<1>2. CASE ~(Len(s) <= Len(t))
  BY <1>2 DEF R!IsPrefix
<1> QED BY <1>1, <1>2

\* A text is its own beginning.
LEMMA PrefixSelf == ASSUME NEW s \in Seq(Nat) PROVE R!IsPrefix(s, s)
  BY PrefixIs

\* It is the beginning of a longer one.
LEMMA PrefixGrows ==
  ASSUME NEW s \in Seq(Nat), NEW n \in Nat
  PROVE  R!IsPrefix(s, Append(s, n)) /\ Append(s, n) \in Seq(Nat)
<1> DEFINE t == Append(s, n)
<1>1. t \in Seq(Nat) /\ Len(t) = Len(s) + 1 /\ Len(s) \in Nat
      /\ \A i \in 1..Len(s) : t[i] = s[i]
  OBVIOUS
<1> HIDE DEF t
<1>2. R!IsPrefix(s, t)
  BY <1>1, PrefixIs
<1> QED BY <1>1, <1>2 DEF t

\* The beginning of a beginning.
LEMMA PrefixOfPrefix ==
  ASSUME NEW s \in Seq(Nat), NEW t \in Seq(Nat), NEW u \in Seq(Nat),
         R!IsPrefix(s, t), R!IsPrefix(t, u)
  PROVE  R!IsPrefix(s, u)
<1>1. Len(s) <= Len(t) /\ \A i \in 1..Len(s) : s[i] = t[i]
  BY PrefixIs
<1>2. Len(t) <= Len(u) /\ \A i \in 1..Len(t) : t[i] = u[i]
  BY PrefixIs
<1>3. Len(s) \in Nat /\ Len(t) \in Nat /\ Len(u) \in Nat
  OBVIOUS
<1>4. Len(s) <= Len(u) /\ \A i \in 1..Len(s) : s[i] = u[i]
  BY <1>1, <1>2, <1>3
<1> QED BY <1>4, PrefixIs

\* What is beneath a message stays so as the message grows.
LEMMA BeneathGrown ==
  ASSUME NEW bs \in Seq(Piece), NEW c \in Seq(Cell), NEW d \in Seq(Cell),
         Beneath(bs, c), Beneath(c, d)
  PROVE  Beneath(bs, d)
<1> SUFFICES ASSUME NEW i \in DOMAIN bs
             PROVE  /\ i \in DOMAIN d /\ bs[i].kind = d[i].kind /\ bs[i].id = d[i].id
                    /\ R!IsPrefix(bs[i].said, d[i].said)
  BY DEF Beneath
<1>1. /\ i \in DOMAIN c /\ bs[i].kind = c[i].kind /\ bs[i].id = c[i].id
      /\ R!IsPrefix(bs[i].said, c[i].said)
  BY DEF Beneath
<1>2. /\ i \in DOMAIN d /\ c[i].kind = d[i].kind /\ c[i].id = d[i].id
      /\ R!IsPrefix(c[i].said, d[i].said)
  BY <1>1 DEF Beneath
<1>3. bs[i].said \in Seq(Nat) /\ c[i].said \in Seq(Nat) /\ d[i].said \in Seq(Nat)
  BY <1>1, <1>2, CellAt, PieceAt
<1> QED BY <1>1, <1>2, <1>3, PrefixOfPrefix

\* So does a way of the events to it.
LEMMA LeadsGrown ==
  ASSUME NEW w, NEW v0, NEW v1, NEW c \in Seq(Cell), NEW d \in Seq(Cell),
         Leads(w, v0, v1, c), Beneath(c, d)
  PROVE  Leads(w, v0, v1, d)
<1>1. PICK g : Path(g, w, v0, v1, c)
  BY DEF Leads
<1>2. /\ g \in [0..Len(w) -> Views] /\ g[0] = v0 /\ g[Len(w)] = v1
      /\ \A n \in 1..Len(w) : Reads(g[n - 1], w[n], g[n])
      /\ \A n \in 0..Len(w) : Beneath(g[n].blocks, c)
  BY <1>1 DEF Path
<1>3. ASSUME NEW n \in 0..Len(w) PROVE Beneath(g[n].blocks, d)
  <2>1. g[n].blocks \in Seq(Piece) /\ Beneath(g[n].blocks, c)
    BY <1>2 DEF Views
  <2> QED BY <2>1, BeneathGrown
<1>4. Path(g, w, v0, v1, d)
  BY <1>2, <1>3 DEF Path
<1> QED BY <1>4 DEF Leads

(***************************************************************************)
(* What the provider has sent of its message, with which blocks open.      *)
(***************************************************************************)
\* The blocks of a message, as who has read all of it has them.
LEMMA ShownIs ==
  ASSUME NEW c \in Seq(Cell), NEW O
  PROVE  /\ Shown(c, O) \in Seq(Piece) /\ Len(Shown(c, O)) = Len(c)
         /\ DOMAIN Shown(c, O) = 1..Len(c) /\ DOMAIN c = 1..Len(c) /\ Len(c) \in Nat
         /\ Beneath(Shown(c, O), c)
<1>1. Len(c) \in Nat /\ DOMAIN c = 1..Len(c)
  OBVIOUS
<1>2. \A i \in 1..Len(c) : c[i] \in Cell
  BY <1>1, ElementOfSeq
<1>3. \A i \in 1..Len(c) : Shown(c, O)[i] = [kind |-> c[i].kind, id |-> c[i].id,
                                             said |-> c[i].said,
                                             open |-> IF i \in O THEN TRUE ELSE FALSE]
  BY DEF Shown
<1>4. \A i \in 1..Len(c) : Shown(c, O)[i] \in Piece
  <2> SUFFICES ASSUME NEW i \in 1..Len(c) PROVE Shown(c, O)[i] \in Piece
    OBVIOUS
  <2> DEFINE o == IF i \in O THEN TRUE ELSE FALSE
  <2>1. Shown(c, O)[i] = [kind |-> c[i].kind, id |-> c[i].id, said |-> c[i].said, open |-> o]
    BY <1>3
  <2>2. o \in BOOLEAN
    OBVIOUS
  <2>3. c[i].kind \in R!Kinds /\ c[i].id \in Nat /\ c[i].said \in Seq(Nat)
    BY <1>1, CellAt
  <2> HIDE DEF o
  <2> QED BY <2>1, <2>2, <2>3 DEF Piece
<1>5. Shown(c, O) \in [1..Len(c) -> Piece]
  BY <1>4 DEF Shown
<1>6. Shown(c, O) \in Seq(Piece) /\ Len(Shown(c, O)) = Len(c)
      /\ DOMAIN Shown(c, O) = 1..Len(c)
  BY <1>1, <1>5
<1>7. ASSUME NEW i \in 1..Len(c)
      PROVE  R!IsPrefix(Shown(c, O)[i].said, c[i].said)
  <2>1. Shown(c, O)[i].said = c[i].said
    <3> DEFINE o == IF i \in O THEN TRUE ELSE FALSE
    <3>1. Shown(c, O)[i] = [kind |-> c[i].kind, id |-> c[i].id, said |-> c[i].said, open |-> o]
      BY <1>3
    <3> HIDE DEF o
    <3> QED BY <3>1
  <2>2. c[i].said \in Seq(Nat)
    BY <1>1, CellAt
  <2> QED BY <2>1, <2>2, PrefixSelf
<1>8. Beneath(Shown(c, O), c)
  BY <1>1, <1>3, <1>6, <1>7 DEF Beneath
<1> QED BY <1>1, <1>6, <1>8

\* That is a view.
LEMMA ViewIs ==
  ASSUME NEW c \in Seq(Cell), NEW O, NEW p \in {"silent", "started"}
  PROVE  /\ View(c, O, p) \in Views /\ View(c, O, p).blocks = Shown(c, O)
         /\ View(c, O, p).phase = p /\ View(c, O, p).outcome = "none"
  BY ShownIs DEF View, Views

\* The message begins.
LEMMA Starting ==
  ASSUME NEW c \in Seq(Cell), NEW O, NEW d \in Seq(Cell), Beneath(c, d)
  PROVE  Leads(<< [type |-> "start"] >>, View(c, O, "silent"), View(c, O, "started"), d)
<1> DEFINE e == [type |-> "start"]
           v == View(c, O, "silent")
           u == View(c, O, "started")
<1>1. v \in Views /\ u \in Views /\ v.blocks = Shown(c, O) /\ u.blocks = Shown(c, O)
  BY ViewIs
<1>2. Beneath(Shown(c, O), d)
  BY ShownIs, BeneathGrown
<1>3. Reads(v, e, u)
  BY DEF Reads, View
<1> HIDE DEF v, u, e
<1>4. Leads(<<e>>, v, u, d)
  BY <1>1, <1>2, <1>3, LeadsOneStep
<1> QED BY <1>4 DEF v, u, e

\* A new block, as yet empty.
LEMMA Beginning ==
  ASSUME NEW c \in Seq(Cell), NEW O, NEW b \in Cell, b.said = <<>>, NEW d \in Seq(Cell),
         Beneath(Append(c, b), d), NEW e,
         e = [type |-> "begin", at |-> Len(c) + 1, kind |-> b.kind, id |-> b.id]
  PROVE  Leads(<<e>>, View(c, O, "started"),
               View(Append(c, b), O \union {Len(c) + 1}, "started"), d)
<1> DEFINE n == Len(c) + 1
           k == Append(c, b)
           v == View(c, O, "started")
           u == View(k, O \union {n}, "started")
<1>1. k \in Seq(Cell) /\ Len(k) = n /\ n \in Nat /\ k[n] = b
      /\ \A i \in 1..Len(c) : k[i] = c[i]
  OBVIOUS
<1> HIDE DEF k
<1>2. v \in Views /\ u \in Views /\ v.blocks = Shown(c, O)
      /\ u.blocks = Shown(k, O \union {n}) /\ v.phase = "started"
  BY <1>1, ViewIs
<1>3. Beneath(Shown(k, O \union {n}), d)
  <2>1. Beneath(k, d)
    BY DEF k
  <2>2. Shown(k, O \union {n}) \in Seq(Piece) /\ Beneath(Shown(k, O \union {n}), k)
    BY <1>1, ShownIs
  <2> QED BY <1>1, <2>1, <2>2, BeneathGrown
<1>4. Beneath(Shown(c, O), d)
  <2>1. \A i \in DOMAIN Shown(c, O) :
          i \in DOMAIN Shown(k, O \union {n})
          /\ Shown(c, O)[i].kind = Shown(k, O \union {n})[i].kind
          /\ Shown(c, O)[i].id = Shown(k, O \union {n})[i].id
          /\ Shown(c, O)[i].said = Shown(k, O \union {n})[i].said
    BY <1>1 DEF Shown
  <2> QED BY <2>1, <1>3 DEF Beneath
<1>5. u = [v EXCEPT !.blocks = Append(@, [kind |-> b.kind, id |-> b.id, said |-> <<>>,
                                          open |-> TRUE])]
  <2> DEFINE x == [kind |-> b.kind, id |-> b.id, said |-> <<>>, open |-> TRUE]
  <2>1. Shown(c, O) \in Seq(Piece) /\ Len(Shown(c, O)) = Len(c) /\ Len(c) \in Nat
    BY ShownIs
  <2>2. Shown(k, O \union {n}) = Append(Shown(c, O), x)
    <3>1. x \in Piece
      BY DEF Piece, Cell
    <3>2. Append(Shown(c, O), x) \in Seq(Piece) /\ Len(Append(Shown(c, O), x)) = n
          /\ Append(Shown(c, O), x)[n] = x
          /\ \A i \in 1..Len(c) : Append(Shown(c, O), x)[i] = Shown(c, O)[i]
      BY <2>1, <3>1
    <3>3. Shown(k, O \union {n}) \in Seq(Piece) /\ Len(Shown(k, O \union {n})) = n
      BY <1>1, ShownIs
    <3>4. \A i \in 1..Len(c) : Shown(k, O \union {n})[i] = Shown(c, O)[i]
      <4>1. \A i \in 1..Len(c) : i # n /\ i \in 1..Len(k)
        BY <1>1
      <4> QED BY <1>1, <4>1 DEF Shown
    <3>5. Shown(k, O \union {n})[n] = x
      <4>1. n \in 1..Len(k) /\ n \in O \union {n}
        BY <1>1
      <4>2. Shown(k, O \union {n})[n] =
              [kind |-> k[n].kind, id |-> k[n].id, said |-> k[n].said,
               open |-> IF n \in O \union {n} THEN TRUE ELSE FALSE]
        BY <4>1 DEF Shown
      <4> QED BY <4>1, <4>2, <1>1
    <3>6. \A i \in 1..n : Shown(k, O \union {n})[i] = Append(Shown(c, O), x)[i]
      <4>1. \A i \in 1..n : i \in 1..Len(c) \/ i = n
        BY <2>1
      <4> HIDE DEF n, x
      <4> QED BY <4>1, <3>2, <3>4, <3>5
    <3> DEFINE l == Shown(k, O \union {n})
               r == Append(Shown(c, O), x)
    <3> HIDE DEF l, r, n
    <3> QED BY <3>2, <3>3, <3>6, SeqEqual DEF l, r
  <2>3. /\ v = [phase |-> "started", outcome |-> "none", blocks |-> Shown(c, O)]
        /\ u = [phase |-> "started", outcome |-> "none", blocks |-> Shown(k, O \union {n})]
    BY DEF View
  <2> DEFINE y == Append(Shown(c, O), x)
  <2> HIDE DEF v, u, n, x, y
  <2>5. Append(v.blocks, x) = y
    BY <2>3 DEF y
  <2>7. Shown(k, O \union {n}) = y
    BY <2>2 DEF y
  <2>6. u = [v EXCEPT !.blocks = y]
    BY <2>3, <2>7
  <2>4. u = [v EXCEPT !.blocks = Append(@, x)]
    BY <2>5, <2>6
  <2> QED BY <2>4 DEF x
<1>6. Reads(v, e, u)
  <2>1. Len(v.blocks) = Len(c)
    BY <1>2, ShownIs
  <2> HIDE DEF v, u
  <2> QED BY <1>2, <1>5, <2>1 DEF Reads
<1> HIDE DEF v, u
<1> QED BY <1>2, <1>3, <1>4, <1>6, LeadsOneStep DEF v, u, k

\* A block with other texts than it had.
Changed(b, out, text) == [kind |-> b.kind, id |-> b.id, said |-> out, body |-> text,
                          origin |-> b.origin, key |-> b.key]
Longer(c, i, n) == [c EXCEPT ![i] = Changed(c[i], Append(c[i].said, n), Append(c[i].body, n))]

\* A block after more text.
LEMMA LongerIs ==
  ASSUME NEW c \in Seq(Cell), NEW i \in DOMAIN c, NEW n \in Nat
  PROVE  /\ Longer(c, i, n) \in Seq(Cell) /\ Len(Longer(c, i, n)) = Len(c)
         /\ Beneath(c, Longer(c, i, n))
         /\ \A j \in DOMAIN c : j # i => Longer(c, i, n)[j] = c[j]
         /\ Longer(c, i, n)[i].said = Append(c[i].said, n)
         /\ \A j \in DOMAIN c : Longer(c, i, n)[j].kind = c[j].kind
                                /\ Longer(c, i, n)[j].id = c[j].id
                                /\ Longer(c, i, n)[j].key = c[j].key
<1> DEFINE d == Longer(c, i, n)
           b == Changed(c[i], Append(c[i].said, n), Append(c[i].body, n))
<1>1. /\ c[i] \in Cell /\ c[i].said \in Seq(Nat) /\ Append(c[i].said, n) \in Seq(Nat)
      /\ c[i].body \in Seq(Nat) /\ Append(c[i].body, n) \in Seq(Nat)
  BY CellAt
<1>2. b \in Cell /\ b.kind = c[i].kind /\ b.id = c[i].id /\ b.key = c[i].key
      /\ b.said = Append(c[i].said, n)
  <2> DEFINE a == Append(c[i].said, n)
             t == Append(c[i].body, n)
  <2>1. a \in Seq(Nat) /\ t \in Seq(Nat) /\ (c[i].body = c[i].said => t = a)
    BY <1>1
  <2> HIDE DEF a, t
  <2>2. b = Changed(c[i], a, t)
    BY DEF a, t
  <2> HIDE DEF b
  <2>3. /\ b.kind = c[i].kind /\ b.id = c[i].id /\ b.key = c[i].key /\ b.said = a
        /\ b.body = t /\ b.origin = c[i].origin
    BY <2>2 DEF Changed
  <2>4. b \in Cell
    BY <1>1, <2>1, <2>2 DEF Cell, Changed
  <2> QED BY <2>3, <2>4 DEF a
<1>3. d = [c EXCEPT ![i] = b]
  BY DEF Longer
<1> HIDE DEF b
<1>4. d \in Seq(Cell) /\ Len(d) = Len(c) /\ d[i] = b /\ DOMAIN d = DOMAIN c
      /\ \A j \in DOMAIN c : j # i => d[j] = c[j]
  BY <1>2, <1>3
<1> HIDE DEF d
<1>5. Beneath(c, d)
  <2> SUFFICES ASSUME NEW j \in DOMAIN c
               PROVE  c[j].kind = d[j].kind /\ c[j].id = d[j].id
                      /\ R!IsPrefix(c[j].said, d[j].said)
    BY <1>4 DEF Beneath
  <2>1. CASE j = i
    BY <2>1, <1>1, <1>2, <1>4, PrefixGrows
  <2>2. CASE j # i
    <3>1. d[j] = c[j] /\ c[j].said \in Seq(Nat)
      BY <2>2, <1>4, CellAt
    <3> QED BY <3>1, PrefixSelf
  <2> QED BY <2>1, <2>2
<1> QED BY <1>2, <1>4, <1>5 DEF d, b

\* Text for a block that is open.
LEMMA Texting ==
  ASSUME NEW c \in Seq(Cell), NEW O, NEW i \in DOMAIN c, i \in O, NEW n \in Nat,
         NEW d \in Seq(Cell), Beneath(Longer(c, i, n), d), NEW e,
         e = [type |-> "delta", at |-> i, kind |-> c[i].kind, token |-> n]
  PROVE  Leads(<<e>>, View(c, O, "started"), View(Longer(c, i, n), O, "started"), d)
<1> DEFINE k == Longer(c, i, n)
           v == View(c, O, "started")
           u == View(k, O, "started")
           a == Append(c[i].said, n)
<1>1. /\ k \in Seq(Cell) /\ Len(k) = Len(c) /\ Beneath(c, k)
      /\ \A j \in DOMAIN c : j # i => k[j] = c[j]
      /\ k[i].said = a /\ c[i] \in Cell
      /\ k[i].kind = c[i].kind /\ k[i].id = c[i].id
      /\ DOMAIN c = 1..Len(c) /\ i \in 1..Len(c)
  BY LongerIs, CellAt
<1>2. Beneath(k, d)
  OBVIOUS
<1> HIDE DEF k, a
<1>3. v \in Views /\ u \in Views /\ v.blocks = Shown(c, O) /\ u.blocks = Shown(k, O)
  BY <1>1, ViewIs
<1>4. Beneath(Shown(k, O), d) /\ Beneath(Shown(c, O), d)
  <2>1. Shown(k, O) \in Seq(Piece) /\ Beneath(Shown(k, O), k) /\ Shown(c, O) \in Seq(Piece)
        /\ Beneath(Shown(c, O), c)
    BY <1>1, ShownIs
  <2>2. Beneath(Shown(c, O), k)
    BY <1>1, <2>1, BeneathGrown
  <2> QED BY <1>1, <1>2, <2>1, <2>2, BeneathGrown
<1>5. Shown(k, O) = [Shown(c, O) EXCEPT ![i].said = a]
  <2> DEFINE l == Shown(c, O)
             p == [l[i] EXCEPT !.said = a]
  <2>1. l = [j \in 1..Len(c) |-> l[j]]
    BY DEF Shown
  <2>2. \A j \in 1..Len(c) :
          l[j] = [kind |-> c[j].kind, id |-> c[j].id, said |-> c[j].said,
                  open |-> IF j \in O THEN TRUE ELSE FALSE]
    BY DEF Shown
  <2>3. \A j \in 1..Len(c) :
          Shown(k, O)[j] = [kind |-> k[j].kind, id |-> k[j].id, said |-> k[j].said,
                            open |-> IF j \in O THEN TRUE ELSE FALSE]
    BY <1>1 DEF Shown
  <2>4. Shown(k, O)[i] = p
    <3> DEFINE o == IF i \in O THEN TRUE ELSE FALSE
    <3>2. l[i] = [kind |-> c[i].kind, id |-> c[i].id, said |-> c[i].said, open |-> o]
      BY <1>1, <2>2
    <3>3. Shown(k, O)[i] = [kind |-> c[i].kind, id |-> c[i].id, said |-> a, open |-> o]
      BY <1>1, <2>3
    <3> HIDE DEF l, o
    <3> QED BY <3>2, <3>3
  <2>5. \A j \in 1..Len(c) : j # i => Shown(k, O)[j] = l[j]
    BY <1>1, <2>2, <2>3
  <2>6. Shown(k, O) = [j \in 1..Len(c) |-> Shown(k, O)[j]]
    BY <1>1 DEF Shown
  <2> HIDE DEF l, p
  <2>7. Shown(k, O) = [l EXCEPT ![i] = p]
    BY <1>1, <2>1, <2>4, <2>5, <2>6
  <2> QED BY <2>7 DEF l, p
<1>6. u = [v EXCEPT !.blocks = [v.blocks EXCEPT ![i].said = a]]
  <2> DEFINE y == [Shown(c, O) EXCEPT ![i].said = a]
  <2>1. /\ v = [phase |-> "started", outcome |-> "none", blocks |-> Shown(c, O)]
        /\ u = [phase |-> "started", outcome |-> "none", blocks |-> Shown(k, O)]
    BY DEF View
  <2>2. Shown(k, O) = y
    BY <1>5
  <2>3. [v.blocks EXCEPT ![i].said = a] = y
    BY <1>3
  <2> HIDE DEF v, u, y
  <2>4. u = [v EXCEPT !.blocks = y]
    BY <2>1, <2>2
  <2> QED BY <2>3, <2>4
<1>7. v.phase = "started" /\ i \in DOMAIN v.blocks /\ v.blocks[i].kind = c[i].kind
      /\ v.blocks[i].open /\ v.blocks[i].said = c[i].said
  <2>1. /\ DOMAIN Shown(c, O) = 1..Len(c)
        /\ Shown(c, O)[i] = [kind |-> c[i].kind, id |-> c[i].id, said |-> c[i].said,
                             open |-> IF i \in O THEN TRUE ELSE FALSE]
    BY <1>1 DEF Shown
  <2>2. v.phase = "started"
    BY DEF View
  <2> HIDE DEF v
  <2> QED BY <1>1, <1>3, <2>1, <2>2
<1> HIDE DEF v, u
<1>8. Reads(v, e, u)
  <2>1. a = Append(v.blocks[i].said, n)
    BY <1>7 DEF a
  <2>2. e.type = "delta" /\ e.at = i /\ e.token = n /\ e.kind = c[i].kind
    OBVIOUS
  <2>3. u = [v EXCEPT !.blocks = [v.blocks EXCEPT
              ![e.at].said = Append(v.blocks[e.at].said, e.token)]]
    BY <1>6, <2>1, <2>2
  <2> QED BY <1>7, <2>2, <2>3 DEF Reads
<1>9. Leads(<<e>>, v, u, d)
  BY <1>3, <1>4, <1>8, LeadsOneStep
<1> QED BY <1>9 DEF v, u, k

\* The end of a block, whether or not it has ended before.
LEMMA Ending ==
  ASSUME NEW c \in Seq(Cell), NEW O, NEW i \in DOMAIN c, NEW d \in Seq(Cell), Beneath(c, d),
         NEW e, e = [type |-> "end", at |-> i, kind |-> c[i].kind]
  PROVE  Leads(<<e>>, View(c, O, "started"), View(c, O \ {i}, "started"), d)
<1> DEFINE v == View(c, O, "started")
           u == View(c, O \ {i}, "started")
<1>1. DOMAIN c = 1..Len(c) /\ i \in 1..Len(c)
  BY CellAt
<1>2. v \in Views /\ u \in Views /\ v.blocks = Shown(c, O) /\ u.blocks = Shown(c, O \ {i})
  BY ViewIs
<1>3. Beneath(Shown(c, O), d) /\ Beneath(Shown(c, O \ {i}), d)
  BY ShownIs, BeneathGrown
<1>4. Shown(c, O \ {i}) = [Shown(c, O) EXCEPT ![i].open = FALSE]
  <2> DEFINE l == Shown(c, O)
             r == Shown(c, O \ {i})
             p == [l[i] EXCEPT !.open = FALSE]
  <2>1. l = [j \in 1..Len(c) |-> l[j]] /\ r = [j \in 1..Len(c) |-> r[j]]
    BY DEF Shown
  <2>2. \A j \in 1..Len(c) :
          l[j] = [kind |-> c[j].kind, id |-> c[j].id, said |-> c[j].said,
                  open |-> IF j \in O THEN TRUE ELSE FALSE]
    BY DEF Shown
  <2>3. \A j \in 1..Len(c) :
          r[j] = [kind |-> c[j].kind, id |-> c[j].id, said |-> c[j].said,
                  open |-> IF j \in O \ {i} THEN TRUE ELSE FALSE]
    BY DEF Shown
  <2> HIDE DEF l, r
  <2>4. r[i] = p
    <3> DEFINE o == IF i \in O THEN TRUE ELSE FALSE
    <3>1. l[i] = [kind |-> c[i].kind, id |-> c[i].id, said |-> c[i].said, open |-> o]
      BY <1>1, <2>2
    <3> DEFINE f == FALSE
    <3>2. r[i] = [kind |-> c[i].kind, id |-> c[i].id, said |-> c[i].said, open |-> f]
      BY <1>1, <2>3
    <3>3. p = [l[i] EXCEPT !.open = f]
      OBVIOUS
    <3> HIDE DEF o, f, p
    <3> QED BY <3>1, <3>2, <3>3
  <2>5. \A j \in 1..Len(c) : j # i => r[j] = l[j]
    <3> SUFFICES ASSUME NEW j \in 1..Len(c), j # i PROVE r[j] = l[j]
      OBVIOUS
    <3>1. j \in O \ {i} <=> j \in O
      OBVIOUS
    <3> QED BY <2>2, <2>3, <3>1
  <2> HIDE DEF p
  <2>7. r = [l EXCEPT ![i] = p]
    BY <1>1, <2>1, <2>4, <2>5
  <2> QED BY <2>7 DEF l, r, p
<1>5. u = [v EXCEPT !.blocks = [@ EXCEPT ![i].open = FALSE]]
  <2> DEFINE y == [Shown(c, O) EXCEPT ![i].open = FALSE]
  <2>1. /\ v = [phase |-> "started", outcome |-> "none", blocks |-> Shown(c, O)]
        /\ u = [phase |-> "started", outcome |-> "none", blocks |-> Shown(c, O \ {i})]
    BY DEF View
  <2>2. Shown(c, O \ {i}) = y
    BY <1>4
  <2>3. [v.blocks EXCEPT ![i].open = FALSE] = y
    BY <1>2
  <2> HIDE DEF v, u, y
  <2>4. u = [v EXCEPT !.blocks = y]
    BY <2>1, <2>2
  <2> QED BY <2>3, <2>4
<1>6. v.phase = "started" /\ i \in DOMAIN v.blocks /\ v.blocks[i].kind = c[i].kind
  <2>1. /\ DOMAIN Shown(c, O) = 1..Len(c)
        /\ Shown(c, O)[i].kind = c[i].kind
    <3> DEFINE o == IF i \in O THEN TRUE ELSE FALSE
    <3>1. DOMAIN Shown(c, O) = 1..Len(c)
          /\ Shown(c, O)[i] = [kind |-> c[i].kind, id |-> c[i].id, said |-> c[i].said,
                               open |-> o]
      BY <1>1 DEF Shown
    <3> HIDE DEF o
    <3> QED BY <3>1
  <2>2. v.phase = "started"
    BY DEF View
  <2> HIDE DEF v
  <2> QED BY <1>1, <1>2, <2>1, <2>2
<1> HIDE DEF v, u
<1>7. Reads(v, e, u)
  BY <1>5, <1>6 DEF Reads
<1>8. Leads(<<e>>, v, u, d)
  BY <1>2, <1>3, <1>7, LeadsOneStep
<1> QED BY <1>8 DEF v, u

\* Nothing is read after the end.
LEMMA NothingAfter ==
  ASSUME NEW w, NEW v0, NEW v1, NEW c, Leads(w, v0, v1, c), v0.phase = "over"
  PROVE  w = <<>> /\ v0 = v1
<1>1. SUFFICES ASSUME w # <<>> PROVE FALSE
  BY LeadsThere
<1>2. PICK v \in Views : Reads(v0, Head(w), v)
  BY <1>1, LeadsAway
<1> QED BY <1>2 DEF Reads

\* The invariant, while the reader reads, says what the reader may count on.
LEMMA LiveRebuilds == ASSUME Live, reader = "reading" PROVE R!ReaderRebuilds
<1>1. PICK v : /\ Leads(wire, Now, v, content)
               /\ (over /\ Final(v)) \/ (~over /\ v = Sent)
  BY DEF Live
<1>2. Now \in Views /\ Beneath(Now.blocks, content)
  BY <1>1, LeadsThere
<1>3. /\ partial \in Seq(Piece) /\ Beneath(partial, content)
      /\ outcome # "none" => phase = "over"
  BY <1>2 DEF Now, Views
<1>4. ASSUME outcome = "done"
      PROVE  /\ Len(partial) = Len(content)
             /\ \A i \in DOMAIN partial : /\ partial[i].said = content[i].said
                                          /\ R!EndsItsBlocks => ~partial[i].open
  <2>1. v = Now
    <3>1. Now.phase = "over"
      BY <1>3, <1>4 DEF Now
    <3> QED BY <3>1, <1>1, NothingAfter
  <2>2. v.outcome = "done" /\ v.blocks = partial
    BY <2>1, <1>4 DEF Now
  <2>3. ~(v = Sent)
    BY <2>2 DEF Sent, View
  <2> QED BY <2>2, <2>3, <1>1 DEF Final
<1>5. content \in Seq(Cell)
  BY DEF Live, ProviderTypes
<1>6. \A i \in DOMAIN content : content[i].origin = "deltas" => content[i].body = content[i].said
  BY <1>5, CellAt
<1>7. \A i \in DOMAIN partial :
        /\ i \in DOMAIN content
        /\ partial[i].kind = content[i].kind /\ partial[i].id = content[i].id
        /\ R!IsPrefix(partial[i].said, content[i].said)
        /\ content[i].origin = "deltas" => R!IsPrefix(partial[i].said, content[i].body)
  <2> SUFFICES ASSUME NEW i \in DOMAIN partial
               PROVE  /\ i \in DOMAIN content
                      /\ partial[i].kind = content[i].kind /\ partial[i].id = content[i].id
                      /\ R!IsPrefix(partial[i].said, content[i].said)
                      /\ content[i].origin = "deltas"
                           => R!IsPrefix(partial[i].said, content[i].body)
    OBVIOUS
  <2>1. /\ i \in DOMAIN content
        /\ partial[i].kind = content[i].kind /\ partial[i].id = content[i].id
        /\ R!IsPrefix(partial[i].said, content[i].said)
    BY <1>3 DEF Beneath
  <2>2. ASSUME content[i].origin = "deltas" PROVE content[i].body = content[i].said
    BY <1>6, <2>1, <2>2
  <2> QED BY <2>1, <2>2
<1>8. outcome = "done" =>
        /\ Len(partial) = Len(content)
        /\ \A i \in DOMAIN partial :
             /\ partial[i].said = content[i].said
             /\ content[i].origin = "deltas" => partial[i].said = content[i].body
             /\ R!EndsItsBlocks => ~partial[i].open
  BY <1>4, <1>6, <1>7
<1> QED BY <1>7, <1>8 DEF R!ReaderRebuilds

\* It always does.
LEMMA ReplyRebuilds == ReplyInv => R!ReaderRebuilds
  BY LiveRebuilds DEF ReplyInv

\* What is emitted leads from what was sent to what is sent then.
LEMMA Emitted ==
  ASSUME ReplyInv, reader = "reading", ~over, over' = over, UNCHANGED R!readerVars,
         NEW ev, wire' = wire \o ev, ProviderTypes', ProviderFits',
         Beneath(content, content'), Leads(ev, Sent, Sent', content')
  PROVE  ReplyInv'
<1>1. Leads(wire, Now, Sent, content) /\ content \in Seq(Cell) /\ content' \in Seq(Cell)
  BY DEF ReplyInv, Live, ProviderTypes
<1>2. Leads(wire, Now, Sent, content')
  BY <1>1, LeadsGrown
<1>3. Leads(wire', Now, Sent', content')
  BY <1>2, LeadsOn
<1>4. Now' = Now /\ reader' = reader
  BY DEF Now, R!readerVars
<1> QED BY <1>3, <1>4 DEF ReplyInv, Live

\* Nothing is, and nothing of the message changes.
LEMMA Quiet ==
  ASSUME ReplyInv, reader = "reading", ~over, over' = over, UNCHANGED R!readerVars,
         UNCHANGED <<family, content, cur, started, wire>>, ProviderTypes', ProviderFits'
  PROVE  ReplyInv'
<1>1. Now' = Now /\ reader' = reader
  BY DEF Now, R!readerVars
<1>2. Sent' = Sent
  BY DEF Sent, Opens, Keyed
<1> QED BY <1>1, <1>2 DEF ReplyInv, Live

\* Blocks are the beginning of themselves, and of what has grown from what they began.
LEMMA BeneathCells ==
  ASSUME NEW b \in Seq(Cell), NEW c \in Seq(Cell), NEW d \in Seq(Cell),
         Beneath(b, c), Beneath(c, d)
  PROVE  Beneath(b, d)
<1> SUFFICES ASSUME NEW i \in DOMAIN b
             PROVE  /\ i \in DOMAIN d /\ b[i].kind = d[i].kind /\ b[i].id = d[i].id
                    /\ R!IsPrefix(b[i].said, d[i].said)
  BY DEF Beneath
<1>1. /\ i \in DOMAIN c /\ b[i].kind = c[i].kind /\ b[i].id = c[i].id
      /\ R!IsPrefix(b[i].said, c[i].said)
  BY DEF Beneath
<1>2. /\ i \in DOMAIN d /\ c[i].kind = d[i].kind /\ c[i].id = d[i].id
      /\ R!IsPrefix(c[i].said, d[i].said)
  BY <1>1 DEF Beneath
<1>3. b[i].said \in Seq(Nat) /\ c[i].said \in Seq(Nat) /\ d[i].said \in Seq(Nat)
  BY <1>1, <1>2, CellAt
<1> QED BY <1>1, <1>2, <1>3, PrefixOfPrefix

\* A message is beneath itself.
LEMMA BeneathSelf == ASSUME NEW c \in Seq(Cell) PROVE Beneath(c, c)
<1>1. \A i \in DOMAIN c : R!IsPrefix(c[i].said, c[i].said)
  BY CellAt, PrefixSelf
<1> QED BY <1>1 DEF Beneath

\* A block more.
LEMMA BeneathMore ==
  ASSUME NEW c \in Seq(Cell), NEW b \in Cell
  PROVE  /\ Append(c, b) \in Seq(Cell) /\ Len(Append(c, b)) = Len(c) + 1
         /\ DOMAIN c = 1..Len(c) /\ DOMAIN Append(c, b) = 1..(Len(c) + 1) /\ Len(c) \in Nat
         /\ Append(c, b)[Len(c) + 1] = b /\ \A i \in 1..Len(c) : Append(c, b)[i] = c[i]
         /\ Beneath(c, Append(c, b))
<1> DEFINE k == Append(c, b)
<1>1. /\ k \in Seq(Cell) /\ Len(k) = Len(c) + 1 /\ Len(c) \in Nat
      /\ DOMAIN c = 1..Len(c) /\ DOMAIN k = 1..(Len(c) + 1)
      /\ k[Len(c) + 1] = b /\ \A i \in 1..Len(c) : k[i] = c[i]
  BY AppendProperties
<1> HIDE DEF k
<1>2. Beneath(c, c)
  BY BeneathSelf
<1>3. \A i \in DOMAIN c : i \in DOMAIN k
  BY <1>1
<1>4. Beneath(c, k)
  BY <1>1, <1>2, <1>3 DEF Beneath
<1> QED BY <1>1, <1>4 DEF k

\* Which numbers are open that no block has does not matter.
LEMMA ViewSame ==
  ASSUME NEW c \in Seq(Cell), NEW O, NEW P, NEW p, \A i \in DOMAIN c : i \in O <=> i \in P
  PROVE  View(c, O, p) = View(c, P, p)
<1>1. DOMAIN c = 1..Len(c)
  OBVIOUS
<1>2. \A i \in 1..Len(c) : (IF i \in O THEN TRUE ELSE FALSE) = (IF i \in P THEN TRUE ELSE FALSE)
  BY <1>1
<1> DEFINE o == [i \in 1..Len(c) |-> IF i \in O THEN TRUE ELSE FALSE]
           q == [i \in 1..Len(c) |-> IF i \in P THEN TRUE ELSE FALSE]
<1>3. o = q
  BY <1>2
<1>4. Shown(c, O) = [i \in 1..Len(c) |-> [kind |-> c[i].kind, id |-> c[i].id,
                                         said |-> c[i].said, open |-> o[i]]]
  BY DEF Shown
<1>5. Shown(c, P) = [i \in 1..Len(c) |-> [kind |-> c[i].kind, id |-> c[i].id,
                                         said |-> c[i].said, open |-> q[i]]]
  BY DEF Shown
<1> HIDE DEF o, q
<1>6. Shown(c, O) = Shown(c, P)
  BY <1>3, <1>4, <1>5
<1> QED BY <1>6 DEF View

\* Two events, one after the other.
LEMMA LeadsTwice ==
  ASSUME NEW a, NEW b, NEW v0, NEW v1, NEW v2, NEW c,
         Leads(<<a>>, v0, v1, c), Leads(<<b>>, v1, v2, c)
  PROVE  Leads(<<a, b>>, v0, v2, c)
<1>1. <<a>> \o <<b>> = <<a, b>>
  <2> DEFINE S == {a, b}
             l == <<a>> \o <<b>>
             r == <<a, b>>
  <2>1. <<a>> \in Seq(S) /\ <<b>> \in Seq(S) /\ Len(<<a>>) = 1 /\ Len(<<b>>) = 1
        /\ <<a>>[1] = a /\ <<b>>[1] = b
    OBVIOUS
  <2>2. r \in Seq(S) /\ Len(r) = 2 /\ r[1] = a /\ r[2] = b
    OBVIOUS
  <2>3. l \in Seq(S) /\ Len(l) = 2 /\ l[1] = a /\ l[2] = b
    BY <2>1, ConcatProperties
  <2> HIDE DEF l, r
  <2>4. \A i \in 1..2 : l[i] = r[i]
    BY <2>2, <2>3
  <2>5. l = r
    BY <2>2, <2>3, <2>4, SeqEqual
  <2> QED BY <2>5 DEF l, r
<1>2. Leads(<<a>> \o <<b>>, v0, v2, c)
  BY LeadsOn
<1> QED BY <1>1, <1>2

\* A new block and its first text.
LEMMA BeginningText ==
  ASSUME NEW c \in Seq(Cell), NEW O, NEW b \in Cell, b.said = <<>>, NEW t \in Nat,
         NEW k, k = Append(c, b), NEW n, n = Len(c) + 1
  PROVE  /\ Longer(k, n, t) \in Seq(Cell) /\ Beneath(c, Longer(k, n, t))
         /\ Leads(<< [type |-> "begin", at |-> n, kind |-> b.kind, id |-> b.id],
                     [type |-> "delta", at |-> n, kind |-> b.kind, token |-> t] >>,
                  View(c, O, "started"), View(Longer(k, n, t), O \union {n}, "started"),
                  Longer(k, n, t))
<1> DEFINE d == Longer(k, n, t)
           e1 == [type |-> "begin", at |-> n, kind |-> b.kind, id |-> b.id]
           e2 == [type |-> "delta", at |-> n, kind |-> b.kind, token |-> t]
<1>1. k \in Seq(Cell) /\ Len(k) = n /\ n \in DOMAIN k /\ k[n] = b /\ Beneath(c, k)
  BY BeneathMore
<1>2. Beneath(k, d) /\ d \in Seq(Cell)
  BY <1>1, LongerIs
<1>3. Beneath(c, d) /\ Beneath(d, d)
  BY <1>1, <1>2, BeneathCells, BeneathSelf
<1>4. e1 = [type |-> "begin", at |-> Len(c) + 1, kind |-> b.kind, id |-> b.id]
      /\ e2 = [type |-> "delta", at |-> n, kind |-> k[n].kind, token |-> t]
  BY <1>1
<1> HIDE DEF d, e1, e2
<1>5. Leads(<<e1>>, View(c, O, "started"), View(k, O \union {n}, "started"), d)
  BY <1>2, <1>4, Beginning
<1>6. Leads(<<e2>>, View(k, O \union {n}, "started"), View(d, O \union {n}, "started"), d)
  BY <1>1, <1>2, <1>3, <1>4, Texting DEF d
<1>7. Leads(<<e1, e2>>, View(c, O, "started"), View(d, O \union {n}, "started"), d)
  BY <1>5, <1>6, LeadsTwice
<1> QED BY <1>2, <1>3, <1>7 DEF d, e1, e2

\* The current block ends, if there is one.
LEMMA Closed ==
  ASSUME Live, content # <<>> \/ started, started, NEW d \in Seq(Cell), Beneath(content, d)
  PROVE  Leads(R!Finished, Sent, View(content, Opens \ {cur}, "started"), d)
<1>1. /\ content \in Seq(Cell) /\ cur \in Nat /\ Len(content) \in Nat
      /\ cur # 0 => cur = Len(content) /\ cur \in DOMAIN content
  BY DEF Live, ProviderTypes
<1>2. Sent = View(content, Opens, "started")
  BY DEF Sent
<1>3. CASE cur = 0
  <2>1. \A i \in DOMAIN content : i \in Opens <=> i \in Opens \ {cur}
    BY <1>1, <1>3
  <2>2. View(content, Opens, "started") = View(content, Opens \ {cur}, "started")
    BY <1>1, <2>1, ViewSame
  <2>3. Sent \in Views /\ Beneath(Sent.blocks, d)
    <3>1. Sent \in Views /\ Sent.blocks = Shown(content, Opens)
      BY <1>1, <1>2, ViewIs
    <3>2. Shown(content, Opens) \in Seq(Piece) /\ Beneath(Shown(content, Opens), content)
      BY <1>1, ShownIs
    <3> QED BY <1>1, <3>1, <3>2, BeneathGrown
  <2>4. Leads(<<>>, Sent, Sent, d)
    BY <2>3, LeadsNowhere
  <2> QED BY <1>2, <1>3, <2>2, <2>4 DEF R!Finished
<1>4. CASE cur # 0
  <2>1. R!Finished = << [type |-> "end", at |-> cur, kind |-> content[cur].kind] >>
    BY <1>1, <1>4 DEF R!Finished, R!End, R!BlockIndex
  <2> QED BY <1>1, <1>2, <1>4, <2>1, Ending
<1> QED BY <1>3, <1>4

\* And the message is begun, if it was not.
LEMMA Readied ==
  ASSUME Live, NEW d \in Seq(Cell), Beneath(content, d)
  PROVE  Leads(R!Finished \o R!EnsureStarted, Sent, View(content, Opens \ {cur}, "started"), d)
<1>1. /\ content \in Seq(Cell) /\ cur \in Nat
      /\ cur # 0 => cur = Len(content) /\ cur \in DOMAIN content
      /\ content # <<>> => started
  BY DEF Live, ProviderTypes, ProviderFits
<1>2. CASE started
  <2>1. Leads(R!Finished, Sent, View(content, Opens \ {cur}, "started"), d)
    BY <1>2, Closed
  <2>2. \E S : R!Finished \in Seq(S)
    BY <2>1 DEF Leads
  <2>3. R!Finished \o R!EnsureStarted = R!Finished
    BY <1>2, <2>2 DEF R!EnsureStarted
  <2> QED BY <2>1, <2>3
<1>3. CASE ~started
  <2>1. content = <<>> /\ cur = 0
    BY <1>1, <1>3
  <2>2. R!Finished \o R!EnsureStarted = << [type |-> "start"] >>
    BY <1>3, <2>1 DEF R!Finished, R!EnsureStarted
  <2>3. Sent = View(content, Opens, "silent")
    BY <1>3 DEF Sent
  <2>4. \A i \in DOMAIN content : i \in Opens <=> i \in Opens \ {cur}
    BY <2>1
  <2>5. Sent = View(content, Opens \ {cur}, "silent")
    BY <1>1, <2>3, <2>4, ViewSame
  <2> QED BY <1>1, <2>2, <2>5, Starting
<1> QED BY <1>2, <1>3

\* What taking an event of the service says.
LEMMA Taking ==
  ASSUME ReplyInv, R!Takes
  PROVE  /\ Live /\ ~over /\ reader = "reading" /\ over' = over /\ UNCHANGED R!readerVars
         /\ inputs \in Nat /\ inputs' \in Nat /\ family' = family
         /\ content \in Seq(Cell) /\ Len(content) \in Nat /\ DOMAIN content = 1..Len(content)
         /\ cur \in Nat /\ (cur # 0 => cur = Len(content) /\ cur \in DOMAIN content)
         /\ started \in BOOLEAN /\ over' \in BOOLEAN
         /\ (content # <<>> => started) /\ Beneath(content, content)
<1>1. Live /\ ~over /\ reader = "reading"
  BY DEF R!Takes, ReplyInv
<1>2. content \in Seq(Cell)
  BY <1>1 DEF Live, ProviderTypes
<1>3. Len(content) \in Nat /\ DOMAIN content = 1..Len(content) /\ Beneath(content, content)
  BY <1>2, BeneathSelf
<1>4. over' = over /\ UNCHANGED R!readerVars /\ family' = family /\ inputs' = inputs + 1
  BY DEF R!Takes
<1>5. /\ inputs \in Nat /\ started \in BOOLEAN /\ over \in BOOLEAN /\ cur \in Nat
      /\ (cur # 0 => cur = Len(content) /\ cur \in DOMAIN content)
      /\ (content # <<>> => started)
  BY <1>1 DEF Live, ProviderTypes, ProviderFits
<1>6. inputs' \in Nat
  BY <1>4, <1>5
<1>7. over' \in BOOLEAN
  BY <1>4, <1>5, Zenon
<1> QED BY <1>1, <1>2, <1>3, <1>4, <1>5, <1>6, <1>7, Zenon

\* What is emitted leads to a view of what is sent then.
LEMMA Told ==
  ASSUME ReplyInv, R!Takes, NEW ev, wire' = wire \o ev, ProviderTypes', ProviderFits',
         Beneath(content, content'), NEW O, Leads(ev, Sent, View(content', O, "started"), content'),
         \A i \in DOMAIN content' : i \in Opens' <=> i \in O, started'
  PROVE  ReplyInv'
<1>1. content' \in Seq(Cell)
  BY DEF ProviderTypes
<1>2. View(content', Opens', "started") = View(content', O, "started")
  BY <1>1, ViewSame
<1>3. Sent' = View(content', O, "started")
  BY <1>2 DEF Sent
<1> QED BY <1>3, Taking, Emitted

\* The message with a new block and its first text, and how that is told.
Grown(c, b) == R!With(Append(c, b), Len(Append(c, b)), R!Token)
Telling(k) == << R!Begin(Len(k), R!Last(k)), R!Delta(Len(k), R!Last(k), R!Token) >>

\* A block is its fields.
LEMMA CellIs ==
  ASSUME NEW b \in Cell
  PROVE  b = [kind |-> b.kind, id |-> b.id, said |-> b.said, body |-> b.body,
              origin |-> b.origin, key |-> b.key]
<1>1. b \in [kind : R!Kinds, id : Nat, said : Seq(Nat), body : Seq(Nat),
            origin : {"deltas", "service"}, key : Nat]
  BY DEF Cell
<1> QED BY <1>1

\* A block with another text, and with another origin.
LEMMA OtherText ==
  ASSUME NEW b, NEW kind, NEW id, NEW out, NEW old, NEW text, NEW from, NEW to, NEW key,
         b = [kind |-> kind, id |-> id, said |-> out, body |-> old, origin |-> from, key |-> key]
  PROVE  /\ [b EXCEPT !.body = text] = [kind |-> kind, id |-> id, said |-> out, body |-> text,
                                        origin |-> from, key |-> key]
         /\ [b EXCEPT !.said = text] = [kind |-> kind, id |-> id, said |-> text, body |-> old,
                                        origin |-> from, key |-> key]
         /\ [b EXCEPT !.origin = to] = [kind |-> kind, id |-> id, said |-> out, body |-> old,
                                        origin |-> to, key |-> key]
OBVIOUS

\* A piece of text more makes a block longer.
LEMMA WithIs ==
  ASSUME NEW c \in Seq(Cell), NEW i \in DOMAIN c, NEW n \in Nat
  PROVE  R!With(c, i, n) = Longer(c, i, n)
<1> DEFINE a == Append(c[i].said, n)
           t == Append(c[i].body, n)
           b == [c[i] EXCEPT !.said = a]
           d == [b EXCEPT !.body = t]
<1>1. c[i] \in Cell
  BY CellAt
<1>2. R!With(c, i, n) = [c EXCEPT ![i] = d]
  BY DEF R!With
<1> HIDE DEF a, t
<1>3. b = Changed(c[i], a, c[i].body)
  BY <1>1, CellIs, OtherText DEF Changed
<1> HIDE DEF b
<1>4. d = Changed(c[i], a, t)
  BY <1>3 DEF Changed
<1> QED BY <1>2, <1>4 DEF Longer, a, t

\* A block that begins with its first text.
LEMMA NewText ==
  ASSUME NEW c \in Seq(Cell), NEW O, NEW b \in Cell, b.said = <<>>, inputs \in Nat
  PROVE  /\ Len(Append(c, b)) = Len(c) + 1 /\ Len(c) \in Nat /\ DOMAIN c = 1..Len(c)
         /\ Grown(c, b) \in Seq(Cell) /\ Len(Grown(c, b)) = Len(c) + 1
         /\ DOMAIN Grown(c, b) = 1..(Len(c) + 1)
         /\ Beneath(c, Grown(c, b))
         /\ Grown(c, b)[Len(c) + 1].kind = b.kind /\ Grown(c, b)[Len(c) + 1].key = b.key
         /\ \A i \in DOMAIN c : /\ Grown(c, b)[i].kind = c[i].kind
                                /\ Grown(c, b)[i].key = c[i].key
         /\ Leads(Telling(Append(c, b)), View(c, O, "started"),
                  View(Grown(c, b), O \union {Len(c) + 1}, "started"), Grown(c, b))
<1> DEFINE n == Len(c) + 1
           k == Append(c, b)
           d == Grown(c, b)
           t == inputs + 1
<1>1. /\ k \in Seq(Cell) /\ Len(k) = n /\ k[n] = b /\ \A i \in 1..Len(c) : k[i] = c[i]
      /\ DOMAIN k = 1..n /\ DOMAIN c = 1..Len(c) /\ Len(c) \in Nat
  BY BeneathMore
<1>2. n \in DOMAIN k /\ n \in Nat /\ \A i \in 1..Len(c) : i \in DOMAIN k
  BY <1>1
<1>3. R!Last(k) = b
  BY <1>1 DEF R!Last
<1>4. d = Longer(k, n, t) /\ t \in Nat
  <2>1. d = R!With(k, Len(k), t)
    BY DEF Grown, R!Token
  <2> HIDE DEF d, k, t
  <2>2. d = R!With(k, n, t) /\ k \in Seq(Cell) /\ n \in DOMAIN k
    BY <2>1, <1>1, <1>2
  <2>3. t \in Nat
    BY DEF t
  <2> QED BY <2>2, <2>3, WithIs
<1>5. Telling(k) = << [type |-> "begin", at |-> n, kind |-> b.kind, id |-> b.id],
                      [type |-> "delta", at |-> n, kind |-> b.kind, token |-> t] >>
  <2>1. Telling(k) = << R!Begin(n, b), R!Delta(n, b, R!Token) >>
    BY <1>1, <1>3 DEF Telling
  <2> QED BY <2>1 DEF R!Begin, R!Delta, R!Token
<1>6. k = Append(c, b) /\ n = Len(c) + 1
  OBVIOUS
<1> HIDE DEF k, n, d, t
<1>7. /\ d \in Seq(Cell) /\ Len(d) = n
      /\ \A i \in DOMAIN k : d[i].kind = k[i].kind /\ d[i].key = k[i].key
  BY <1>1, <1>2, <1>4, LongerIs
<1>8. DOMAIN d = 1..n
  BY <1>7
<1>9. /\ Beneath(c, d)
      /\ Leads(Telling(k), View(c, O, "started"), View(d, O \union {n}, "started"), d)
  BY <1>4, <1>5, <1>6, BeginningText
<1>10. d[n].kind = b.kind /\ d[n].key = b.key
       /\ \A i \in DOMAIN c : d[i].kind = c[i].kind /\ d[i].key = c[i].key
  BY <1>1, <1>2, <1>7
<1> QED BY <1>1, <1>2, <1>7, <1>8, <1>9, <1>10 DEF k, n, d

LEMMA TokenIsNumber == ASSUME inputs \in Nat PROVE R!Token \in Nat
BY DEF R!Token

\* More text for a block that is open.
LEMMA OldText ==
  ASSUME NEW c \in Seq(Cell), NEW O, NEW i \in DOMAIN c, i \in O, NEW n \in Nat
  PROVE  /\ R!With(c, i, n) \in Seq(Cell) /\ Len(R!With(c, i, n)) = Len(c)
         /\ DOMAIN R!With(c, i, n) = DOMAIN c /\ Beneath(c, R!With(c, i, n))
         /\ \A j \in DOMAIN c : /\ R!With(c, i, n)[j].kind = c[j].kind
                                /\ R!With(c, i, n)[j].key = c[j].key
         /\ Leads(<< R!Delta(i, c[i], n) >>, View(c, O, "started"),
                  View(R!With(c, i, n), O, "started"), R!With(c, i, n))
<1> DEFINE d == R!With(c, i, n)
<1> SUFFICES
         /\ d \in Seq(Cell) /\ Len(d) = Len(c) /\ DOMAIN d = DOMAIN c /\ Beneath(c, d)
         /\ \A j \in DOMAIN c : d[j].kind = c[j].kind /\ d[j].key = c[j].key
         /\ Leads(<< R!Delta(i, c[i], n) >>, View(c, O, "started"), View(d, O, "started"), d)
  OBVIOUS
<1>0. d = R!With(c, i, n)
  OBVIOUS
<1> HIDE DEF d
<1>1. d = Longer(c, i, n)
  BY <1>0, WithIs
<1>2. /\ d \in Seq(Cell) /\ Len(d) = Len(c) /\ Beneath(c, d)
      /\ \A j \in DOMAIN c : d[j].kind = c[j].kind /\ d[j].key = c[j].key
  <2> DEFINE l == Longer(c, i, n)
  <2>1. /\ l \in Seq(Cell) /\ Len(l) = Len(c) /\ Beneath(c, l)
        /\ \A j \in DOMAIN c : l[j].kind = c[j].kind /\ l[j].id = c[j].id /\ l[j].key = c[j].key
    BY <1>1, LongerIs
  <2> HIDE DEF l
  <2>2. d = l
    BY <1>1 DEF l
  <2> QED BY <2>1, <2>2
<1>3. R!Delta(i, c[i], n) = [type |-> "delta", at |-> i, kind |-> c[i].kind, token |-> n]
  BY DEF R!Delta
<1>4. Beneath(d, d) /\ DOMAIN d = DOMAIN c
  BY <1>2, BeneathSelf
<1> QED BY <1>1, <1>2, <1>3, <1>4, Texting

\* A block that begins is a block, with a text or without.
LEMMA NewBlockOf ==
  ASSUME NEW kind \in R!Kinds, NEW id \in Nat, NEW key \in Nat, NEW text \in Seq(Nat)
  PROVE  /\ R!BlockOf(kind, id, key, text) \in Cell
         /\ R!BlockOf(kind, id, key, text).said = <<>>
         /\ R!BlockOf(kind, id, key, text).kind = kind
         /\ R!BlockOf(kind, id, key, text).key = key
<1> DEFINE none == <<>>
           from == IF text = none THEN "deltas" ELSE "service"
           b == [kind |-> kind, id |-> id, said |-> none, body |-> text, origin |-> from,
                 key |-> key]
<1>1. none \in Seq(Nat) /\ from \in {"deltas", "service"} /\ (from = "deltas" => text = none)
  OBVIOUS
<1>2. R!BlockOf(kind, id, key, text) = b
  BY DEF R!BlockOf
<1> HIDE DEF none, from
<1>3. b.said = none /\ b.kind = kind /\ b.key = key
  OBVIOUS
<1>4. b \in Cell
  BY <1>1 DEF Cell
<1> HIDE DEF b
<1> QED BY <1>2, <1>3, <1>4 DEF none

LEMMA NewBlock ==
  ASSUME NEW kind \in R!Kinds, NEW id \in Nat, NEW key \in Nat
  PROVE  /\ R!Block(kind, id, key) \in Cell /\ R!Block(kind, id, key).said = <<>>
         /\ R!Block(kind, id, key).kind = kind /\ R!Block(kind, id, key).key = key
<1>1. <<>> \in Seq(Nat)
  OBVIOUS
<1>2. R!Block(kind, id, key) = R!BlockOf(kind, id, key, <<>>)
  BY DEF R!Block
<1> DEFINE none == <<>>
<1>3. none \in Seq(Nat) /\ R!Block(kind, id, key) = R!BlockOf(kind, id, key, none)
  BY <1>1, <1>2
<1> HIDE DEF none
<1>4. /\ R!BlockOf(kind, id, key, none) \in Cell /\ R!BlockOf(kind, id, key, none).said = <<>>
      /\ R!BlockOf(kind, id, key, none).kind = kind /\ R!BlockOf(kind, id, key, none).key = key
  BY <1>3, NewBlockOf
<1> QED BY <1>3, <1>4

(***************************************************************************)
(* Text and calls of the providers that end their blocks.                  *)
(***************************************************************************)
EndsBlocks == family \notin {"anthropic", "bedrock", "responses", "codex"}

\* A delta for the current block keeps the invariant.
LEMMA ContinueStep ==
  ASSUME ReplyInv, R!Takes, EndsBlocks, cur # 0, R!Continue, UNCHANGED upstream
  PROVE  ReplyInv'
<1>1. R!EndsItsBlocks /\ ~Keyed /\ ~R!Responses
  BY DEF EndsBlocks, R!EndsItsBlocks, Keyed, R!Responses
<1>2. /\ content' = R!With(content, cur, R!Token) /\ cur' = cur /\ started' = started /\ upstream' = upstream
      /\ wire' = wire \o << R!Delta(cur, content[cur], R!Token) >>
  BY Taking DEF R!Continue, R!Emits, R!BlockIndex
<1>3. cur \in Opens /\ cur \in DOMAIN content /\ started
  <2>1. cur \in DOMAIN content /\ started
    BY Taking
  <2> QED BY <1>1, <2>1 DEF Opens
<1>4. Sent = View(content, Opens, "started")
  BY <1>3 DEF Sent
<1>5. /\ content' \in Seq(Cell) /\ Len(content') = Len(content) /\ DOMAIN content' = DOMAIN content
      /\ Beneath(content, content')
      /\ \A j \in DOMAIN content : content'[j].kind = content[j].kind
      /\ Leads(<< R!Delta(cur, content[cur], R!Token) >>, Sent, View(content', Opens, "started"), content')
  BY <1>2, <1>3, <1>4, Taking, TokenIsNumber, OldText
<1>6. Live
  BY Taking
<1>7. ProviderTypes'
  BY <1>2, <1>5, <1>6, Taking DEF ProviderTypes, Live
<1>8. ProviderFits'
  <2>1. ~Keyed' /\ ~R!Responses'
    BY <1>1, Taking DEF Keyed, R!Responses
  <2> QED BY <1>2, <1>3, <1>5, <1>6, <2>1, Taking DEF ProviderFits, Live
<1>9. \A i \in DOMAIN content' : i \in Opens' <=> i \in Opens
  <2>1. ~Keyed' /\ family' = family
    BY <1>1, Taking DEF Keyed
  <2> QED BY <1>1, <1>2, <1>5, <2>1 DEF Opens
<1> QED BY <1>2, <1>3, <1>5, <1>7, <1>8, <1>9, Told

\* So does a new block after the current one.
LEMMA BeginStep ==
  ASSUME ReplyInv, R!Takes, EndsBlocks, NEW kind \in R!Kinds, NEW id \in Nat,
         R!BeginBlock(kind, id), UNCHANGED upstream, family = "mistral" => kind # "toolCall"
  PROVE  ReplyInv'
<1>1. R!EndsItsBlocks /\ ~Keyed /\ ~R!Responses /\ ~Keyed' /\ ~R!Responses' /\ family' = family
      /\ family' # "bedrock"
  BY Taking DEF EndsBlocks, R!EndsItsBlocks, Keyed, R!Responses
<1> DEFINE b == R!Block(kind, id, 0)
           k == Append(content, b)
           n == Len(content) + 1
           d == Grown(content, b)
           O == Opens \ {cur}
           ev == Telling(k)
<1>2. b \in Cell /\ b.said = <<>> /\ b.kind = kind
  BY NewBlock
<1>3. /\ content' = d /\ cur' = Len(k) /\ started' = TRUE
      /\ wire' = wire \o ((R!Finished \o R!EnsureStarted) \o ev)
  BY DEF R!BeginBlock, R!Emits, R!BlockIndex, Grown, Telling
<1>4. /\ Len(k) = n /\ n \in Nat /\ d \in Seq(Cell) /\ Len(d) = n
      /\ DOMAIN d = 1..n /\ Beneath(content, d)
      /\ d[n].kind = kind
      /\ \A i \in DOMAIN content : d[i].kind = content[i].kind
      /\ Leads(ev, View(content, O, "started"), View(d, O \union {n}, "started"), d)
  <2>1. content \in Seq(Cell) /\ inputs \in Nat
    BY Taking
  <2> HIDE DEF b, O
  <2> QED BY <1>2, <2>1, NewText
<1> HIDE DEF b, k, n, d, ev, O
<1>5. Leads(R!Finished \o R!EnsureStarted, Sent, View(content, O, "started"), d)
  BY <1>4, Taking, Readied DEF O
<1>6. Leads((R!Finished \o R!EnsureStarted) \o ev, Sent, View(d, O \union {n}, "started"), d)
  BY <1>4, <1>5, LeadsOn
<1>7. ProviderTypes'
  <2>1. ProviderTypes
    BY Taking DEF Live
  <2>2. cur' = n /\ n # 0 /\ n = Len(content') /\ n \in DOMAIN content'
    <3>1. Len(content) \in Nat /\ n = Len(content) + 1
      BY Taking DEF n
    <3>2. n \in 1..n /\ n # 0
      BY <3>1
    <3> QED BY <1>3, <1>4, <3>2
  <2> QED BY <1>3, <1>4, <2>1, <2>2, Taking DEF ProviderTypes
<1>8. ProviderFits'
  BY <1>1, <1>3, <1>4 DEF ProviderFits
<1>9. \A i \in DOMAIN content' : i \in Opens' <=> i \in O \union {n}
  <2>1. SUFFICES ASSUME NEW i \in 1..n PROVE i \in Opens' <=> i \in O \union {n}
    BY <1>3, <1>4
  <2>2. i = n \/ (i \in DOMAIN content /\ i # n)
    <3>1. Len(content) \in Nat /\ n = Len(content) + 1 /\ DOMAIN content = 1..Len(content)
      BY Taking DEF n
    <3> HIDE DEF n
    <3> QED BY <3>1
  <2>3. cur # 0 => cur \in DOMAIN content
    BY Taking
  <2>4. i \in Opens' <=> i = n \/ (family = "mistral" /\ d[i].kind = "toolCall")
    BY <1>1, <1>3, <1>4 DEF Opens
  <2>5. i # n => (i \in O <=> i # cur /\ family = "mistral" /\ content[i].kind = "toolCall")
    BY <1>1, <2>2 DEF Opens, O
  <2>6. family = "mistral" /\ cur # 0 => content[cur].kind # "toolCall"
    BY Taking DEF Live, ProviderFits
  <2>7. i # n => (i \in Opens' <=> i \in O)
    <3> SUFFICES ASSUME i # n PROVE i \in Opens' <=> i \in O
      OBVIOUS
    <3>1. d[i].kind = content[i].kind /\ i # 0
      BY <1>4, <2>2, Taking
    <3> QED BY <2>4, <2>5, <2>6, <3>1
  <2> QED BY <2>4, <2>7
<1>10. Beneath(content, content')
  BY <1>3, <1>4
<1> QED BY <1>3, <1>6, <1>7, <1>8, <1>9, <1>10, Told

\* Text and reasoning of the providers whose chunks say nothing of blocks.
LEMMA TextStep ==
  ASSUME ReplyInv, EndsBlocks, NEW kind \in {"text", "thinking"}, R!TextPart(kind)
  PROVE  ReplyInv'
<1>1. R!Takes /\ UNCHANGED upstream
  BY DEF R!TextPart
<1>2. CASE cur # 0 /\ content[cur].kind = kind
  BY <1>1, <1>2, ContinueStep DEF R!TextPart
<1>3. CASE ~(cur # 0 /\ content[cur].kind = kind)
  <2>1. R!BeginBlock(kind, 0) /\ kind \in R!Kinds /\ kind # "toolCall"
    BY <1>3 DEF R!TextPart, R!Kinds
  <2> QED BY <1>1, <2>1, BeginStep
<1> QED BY <1>2, <1>3

\* A piece of a call.
LEMMA CompletionsCallStep ==
  ASSUME ReplyInv, NEW id \in 0..2, R!CompletionsToolCall(id)
  PROVE  ReplyInv'
<1>1. R!Takes /\ UNCHANGED upstream /\ family = "completions" /\ EndsBlocks
  BY DEF R!CompletionsToolCall, EndsBlocks
<1>2. CASE cur # 0 /\ content[cur].kind = "toolCall" /\ id \in {0, content[cur].id}
  BY <1>1, <1>2, ContinueStep DEF R!CompletionsToolCall
<1>3. CASE ~(cur # 0 /\ content[cur].kind = "toolCall" /\ id \in {0, content[cur].id})
  <2>1. R!BeginBlock("toolCall", id) /\ "toolCall" \in R!Kinds /\ id \in Nat
    BY <1>3 DEF R!CompletionsToolCall, R!Kinds
  <2> QED BY <1>1, <2>1, BeginStep
<1> QED BY <1>2, <1>3

\* A piece of one of Mistral's calls, which may be interleaved.
LEMMA MistralCallStep ==
  ASSUME ReplyInv, NEW id \in 1..2, R!MistralToolCall(id)
  PROVE  ReplyInv'
<1> DEFINE Known == { i \in DOMAIN content : content[i].kind = "toolCall" /\ content[i].id = id }
           place == CHOOSE i \in Known : TRUE
           b == R!Block("toolCall", id, 0)
           k == Append(content, b)
           n == Len(content) + 1
           O == Opens \ {cur}
<1>1. R!Takes /\ UNCHANGED <<upstream, started>> /\ family = "mistral" /\ cur' = 0
  BY DEF R!MistralToolCall
<1>2. ~Keyed /\ ~R!Responses /\ ~Keyed' /\ ~R!Responses' /\ family' = "mistral" /\ started
  <2>1. started
    BY <1>1, Taking DEF Live, ProviderFits
  <2> QED BY <1>1, <2>1, Taking DEF Keyed, R!Responses
<1>3. \A i \in DOMAIN content : i \in O <=> content[i].kind = "toolCall"
  <2>1. \A i \in DOMAIN content : i \in O <=> content[i].kind = "toolCall" /\ i # cur
    BY <1>1, <1>2 DEF Opens
  <2>2. cur # 0 => content[cur].kind # "toolCall"
    BY <1>1, Taking DEF Live, ProviderFits
  <2>3. \A i \in DOMAIN content : i # 0
    BY Taking
  <2> QED BY <2>1, <2>2, <2>3
<1>4. \A c : /\ c = content' /\ c \in Seq(Cell)
             /\ Beneath(content, c)
             => ProviderTypes' /\ ProviderFits'
  <2> SUFFICES ASSUME content' \in Seq(Cell) PROVE ProviderTypes' /\ ProviderFits'
    OBVIOUS
  <2>1. ProviderTypes
    BY <1>1, Taking DEF Live
  <2> QED BY <1>1, <1>2, <2>1, Taking DEF ProviderTypes, ProviderFits
<1>5. CASE Known # {}
  <2>1. place \in Known
    BY <1>5
  <2>2. place \in DOMAIN content /\ place \in O
    BY <1>3, <2>1
  <2>3. /\ content' = R!With(content, place, R!Token)
        /\ wire' = wire \o (R!Finished \o << R!Delta(place, content[place], R!Token) >>)
    BY <1>5 DEF R!MistralToolCall, R!Emits
  <2> HIDE DEF place, O, Known
  <2>4. /\ content' \in Seq(Cell) /\ DOMAIN content' = DOMAIN content
        /\ Beneath(content, content')
        /\ \A j \in DOMAIN content : content'[j].kind = content[j].kind
        /\ Leads(<< R!Delta(place, content[place], R!Token) >>, View(content, O, "started"),
                 View(content', O, "started"), content')
    <3>1. R!Token \in Nat /\ content \in Seq(Cell)
      BY <1>1, Taking, TokenIsNumber
    <3> DEFINE token == R!Token
               d == R!With(content, place, token)
    <3> HIDE DEF token
    <3>2. /\ d \in Seq(Cell) /\ DOMAIN d = DOMAIN content /\ Beneath(content, d)
          /\ \A j \in DOMAIN content : d[j].kind = content[j].kind
          /\ Leads(<< R!Delta(place, content[place], token) >>, View(content, O, "started"),
                   View(d, O, "started"), d)
      BY <3>1, <2>2, OldText DEF token
    <3> HIDE DEF d
    <3>3. content' = d
      BY <2>3 DEF d, token
    <3> QED BY <3>2, <3>3 DEF token
  <2>5. Leads(R!Finished, Sent, View(content, O, "started"), content')
    BY <1>1, <1>2, <2>4, Taking, Closed DEF O
  <2>6. Leads(R!Finished \o << R!Delta(place, content[place], R!Token) >>, Sent,
              View(content', O, "started"), content')
    BY <2>4, <2>5, LeadsOn
  <2>7. \A i \in DOMAIN content' : i \in Opens' <=> i \in O
    <3>1. \A i \in DOMAIN content' : i \in Opens' <=> i = 0 \/ content'[i].kind = "toolCall"
      BY <1>1, <1>2 DEF Opens
    <3>2. \A i \in DOMAIN content : i # 0
      BY <1>1, Taking
    <3> QED BY <1>3, <2>4, <3>1, <3>2
  <2>8. ProviderTypes' /\ ProviderFits' /\ started'
    BY <1>1, <1>2, <1>4, <2>4
  <2> QED BY <1>1, <2>3, <2>4, <2>6, <2>7, <2>8, Told
<1>6. CASE Known = {}
  <2> DEFINE ev == Telling(k)
             d == Grown(content, b)
  <2>1. content' = d /\ wire' = wire \o (R!Finished \o ev)
    BY <1>6 DEF R!MistralToolCall, R!Emits, Grown, Telling
  <2>2. b \in Cell /\ b.said = <<>> /\ b.kind = "toolCall"
    BY NewBlock DEF R!Kinds
  <2>3. content \in Seq(Cell) /\ inputs \in Nat
    BY <1>1, Taking
  <2> HIDE DEF b, O
  <2>4. /\ d \in Seq(Cell) /\ DOMAIN d = 1..n /\ Beneath(content, d)
        /\ d[n].kind = "toolCall" /\ DOMAIN content = 1..Len(content) /\ Len(content) \in Nat
        /\ \A i \in DOMAIN content : d[i].kind = content[i].kind
        /\ Leads(ev, View(content, O, "started"), View(d, O \union {n}, "started"), d)
    BY <2>2, <2>3, NewText
  <2> HIDE DEF k, ev, d, n
  <2>5. Leads(R!Finished, Sent, View(content, O, "started"), d)
    BY <1>1, <1>2, <2>4, Taking, Closed DEF O
  <2>6. Leads(R!Finished \o ev, Sent, View(d, O \union {n}, "started"), d)
    BY <2>4, <2>5, LeadsOn
  <2>7. \A i \in DOMAIN content' : i \in Opens' <=> i \in O \union {n}
    <3>1. \A i \in DOMAIN content' : i \in Opens' <=> i = 0 \/ content'[i].kind = "toolCall"
      BY <1>1, <1>2 DEF Opens
    <3>2. \A i \in 1..n : i # 0 /\ (i = n \/ i \in DOMAIN content)
      BY <2>4 DEF n
    <3> QED BY <1>3, <2>1, <2>4, <3>1, <3>2
  <2>8. ProviderTypes' /\ ProviderFits' /\ started'
    BY <1>1, <1>2, <1>4, <2>1, <2>4
  <2> QED BY <1>1, <2>1, <2>4, <2>6, <2>7, <2>8, Told
<1> QED BY <1>5, <1>6

\* The Google services send a call whole.
LEMMA FunctionCallStep ==
  ASSUME ReplyInv, family \in {"google", "vertex", "gemini"}, NEW id \in 0..2, R!FunctionCall(id)
  PROVE  ReplyInv'
<1> DEFINE b == R!Block("toolCall", R!ToolCallId(id), 0)
           k == Append(content, b)
           n == Len(content) + 1
           d == Grown(content, b)
           O == Opens \ {cur}
           e == R!End(Len(k), R!Last(k))
           ev == Telling(k) \o <<e>>
<1>1. R!Takes /\ UNCHANGED upstream
  BY DEF R!FunctionCall
<1>2. ~Keyed /\ ~R!Responses /\ ~Keyed' /\ ~R!Responses' /\ family' = family
      /\ family # "mistral"
  BY <1>1, Taking DEF Keyed, R!Responses
<1>3. b \in Cell /\ b.said = <<>> /\ b.kind = "toolCall"
  <2>1. R!ToolCallId(id) \in Nat
    <3>1. id \in Nat /\ 100 + R!Token \in Nat
      BY <1>1, Taking DEF R!Token
    <3> QED BY <3>1 DEF R!ToolCallId
  <2> QED BY <2>1, NewBlock DEF R!Kinds
<1>4. /\ content' = d /\ cur' = 0 /\ started' = TRUE
      /\ wire' = wire \o ((R!Finished \o R!EnsureStarted) \o ev)
  <2>1. /\ content' = d /\ cur' = 0 /\ started' = TRUE
        /\ wire' = wire \o ((R!Finished \o R!EnsureStarted)
                     \o << R!Begin(Len(k), R!Last(k)), R!Delta(Len(k), R!Last(k), R!Token), e >>)
    BY DEF R!FunctionCall, R!Emits, R!BlockIndex, Grown
  <2>2. ev = << R!Begin(Len(k), R!Last(k)), R!Delta(Len(k), R!Last(k), R!Token), e >>
    <3> DEFINE x == R!Begin(Len(k), R!Last(k))
               y == R!Delta(Len(k), R!Last(k), R!Token)
    <3>1. ev = <<x, y>> \o <<e>>
      BY DEF Telling
    <3> HIDE DEF x, y, e
    <3> DEFINE S == {x, y, e}
               l == <<x, y>> \o <<e>>
               r == <<x, y, e>>
    <3>2. <<x, y>> \in Seq(S) /\ <<e>> \in Seq(S) /\ Len(<<x, y>>) = 2 /\ Len(<<e>>) = 1
          /\ <<x, y>>[1] = x /\ <<x, y>>[2] = y /\ <<e>>[1] = e
      OBVIOUS
    <3>3. r \in Seq(S) /\ Len(r) = 3 /\ r[1] = x /\ r[2] = y /\ r[3] = e
      OBVIOUS
    <3>4. l \in Seq(S) /\ Len(l) = 3 /\ l[1] = x /\ l[2] = y /\ l[3] = e
      BY <3>2, ConcatProperties
    <3> HIDE DEF l, r
    <3>5. \A i \in 1..3 : l[i] = r[i]
      BY <3>3, <3>4
    <3>6. l = r
      BY <3>3, <3>4, <3>5, SeqEqual
    <3> QED BY <3>1, <3>6 DEF l, r, x, y
  <2> QED BY <2>1, <2>2
<1>5. content \in Seq(Cell) /\ inputs \in Nat
  BY <1>1, Taking
<1>6. R!Last(k) = b /\ Len(k) = n
  <2> HIDE DEF b
  <2>1. Len(k) = n /\ k[n] = b
    BY <1>3, <1>5, BeneathMore
  <2> QED BY <2>1 DEF R!Last
<1>7. e = [type |-> "end", at |-> n, kind |-> b.kind]
  BY <1>6 DEF R!End
<1> HIDE DEF b, O, e
<1>8. /\ n \in Nat /\ d \in Seq(Cell) /\ DOMAIN d = 1..n /\ Beneath(content, d)
      /\ d[n].kind = b.kind /\ DOMAIN content = 1..Len(content) /\ Len(content) \in Nat
      /\ Leads(Telling(k), View(content, O, "started"), View(d, O \union {n}, "started"), d)
  BY <1>3, <1>5, NewText
<1> HIDE DEF k, ev, d, n
<1>9. Leads(<<e>>, View(d, O \union {n}, "started"), View(d, (O \union {n}) \ {n}, "started"), d)
  <2>1. n \in DOMAIN d /\ e = [type |-> "end", at |-> n, kind |-> d[n].kind]
    <3>1. n \in 1..n
      BY <1>8 DEF n
    <3> QED BY <1>7, <1>8, <3>1
  <2>2. Beneath(d, d)
    BY <1>8, BeneathSelf
  <2> QED BY <1>8, <2>1, <2>2, Ending
<1>10. Leads(R!Finished \o R!EnsureStarted, Sent, View(content, O, "started"), d)
  BY <1>1, <1>8, Taking, Readied DEF O
<1>11. Leads(ev, View(content, O, "started"), View(d, (O \union {n}) \ {n}, "started"), d)
  BY <1>8, <1>9, LeadsOn DEF ev
<1>12. Leads((R!Finished \o R!EnsureStarted) \o ev, Sent,
             View(d, (O \union {n}) \ {n}, "started"), d)
  BY <1>10, <1>11, LeadsOn
<1>13. ProviderTypes'
  <2>1. ProviderTypes
    BY <1>1, Taking DEF Live
  <2> QED BY <1>1, <1>4, <1>8, <2>1, Taking DEF ProviderTypes
<1>14. ProviderFits'
  BY <1>2, <1>4 DEF ProviderFits
<1>15. \A i \in DOMAIN content' : i \in Opens' <=> i \in (O \union {n}) \ {n}
  <2>1. \A i \in DOMAIN content' : ~(i \in Opens')
    <3>1. \A i \in 1..n : i # 0
      BY <1>8
    <3> QED BY <1>2, <1>4, <1>8, <3>1 DEF Opens
  <2>2. \A i \in DOMAIN content : i = cur \/ ~(i \in Opens)
    BY <1>2 DEF Opens
  <2>3. \A i \in 1..n : i = n \/ i \in DOMAIN content
    BY <1>8 DEF n
  <2> QED BY <1>4, <1>8, <2>1, <2>2, <2>3 DEF O
<1> QED BY <1>1, <1>4, <1>8, <1>12, <1>13, <1>14, <1>15, Told

(***************************************************************************)
(* Services that number their blocks.                                      *)
(***************************************************************************)
\* An item more.
Begun(up, kind) == Append(up, [kind |-> kind, live |-> TRUE])
\* What a service has begun, after one more block or item.
LEMMA ItemMore ==
  ASSUME NEW up \in Seq(Item), NEW kind \in R!Kinds \union {"other"}
  PROVE  /\ Begun(up, kind) \in Seq(Item) /\ Begun(up, kind) # <<>>
         /\ R!Last(Begun(up, kind)).live /\ R!Last(Begun(up, kind)).kind = kind
         /\ Len(Begun(up, kind)) \in Nat
         /\ \A j \in DOMAIN Begun(up, kind) :
              (j \in DOMAIN up /\ Begun(up, kind)[j] = up[j]) \/ Begun(up, kind)[j].kind = kind
<1> DEFINE on == TRUE
           i == [kind |-> kind, live |-> on]
           then == Begun(up, kind)
<1>1. i \in Item
  BY DEF Item
<1>2. i.live /\ i.kind = kind
  OBVIOUS
<1>3. then = Append(up, i)
  BY DEF Begun
<1> HIDE DEF i, then
<1>4. /\ then \in Seq(Item) /\ then # <<>> /\ Len(then) = Len(up) + 1 /\ then[Len(up) + 1] = i
      /\ \A j \in 1..Len(up) : then[j] = up[j]
  BY <1>1, <1>3, AppendProperties
<1>5. R!Last(then) = i
  BY <1>4 DEF R!Last
<1>6. ASSUME NEW j \in DOMAIN then
      PROVE  (j \in DOMAIN up /\ then[j] = up[j]) \/ then[j].kind = kind
  <2>1. j \in 1..(Len(up) + 1) /\ Len(up) \in Nat /\ DOMAIN up = 1..Len(up)
    BY <1>4
  <2> QED BY <1>2, <1>4, <2>1
<1>7. Len(then) \in Nat
  BY <1>4
<1> QED BY <1>2, <1>4, <1>5, <1>6, <1>7 DEF then

\* A block of which only the beginning comes, numbered or the current one.
LEMMA PushStep ==
  ASSUME ReplyInv, R!Takes, started, started' = started, family \notin {"mistral"},
         NEW kind \in R!Kinds, NEW key \in Nat, NEW b \in Cell, R!Push(b),
         b.said = <<>>, b.kind = kind, b.key = key,
         Keyed => key # 0 /\ cur' = 0,
         ~Keyed => key = 0 /\ cur = 0 /\ cur' = Len(content'),
         upstream' = Begun(upstream, kind)
  PROVE  ReplyInv'
<1> DEFINE k == Append(content, b)
           n == Len(content) + 1
<1>0. /\ upstream' \in Seq(Item)
      /\ upstream' # <<>> /\ R!Last(upstream').live /\ R!Last(upstream').kind = kind
      /\ \A j \in DOMAIN upstream' :
           (j \in DOMAIN upstream /\ upstream'[j] = upstream[j]) \/ upstream'[j].kind = kind
  <2>1. upstream \in Seq(Item)
    BY Taking DEF Live, ProviderTypes
  <2>2. kind \in R!Kinds \union {"other"}
    OBVIOUS
  <2>3. upstream' = Begun(upstream, kind)
    OBVIOUS
  <2> QED BY <2>1, <2>2, <2>3, ItemMore
<1>1. b \in Cell /\ b.said = <<>> /\ b.kind = kind /\ b.key = key
  OBVIOUS
<1>2. content' = k
  BY DEF R!Push
<1>3. /\ k \in Seq(Cell) /\ Len(k) = n /\ DOMAIN content = 1..Len(content) /\ DOMAIN k = 1..n
      /\ Len(content) \in Nat /\ k[n] = b /\ \A i \in 1..Len(content) : k[i] = content[i]
      /\ Beneath(content, k) /\ Beneath(k, k)
  BY <1>1, Taking, BeneathMore, BeneathSelf
<1>4. n \in 1..n /\ n # 0 /\ n \in Nat
  BY <1>3
<1> HIDE DEF k
<1>5. R!Last(content') = b
  BY <1>2, <1>3 DEF R!Last
<1> DEFINE e == [type |-> "begin", at |-> Len(content) + 1, kind |-> b.kind, id |-> b.id]
<1>6. wire' = wire \o <<e>>
  BY <1>2, <1>3, <1>5 DEF R!Push, R!Emits, R!Begin
<1>7. Sent = View(content, Opens, "started")
  BY DEF Sent
<1> HIDE DEF e
<1>8. Leads(<<e>>, Sent, View(k, Opens \union {n}, "started"), k)
  <2>1. content \in Seq(Cell)
    BY Taking
  <2> QED BY <1>1, <1>3, <1>7, <2>1, Beginning DEF k, e
<1> HIDE DEF n
<1>9. Keyed' = Keyed /\ R!Responses' = R!Responses /\ family' = family
  BY Taking DEF Keyed, R!Responses
<1>10. ProviderTypes'
  <2>1. cur' \in Nat /\ (cur' # 0 => cur' = Len(content') /\ cur' \in DOMAIN content')
    BY <1>2, <1>3, <1>4
  <2> QED BY <1>0, <1>2, <1>3, <2>1, Taking DEF ProviderTypes
<1>11. ProviderFits'
  <2>1. R!Responses => ItemFits'
    <3> SUFFICES ASSUME R!Responses PROVE ItemFits'
      OBVIOUS
    <3>1. ~Keyed
      BY DEF R!Responses, Keyed
    <3>2. cur' = n /\ content'[n].kind = kind
      BY <1>1, <1>2, <1>3, <3>1
    <3>3. upstream' # <<>> /\ R!Last(upstream').live /\ R!Last(upstream').kind # "other"
      <4>1. kind # "other"
        BY DEF R!Kinds
      <4> QED BY <1>0, <4>1
    <3> QED BY <1>0, <1>4, <3>2, <3>3 DEF ItemFits
  <2>2. family \notin {"mistral"} /\ (Keyed => cur' = 0)
    OBVIOUS
  <2>3. family = "bedrock" => \A i \in DOMAIN upstream' : upstream'[i].kind # "other"
    <3>1. kind # "other"
      BY DEF R!Kinds
    <3> QED BY <1>0, <3>1, Taking DEF Live, ProviderFits
  <2> QED BY <1>9, <2>1, <2>2, <2>3 DEF ProviderFits
<1>12. \A i \in DOMAIN content' : i \in Opens' <=> i \in Opens \union {n}
  <2> SUFFICES ASSUME NEW i \in 1..n PROVE i \in Opens' <=> i \in Opens \union {n}
    BY <1>2, <1>3
  <2>1. i = n \/ (i \in DOMAIN content /\ i # n /\ i # 0 /\ k[i] = content[i])
    BY <1>3 DEF n
  <2>2. CASE Keyed
    <3>1. i \in Opens' <=> k[i].key # 0
      BY <1>2, <1>3, <1>9, <2>2 DEF Opens
    <3>2. i # n => (i \in Opens <=> k[i].key # 0)
      BY <2>1, <2>2 DEF Opens
    <3> QED BY <1>1, <1>3, <2>1, <2>2, <3>1, <3>2
  <2>3. CASE ~Keyed
    <3>1. i \in Opens' <=> i = n
      BY <1>2, <1>3, <1>9, <2>3 DEF Opens
    <3>2. ~(i \in Opens)
      BY <2>1, <2>3, <1>4, Taking DEF Opens
    <3> QED BY <3>1, <3>2
  <2> QED BY <2>2, <2>3
<1> QED BY <1>2, <1>3, <1>6, <1>8, <1>10, <1>11, <1>12, Told

\* content_block_start
LEMMA AnthropicStartStep ==
  ASSUME ReplyInv, NEW kind \in R!Kinds \union {"other"}, R!AnthropicStart(kind)
  PROVE  ReplyInv'
<1> DEFINE key == Len(upstream) + 1
<1>1. R!Takes /\ family = "anthropic" /\ UNCHANGED <<cur, item, started>>
      /\ upstream' = Begun(upstream, kind)
  BY DEF R!AnthropicStart, Begun
<1>2. Keyed /\ ~R!Responses /\ Keyed' /\ ~R!Responses' /\ family' = family
  BY <1>1, Taking DEF Keyed, R!Responses
<1>3. Live
  BY <1>1, Taking
<1>4. started /\ cur = 0 /\ Len(upstream) \in Nat
  BY <1>1, <1>2, <1>3 DEF Live, ProviderFits, ProviderTypes
<1>5. CASE kind = "other"
  <2>1. UNCHANGED <<content, wire>>
    BY <1>5 DEF R!AnthropicStart
  <2>2. upstream' \in Seq(Item)
        /\ \A j \in DOMAIN upstream' :
             (j \in DOMAIN upstream /\ upstream'[j] = upstream[j]) \/ upstream'[j].kind = kind
    BY <1>1, <1>3, ItemMore DEF Live, ProviderTypes
  <2>3. ProviderTypes'
    BY <1>1, <1>3, <2>1, <2>2, Taking DEF Live, ProviderTypes
  <2>4. ProviderFits'
    BY <1>1, <1>2, <1>3, <1>4, <2>1, <2>2, Taking DEF Live, ProviderFits, R!Kinds
  <2> QED BY <1>1, <2>1, <2>3, <2>4, Taking, Quiet
<1>6. CASE kind # "other"
  <2> DEFINE b == R!Block(kind, key, key)
  <2>1. R!Push(b) /\ kind \in R!Kinds
    BY <1>6 DEF R!AnthropicStart
  <2>2. key \in Nat /\ key # 0
    BY <1>4
  <2> HIDE DEF key
  <2>3. b \in Cell /\ b.said = <<>> /\ b.kind = kind /\ b.key = key
    BY <2>1, <2>2, NewBlock
  <2> HIDE DEF b
  <2> QED BY <1>1, <1>2, <1>4, <2>1, <2>2, <2>3, PushStep
<1> QED BY <1>5, <1>6

\* A redacted reasoning, whose text no delta brings.
LEMMA AnthropicRedactedStep == ASSUME ReplyInv, R!AnthropicRedacted PROVE ReplyInv'
<1> DEFINE key == Len(upstream) + 1
           text == <<R!Token>>
           b == R!BlockOf("thinking", key, key, text)
<1>1. R!Takes /\ family = "anthropic" /\ UNCHANGED <<cur, item, started>>
      /\ upstream' = Begun(upstream, "thinking") /\ R!Push(b)
  BY DEF R!AnthropicRedacted, Begun
<1>2. Keyed /\ ~R!Responses
  BY <1>1 DEF Keyed, R!Responses
<1>3. started /\ cur = 0 /\ Len(upstream) \in Nat /\ inputs \in Nat
  BY <1>1, <1>2, Taking DEF Live, ProviderFits, ProviderTypes
<1>4. key \in Nat /\ key # 0 /\ text \in Seq(Nat) /\ "thinking" \in R!Kinds
  BY <1>3 DEF R!Token, R!Kinds
<1> HIDE DEF key, text
<1>5. b \in Cell /\ b.said = <<>> /\ b.kind = "thinking" /\ b.key = key
  BY <1>4, NewBlockOf
<1> HIDE DEF b
<1> QED BY <1>1, <1>2, <1>3, <1>4, <1>5, PushStep

\* messageStart
LEMMA BedrockMessageStep == ASSUME ReplyInv, R!BedrockMessage PROVE ReplyInv'
<1>1. /\ R!Takes /\ ~started /\ started' = TRUE /\ family = "bedrock"
      /\ wire' = wire \o << [type |-> "start"] >> /\ UNCHANGED <<content, cur, item, upstream>>
  BY DEF R!BedrockMessage, R!Emits
<1>2. Sent = View(content, Opens, "silent")
  BY <1>1 DEF Sent
<1>3. family' = family /\ Keyed /\ Keyed' /\ ~R!Responses'
  BY <1>1, Taking DEF Keyed, R!Responses
<1>4. Leads(<< [type |-> "start"] >>, Sent, View(content', Opens, "started"), content')
  <2>1. content' = content /\ content \in Seq(Cell) /\ Beneath(content, content)
    BY <1>1, Taking
  <2> QED BY <1>2, <2>1, Starting
<1>5. ProviderTypes' /\ ProviderFits'
  <2>1. ProviderTypes /\ ProviderFits
    BY <1>1, Taking DEF Live
  <2> QED BY <1>1, <1>3, <2>1, Taking DEF ProviderTypes, ProviderFits
<1>6. \A i \in DOMAIN content' : i \in Opens' <=> i \in Opens
  BY <1>1, <1>3 DEF Opens
<1>7. Beneath(content, content')
  BY <1>1, Taking
<1> QED BY <1>1, <1>4, <1>5, <1>6, <1>7, Told

\* contentBlockStart
LEMMA BedrockStartStep ==
  ASSUME ReplyInv, NEW kind \in R!Kinds, R!BedrockStart(kind)
  PROVE  ReplyInv'
<1> DEFINE key == Len(upstream) + 1
<1>1. R!Takes /\ family = "bedrock" /\ started /\ UNCHANGED <<cur, item, started>>
      /\ upstream' = Begun(upstream, kind)
  BY DEF R!BedrockStart, Begun
<1>2. Keyed /\ ~R!Responses /\ Keyed' /\ ~R!Responses' /\ family' = family
  BY <1>1, Taking DEF Keyed, R!Responses
<1>3. Live
  BY <1>1, Taking
<1>4. cur = 0 /\ Len(upstream) \in Nat
  BY <1>1, <1>2, <1>3 DEF Live, ProviderFits, ProviderTypes
<1>5. CASE kind # "toolCall"
  <2>1. UNCHANGED <<content, wire>>
    BY <1>5 DEF R!BedrockStart
  <2>2. upstream' \in Seq(Item)
        /\ \A j \in DOMAIN upstream' :
             (j \in DOMAIN upstream /\ upstream'[j] = upstream[j]) \/ upstream'[j].kind = kind
    BY <1>1, <1>3, ItemMore DEF Live, ProviderTypes
  <2>3. ProviderTypes'
    BY <1>1, <1>3, <2>1, <2>2, Taking DEF Live, ProviderTypes
  <2>4. ProviderFits'
    BY <1>1, <1>2, <1>3, <1>4, <2>1, <2>2, Taking DEF Live, ProviderFits, R!Kinds
  <2> QED BY <1>1, <2>1, <2>3, <2>4, Taking, Quiet
<1>6. CASE kind = "toolCall"
  <2> DEFINE b == R!Block(kind, key, key)
  <2>1. R!Push(b)
    BY <1>6 DEF R!BedrockStart
  <2>2. key \in Nat /\ key # 0
    BY <1>4
  <2> HIDE DEF key
  <2>3. b \in Cell /\ b.said = <<>> /\ b.kind = kind /\ b.key = key
    BY <2>2, NewBlock
  <2> HIDE DEF b
  <2> QED BY <1>1, <1>2, <1>4, <2>1, <2>2, <2>3, PushStep
<1> QED BY <1>5, <1>6

\* Text for the block with the service's number.
LEMMA PlacedStep ==
  ASSUME ReplyInv, R!Takes, Keyed, NEW key \in Nat, key # 0, R!Positions(key) # {},
         content' = R!With(content, R!Place(key), R!Token),
         R!Emits(<< R!Delta(R!Place(key), content[R!Place(key)], R!Token) >>),
         UNCHANGED <<cur, item, upstream, started>>
  PROVE  ReplyInv'
<1> DEFINE p == R!Place(key)
<1>1. p \in R!Positions(key)
  BY DEF R!Place
<1>2. p \in DOMAIN content /\ content[p].key = key
  BY <1>1 DEF R!Positions
<1> HIDE DEF p
<1>3. p \in Opens
  BY <1>2 DEF Opens
<1>4. started /\ ~R!Responses /\ family' = family /\ Keyed' /\ ~R!Responses'
      /\ family # "mistral"
  <2>1. started
    BY <1>2, Taking
  <2> QED BY <2>1, Taking DEF Keyed, R!Responses
<1>5. Sent = View(content, Opens, "started")
  BY <1>4 DEF Sent
<1>6. content' = R!With(content, p, R!Token) /\ wire' = wire \o << R!Delta(p, content[p], R!Token) >>
  BY DEF R!Emits, p
<1>7. /\ content' \in Seq(Cell) /\ DOMAIN content' = DOMAIN content /\ Beneath(content, content')
      /\ Len(content') = Len(content)
      /\ \A j \in DOMAIN content : content'[j].key = content[j].key
      /\ Leads(<< R!Delta(p, content[p], R!Token) >>, Sent, View(content', Opens, "started"), content')
  <2>1. content \in Seq(Cell) /\ inputs \in Nat
    BY Taking
  <2>2. /\ R!With(content, p, R!Token) \in Seq(Cell) /\ DOMAIN R!With(content, p, R!Token) = DOMAIN content
        /\ Beneath(content, R!With(content, p, R!Token)) /\ Len(R!With(content, p, R!Token)) = Len(content)
        /\ \A j \in DOMAIN content : R!With(content, p, R!Token)[j].key = content[j].key
        /\ Leads(<< R!Delta(p, content[p], R!Token) >>, View(content, Opens, "started"),
                 View(R!With(content, p, R!Token), Opens, "started"), R!With(content, p, R!Token))
    BY <1>2, <1>3, <2>1, TokenIsNumber, OldText
  <2> QED BY <1>5, <1>6, <2>2
<1>8. \A i \in DOMAIN content' : i \in Opens' <=> i \in Opens
  BY <1>4, <1>7 DEF Opens
<1>9. ProviderTypes' /\ ProviderFits'
  <2>1. ProviderTypes /\ ProviderFits
    BY Taking DEF Live
  <2>2. ProviderTypes'
    BY <1>7, <2>1, Taking DEF ProviderTypes
  <2> QED BY <1>4, <2>1, <2>2, Taking DEF ProviderFits
<1> QED BY <1>4, <1>6, <1>7, <1>8, <1>9, Told

\* content_block_delta
LEMMA AnthropicDeltaStep ==
  ASSUME ReplyInv, NEW key \in DOMAIN upstream, R!AnthropicDelta(key)
  PROVE  ReplyInv'
<1>1. R!Takes /\ family = "anthropic" /\ UNCHANGED <<cur, item, upstream, started>> /\ Keyed
  BY DEF R!AnthropicDelta, Keyed
<1>2. key \in Nat /\ key # 0
  BY <1>1, Taking DEF Live, ProviderTypes
<1>3. CASE R!Positions(key) = {}
  <2>1. UNCHANGED <<content, wire>>
    BY <1>3 DEF R!AnthropicDelta
  <2>2. ProviderTypes' /\ ProviderFits'
    <3>1. ProviderTypes /\ ProviderFits /\ family' = family /\ ~R!Responses' /\ Keyed'
      BY <1>1, Taking DEF Live, R!Responses, Keyed
    <3>2. ProviderTypes'
      BY <1>1, <2>1, <3>1, Taking DEF ProviderTypes
    <3> QED BY <1>1, <2>1, <3>1, <3>2 DEF ProviderFits
  <2> QED BY <1>1, <2>1, <2>2, Taking, Quiet
<1>4. CASE R!Positions(key) # {}
  <2>1. /\ content' = R!With(content, R!Place(key), R!Token)
        /\ R!Emits(<< R!Delta(R!Place(key), content[R!Place(key)], R!Token) >>)
    BY <1>4 DEF R!AnthropicDelta
  <2> QED BY <1>1, <1>2, <1>4, <2>1, PlacedStep
<1> QED BY <1>3, <1>4

\* contentBlockDelta
LEMMA BedrockDeltaStep ==
  ASSUME ReplyInv, NEW key \in DOMAIN upstream, R!BedrockDelta(key)
  PROVE  ReplyInv'
<1>1. R!Takes /\ family = "bedrock" /\ UNCHANGED <<cur, item, upstream, started>> /\ Keyed
  BY DEF R!BedrockDelta, Keyed
<1>2. key \in Nat /\ key # 0 /\ upstream[key].kind \in R!Kinds
  <2>1. upstream \in Seq(Item)
    BY <1>1, Taking DEF Live, ProviderTypes
  <2>2. upstream[key] \in Item /\ key \in 1..Len(upstream)
    BY <2>1, ElementOfSeq
  <2>3. upstream[key].kind # "other"
    BY <1>1, Taking DEF Live, ProviderFits
  <2> QED BY <2>1, <2>2, <2>3 DEF Item
<1>3. CASE R!Positions(key) # {}
  <2>1. /\ content' = R!With(content, R!Place(key), R!Token)
        /\ R!Emits(<< R!Delta(R!Place(key), content[R!Place(key)], R!Token) >>)
    BY <1>3 DEF R!BedrockDelta
  <2> QED BY <1>1, <1>2, <1>3, <2>1, PlacedStep
<1>4. CASE R!Positions(key) = {}
  <2> DEFINE b == R!Block(upstream[key].kind, key, key)
             n == Len(content) + 1
             d == Grown(content, b)
             ev == Telling(Append(content, b))
  <2>1. content' = d /\ wire' = wire \o ev
    BY <1>4 DEF R!BedrockDelta, R!Emits, Grown, Telling
  <2>2. b \in Cell /\ b.said = <<>> /\ b.key = key
    BY <1>2, NewBlock
  <2>3. /\ content \in Seq(Cell) /\ inputs \in Nat /\ started /\ family' = family
        /\ Keyed' /\ ~R!Responses'
    <3>1. upstream # <<>>
      BY <1>1, Taking DEF Live, ProviderTypes
    <3> QED BY <1>1, <3>1, Taking DEF Live, ProviderFits, Keyed, R!Responses
  <2> HIDE DEF b
  <2>4. /\ d \in Seq(Cell) /\ DOMAIN d = 1..n /\ Beneath(content, d)
        /\ d[n].key = b.key /\ DOMAIN content = 1..Len(content) /\ Len(content) \in Nat
        /\ \A i \in DOMAIN content : d[i].key = content[i].key
        /\ Leads(ev, View(content, Opens, "started"), View(d, Opens \union {n}, "started"), d)
    BY <2>2, <2>3, NewText
  <2> HIDE DEF d, ev, n
  <2>5. Sent = View(content, Opens, "started")
    BY <2>3 DEF Sent
  <2>6. \A i \in DOMAIN content' : i \in Opens' <=> i \in Opens \union {n}
    <3>1. \A i \in DOMAIN content' : i \in Opens' <=> d[i].key # 0
      BY <2>1, <2>3 DEF Opens
    <3>2. \A i \in DOMAIN content : i \in Opens <=> content[i].key # 0
      BY <1>1 DEF Opens
    <3>3. \A i \in 1..n : i = n \/ i \in DOMAIN content
      BY <2>4 DEF n
    <3>4. \A i \in Opens : i \in DOMAIN content
      BY <1>1 DEF Opens
    <3> QED BY <1>2, <2>1, <2>2, <2>4, <3>1, <3>2, <3>3, <3>4
  <2>7. ProviderTypes' /\ ProviderFits'
    <3>1. ProviderTypes /\ ProviderFits /\ cur = 0
      BY <1>1, Taking DEF Live, ProviderFits
    <3>2. ProviderTypes'
      BY <1>1, <2>1, <2>4, <3>1, Taking DEF ProviderTypes
    <3> QED BY <1>1, <2>1, <2>3, <3>1, <3>2 DEF ProviderFits
  <2> QED BY <1>1, <2>1, <2>3, <2>4, <2>5, <2>6, <2>7, Told
<1> QED BY <1>3, <1>4

\* Only the kind of a block, its number and what was said of it are shown.
LEMMA ShownSame ==
  ASSUME NEW c \in Seq(Cell), NEW d \in Seq(Cell), Len(d) = Len(c), NEW O,
         \A j \in DOMAIN c : d[j].kind = c[j].kind /\ d[j].id = c[j].id /\ d[j].said = c[j].said
  PROVE  View(d, O, "started") = View(c, O, "started")
<1> DEFINE o == [j \in 1..Len(c) |-> IF j \in O THEN TRUE ELSE FALSE]
           T0(x) == [j \in 1..Len(c) |-> [kind |-> x[j].kind, id |-> x[j].id,
                                         said |-> x[j].said, open |-> o[j]]]
<1>1. Shown(c, O) = T0(c)
  BY DEF Shown
<1>2. Shown(d, O) = T0(d)
  BY DEF Shown
<1>3. \A j \in 1..Len(c) : j \in DOMAIN c
  OBVIOUS
<1> HIDE DEF o
<1>4. T0(c) = T0(d)
  BY <1>3
<1> QED BY <1>1, <1>2, <1>4 DEF View

\* A block whose number is forgotten is the same block.
LEMMA Forgotten ==
  ASSUME NEW c \in Seq(Cell), NEW i \in DOMAIN c, NEW O
  PROVE  /\ [c EXCEPT ![i].key = 0] \in Seq(Cell) /\ Len([c EXCEPT ![i].key = 0]) = Len(c)
         /\ DOMAIN [c EXCEPT ![i].key = 0] = DOMAIN c /\ Beneath(c, [c EXCEPT ![i].key = 0])
         /\ [c EXCEPT ![i].key = 0][i].key = 0
         /\ \A j \in DOMAIN c : j # i => [c EXCEPT ![i].key = 0][j].key = c[j].key
         /\ View([c EXCEPT ![i].key = 0], O, "started") = View(c, O, "started")
<1> DEFINE b == [c[i] EXCEPT !.key = 0]
           d == [c EXCEPT ![i].key = 0]
<1>1. c[i] \in Cell
  BY CellAt
<1>2. b \in Cell /\ b.key = 0 /\ b.kind = c[i].kind /\ b.id = c[i].id /\ b.said = c[i].said
  <2>1. c[i] \in [kind : R!Kinds, id : Nat, said : Seq(Nat), body : Seq(Nat),
                  origin : {"deltas", "service"}, key : Nat]
        /\ (c[i].origin = "deltas" => c[i].body = c[i].said)
    BY <1>1 DEF Cell
  <2>2. /\ b.key = 0 /\ b.kind = c[i].kind /\ b.id = c[i].id /\ b.said = c[i].said
        /\ b.body = c[i].body /\ b.origin = c[i].origin
    BY <2>1
  <2>3. b \in [kind : R!Kinds, id : Nat, said : Seq(Nat), body : Seq(Nat),
                origin : {"deltas", "service"}, key : Nat]
    BY <2>1
  <2> QED BY <2>1, <2>2, <2>3 DEF Cell
<1>3. d = [c EXCEPT ![i] = b]
  OBVIOUS
<1> HIDE DEF b, d
<1>4. /\ d \in Seq(Cell) /\ Len(d) = Len(c) /\ DOMAIN d = DOMAIN c /\ d[i] = b
      /\ \A j \in DOMAIN c : j # i => d[j] = c[j]
  BY <1>2, <1>3
<1>5. \A j \in DOMAIN c : d[j].kind = c[j].kind /\ d[j].id = c[j].id /\ d[j].said = c[j].said
  BY <1>2, <1>4
<1>6. Beneath(c, d)
  <2>1. \A j \in DOMAIN c : R!IsPrefix(c[j].said, c[j].said)
    BY CellAt, PrefixSelf
  <2> QED BY <1>4, <1>5, <2>1 DEF Beneath
<1>7. View(d, O, "started") = View(c, O, "started")
  BY <1>4, <1>5, ShownSame
<1> QED BY <1>2, <1>4, <1>6, <1>7 DEF d

\* What a service has begun, after the end of a block or item.
LEMMA ItemPast ==
  ASSUME NEW up \in Seq(Item), NEW i \in DOMAIN up
  PROVE  /\ [up EXCEPT ![i].live = FALSE] \in Seq(Item)
         /\ DOMAIN [up EXCEPT ![i].live = FALSE] = DOMAIN up
         /\ Len([up EXCEPT ![i].live = FALSE]) = Len(up)
         /\ ~[up EXCEPT ![i].live = FALSE][i].live
         /\ \A j \in DOMAIN up : [up EXCEPT ![i].live = FALSE][j].kind = up[j].kind
<1> DEFINE f == FALSE
           b == [up[i] EXCEPT !.live = f]
           d == [up EXCEPT ![i].live = FALSE]
<1>1. up[i] \in Item
  BY ElementOfSeq
<1>2. d = [up EXCEPT ![i] = b] /\ f \in BOOLEAN /\ ~f
  OBVIOUS
<1> HIDE DEF f
<1>3. b \in Item /\ b.live = f /\ b.kind = up[i].kind
  BY <1>1, <1>2 DEF Item
<1> HIDE DEF b, d
<1>4. /\ d \in Seq(Item) /\ DOMAIN d = DOMAIN up /\ Len(d) = Len(up) /\ d[i] = b
      /\ \A j \in DOMAIN up : j # i => d[j] = up[j]
  BY <1>2, <1>3
<1>5. ~d[i].live
  BY <1>2, <1>3, <1>4
<1> QED BY <1>3, <1>4, <1>5 DEF d

\* The end of a numbered block.
LEMMA BlockStopStep ==
  ASSUME ReplyInv, Keyed, NEW key \in DOMAIN upstream, R!BlockStop(key)
  PROVE  ReplyInv'
<1>1. R!Takes /\ UNCHANGED <<cur, item, started>>
      /\ upstream' = [upstream EXCEPT ![key].live = FALSE]
  BY DEF R!BlockStop
<1>2. Live /\ upstream \in Seq(Item) /\ content \in Seq(Cell) /\ cur = 0
  BY <1>1, Taking DEF Live, ProviderTypes, ProviderFits
<1>3. /\ upstream' \in Seq(Item) /\ DOMAIN upstream' = DOMAIN upstream
      /\ \A j \in DOMAIN upstream : upstream'[j].kind = upstream[j].kind
  BY <1>1, <1>2, ItemPast
<1>4. ~R!Responses' /\ family' = family /\ Keyed' /\ family # "mistral"
  BY <1>1, Taking DEF Keyed, R!Responses
<1>5. key \in Nat /\ key # 0 /\ upstream # <<>>
  BY <1>2
<1>6. started
  BY <1>1, <1>2, <1>5 DEF Live, ProviderFits, Keyed
<1>7. ASSUME content' \in Seq(Cell), DOMAIN content' = DOMAIN content
      PROVE  ProviderTypes' /\ ProviderFits'
  <2>1. ProviderTypes /\ ProviderFits
    BY <1>2 DEF Live
  <2>2. ProviderTypes'
    BY <1>1, <1>2, <1>3, <1>7, <2>1, Taking DEF ProviderTypes
  <2> QED BY <1>1, <1>2, <1>3, <1>4, <1>6, <2>1, <2>2 DEF ProviderFits
<1>8. CASE R!Positions(key) = {}
  <2>1. UNCHANGED <<content, wire>>
    BY <1>8 DEF R!BlockStop
  <2> QED BY <1>1, <1>2, <1>7, <2>1, Taking, Quiet
<1>9. CASE R!Positions(key) # {}
  <2> DEFINE p == R!Place(key)
  <2>1. p \in R!Positions(key)
    BY <1>9 DEF R!Place
  <2>2. p \in DOMAIN content
    BY <2>1 DEF R!Positions
  <2>3. /\ content' = [content EXCEPT ![p].key = 0]
        /\ wire' = wire \o << R!End(p, content[p]) >>
    BY <1>9 DEF R!BlockStop, R!Emits
  <2> HIDE DEF p
  <2> DEFINE O == Opens \ {p}
             d == [content EXCEPT ![p].key = 0]
  <2>4. /\ d \in Seq(Cell) /\ Len(d) = Len(content)
        /\ DOMAIN d = DOMAIN content /\ Beneath(content, d)
        /\ d[p].key = 0
        /\ \A j \in DOMAIN content : j # p => d[j].key = content[j].key
        /\ View(d, O, "started") = View(content, O, "started")
    BY <1>2, <2>2, Forgotten
  <2>5. content' = d
    BY <2>3
  <2> HIDE DEF d
  <2>6. Leads(<< R!End(p, content[p]) >>, View(content, Opens, "started"),
              View(content, O, "started"), d)
    <3>1. R!End(p, content[p]) = [type |-> "end", at |-> p, kind |-> content[p].kind]
      BY DEF R!End
    <3> QED BY <1>2, <2>2, <2>4, <3>1, Ending
  <2>7. Sent = View(content, Opens, "started")
    BY <1>6 DEF Sent
  <2>8. \A i \in DOMAIN content' : i \in Opens' <=> i \in O
    <3>1. \A i \in DOMAIN content' : i \in Opens' <=> d[i].key # 0
      BY <1>4, <2>5 DEF Opens
    <3>2. \A i \in DOMAIN content : i \in O <=> content[i].key # 0 /\ i # p
      BY DEF Opens
    <3> QED BY <2>4, <2>5, <3>1, <3>2
  <2>9. started'
    BY <1>1, <1>6
  <2>10. Leads(<< R!End(p, content[p]) >>, Sent, View(content', O, "started"), content')
    BY <2>4, <2>5, <2>6, <2>7
  <2> HIDE DEF O
  <2> QED BY <1>1, <1>7, <2>3, <2>4, <2>5, <2>8, <2>9, <2>10, Told
<1> QED BY <1>8, <1>9

(***************************************************************************)
(* The Responses services send items one after another.                    *)
(***************************************************************************)
LEMMA ItemAddedStep ==
  ASSUME ReplyInv, NEW kind \in R!Kinds \union {"other"}, R!ItemAdded(kind)
  PROVE  ReplyInv'
<1>1. /\ R!Responses /\ ~R!ItemIsLive /\ R!Takes /\ started' = started
      /\ upstream' = Begun(upstream, kind)
  BY DEF R!ItemAdded, Begun
<1>2. /\ ~Keyed /\ ~Keyed' /\ R!Responses' /\ family' = family
      /\ family \notin {"mistral", "bedrock", "gemini"}
  BY <1>1, Taking DEF Keyed, R!Responses
<1>3. Live
  BY <1>1, Taking
<1>4. started /\ cur = 0
  BY <1>1, <1>2, <1>3 DEF Live, ProviderFits, ItemFits, R!ItemIsLive
<1>5. CASE kind = "other"
  <2>1. UNCHANGED <<content, cur, item, wire>>
    BY <1>5 DEF R!ItemAdded
  <2>2. upstream' \in Seq(Item) /\ R!Last(upstream').kind = "other"
    BY <1>1, <1>3, <1>5, ItemMore DEF Live, ProviderTypes
  <2>3. ProviderTypes'
    BY <1>1, <1>3, <2>1, <2>2, Taking DEF Live, ProviderTypes
  <2>4. ProviderFits'
    BY <1>1, <1>2, <1>3, <1>4, <2>1, <2>2, Taking DEF Live, ProviderFits, ItemFits
  <2> QED BY <1>1, <2>1, <2>3, <2>4, Taking, Quiet
<1>6. CASE kind # "other"
  <2>1. PICK arguments \in {<<>>} \cup IF kind = "toolCall" THEN { <<R!Token>> } ELSE {} :
          /\ R!Push(R!BlockOf(kind, Len(upstream'), 0, arguments))
          /\ cur' = Len(content') /\ item' = kind
    BY <1>6 DEF R!ItemAdded
  <2>2. Len(upstream') \in Nat /\ kind \in R!Kinds
    BY <1>1, <1>3, <1>6, ItemMore DEF Live, ProviderTypes
  <2> DEFINE none == <<>>
             given == <<R!Token>>
             b == R!BlockOf(kind, Len(upstream'), 0, arguments)
  <2>3. none \in Seq(Nat) /\ given \in Seq(Nat)
    BY <1>1, Taking DEF R!Token
  <2>4. arguments = none \/ arguments = given
    OBVIOUS
  <2> HIDE DEF none, given
  <2>5. arguments \in Seq(Nat)
    BY <2>3, <2>4
  <2>6. b \in Cell /\ b.said = <<>> /\ b.kind = kind /\ b.key = 0
    BY <2>2, <2>5, NewBlockOf
  <2>7. R!Push(b) /\ cur' = Len(content')
    BY <2>1
  <2> HIDE DEF b
  <2> QED BY <1>1, <1>2, <1>4, <2>2, <2>6, <2>7, PushStep
<1> QED BY <1>5, <1>6

\* What an event of an item says.
LEMMA ItemTaking ==
  ASSUME ReplyInv, R!Responses, R!Takes
  PROVE  /\ ~Keyed /\ ~Keyed' /\ R!Responses' /\ family' = family
         /\ family \notin {"mistral", "bedrock", "gemini"}
         /\ ProviderTypes /\ ProviderFits /\ ItemFits /\ started
<1>1. /\ ~Keyed /\ ~Keyed' /\ R!Responses' /\ family' = family
      /\ family \notin {"mistral", "bedrock", "gemini"}
  BY Taking DEF Keyed, R!Responses
<1>2. ProviderTypes /\ ProviderFits
  BY Taking DEF Live
<1> QED BY <1>1, <1>2 DEF ProviderFits

\* A piece of text for the current item, of the service or a separator.
LEMMA ItemText ==
  ASSUME ReplyInv, R!Responses, R!Takes, cur # 0, NEW n \in Nat,
         content' = R!With(content, cur, n),
         R!Emits(<< R!Delta(R!BlockIndex(content), content[cur], n) >>),
         UNCHANGED <<cur, item, upstream, started>>
  PROVE  ReplyInv'
<1>1. /\ ~Keyed /\ ~Keyed' /\ R!Responses' /\ family' = family
      /\ family \notin {"mistral", "bedrock", "gemini"}
      /\ ProviderTypes /\ ProviderFits /\ ItemFits /\ started
  BY ItemTaking
<1>2. Len(content) = cur /\ cur \in DOMAIN content /\ content \in Seq(Cell)
  BY Taking
<1>3. cur \in Opens /\ Sent = View(content, Opens, "started")
  BY <1>1, <1>2 DEF Opens, Sent
<1>4. /\ R!With(content, cur, n) \in Seq(Cell)
      /\ DOMAIN R!With(content, cur, n) = DOMAIN content
      /\ Beneath(content, R!With(content, cur, n))
      /\ Len(R!With(content, cur, n)) = Len(content)
      /\ \A j \in DOMAIN content : R!With(content, cur, n)[j].kind = content[j].kind
      /\ Leads(<< R!Delta(cur, content[cur], n) >>, View(content, Opens, "started"),
               View(R!With(content, cur, n), Opens, "started"), R!With(content, cur, n))
  BY <1>2, <1>3, OldText
<1>5. wire' = wire \o << R!Delta(cur, content[cur], n) >>
  BY <1>2 DEF R!Emits, R!BlockIndex
<1>6. /\ content' \in Seq(Cell) /\ DOMAIN content' = DOMAIN content /\ Beneath(content, content')
      /\ Len(content') = Len(content)
      /\ \A j \in DOMAIN content : content'[j].kind = content[j].kind
      /\ Leads(<< R!Delta(cur, content[cur], n) >>, Sent, View(content', Opens, "started"),
               content')
  BY <1>3, <1>4
<1>7. ProviderTypes'
  BY <1>1, <1>6, Taking DEF ProviderTypes
<1>8. ProviderFits'
  <2>1. ItemFits'
    BY <1>1, <1>2, <1>6 DEF ItemFits
  <2> QED BY <1>1, <1>6, <2>1 DEF ProviderFits
<1>9. \A i \in DOMAIN content' : i \in Opens' <=> i \in Opens
  BY <1>1, <1>6 DEF Opens
<1> QED BY <1>1, <1>5, <1>6, <1>7, <1>8, <1>9, Told

\* Nothing that was told of the blocks changes.
ToldAlike(c, d, O) ==
  /\ d \in Seq(Cell) /\ Len(d) = Len(c) /\ DOMAIN d = DOMAIN c
  /\ Beneath(c, d) /\ \A j \in DOMAIN c : d[j].kind = c[j].kind
  /\ View(d, O, "started") = View(c, O, "started")

\* A block of another text, of which no more has been said.
LEMMA RewrittenIs ==
  ASSUME NEW c \in Seq(Cell), NEW i \in DOMAIN c, NEW text \in Seq(Nat), NEW O,
         NEW d, d = [c EXCEPT ![i] = R!Rewritten(c[i], text)]
  PROVE  ToldAlike(c, d, O)
<1> DEFINE b == R!Rewritten(c[i], text)
<1>1. c[i] \in Cell
  BY CellAt
<1>2. b \in Cell /\ b.kind = c[i].kind /\ b.id = c[i].id /\ b.said = c[i].said
  <2>1. CASE text = c[i].body
    BY <1>1, <2>1 DEF R!Rewritten
  <2>2. CASE text # c[i].body
    <3> DEFINE a == [c[i] EXCEPT !.body = text]
               e == [a EXCEPT !.origin = "service"]
    <3>1. b = e
      BY <2>2 DEF R!Rewritten
    <3>2. a = [kind |-> c[i].kind, id |-> c[i].id, said |-> c[i].said, body |-> text,
               origin |-> c[i].origin, key |-> c[i].key]
      BY <1>1, CellIs, OtherText
    <3> HIDE DEF a
    <3>3. e = [kind |-> c[i].kind, id |-> c[i].id, said |-> c[i].said, body |-> text,
               origin |-> "service", key |-> c[i].key]
      BY <3>2
    <3> HIDE DEF e, b
    <3>4. e \in Cell
      BY <1>1, <3>3 DEF Cell
    <3> QED BY <3>1, <3>3, <3>4
  <2> QED BY <2>1, <2>2
<1>3. d = [c EXCEPT ![i] = b]
  OBVIOUS
<1> HIDE DEF b
<1>4. /\ d \in Seq(Cell) /\ Len(d) = Len(c) /\ DOMAIN d = DOMAIN c /\ d[i] = b
      /\ \A j \in DOMAIN c : j # i => d[j] = c[j]
  BY <1>2, <1>3
<1>5. \A j \in DOMAIN c : d[j].kind = c[j].kind /\ d[j].id = c[j].id /\ d[j].said = c[j].said
  BY <1>2, <1>4
<1>6. Beneath(c, d)
  <2>1. \A j \in DOMAIN c : R!IsPrefix(c[j].said, c[j].said)
    BY CellAt, PrefixSelf
  <2> QED BY <1>4, <1>5, <2>1 DEF Beneath
<1>7. View(d, O, "started") = View(c, O, "started")
  BY <1>4, <1>5, ShownSame
<1> QED BY <1>4, <1>5, <1>6, <1>7 DEF ToldAlike

\* The service may give the current block a text.
LEMMA SetTextIs ==
  ASSUME ReplyInv, R!Takes, cur # 0, NEW t0 \in Seq(Nat), NEW t1 \in Seq(Nat),
         R!SetText({t0, t1}), NEW O
  PROVE  /\ content' \in Seq(Cell) /\ Len(content') = Len(content)
         /\ DOMAIN content' = DOMAIN content /\ Beneath(content, content')
         /\ \A j \in DOMAIN content : content'[j].kind = content[j].kind
         /\ View(content', O, "started") = View(content, O, "started")
<1>1. PICK text \in {t0, t1} : content' = [content EXCEPT ![cur] = R!Rewritten(@, text)]
  BY DEF R!SetText
<1>2. content \in Seq(Cell) /\ cur \in DOMAIN content /\ text \in Seq(Nat)
  <2>1. text \in Seq(Nat)
    BY <1>1
  <2>2. content \in Seq(Cell) /\ cur \in DOMAIN content
    BY Taking
  <2> QED BY <2>1, <2>2
<1>3. content' = [content EXCEPT ![cur] = R!Rewritten(content[cur], text)]
  BY <1>1
<1>4. ToldAlike(content, content', O)
  BY <1>2, <1>3, RewrittenIs
<1> QED BY <1>4 DEF ToldAlike

\* The deltas of an item.
LEMMA ItemDeltaStep == ASSUME ReplyInv, R!ItemDelta PROVE ReplyInv'
<1>1. /\ R!Responses /\ R!ItemIsLive /\ R!Takes /\ UNCHANGED <<cur, item, upstream, started>>
  BY DEF R!ItemDelta
<1>2. /\ ~Keyed /\ ~Keyed' /\ R!Responses' /\ family' = family
      /\ family \notin {"mistral", "bedrock", "gemini"}
      /\ ProviderTypes /\ ProviderFits /\ ItemFits /\ started
  BY <1>1, ItemTaking
<1>3. CASE /\ R!IsCurrent(R!Last(upstream).kind)
           /\ content' = R!With(content, cur, R!Token)
           /\ R!Emits(<< R!Delta(R!BlockIndex(content), content[cur], R!Token) >>)
  <2>1. cur # 0 /\ R!Token \in Nat
    BY <1>1, <1>3, Taking DEF R!IsCurrent, R!Token
  <2> QED BY <1>1, <1>3, <2>1, ItemText
<1>4. CASE UNCHANGED <<content, wire>>
  <2>1. ProviderTypes'
    BY <1>1, <1>2, <1>4, Taking DEF ProviderTypes
  <2>2. ProviderFits'
    BY <1>1, <1>2, <1>4 DEF ProviderFits, ItemFits
  <2> QED BY <1>1, <1>4, <2>1, <2>2, Taking, Quiet
<1> QED BY <1>3, <1>4 DEF R!ItemDelta

\* The separator after a part of a reasoning.
LEMMA SummaryPartDoneStep == ASSUME ReplyInv, R!SummaryPartDone PROVE ReplyInv'
<1>1. /\ R!Responses /\ R!Takes /\ UNCHANGED <<cur, item, upstream, started>>
      /\ cur # 0 /\ R!Separator \in Nat
      /\ content' = R!With(content, cur, R!Separator)
      /\ R!Emits(<< R!Delta(R!BlockIndex(content), content[cur], R!Separator) >>)
  BY DEF R!SummaryPartDone, R!IsCurrent, R!Separator
<1> QED BY <1>1, ItemText

\* The arguments of a call, whole.
LEMMA ArgumentsDoneStep == ASSUME ReplyInv, R!ArgumentsDone PROVE ReplyInv'
<1> DEFINE t0 == content[cur].body
           t1 == <<R!Token>>
<1>1. /\ R!Responses /\ R!Takes /\ UNCHANGED <<cur, item, upstream, started, wire>>
      /\ cur # 0 /\ R!SetText({t0, t1})
  BY DEF R!ArgumentsDone, R!IsCurrent
<1>2. /\ ~Keyed /\ ~Keyed' /\ R!Responses' /\ family' = family
      /\ family \notin {"mistral", "bedrock", "gemini"}
      /\ ProviderTypes /\ ProviderFits /\ ItemFits /\ started
  BY <1>1, ItemTaking
<1>3. content \in Seq(Cell) /\ cur \in DOMAIN content /\ inputs \in Nat
  BY <1>1, Taking
<1>4. t0 \in Seq(Nat) /\ t1 \in Seq(Nat)
  <2>1. t0 \in Seq(Nat)
    BY <1>3, CellAt
  <2> QED BY <1>3, <2>1 DEF R!Token
<1> HIDE DEF t0, t1
<1>5. /\ content' \in Seq(Cell) /\ Len(content') = Len(content)
      /\ DOMAIN content' = DOMAIN content /\ Beneath(content, content')
      /\ \A j \in DOMAIN content : content'[j].kind = content[j].kind
      /\ View(content', Opens, "started") = View(content, Opens, "started")
  <2> DEFINE O == Opens
  <2> HIDE DEF O
  <2>1. /\ content' \in Seq(Cell) /\ Len(content') = Len(content)
        /\ DOMAIN content' = DOMAIN content /\ Beneath(content, content')
        /\ \A j \in DOMAIN content : content'[j].kind = content[j].kind
        /\ View(content', O, "started") = View(content, O, "started")
    BY <1>1, <1>4, SetTextIs
  <2> QED BY <2>1 DEF O
<1>6. ProviderTypes'
  BY <1>1, <1>2, <1>5, Taking DEF ProviderTypes
<1>7. ProviderFits'
  <2>1. ItemFits'
    BY <1>1, <1>2, <1>3, <1>5 DEF ItemFits
  <2> QED BY <1>1, <1>2, <1>5, <2>1 DEF ProviderFits
<1>8. \A i \in DOMAIN content' : i \in Opens' <=> i \in Opens
  BY <1>1, <1>2, <1>5 DEF Opens
<1>9. View(content', Opens', "started") = View(content', Opens, "started")
  BY <1>5, <1>8, ViewSame
<1>10. Sent' = Sent
  BY <1>1, <1>2, <1>5, <1>9 DEF Sent
<1>11. Live
  BY <1>1, Taking
<1>12. Leads(wire', Now', Sent', content')
  <2>1. Leads(wire, Now, Sent, content)
    BY <1>1, <1>11, Taking DEF Live
  <2>2. Leads(wire, Now, Sent, content')
    BY <1>3, <1>5, <2>1, LeadsGrown
  <2>3. Now' = Now /\ wire' = wire
    BY <1>1, Taking DEF Now, R!readerVars
  <2> QED BY <1>10, <2>2, <2>3
<1>13. reader' = reader /\ over' = over /\ ~over
  BY <1>1, Taking DEF R!readerVars
<1>14. Live'
  <2>1. ~over'
    BY <1>13, Zenon
  <2> QED BY <1>6, <1>7, <1>12, <2>1, Zenon DEF Live
<1> QED BY <1>1, <1>13, <1>14, Taking, Zenon DEF ReplyInv

\* The parts of a reasoning, joined, are a text.
LEMMA JoinedIs == ASSUME NEW t \in Seq(Nat) PROVE R!Joined(t) \in Seq(Nat)
<1>1. CASE t # <<>> /\ R!Last(t) = R!Separator
  <2>1. R!Front(t) = SubSeq(t, 1, Len(t) - 1) /\ Len(t) - 1 \in 0..Len(t)
    BY <1>1 DEF R!Front
  <2>2. R!Front(t) \in Seq(Nat)
    BY <2>1
  <2> QED BY <1>1, <2>2 DEF R!Joined
<1>2. CASE ~(t # <<>> /\ R!Last(t) = R!Separator)
  BY <1>2 DEF R!Joined
<1> QED BY <1>1, <1>2

\* The end of an item.
LEMMA ItemDoneStep == ASSUME ReplyInv, R!ItemDone PROVE ReplyInv'
<1>1. /\ R!Responses /\ R!ItemIsLive /\ R!Takes /\ UNCHANGED <<item, started>>
      /\ upstream' = [upstream EXCEPT ![Len(upstream)].live = FALSE]
  BY DEF R!ItemDone
<1>2. /\ ~Keyed /\ ~Keyed' /\ R!Responses' /\ family' = family
      /\ family \notin {"mistral", "bedrock", "gemini"}
  BY <1>1, Taking DEF Keyed, R!Responses
<1>3. ProviderTypes /\ ProviderFits
  BY <1>1, Taking DEF Live
<1>4. started /\ upstream \in Seq(Item) /\ upstream # <<>>
  BY <1>1, <1>2, <1>3 DEF ProviderFits, ProviderTypes, R!ItemIsLive
<1>5. /\ Len(upstream) \in DOMAIN upstream
  BY <1>4
<1>6. /\ upstream' \in Seq(Item) /\ ~R!Last(upstream').live
  <2>1. /\ upstream' \in Seq(Item) /\ Len(upstream') = Len(upstream)
        /\ ~upstream'[Len(upstream)].live
    BY <1>1, <1>4, <1>5, ItemPast
  <2> QED BY <2>1 DEF R!Last
<1> DEFINE kind == R!Last(upstream).kind
<1>7. ASSUME cur' = 0, content' \in Seq(Cell) PROVE ProviderTypes' /\ ProviderFits'
  <2>1. ProviderTypes'
    BY <1>1, <1>3, <1>6, <1>7, Taking DEF ProviderTypes
  <2>2. ItemFits'
    BY <1>6, <1>7 DEF ItemFits
  <2> QED BY <1>1, <1>2, <1>4, <1>7, <2>1, <2>2 DEF ProviderFits
<1>8. CASE kind # "other"
  <2>1. cur # 0 /\ content[cur].kind = kind /\ cur = Len(content) /\ cur \in DOMAIN content
        /\ content \in Seq(Cell) /\ Beneath(content, content)
    <3>1. ItemFits
      BY <1>1, <1>3 DEF ProviderFits
    <3> QED BY <1>1, <1>8, <3>1, Taking DEF ItemFits, R!ItemIsLive
  <2> DEFINE e == [type |-> "end", at |-> cur, kind |-> content[cur].kind]
             own == IF kind = "thinking" THEN R!Joined(content[cur].body) ELSE content[cur].body
             t1 == <<R!Token>>
             O == Opens \ {cur}
  <2>2. /\ cur' = 0 /\ wire' = wire \o <<e>>
        /\ content' = content \/ R!SetText({own, t1})
    BY <1>8, <2>1 DEF R!ItemDone, R!Emits, R!BlockIndex
  <2>3. own \in Seq(Nat) /\ t1 \in Seq(Nat)
    <3>1. content[cur].body \in Seq(Nat) /\ R!Joined(content[cur].body) \in Seq(Nat)
      BY <2>1, CellAt, JoinedIs
    <3>2. R!Token \in Nat
      BY <1>1, Taking DEF R!Token
    <3> QED BY <3>1, <3>2
  <2> HIDE DEF own, t1, O
  <2>4. /\ content' \in Seq(Cell) /\ Len(content') = Len(content)
        /\ DOMAIN content' = DOMAIN content /\ Beneath(content, content')
        /\ \A j \in DOMAIN content : content'[j].kind = content[j].kind
        /\ View(content', O, "started") = View(content, O, "started")
    <3>1. CASE content' = content
      BY <2>1, <3>1
    <3>2. CASE R!SetText({own, t1})
      BY <1>1, <2>1, <2>3, <3>2, SetTextIs
    <3> QED BY <2>2, <3>1, <3>2
  <2> HIDE DEF e, kind
  <2>5. Leads(<<e>>, View(content, Opens, "started"), View(content, O, "started"), content')
    <3>1. Leads(<<e>>, View(content, Opens, "started"), View(content, Opens \ {cur}, "started"),
                content)
      BY <2>1, Ending DEF e
    <3> QED BY <2>1, <2>4, <3>1, LeadsGrown DEF O
  <2>6. Sent = View(content, Opens, "started")
    BY <1>4 DEF Sent
  <2>7. Leads(<<e>>, Sent, View(content', O, "started"), content')
    BY <2>4, <2>5, <2>6
  <2>8. \A i \in DOMAIN content' : i \in Opens' <=> i \in O
    <3>1. \A i \in DOMAIN content : i # 0
      BY <1>1, Taking
    <3> QED BY <1>1, <1>2, <2>2, <2>4, <3>1 DEF Opens, O
  <2>9. started'
    BY <1>1, <1>4
  <2>10. ProviderTypes' /\ ProviderFits'
    BY <1>7, <2>2, <2>4
  <2> QED BY <1>1, <2>2, <2>4, <2>7, <2>8, <2>9, <2>10, Told
<1>9. CASE kind = "other"
  <2>1. UNCHANGED <<content, cur, wire>>
    BY <1>9 DEF R!ItemDone
  <2>2. cur = 0
    BY <1>1, <1>3, <1>9 DEF ProviderFits, ItemFits
  <2>3. ProviderTypes' /\ ProviderFits'
    <3>1. content' \in Seq(Cell)
      BY <1>1, <2>1, Taking
    <3> QED BY <1>7, <2>1, <2>2, <3>1
  <2> QED BY <1>1, <2>1, <2>3, Taking, Quiet
<1> QED BY <1>8, <1>9

\* A set of positions in their order.
Ordered(s, S, m) == /\ s \in R!SeqOf(S, m) /\ R!ToSet(s) = S
                    /\ \A j, n \in DOMAIN s : j < n => s[j] < s[n]

\* What the order of Mistral's calls is.
LEMMA OrderedIs ==
  ASSUME NEW S, NEW s, NEW m \in Nat, NEW c \in 0..m, s \in [1..c -> S],
         \A x \in S : \E i \in 1..c : s[i] = x,
         \A j \in 1..c : \A n \in 1..c : j < n => s[j] < s[n]
  PROVE  Ordered(s, S, m)
<1>1. DOMAIN s = 1..c /\ \A i \in 1..c : s[i] \in S
  OBVIOUS
<1>2. R!ToSet(s) = S
  BY <1>1 DEF R!ToSet
<1>3. s \in R!SeqOf(S, m)
  BY DEF R!SeqOf
<1> QED BY <1>1, <1>2, <1>3 DEF Ordered

\* What it says, element by element.
LEMMA OrderedSays ==
  ASSUME NEW S, NEW s, NEW m \in Nat, Ordered(s, S, m)
  PROVE  \E c \in 0..m : /\ s \in [1..c -> S] /\ DOMAIN s = 1..c
                         /\ \A x \in S : \E i \in 1..c : s[i] = x
                         /\ \A j \in 1..c : \A n \in 1..c : j < n => s[j] < s[n]
<1>1. /\ s \in UNION {[1..c -> S] : c \in 0..m} /\ R!ToSet(s) = S
      /\ \A j, n \in DOMAIN s : j < n => s[j] < s[n]
  BY DEF Ordered, R!SeqOf
<1>2. PICK c \in 0..m : s \in [1..c -> S]
  BY <1>1
<1>3. DOMAIN s = 1..c
  BY <1>2
<1>4. \A x \in S : \E i \in 1..c : s[i] = x
  BY <1>1, <1>3 DEF R!ToSet
<1> QED BY <1>1, <1>2, <1>3, <1>4

\* There is one, however many calls there are.
LEMMA OrderExists ==
  ASSUME NEW m \in Nat, NEW S \in SUBSET (1..m)
  PROVE  \E s : Ordered(s, S, m)
<1> DEFINE To(k) == S \cap (1..k)
           Has(k) == \E s : Ordered(s, To(k), k)
           N == { k \in 0..m : Has(k) }
<1>1. 0 \in N
  <2>1. To(0) = {}
    OBVIOUS
  <2> DEFINE s0 == [i \in 1..0 |-> i]
  <2>2. /\ s0 \in [1..0 -> {}] /\ 0 \in Nat /\ 0 \in 0..0
        /\ \A x \in {} : \E i \in 1..0 : s0[i] = x
        /\ \A j \in 1..0 : \A n \in 1..0 : j < n => s0[j] < s0[n]
    OBVIOUS
  <2> HIDE DEF s0
  <2>3. Ordered(s0, {}, 0)
    BY <2>2, OrderedIs, Zenon
  <2>4. Has(0)
    BY <2>1, <2>3
  <2> HIDE DEF Has
  <2> QED BY <2>4
<1>2. ASSUME NEW k \in 1..m, k - 1 \in N
      PROVE  k \in N
  <2> DEFINE P == To(k - 1)
  <2>1. PICK s : Ordered(s, P, k - 1)
    BY <1>2
  <2>2. k - 1 \in Nat /\ k \in Nat
    OBVIOUS
  <2>3. To(k) = (IF k \in S THEN P \union {k} ELSE P) /\ \A x \in P : x \in Nat /\ x < k
    OBVIOUS
  <2> HIDE DEF P
  <2>4. PICK c \in 0..(k - 1) :
          /\ s \in [1..c -> P] /\ DOMAIN s = 1..c
          /\ \A x \in P : \E i \in 1..c : s[i] = x
          /\ \A j \in 1..c : \A n \in 1..c : j < n => s[j] < s[n]
    BY <2>1, <2>2, OrderedSays
  <2>5. CASE k \notin S
    <3>1. Ordered(s, P, k)
      <4>1. c \in 0..k
        OBVIOUS
      <4> QED BY <2>2, <2>4, <4>1, OrderedIs, Zenon
    <3>2. Has(k)
      BY <2>3, <2>5, <3>1
    <3> HIDE DEF Has
    <3> QED BY <3>2
  <2>6. CASE k \in S
    <3> DEFINE t == [i \in 1..(c + 1) |-> IF i = c + 1 THEN k ELSE s[i]]
    <3>3. c \in Nat /\ c + 1 \in 0..k
      OBVIOUS
    <3>5. /\ \A i \in 1..c : t[i] = s[i] /\ s[i] \in P
          /\ t[c + 1] = k /\ DOMAIN t = 1..(c + 1)
          /\ \A i \in 1..(c + 1) : i \in 1..c \/ i = c + 1
      BY <2>4, <3>3
    <3>6. t \in [1..(c + 1) -> P \union {k}]
      <4>1. \A i \in 1..(c + 1) : (IF i = c + 1 THEN k ELSE s[i]) \in P \union {k}
        BY <2>4, <3>3
      <4> QED BY <4>1
    <3> HIDE DEF t
    <3>7. ASSUME NEW x \in P \union {k} PROVE \E i \in 1..(c + 1) : t[i] = x
      <4>1. CASE x = k
        <5>1. c + 1 \in 1..(c + 1)
          BY <3>3
        <5> QED BY <3>5, <4>1, <5>1
      <4>2. CASE x \in P
        <5>2. PICK i \in 1..c : s[i] = x
          BY <2>4, <4>2
        <5>3. i \in 1..(c + 1)
          BY <3>3
        <5> QED BY <3>5, <5>2, <5>3
      <4> QED BY <4>1, <4>2
    <3>8. ASSUME NEW j \in 1..(c + 1), NEW n \in 1..(c + 1), j < n
          PROVE  t[j] < t[n]
      <4>1. j \in 1..c
        BY <3>3, <3>8
      <4>2. CASE n = c + 1
        BY <2>3, <3>5, <4>1, <4>2
      <4>3. CASE n \in 1..c
        BY <2>4, <3>5, <3>8, <4>1, <4>3
      <4> QED BY <3>5, <4>2, <4>3
    <3>9. Ordered(t, P \union {k}, k)
      BY <2>2, <3>3, <3>6, <3>7, <3>8, OrderedIs
    <3>10. Has(k)
      BY <2>3, <2>6, <3>9
    <3> HIDE DEF Has
    <3> QED BY <3>10
  <2> QED BY <2>5, <2>6
<1>3. m \in N
  <2> HIDE DEF N
  <2>1. \A n \in 0..m : n \in N
    BY <1>1, <1>2, Steps
  <2> QED BY <2>1
<1>4. To(m) = S
  OBVIOUS
<1>5. Has(m)
  BY <1>3
<1> QED BY <1>4, <1>5

(***************************************************************************)
(* The end of a stream.                                                    *)
(***************************************************************************)
\* A sequence of events that lead from each view to the next.
LEMMA LeadsAlong ==
  ASSUME NEW S, NEW w \in Seq(S), NEW g, NEW c, g[0] \in Views, Beneath(g[0].blocks, c),
         \A n \in 1..Len(w) : Leads(<< w[n] >>, g[n - 1], g[n], c),
         DOMAIN g = 0..Len(w), g = [n \in 0..Len(w) |-> g[n]]
  PROVE  Leads(w, g[0], g[Len(w)], c)
<1>1. Len(w) \in Nat
  OBVIOUS
<1>2. ASSUME NEW n \in 1..Len(w)
      PROVE  Reads(g[n - 1], w[n], g[n]) /\ g[n] \in Views /\ Beneath(g[n].blocks, c)
  <2>1. Leads(<< w[n] >>, g[n - 1], g[n], c)
    OBVIOUS
  <2>2. << w[n] >> # <<>> /\ Head(<< w[n] >>) = w[n] /\ Tail(<< w[n] >>) = <<>>
    OBVIOUS
  <2>3. PICK v \in Views : Reads(g[n - 1], w[n], v) /\ Leads(<<>>, v, g[n], c)
    BY <2>1, <2>2, LeadsAway
  <2>4. v = g[n] /\ Beneath(g[n].blocks, c)
    BY <2>3, LeadsThere
  <2> QED BY <2>3, <2>4
<1>3. \A n \in 0..Len(w) : n = 0 \/ n \in 1..Len(w)
  BY <1>1
<1>4. \A n \in 0..Len(w) : g[n] \in Views /\ Beneath(g[n].blocks, c)
  BY <1>2, <1>3
<1>5. g \in [0..Len(w) -> Views]
  BY <1>4
<1>6. Path(g, w, g[0], g[Len(w)], c)
  BY <1>2, <1>4, <1>5 DEF Path
<1> QED BY <1>6 DEF Leads

\* The calls of Mistral end, and with the current block all that was open.
LEMMA CallsEnd ==
  ASSUME NEW c \in Seq(Cell), c = content, NEW O, family = "mistral",
         \A i \in DOMAIN c : i \in O => c[i].kind = "toolCall"
  PROVE  Leads(R!MistralEnds, View(c, O, "started"), View(c, {}, "started"), c)
<1> DEFINE calls == { i \in DOMAIN content : content[i].kind = "toolCall" }
           order == CHOOSE s \in R!SeqOf(calls, Len(content)) :
                      R!ToSet(s) = calls /\ \A m, n \in DOMAIN s : m < n => s[m] < s[n]
<1>1. R!MistralEnds = [n \in DOMAIN order |-> R!End(order[n], content[order[n]])]
  BY Zenon DEF R!MistralEnds
<1>2. Len(c) \in Nat /\ DOMAIN c = 1..Len(c) /\ calls \in SUBSET (1..Len(c))
  OBVIOUS
<1>3. \E s : Ordered(s, calls, Len(content))
  <2> HIDE DEF calls
  <2> QED BY <1>2, OrderExists
<1>4. Ordered(order, calls, Len(content))
  <2> HIDE DEF calls
  <2> QED BY <1>3 DEF Ordered
<1> HIDE DEF order
<1>5. PICK k \in 0..Len(content) : /\ order \in [1..k -> calls] /\ DOMAIN order = 1..k
                                   /\ \A x \in calls : \E i \in 1..k : order[i] = x
  <2> HIDE DEF calls
  <2> QED BY <1>2, <1>4, OrderedSays
<1>6. DOMAIN order = 1..k /\ \A n \in 1..k : order[n] \in calls
  <2> HIDE DEF calls
  <2> QED BY <1>5
<1>7. \A i \in calls : \E n \in 1..k : order[n] = i
  BY <1>5
<1> DEFINE e(n) == R!End(order[n], content[order[n]])
           S == { e(n) : n \in 1..k }
           w == [n \in 1..k |-> e(n)]
           P(n) == O \ { order[j] : j \in 1..n }
           g == [n \in 0..k |-> View(c, P(n), "started")]
<1>8. \A n \in 1..k : order[n] \in DOMAIN c
  BY <1>6
<1>9. w \in Seq(S) /\ Len(w) = k /\ \A n \in 1..k : w[n] = e(n)
  <2>1. \A n \in 1..k : e(n) \in S
    OBVIOUS
  <2> HIDE DEF e, S
  <2>2. w \in [1..k -> S]
    BY <2>1
  <2>3. k \in Nat
    BY <1>2, <1>5
  <2> QED BY <2>2, <2>3
<1>10. /\ DOMAIN g = 0..k /\ g = [n \in 0..k |-> g[n]]
       /\ \A n \in 0..k : g[n] = View(c, P(n), "started")
  OBVIOUS
<1>11. ASSUME NEW n \in 1..k PROVE Leads(<< w[n] >>, g[n - 1], g[n], c)
  <2>1. n - 1 \in 0..k /\ n \in 0..k
    BY <1>5
  <2>2. P(n) = P(n - 1) \ {order[n]}
    <3>1. \A j : j \in 1..n <=> j \in 1..(n - 1) \/ j = n
      BY <1>5
    <3> QED BY <3>1
  <2>3. e(n) = [type |-> "end", at |-> order[n], kind |-> c[order[n]].kind]
    BY DEF R!End
  <2>4. Beneath(c, c) /\ order[n] \in DOMAIN c
    BY <1>8, BeneathSelf
  <2> HIDE DEF P, e, w, g
  <2>5. Leads(<< e(n) >>, View(c, P(n - 1), "started"),
              View(c, P(n - 1) \ {order[n]}, "started"), c)
    BY <2>3, <2>4, Ending
  <2>6. g[n - 1] = View(c, P(n - 1), "started") /\ g[n] = View(c, P(n - 1) \ {order[n]}, "started")
    BY <1>10, <2>1, <2>2
  <2> QED BY <1>9, <2>5, <2>6
<1>12. g[0] \in Views /\ Beneath(g[0].blocks, c) /\ g[0] = View(c, O, "started")
  <2>1. P(0) = O /\ 0 \in 0..k
    BY <1>5
  <2> HIDE DEF P, g
  <2>2. g[0] = View(c, O, "started")
    BY <1>10, <2>1
  <2>3. View(c, O, "started") \in Views /\ Beneath(View(c, O, "started").blocks, c)
    BY ViewIs, ShownIs
  <2> QED BY <2>2, <2>3
<1>13. g[k] = View(c, {}, "started")
  <2>1. \A i \in DOMAIN c : i \in P(k) <=> i \in {}
    <3> SUFFICES ASSUME NEW i \in DOMAIN c, i \in P(k) PROVE FALSE
      OBVIOUS
    <3>1. i \in calls
      OBVIOUS
    <3>2. PICK n \in 1..k : order[n] = i
      BY <1>7, <3>1
    <3> QED BY <3>2
  <2>2. k \in 0..k
    BY <1>5
  <2> HIDE DEF P, g
  <2>3. View(c, P(k), "started") = View(c, {}, "started")
    BY <2>1, ViewSame
  <2> QED BY <1>10, <2>2, <2>3
<1>14. R!MistralEnds = w
  BY <1>1, <1>6
<1> HIDE DEF w, g, S
<1>15. Leads(w, g[0], g[k], c)
  BY <1>9, <1>10, <1>11, <1>12, LeadsAlong
<1> QED BY <1>12, <1>13, <1>14, <1>15

\* The last event.
Finishes(v, c, O, p, t) == /\ Leads(<< [type |-> t] >>, View(c, O, p), v, c)
                           /\ v.phase = "over" /\ v.outcome = t /\ v.blocks = Shown(c, O)
\* The last event leads from what was sent to the end.
LEMMA Finishing ==
  ASSUME NEW c \in Seq(Cell), NEW O, NEW p \in {"silent", "started"}, NEW t \in {"done", "error"}
  PROVE  \E v : Finishes(v, c, O, p, t)
<1> DEFINE v0 == View(c, O, p)
           v == [phase |-> "over", outcome |-> t, blocks |-> Shown(c, O)]
           e == [type |-> t]
<1>1. v0 \in Views /\ v0.blocks = Shown(c, O) /\ v0.phase = p
  BY ViewIs
<1>2. Shown(c, O) \in Seq(Piece) /\ Beneath(Shown(c, O), c)
  BY ShownIs
<1>3. v \in Views
  BY <1>2 DEF Views
<1>4. Reads(v0, e, v)
  <2>1. v = [v0 EXCEPT !.phase = "over", !.outcome = t]
    <3> DEFINE B == Shown(c, O)
    <3>1. v0 = [phase |-> p, outcome |-> "none", blocks |-> B]
          /\ v = [phase |-> "over", outcome |-> t, blocks |-> B]
      BY DEF View
    <3> DEFINE x == "over"
               m == [v0 EXCEPT !.phase = x]
    <3>2. v = [phase |-> x, outcome |-> t, blocks |-> B]
      BY <3>1
    <3> HIDE DEF B, v0, v, x
    <3>3. m = [phase |-> x, outcome |-> "none", blocks |-> B]
      BY <3>1
    <3>4. [v0 EXCEPT !.phase = x, !.outcome = t] = [m EXCEPT !.outcome = t]
      OBVIOUS
    <3> HIDE DEF m
    <3>5. v = [m EXCEPT !.outcome = t]
      BY <3>2, <3>3
    <3> QED BY <3>4, <3>5 DEF x
  <2>2. e.type = t
    OBVIOUS
  <2> HIDE DEF v, v0, e
  <2>3. v0.phase # "over"
    BY <1>1
  <2> QED BY <2>1, <2>2, <2>3 DEF Reads
<1>5. v.phase = "over" /\ v.outcome = t /\ v.blocks = Shown(c, O)
  OBVIOUS
<1> HIDE DEF v, v0, e
<1>6. Leads(<<e>>, v0, v, c)
  BY <1>1, <1>2, <1>3, <1>4, <1>5, LeadsOneStep
<1> QED BY <1>5, <1>6 DEF v0, e, Finishes

\* A stream that has ended has sent all, and closed what its provider closes.
LEMMA Over ==
  ASSUME ReplyInv, reader = "reading", ~over, over' = TRUE, UNCHANGED R!readerVars,
         UNCHANGED <<family, content, cur, upstream, started, inputs>>,
         NEW ev, NEW O, NEW p \in {"silent", "started"}, NEW t \in {"done", "error"},
         Leads(ev, Sent, View(content, O, p), content),
         wire' = wire \o (ev \o << [type |-> t] >>),
         t = "done" /\ R!EndsItsBlocks => \A i \in DOMAIN content : i \notin O
  PROVE  ReplyInv'
<1>1. Live /\ content \in Seq(Cell)
  BY DEF ReplyInv, Live, ProviderTypes
<1>0. PICK v : Finishes(v, content, O, p, t)
  BY <1>1, Finishing
<1>2. /\ Leads(<< [type |-> t] >>, View(content, O, p), v, content)
      /\ v.phase = "over" /\ v.outcome = t /\ v.blocks = Shown(content, O)
  BY <1>0 DEF Finishes
<1>3. Leads(ev \o << [type |-> t] >>, Sent, v, content)
  BY <1>2, LeadsOn
<1>4. Leads(wire, Now, Sent, content)
  BY <1>1 DEF Live
<1>5. Leads(wire', Now, v, content)
  BY <1>3, <1>4, LeadsOn
<1>6. Now' = Now /\ reader' = reader
  BY DEF Now, R!readerVars
<1>7. Final(v)
  <2>1. /\ Len(Shown(content, O)) = Len(content) /\ DOMAIN Shown(content, O) = 1..Len(content)
        /\ DOMAIN content = 1..Len(content)
    BY <1>1, ShownIs
  <2>2. ASSUME NEW i \in 1..Len(content)
        PROVE  /\ Shown(content, O)[i].said = content[i].said
               /\ i \notin O => ~Shown(content, O)[i].open
    <3> DEFINE o == IF i \in O THEN TRUE ELSE FALSE
    <3>1. Shown(content, O)[i] = [kind |-> content[i].kind, id |-> content[i].id,
                                  said |-> content[i].said, open |-> o]
      BY DEF Shown
    <3>2. i \notin O => ~o
      OBVIOUS
    <3> HIDE DEF o
    <3>3. Shown(content, O)[i].open = o /\ Shown(content, O)[i].said = content[i].said
      BY <3>1
    <3> QED BY <3>2, <3>3
  <2> QED BY <1>2, <2>1, <2>2 DEF Final
<1>8. Final(v)'
  BY <1>7 DEF Final, R!EndsItsBlocks
<1>9. ProviderTypes' /\ ProviderFits'
  <2>1. ProviderTypes /\ ProviderFits
    BY <1>1 DEF Live
  <2>2. ProviderTypes'
    BY <2>1 DEF ProviderTypes
  <2> QED BY <2>1, <2>2 DEF ProviderFits, Keyed, R!Responses, ItemFits
<1>10. Live'
  BY <1>5, <1>6, <1>8, <1>9 DEF Live
<1> QED BY <1>6, <1>10 DEF ReplyInv

\* The request fails.
LEMMA StreamFailsStep == ASSUME ReplyInv, R!StreamFails PROVE ReplyInv'
<1>1. /\ reader = "reading" /\ ~over /\ over' = TRUE /\ UNCHANGED R!readerVars
      /\ UNCHANGED <<family, content, cur, upstream, started, inputs>>
      /\ wire' = wire \o << [type |-> "error"] >>
  BY DEF R!StreamFails, R!Emits
<1> DEFINE p == IF started THEN "started" ELSE "silent"
<1>2. Live /\ content \in Seq(Cell) /\ p \in {"silent", "started"}
  BY <1>1 DEF ReplyInv, Live, ProviderTypes
<1>3. Sent = View(content, Opens, p)
  BY DEF Sent
<1> HIDE DEF p
<1>4. Leads(<<>>, Sent, View(content, Opens, p), content)
  BY <1>2, <1>3, ViewIs, ShownIs, LeadsNowhere
<1>5. <<>> \o << [type |-> "error"] >> = << [type |-> "error"] >>
  OBVIOUS
<1> DEFINE t == "error"
<1>6. t \in {"done", "error"} /\ t # "done" /\ wire' = wire \o (<<>> \o << [type |-> t] >>)
  BY <1>1, <1>5
<1> HIDE DEF t
<1> QED BY <1>1, <1>2, <1>4, <1>6, Over

\* The stream ends.
LEMMA StreamEndsStep == ASSUME ReplyInv, R!StreamEnds PROVE ReplyInv'
<1>1. /\ reader = "reading" /\ ~over /\ over' = TRUE /\ UNCHANGED R!readerVars
      /\ UNCHANGED <<family, content, cur, upstream, started, inputs>>
  BY DEF R!StreamEnds
<1>2. PICK t \in {"done", "error"} : wire' = wire \o (R!Closing \o << [type |-> t] >>)
  BY DEF R!StreamEnds, R!Emits
<1>3. Live /\ ProviderTypes /\ ProviderFits
  BY <1>1 DEF ReplyInv, Live
<1>4. content \in Seq(Cell) /\ DOMAIN content = 1..Len(content)
      /\ (cur # 0 => cur \in DOMAIN content) /\ (content # <<>> => started)
  BY <1>3 DEF ProviderTypes, ProviderFits
<1>5. CASE ~R!EndsItsBlocks
  <2> DEFINE p == IF started THEN "started" ELSE "silent"
  <2>1. R!Closing = <<>> /\ p \in {"silent", "started"}
    BY <1>5 DEF R!Closing, R!EndsItsBlocks, R!Responses
  <2>2. Sent = View(content, Opens, p)
    BY DEF Sent
  <2> HIDE DEF p
  <2>3. Leads(R!Closing, Sent, View(content, Opens, p), content)
    BY <1>4, <2>1, <2>2, ViewIs, ShownIs, LeadsNowhere
  <2> QED BY <1>1, <1>2, <1>5, <2>1, <2>3, Over
<1>6. CASE R!EndsItsBlocks /\ ~started
  <2>1. content = <<>> /\ cur = 0 /\ family # "mistral"
    BY <1>3, <1>4, <1>6 DEF ProviderFits
  <2>2. R!Closing = <<>>
    <3>1. R!Finished = <<>> /\ R!MistralEnds = <<>>
      BY <2>1 DEF R!Finished, R!MistralEnds
    <3>2. <<>> \o <<>> = <<>>
      OBVIOUS
    <3> QED BY <1>6, <3>1, <3>2 DEF R!Closing, R!EndsItsBlocks, R!Responses
  <2>3. Sent = View(content, Opens, "silent")
    BY <1>6 DEF Sent
  <2>4. Leads(R!Closing, Sent, View(content, Opens, "silent"), content)
    BY <1>4, <2>2, <2>3, ViewIs, ShownIs, LeadsNowhere
  <2>5. \A i \in DOMAIN content : i \notin Opens
    BY <2>1
  <2> DEFINE p == "silent"
  <2>6. p \in {"silent", "started"} /\ Leads(R!Closing, Sent, View(content, Opens, p), content)
    BY <2>4
  <2> HIDE DEF p
  <2> QED BY <1>1, <1>2, <2>5, <2>6, Over
<1>7. CASE R!EndsItsBlocks /\ started
  <2> DEFINE O == Opens \ {cur}
  <2>1. R!Closing = R!Finished \o R!MistralEnds /\ ~Keyed
    BY <1>7 DEF R!Closing, R!EndsItsBlocks, R!Responses, Keyed
  <2>2. Leads(R!Finished, Sent, View(content, O, "started"), content)
    BY <1>3, <1>4, <1>7, BeneathSelf, Closed
  <2>3. \A i \in DOMAIN content : i \in O => family = "mistral" /\ content[i].kind = "toolCall"
    BY <2>1 DEF Opens
  <2> HIDE DEF O
  <2>4. Leads(R!MistralEnds, View(content, O, "started"), View(content, {}, "started"), content)
    <3>1. CASE family = "mistral"
      BY <1>4, <2>3, <3>1, CallsEnd
    <3>2. CASE family # "mistral"
      <4>1. R!MistralEnds = <<>>
        BY <3>2 DEF R!MistralEnds
      <4>2. View(content, O, "started") = View(content, {}, "started")
        BY <1>4, <2>3, <3>2, ViewSame
      <4>3. Leads(<<>>, View(content, O, "started"), View(content, O, "started"), content)
        BY <1>4, ViewIs, ShownIs, LeadsNowhere
      <4> QED BY <4>1, <4>2, <4>3
    <3> QED BY <3>1, <3>2
  <2>5. Leads(R!Closing, Sent, View(content, {}, "started"), content)
    BY <2>1, <2>2, <2>4, LeadsOn
  <2> DEFINE p == "started"
             E == {}
  <2>6. p \in {"silent", "started"} /\ Leads(R!Closing, Sent, View(content, E, p), content)
        /\ \A i \in DOMAIN content : i \notin E
    BY <2>5
  <2> HIDE DEF p, E
  <2> QED BY <1>1, <1>2, <2>6, Over
<1> QED BY <1>5, <1>6, <1>7

\* The service refuses, or the request is made again.
LEMMA RefuseStep == ASSUME ReplyInv, R!Refuse \/ R!RetryEmpty PROVE ReplyInv'
<1>1. /\ reader = "reading" /\ ~over /\ over' = over /\ UNCHANGED R!readerVars
      /\ UNCHANGED <<family, content, cur, upstream, started, inputs, wire>>
  BY DEF R!Refuse, R!RetryEmpty
<1>2. ProviderTypes /\ ProviderFits
  BY <1>1 DEF ReplyInv, Live
<1>3. ProviderTypes'
  BY <1>1, <1>2 DEF ProviderTypes
<1>4. ProviderFits'
  BY <1>1, <1>2 DEF ProviderFits, Keyed, R!Responses, ItemFits
<1> QED BY <1>1, <1>3, <1>4, Quiet

\* Every step of a provider keeps the invariant.
LEMMA ProviderStepKeeps == ASSUME ReplyInv, R!ProviderStep PROVE ReplyInv'
<1>1. ASSUME NEW kind \in {"text", "thinking"},
             \/ R!CompletionsText(kind) \/ R!MistralItem(kind)
             \/ R!GooglePart(kind) \/ R!VertexPart(kind) \/ R!GeminiPart(kind)
      PROVE  ReplyInv'
  <2>1. R!TextPart(kind) /\ EndsBlocks
    BY <1>1 DEF R!CompletionsText, R!MistralItem, R!GooglePart, R!VertexPart, R!GeminiPart,
                EndsBlocks
  <2> QED BY <2>1, TextStep
<1>2. ASSUME NEW id \in 0..2,
             R!GoogleFunctionCall(id) \/ R!VertexFunctionCall(id) \/ R!GeminiFunctionCall(id)
      PROVE  ReplyInv'
  <2>1. R!FunctionCall(id) /\ family \in {"google", "vertex", "gemini"}
    BY <1>2 DEF R!GoogleFunctionCall, R!VertexFunctionCall, R!GeminiFunctionCall
  <2> QED BY <2>1, FunctionCallStep
<1>3. ASSUME NEW key \in DOMAIN upstream, R!AnthropicStop(key) \/ R!BedrockStop(key)
      PROVE  ReplyInv'
  <2>1. R!BlockStop(key) /\ Keyed
    BY <1>3 DEF R!AnthropicStop, R!BedrockStop, Keyed
  <2> QED BY <2>1, BlockStopStep
<1> QED BY <1>1, <1>2, <1>3, CompletionsCallStep, MistralCallStep, BedrockMessageStep,
           AnthropicStartStep, ItemAddedStep, BedrockStartStep, AnthropicDeltaStep,
           AnthropicRedactedStep, BedrockDeltaStep, ItemDeltaStep, SummaryPartDoneStep,
           ArgumentsDoneStep, ItemDoneStep, RefuseStep, StreamEndsStep, StreamFailsStep DEF R!ProviderStep

(***************************************************************************)
(* The reader.                                                             *)
(***************************************************************************)
\* What is read next is what leads on, and who reads it gets there.
LEMMA Arriving ==
  ASSUME ReplyInv, R!Reading
  PROVE  /\ Live /\ reader = "reading" /\ Now \in Views
         /\ \E v \in Views : /\ Reads(Now, Head(wire), v)
                             /\ reader' = reader /\ Now' = v => ReplyInv'
<1>1. /\ reader = "reading" /\ wire # <<>> /\ wire' = Tail(wire)
      /\ UNCHANGED <<family, over, content, cur, upstream, started, inputs>>
  BY DEF R!Reading, R!providerVars
<1>2. Live /\ ProviderTypes /\ ProviderFits
  BY <1>1 DEF ReplyInv, Live
<1>3. PICK z : /\ Leads(wire, Now, z, content) /\ (over => Final(z)) /\ (~over => z = Sent)
  BY <1>2 DEF Live
<1>4. PICK v \in Views : Reads(Now, Head(wire), v) /\ Leads(Tail(wire), v, z, content)
  BY <1>1, <1>3, LeadsAway
<1>5. Now \in Views
  BY <1>3, LeadsThere
<1>6. ASSUME reader' = reader, Now' = v PROVE ReplyInv'
  <2>1. Leads(wire', Now', z, content')
    BY <1>1, <1>4, <1>6
  <2>2. ProviderTypes'
    BY <1>1, <1>2 DEF ProviderTypes
  <2>3. ProviderFits'
    BY <1>1, <1>2 DEF ProviderFits, Keyed, R!Responses, ItemFits
  <2>4. Sent' = Sent
    BY <1>1 DEF Sent, Opens, Keyed
  <2>5. Final(z)' <=> Final(z)
    BY <1>1 DEF Final, R!EndsItsBlocks
  <2>6. Live'
    <3>1. CASE over
      BY <1>1, <1>3, <2>1, <2>2, <2>3, <2>5, <3>1 DEF Live
    <3>2. CASE ~over
      BY <1>1, <1>3, <2>1, <2>2, <2>3, <2>4, <3>2 DEF Live
    <3> QED BY <3>1, <3>2
  <2> QED BY <1>1, <1>6, <2>6 DEF ReplyInv
<1> QED BY <1>1, <1>2, <1>4, <1>5, <1>6

\* The same is read by the program.
Arrived(v) == Reads(Now, Head(wire), v) /\ v \in Views /\ Now \in Views

\* What the reader has, from its variables.
LEMMA NowIs ==
  ASSUME NEW p, NEW o, NEW bs, phase' = p, outcome' = o, partial' = bs,
         NEW v, v = [phase |-> p, outcome |-> o, blocks |-> bs]
  PROVE  Now' = v
  BY DEF Now

\* start
LEMMA StartRead ==
  ASSUME NEW v, Arrived(v), R!ReadStart
  PROVE  reader' = reader /\ Now' = v
<1>1. v = [Now EXCEPT !.phase = "started"]
  BY DEF Arrived, R!ReadStart, Reads
<1>2. v = [phase |-> "started", outcome |-> outcome, blocks |-> partial]
  BY <1>1 DEF Now
<1> QED BY <1>2 DEF R!ReadStart, Now

\* text_start, thinking_start, toolcall_start
LEMMA BeginRead ==
  ASSUME NEW v, Arrived(v), R!ReadBegin
  PROVE  reader' = reader /\ Now' = v
<1> DEFINE e == Head(wire)
           b == [kind |-> e.kind, id |-> e.id, said |-> <<>>, open |-> TRUE]
           bs == Append(partial, b)
<1>1. e.type = "begin"
  BY DEF R!ReadBegin
<1>2. Now.blocks = partial /\ partial \in Seq(Piece)
  BY DEF Now, Arrived, Views
<1>3. e.at = Len(Now.blocks) + 1 /\ v = [Now EXCEPT !.blocks = Append(@, b)]
  BY <1>1 DEF Arrived, Reads
<1>4. v = [phase |-> phase, outcome |-> outcome, blocks |-> bs]
  <2>1. Append(Now.blocks, b) = bs
    BY <1>2
  <2> HIDE DEF bs, b
  <2>2. v = [Now EXCEPT !.blocks = bs]
    BY <1>3, <2>1
  <2> QED BY <2>2 DEF Now
<1>5. ~(e.at \in DOMAIN partial)
  BY <1>2, <1>3
<1>6. partial' = bs /\ UNCHANGED <<reader, phase, outcome>>
  BY <1>5 DEF R!ReadBegin
<1> HIDE DEF bs
<1> QED BY <1>4, <1>6, NowIs

\* text_delta, thinking_delta, toolcall_delta
LEMMA DeltaRead ==
  ASSUME NEW v, Arrived(v), R!ReadDelta
  PROVE  reader' = reader /\ Now' = v
<1> DEFINE e == Head(wire)
           bs == [partial EXCEPT ![e.at].said = Append(partial[e.at].said, e.token)]
<1>1. e.type = "delta"
  BY DEF R!ReadDelta
<1>2. Now.blocks = partial
  BY DEF Now
<1>3. /\ e.at \in DOMAIN partial /\ partial[e.at].kind = e.kind
      /\ v = [Now EXCEPT !.blocks = bs]
  BY <1>1, <1>2 DEF Arrived, Reads
<1>4. R!Fits(e)
  BY <1>3 DEF R!Fits
<1>5. partial' = bs /\ UNCHANGED <<reader, phase, outcome>>
  BY <1>4 DEF R!ReadDelta
<1> HIDE DEF bs
<1>6. v = [phase |-> phase, outcome |-> outcome, blocks |-> bs]
  BY <1>3 DEF Now
<1> QED BY <1>5, <1>6, NowIs

\* text_end, thinking_end, toolcall_end
LEMMA EndRead ==
  ASSUME NEW v, Arrived(v), R!ReadEnd
  PROVE  reader' = reader /\ Now' = v
<1> DEFINE e == Head(wire)
           bs == [partial EXCEPT ![e.at].open = FALSE]
<1>1. e.type = "end"
  BY DEF R!ReadEnd
<1>2. Now.blocks = partial /\ partial \in Seq(Piece)
  BY DEF Now, Arrived, Views
<1>3. /\ e.at \in DOMAIN partial /\ partial[e.at].kind = e.kind
      /\ v = [Now EXCEPT !.blocks = [@ EXCEPT ![e.at].open = FALSE]]
  BY <1>1, <1>2 DEF Arrived, Reads
<1>4. v = [Now EXCEPT !.blocks = bs]
  BY <1>2, <1>3
<1>5. R!Fits(e)
  BY <1>3 DEF R!Fits
<1>6. /\ partial' = [ i \in DOMAIN partial |->
                        IF i = e.at /\ R!Fits(e) THEN [partial[i] EXCEPT !.open = FALSE]
                                                 ELSE partial[i] ]
      /\ UNCHANGED <<reader, phase, outcome>>
  BY <1>5 DEF R!ReadEnd
<1>7. partial' = bs
  <2> DEFINE place == e.at
             x == [partial[place] EXCEPT !.open = FALSE]
  <2>1. bs = [partial EXCEPT ![place] = x] /\ place \in DOMAIN partial
    BY <1>3
  <2>2. partial' = [i \in DOMAIN partial |-> IF i = place THEN x ELSE partial[i]]
    BY <1>5, <1>6
  <2>3. partial = [i \in DOMAIN partial |-> partial[i]]
    BY <1>2
  <2> HIDE DEF bs, x, place
  <2> QED BY <2>1, <2>2, <2>3
<1> HIDE DEF bs
<1>8. v = [phase |-> phase, outcome |-> outcome, blocks |-> bs]
  BY <1>4 DEF Now
<1> QED BY <1>6, <1>7, <1>8, NowIs

\* done, error
LEMMA LastRead ==
  ASSUME NEW v, Arrived(v), R!ReadLast
  PROVE  reader' = reader /\ Now' = v
<1> DEFINE e == Head(wire)
           t == e.type
<1>1. t \in {"done", "error"} /\ phase' = "over" /\ outcome' = t /\ UNCHANGED <<reader, partial>>
  BY DEF R!ReadLast
<1>2. v = [Now EXCEPT !.phase = "over", !.outcome = t]
  BY <1>1 DEF Arrived, Reads
<1> HIDE DEF t
<1>3. v = [phase |-> "over", outcome |-> t, blocks |-> partial]
  BY <1>2 DEF Now
<1> QED BY <1>1, <1>3 DEF Now

\* The connection ends or fails: what has been read stays.
LEMMA ConnectionKeeps ==
  ASSUME ReplyInv, R!ConnectionEnds \/ R!ConnectionFails
  PROVE  ReplyInv'
<1>1. /\ reader = "reading" /\ reader' = "ended" /\ UNCHANGED <<content, family, partial>>
      /\ outcome' = "done" => outcome = "done"
  BY DEF R!ConnectionEnds, R!ConnectionFails, R!providerVars
<1>2. R!ReaderRebuilds
  BY ReplyRebuilds
<1>3. R!ReaderRebuilds'
  BY <1>1, <1>2 DEF R!ReaderRebuilds, R!EndsItsBlocks
<1> QED BY <1>1, <1>3 DEF ReplyInv

\* Every step of the reader keeps the invariant.
LEMMA ReaderStepKeeps == ASSUME ReplyInv, R!ReaderStep PROVE ReplyInv'
<1>1. CASE R!ReadStart \/ R!ReadBegin \/ R!ReadDelta \/ R!ReadEnd \/ R!ReadLast
  <2>1. R!Reading
    BY <1>1 DEF R!ReadStart, R!ReadBegin, R!ReadDelta, R!ReadEnd, R!ReadLast
  <2>2. PICK v \in Views : Arrived(v) /\ (reader' = reader /\ Now' = v => ReplyInv')
    BY <2>1, Arriving DEF Arrived
  <2> QED BY <1>1, <2>2, StartRead, BeginRead, DeltaRead, EndRead, LastRead
<1>2. CASE R!ConnectionEnds \/ R!ConnectionFails
  BY <1>2, ConnectionKeeps
<1> QED BY <1>1, <1>2 DEF R!ReaderStep

\* It holds at first.
LEMMA ReplyInit == R!Init => ReplyInv
<1> SUFFICES ASSUME R!Init PROVE ReplyInv
  OBVIOUS
<1>1. /\ content = <<>> /\ cur = 0 /\ upstream = <<>> /\ inputs = 0 /\ ~over /\ over = FALSE
      /\ started = (family \notin {"gemini", "bedrock"})
      /\ wire = (IF started THEN << [type |-> "start"] >> ELSE <<>>)
      /\ reader = "reading" /\ phase = "silent" /\ outcome = "none" /\ partial = <<>>
  BY DEF R!Init, R!Nothing
<1>2. ProviderTypes
  <2>1. <<>> \in Seq(Cell) /\ <<>> \in Seq(Item) /\ 0 \in Nat /\ FALSE \in BOOLEAN
    OBVIOUS
  <2>2. started \in BOOLEAN
    BY <1>1
  <2> QED BY <1>1, <2>1, <2>2 DEF ProviderTypes
<1>3. ProviderFits
  <2>1. started <=> family \notin {"gemini", "bedrock"}
    BY <1>1
  <2>2. DOMAIN upstream = {} /\ upstream = <<>>
    BY <1>1
  <2>3. ItemFits
    BY <1>1 DEF ItemFits
  <2> QED BY <1>1, <2>1, <2>2, <2>3 DEF ProviderFits
<1>4. Now = View(content, Opens, "silent")
  <2>1. Shown(content, Opens) = <<>>
    <3>1. content \in Seq(Cell)
      BY <1>2 DEF ProviderTypes
    <3>2. Shown(content, Opens) \in Seq(Piece) /\ Len(Shown(content, Opens)) = 0
      BY <1>1, <3>1, ShownIs
    <3> QED BY <3>2
  <2> QED BY <1>1, <2>1 DEF Now, View
<1>5. Leads(wire, Now, Sent, content)
  <2>1. content \in Seq(Cell) /\ Beneath(content, content)
    BY <1>2, BeneathSelf DEF ProviderTypes
  <2>2. CASE started
    <3>1. wire = << [type |-> "start"] >> /\ Sent = View(content, Opens, "started")
      BY <1>1, <2>2 DEF Sent
    <3> QED BY <1>4, <2>1, <3>1, Starting
  <2>3. CASE ~started
    <3>1. wire = <<>> /\ Sent = View(content, Opens, "silent")
      BY <1>1, <2>3 DEF Sent
    <3>2. View(content, Opens, "silent") \in Views
          /\ Beneath(View(content, Opens, "silent").blocks, content)
      BY <2>1, ViewIs, ShownIs
    <3> QED BY <1>4, <3>1, <3>2, LeadsNowhere
  <2> QED BY <2>2, <2>3
<1> QED BY <1>1, <1>2, <1>3, <1>5 DEF ReplyInv, Live

\* It is about a reply only.
LEMMA ReplyUnchanged == ReplyInv /\ UNCHANGED replyVars => ReplyInv'
<1> SUFFICES ASSUME ReplyInv, UNCHANGED replyVars PROVE ReplyInv'
  OBVIOUS
<1>1. UNCHANGED <<family, over, content, cur, upstream, started, inputs, wire, reader, phase,
                  outcome, partial>>
  BY DEF replyVars
<1>2. ProviderTypes' <=> ProviderTypes
  BY <1>1 DEF ProviderTypes
<1>3. ProviderFits' <=> ProviderFits
  BY <1>1 DEF ProviderFits, Keyed, R!Responses, ItemFits
<1>4. Now' = Now /\ Sent' = Sent
  BY <1>1 DEF Now, Sent, Opens, Keyed
<1>5. R!ReaderRebuilds' <=> R!ReaderRebuilds
  BY <1>1 DEF R!ReaderRebuilds, R!EndsItsBlocks
<1>6. \A v : Final(v)' <=> Final(v)
  BY <1>1 DEF Final, R!EndsItsBlocks
<1>7. Live' <=> Live
  BY <1>1, <1>2, <1>3, <1>4, <1>6 DEF Live
<1> QED BY <1>1, <1>5, <1>7 DEF ReplyInv

\* Every step of the composition keeps it.
LEMMA ReplyStep == ReplyInv /\ [NextReplies]_allVars => ReplyInv'
<1>1. ASSUME ReplyInv, R!Next PROVE ReplyInv'
  BY <1>1, ProviderStepKeeps, ReaderStepKeeps DEF R!Next
<1>2. [NextReplies]_allVars => R!Next \/ UNCHANGED replyVars
  BY DEF NextReplies, allVars
<1> QED BY <1>1, <1>2, ReplyUnchanged

\* What the reader of streamProxy has rebuilt is at any time the beginning of the
\* provider's message, and all of it when the reply is done, whatever the provider.
THEOREM MessageRebuilt == SpecReplies => []ReaderRebuilds
<1>1. InitReplies => ReplyInv
  BY ReplyInit DEF InitReplies
<1>2. ReplyInv => ReaderRebuilds
  BY ReplyRebuilds DEF ReaderRebuilds
<1> QED BY <1>1, <1>2, ReplyStep, PTL DEF SpecReplies

\* Blocks, as the protocol tells them apart.
Outline(bs) == [i \in DOMAIN bs |-> [kind |-> bs[i].kind, open |-> bs[i].open]]

\* A block begins: so it does in the outline.
LEMMA OutlineBegins ==
  ASSUME NEW bs \in Seq(Piece), NEW kind \in R!Kinds, NEW id \in Nat
  PROVE  Outline(Append(bs, [kind |-> kind, id |-> id, said |-> <<>>, open |-> TRUE]))
           = Append(Outline(bs), [kind |-> kind, open |-> TRUE])
<1> DEFINE S == [kind : R!Kinds, open : BOOLEAN]
           b == [kind |-> kind, id |-> id, said |-> <<>>, open |-> TRUE]
           o == [kind |-> kind, open |-> TRUE]
           d == Append(bs, b)
           n == Len(bs) + 1
<1>1. b \in Piece /\ o \in S /\ b.kind = kind /\ b.open = TRUE
  BY DEF Piece
<1>2. \A i \in DOMAIN bs : [kind |-> bs[i].kind, open |-> bs[i].open] \in S
  <2> SUFFICES ASSUME NEW i \in DOMAIN bs PROVE bs[i].kind \in R!Kinds /\ bs[i].open \in BOOLEAN
    OBVIOUS
  <2>1. bs[i] \in Piece
    BY ElementOfSeq
  <2> QED BY <2>1 DEF Piece
<1>3. Outline(bs) \in Seq(S) /\ Len(Outline(bs)) = Len(bs) /\ DOMAIN Outline(bs) = 1..Len(bs)
  <2>1. DOMAIN bs = 1..Len(bs) /\ Len(bs) \in Nat
    OBVIOUS
  <2>2. DOMAIN Outline(bs) = 1..Len(bs) /\ \A i \in 1..Len(bs) : Outline(bs)[i] \in S
    BY <1>2, <2>1 DEF Outline
  <2>3. Outline(bs) = [i \in 1..Len(bs) |-> Outline(bs)[i]]
    BY <2>1 DEF Outline
  <2> HIDE DEF S
  <2>4. Outline(bs) \in [1..Len(bs) -> S]
    BY <2>2, <2>3
  <2> QED BY <2>1, <2>4, SeqDef, LenProperties
<1> HIDE DEF S, b
<1>4. /\ d \in Seq(Piece) /\ Len(d) = n /\ DOMAIN d = 1..n /\ d[n] = b
      /\ \A i \in 1..Len(bs) : d[i] = bs[i]
  BY <1>1, AppendProperties
<1> HIDE DEF d
<1>5. /\ Append(Outline(bs), o) \in Seq(S) /\ Len(Append(Outline(bs), o)) = n
      /\ DOMAIN Append(Outline(bs), o) = 1..n /\ Append(Outline(bs), o)[n] = o
      /\ \A i \in 1..Len(bs) : Append(Outline(bs), o)[i] = Outline(bs)[i]
  <2> HIDE DEF o
  <2> QED BY <1>1, <1>3, AppendProperties
<1>6. \A i \in 1..n : Outline(d)[i] = Append(Outline(bs), o)[i]
  <2> SUFFICES ASSUME NEW i \in 1..n PROVE Outline(d)[i] = Append(Outline(bs), o)[i]
    OBVIOUS
  <2>1. Outline(d)[i] = [kind |-> d[i].kind, open |-> d[i].open]
    BY <1>4 DEF Outline
  <2>2. CASE i = n
    BY <1>1, <1>4, <1>5, <2>1, <2>2
  <2>3. CASE i \in 1..Len(bs)
    <3>1. Outline(bs)[i] = [kind |-> bs[i].kind, open |-> bs[i].open]
      BY <1>3, <2>3 DEF Outline
    <3> QED BY <1>4, <1>5, <2>1, <2>3, <3>1
  <2>4. i = n \/ i \in 1..Len(bs)
    <3>1. Len(bs) \in Nat
      OBVIOUS
    <3> QED BY <3>1
  <2> QED BY <2>2, <2>3, <2>4
<1>7. Outline(d) = [i \in 1..n |-> Outline(d)[i]]
  BY <1>4 DEF Outline
<1>8. Append(Outline(bs), o) = [i \in 1..n |-> Append(Outline(bs), o)[i]]
  BY <1>5
<1>9. Outline(d) = Append(Outline(bs), o)
  BY <1>6, <1>7, <1>8
<1> QED BY <1>9 DEF d, b

\* A block after more text, and after its end; the same of an outline.
WithText(bs, i, t) == [bs EXCEPT ![i].said = t]
Ended(bs, i) == [bs EXCEPT ![i].open = FALSE]

\* More text in a block: the outline stays.
LEMMA OutlineGrows ==
  ASSUME NEW bs \in Seq(Piece), NEW i \in DOMAIN bs, NEW t
  PROVE  Outline(WithText(bs, i, t)) = Outline(bs)
<1> DEFINE d == [bs EXCEPT ![i].said = t]
<1>1. DOMAIN d = DOMAIN bs
  OBVIOUS
<1>2. \A j \in DOMAIN bs : d[j].kind = bs[j].kind /\ d[j].open = bs[j].open
  <2> SUFFICES ASSUME NEW j \in DOMAIN bs PROVE d[j].kind = bs[j].kind /\ d[j].open = bs[j].open
    OBVIOUS
  <2>1. bs[i] \in Piece
    BY ElementOfSeq
  <2>2. [bs[i] EXCEPT !.said = t].kind = bs[i].kind /\ [bs[i] EXCEPT !.said = t].open = bs[i].open
    BY <2>1 DEF Piece
  <2>3. d[j] = IF j = i THEN [bs[i] EXCEPT !.said = t] ELSE bs[j]
    OBVIOUS
  <2> HIDE DEF d
  <2> QED BY <2>2, <2>3
<1> HIDE DEF d
<1>3. Outline(d) = Outline(bs)
  BY <1>1, <1>2 DEF Outline
<1> QED BY <1>3, Zenon DEF d, WithText

\* A block ends: so it does in the outline, or it had.
LEMMA OutlineEnds ==
  ASSUME NEW bs \in Seq(Piece), NEW i \in DOMAIN bs
  PROVE  /\ i \in DOMAIN Outline(bs)
         /\ Outline(Ended(bs, i)) = Ended(Outline(bs), i)
         /\ Outline(bs)[i].open \/ Outline(Ended(bs, i)) = Outline(bs)
<1> DEFINE x == [bs[i] EXCEPT !.open = FALSE]
           d == [bs EXCEPT ![i].open = FALSE]
           o == [kind |-> bs[i].kind, open |-> FALSE]
<1>1. x.kind = bs[i].kind /\ x.open = FALSE /\ bs[i].open \in BOOLEAN
  <2>1. bs[i] \in Piece
    BY ElementOfSeq
  <2> QED BY <2>1 DEF Piece
<1>2. DOMAIN d = DOMAIN bs /\ \A j \in DOMAIN bs : d[j] = IF j = i THEN x ELSE bs[j]
  OBVIOUS
<1> HIDE DEF d, x
<1>3. Outline(d) = [j \in DOMAIN bs |-> IF j = i THEN o ELSE Outline(bs)[j]]
  <2>1. \A j \in DOMAIN bs : [kind |-> d[j].kind, open |-> d[j].open]
                             = IF j = i THEN o ELSE Outline(bs)[j]
    BY <1>1, <1>2 DEF Outline
  <2> HIDE DEF o
  <2>2. Outline(d) = [j \in DOMAIN bs |-> [kind |-> d[j].kind, open |-> d[j].open]]
    BY <1>2 DEF Outline
  <2> QED BY <2>1, <2>2
<1>4. DOMAIN Outline(bs) = DOMAIN bs
      /\ Outline(bs)[i] = [kind |-> bs[i].kind, open |-> bs[i].open]
  BY DEF Outline
<1>5. [Outline(bs)[i] EXCEPT !.open = FALSE] = o
  <2> DEFINE f == FALSE
             g == bs[i].open
             k == bs[i].kind
  <2> HIDE DEF f, g, k
  <2>1. [[kind |-> k, open |-> g] EXCEPT !.open = f] = [kind |-> k, open |-> f]
    OBVIOUS
  <2>2. [Outline(bs)[i] EXCEPT !.open = f] = [kind |-> k, open |-> f]
    BY <1>4, <2>1, Zenon DEF k, g
  <2> QED BY <2>2, Zenon DEF f, k
<1>6. [Outline(bs) EXCEPT ![i].open = FALSE]
        = [j \in DOMAIN bs |-> IF j = i THEN o ELSE Outline(bs)[j]]
  <2> HIDE DEF o
  <2> QED BY <1>4, <1>5
<1>7. ASSUME ~Outline(bs)[i].open PROVE Outline(d) = Outline(bs)
  <2>1. bs[i].open = FALSE
    BY <1>1, <1>4, <1>7
  <2>2. Outline(bs)[i] = o
    BY <1>4, <2>1
  <2>3. Outline(bs) = [j \in DOMAIN bs |-> Outline(bs)[j]]
    BY DEF Outline
  <2> HIDE DEF o
  <2> QED BY <1>3, <2>2, <2>3
<1>8. d = Ended(bs, i) /\ [Outline(bs) EXCEPT ![i].open = FALSE] = Ended(Outline(bs), i)
  BY Zenon DEF d, Ended
<1> QED BY <1>3, <1>4, <1>6, <1>7, <1>8

\* One event read by a reader of the protocol: a step of it, or it changes nothing.
LEMMA ReadsProtocol ==
  ASSUME NEW v, Arrived(v), Now' = v
  PROVE  [R!Protocol!Next]_R!Protocol!vars
<1> DEFINE e == Head(wire)
           bs == v.blocks
<1>1. /\ Now.phase = phase /\ Now.blocks = partial /\ partial \in Seq(Piece)
      /\ phase' = v.phase /\ partial' = bs /\ bs \in Seq(Piece)
  BY DEF Arrived, Now, Views
<1>2. R!Protocol!vars = <<phase, Outline(partial)>> /\ (R!Protocol!vars)' = <<phase', Outline(bs)>>
  BY <1>1 DEF R!Protocol!vars, Outline
<1>3. ASSUME phase = "silent", phase' = "started", Outline(bs) = Outline(partial)
      PROVE R!Protocol!Start
  BY <1>1, <1>3 DEF R!Protocol!Start, Outline
<1>4. ASSUME phase # "over", phase' = "over", Outline(bs) = Outline(partial)
      PROVE R!Protocol!Over
  BY <1>1, <1>4 DEF R!Protocol!Over, Outline
<1>5. ASSUME NEW kind \in R!Kinds, phase = "started", phase' = phase,
             Outline(bs) = Append(Outline(partial), [kind |-> kind, open |-> TRUE])
      PROVE R!Protocol!Next
  <2>1. R!Protocol!BlockStart(kind)
    BY <1>1, <1>5, Zenon DEF R!Protocol!BlockStart, Outline
  <2>2. kind \in R!Protocol!Kinds
    BY DEF R!Protocol!Kinds, R!Kinds
  <2> QED BY <2>1, <2>2, Zenon DEF R!Protocol!Next
<1>6. ASSUME NEW i \in DOMAIN Outline(partial), phase = "started", phase' = phase,
             Outline(partial)[i].open, Outline(bs) = Ended(Outline(partial), i)
      PROVE R!Protocol!Next
  <2>1. R!Protocol!BlockEnd(i)
    BY <1>1, <1>6, Zenon DEF R!Protocol!BlockEnd, Outline, Ended
  <2> QED BY <2>1, Zenon DEF R!Protocol!Next, Outline
<1> HIDE DEF bs
<1>7. Reads(Now, e, v)
  BY DEF Arrived
<1>8. CASE e.type = "start"
  <2>1. phase = "silent" /\ v = [Now EXCEPT !.phase = "started"]
    BY <1>1, <1>7, <1>8 DEF Reads
  <2>2. v.phase = "started" /\ v.blocks = partial
    BY <2>1 DEF Now
  <2> QED BY <1>1, <1>3, <2>1, <2>2 DEF R!Protocol!Next, bs
<1>9. CASE e.type = "begin"
  <2> DEFINE b == [kind |-> e.kind, id |-> e.id, said |-> <<>>, open |-> TRUE]
  <2>1. phase = "started" /\ v = [Now EXCEPT !.blocks = Append(@, b)]
    BY <1>1, <1>7, <1>9 DEF Reads
  <2> HIDE DEF b
  <2>2. v.phase = "started" /\ bs = Append(partial, b)
    BY <2>1 DEF Now, bs
  <2>3. b \in Piece
    <3>1. bs[Len(bs)] = b /\ Len(bs) \in DOMAIN bs
      BY <1>1, <2>2
    <3> QED BY <1>1, <3>1, ElementOfSeq
  <2>4. e.kind \in R!Kinds /\ e.id \in Nat
    BY <2>3 DEF b, Piece
  <2>5. Outline(bs) = Append(Outline(partial), [kind |-> e.kind, open |-> TRUE])
    BY <1>1, <2>2, <2>4, OutlineBegins DEF b
  <2>6. phase = "started" /\ phase' = phase
    BY <1>1, <2>1, <2>2
  <2> QED BY <1>5, <2>4, <2>5, <2>6, Zenon
<1>10. CASE e.type = "delta"
  <2> DEFINE t == Append(partial[e.at].said, e.token)
  <2>1. /\ phase = "started" /\ e.at \in DOMAIN partial
        /\ v = [Now EXCEPT !.blocks = [partial EXCEPT ![e.at].said = t]]
    BY <1>1, <1>7, <1>10 DEF Reads
  <2> HIDE DEF t
  <2>2. v.phase = "started" /\ bs = WithText(partial, e.at, t)
    BY <2>1 DEF Now, WithText, bs
  <2>3. Outline(bs) = Outline(partial)
    BY <1>1, <2>1, <2>2, OutlineGrows
  <2> QED BY <1>1, <1>2, <2>1, <2>2, <2>3
<1>11. CASE e.type = "end"
  <2>1. /\ phase = "started" /\ e.at \in DOMAIN partial
        /\ v = [Now EXCEPT !.blocks = [partial EXCEPT ![e.at].open = FALSE]]
    BY <1>1, <1>7, <1>11 DEF Reads
  <2>2. v.phase = "started" /\ bs = Ended(partial, e.at)
    BY <2>1 DEF Now, Ended, bs
  <2>3. /\ e.at \in DOMAIN Outline(partial)
        /\ Outline(bs) = Ended(Outline(partial), e.at)
        /\ Outline(partial)[e.at].open \/ Outline(bs) = Outline(partial)
    BY <1>1, <2>1, <2>2, OutlineEnds
  <2>4. CASE Outline(partial)[e.at].open
    <3>1. phase = "started" /\ phase' = phase
      BY <1>1, <2>1, <2>2
    <3> QED BY <1>6, <2>3, <2>4, <3>1, Zenon
  <2>5. CASE Outline(bs) = Outline(partial)
    BY <1>1, <1>2, <2>1, <2>2, <2>5
  <2> QED BY <2>3, <2>4, <2>5
<1>12. CASE e.type \in {"done", "error"}
  <2> DEFINE t == e.type
  <2>1. phase # "over" /\ v = [Now EXCEPT !.phase = "over", !.outcome = t]
    BY <1>1, <1>7, <1>12 DEF Reads
  <2> HIDE DEF t
  <2>2. v.phase = "over" /\ bs = partial
    BY <2>1 DEF Now, bs
  <2> QED BY <1>1, <1>4, <2>1, <2>2 DEF R!Protocol!Next
<1>13. e.type \in {"start", "begin", "delta", "end", "done", "error"}
  BY <1>7 DEF Reads
<1> QED BY <1>8, <1>9, <1>10, <1>11, <1>12, <1>13

\* A step of the reader is a step of the protocol, or it changes nothing of it.
LEMMA ReaderProtocol ==
  ASSUME ReplyInv, R!ReaderStep
  PROVE  [R!Protocol!Next]_R!Protocol!vars
<1>1. CASE R!ReadStart \/ R!ReadBegin \/ R!ReadDelta \/ R!ReadEnd \/ R!ReadLast
  <2>1. R!Reading
    BY <1>1 DEF R!ReadStart, R!ReadBegin, R!ReadDelta, R!ReadEnd, R!ReadLast
  <2>2. PICK v \in Views : Arrived(v)
    BY <2>1, Arriving DEF Arrived
  <2> QED BY <1>1, <2>2, StartRead, BeginRead, DeltaRead, EndRead, LastRead, ReadsProtocol
<1>2. CASE R!ConnectionEnds \/ R!ConnectionFails
  <2>1. phase' = "over" /\ partial' = partial
    BY <1>2 DEF R!ConnectionEnds, R!ConnectionFails
  <2>2. CASE phase = "over"
    BY <2>1, <2>2 DEF R!Protocol!vars
  <2>3. CASE phase # "over"
    BY <2>1, <2>3 DEF R!Protocol!Next, R!Protocol!Over
  <2> QED BY <2>2, <2>3
<1> QED BY <1>1, <1>2 DEF R!ReaderStep

\* The provider's steps change nothing of what has been read.
LEMMA ProviderSilent == ASSUME R!ProviderStep PROVE UNCHANGED R!readerVars
<1>1. R!Takes => UNCHANGED R!readerVars
  BY DEF R!Takes
<1> QED
  BY <1>1 DEF R!ProviderStep, R!CompletionsText, R!MistralItem, R!GooglePart, R!VertexPart,
     R!GeminiPart, R!TextPart, R!CompletionsToolCall, R!MistralToolCall, R!GoogleFunctionCall,
     R!VertexFunctionCall, R!GeminiFunctionCall, R!FunctionCall, R!AnthropicStart, R!BedrockMessage,
     R!BedrockStart, R!AnthropicDelta, R!BedrockDelta, R!BlockStop, R!AnthropicStop, R!BedrockStop,
     R!AnthropicRedacted, R!ItemAdded, R!ItemDelta, R!SummaryPartDone, R!ArgumentsDone, R!ItemDone,
     R!Refuse, R!RetryEmpty, R!StreamEnds, R!StreamFails

\* Read one by one, the events of every provider are a reply: whatever the provider
\* sends and whenever the connection ends, each step of processProxyEvent is a step
\* of the protocol of AssistantMessageEvent, or changes nothing the protocol shows.
THEOREM EventsAreAReply == SpecReplies => ImplementsReply
<1>1. InitReplies => R!Protocol!Init
  <2> SUFFICES ASSUME InitReplies
               PROVE  /\ phase = "silent"
                      /\ [i \in DOMAIN partial |-> [kind |-> partial[i].kind,
                                                    open |-> partial[i].open]] = <<>>
    BY DEF R!Protocol!Init
  <2>1. phase = "silent" /\ partial = <<>>
    BY DEF InitReplies, R!Init
  <2> QED BY <2>1
<1>2. InitReplies => ReplyInv
  BY ReplyInit DEF InitReplies
<1>3. ReplyInv /\ [NextReplies]_allVars => [R!Protocol!Next]_R!Protocol!vars
  <2> SUFFICES ASSUME ReplyInv, [NextReplies]_allVars PROVE [R!Protocol!Next]_R!Protocol!vars
    OBVIOUS
  <2>1. R!ProviderStep \/ R!ReaderStep \/ UNCHANGED replyVars
    BY DEF NextReplies, allVars, R!Next
  <2>2. CASE R!ProviderStep
    BY <2>2, ProviderSilent DEF R!readerVars, R!Protocol!vars
  <2>3. CASE UNCHANGED replyVars
    BY <2>3 DEF replyVars, R!Protocol!vars
  <2> QED BY <2>1, <2>2, <2>3, ReaderProtocol
<1> QED BY <1>1, <1>2, <1>3, ReplyStep, PTL
        DEF SpecReplies, ImplementsReply, R!ImplementsReply, R!Protocol!Spec
==============================================================================
