-------------------------- MODULE FileMutationProofs --------------------------
(***************************************************************************)
(* Proofs about FileMutation for any calls, paths and runs: its types, and *)
(* the order in which the bodies of one key run, and what a file holds;    *)
(* and about CommandOutput for any limits: that no output is lost.         *)
(***************************************************************************)
EXTENDS MCTools, SequenceTheorems, FiniteSetTheorems, NaturalsInduction,
        WellFoundedInduction, TLAPS

Active(o) == call[o] \in {"waiting", "running", "settled"}

\* The call a key holds is active and queued behind every other one of its key;
\* a key that holds none has no active call.
TailInv ==
  \A p \in Path :
    /\ \A t \in Op : tail[p] = t =>
         /\ key[t] = p /\ Active(t)
         /\ \A o \in Op : key[o] = p /\ Active(o) /\ o # t => o \in ahead[t]
    /\ tail[p] = None => \A o \in Op : key[o] = p => ~Active(o)

\* All that is ahead of a call is the one it awaits and what is ahead of that.
ChainInv ==
  \A o \in Op :
    /\ call[o] = "idle" => key[o] = None
    /\ call[o] # "idle" => key[o] \in Path
    /\ awaits[o] = None => ahead[o] = {}
    /\ awaits[o] \in Op => /\ ahead[o] \subseteq {awaits[o]} \cup ahead[awaits[o]]
                           /\ call[awaits[o]] # "idle"

\* Whoever has entered, or left, has nothing unfinished ahead.
EnteredInv ==
  \A o \in Op : call[o] \in {"running", "settled", "returned"}
                  => \A p \in ahead[o] : call[p] = "returned"

\* Of two active calls of a key, one is ahead of the other.
OrderInv ==
  \A o, p \in Op : o # p /\ key[o] = key[p] /\ Active(o) /\ Active(p)
                     => o \in ahead[p] \/ p \in ahead[o]

\* Nothing removes a file, so the one an edit has opened is still there.
ReadsExisting == \A o \in Op : body[o] = "reading" => content[File(o)] # Missing

TInv == TypeOK /\ ReadsExisting

IInv == TInv /\ TailInv /\ ChainInv /\ EnteredInv /\ OrderInv

LEMMA InitTypes == Init => TInv
<1> SUFFICES ASSUME Init PROVE TInv
  OBVIOUS
<1> USE FileMutationAssumption
<1>1. <<>> \in Seq(Op)
  OBVIOUS
<1>2. TypeOK
  BY <1>1 DEF Init, TypeOK
<1>3. ReadsExisting
  BY DEF Init, ReadsExisting
<1> QED BY <1>2, <1>3 DEF TInv

LEMMA StepTypes == TInv /\ [Next]_vars => TypeOK'
<1> SUFFICES ASSUME TypeOK, ReadsExisting, [Next]_vars PROVE TypeOK'
  BY DEF TInv
<1> USE FileMutationAssumption
<1>names. ASSUME NEW o \in Op PROVE File(o) \in Path /\ Key(o) \in Path
  BY DEF File, Key
<1>end. ASSUME NEW o \in Op, NEW settled \in {"ok", "error"}, EndBody(o, settled)
        PROVE  /\ call' \in [Op -> {"idle", "waiting", "running", "settled", "returned"}]
               /\ body' \in [Op -> {"none", "opening", "reading", "writing", "filling", "over"}]
               /\ outcome' \in [Op -> {"none", "ok", "error"}]
  BY <1>end DEF TypeOK, EndBody
<1>1. CASE UNCHANGED vars
  BY <1>1 DEF vars, TypeOK
<1>2. ASSUME NEW o \in Op, Enqueue(o) PROVE TypeOK'
  BY <1>2, <1>names DEF TypeOK, Enqueue
<1>3. ASSUME NEW o \in Op, Enter(o) PROVE TypeOK'
  BY <1>3 DEF TypeOK, Enter, Reject
<1>4. ASSUME NEW o \in Op, Release(o) PROVE TypeOK'
  BY <1>4 DEF TypeOK, Release
<1>5. ASSUME NEW o \in Op, Opened(o) PROVE TypeOK'
  <2>1. CASE EndBody(o, "error")
    BY <2>1, <1>5, <1>end DEF TypeOK, Opened
  <2>2. CASE ~EndBody(o, "error")
    BY <2>2, <1>5 DEF TypeOK, Opened
  <2> QED BY <2>1, <2>2
<1>6. ASSUME NEW o \in Op, ReadDone(o) PROVE TypeOK'
  <2>1. CASE EndBody(o, "error") /\ UNCHANGED base
    BY <2>1, <1>6, <1>end DEF TypeOK, ReadDone
  <2>2. CASE /\ body[o] = "reading" /\ MayMatch(o)
             /\ base' = [base EXCEPT ![o] = content[File(o)]]
             /\ body' = [body EXCEPT ![o] = "writing"]
             /\ UNCHANGED <<call, outcome>>
    <3>1. content[File(o)] \in Seq(Op)
      BY <1>names, <2>2 DEF TypeOK, ReadsExisting, MayMatch
    <3> QED BY <3>1, <2>2, <1>6 DEF TypeOK, ReadDone
  <2> QED BY <2>1, <2>2, <1>6 DEF ReadDone
<1>7. ASSUME NEW o \in Op, Truncate(o) PROVE TypeOK'
  BY <1>7, <1>names DEF TypeOK, Truncate
<1>8. ASSUME NEW o \in Op, Fill(o) PROVE TypeOK'
  <2>1. Written(o) \in Seq(Op)
    BY DEF Written, TypeOK
  <2>2. log' \in [Path -> Seq(Op)]
    BY <1>8, <1>names DEF Fill, TypeOK
  <2>3. content' \in [Path -> Seq(Op) \cup {Missing, Torn}]
    BY <1>8, <1>names, <2>1 DEF Fill, TypeOK
  <2> QED BY <1>8, <1>end, <2>2, <2>3 DEF Fill, TypeOK
<1>9. ASSUME NEW o \in Op, WriteFails(o) PROVE TypeOK'
  BY <1>9, <1>end, <1>names DEF TypeOK, WriteFails
<1>10. ASSUME NEW r \in Runs, Abort(r) PROVE TypeOK'
  BY <1>10, <1>names DEF TypeOK, Abort
<1> QED
  BY <1>1, <1>2, <1>3, <1>4, <1>5, <1>6, <1>7, <1>8, <1>9, <1>10 DEF Next, Body

LEMMA StepReads == TInv /\ [Next]_vars => ReadsExisting'
<1> SUFFICES ASSUME TypeOK, ReadsExisting, [Next]_vars,
                    NEW o \in Op, body'[o] = "reading"
             PROVE  content'[File(o)] # Missing
  BY DEF TInv, ReadsExisting, File
<1> USE FileMutationAssumption
<1>name. File(o) \in Path
  BY DEF File
<1>1. CASE UNCHANGED vars
  BY <1>1 DEF vars, ReadsExisting
<1>2. ASSUME NEW p \in Op, Enqueue(p) \/ Enter(p) \/ Release(p) PROVE content'[File(o)] # Missing
  BY <1>2 DEF TypeOK, ReadsExisting, Enqueue, Enter, Release
<1>3. ASSUME NEW p \in Op, Opened(p) PROVE content'[File(o)] # Missing
  BY <1>3 DEF TypeOK, ReadsExisting, Opened, EndBody
<1>4. ASSUME NEW p \in Op, ReadDone(p) \/ WriteFails(p) PROVE content'[File(o)] # Missing
  BY <1>4 DEF TypeOK, ReadsExisting, ReadDone, WriteFails, EndBody
<1>5. ASSUME NEW p \in Op, Truncate(p) PROVE content'[File(o)] # Missing
  <2>1. body[o] = "reading"
    BY <1>5 DEF TypeOK, Truncate
  <2> QED BY <1>5, <1>name, <2>1 DEF TypeOK, ReadsExisting, Truncate
<1>6. ASSUME NEW p \in Op, Fill(p) PROVE content'[File(o)] # Missing
  <2>1. body[o] = "reading"
    BY <1>6 DEF TypeOK, Fill, EndBody
  <2>2. Written(p) \in Seq(Op)
    BY DEF TypeOK, Written
  <2> QED BY <1>6, <1>name, <2>1, <2>2 DEF TypeOK, ReadsExisting, Fill
<1>7. ASSUME NEW r \in Runs, Abort(r) PROVE content'[File(o)] # Missing
  BY <1>7 DEF ReadsExisting, Abort
<1> QED
  BY <1>1, <1>2, <1>3, <1>4, <1>5, <1>6, <1>7 DEF Next, Body

\* What a step of a body, or an abort, may do to the queue: nothing but settle
\* calls that were running.
QueueStands ==
  /\ UNCHANGED <<tail, key, awaits, ahead>>
  /\ \A o \in Op : \/ call'[o] = call[o]
                   \/ call[o] = "running" /\ call'[o] = "settled"

LEMMA BodyStep == ASSUME TypeOK, NEW o \in Op, Body(o) PROVE QueueStands
<1>1. CASE Opened(o) \/ ReadDone(o) \/ WriteFails(o)
  BY <1>1 DEF TypeOK, QueueStands, Opened, ReadDone, WriteFails, EndBody, GivenUp
<1>2. CASE Truncate(o)
  BY <1>2 DEF QueueStands, Truncate
<1>3. CASE Fill(o)
  BY <1>3 DEF TypeOK, QueueStands, Fill, EndBody, GivenUp
<1> QED BY <1>1, <1>2, <1>3 DEF Body

LEMMA AbortStep == ASSUME TypeOK, NEW r \in Runs, Abort(r) PROVE QueueStands
  BY DEF TypeOK, QueueStands, Abort

QInv == TailInv /\ ChainInv /\ EnteredInv /\ OrderInv

LEMMA InitQueue == Init => QInv
  BY FileMutationAssumption
     DEF Init, QInv, TailInv, ChainInv, EnteredInv, OrderInv, Active

LEMMA QueueStandsStep == ASSUME TypeOK, QInv, QueueStands PROVE QInv'
<1>1. \A o \in Op : Active(o)' <=> Active(o)
  BY DEF Active, QueueStands
<1>2. TailInv'
  BY <1>1 DEF QInv, TailInv, QueueStands, TypeOK
<1>3. ChainInv'
  BY DEF QInv, ChainInv, QueueStands, TypeOK
<1>4. EnteredInv'
  BY DEF QInv, EnteredInv, QueueStands, TypeOK
<1>5. OrderInv'
  BY <1>1 DEF QInv, OrderInv, QueueStands, TypeOK
<1> QED BY <1>2, <1>3, <1>4, <1>5 DEF QInv

\* A new call goes behind the call its key holds, or is alone.
LEMMA EnqueueStep == ASSUME TypeOK, QInv, NEW o \in Op, Enqueue(o) PROVE QInv'
<1> USE FileMutationAssumption
<1>name. Key(o) \in Path
  BY DEF Key, File
<1>1. /\ call[o] = "idle" /\ key[o] = None /\ ~Active(o)
      /\ call' = [call EXCEPT ![o] = "waiting"]
      /\ key' = [key EXCEPT ![o] = Key(o)]
      /\ awaits' = [awaits EXCEPT ![o] = tail[Key(o)]]
      /\ tail' = [tail EXCEPT ![Key(o)] = o]
      /\ ahead'[o] = { p \in Op : key[p] = Key(o) /\ Active(p) }
      /\ \A p \in Op \ {o} : ahead'[p] = ahead[p]
  BY DEF TypeOK, QInv, ChainInv, Enqueue, Active, Settled
<1>2. \A p \in Op \ {o} : /\ call'[p] = call[p] /\ key'[p] = key[p]
                          /\ awaits'[p] = awaits[p] /\ (Active(p)' <=> Active(p))
  BY <1>1 DEF TypeOK, Active
<1>3. call'[o] = "waiting" /\ key'[o] = Key(o) /\ awaits'[o] = tail[Key(o)] /\ Active(o)'
  BY <1>1 DEF TypeOK, Active
<1>4. TailInv'
  <2>1. ASSUME NEW p \in Path, p = Key(o), NEW t \in Op, tail'[p] = t
        PROVE  /\ key'[t] = p /\ Active(t)'
               /\ \A q \in Op : key'[q] = p /\ Active(q)' /\ q # t => q \in ahead'[t]
    <3>1. t = o
      BY <1>1, <1>name, <2>1 DEF TypeOK
    <3> QED BY <1>1, <1>2, <1>3, <2>1, <3>1
  <2>2. tail'[Key(o)] = o
    BY <1>1, <1>name DEF TypeOK
  <2>3. ASSUME NEW p \in Path, p # Key(o) PROVE tail'[p] = tail[p] /\ tail[p] # o /\ key'[o] # p
    BY <1>1, <1>3, <2>3 DEF TypeOK, QInv, TailInv
  <2>4. ASSUME NEW p \in Path, p # Key(o), NEW t \in Op, tail'[p] = t
        PROVE  /\ key'[t] = p /\ Active(t)'
               /\ \A q \in Op : key'[q] = p /\ Active(q)' /\ q # t => q \in ahead'[t]
    <3>1. t # o /\ tail[p] = t
      BY <2>3, <2>4
    <3>2. /\ key[t] = p /\ Active(t)
          /\ \A q \in Op : key[q] = p /\ Active(q) /\ q # t => q \in ahead[t]
      BY <3>1 DEF QInv, TailInv
    <3> QED BY <1>1, <1>2, <2>3, <2>4, <3>1, <3>2
  <2>5. ASSUME NEW p \in Path, p # Key(o), tail'[p] = None, NEW q \in Op, key'[q] = p
        PROVE  ~Active(q)'
    BY <1>2, <2>3, <2>5 DEF QInv, TailInv
  <2> QED BY <2>1, <2>2, <2>4, <2>5 DEF TailInv
<1>5. ChainInv'
  <2> SUFFICES ASSUME NEW p \in Op
               PROVE /\ call'[p] = "idle" => key'[p] = None
                     /\ call'[p] # "idle" => key'[p] \in Path
                     /\ awaits'[p] = None => ahead'[p] = {}
                     /\ awaits'[p] \in Op =>
                          /\ ahead'[p] \subseteq {awaits'[p]} \cup ahead'[awaits'[p]]
                          /\ call'[awaits'[p]] # "idle"
    BY DEF ChainInv
  <2>1. CASE p = o
    <3>1. CASE tail[Key(o)] = None
      BY <1>1, <1>3, <1>name, <2>1, <3>1 DEF QInv, TailInv
    <3>2. CASE tail[Key(o)] \in Op
      <4>1. tail[Key(o)] # o /\ call[tail[Key(o)]] # "idle"
        BY <1>1, <1>name, <3>2 DEF QInv, TailInv, Active
      <4>2. \A q \in ahead'[o] : q = tail[Key(o)] \/ q \in ahead[tail[Key(o)]]
        BY <1>1, <1>name, <3>2 DEF QInv, TailInv
      <4> QED BY <1>1, <1>2, <1>3, <1>name, <2>1, <3>2, <4>1, <4>2
    <3> QED BY <3>1, <3>2, <1>name DEF TypeOK
  <2>2. CASE p # o
    <3>1. awaits[p] \in Op => awaits[p] # o /\ call[awaits[p]] # "idle"
      BY <1>1 DEF QInv, ChainInv
    <3>2. /\ call[p] = "idle" => key[p] = None
          /\ call[p] # "idle" => key[p] \in Path
          /\ awaits[p] = None => ahead[p] = {}
          /\ awaits[p] \in Op => ahead[p] \subseteq {awaits[p]} \cup ahead[awaits[p]]
      BY DEF QInv, ChainInv
    <3>3. ahead'[p] = ahead[p] /\ call'[p] = call[p] /\ key'[p] = key[p] /\ awaits'[p] = awaits[p]
      BY <1>1, <1>2, <2>2
    <3>4. awaits[p] \in Op => /\ ahead'[awaits[p]] = ahead[awaits[p]]
                              /\ call'[awaits[p]] = call[awaits[p]]
      BY <1>1, <1>2, <3>1
    <3> QED BY <3>1, <3>2, <3>3, <3>4
  <2> QED BY <2>1, <2>2
<1>6. EnteredInv'
  <2> SUFFICES ASSUME NEW p \in Op, call'[p] \in {"running", "settled", "returned"},
                      NEW q \in ahead'[p]
               PROVE  call'[q] = "returned"
    BY DEF EnteredInv
  <2>1. p # o
    BY <1>3
  <2>2. q \in Op /\ call[q] = "returned"
    BY <1>1, <1>2, <2>1 DEF QInv, EnteredInv, TypeOK
  <2> QED BY <1>1, <1>2, <2>2
<1>7. OrderInv'
  <2> SUFFICES ASSUME NEW p \in Op, NEW q \in Op, p # q, key'[p] = key'[q],
                      Active(p)', Active(q)'
               PROVE  p \in ahead'[q] \/ q \in ahead'[p]
    BY DEF OrderInv, Active
  <2>1. CASE p = o
    BY <1>1, <1>2, <1>3, <2>1
  <2>2. CASE q = o
    BY <1>1, <1>2, <1>3, <2>2
  <2>3. CASE p # o /\ q # o
    BY <1>1, <1>2, <2>3 DEF QInv, OrderInv
  <2> QED BY <2>1, <2>2, <2>3
<1> QED BY <1>4, <1>5, <1>6, <1>7 DEF QInv

\* A call enters when the one it awaits has returned, and so has all ahead of that.
LEMMA EnterStep == ASSUME TypeOK, QInv, NEW o \in Op, Enter(o) PROVE QInv'
<1> USE FileMutationAssumption
<1>1. /\ UNCHANGED <<tail, key, awaits, ahead>>
      /\ call[o] = "waiting"
      /\ \E c \in {"running", "settled"} : call' = [call EXCEPT ![o] = c]
  BY DEF Enter
<1>2. \A p \in Op : Active(p)' <=> Active(p)
  BY <1>1 DEF TypeOK, Active
<1>3. \A p \in Op : (call'[p] = "idle" <=> call[p] = "idle")
                    /\ (call[p] = "returned" => call'[p] = "returned")
  BY <1>1 DEF TypeOK
<1>4. TailInv'
  BY <1>1, <1>2 DEF QInv, TailInv, TypeOK
<1>5. ChainInv'
  BY <1>1, <1>3 DEF QInv, ChainInv, TypeOK
<1>6. \A q \in ahead[o] : call[q] = "returned"
  <2>1. CASE awaits[o] = None
    BY <2>1 DEF QInv, ChainInv
  <2>2. CASE awaits[o] \in Op
    <3>1. call[awaits[o]] = "returned"
      BY <2>2 DEF Enter, QueueResolved, Released
    <3> QED BY <2>2, <3>1 DEF QInv, ChainInv, EnteredInv
  <2> QED BY <2>1, <2>2 DEF TypeOK
<1>7. EnteredInv'
  <2> SUFFICES ASSUME NEW p \in Op, call'[p] \in {"running", "settled", "returned"},
                      NEW q \in ahead[p]
               PROVE  call'[q] = "returned"
    BY <1>1 DEF EnteredInv
  <2>1. q \in Op
    BY DEF TypeOK
  <2>2. call[q] = "returned"
    BY <1>1, <1>6 DEF QInv, EnteredInv, TypeOK
  <2> QED BY <1>3, <2>1, <2>2
<1>8. OrderInv'
  BY <1>1, <1>2 DEF QInv, OrderInv
<1> QED BY <1>4, <1>5, <1>7, <1>8 DEF QInv

\* A key forgets its call only when no other waits behind it.
LEMMA ReleaseStep == ASSUME TypeOK, QInv, NEW o \in Op, Release(o) PROVE QInv'
<1> USE FileMutationAssumption
<1>1. /\ UNCHANGED <<key, awaits, ahead>>
      /\ call[o] = "settled" /\ Active(o) /\ key[o] \in Path
      /\ call' = [call EXCEPT ![o] = "returned"]
      /\ tail' = IF tail[key[o]] = o THEN [tail EXCEPT ![key[o]] = None] ELSE tail
  BY DEF Release, Leaves, Active, IsTail, QInv, ChainInv
<1>2. \A p \in Op : /\ p # o => (Active(p)' <=> Active(p))
                    /\ ~Active(o)'
                    /\ (call'[p] = "idle" <=> call[p] = "idle")
                    /\ (call[p] = "returned" => call'[p] = "returned")
  BY <1>1 DEF TypeOK, Active
<1>3. TailInv'
  <2>1. ASSUME NEW p \in Path, p = key[o], tail[p] = o
        PROVE  tail'[p] = None /\ \A q \in Op : key[q] = p => ~Active(q)'
    <3>1. tail'[p] = None
      BY <1>1, <2>1 DEF TypeOK
    <3>2. ASSUME NEW q \in Op, key[q] = p PROVE ~Active(q)'
      <4>1. CASE q = o
        BY <4>1, <1>2
      <4>2. CASE q # o /\ Active(q)
        <5>1. q \in ahead[o]
          BY <2>1, <3>2, <4>2 DEF QInv, TailInv
        <5> QED BY <5>1, <4>2, <1>1 DEF QInv, EnteredInv, Active
      <4>3. CASE q # o /\ ~Active(q)
        BY <4>3, <1>2
      <4> QED BY <4>1, <4>2, <4>3
    <3> QED BY <3>1, <3>2
  <2>2. ASSUME NEW p \in Path, ~(p = key[o] /\ tail[p] = o)
        PROVE  tail'[p] = tail[p] /\ tail[p] # o
    <3>1. tail[p] # o
      BY <2>2 DEF QInv, TailInv
    <3> QED BY <1>1, <2>2, <3>1 DEF TypeOK
  <2>3. ASSUME NEW p \in Path, NEW t \in Op, tail'[p] = t
        PROVE  /\ key[t] = p /\ Active(t)'
               /\ \A q \in Op : key[q] = p /\ Active(q)' /\ q # t => q \in ahead[t]
    <3>1. tail[p] = t /\ t # o
      BY <2>1, <2>2, <2>3
    <3>2. /\ key[t] = p /\ Active(t)
          /\ \A q \in Op : key[q] = p /\ Active(q) /\ q # t => q \in ahead[t]
      BY <3>1 DEF QInv, TailInv
    <3> QED BY <1>2, <3>1, <3>2
  <2>4. ASSUME NEW p \in Path, tail'[p] = None, NEW q \in Op, key[q] = p
        PROVE  ~Active(q)'
    <3>1. CASE p = key[o] /\ tail[p] = o
      BY <2>1, <2>4, <3>1
    <3>2. CASE ~(p = key[o] /\ tail[p] = o)
      BY <1>2, <2>2, <2>4, <3>2 DEF QInv, TailInv
    <3> QED BY <3>1, <3>2
  <2> QED BY <1>1, <2>3, <2>4 DEF TailInv
<1>4. ChainInv'
  BY <1>1, <1>2 DEF QInv, ChainInv, TypeOK
<1>5. EnteredInv'
  <2> SUFFICES ASSUME NEW p \in Op, call'[p] \in {"running", "settled", "returned"},
                      NEW q \in ahead[p]
               PROVE  call'[q] = "returned"
    BY <1>1 DEF EnteredInv
  <2>1. call[p] \in {"running", "settled", "returned"} /\ q \in Op
    BY <1>1 DEF TypeOK
  <2> QED BY <1>2, <2>1 DEF QInv, EnteredInv
<1>6. OrderInv'
  <2> SUFFICES ASSUME NEW p \in Op, NEW q \in Op, p # q, key[p] = key[q],
                      Active(p)', Active(q)'
               PROVE  p \in ahead[q] \/ q \in ahead[p]
    BY <1>1 DEF OrderInv, Active
  <2>1. p # o /\ q # o
    BY <1>2
  <2> QED BY <1>2, <2>1 DEF QInv, OrderInv
<1> QED BY <1>3, <1>4, <1>5, <1>6 DEF QInv

LEMMA StepQueue == TInv /\ QInv /\ [Next]_vars => QInv'
<1> SUFFICES ASSUME TypeOK, QInv, [Next]_vars PROVE QInv'
  BY DEF TInv
<1>1. CASE UNCHANGED vars
  <2>1. QueueStands
    BY <1>1 DEF vars, QueueStands
  <2> QED BY <2>1, QueueStandsStep
<1>2. ASSUME NEW o \in Op, Enqueue(o) PROVE QInv'
  BY <1>2, EnqueueStep
<1>3. ASSUME NEW o \in Op, Enter(o) PROVE QInv'
  BY <1>3, EnterStep
<1>4. ASSUME NEW o \in Op, Release(o) PROVE QInv'
  BY <1>4, ReleaseStep
<1>5. ASSUME NEW o \in Op, Body(o) PROVE QInv'
  BY <1>5, BodyStep, QueueStandsStep
<1>6. ASSUME NEW r \in Runs, Abort(r) PROVE QInv'
  BY <1>6, AbortStep, QueueStandsStep
<1> QED
  BY <1>1, <1>2, <1>3, <1>4, <1>5, <1>6 DEF Next

\* The inductive invariant: the types, and the queue of each key (fileMutationQueues
\* and the promises chained in it).
THEOREM Invariance == Spec => []IInv
<1>1. Init => TInv /\ QInv
  BY InitTypes, InitQueue
<1>2. (TInv /\ QInv) /\ [Next]_vars => (TInv /\ QInv)'
  BY StepTypes, StepReads, StepQueue DEF TInv
<1>3. TInv /\ QInv => IInv
  BY DEF IInv, QInv
<1> QED BY <1>1, <1>2, <1>3, PTL DEF Spec

\* Every variable keeps its type; an edit never appends to what was not a content.
THEOREM TypeCorrect == Spec => []TypeOK
  BY Invariance, PTL DEF IInv, TInv

LEMMA InvSerialized == IInv => Serialized
<1> SUFFICES ASSUME IInv, NEW o \in Op, NEW p \in Op, o # p, key[o] = key[p],
                    call[o] = "running", call[p] = "running"
             PROVE  FALSE
  BY DEF Serialized
<1>1. o \in ahead[p] \/ p \in ahead[o]
  BY DEF IInv, OrderInv, Active
<1> QED BY <1>1 DEF IInv, EnteredInv

\* No two calls of one key run their bodies at once, however many there are and
\* whichever of them are aborted (withFileMutationQueue).
THEOREM MutualExclusion == Spec => []Serialized
  BY InvSerialized, Invariance, PTL

\* The bodies of one key's calls run one at a time, each when every call queued before it
\* has returned (withFileMutationQueue awaits the promise it is chained to).
THEOREM CallOrder == Spec => []InCallOrder
<1>1. IInv /\ Serialized => InCallOrder
  BY DEF IInv, EnteredInv, InCallOrder
<1> QED BY <1>1, Invariance, MutualExclusion, PTL

\* A key stays in fileMutationQueues only as long as a call is queued under it.
THEOREM MapDrains == Spec => []QueueMapDrains
<1>1. IInv => QueueMapDrains
  <2> SUFFICES ASSUME IInv, NEW p \in Path, tail[p] # None
               PROVE  \E o \in Op : key[o] = p /\ ~Settled(o)
    BY DEF QueueMapDrains
  <2>1. tail[p] \in Op /\ key[tail[p]] = p /\ Active(tail[p])
    BY DEF IInv, TInv, TypeOK, TailInv
  <2> QED BY <2>1 DEF Active, Settled
<1> QED BY <1>1, Invariance, PTL

(***************************************************************************)
(* What a file holds.                                                      *)
(***************************************************************************)
OfFile(f) == { o \in Op : File(o) = f }

\* A body runs between the entry of its call and its end; only an abort ends the call
\* before it, and is on record.
BodyInv ==
  \A o \in Op :
    /\ call[o] \in {"idle", "waiting"} => body[o] = "none"
    /\ InBody(o) /\ GivenUp(o) => File(o) \in disturbed
    /\ body[o] = "reading" => Kind[o] = "edit"
    /\ Kind[o] = "write" => base[o] = <<>>

Writes(done) == { i \in DOMAIN done : Kind[done[i]] = "write" }
HasLast(done) == Writes(done) # {} => \E i \in Writes(done) : \A j \in Writes(done) : j <= i
LastInv == \A f \in Path : HasLast(log[f])

\* Between two bodies a file holds what the calls that succeeded made of it; the body of
\* an edit will put that back, with its own change behind it.
Holds(f) == content[f] = Effect(log[f]) \/ (content[f] = Missing /\ log[f] = <<>>)
BasesHold(f) ==
  \A o \in OfFile(f) : Writing(o) /\ Kind[o] = "edit" => base[o] = Effect(log[f])
HoldsInv ==
  \A f \in Path : f \notin disturbed /\ OneKey(f) =>
    /\ (\A o \in OfFile(f) : body[o] # "filling") => Holds(f)
    /\ BasesHold(f)

WInv == BodyInv /\ LastInv /\ HoldsInv

LEMMA EffectEmpty == Effect(<<>>) = <<>> /\ HasLast(<<>>)
<1>1. <<>> \in Seq(Op) /\ Len(<<>>) = 0 /\ DOMAIN <<>> = 1..0
  OBVIOUS
<1>2. Writes(<<>>) = {}
  BY <1>1 DEF Writes
<1>3. Effect(<<>>) = SubSeq(<<>>, 1, 0)
  BY <1>1, <1>2 DEF Effect, Writes
<1>4. SubSeq(<<>>, 1, 0) = <<>>
  BY <1>1
<1> QED BY <1>2, <1>3, <1>4 DEF HasLast

\* A write leaves nothing of what was there; an edit adds to it.
LEMMA EffectAppend ==
  ASSUME NEW s \in Seq(Op), NEW o \in Op, HasLast(s)
  PROVE  /\ HasLast(Append(s, o))
         /\ Kind[o] = "write" => Effect(Append(s, o)) = <<o>>
         /\ Kind[o] # "write" => Effect(Append(s, o)) = Append(Effect(s), o)
<1> DEFINE n == Len(s)
           t == Append(s, o)
<1>1. /\ n \in Nat /\ t \in Seq(Op) /\ Len(t) = n + 1
      /\ DOMAIN s = 1..n /\ DOMAIN t = 1..(n + 1)
      /\ \A i \in 1..n : t[i] = s[i]
      /\ t[n + 1] = o
  OBVIOUS
<1> HIDE DEF n, t
<1>2. CASE Kind[o] = "write"
  <2>1. n + 1 \in Writes(t) /\ \A j \in Writes(t) : j <= n + 1
    BY <1>1, <1>2 DEF Writes
  <2>2. HasLast(t)
    BY <2>1 DEF HasLast
  <2> DEFINE last == CHOOSE i \in Writes(t) : \A j \in Writes(t) : j <= i
  <2>3. last = n + 1
    <3>1. last \in Writes(t) /\ \A j \in Writes(t) : j <= last
      BY <2>1
    <3> HIDE DEF last
    <3>2. last \in 1..(n + 1)
      BY <1>1, <3>1 DEF Writes
    <3> QED BY <1>1, <2>1, <3>1, <3>2
  <2>4. Effect(t) = SubSeq(t, last, Len(t))
    BY <2>1 DEF Effect, Writes
  <2> HIDE DEF last
  <2>5. Effect(t) = SubSeq(t, n + 1, n + 1)
    BY <1>1, <2>3, <2>4
  <2>6. SubSeq(t, n + 1, n + 1) = <<o>>
    <3> DEFINE u == SubSeq(t, n + 1, n + 1)
    <3>1. u \in Seq(Op) /\ Len(u) = 1 /\ u[1] = t[n + 1]
      BY <1>1
    <3> HIDE DEF u
    <3>2. u = <<o>>
      BY <1>1, <3>1
    <3> QED BY <3>2 DEF u
  <2> QED BY <1>2, <2>2, <2>5, <2>6 DEF t
<1>3. CASE Kind[o] # "write"
  <2>1. Writes(t) = Writes(s)
    BY <1>1, <1>3 DEF Writes
  <2>2. HasLast(t)
    BY <2>1 DEF HasLast
  <2> DEFINE from == IF Writes(s) = {} THEN 1
                     ELSE CHOOSE i \in Writes(s) : \A j \in Writes(s) : j <= i
  <2>3. from \in 1..(n + 1)
    <3>1. Writes(s) # {} => from \in Writes(s)
      BY DEF HasLast
    <3> HIDE DEF from
    <3>2. Writes(s) \subseteq 1..n
      BY <1>1 DEF Writes
    <3>3. Writes(s) = {} => from = 1
      BY DEF from
    <3> QED BY <1>1, <3>1, <3>2, <3>3
  <2>4. Effect(s) = SubSeq(s, from, n)
    BY DEF Effect, Writes, n
  <2>5. Effect(t) = SubSeq(t, from, n + 1)
    <3>1. Effect(t) = SubSeq(t, IF Writes(t) = {} THEN 1
                                ELSE CHOOSE i \in Writes(t) : \A j \in Writes(t) : j <= i, Len(t))
      BY DEF Effect, Writes
    <3> QED BY <1>1, <2>1, <3>1 DEF from
  <2> HIDE DEF from
  <2>6. SubSeq(t, from, n + 1) = Append(SubSeq(s, from, n), o)
    <3> DEFINE u == SubSeq(s, from, n)
               v == SubSeq(t, from, n + 1)
    <3>1. /\ u \in Seq(Op) /\ Len(u) = n - from + 1
          /\ \A i \in 1..(n - from + 1) : u[i] = s[from + i - 1]
      BY <1>1, <2>3 DEF n
    <3>2. /\ v \in Seq(Op) /\ Len(v) = n - from + 2
          /\ \A i \in 1..(n - from + 2) : v[i] = t[from + i - 1]
      BY <1>1, <2>3
    <3> HIDE DEF u, v
    <3> DEFINE w == Append(u, o)
    <3>3. /\ w \in Seq(Op) /\ Len(w) = n - from + 2
          /\ \A i \in 1..(n - from + 1) : w[i] = u[i]
          /\ w[n - from + 2] = o
      BY <1>1, <2>3, <3>1
    <3> HIDE DEF w
    <3>4. \A i \in 1..(n - from + 2) : v[i] = w[i]
      BY <1>1, <2>3, <3>1, <3>2, <3>3
    <3>5. v = w
      BY <1>1, <2>3, <3>2, <3>3, <3>4
    <3> QED BY <3>5 DEF u, v, w
  <2> QED BY <1>3, <2>2, <2>4, <2>5, <2>6 DEF t
<1> QED BY <1>2, <1>3 DEF t

HoldsAt(f) == f \notin disturbed /\ OneKey(f) =>
  /\ (\A o \in OfFile(f) : body[o] # "filling") => Holds(f)
  /\ BasesHold(f)

LEMMA InitFiles == Init => WInv
<1> SUFFICES ASSUME Init PROVE WInv
  OBVIOUS
<1>1. BodyInv
  BY DEF Init, BodyInv, InBody
<1>2. \A f \in Path : log[f] = <<>> /\ content[f] \in {Missing, <<>>}
  BY DEF Init
<1>3. LastInv
  BY <1>2, EffectEmpty DEF LastInv
<1>4. \A f \in Path : Holds(f) /\ BasesHold(f)
  BY <1>2, EffectEmpty DEF Init, Holds, BasesHold, Writing, OfFile
<1>5. HoldsInv
  BY <1>4 DEF HoldsInv
<1> QED BY <1>1, <1>3, <1>5 DEF WInv

\* One body is at work on a file that nothing has disturbed.
LEMMA Alone ==
  ASSUME IInv, BodyInv, NEW o \in Op, NEW p \in Op, InBody(o), InBody(p),
         File(o) = File(p), File(o) \notin disturbed, OneKey(File(o))
  PROVE  o = p
<1>1. call[o] = "running" /\ call[p] = "running"
  BY DEF BodyInv, GivenUp
<1>2. key[o] # None /\ key[p] # None
  BY <1>1, FileMutationAssumption DEF IInv, ChainInv
<1>3. key[o] = key[p]
  BY <1>2 DEF OneKey
<1> QED BY <1>1, <1>3, InvSerialized DEF Serialized

\* A call keeps the key it has queued under, so calls of one key were so before.
LEMMA KeysStay ==
  ASSUME IInv, [Next]_vars, NEW f \in Path, OneKey(f)'
  PROVE  OneKey(f)
<1>1. \A o \in Op : key[o] # None => key'[o] = key[o]
  <2>1. CASE UNCHANGED key
    BY <2>1
  <2>2. ASSUME NEW o \in Op, Enqueue(o) PROVE \A p \in Op : key[p] # None => key'[p] = key[p]
    BY <2>2 DEF Enqueue, IInv, ChainInv, TInv, TypeOK
  <2> QED BY <2>1, <2>2 DEF Next, vars, Enter, Release, Body, Opened, ReadDone, Truncate,
                            Fill, WriteFails, Abort
<1>2. \A o \in Op : File(o)' = File(o)
  BY DEF File
<1> QED BY <1>1, <1>2 DEF OneKey

\* What a step of another file's body, or one that writes nothing, leaves of a file.
Untouched(f) ==
  /\ content'[f] = content[f] /\ log'[f] = log[f]
  /\ \A o \in OfFile(f) :
       /\ Writing(o)' /\ Kind[o] = "edit" => Writing(o) /\ base'[o] = base[o]
       /\ body[o] = "filling" => body'[o] = "filling"

LEMMA UntouchedHolds ==
  ASSUME IInv, [Next]_vars, NEW f \in Path, f \notin disturbed, HoldsAt(f), Untouched(f)
  PROVE  HoldsAt(f)'
<1> SUFFICES ASSUME OneKey(f)'
             PROVE  /\ (\A o \in OfFile(f) : body'[o] # "filling") => Holds(f)'
                    /\ BasesHold(f)'
  BY DEF HoldsAt, OfFile, File
<1>1. OneKey(f)
  BY KeysStay
<1>2. \A o \in OfFile(f) : OfFile(f)' = OfFile(f)
  BY DEF OfFile, File
<1>3. (\A o \in OfFile(f) : body'[o] # "filling") => Holds(f)'
  BY <1>1 DEF HoldsAt, Untouched, Holds
<1>4. BasesHold(f)'
  BY <1>1 DEF HoldsAt, Untouched, BasesHold, OfFile, File
<1> QED BY <1>3, <1>4

LEMMA StepBodies == IInv /\ BodyInv /\ [Next]_vars => BodyInv'
<1> SUFFICES ASSUME IInv, BodyInv, [Next]_vars, NEW p \in Op
             PROVE  /\ call'[p] \in {"idle", "waiting"} => body'[p] = "none"
                    /\ InBody(p)' /\ GivenUp(p)' => File(p) \in disturbed'
                    /\ body'[p] = "reading" => Kind[p] = "edit"
                    /\ Kind[p] = "write" => base'[p] = <<>>
  BY DEF BodyInv, File
<1> USE DEF IInv, TInv, TypeOK, BodyInv, InBody, GivenUp
<1>1. CASE UNCHANGED vars
  BY <1>1 DEF vars
<1>2. ASSUME NEW o \in Op, Enqueue(o)
      PROVE  /\ call'[p] \in {"idle", "waiting"} => body'[p] = "none"
             /\ InBody(p)' /\ GivenUp(p)' => File(p) \in disturbed'
             /\ body'[p] = "reading" => Kind[p] = "edit"
             /\ Kind[p] = "write" => base'[p] = <<>>
  BY <1>2 DEF Enqueue
<1>3. ASSUME NEW o \in Op, Enter(o) \/ Release(o)
      PROVE  /\ call'[p] \in {"idle", "waiting"} => body'[p] = "none"
             /\ InBody(p)' /\ GivenUp(p)' => File(p) \in disturbed'
             /\ body'[p] = "reading" => Kind[p] = "edit"
             /\ Kind[p] = "write" => base'[p] = <<>>
  BY <1>3 DEF Enter, Release, Leaves
<1>4. ASSUME NEW o \in Op, Opened(o)
      PROVE  /\ call'[p] \in {"idle", "waiting"} => body'[p] = "none"
             /\ InBody(p)' /\ GivenUp(p)' => File(p) \in disturbed'
             /\ body'[p] = "reading" => Kind[p] = "edit"
             /\ Kind[p] = "write" => base'[p] = <<>>
  <2>1. CASE EndBody(o, "error")
    BY <1>4, <2>1 DEF Opened, EndBody
  <2>2. CASE /\ ~GivenUp(o) /\ UNCHANGED <<call, outcome>>
             /\ body' = [body EXCEPT ![o] = IF Kind[o] = "edit" THEN "reading" ELSE "writing"]
    BY <1>4, <2>2 DEF Opened
  <2> QED BY <1>4, <2>1, <2>2 DEF Opened
<1>7. ASSUME NEW o \in Op, ReadDone(o)
      PROVE  /\ call'[p] \in {"idle", "waiting"} => body'[p] = "none"
             /\ InBody(p)' /\ GivenUp(p)' => File(p) \in disturbed'
             /\ body'[p] = "reading" => Kind[p] = "edit"
             /\ Kind[p] = "write" => base'[p] = <<>>
  <2>1. CASE EndBody(o, "error") /\ UNCHANGED base
    BY <1>7, <2>1 DEF ReadDone, EndBody
  <2>2. CASE /\ base' = [base EXCEPT ![o] = content[File(o)]]
             /\ body' = [body EXCEPT ![o] = "writing"]
             /\ UNCHANGED <<call, outcome>>
    BY <1>7, <2>2 DEF ReadDone
  <2> QED BY <1>7, <2>1, <2>2 DEF ReadDone
<1>5. ASSUME NEW o \in Op, Truncate(o) \/ Fill(o) \/ WriteFails(o)
      PROVE  /\ call'[p] \in {"idle", "waiting"} => body'[p] = "none"
             /\ InBody(p)' /\ GivenUp(p)' => File(p) \in disturbed'
             /\ body'[p] = "reading" => Kind[p] = "edit"
             /\ Kind[p] = "write" => base'[p] = <<>>
  BY <1>5 DEF Truncate, Fill, WriteFails, EndBody
<1>6. ASSUME NEW r \in Runs, Abort(r)
      PROVE  /\ call'[p] \in {"idle", "waiting"} => body'[p] = "none"
             /\ InBody(p)' /\ GivenUp(p)' => File(p) \in disturbed'
             /\ body'[p] = "reading" => Kind[p] = "edit"
             /\ Kind[p] = "write" => base'[p] = <<>>
  BY <1>6 DEF Abort
<1> QED BY <1>1, <1>2, <1>3, <1>4, <1>5, <1>6, <1>7 DEF Next, Body

LEMMA StepLast == IInv /\ LastInv /\ [Next]_vars => LastInv'
<1> SUFFICES ASSUME IInv, LastInv, [Next]_vars PROVE LastInv'
  OBVIOUS
<1>1. CASE UNCHANGED log
  BY <1>1 DEF LastInv, HasLast, Writes
<1>2. ASSUME NEW o \in Op, Fill(o), log' = [log EXCEPT ![File(o)] = Append(@, o)]
      PROVE  LastInv'
  <2> SUFFICES ASSUME NEW f \in Path PROVE HasLast(log'[f])
    BY DEF LastInv, HasLast, Writes
  <2>1. log[f] \in Seq(Op) /\ HasLast(log[f])
    BY DEF LastInv, IInv, TInv, TypeOK
  <2>2. log'[f] = log[f] \/ log'[f] = Append(log[f], o)
    BY <1>2 DEF IInv, TInv, TypeOK
  <2> QED BY <2>1, <2>2, EffectAppend
<1> QED BY <1>1, <1>2 DEF Next, vars, Enqueue, Enter, Release, Body, Opened, ReadDone, Truncate,
                          Fill, WriteFails, Abort

LEMMA StepHolds ==
  ASSUME IInv, WInv, [Next]_vars, NEW f \in Path, f \notin disturbed'
  PROVE  HoldsAt(f)'
<1> USE FileMutationAssumption
<1>1. f \notin disturbed
  BY DEF Next, vars, Enqueue, Enter, Release, Body, Opened, ReadDone, Truncate,
         Fill, WriteFails, Abort
<1>2. HoldsAt(f)
  BY DEF WInv, HoldsInv, HoldsAt
<1>3. CASE Untouched(f)
  BY <1>1, <1>2, <1>3, UntouchedHolds
<1>4. \A o \in OfFile(f) : o \in Op /\ File(o) = f
  BY DEF OfFile
<1>5. CASE UNCHANGED vars
  BY <1>3, <1>5 DEF vars, Untouched, Writing
<1>6. ASSUME NEW o \in Op, Enqueue(o) \/ Enter(o) \/ Release(o) PROVE HoldsAt(f)'
  <2>1. UNCHANGED <<content, log, base>>
    BY <1>6 DEF Enqueue, Enter, Release
  <2>2. \A p \in Op : body'[p] = body[p] \/ (body[p] = "none" /\ body'[p] = "opening")
    BY <1>6 DEF Enqueue, Enter, Release, WInv, BodyInv, IInv, TInv, TypeOK
  <2>3. Untouched(f)
    BY <1>4, <2>1, <2>2 DEF Untouched, Writing
  <2> QED BY <2>3, <1>3
<1>7. ASSUME NEW o \in Op, Opened(o) PROVE HoldsAt(f)'
  <2>1. UNCHANGED <<content, log, base>>
    BY <1>7 DEF Opened
  <2>2. \A p \in Op : \/ body'[p] = body[p]
                      \/ p = o /\ body[p] = "opening" /\ Kind[p] = "write"
                      \/ p = o /\ body[p] = "opening" /\ body'[p] \in {"reading", "over"}
    BY <1>7 DEF Opened, EndBody, IInv, TInv, TypeOK
  <2>3. Untouched(f)
    BY <1>4, <2>1, <2>2 DEF Untouched, Writing
  <2> QED BY <2>3, <1>3
<1>8. ASSUME NEW o \in Op, ReadDone(o), ~Untouched(f) PROVE HoldsAt(f)'
  <2>1. UNCHANGED <<content, log, disturbed, key>> /\ body[o] = "reading"
    BY <1>8 DEF ReadDone
  <2>2. /\ base' = [base EXCEPT ![o] = content[File(o)]]
        /\ body' = [body EXCEPT ![o] = "writing"]
    <3>1. CASE EndBody(o, "error") /\ UNCHANGED base
      <4>0. body' = [body EXCEPT ![o] = "over"]
        BY <3>1 DEF EndBody
      <4>1. \A p \in Op : body'[p] = body[p] \/ (p = o /\ body'[p] = "over")
        BY <4>0 DEF IInv, TInv, TypeOK
      <4> QED BY <1>4, <1>8, <2>1, <3>1, <4>1 DEF Untouched, Writing
    <3> QED BY <3>1, <1>8 DEF ReadDone
  <2>3. \A p \in Op \ {o} : body'[p] = body[p] /\ base'[p] = base[p]
    BY <2>2 DEF IInv, TInv, TypeOK
  <2>4. File(o) = f
    BY <1>4, <1>8, <2>1, <2>3 DEF Untouched, Writing
  <2>5. body'[o] = "writing" /\ base'[o] = content[f]
    BY <2>2, <2>4 DEF IInv, TInv, TypeOK
  <2> SUFFICES ASSUME OneKey(f)'
               PROVE  /\ (\A p \in OfFile(f) : body'[p] # "filling") => Holds(f)'
                      /\ BasesHold(f)'
    BY DEF HoldsAt, OfFile, File
  <2>6. OneKey(f)
    BY KeysStay
  <2>7. \A p \in OfFile(f) : body[p] # "filling"
    BY <1>1, <1>4, <2>1, <2>4, <2>6, Alone DEF InBody, WInv
  <2>8. Holds(f) /\ BasesHold(f)
    BY <1>1, <1>2, <2>6, <2>7 DEF HoldsAt
  <2>9. content[f] = Effect(log[f])
    BY <2>1, <2>4, <2>8 DEF Holds, IInv, TInv, ReadsExisting
  <2>10. \A p \in OfFile(f) : Writing(p)' /\ Kind[p] = "edit" => base'[p] = Effect(log[f])
    BY <1>4, <2>3, <2>5, <2>8, <2>9 DEF BasesHold, Writing
  <2>11. BasesHold(f)'
    BY <2>1, <2>10 DEF BasesHold, OfFile, File
  <2>12. Holds(f)'
    BY <2>1, <2>8 DEF Holds
  <2> QED BY <2>11, <2>12
<1>9. ASSUME NEW o \in Op, Truncate(o), ~Untouched(f) PROVE HoldsAt(f)'
  <2>1. UNCHANGED <<log, base, key, disturbed>> /\ body[o] = "writing"
    BY <1>9 DEF Truncate
  <2>2. /\ \A p \in Op \ {o} : body'[p] = body[p]
        /\ body'[o] = "filling"
        /\ f # File(o) => content'[f] = content[f]
    BY <1>9 DEF Truncate, IInv, TInv, TypeOK
  <2>3. File(o) = f
    BY <1>4, <1>9, <2>1, <2>2 DEF Untouched, Writing
  <2> SUFFICES ASSUME OneKey(f)'
               PROVE  /\ ~\A p \in OfFile(f) : body'[p] # "filling"
                      /\ BasesHold(f)'
    BY DEF HoldsAt, OfFile, File
  <2>4. BasesHold(f)
    BY <1>1, <1>2, KeysStay DEF HoldsAt
  <2>5. \A p \in OfFile(f) : Writing(p)' => Writing(p)
    BY <1>4, <2>1, <2>2 DEF Writing
  <2>6. BasesHold(f)'
    BY <2>1, <2>4, <2>5 DEF BasesHold, OfFile, File
  <2>7. o \in OfFile(f)
    BY <2>3 DEF OfFile
  <2> QED BY <2>2, <2>6, <2>7
<1>10. ASSUME NEW o \in Op, Fill(o), ~Untouched(f) PROVE HoldsAt(f)'
  <2>1. /\ UNCHANGED <<base, key, disturbed>> /\ body[o] = "filling"
        /\ body' = [body EXCEPT ![o] = "over"]
        /\ content' = [content EXCEPT ![File(o)] = Written(o)]
        /\ log' = IF GivenUp(o) THEN log ELSE [log EXCEPT ![File(o)] = Append(@, o)]
    BY <1>10 DEF Fill, EndBody
  <2>2. /\ \A p \in Op \ {o} : body'[p] = body[p]
        /\ body'[o] = "over"
        /\ f # File(o) => content'[f] = content[f] /\ log'[f] = log[f]
    BY <2>1 DEF IInv, TInv, TypeOK
  <2>3. File(o) = f
    <3> SUFFICES ASSUME File(o) # f PROVE Untouched(f)
      BY <1>10
    <3>1. \A p \in OfFile(f) : p # o
      BY <1>4
    <3> QED BY <1>4, <2>1, <2>2, <3>1 DEF Untouched, Writing
  <2> SUFFICES ASSUME OneKey(f)'
               PROVE  Holds(f)' /\ BasesHold(f)'
    BY DEF HoldsAt, OfFile, File
  <2>4. OneKey(f)
    BY KeysStay
  <2>5. ~GivenUp(o)
    BY <1>1, <2>1, <2>3 DEF WInv, BodyInv, InBody
  <2>6. content'[f] = Append(base[o], o) /\ log'[f] = Append(log[f], o)
    BY <2>1, <2>3, <2>5 DEF IInv, TInv, TypeOK, Written
  <2>7. BasesHold(f)
    BY <1>1, <1>2, <2>4 DEF HoldsAt
  <2>8. Kind[o] = "edit" => base[o] = Effect(log[f])
    BY <2>1, <2>3, <2>7 DEF BasesHold, OfFile, Writing
  <2>9. Kind[o] = "write" => base[o] = <<>>
    BY DEF WInv, BodyInv
  <2>10. log[f] \in Seq(Op) /\ HasLast(log[f])
    BY DEF WInv, LastInv, IInv, TInv, TypeOK
  <2>11. Kind[o] = "write" => Append(base[o], o) = <<o>>
    <3>1. Append(<<>>, o) = <<o>>
      OBVIOUS
    <3> QED BY <2>9, <3>1
  <2>12. Append(base[o], o) = Effect(Append(log[f], o))
    BY <2>8, <2>10, <2>11, EffectAppend
  <2>13. Holds(f)'
    BY <2>6, <2>12 DEF Holds
  <2>14. \A p \in OfFile(f) : ~Writing(p)'
    <3> SUFFICES ASSUME NEW p \in OfFile(f), Writing(p)' PROVE FALSE
      OBVIOUS
    <3>1. p # o /\ InBody(p)
      BY <1>4, <2>2 DEF Writing, InBody
    <3>2. InBody(o)
      BY <2>1 DEF InBody
    <3> QED BY <1>1, <1>4, <2>3, <2>4, <3>1, <3>2, Alone DEF WInv
  <2>15. BasesHold(f)'
    BY <2>14 DEF BasesHold, OfFile, File
  <2> QED BY <2>13, <2>15
<1>11. ASSUME NEW o \in Op, WriteFails(o), ~Untouched(f) PROVE HoldsAt(f)'
  <2>1. /\ UNCHANGED <<content, log, base>> /\ File(o) # f
        /\ body' = [body EXCEPT ![o] = "over"]
    BY <1>11 DEF WriteFails, EndBody
  <2>2. \A p \in OfFile(f) : body'[p] = body[p]
    BY <1>4, <2>1 DEF IInv, TInv, TypeOK
  <2> QED BY <1>4, <1>11, <2>1, <2>2 DEF Untouched, Writing
<1>12. ASSUME NEW r \in Runs, Abort(r) PROVE HoldsAt(f)'
  <2>1. UNCHANGED <<content, log, base, body>>
    BY <1>12 DEF Abort
  <2> QED BY <1>3, <2>1 DEF Untouched, Writing
<1> QED
  BY <1>3, <1>5, <1>6, <1>7, <1>8, <1>9, <1>10, <1>11, <1>12 DEF Next, Body

LEMMA StepFiles == IInv /\ WInv /\ [Next]_vars => WInv'
<1> SUFFICES ASSUME IInv, WInv, [Next]_vars PROVE WInv'
  OBVIOUS
<1>1. HoldsInv'
  <2>1. \A f \in Path : f \notin disturbed' => HoldsAt(f)'
    BY StepHolds
  <2> QED BY <2>1 DEF HoldsInv, HoldsAt
<1> QED BY <1>1, StepBodies, StepLast DEF WInv

\* A file holds exactly what the calls that reported success made of it, between two bodies,
\* unless one was cut off while it wrote or the file had two keys: the queue loses no change
\* (edit.ts and write.ts under withFileMutationQueue).
THEOREM NoChangeIsLost == Spec => []FileHoldsSuccesses
<1>1. WInv => FileHoldsSuccesses
  <2> SUFFICES ASSUME WInv, NEW f \in { File(o) : o \in Op },
                      f \notin disturbed, OneKey(f), \A o \in Op : File(o) = f => ~InBody(o)
               PROVE  content[f] = Effect(log[f]) \/ (content[f] = Missing /\ log[f] = <<>>)
    BY DEF FileHoldsSuccesses
  <2>1. f \in Path
    BY FileMutationAssumption DEF File
  <2>2. \A o \in OfFile(f) : body[o] # "filling"
    BY DEF OfFile, InBody
  <2> QED BY <2>1, <2>2 DEF WInv, HoldsInv, Holds
<1> QED BY <1>1, Invariance, InitFiles, StepFiles, PTL DEF Spec

(***************************************************************************)
(* FlattenSeq and the texts of a command, for any limits.                  *)
(***************************************************************************)
LEMMA Card == \A S : B!Cardinality(S) = Cardinality(S)
  BY Zenon DEF B!Cardinality, Cardinality

\* A set of numbers that has an element has a least one.
LEMMA LeastExists ==
  ASSUME NEW N \in SUBSET Nat, N # {}
  PROVE  \E x \in N : \A y \in N : x <= y
<1> DEFINE R == OpToRel(<, Nat)
<1>1. PICK x \in N : \A y \in N : <<y, x>> \notin R
  <2>1. IsWellFoundedOn(R, Nat)
    BY NatLessThanWellFounded
  <2> HIDE DEF R
  <2> QED BY <2>1, WFMin
<1>2. \A y \in N : ~(y < x)
  BY <1>1 DEF OpToRel
<1> QED BY <1>2

\* Induction on the numbers up to a bound, as a set of them.
LEMMA Steps ==
  ASSUME NEW m \in Nat, NEW N, 0 \in N, \A n \in 1..m : n - 1 \in N => n \in N
  PROVE  \A n \in 0..m : n \in N
<1> DEFINE Rest == { n \in 0..m : n \notin N }
<1> SUFFICES ASSUME Rest # {} PROVE FALSE
  OBVIOUS
<1>1. PICK n \in Rest : \A k \in Rest : n <= k
  <2> Rest \in SUBSET Nat
    OBVIOUS
  <2> HIDE DEF Rest
  <2> QED BY LeastExists
<1>2. n \in 1..m /\ n - 1 \in 0..m /\ n - 1 \notin Rest
  BY <1>1
<1> QED BY <1>2

(***************************************************************************)
(* FlattenSeq: the texts joined so far, one more at a time.                *)
(***************************************************************************)
Joins(h, s) == /\ h[1] = s[1]
               /\ \A n \in 2..Len(s) : h[n] = h[n - 1] \o s[n]

LEMMA JoinsExist ==
  ASSUME NEW S, NEW s \in Seq(Seq(S)), s # <<>>
  PROVE  \E h \in [1..Len(s) -> Seq(S)] : Joins(h, s)
<1> DEFINE V == Seq(S)
           m == Len(s)
           Good(k, h) == \A n \in 1..k : h[n] = IF n = 1 THEN s[1] ELSE h[n - 1] \o s[n]
           N == { k \in 0..m : \E h \in [1..k -> V] : Good(k, h) }
<1>1. m \in Nat /\ m >= 1 /\ \A n \in 1..m : s[n] \in V
  BY EmptySeq, ElementOfSeq
<1> HIDE DEF V, m
<1>2. 0 \in N
  <2> SUFFICES ASSUME NEW k \in 0..m, k = 0 PROVE k \in N
    BY <1>1
  <2> DEFINE h == [n \in 1..k |-> s[1]]
  <2>1. h \in [1..k -> V] /\ Good(k, h)
    BY <1>1
  <2>2. \E f \in [1..k -> V] : Good(k, f)
    <3> HIDE DEF h, Good
    <3> QED BY <2>1
  <2> HIDE DEF Good
  <2> QED BY <2>2
<1>3. ASSUME NEW k \in 1..m, k - 1 \in N PROVE k \in N
  <2>1. PICK h \in [1..(k - 1) -> V] : Good(k - 1, h)
    BY <1>3
  <2> DEFINE x == IF k = 1 THEN s[1] ELSE h[k - 1] \o s[k]
             g == [n \in 1..k |-> IF n = k THEN x ELSE h[n]]
  <2>2. x \in V
    <3>1. CASE k = 1
      BY <1>1, <3>1
    <3>2. CASE k # 1
      <4>1. h[k - 1] \in V /\ s[k] \in V
        BY <1>1, <3>2
      <4> QED BY <3>2, <4>1 DEF V
    <3> QED BY <3>1, <3>2
  <2>3. g \in [1..k -> V]
    <3> HIDE DEF x
    <3>1. \A n \in 1..k : n # k => n \in 1..(k - 1)
      BY <1>1
    <3> QED BY <2>2, <3>1
  <2>4. Good(k, g)
    <3> SUFFICES ASSUME NEW n \in 1..k
                 PROVE  g[n] = IF n = 1 THEN s[1] ELSE g[n - 1] \o s[n]
      OBVIOUS
    <3>1. CASE n = k
      <4>1. g[n] = x
        BY <3>1
      <4>2. n # 1 => g[n - 1] = h[k - 1]
        BY <1>1, <3>1
      <4> HIDE DEF g
      <4> QED BY <3>1, <4>1, <4>2
    <3>2. CASE n # k
      <4>1. n \in 1..(k - 1) /\ g[n] = h[n] /\ (n # 1 => g[n - 1] = h[n - 1])
        BY <1>1, <3>2
      <4> HIDE DEF g
      <4> QED BY <2>1, <4>1
    <3> QED BY <3>1, <3>2
  <2>5. \E f \in [1..k -> V] : Good(k, f)
    <3> HIDE DEF g, Good
    <3> QED BY <2>3, <2>4
  <2> HIDE DEF Good
  <2> QED BY <1>1, <2>5
<1>4. m \in N
  <2>1. \A k \in 0..m : k \in N
    <3> HIDE DEF N
    <3> QED BY <1>1, <1>2, <1>3, Steps
  <2>2. m \in 0..m
    BY <1>1
  <2> HIDE DEF N
  <2> QED BY <2>1, <2>2
<1>5. PICK h \in [1..m -> V] : Good(m, h)
  BY <1>4
<1>6. Joins(h, s)
  <2>1. 1 \in 1..m /\ \A n \in 2..m : n \in 1..m /\ n # 1
    BY <1>1
  <2>2. h[1] = s[1] /\ \A n \in 2..m : h[n] = h[n - 1] \o s[n]
    BY <1>5, <2>1
  <2> QED BY <2>2 DEF Joins, m
<1> QED BY <1>5, <1>6 DEF V, m

\* It is what is joined in the end.
LEMMA FlattenIs ==
  ASSUME NEW S, NEW s \in Seq(Seq(S)), s # <<>>
  PROVE  \E h \in [1..Len(s) -> Seq(S)] : Joins(h, s) /\ B!FlattenSeq(s) = h[Len(s)]
<1> DEFINE Step(g) == [n \in 1..Len(s) |-> IF n = 1 THEN s[n] ELSE g[n - 1] \o s[n]]
           flat == CHOOSE g : g = Step(g)
<1>1. Len(s) \in Nat /\ Len(s) # 0
  BY EmptySeq
<1>2. B!FlattenSeq(s) = flat[Len(s)]
  BY <1>1, Zenon DEF B!FlattenSeq
<1>3. PICK h \in [1..Len(s) -> Seq(S)] : Joins(h, s)
  BY JoinsExist
<1>4. h = Step(h)
  <2>1. ASSUME NEW n \in 1..Len(s) PROVE h[n] = IF n = 1 THEN s[n] ELSE h[n - 1] \o s[n]
    <3>1. n = 1 \/ n \in 2..Len(s)
      BY <1>1
    <3> QED BY <1>3, <3>1 DEF Joins
  <2>2. h = [n \in 1..Len(s) |-> h[n]]
    OBVIOUS
  <2> QED BY <2>1, <2>2
<1>5. flat = Step(flat)
  <2> HIDE DEF Step
  <2> QED BY <1>4
<1> HIDE DEF flat
<1>6. DOMAIN flat = 1..Len(s)
      /\ \A n \in 1..Len(s) : flat[n] = IF n = 1 THEN s[n] ELSE flat[n - 1] \o s[n]
  BY <1>5
<1>7. Joins(flat, s)
  <2>1. 1 \in 1..Len(s) /\ \A n \in 2..Len(s) : n \in 1..Len(s) /\ n # 1
    BY <1>1
  <2>2. flat[1] = s[1] /\ \A n \in 2..Len(s) : flat[n] = flat[n - 1] \o s[n]
    BY <1>6, <2>1
  <2> QED BY <2>2 DEF Joins
<1>8. \A n \in 1..Len(s) : flat[n] = h[n]
  <2> DEFINE N == { n \in 0..Len(s) : n = 0 \/ flat[n] = h[n] }
  <2>1. 0 \in N
    BY <1>1
  <2>2. ASSUME NEW n \in 1..Len(s), n - 1 \in N PROVE n \in N
    <3>1. CASE n = 1
      BY <1>1, <1>3, <1>7, <3>1 DEF Joins
    <3>2. CASE n # 1
      <4>1. n \in 2..Len(s) /\ n \in 0..Len(s) /\ flat[n - 1] = h[n - 1]
        BY <1>1, <2>2, <3>2
      <4> QED BY <1>3, <1>7, <4>1 DEF Joins
    <3> QED BY <3>1, <3>2
  <2>3. \A n \in 0..Len(s) : n \in N
    <3> HIDE DEF N
    <3> QED BY <1>1, <2>1, <2>2, Steps
  <2> QED BY <2>3
<1> QED BY <1>1, <1>2, <1>3, <1>8

LEMMA FlattenNone == B!FlattenSeq(<<>>) = <<>>
  BY Zenon, EmptySeq DEF B!FlattenSeq

LEMMA FlattenType ==
  ASSUME NEW S, NEW s \in Seq(Seq(S))
  PROVE  B!FlattenSeq(s) \in Seq(S)
<1>1. CASE s = <<>>
  BY <1>1, FlattenNone, EmptySeq
<1>2. CASE s # <<>>
  <2>1. Len(s) \in 1..Len(s)
    BY <1>2, EmptySeq
  <2> QED BY <1>2, <2>1, FlattenIs
<1> QED BY <1>1, <1>2

\* One more text.
LEMMA FlattenAppend ==
  ASSUME NEW S, NEW s \in Seq(Seq(S)), NEW x \in Seq(S)
  PROVE  B!FlattenSeq(Append(s, x)) = B!FlattenSeq(s) \o x
<1> DEFINE V == Seq(S)
           t == Append(s, x)
           m == Len(s)
<1>1. /\ t \in Seq(V) /\ Len(t) = m + 1 /\ m \in Nat /\ t # <<>> /\ t[m + 1] = x
      /\ \A n \in 1..m : t[n] = s[n]
  BY AppendProperties
<1> HIDE DEF t
<1>2. PICK g \in [1..(m + 1) -> V] : Joins(g, t) /\ B!FlattenSeq(t) = g[m + 1]
  BY <1>1, FlattenIs
<1>3. CASE s = <<>>
  <2>1. m = 0
    BY <1>3
  <2>2. B!FlattenSeq(t) = x
    BY <1>1, <1>2, <2>1 DEF Joins
  <2>3. <<>> \o x = x
    BY ConcatEmptySeq
  <2> QED BY <1>3, <2>2, <2>3, FlattenNone DEF t
<1>4. CASE s # <<>>
  <2>1. PICK h \in [1..m -> V] : Joins(h, s) /\ B!FlattenSeq(s) = h[m]
    BY <1>4, FlattenIs
  <2>2. m >= 1
    BY <1>1, <1>4, EmptySeq
  <2> HIDE DEF m, V
  <2>3. \A n \in 1..m : g[n] = h[n]
    <3> DEFINE N == { n \in 0..m : n = 0 \/ g[n] = h[n] }
    <3>1. 0 \in N
      BY <1>1
    <3>2. ASSUME NEW n \in 1..m, n - 1 \in N PROVE n \in N
      <4>1. n \in 0..m /\ t[n] = s[n]
        BY <1>1
      <4>2. CASE n = 1
        <5>1. g[1] = h[1]
          BY <1>2, <2>1, <4>1, <4>2 DEF Joins
        <5> QED BY <4>1, <4>2, <5>1
      <4>3. CASE n # 1
        <5>1. n \in 2..m /\ n \in 2..Len(t) /\ g[n - 1] = h[n - 1]
          BY <1>1, <3>2, <4>3
        <5>2. g[n] = g[n - 1] \o t[n]
          BY <1>2, <5>1 DEF Joins
        <5>3. h[n] = h[n - 1] \o s[n]
          BY <2>1, <5>1 DEF Joins, m
        <5> QED BY <4>1, <5>1, <5>2, <5>3
      <4> QED BY <4>2, <4>3
    <3>3. \A n \in 0..m : n \in N
      <4> HIDE DEF N
      <4> QED BY <1>1, <3>1, <3>2, Steps
    <3> QED BY <3>3
  <2>4. g[m + 1] = g[m] \o x
    <3>1. m + 1 \in 2..Len(t) /\ (m + 1) - 1 = m
      BY <1>1, <2>2
    <3>2. g[m + 1] = g[(m + 1) - 1] \o t[m + 1]
      BY <1>2, <3>1 DEF Joins
    <3> QED BY <1>1, <3>1, <3>2
  <2>5. g[m] = h[m]
    BY <1>1, <2>2, <2>3
  <2> QED BY <1>2, <2>1, <2>4, <2>5 DEF t
<1> QED BY <1>3, <1>4

\* The elements of a sequence behind another.
LEMMA ConcatIs ==
  ASSUME NEW S, NEW a \in Seq(S), NEW b \in Seq(S)
  PROVE  /\ a \o b \in Seq(S) /\ Len(a \o b) = Len(a) + Len(b)
         /\ Len(a) \in Nat /\ Len(b) \in Nat
         /\ \A i \in Nat : /\ 1 <= i /\ i <= Len(a) => (a \o b)[i] = a[i]
                           /\ 1 <= i /\ i <= Len(b) => (a \o b)[Len(a) + i] = b[i]
<1>1. Len(a) \in Nat /\ Len(b) \in Nat
  OBVIOUS
<1>2. a \o b \in Seq(S) /\ Len(a \o b) = Len(a) + Len(b)
  BY ConcatProperties
<1>3. \A i \in 1..(Len(a) + Len(b)) : (a \o b)[i] = IF i <= Len(a) THEN a[i] ELSE b[i - Len(a)]
  BY ConcatProperties
<1> DEFINE p == a \o b
<1> HIDE DEF p
<1>4. \A i \in 1..(Len(a) + Len(b)) : p[i] = IF i <= Len(a) THEN a[i] ELSE b[i - Len(a)]
  BY <1>3, Zenon DEF p
<1>5. \A i \in Nat : /\ 1 <= i /\ i <= Len(a) => p[i] = a[i]
                     /\ 1 <= i /\ i <= Len(b) => p[Len(a) + i] = b[i]
  <2> SUFFICES ASSUME NEW i \in Nat, 1 <= i
               PROVE  /\ i <= Len(a) => p[i] = a[i]
                      /\ i <= Len(b) => p[Len(a) + i] = b[i]
    OBVIOUS
  <2>1. i <= Len(b) => (Len(a) + i) - Len(a) = i /\ ~(Len(a) + i <= Len(a))
                       /\ Len(a) + i \in 1..(Len(a) + Len(b))
    BY <1>1
  <2>2. i <= Len(a) => i \in 1..(Len(a) + Len(b))
    BY <1>1
  <2> QED BY <1>4, <2>1, <2>2
<1> QED BY <1>1, <1>2, <1>5 DEF p

LEMMA Associates ==
  ASSUME NEW S, NEW a \in Seq(S), NEW b \in Seq(S), NEW c \in Seq(S)
  PROVE  (a \o b) \o c = a \o (b \o c)
<1> DEFINE p == a \o b
           q == b \o c
           v == p \o c
           w == a \o q
<1>1. /\ p \in Seq(S) /\ Len(p) = Len(a) + Len(b)
      /\ Len(a) \in Nat /\ Len(b) \in Nat /\ Len(c) \in Nat
      /\ \A i \in Nat : /\ 1 <= i /\ i <= Len(a) => p[i] = a[i]
                        /\ 1 <= i /\ i <= Len(b) => p[Len(a) + i] = b[i]
  BY ConcatIs
<1>2. /\ q \in Seq(S) /\ Len(q) = Len(b) + Len(c)
      /\ \A i \in Nat : /\ 1 <= i /\ i <= Len(b) => q[i] = b[i]
                        /\ 1 <= i /\ i <= Len(c) => q[Len(b) + i] = c[i]
  BY ConcatIs
<1> HIDE DEF p, q
<1>3. /\ v \in Seq(S) /\ Len(v) = Len(p) + Len(c)
      /\ \A i \in Nat : /\ 1 <= i /\ i <= Len(p) => v[i] = p[i]
                        /\ 1 <= i /\ i <= Len(c) => v[Len(p) + i] = c[i]
  <2>1. p \in Seq(S)
    BY <1>1
  <2> QED BY <2>1, ConcatIs
<1>4. /\ w \in Seq(S) /\ Len(w) = Len(a) + Len(q)
      /\ \A i \in Nat : /\ 1 <= i /\ i <= Len(a) => w[i] = a[i]
                        /\ 1 <= i /\ i <= Len(q) => w[Len(a) + i] = q[i]
  <2>1. q \in Seq(S)
    BY <1>2
  <2> QED BY <2>1, ConcatIs
<1> HIDE DEF v, w
<1>5. Len(v) = Len(w) /\ Len(v) = Len(a) + Len(b) + Len(c)
  BY <1>1, <1>2, <1>3, <1>4
<1>6. ASSUME NEW i \in 1..Len(v) PROVE v[i] = w[i]
  <2>1. i \in Nat /\ 1 <= i /\ i <= Len(a) + Len(b) + Len(c)
    BY <1>1, <1>5
  <2>2. CASE i <= Len(a)
    <3>1. i <= Len(p)
      BY <1>1, <2>1, <2>2
    <3> QED BY <1>1, <1>3, <1>4, <2>1, <2>2, <3>1
  <2>3. CASE i > Len(a) /\ i <= Len(a) + Len(b)
    <3>1. PICK j \in Nat : i = Len(a) + j /\ 1 <= j /\ j <= Len(b)
      <4>1. i - Len(a) \in Nat /\ i = Len(a) + (i - Len(a)) /\ 1 <= i - Len(a)
            /\ i - Len(a) <= Len(b)
        BY <1>1, <2>1, <2>3
      <4> QED BY <4>1
    <3>2. v[i] = p[i] /\ p[i] = b[j]
      BY <1>1, <1>3, <2>1, <2>3, <3>1
    <3>3. w[i] = q[j] /\ q[j] = b[j]
      BY <1>1, <1>2, <1>4, <3>1
    <3> QED BY <3>2, <3>3
  <2>4. CASE i > Len(a) + Len(b)
    <3>1. PICK j \in Nat : i = Len(p) + j /\ 1 <= j /\ j <= Len(c)
      <4>1. i - Len(p) \in Nat /\ i = Len(p) + (i - Len(p)) /\ 1 <= i - Len(p)
            /\ i - Len(p) <= Len(c)
        BY <1>1, <2>1, <2>4
      <4> QED BY <4>1
    <3>2. v[i] = c[j]
      BY <1>3, <3>1
    <3>3. /\ Len(b) + j \in Nat /\ 1 <= Len(b) + j /\ Len(b) + j <= Len(q)
          /\ i = Len(a) + (Len(b) + j)
      BY <1>1, <1>2, <3>1
    <3>4. w[i] = q[Len(b) + j]
      BY <1>4, <3>3
    <3>5. q[Len(b) + j] = c[j]
      BY <1>2, <3>1
    <3> QED BY <3>2, <3>4, <3>5
  <2> QED BY <1>1, <2>1, <2>2, <2>3, <2>4
<1>7. v = w
  BY <1>3, <1>4, <1>5, <1>6, SeqEqual
<1> QED BY <1>7, Zenon DEF v, w, p, q

Cat(a, b) == a \o b

LEMMA CatAssociates ==
  ASSUME NEW S, NEW a \in Seq(S), NEW b \in Seq(S), NEW c \in Seq(S)
  PROVE  Cat(Cat(a, b), c) = Cat(a, Cat(b, c))
<1>1. (a \o b) \o c = a \o (b \o c)
  BY Associates
<1> QED BY <1>1, Zenon DEF Cat

\* The texts of two sequences, one after the other.
LEMMA FlattenConcat ==
  ASSUME NEW S, NEW s \in Seq(Seq(S)), NEW t \in Seq(Seq(S))
  PROVE  B!FlattenSeq(s \o t) = B!FlattenSeq(s) \o B!FlattenSeq(t)
<1> DEFINE V == Seq(S)
           m == Len(t)
           First(n) == SubSeq(t, 1, n)
           N == { n \in 0..m : B!FlattenSeq(s \o First(n))
                               = B!FlattenSeq(s) \o B!FlattenSeq(First(n)) }
<1>1. m \in Nat /\ \A n \in 1..m : t[n] \in V
  BY ElementOfSeq
<1>2. 0 \in N
  <2>1. First(0) = <<>>
    BY SubSeqEmpty
  <2>2. s \o <<>> = s
    BY ConcatEmptySeq
  <2>3. B!FlattenSeq(s) \o <<>> = B!FlattenSeq(s)
    BY FlattenType, ConcatEmptySeq
  <2> HIDE DEF First, m
  <2>4. B!FlattenSeq(s \o First(0)) = B!FlattenSeq(s) \o B!FlattenSeq(First(0))
    BY <2>1, <2>2, <2>3, FlattenNone, Zenon
  <2> QED BY <1>1, <2>4
<1>3. ASSUME NEW n \in 1..m, n - 1 \in N PROVE n \in N
  <2> DEFINE u == First(n - 1)
             x == t[n]
  <2>1. u \in Seq(V) /\ x \in V
    <3>1. \A i \in 1..(n - 1) : t[i] \in V
      BY <1>1
    <3>2. 1 \in Int /\ n - 1 \in Int
      BY <1>1
    <3> HIDE DEF V
    <3>3. SubSeq(t, 1, n - 1) \in Seq(V)
      BY <3>1, <3>2, SubSeqProperties
    <3> QED BY <1>1, <3>3
  <2>2. First(n) = Append(u, x)
    <3>1. First(n) = u \o << x >>
      <4>1. 1 \in 1..Len(t) /\ n \in 1..Len(t)
        BY <1>1
      <4> HIDE DEF V
      <4> QED BY <4>1, SubSeqRecursiveSecond DEF V
    <3> HIDE DEF First, u, x, V
    <3> QED BY <2>1, <3>1, AppendIsConcat
  <2>3. s \o Append(u, x) = Append(s \o u, x) /\ s \o u \in Seq(V)
    <3> HIDE DEF u, x, V
    <3>0. s \in Seq(V)
      BY DEF V
    <3>1. s \o u \in Seq(V) /\ << x >> \in Seq(V)
      BY <2>1, <3>0, ConcatProperties
    <3>2. Append(s \o u, x) = (s \o u) \o << x >> /\ Append(u, x) = u \o << x >>
      BY <2>1, <3>1, AppendIsConcat
    <3>3. (s \o u) \o << x >> = s \o (u \o << x >>)
      <4>1. Cat(Cat(s, u), << x >>) = Cat(s, Cat(u, << x >>))
        <5> DEFINE z == << x >>
        <5>1. z \in Seq(V) /\ u \in Seq(V)
          BY <2>1, <3>1
        <5> HIDE DEF z
        <5>2. Cat(Cat(s, u), z) = Cat(s, Cat(u, z))
          BY <3>0, <5>1, CatAssociates
        <5> QED BY <5>2, Zenon DEF z
      <4> QED BY <4>1, Zenon DEF Cat
    <3> QED BY <3>1, <3>2, <3>3
  <2>4. B!FlattenSeq(s \o u) = B!FlattenSeq(s) \o B!FlattenSeq(u) /\ n \in 0..m
    BY <1>1, <1>3
  <2> HIDE DEF u, x, First
  <2>5. B!FlattenSeq(Append(u, x)) = B!FlattenSeq(u) \o x
    BY <2>1, FlattenAppend DEF V
  <2>6. B!FlattenSeq(Append(s \o u, x)) = B!FlattenSeq(s \o u) \o x
    BY <2>1, <2>3, FlattenAppend DEF V
  <2>7. (B!FlattenSeq(s) \o B!FlattenSeq(u)) \o x = B!FlattenSeq(s) \o (B!FlattenSeq(u) \o x)
    <3>1. B!FlattenSeq(s) \in V /\ B!FlattenSeq(u) \in V
      BY <2>1, FlattenType DEF V
    <3>2. x \in Seq(S) /\ B!FlattenSeq(s) \in Seq(S) /\ B!FlattenSeq(u) \in Seq(S)
      BY <2>1, <3>1, Zenon DEF V
    <3>3. Cat(Cat(B!FlattenSeq(s), B!FlattenSeq(u)), x)
          = Cat(B!FlattenSeq(s), Cat(B!FlattenSeq(u), x))
      BY <3>2, CatAssociates
    <3> QED BY <3>3, Zenon DEF Cat
  <2>8. B!FlattenSeq(s \o First(n)) = B!FlattenSeq(s) \o B!FlattenSeq(First(n))
    BY <2>2, <2>3, <2>4, <2>5, <2>6, <2>7, Zenon
  <2> QED BY <2>4, <2>8
<1>4. First(m) = t
  BY SubSeqFull
<1>5. m \in N
  <2>1. \A n \in 0..m : n \in N
    <3> HIDE DEF N, m
    <3> QED BY <1>1, <1>2, <1>3, Steps
  <2> HIDE DEF N
  <2> QED BY <1>1, <2>1
<1> HIDE DEF First
<1> QED BY <1>4, <1>5

(***************************************************************************)
(* Text.                                                                   *)
(***************************************************************************)
Bytes(data) == [ k \in DOMAIN data |-> IF data[k] \in controls THEN <<>> ELSE << data[k] >> ]

LEMMA BytesAre ==
  ASSUME NEW d \in Seq(Nat)
  PROVE  /\ Bytes(d) \in Seq(Seq(Nat)) /\ Len(Bytes(d)) = Len(d)
         /\ \A k \in 1..Len(d) : /\ Bytes(d)[k] = IF d[k] \in controls THEN <<>> ELSE << d[k] >>
                                 /\ Len(Bytes(d)[k]) <= 1
         /\ B!Text(d) = IF by = "tool" THEN d ELSE B!FlattenSeq(Bytes(d))
<1>1. DOMAIN d = 1..Len(d) /\ Len(d) \in Nat /\ \A k \in 1..Len(d) : d[k] \in Nat
  OBVIOUS
<1>2. \A k \in 1..Len(d) : /\ Bytes(d)[k] = IF d[k] \in controls THEN <<>> ELSE << d[k] >>
                           /\ Bytes(d)[k] \in Seq(Nat) /\ Len(Bytes(d)[k]) <= 1
  BY <1>1 DEF Bytes
<1>3. Bytes(d) \in [1..Len(d) -> Seq(Nat)]
  BY <1>1, <1>2 DEF Bytes
<1>4. Bytes(d) \in Seq(Seq(Nat)) /\ Len(Bytes(d)) = Len(d)
  BY <1>1, <1>3
<1>5. B!Text(d) = IF by = "tool" THEN d ELSE B!FlattenSeq(Bytes(d))
  BY Zenon DEF B!Text, Bytes
<1> QED BY <1>2, <1>4, <1>5

LEMMA TextType == ASSUME NEW d \in Seq(Nat) PROVE B!Text(d) \in Seq(Nat)
  BY BytesAre, FlattenType

LEMMA TextNone == B!Text(<<>>) = <<>>
<1>1. <<>> \in Seq(Nat) /\ Len(<<>>) = 0
  OBVIOUS
<1>2. Bytes(<<>>) = <<>>
  BY <1>1, BytesAre, EmptySeq
<1> QED BY <1>1, <1>2, BytesAre, FlattenNone

LEMMA TextConcat ==
  ASSUME NEW d \in Seq(Nat), NEW e \in Seq(Nat)
  PROVE  B!Text(d \o e) = B!Text(d) \o B!Text(e)
<1>1. d \o e \in Seq(Nat) /\ Len(d \o e) = Len(d) + Len(e) /\ Len(d) \in Nat /\ Len(e) \in Nat
  OBVIOUS
<1>2. Bytes(d \o e) = Bytes(d) \o Bytes(e)
  <2>1. /\ Bytes(d \o e) \in Seq(Seq(Nat)) /\ Len(Bytes(d \o e)) = Len(d) + Len(e)
        /\ Bytes(d) \o Bytes(e) \in Seq(Seq(Nat))
        /\ Len(Bytes(d) \o Bytes(e)) = Len(d) + Len(e)
    <3> DEFINE p == Bytes(d)
               q == Bytes(e)
    <3>1. /\ p \in Seq(Seq(Nat)) /\ Len(p) = Len(d) /\ q \in Seq(Seq(Nat)) /\ Len(q) = Len(e)
          /\ Bytes(d \o e) \in Seq(Seq(Nat)) /\ Len(Bytes(d \o e)) = Len(d) + Len(e)
      BY <1>1, BytesAre
    <3> HIDE DEF p, q
    <3>2. p \o q \in Seq(Seq(Nat)) /\ Len(p \o q) = Len(p) + Len(q)
      BY <3>1, ConcatProperties
    <3> QED BY <3>1, <3>2 DEF p, q
  <2>2. ASSUME NEW k \in 1..(Len(d) + Len(e))
        PROVE  Bytes(d \o e)[k] = (Bytes(d) \o Bytes(e))[k]
    <3>1. Bytes(d \o e)[k] = IF (d \o e)[k] \in controls THEN <<>> ELSE << (d \o e)[k] >>
      BY <1>1, BytesAre
    <3>2. (Bytes(d) \o Bytes(e))[k]
            = IF k <= Len(d) THEN Bytes(d)[k] ELSE Bytes(e)[k - Len(d)]
      <4> DEFINE p == Bytes(d)
                 q == Bytes(e)
      <4>1. p \in Seq(Seq(Nat)) /\ Len(p) = Len(d) /\ q \in Seq(Seq(Nat)) /\ Len(q) = Len(e)
        BY BytesAre
      <4> HIDE DEF p, q
      <4>2. (p \o q)[k] = IF k <= Len(p) THEN p[k] ELSE q[k - Len(p)]
        BY <4>1, ConcatProperties
      <4> QED BY <4>1, <4>2 DEF p, q
    <3>3. CASE k <= Len(d)
      <4>1. k \in 1..Len(d) /\ (d \o e)[k] = d[k]
        BY <1>1, <3>3
      <4> QED BY <3>1, <3>2, <3>3, <4>1, BytesAre
    <3>4. CASE ~(k <= Len(d))
      <4>1. k - Len(d) \in 1..Len(e) /\ (d \o e)[k] = e[k - Len(d)]
        BY <1>1, <3>4
      <4> QED BY <3>1, <3>2, <3>4, <4>1, BytesAre
    <3> QED BY <3>3, <3>4
  <2> QED BY <2>1, <2>2, SeqEqual
<1>3. CASE by = "tool"
  BY <1>1, <1>3, BytesAre
<1>4. CASE by # "tool"
  <2>1. Bytes(d) \in Seq(Seq(Nat)) /\ Bytes(e) \in Seq(Seq(Nat))
    BY BytesAre
  <2>2. B!FlattenSeq(Bytes(d) \o Bytes(e)) = B!FlattenSeq(Bytes(d)) \o B!FlattenSeq(Bytes(e))
    BY <2>1, FlattenConcat
  <2> QED BY <1>1, <1>2, <1>4, <2>2, BytesAre
<1> QED BY <1>3, <1>4

\* Not longer than what has arrived.
LEMMA TextShort == ASSUME NEW d \in Seq(Nat) PROVE Len(B!Text(d)) <= Len(d)
<1> DEFINE s == Bytes(d)
           m == Len(s)
<1>1. /\ s \in Seq(Seq(Nat)) /\ m = Len(d) /\ m \in Nat /\ \A k \in 1..m : Len(s[k]) <= 1
      /\ B!Text(d) = IF by = "tool" THEN d ELSE B!FlattenSeq(s)
  <2>1. Len(d) \in Nat
    OBVIOUS
  <2>2. s \in Seq(Seq(Nat)) /\ Len(s) = Len(d) /\ \A k \in 1..Len(d) : Len(s[k]) <= 1
    BY BytesAre
  <2>3. B!Text(d) = IF by = "tool" THEN d ELSE B!FlattenSeq(s)
    BY BytesAre
  <2> QED BY <2>1, <2>2, <2>3
<1> HIDE DEF s
<1>2. CASE by = "tool" \/ s = <<>>
  BY <1>1, <1>2, FlattenNone
<1>3. CASE by # "tool" /\ s # <<>>
  <2>1. PICK h \in [1..m -> Seq(Nat)] : Joins(h, s) /\ B!FlattenSeq(s) = h[m]
    BY <1>1, <1>3, FlattenIs
  <2>2. m >= 1
    BY <1>1, <1>3, EmptySeq
  <2> DEFINE N == { n \in 0..m : n = 0 \/ Len(h[n]) <= n }
  <2> HIDE DEF m
  <2>3. 0 \in N
    BY <1>1
  <2>4. ASSUME NEW n \in 1..m, n - 1 \in N PROVE n \in N
    <3>1. n \in 0..m /\ Len(s[n]) <= 1 /\ s[n] \in Seq(Nat) /\ Len(s[n]) \in Nat
      BY <1>1, ElementOfSeq DEF m
    <3>2. CASE n = 1
      BY <2>1, <3>1, <3>2 DEF Joins
    <3>3. CASE n # 1
      <4>1. n \in 2..m /\ n - 1 \in 1..m /\ Len(h[n - 1]) <= n - 1
        BY <1>1, <2>4, <3>3
      <4>2. h[n] = h[n - 1] \o s[n]
        BY <2>1, <4>1 DEF Joins, m
      <4>3. Len(h[n]) = Len(h[n - 1]) + Len(s[n]) /\ Len(h[n - 1]) \in Nat
        BY <3>1, <4>1, <4>2, ConcatProperties
      <4>4. Len(h[n]) <= n
        <5> DEFINE a == Len(h[n - 1])
                   b == Len(s[n])
        <5>1. a \in Nat /\ b \in Nat /\ a <= n - 1 /\ b <= 1 /\ n \in Nat /\ Len(h[n]) = a + b
          BY <1>1, <3>1, <4>1, <4>3
        <5> HIDE DEF a, b
        <5> QED BY <5>1
      <4> QED BY <3>1, <4>4
    <3> QED BY <3>2, <3>3
  <2>5. Len(h[m]) <= m
    <3>1. \A n \in 0..m : n \in N
      <4> HIDE DEF N
      <4> QED BY <1>1, <2>3, <2>4, Steps
    <3> QED BY <1>1, <2>2, <3>1
  <2> QED BY <1>1, <1>3, <2>1, <2>5
<1> QED BY <1>2, <1>3

(***************************************************************************)
(* The end of a text, and its lines.                                       *)
(***************************************************************************)
Ends(s, t) == /\ s \in Seq(Nat) /\ t \in Seq(Nat) /\ Len(s) <= Len(t)
              /\ \A i \in Nat : i < Len(s) => s[Len(s) - i] = t[Len(t) - i]

LEMMA EndsSuffix == ASSUME NEW s, NEW t, Ends(s, t) PROVE B!IsSuffix(s, t)
<1> DEFINE p == B!Reverse(s)
           q == B!Reverse(t)
           m == Len(s)
           n == Len(t)
<1>1. m \in Nat /\ n \in Nat /\ m <= n /\ \A i \in Nat : i < m => s[m - i] = t[n - i]
  BY DEF Ends
<1>2. /\ p = [i \in 1..m |-> s[(m - i) + 1]]
      /\ q = [i \in 1..n |-> t[(n - i) + 1]]
  BY Zenon DEF B!Reverse
<1>3. \A i \in 1..m : s[(m - i) + 1] \in Nat
  <2>1. \A i \in 1..m : (m - i) + 1 \in 1..m
    BY <1>1
  <2> QED BY <2>1 DEF Ends
<1>4. \A i \in 1..n : t[(n - i) + 1] \in Nat
  <2>1. \A i \in 1..n : (n - i) + 1 \in 1..n
    BY <1>1
  <2> QED BY <2>1 DEF Ends
<1> HIDE DEF p, q, m, n
<1>5. p \in Seq(Nat) /\ Len(p) = m /\ \A i \in 1..m : p[i] = s[(m - i) + 1]
  BY <1>1, <1>2, <1>3
<1>6. q \in Seq(Nat) /\ Len(q) = n /\ \A i \in 1..n : q[i] = t[(n - i) + 1] /\ q[i] \in Nat
  BY <1>1, <1>2, <1>4
<1>7. ASSUME NEW i \in 1..m PROVE p[i] = q[i] /\ q[i] \in Nat
  <2>1. i - 1 \in Nat /\ i - 1 < m /\ m - (i - 1) = (m - i) + 1 /\ n - (i - 1) = (n - i) + 1
        /\ i \in 1..n
    BY <1>1
  <2>2. s[m - (i - 1)] = t[n - (i - 1)]
    BY <1>1, <2>1
  <2> QED BY <1>5, <1>6, <2>1, <2>2
<1>8. SubSeq(p, 1, m) = SubSeq(q, 1, m)
  <2>1. SubSeq(p, 1, m) = p
    BY <1>5, SubSeqFull
  <2>2. /\ SubSeq(q, 1, m) \in Seq(Nat) /\ Len(SubSeq(q, 1, m)) = m
        /\ \A i \in 1..m : SubSeq(q, 1, m)[i] = q[i]
    <3>1. 1 \in Int /\ m \in Int /\ (IF 1 <= m THEN m - 1 + 1 ELSE 0) = m /\ m - 1 + 1 = m
          /\ \A i \in 1..m : 1 + i - 1 = i
      BY <1>1
    <3>2. /\ SubSeq(q, 1, m) \in Seq(Nat)
          /\ Len(SubSeq(q, 1, m)) = IF 1 <= m THEN m - 1 + 1 ELSE 0
          /\ \A i \in 1..(m - 1 + 1) : SubSeq(q, 1, m)[i] = q[1 + i - 1]
      BY <1>7, <3>1, SubSeqProperties
    <3> QED BY <3>1, <3>2
  <2> DEFINE r == SubSeq(q, 1, m)
  <2> HIDE DEF r
  <2>3. p = r
    <3>1. r \in Seq(Nat) /\ Len(r) = Len(p) /\ \A i \in 1..Len(p) : p[i] = r[i]
      BY <1>5, <1>7, <2>2 DEF r
    <3> QED BY <1>5, <3>1, SeqEqual
  <2> QED BY <2>1, <2>3 DEF r
<1>9. Len(p) <= Len(q)
  BY <1>1, <1>5, <1>6
<1>10. B!IsPrefix(p, q)
  BY <1>5, <1>8, <1>9, Zenon DEF B!IsPrefix
<1> QED BY <1>10, Zenon DEF B!IsSuffix, p, q

LEMMA EndsOn == ASSUME NEW s, NEW t, NEW u, Ends(s, t), Ends(t, u) PROVE Ends(s, u)
<1>1. Len(s) \in Nat /\ Len(t) \in Nat /\ Len(u) \in Nat /\ Len(s) <= Len(t) /\ Len(t) <= Len(u)
  BY DEF Ends
<1>2. ASSUME NEW i \in Nat, i < Len(s) PROVE s[Len(s) - i] = u[Len(u) - i]
  <2>1. i < Len(t)
    BY <1>1, <1>2
  <2> QED BY <1>2, <2>1 DEF Ends
<1> QED BY <1>1, <1>2 DEF Ends

LEMMA EndsSelf == ASSUME NEW s \in Seq(Nat) PROVE Ends(s, s)
  BY DEF Ends

LEMMA EndsBehind ==
  ASSUME NEW s \in Seq(Nat), NEW t \in Seq(Nat) PROVE Ends(s, t \o s)
<1> DEFINE r == t \o s
<1>1. /\ r \in Seq(Nat) /\ Len(r) = Len(t) + Len(s) /\ Len(t) \in Nat /\ Len(s) \in Nat
      /\ \A i \in Nat : 1 <= i /\ i <= Len(s) => r[Len(t) + i] = s[i]
  BY ConcatIs
<1> HIDE DEF r
<1>2. ASSUME NEW i \in Nat, i < Len(s) PROVE s[Len(s) - i] = r[Len(r) - i]
  <2>1. Len(s) - i \in Nat /\ 1 <= Len(s) - i /\ Len(s) - i <= Len(s)
        /\ Len(r) - i = Len(t) + (Len(s) - i)
    BY <1>1, <1>2
  <2> QED BY <1>1, <2>1
<1>3. Ends(s, r)
  BY <1>1, <1>2 DEF Ends
<1> QED BY <1>3 DEF r

LEMMA EndsMore ==
  ASSUME NEW s, NEW t, Ends(s, t), NEW u \in Seq(Nat) PROVE Ends(s \o u, t \o u)
<1> DEFINE p == s \o u
           q == t \o u
<1>1. /\ p \in Seq(Nat) /\ Len(p) = Len(s) + Len(u) /\ Len(s) \in Nat /\ Len(u) \in Nat
      /\ \A i \in Nat : /\ 1 <= i /\ i <= Len(s) => p[i] = s[i]
                        /\ 1 <= i /\ i <= Len(u) => p[Len(s) + i] = u[i]
  <2>1. s \in Seq(Nat)
    BY DEF Ends
  <2> QED BY <2>1, ConcatIs
<1>2. /\ q \in Seq(Nat) /\ Len(q) = Len(t) + Len(u) /\ Len(t) \in Nat
      /\ \A i \in Nat : /\ 1 <= i /\ i <= Len(t) => q[i] = t[i]
                        /\ 1 <= i /\ i <= Len(u) => q[Len(t) + i] = u[i]
  <2>1. t \in Seq(Nat)
    BY DEF Ends
  <2> QED BY <2>1, ConcatIs
<1>3. Len(s) <= Len(t) /\ \A i \in Nat : i < Len(s) => s[Len(s) - i] = t[Len(t) - i]
  BY DEF Ends
<1> HIDE DEF p, q
<1>4. ASSUME NEW i \in Nat, i < Len(p) PROVE p[Len(p) - i] = q[Len(q) - i]
  <2>1. CASE i < Len(u)
    <3>1. Len(u) - i \in Nat /\ 1 <= Len(u) - i /\ Len(u) - i <= Len(u)
          /\ Len(p) - i = Len(s) + (Len(u) - i) /\ Len(q) - i = Len(t) + (Len(u) - i)
      BY <1>1, <1>2, <2>1
    <3>2. p[Len(p) - i] = u[Len(u) - i]
      BY <1>1, <3>1
    <3>3. q[Len(q) - i] = u[Len(u) - i]
      BY <1>2, <3>1
    <3> QED BY <3>2, <3>3
  <2>2. CASE ~(i < Len(u))
    <3> DEFINE j == i - Len(u)
    <3>1. /\ j \in Nat /\ j < Len(s) /\ Len(p) - i = Len(s) - j /\ Len(q) - i = Len(t) - j
          /\ Len(s) - j \in Nat /\ 1 <= Len(s) - j /\ Len(s) - j <= Len(s)
          /\ Len(t) - j \in Nat /\ 1 <= Len(t) - j /\ Len(t) - j <= Len(t)
      BY <1>1, <1>2, <1>3, <1>4, <2>2
    <3> HIDE DEF j
    <3>2. p[Len(p) - i] = s[Len(s) - j]
      BY <1>1, <3>1
    <3>3. q[Len(q) - i] = t[Len(t) - j]
      BY <1>2, <3>1
    <3> QED BY <1>3, <3>1, <3>2, <3>3
  <2> QED BY <2>1, <2>2
<1>5. Ends(p, q)
  BY <1>1, <1>2, <1>3, <1>4 DEF Ends
<1> QED BY <1>5 DEF p, q

\* What is left of a text from a place on.
LEMMA Rest ==
  ASSUME NEW t \in Seq(Nat), NEW k \in 1..(Len(t) + 1)
  PROVE  /\ Ends(SubSeq(t, k, Len(t)), t) /\ Len(SubSeq(t, k, Len(t))) = Len(t) - k + 1
         /\ \A i \in 1..(Len(t) - k + 1) : SubSeq(t, k, Len(t))[i] = t[k + i - 1]
<1> DEFINE n == Len(t)
           r == SubSeq(t, k, n)
<1>1. n \in Nat /\ \A i \in k..n : t[i] \in Nat
  OBVIOUS
<1>2. k \in Int /\ n \in Int /\ (IF k <= n THEN n - k + 1 ELSE 0) = n - k + 1
  BY <1>1
<1> HIDE DEF n
<1>3. /\ r \in Seq(Nat) /\ Len(r) = IF k <= n THEN n - k + 1 ELSE 0
      /\ \A i \in 1..(n - k + 1) : r[i] = t[k + i - 1]
  BY <1>1, <1>2, SubSeqProperties
<1> HIDE DEF r
<1>4. Len(r) = n - k + 1 /\ Len(r) <= n
  BY <1>1, <1>2, <1>3 DEF n
<1>5. ASSUME NEW i \in Nat, i < Len(r) PROVE r[Len(r) - i] = t[n - i]
  <2>1. Len(r) - i \in 1..(n - k + 1) /\ k + (Len(r) - i) - 1 = n - i
    BY <1>1, <1>2, <1>4, <1>5
  <2> QED BY <1>3, <2>1
<1>6. Ends(r, t)
  BY <1>3, <1>4, <1>5 DEF Ends, n
<1> QED BY <1>3, <1>4, <1>6 DEF r, n

(***************************************************************************)
(* The rolling buffer.                                                     *)
(***************************************************************************)
LEMMA RolledFrom ==
  ASSUME NEW cs \in Seq(Seq(Nat)), cs # <<>>
  PROVE  \E k \in 1..Len(cs) :
           /\ B!Rolled(cs) = SubSeq(cs, k, Len(cs))
           /\ Len(B!FlattenSeq(cs)) <= DEFAULT_MAX_BYTES * 2 => k = 1
<1> DEFINE n == Len(cs)
           Small(k) == Len(B!FlattenSeq(SubSeq(cs, k, Len(cs)))) <= DEFAULT_MAX_BYTES * 2
           Is(k) == /\ Small(k) \/ k = Len(cs)
                    /\ \A j \in 1..(k - 1) : ~Small(j)
           first == CHOOSE k \in DOMAIN cs : Is(k)
           N == { k \in 1..n : Small(k) \/ k = n }
<1>1. n \in Nat /\ n >= 1 /\ DOMAIN cs = 1..n
  BY EmptySeq
<1>2. B!Rolled(cs) = SubSeq(cs, first, n)
  BY Zenon DEF B!Rolled
<1>3. \E k \in DOMAIN cs : Is(k)
  <2> HIDE DEF Small
  <2>1. N \in SUBSET Nat /\ n \in N
    BY <1>1
  <2> HIDE DEF N
  <2>2. PICK k \in N : \A j \in N : k <= j
    BY <2>1, LeastExists
  <2>3. k \in 1..n
    BY <2>2 DEF N
  <2>4. Small(k) \/ k = n
    BY <2>2 DEF N
  <2>5. ASSUME NEW j \in 1..(k - 1) PROVE ~Small(j)
    <3> HIDE DEF n
    <3>1. j \in 1..n /\ ~(k <= j)
      BY <1>1, <2>3
    <3> QED BY <2>2, <3>1 DEF N
  <2> QED BY <1>1, <2>3, <2>4, <2>5
<1>4. first \in DOMAIN cs /\ Is(first)
  <2> HIDE DEF Is
  <2> QED BY <1>3
<1> HIDE DEF first
<1>5. Len(B!FlattenSeq(cs)) <= DEFAULT_MAX_BYTES * 2 => first = 1
  <2>1. SubSeq(cs, 1, Len(cs)) = cs
    BY SubSeqFull
  <2>2. Len(B!FlattenSeq(cs)) <= DEFAULT_MAX_BYTES * 2 => Small(1)
    BY <2>1
  <2> HIDE DEF Small, n
  <2>3. first # 1 => 1 \in 1..(first - 1)
    BY <1>1, <1>4
  <2> QED BY <1>4, <2>2, <2>3
<1> QED BY <1>1, <1>2, <1>4, <1>5

\* A chunk goes whole, and the buffer keeps what follows it.
LEMMA RolledEnds ==
  ASSUME NEW cs \in Seq(Seq(Nat)), cs # <<>>
  PROVE  /\ B!Rolled(cs) \in Seq(Seq(Nat))
         /\ Ends(B!FlattenSeq(B!Rolled(cs)), B!FlattenSeq(cs))
         /\ Len(B!FlattenSeq(cs)) <= DEFAULT_MAX_BYTES * 2 => B!Rolled(cs) = cs
<1> DEFINE V == Seq(Nat)
           n == Len(cs)
<1>1. PICK k \in 1..n : /\ B!Rolled(cs) = SubSeq(cs, k, n)
                        /\ Len(B!FlattenSeq(cs)) <= DEFAULT_MAX_BYTES * 2 => k = 1
  BY RolledFrom
<1>2. n \in Nat /\ n >= 1 /\ \A i \in 1..n : cs[i] \in V
  BY EmptySeq, ElementOfSeq
<1>3. SubSeq(cs, 1, n) = cs
  BY SubSeqFull
<1> DEFINE p == SubSeq(cs, 1, k - 1)
           q == SubSeq(cs, k, n)
<1>4. p \in Seq(V) /\ q \in Seq(V)
  <2>1. 1 \in Int /\ k - 1 \in Int /\ k \in Int /\ n \in Int
        /\ \A i \in 1..(k - 1) : i \in 1..n /\ \A j \in k..n : j \in 1..n
    BY <1>2
  <2>2. (\A i \in 1..(k - 1) : cs[i] \in V) /\ \A i \in k..n : cs[i] \in V
    <3> HIDE DEF n, V
    <3> QED BY <1>2
  <2> HIDE DEF V, n
  <2> QED BY <2>1, <2>2, SubSeqProperties
<1>5. p \o q = cs
  <2>0. cs \in Seq(V)
    OBVIOUS
  <2> HIDE DEF V
  <2>1. /\ 1 \in 1..(Len(cs) + 1) /\ k - 1 \in (1 - 1)..Len(cs) /\ n \in (k - 1)..Len(cs)
        /\ (k - 1) + 1 = k
    BY <1>2
  <2>2. SubSeq(cs, 1, k - 1) \o SubSeq(cs, (k - 1) + 1, n) = SubSeq(cs, 1, n)
    BY <2>0, <2>1, ConcatAdjacentSubSeq
  <2> QED BY <1>3, <2>1, <2>2
<1> HIDE DEF p, q
<1>6. B!FlattenSeq(p \o q) = B!FlattenSeq(p) \o B!FlattenSeq(q)
  BY <1>4, FlattenConcat
<1>7. Ends(B!FlattenSeq(q), B!FlattenSeq(p) \o B!FlattenSeq(q))
  <2>1. B!FlattenSeq(p) \in Seq(Nat) /\ B!FlattenSeq(q) \in Seq(Nat)
    BY <1>4, FlattenType
  <2> QED BY <2>1, EndsBehind
<1>8. Ends(B!FlattenSeq(q), B!FlattenSeq(cs))
  BY <1>5, <1>6, <1>7, Zenon
<1>9. B!Rolled(cs) = q
  BY <1>1, Zenon DEF q
<1>10. B!Rolled(cs) \in Seq(Seq(Nat))
  BY <1>4, <1>9
<1>11. Ends(B!FlattenSeq(B!Rolled(cs)), B!FlattenSeq(cs))
  BY <1>8, <1>9, Zenon
<1>12. Len(B!FlattenSeq(cs)) <= DEFAULT_MAX_BYTES * 2 => B!Rolled(cs) = cs
  <2>1. k = 1 => SubSeq(cs, k, n) = cs
    BY <1>3, Zenon
  <2> QED BY <1>1, <2>1, Zenon
<1> QED BY <1>10, <1>11, <1>12

(***************************************************************************)
(* truncateTail.                                                           *)
(***************************************************************************)
\* Where a line of the end of a text begins, one of the text does.
LEMMA RestLines ==
  ASSUME NEW t \in Seq(Nat), NEW k \in 1..(Len(t) + 1),
         NEW p \in B!LineStarts(SubSeq(t, k, Len(t)))
  PROVE  /\ p \in 1..(Len(t) - k + 2)
         /\ p = 1 \/ k + p - 1 \in B!LineStarts(t)
<1> DEFINE r == SubSeq(t, k, Len(t))
<1>1. Len(r) = Len(t) - k + 1 /\ Len(t) \in Nat
      /\ \A i \in 1..(Len(t) - k + 1) : r[i] = t[k + i - 1]
  BY Rest
<1> HIDE DEF r
<1>2. p \in 1..(Len(r) + 1) /\ (p = 1 \/ r[p - 1] \in newlines)
  BY Zenon DEF B!LineStarts, r
<1>3. p \in 1..(Len(t) - k + 2)
  BY <1>1, <1>2
<1>4. p # 1 => k + p - 1 \in B!LineStarts(t)
  <2> SUFFICES ASSUME p # 1 PROVE k + p - 1 \in B!LineStarts(t)
    OBVIOUS
  <2>1. p - 1 \in 1..(Len(t) - k + 1) /\ k + (p - 1) - 1 = (k + p - 1) - 1
        /\ k + p - 1 \in 1..(Len(t) + 1)
    BY <1>1, <1>3
  <2>2. t[(k + p - 1) - 1] \in newlines
    BY <1>1, <1>2, <2>1
  <2> QED BY <2>1, <2>2 DEF B!LineStarts
<1> QED BY <1>3, <1>4

LEMMA LinesFinite ==
  ASSUME NEW t \in Seq(Nat)
  PROVE  /\ B!LineStarts(t) \in SUBSET 1..(Len(t) + 1) /\ IsFiniteSet(B!LineStarts(t))
         /\ 1 \in B!LineStarts(t)
<1>1. Len(t) \in Nat
  OBVIOUS
<1>2. B!LineStarts(t) \in SUBSET 1..(Len(t) + 1) /\ 1 \in B!LineStarts(t)
  BY <1>1 DEF B!LineStarts
<1>3. IsFiniteSet(1..(Len(t) + 1))
  BY <1>1, FS_Interval
<1> QED BY <1>2, <1>3, FS_Subset

\* The end that begins with a whole line has as many lines as begin there or later.
LEMMA RestCounts ==
  ASSUME NEW t \in Seq(Nat), NEW k \in B!LineStarts(t)
  PROVE  B!Cardinality(B!LineStarts(SubSeq(t, k, Len(t))))
           <= B!Cardinality({ q \in B!LineStarts(t) : q >= k })
<1> DEFINE S == B!LineStarts(SubSeq(t, k, Len(t)))
           T == { q \in B!LineStarts(t) : q >= k }
           f == [p \in S |-> k + p - 1]
<1>1. k \in 1..(Len(t) + 1) /\ Len(t) \in Nat
  BY LinesFinite
<1>2. \A p \in S : p \in Nat /\ p >= 1 /\ k + p - 1 \in T
  <2> SUFFICES ASSUME NEW p \in S PROVE p \in Nat /\ p >= 1 /\ k + p - 1 \in T
    OBVIOUS
  <2>1. p \in 1..(Len(t) - k + 2) /\ (p = 1 \/ k + p - 1 \in B!LineStarts(t))
    BY <1>1, RestLines
  <2>2. k + p - 1 >= k /\ (p = 1 => k + p - 1 = k) /\ p \in Nat /\ p >= 1
    BY <1>1, <2>1
  <2> QED BY <2>1, <2>2
<1>3. IsFiniteSet(T)
  BY LinesFinite, FS_Subset
<1> HIDE DEF S, T
<1>4. f \in Injection(S, T)
  <2>1. f \in [S -> T]
    BY <1>2
  <2>2. \A a, b \in S : f[a] = f[b] => a = b
    BY <1>1, <1>2
  <2> HIDE DEF f
  <2>3. DOMAIN f = S
    BY <2>1
  <2>4. IsInjective(f)
    BY <2>2, <2>3 DEF IsInjective
  <2> QED BY <2>1, <2>4 DEF Injection
<1> HIDE DEF f
<1>5. Cardinality(S) <= Cardinality(T)
  BY <1>3, <1>4, FS_Injection
<1>6. B!Cardinality(S) = Cardinality(S) /\ B!Cardinality(T) = Cardinality(T)
  BY Card
<1> QED BY <1>5, <1>6 DEF S, T

\* The line that begins last.
LEMMA LastLine ==
  ASSUME NEW t \in Seq(Nat)
  PROVE  \E k \in B!LineStarts(t) : \A q \in B!LineStarts(t) : q <= k
<1> DEFINE m == Len(t) + 1
           S == B!LineStarts(t)
           N == { m - q : q \in S }
<1>1. m \in Nat /\ S \in SUBSET 1..m /\ 1 \in S
  BY LinesFinite
<1> HIDE DEF m, S
<1>2. N \in SUBSET Nat /\ N # {}
  BY <1>1
<1> HIDE DEF N
<1>3. PICK x \in N : \A y \in N : x <= y
  BY <1>2, LeastExists
<1>4. PICK k \in S : x = m - k
  BY DEF N
<1>5. ASSUME NEW q \in S PROVE q <= k
  <2>1. m - k <= m - q
    BY <1>3, <1>4 DEF N
  <2> QED BY <1>1, <2>1
<1> QED BY <1>5 DEF S

LEMMA TailShown ==
  ASSUME ToolsAssumption, NEW t \in Seq(Nat)
  PROVE  /\ Ends(B!TruncateTail(t), t)
         /\ Len(B!TruncateTail(t)) <= DEFAULT_MAX_BYTES
         /\ B!Cardinality(B!LineStarts(B!TruncateTail(t))) <= DEFAULT_MAX_LINES
<1> DEFINE n == Len(t)
           F == B!Fitting(t)
           least == CHOOSE p \in F : \A q \in F : p <= q
           first == IF F = {} THEN n - DEFAULT_MAX_BYTES + 1 ELSE least
           r == SubSeq(t, first, n)
<1>1. B!TruncateTail(t) = r
  BY Zenon DEF B!TruncateTail
<1>2. n \in Nat /\ DEFAULT_MAX_BYTES \in Nat /\ DEFAULT_MAX_LINES \in Nat /\ DEFAULT_MAX_LINES >= 1
  BY DEF ToolsAssumption
<1>3. \A p : p \in F <=> /\ p \in B!LineStarts(t)
                         /\ n - p + 1 <= DEFAULT_MAX_BYTES
                         /\ B!Cardinality({ q \in B!LineStarts(t) : q >= p }) <= DEFAULT_MAX_LINES
  BY Zenon DEF B!Fitting
<1> HIDE DEF F
<1>4. CASE F # {}
  <2>1. first = least /\ first \in F
    <3>1. F \in SUBSET Nat
      <4>1. ASSUME NEW p \in F PROVE p \in Nat
        <5>1. p \in B!LineStarts(t)
          BY <1>3
        <5>2. p \in 1..(Len(t) + 1)
          BY <5>1, LinesFinite
        <5> QED BY <5>2
      <4> QED BY <4>1
    <3>2. \E p \in F : \A q \in F : p <= q
      BY <1>4, <3>1, LeastExists
    <3>3. least \in F
      BY <3>2
    <3> HIDE DEF least
    <3> QED BY <1>4, <3>3
  <2> HIDE DEF first
  <2>2. /\ first \in B!LineStarts(t) /\ n - first + 1 <= DEFAULT_MAX_BYTES
        /\ B!Cardinality({ q \in B!LineStarts(t) : q >= first }) <= DEFAULT_MAX_LINES
    BY <1>3, <2>1
  <2>3. first \in 1..(Len(t) + 1)
    BY <2>2, LinesFinite
  <2>4. Ends(r, t) /\ Len(r) = n - first + 1
    BY <2>3, Rest
  <2>5. B!Cardinality(B!LineStarts(r)) <= B!Cardinality({ q \in B!LineStarts(t) : q >= first })
    BY <2>2, RestCounts
  <2>6. B!Cardinality(B!LineStarts(r)) \in Nat
        /\ B!Cardinality({ q \in B!LineStarts(t) : q >= first }) \in Nat
    <3> DEFINE T == { q \in B!LineStarts(t) : q >= first }
               S == B!LineStarts(r)
    <3>1. IsFiniteSet(T)
      BY LinesFinite, FS_Subset
    <3>2. IsFiniteSet(S)
      <4>1. r \in Seq(Nat)
        BY <2>4 DEF Ends
      <4> HIDE DEF r
      <4> QED BY <4>1, LinesFinite
    <3> HIDE DEF T, S
    <3>3. B!Cardinality(S) \in Nat /\ B!Cardinality(T) \in Nat
      BY <3>1, <3>2, Card, FS_CardinalityType
    <3> QED BY <3>3 DEF T, S
  <2>7. B!Cardinality(B!LineStarts(r)) <= DEFAULT_MAX_LINES
    <3> DEFINE a == B!Cardinality(B!LineStarts(r))
               b == B!Cardinality({ q \in B!LineStarts(t) : q >= first })
    <3>1. a <= b /\ b <= DEFAULT_MAX_LINES /\ a \in Nat /\ b \in Nat
      BY <2>2, <2>5, <2>6
    <3> HIDE DEF a, b
    <3>2. a <= DEFAULT_MAX_LINES
      BY <1>2, <3>1
    <3> QED BY <3>2 DEF a
  <2>8. Len(r) <= DEFAULT_MAX_BYTES
    BY <2>2, <2>4
  <2> QED BY <1>1, <2>4, <2>7, <2>8
<1>5. CASE F = {}
  <2>1. PICK k \in B!LineStarts(t) : \A q \in B!LineStarts(t) : q <= k
    BY LastLine
  <2>2. k \in 1..(n + 1) /\ B!LineStarts(t) \in SUBSET Nat
    BY LinesFinite
  <2>3. { q \in B!LineStarts(t) : q >= k } = {k}
    BY <2>1, <2>2
  <2>4. B!Cardinality({k}) = 1
    BY Card, FS_Singleton
  <2>5. ~(n - k + 1 <= DEFAULT_MAX_BYTES)
    BY <1>2, <1>3, <1>5, <2>3, <2>4
  <2>6. first = n - DEFAULT_MAX_BYTES + 1
    BY <1>5
  <2> HIDE DEF first
  <2>7. first \in 1..(Len(t) + 1) /\ first > k /\ n - first + 1 = DEFAULT_MAX_BYTES
    BY <1>2, <2>2, <2>5, <2>6
  <2>8. Ends(r, t) /\ Len(r) = n - first + 1
    BY <2>7, Rest
  <2>9. B!LineStarts(r) = {1}
    <3>1. ASSUME NEW p \in B!LineStarts(r) PROVE p = 1
      <4>1. p \in 1..(Len(t) - first + 2) /\ (p = 1 \/ first + p - 1 \in B!LineStarts(t))
        BY <2>7, RestLines
      <4>2. p # 1 => ~(first + p - 1 <= k)
        BY <1>2, <2>2, <2>7, <4>1
      <4> QED BY <2>1, <4>1, <4>2
    <3>2. 1 \in B!LineStarts(r)
      <4>1. r \in Seq(Nat)
        BY <2>8 DEF Ends
      <4> HIDE DEF r
      <4> QED BY <4>1, LinesFinite
    <3> QED BY <3>1, <3>2
  <2>10. B!Cardinality({1}) = 1
    BY Card, FS_Singleton
  <2>11. B!Cardinality(B!LineStarts(r)) <= DEFAULT_MAX_LINES
    BY <1>2, <2>9, <2>10
  <2>12. Len(r) <= DEFAULT_MAX_BYTES
    BY <1>2, <2>7, <2>8
  <2> QED BY <1>1, <2>8, <2>11, <2>12
<1> QED BY <1>4, <1>5

(***************************************************************************)
(* A command's output.                                                     *)
(***************************************************************************)
Arrived == B!Text([ k \in 1..read |-> k ])

\* What is read was written, and a byte that is taken out has been written.
ReadInv == /\ read \in Nat /\ written \in Nat /\ read <= written
           /\ controls \subseteq 1..written
           /\ total = read
           /\ chunks \in Seq(Seq(Nat))

\* All that has arrived is in the file or in the buffer, which ends as it does.
BufferInv == /\ (IF toFile THEN tempFile = Arrived
                 ELSE B!Buffered = Arrived /\ total <= DEFAULT_MAX_BYTES)
             /\ Ends(B!Buffered, Arrived)

ShownInv ==
  B!Settled =>
    /\ Ends(result.shown, Arrived)
    /\ by = "user" \/ result.how = "exited" =>
         /\ Len(result.shown) <= DEFAULT_MAX_BYTES
         /\ B!Cardinality(B!LineStarts(result.shown)) <= DEFAULT_MAX_LINES

OutputInv == ReadInv /\ BufferInv /\ ShownInv

LEMMA OutputInvKeeps == OutputInv => OutputKept
<1> SUFFICES ASSUME OutputInv PROVE OutputKept
  OBVIOUS
<1>1. (IF toFile THEN tempFile ELSE B!Buffered) = Arrived
  BY Zenon DEF OutputInv, BufferInv
<1>2. B!IsSuffix(B!Buffered, Arrived)
  BY EndsSuffix DEF OutputInv, BufferInv
<1>3. B!Settled => B!IsSuffix(result.shown, Arrived)
  BY EndsSuffix DEF OutputInv, ShownInv
<1>4. B!Settled =>
        (by = "user" \/ result.how = "exited" =>
           /\ Len(result.shown) <= DEFAULT_MAX_BYTES
           /\ B!Cardinality(B!LineStarts(result.shown)) <= DEFAULT_MAX_LINES)
  BY Zenon DEF OutputInv, ShownInv
<1> QED BY <1>1, <1>2, <1>3, <1>4, Zenon DEF OutputKept, B!OutputKept, Arrived

LEMMA FirstBytes == ASSUME NEW n \in Nat PROVE [k \in 1..n |-> k] \in Seq(Nat)
  OBVIOUS

LEMMA InitOutput == ASSUME ToolsAssumption, B!Init PROVE OutputInv
<1>1. /\ read = 0 /\ written = 0 /\ controls = {} /\ total = 0 /\ chunks = <<>>
      /\ toFile = FALSE /\ result = B!Pending
  BY DEF B!Init
<1>2. ReadInv
  BY <1>1 DEF ReadInv
<1>3. Arrived = <<>>
  <2>1. [k \in 1..0 |-> k] = <<>>
    OBVIOUS
  <2> QED BY <1>1, <2>1, TextNone DEF Arrived
<1>4. B!Buffered = <<>>
  BY <1>1, FlattenNone DEF B!Buffered
<1>5. BufferInv
  <2>1. Ends(<<>>, <<>>)
    BY EmptySeq, EndsSelf
  <2> QED BY <1>1, <1>3, <1>4, <2>1 DEF BufferInv, ToolsAssumption
<1>6. ShownInv
  BY <1>1, Zenon DEF ShownInv, B!Settled
<1> QED BY <1>2, <1>5, <1>6 DEF OutputInv

\* What has arrived does not change with what is written later.
LEMMA SameText ==
  ASSUME ReadInv, by' = by, read' = read,
         \A k \in 1..read : k \in controls' <=> k \in controls
  PROVE  Arrived' = Arrived
<1> DEFINE d == [k \in 1..read |-> k]
<1>1. DOMAIN d = 1..read /\ \A k \in 1..read : d[k] = k
  OBVIOUS
<1>2. [k \in 1..read' |-> k] = d
  BY Zenon
<1> HIDE DEF d
<1>3. [ k \in DOMAIN d |-> IF d[k] \in controls' THEN <<>> ELSE << d[k] >> ]
      = [ k \in DOMAIN d |-> IF d[k] \in controls THEN <<>> ELSE << d[k] >> ]
  BY <1>1
<1>4. Arrived = IF by = "tool" THEN d
                ELSE B!FlattenSeq(
                       [ k \in DOMAIN d |-> IF d[k] \in controls THEN <<>> ELSE << d[k] >> ])
  BY Zenon DEF Arrived, B!Text, d
<1>5. Arrived' = IF by' = "tool" THEN d
                 ELSE B!FlattenSeq(
                        [ k \in DOMAIN d |-> IF d[k] \in controls' THEN <<>> ELSE << d[k] >> ])
  <2>1. Arrived' = IF by' = "tool" THEN [k \in 1..read' |-> k]
                   ELSE B!FlattenSeq([ k \in DOMAIN [j \in 1..read' |-> j] |->
                          IF [j \in 1..read' |-> j][k] \in controls' THEN <<>>
                          ELSE << [j \in 1..read' |-> j][k] >> ])
    BY Zenon DEF Arrived, B!Text
  <2> QED BY <1>2, <2>1, Zenon
<1> QED BY <1>3, <1>4, <1>5, Zenon

\* Nothing arrives, and the answer stays.
LEMMA OutputStays ==
  ASSUME OutputInv,
         UNCHANGED <<by, read, written, controls, newlines, total, chunks, toFile, tempFile,
                     result>>
  PROVE  OutputInv'
<1>1. Arrived' = Arrived
  <2>1. ReadInv /\ by' = by /\ read' = read /\ controls' = controls
    BY DEF OutputInv
  <2> QED BY <2>1, SameText
<1>2. B!Buffered' = B!Buffered
  BY Zenon DEF B!Buffered
<1>3. B!Settled' <=> B!Settled
  BY DEF B!Settled
<1>4. B!LineStarts(result.shown)' = B!LineStarts(result.shown)
  BY Zenon DEF B!LineStarts
<1>5. ReadInv'
  BY DEF OutputInv, ReadInv
<1>6. BufferInv'
  <2>1. Ends(B!Buffered, Arrived)
    BY DEF OutputInv, BufferInv
  <2>2. Ends(B!Buffered, Arrived)'
    BY <1>1, <1>2, <2>1 DEF Ends
  <2> QED BY <1>1, <1>2, <2>2 DEF OutputInv, BufferInv
<1>7. ShownInv'
  <2> SUFFICES ASSUME B!Settled
               PROVE  /\ Ends(result.shown, Arrived)'
                      /\ (by = "user" \/ result.how = "exited" =>
                           /\ Len(result.shown) <= DEFAULT_MAX_BYTES
                           /\ B!Cardinality(B!LineStarts(result.shown)) <= DEFAULT_MAX_LINES)'
    BY <1>3 DEF ShownInv
  <2>1. Ends(result.shown, Arrived)
    BY DEF OutputInv, ShownInv
  <2>2. Ends(result.shown, Arrived)'
    BY <1>1, <2>1 DEF Ends
  <2> QED BY <1>4, <2>2 DEF OutputInv, ShownInv
<1> QED BY <1>5, <1>6, <1>7 DEF OutputInv

LEMMA WriteStep ==
  ASSUME OutputInv, NEW kind \in {"text", "newline", "control"}, B!Write(kind)
  PROVE  OutputInv'
<1>1. /\ ~B!Settled /\ written' = written + 1
      /\ controls' = IF kind = "control" THEN controls \cup {written + 1} ELSE controls
      /\ UNCHANGED <<by, read, total, chunks, toFile, tempFile, result>>
  BY DEF B!Write
<1>2. /\ read \in Nat /\ written \in Nat /\ read <= written /\ controls \subseteq 1..written
      /\ ReadInv
  BY DEF OutputInv, ReadInv
<1>3. Arrived' = Arrived
  <2>1. \A k \in 1..read : k # written + 1
    BY <1>2
  <2>2. \A k \in 1..read : k \in controls' <=> k \in controls
    BY <1>1, <2>1
  <2> QED BY <1>1, <1>2, <2>2, SameText
<1>4. B!Buffered' = B!Buffered
  BY <1>1, Zenon DEF B!Buffered
<1>5. ReadInv'
  <2>1. read' <= written' /\ written' \in Nat
    BY <1>1, <1>2
  <2>2. controls' \subseteq 1..written'
    BY <1>1, <1>2
  <2> QED BY <1>1, <1>2, <2>1, <2>2 DEF ReadInv
<1>6. BufferInv'
  <2>1. Ends(B!Buffered, Arrived)
    BY DEF OutputInv, BufferInv
  <2>2. Ends(B!Buffered, Arrived)'
    BY <1>3, <1>4, <2>1 DEF Ends
  <2> QED BY <1>1, <1>3, <1>4, <2>2 DEF OutputInv, BufferInv
<1>7. ShownInv'
  BY <1>1, Zenon DEF ShownInv, B!Settled
<1> QED BY <1>5, <1>6, <1>7 DEF OutputInv

LEMMA SettleStep == ASSUME ToolsAssumption, OutputInv, B!Settle PROVE OutputInv'
<1> DEFINE shown == B!Shown
           how == B!How
<1>1. /\ result' = [settled |-> TRUE, how |-> how, shown |-> shown, whole |-> ended]
      /\ UNCHANGED <<by, read, written, controls, newlines, total, chunks, toFile, tempFile>>
  BY Zenon DEF B!Settle, B!processVars
<1>2. Arrived' = Arrived
  <2>1. ReadInv /\ by' = by /\ read' = read /\ controls' = controls
    BY <1>1 DEF OutputInv
  <2> QED BY <2>1, SameText
<1>3. B!Buffered' = B!Buffered
  BY <1>1, Zenon DEF B!Buffered
<1>4. ReadInv'
  BY <1>1 DEF OutputInv, ReadInv
<1>5. Ends(B!Buffered, Arrived) /\ B!Buffered \in Seq(Nat)
  BY DEF OutputInv, BufferInv, Ends
<1>6. BufferInv'
  <2>1. Ends(B!Buffered, Arrived)'
    BY <1>2, <1>3, <1>5 DEF Ends
  <2> QED BY <1>1, <1>2, <1>3, <2>1 DEF OutputInv, BufferInv
<1>7. shown = IF by = "tool" /\ how # "exited" THEN B!Buffered ELSE B!TruncateTail(B!Buffered)
  BY Zenon DEF B!Shown
<1> HIDE DEF shown, how
<1>8. result'.shown = shown /\ result'.how = how
  BY <1>1
<1>9. Ends(shown, Arrived)
  <2>1. CASE by = "tool" /\ how # "exited"
    BY <1>5, <1>7, <2>1
  <2>2. CASE ~(by = "tool" /\ how # "exited")
    <3>1. Ends(B!TruncateTail(B!Buffered), B!Buffered)
      BY <1>5, TailShown
    <3> QED BY <1>5, <1>7, <2>2, <3>1, EndsOn
  <2> QED BY <2>1, <2>2
<1>10. ASSUME by = "user" \/ how = "exited"
       PROVE  /\ Len(shown) <= DEFAULT_MAX_BYTES
              /\ B!Cardinality(B!LineStarts(shown)) <= DEFAULT_MAX_LINES
  <2>1. shown = B!TruncateTail(B!Buffered)
    BY <1>7, <1>10
  <2> QED BY <1>5, <2>1, TailShown
<1>11. ShownInv'
  <2>1. Ends(result.shown, Arrived)'
    BY <1>2, <1>8, <1>9 DEF Ends
  <2>2. B!LineStarts(result.shown)' = B!LineStarts(shown)
    BY <1>1, <1>8, Zenon DEF B!LineStarts
  <2>3. (by = "user" \/ result.how = "exited" =>
           /\ Len(result.shown) <= DEFAULT_MAX_BYTES
           /\ B!Cardinality(B!LineStarts(result.shown)) <= DEFAULT_MAX_LINES)'
    <3>1. by' = by
      BY <1>1
    <3> QED BY <1>8, <1>10, <2>2, <3>1, Zenon
  <2> QED BY <2>1, <2>3, Zenon DEF ShownInv
<1> QED BY <1>4, <1>6, <1>11 DEF OutputInv

\* What arrives next follows what has arrived.
LEMMA ArrivesBehind ==
  ASSUME ReadInv, NEW n \in Nat, by' = by, controls' = controls, read' = read + n
  PROVE  Arrived' = Arrived \o B!Text([k \in 1..n |-> read + k])
<1> DEFINE d == [k \in 1..read |-> k]
           e == [k \in 1..n |-> read + k]
           f == [k \in 1..(read + n) |-> k]
<1>1. read \in Nat
  BY DEF ReadInv
<1>2. d \in Seq(Nat) /\ Len(d) = read /\ \A k \in 1..read : d[k] = k
  BY <1>1
<1>3. e \in Seq(Nat) /\ Len(e) = n /\ \A k \in 1..n : e[k] = read + k
  BY <1>1
<1>4. f \in Seq(Nat) /\ Len(f) = read + n /\ \A k \in 1..(read + n) : f[k] = k
  BY <1>1
<1>5. Arrived' = B!Text(f)
  BY Zenon DEF Arrived, B!Text
<1>6. Arrived = B!Text(d)
  BY Zenon DEF Arrived
<1> HIDE DEF d, e, f
<1>7. d \o e = f
  <2> DEFINE p == d \o e
  <2>1. /\ p \in Seq(Nat) /\ Len(p) = Len(d) + Len(e)
        /\ \A i \in Nat : /\ 1 <= i /\ i <= Len(d) => p[i] = d[i]
                          /\ 1 <= i /\ i <= Len(e) => p[Len(d) + i] = e[i]
    BY <1>2, <1>3, ConcatIs
  <2> HIDE DEF p
  <2>2. Len(p) = Len(f)
    BY <1>2, <1>3, <1>4, <2>1
  <2>3. ASSUME NEW i \in 1..Len(p) PROVE p[i] = f[i]
    <3>1. i \in Nat /\ 1 <= i /\ i <= read + n /\ f[i] = i
      BY <1>1, <1>4, <2>2
    <3>2. CASE i <= read
      BY <1>2, <2>1, <3>1, <3>2
    <3>3. CASE ~(i <= read)
      <4>1. i - read \in Nat /\ 1 <= i - read /\ i - read <= n /\ read + (i - read) = i
        BY <1>1, <3>1, <3>3
      <4>2. p[read + (i - read)] = e[i - read] /\ e[i - read] = read + (i - read)
        BY <1>2, <1>3, <2>1, <4>1
      <4> QED BY <3>1, <4>1, <4>2
    <3> QED BY <3>2, <3>3
  <2>4. p = f
    BY <1>4, <2>1, <2>2, <2>3, SeqEqual
  <2> QED BY <2>4 DEF p
<1>8. B!Text(d \o e) = B!Text(d) \o B!Text(e)
  BY <1>2, <1>3, TextConcat
<1>9. Arrived' = Arrived \o B!Text(e)
  BY <1>5, <1>6, <1>7, <1>8, Zenon
<1> QED BY <1>9, Zenon DEF e

LEMMA DataStep ==
  ASSUME ToolsAssumption, OutputInv, NEW n \in 1..MaxPiece, B!Data(n)
  PROVE  OutputInv'
<1> DEFINE data == [ k \in 1..n |-> read + k ]
           text == B!Text(data)
           begins == total + n > DEFAULT_MAX_BYTES /\ ~toFile
           cs == Append(chunks, text)
           into == IF begins THEN B!Buffered ELSE tempFile
<1>1. /\ ~B!Settled /\ n <= written - read
      /\ total' = total + n /\ read' = read + n
      /\ toFile' = (toFile \/ begins)
      /\ tempFile' = IF toFile' THEN into \o text ELSE tempFile
      /\ chunks' = B!Rolled(cs)
      /\ UNCHANGED <<by, written, controls, newlines, result>>
  BY Zenon DEF B!Data, B!BeginsWith, B!processVars
<1>2. /\ ReadInv /\ BufferInv /\ read \in Nat /\ written \in Nat /\ read <= written /\ total = read
      /\ controls \subseteq 1..written /\ chunks \in Seq(Seq(Nat))
  BY DEF OutputInv, ReadInv
<1>3. n \in Nat /\ n >= 1
  BY DEF ToolsAssumption
<1>4. data \in Seq(Nat) /\ Len(data) = n
  BY <1>2, <1>3
<1> HIDE DEF data
<1>5. text \in Seq(Nat)
  BY <1>4, TextType
<1>6. Arrived' = Arrived \o text
  <2>1. by' = by /\ controls' = controls /\ read' = read + n
    BY <1>1
  <2>2. Arrived' = Arrived \o B!Text([k \in 1..n |-> read + k])
    BY <1>2, <1>3, <2>1, ArrivesBehind
  <2> QED BY <2>2, Zenon DEF data
<1> HIDE DEF text, begins, into
<1>7. /\ cs \in Seq(Seq(Nat)) /\ cs # <<>>
      /\ B!FlattenSeq(cs) = B!Buffered \o text
  <2>1. cs \in Seq(Seq(Nat)) /\ cs # <<>>
    <3> DEFINE V == Seq(Nat)
    <3>1. chunks \in Seq(V) /\ text \in V
      BY <1>2, <1>5
    <3> HIDE DEF V
    <3>2. Append(chunks, text) \in Seq(V) /\ Append(chunks, text) # <<>>
      BY <3>1, AppendProperties
    <3> QED BY <3>2 DEF V
  <2>2. B!FlattenSeq(cs) = B!FlattenSeq(chunks) \o text
    BY <1>2, <1>5, FlattenAppend
  <2>3. B!Buffered = B!FlattenSeq(chunks)
    BY Zenon DEF B!Buffered
  <2> QED BY <2>1, <2>2, <2>3, Zenon
<1> HIDE DEF cs
<1>8. /\ chunks' \in Seq(Seq(Nat))
      /\ Ends(B!FlattenSeq(chunks'), B!FlattenSeq(cs))
      /\ Len(B!FlattenSeq(cs)) <= DEFAULT_MAX_BYTES * 2 => chunks' = cs
  <2>1. /\ B!Rolled(cs) \in Seq(Seq(Nat))
        /\ Ends(B!FlattenSeq(B!Rolled(cs)), B!FlattenSeq(cs))
        /\ Len(B!FlattenSeq(cs)) <= DEFAULT_MAX_BYTES * 2 => B!Rolled(cs) = cs
    BY <1>7, RolledEnds
  <2> DEFINE rolled == B!Rolled(cs)
  <2> HIDE DEF rolled
  <2>2. /\ rolled \in Seq(Seq(Nat))
        /\ Ends(B!FlattenSeq(rolled), B!FlattenSeq(cs))
        /\ Len(B!FlattenSeq(cs)) <= DEFAULT_MAX_BYTES * 2 => rolled = cs
    BY <2>1, Zenon DEF rolled
  <2>3. chunks' = rolled
    BY <1>1, Zenon DEF rolled
  <2> QED BY <2>2, <2>3, Zenon
<1>9. B!Buffered' = B!FlattenSeq(chunks')
  BY Zenon DEF B!Buffered
<1>10. Ends(B!Buffered, Arrived)
  BY <1>2 DEF BufferInv
<1>11. Ends(B!Buffered, Arrived)'
  <2>1. Ends(B!Buffered \o text, Arrived \o text)
    BY <1>5, <1>10, EndsMore
  <2>2. Ends(B!FlattenSeq(cs), Arrived')
    BY <1>6, <1>7, <2>1, Zenon
  <2>3. Ends(B!FlattenSeq(chunks'), Arrived')
    BY <1>8, <2>2, EndsOn
  <2>4. Ends(B!Buffered', Arrived')
    BY <1>9, <2>3, Zenon
  <2> QED BY <2>4, Zenon DEF Ends
<1>12. ReadInv'
  <2>1. /\ read' \in Nat /\ written' \in Nat /\ read' <= written' /\ total' = read'
        /\ controls' \subseteq 1..written'
    BY <1>1, <1>2, <1>3
  <2> QED BY <1>8, <2>1 DEF ReadInv
<1>13. ASSUME toFile' PROVE BufferInv'
  <2>1. into = Arrived
    <3>1. CASE begins
      BY <1>2, <3>1 DEF BufferInv, begins, into
    <3>2. CASE ~begins
      BY <1>1, <1>2, <1>13, <3>2 DEF BufferInv, into
    <3> QED BY <3>1, <3>2
  <2>2. tempFile' = Arrived'
    <3>1. tempFile' = into \o text
      BY <1>1, <1>13
    <3> QED BY <1>6, <2>1, <3>1, Zenon
  <2>3. (IF toFile THEN tempFile = Arrived
         ELSE B!Buffered = Arrived /\ total <= DEFAULT_MAX_BYTES)'
    BY <1>13, <2>2, Zenon
  <2> QED BY <1>11, <2>3, Zenon DEF BufferInv
<1>14. ASSUME ~toFile' PROVE BufferInv'
  <2>1. ~toFile /\ ~begins
    BY <1>1, <1>14
  <2>2. B!Buffered = Arrived
    BY <1>2, <2>1 DEF BufferInv
  <2>3. total' <= DEFAULT_MAX_BYTES /\ read + n <= DEFAULT_MAX_BYTES
    BY <1>1, <1>2, <1>3, <2>1 DEF begins, ToolsAssumption
  <2>4. B!FlattenSeq(cs) = Arrived'
    BY <1>6, <1>7, <2>2, Zenon
  <2>5. Len(Arrived') <= read + n
    <3> DEFINE f == [k \in 1..(read + n) |-> k]
    <3>1. f \in Seq(Nat) /\ Len(f) = read + n
      BY <1>2, <1>3
    <3>2. Arrived' = B!Text(f)
      BY <1>1, Zenon DEF Arrived, B!Text
    <3> HIDE DEF f
    <3>3. Len(B!Text(f)) <= Len(f)
      BY <3>1, TextShort
    <3> QED BY <3>1, <3>2, <3>3
  <2>6. Len(B!FlattenSeq(cs)) <= DEFAULT_MAX_BYTES * 2
    <3> DEFINE a == Len(B!FlattenSeq(cs))
    <3>1. B!FlattenSeq(cs) \in Seq(Nat)
      BY <1>7, FlattenType
    <3>2. a \in Nat /\ a <= read + n
      BY <2>4, <2>5, <3>1
    <3> HIDE DEF a
    <3>3. a <= DEFAULT_MAX_BYTES * 2
      BY <1>2, <1>3, <2>3, <3>2 DEF ToolsAssumption
    <3> QED BY <3>3 DEF a
  <2>7. B!Buffered' = Arrived'
    BY <1>8, <1>9, <2>4, <2>6, Zenon
  <2>8. (IF toFile THEN tempFile = Arrived
         ELSE B!Buffered = Arrived /\ total <= DEFAULT_MAX_BYTES)'
    BY <1>14, <2>3, <2>7, Zenon
  <2> QED BY <1>11, <2>8, Zenon DEF BufferInv
<1>15. ShownInv'
  BY <1>1, Zenon DEF ShownInv, B!Settled
<1> QED BY <1>12, <1>13, <1>14, <1>15 DEF OutputInv

\* Every other step leaves what has arrived as it is.
LEMMA StepOutput == ToolsAssumption /\ OutputInv /\ [NextTools]_allVars => OutputInv'
<1> SUFFICES ASSUME ToolsAssumption, OutputInv, [NextTools]_allVars PROVE OutputInv'
  OBVIOUS
<1>1. CASE B!Next
  <2>1. ASSUME NEW kind \in {"text", "newline", "control"}, B!Write(kind) PROVE OutputInv'
    BY <2>1, WriteStep
  <2>2. ASSUME NEW n \in 1..MaxPiece, B!Data(n) PROVE OutputInv'
    BY <2>2, DataStep
  <2>3. CASE B!Exit
    BY <2>3, OutputStays DEF B!Exit
  <2>4. CASE B!LetGo
    BY <2>4, OutputStays DEF B!LetGo
  <2>5. CASE B!Abort
    BY <2>5, OutputStays DEF B!Abort
  <2>6. CASE B!Timeout
    BY <2>6, OutputStays DEF B!Timeout
  <2>7. CASE B!PipeEnds
    BY <2>7, OutputStays DEF B!PipeEnds
  <2>8. CASE B!Settle
    BY <2>8, SettleStep
  <2> QED BY <1>1, <2>1, <2>2, <2>3, <2>4, <2>5, <2>6, <2>7, <2>8, Zenon DEF B!Next
<1>2. CASE UNCHANGED commandVars
  BY <1>2, OutputStays DEF commandVars
<1> QED BY <1>1, <1>2, Zenon DEF NextTools, allVars

\* What a command writes is kept, and what is shown is the end of it within the limits.
THEOREM CommandOutputKept == SpecTools => []OutputKept
<1>1. InitTools => OutputInv
  BY ToolsAssumption, InitOutput DEF InitTools
<1>2. OutputInv /\ [NextTools]_allVars => OutputInv'
  BY ToolsAssumption, StepOutput
<1>3. OutputInv => OutputKept
  BY OutputInvKeeps
<1> QED BY <1>1, <1>2, <1>3, PTL DEF SpecTools
=============================================================================
