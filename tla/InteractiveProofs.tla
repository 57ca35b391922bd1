--------------------------- MODULE InteractiveProofs ---------------------------
(***************************************************************************)
(* Proofs about Interactive, as it stands in MCReplies, for any number of   *)
(* texts, flushes, retries and steps: that the escape key does what it      *)
(* should, and that no text is lost, or sent twice, or listed and not       *)
(* there, or held with nothing under way that would send it.                *)
(***************************************************************************)
EXTENDS RepliesInvariants, SequenceTheorems, FiniteSetTheorems, NaturalsInduction,
        WellFoundedInduction, TLAPS

(***************************************************************************)
(* Numbers.                                                                *)
(***************************************************************************)
\* A set of numbers that has an element has a least one.
LEMMA LeastExists ==
  ASSUME NEW N \in SUBSET Nat, N # {}
  PROVE  \E x \in N : \A y \in N : x <= y
<1> DEFINE B == OpToRel(<, Nat)
<1>1. PICK x \in N : \A y \in N : <<y, x>> \notin B
  <2>1. IsWellFoundedOn(B, Nat)
    BY NatLessThanWellFounded
  <2> HIDE DEF B
  <2> QED BY <2>1, WFMin
<1>2. \A y \in N : ~(y < x)
  BY <1>1 DEF OpToRel
<1> QED BY <1>2

\* Induction on what holds of some of the numbers, as a set.
LEMMA Steps ==
  ASSUME NEW m \in Nat, NEW N, 0 \in N, \A n \in 1..m : n - 1 \in N => n \in N
  PROVE  \A n \in 0..m : n \in N
<1> DEFINE Rest == { n \in 0..m : n \notin N }
<1> SUFFICES ASSUME Rest # {} PROVE FALSE
  OBVIOUS
<1>1. PICK n \in Rest : \A k \in Rest : n <= k
  <2> Rest \in SUBSET Nat
    OBVIOUS
  <2> HIDE DEF Rest
  <2> QED BY LeastExists
<1>2. n \in 1..m /\ n - 1 \in 0..m /\ n - 1 \notin Rest
  BY <1>1
<1> QED BY <1>2

(***************************************************************************)
(* The escape key: handleEvent.                                            *)
(***************************************************************************)
USE DEF RunTypes, CompactionTypes, Handlers

LEMMA RunShown ==
  ASSUME NEW u \in Screens
  PROVE  /\ T!AgentStarted(u) \in Screens
         /\ IsMain(u) \/ InRetry(u) => IsMain(T!AgentStarted(u))
         /\ InCompaction(u) => InCompaction(T!AgentStarted(u))
         /\ T!AgentEnded(u) \in Screens /\ T!AgentEnded(u).loading = FALSE
         /\ IsMain(u) => IsMain(T!AgentEnded(u))
         /\ InRetry(u) => InRetry(T!AgentEnded(u))
         /\ InCompaction(u) => InCompaction(T!AgentEnded(u))
BY DEF Screens, IsMain, InRetry, InCompaction, T!AgentStarted, T!AgentEnded

LEMMA RetryShown ==
  ASSUME NEW u \in Screens
  PROVE  /\ T!RetryStarted(u) \in Screens /\ T!RetryStarted(u).loading = u.loading
         /\ IsMain(u) => InRetry(T!RetryStarted(u))
         /\ T!RetryEnded(u) \in Screens /\ T!RetryEnded(u).loading = u.loading
         /\ IsMain(u) \/ InRetry(u) => IsMain(T!RetryEnded(u))
         /\ InCompaction(u) => InCompaction(T!RetryEnded(u))
BY DEF Screens, IsMain, InRetry, InCompaction, T!RetryStarted, T!RetryEnded

LEMMA CompactionShown ==
  ASSUME NEW u \in Screens
  PROVE  /\ T!CompactionStarted(u) \in Screens /\ T!CompactionStarted(u).loading = u.loading
         /\ IsMain(u) => InCompaction(T!CompactionStarted(u))
         /\ T!CompactionEnded(u) \in Screens /\ T!CompactionEnded(u).loading = u.loading
         /\ IsMain(u) \/ InCompaction(u) => IsMain(T!CompactionEnded(u))
         /\ InRetry(u) => InRetry(T!CompactionEnded(u))
BY DEF Screens, IsMain, InRetry, InCompaction, T!CompactionStarted, T!CompactionEnded

\* Only one of the three is shown.
LEMMA OneScreen ==
  ASSUME NEW u
  PROVE  /\ IsMain(u) => ~InRetry(u) /\ ~InCompaction(u) /\ u.onEscape = "main"
         /\ InRetry(u) => ~InCompaction(u) /\ u.onEscape = "abortRetry"
         /\ InCompaction(u) => u.onEscape = "abortCompaction"
BY DEF IsMain, InRetry, InCompaction

(***************************************************************************)
(* Marks.                                                                  *)
(***************************************************************************)
\* Events that are emitted come last; they do not come to a session that is deaf.
LEMMA Emitting ==
  ASSUME EscapeTypes, NEW W, NEW some \in Seq(W), T!Emit(some)
  PROVE  /\ \E S : notices' \in Seq(S)
         /\ T!Connected =>
              /\ Len(notices) \in Nat /\ DOMAIN notices = 1..Len(notices)
              /\ DOMAIN notices' = 1..(Len(notices) + Len(some))
              /\ \A i \in 1..Len(notices) : notices'[i] = notices[i]
              /\ \A i \in 1..Len(some) : notices'[Len(notices) + i] = some[i]
         /\ ~T!Connected => notices' = notices
<1>1. PICK S : notices \in Seq(S)
  BY DEF EscapeTypes
<1>2. notices' = notices \o some \/ notices' = notices
  BY DEF T!Emit
<1> DEFINE U == S \union W
<1>3. notices \in Seq(U) /\ some \in Seq(U)
  BY <1>1, SeqMonotonic
<1> HIDE DEF U
<1>4. notices' \in Seq(U)
  <2>1. notices \o some \in Seq(U)
    BY <1>3, ConcatProperties
  <2> QED BY <1>2, <1>3, <2>1
<1>5. ASSUME T!Connected
      PROVE  /\ Len(notices) \in Nat /\ DOMAIN notices = 1..Len(notices)
             /\ DOMAIN notices' = 1..(Len(notices) + Len(some))
             /\ \A i \in 1..Len(notices) : notices'[i] = notices[i]
             /\ \A i \in 1..Len(some) : notices'[Len(notices) + i] = some[i]
  <2>1. notices' = notices \o some
    BY <1>5 DEF T!Emit
  <2>2. /\ Len(notices') = Len(notices) + Len(some)
        /\ \A i \in 1..(Len(notices) + Len(some)) :
             notices'[i] = IF i <= Len(notices) THEN notices[i] ELSE some[i - Len(notices)]
    BY <1>3, <2>1, ConcatProperties
  <2>3. Len(notices) \in Nat /\ Len(some) \in Nat
    BY <1>3
  <2>4. ASSUME NEW i \in 1..Len(notices) PROVE notices'[i] = notices[i]
    <3>1. i \in 1..(Len(notices) + Len(some)) /\ i <= Len(notices)
      BY <2>3
    <3> QED BY <2>2, <3>1
  <2>5. ASSUME NEW i \in 1..Len(some) PROVE notices'[Len(notices) + i] = some[i]
    <3>1. /\ Len(notices) + i \in 1..(Len(notices) + Len(some))
          /\ ~(Len(notices) + i <= Len(notices)) /\ Len(notices) + i - Len(notices) = i
      BY <2>3
    <3> QED BY <2>2, <3>1
  <2>6. DOMAIN notices = 1..Len(notices) /\ DOMAIN notices' = 1..Len(notices')
    BY <1>3, <1>4
  <2> QED BY <2>2, <2>3, <2>4, <2>5, <2>6
<1>6. ~T!Connected => notices' = notices
  BY DEF T!Emit
<1> QED BY <1>4, <1>5, <1>6

\* What was emitted without a mark changes no mark.
LEMMA Unmarked ==
  ASSUME EscapeTypes, NEW W, NEW some \in Seq(W), T!Emit(some),
         \A i \in 1..Len(some) : some[i].type \notin {"agent_start", "agent_end"}
  PROVE  Starts' = Starts /\ Ends' = Ends
<1>1. CASE ~T!Connected
  BY <1>1, Emitting DEF Starts, Ends
<1>2. CASE T!Connected
  <2>1. /\ Len(notices) \in Nat /\ DOMAIN notices = 1..Len(notices) /\ Len(some) \in Nat
        /\ DOMAIN notices' = 1..(Len(notices) + Len(some))
        /\ \A i \in 1..Len(notices) : notices'[i] = notices[i]
        /\ \A i \in 1..Len(some) : notices'[Len(notices) + i] = some[i]
    BY <1>2, Emitting
  <2>2. ASSUME NEW i \in (Len(notices) + 1)..(Len(notices) + Len(some))
        PROVE  notices'[i].type \notin {"agent_start", "agent_end"}
    <3>1. i - Len(notices) \in 1..Len(some) /\ i = Len(notices) + (i - Len(notices))
      BY <2>1
    <3>2. notices'[i] = some[i - Len(notices)]
      BY <2>1, <3>1
    <3> QED BY <3>1, <3>2
  <2>3. \A i \in 1..(Len(notices) + Len(some)) :
          i \in 1..Len(notices) \/ i \in (Len(notices) + 1)..(Len(notices) + Len(some))
    BY <2>1
  <2>4. \A i \in 1..Len(notices) : i \in 1..(Len(notices) + Len(some))
    BY <2>1
  <2> QED BY <2>1, <2>2, <2>3, <2>4 DEF Starts, Ends
<1> QED BY <1>1, <1>2

\* The first event is processed.
LEMMA Processing ==
  ASSUME EscapeTypes, notices # <<>>, notices' = Tail(notices)
  PROVE  /\ \E S : notices' \in Seq(S)
         /\ \A i \in Starts' : i \in Nat \ {0} /\ i + 1 \in Starts
         /\ \A i \in Ends' : i \in Nat \ {0} /\ i + 1 \in Ends
         /\ \A i \in Starts : i \in Nat \ {0} /\ (i # 1 => i - 1 \in Starts')
         /\ \A i \in Ends : i \in Nat \ {0} /\ (i # 1 => i - 1 \in Ends')
         /\ 1 \in Starts <=> Head(notices).type = "agent_start"
         /\ 1 \in Ends <=> Head(notices).type = "agent_end"
<1> DEFINE t == Tail(notices)
           n == Len(notices)
<1>1. PICK S : notices \in Seq(S)
  BY DEF EscapeTypes
<1>2. /\ t \in Seq(S) /\ n \in Nat \ {0} /\ Len(t) = n - 1
      /\ \A i \in 1..(n - 1) : t[i] = notices[i + 1]
      /\ Head(notices) = notices[1]
  BY <1>1
<1>3. DOMAIN notices = 1..n /\ DOMAIN t = 1..(n - 1)
  BY <1>1, <1>2
<1> HIDE DEF t, n
<1>4. notices' = t
  BY DEF t
<1>5. Starts' = { i \in 1..(n - 1) : t[i].type = "agent_start" }
  BY <1>3, <1>4 DEF Starts
<1>6. Ends' = { i \in 1..(n - 1) : t[i].type = "agent_end" }
  BY <1>3, <1>4 DEF Ends
<1>7. Starts = { i \in 1..n : notices[i].type = "agent_start" }
  BY <1>3 DEF Starts
<1>8. Ends = { i \in 1..n : notices[i].type = "agent_end" }
  BY <1>3 DEF Ends
<1>9. \A i \in 1..(n - 1) : i \in Nat \ {0} /\ i + 1 \in 1..n
  BY <1>2
<1>10. \A i \in 1..n : /\ i \in Nat \ {0}
                       /\ i # 1 => i - 1 \in 1..(n - 1) /\ t[i - 1] = notices[i]
  <2> SUFFICES ASSUME NEW i \in 1..n PROVE /\ i \in Nat \ {0}
                       /\ i # 1 => i - 1 \in 1..(n - 1) /\ t[i - 1] = notices[i]
    OBVIOUS
  <2>1. i \in Nat \ {0} /\ (i # 1 => i - 1 \in 1..(n - 1) /\ (i - 1) + 1 = i)
    BY <1>2
  <2> QED BY <1>2, <2>1
<1>11. 1 \in 1..n
  BY <1>2
<1>12. /\ \A i \in Starts' : i \in Nat \ {0} /\ i + 1 \in Starts
       /\ \A i \in Starts : i \in Nat \ {0} /\ (i # 1 => i - 1 \in Starts')
       /\ 1 \in Starts <=> Head(notices).type = "agent_start"
  BY <1>2, <1>5, <1>7, <1>9, <1>10, <1>11
<1>13. /\ \A i \in Ends' : i \in Nat \ {0} /\ i + 1 \in Ends
       /\ \A i \in Ends : i \in Nat \ {0} /\ (i # 1 => i - 1 \in Ends')
       /\ 1 \in Ends <=> Head(notices).type = "agent_end"
  BY <1>2, <1>6, <1>8, <1>9, <1>10, <1>11
<1> QED BY <1>2, <1>4, <1>12, <1>13

\* Whether a run is shown as under way, when an event has been processed.
LEMMA ProcessingLoads ==
  ASSUME EscapeTypes, Loading, notices # <<>>, notices' = Tail(notices),
         T!IsStreaming' <=> T!IsStreaming,
         ui'.loading = TRUE =>
           Head(notices).type = "agent_start"
             \/ (ui.loading = TRUE /\ Head(notices).type # "agent_end")
  PROVE  Loading'
<1> USE Processing
<1>1. ASSUME ~T!IsStreaming, NEW i \in Starts' PROVE \E j \in Ends' : i < j
  <2>1. i \in Nat /\ i + 1 \in Starts
    OBVIOUS
  <2>2. PICK j \in Ends : i + 1 < j
    BY <1>1, <2>1 DEF Loading
  <2>3. j \in Nat /\ j # 1 /\ j - 1 \in Ends' /\ i < j - 1
    BY <2>1, <2>2
  <2> QED BY <2>3
<1>2. ASSUME ~T!IsStreaming, ui'.loading = TRUE PROVE Ends' # {}
  <2>1. \E j \in Ends : j # 1
    <3>1. CASE Head(notices).type = "agent_start"
      <4>1. 1 \in Starts
        BY <3>1
      <4>2. PICK j \in Ends : 1 < j
        BY <1>2, <4>1 DEF Loading
      <4> QED BY <4>2
    <3>2. CASE ui.loading = TRUE /\ Head(notices).type # "agent_end"
      BY <1>2, <3>2 DEF Loading
    <3> QED BY <1>2, <3>1, <3>2
  <2> QED BY <2>1
<1>3. ASSUME T!IsStreaming, Ends' # {} PROVE \E i \in Starts' : \A j \in Ends' : j < i
  <2>1. PICK e \in Ends' : TRUE
    BY <1>3
  <2>2. e \in Nat /\ e + 1 \in Ends
    BY <2>1
  <2>3. PICK i \in Starts : \A j \in Ends : j < i
    BY <1>3, <2>2 DEF Loading
  <2>4. i \in Nat /\ i # 1 /\ i - 1 \in Starts'
    BY <2>2, <2>3
  <2>5. ASSUME NEW j \in Ends' PROVE j < i - 1
    <3>1. j \in Nat /\ j + 1 \in Ends
      OBVIOUS
    <3> QED BY <2>3, <2>4, <3>1
  <2> QED BY <2>4, <2>5
<1> QED BY <1>1, <1>2, <1>3 DEF Loading

(***************************************************************************)
(* What the steps have in common.                                          *)
(***************************************************************************)
\* Nothing that matters here changes.
LEMMA GoesOn ==
  ASSUME Fits, Starts' = Starts, Ends' = Ends, ~T!Connected => notices' = notices,
         T!IsStreaming' <=> T!IsStreaming, UNCHANGED <<ui, handler, timers, compaction>>,
         answered' => answered \/ T!IsStreaming
  PROVE  Fits'
<1>1. IsPlain(ui)' /\ Shows(ui)' /\ (T!Connected' <=> T!Connected)
  BY DEF Fits, IsPlain, IsMain, InRetry, InCompaction, Shows, T!Compacts, T!Running,
         T!Connected
<1>2. Loading'
  BY DEF Fits, Loading
<1>3. Retrying'
  BY DEF Fits, Retrying, InRetry
<1>4. Deaf'
  BY <1>1 DEF Fits, Deaf, InRetry
<1> QED BY <1>1, <1>2, <1>3, <1>4 DEF Fits

\* A compaction begins on a screen that shows nothing special, or is one too many.
LEMMA Crossed ==
  ASSUME NEW u, T!Crossing(u), ~crossed'
  PROVE  u.onEscape = "main"
BY Zenon DEF T!Crossing

LEMMA Begins ==
  ASSUME EscapeTypes, NEW u \in Screens, IsPlain(u), InCompaction(u) <=> InCompaction(ui),
         Shows(ui), NEW c \in T!Compactors, NEW again \in BOOLEAN,
         T!StartCompaction(c, again, u), ~crossed'
  PROVE  /\ IsMain(u) /\ InCompaction(ui') /\ ui'.loading = u.loading /\ Shows(ui)'
<1>1. u.onEscape = "main"
  BY Crossed DEF T!StartCompaction
<1>2. IsMain(u)
  BY <1>1, OneScreen DEF IsPlain
<1>3. ui' = T!CompactionStarted(u)
  BY DEF T!StartCompaction
<1>4. InCompaction(ui') /\ ui'.loading = u.loading
  BY <1>2, <1>3, CompactionShown
<1>5. T!Running = {}
  BY <1>2, OneScreen DEF Shows, T!Compacts
<1>6. T!Running' = {c}
  <2>1. compaction' = [compaction EXCEPT ![c] = [pc |-> "running", again |-> again]]
    BY DEF T!StartCompaction
  <2>2. \A d \in T!Compactors : compaction[d].pc # "running"
    BY <1>5 DEF T!Running
  <2>3. \A d \in T!Compactors : compaction'[d].pc = "running" <=> d = c
    BY <2>1, <2>2 DEF EscapeTypes
  <2> QED BY <2>3 DEF T!Running
<1> QED BY <1>2, <1>4, <1>6 DEF Shows, T!Compacts

\* _checkCompaction: a compaction begins, or none does.
LEMMA Checking ==
  ASSUME EscapeTypes, NEW u \in Screens, IsPlain(u), InCompaction(u) <=> InCompaction(ui),
         Shows(ui), NEW stop, T!CheckCompaction(stop, u), ~crossed'
  PROVE  /\ IsPlain(ui') /\ Shows(ui)' /\ ui'.loading = u.loading
         /\ InRetry(ui') => InRetry(u)
         /\ answered' => answered
         /\ handler' # "sleep"
         /\ T!Connected' <=> T!Connected
<1> USE RepliesAssumption
<1>1. /\ T!EventQueue \in T!Compactors /\ T!EventQueue # T!Manual /\ T!Manual \in T!Compactors
  BY DEF T!Compactors, T!EventQueue, T!Manual
<1>2. CASE ui' = u /\ handler' = "free" /\ UNCHANGED <<compaction, recovered, answered>>
  <2>1. Shows(ui)' /\ (T!Connected' <=> T!Connected)
    BY <1>2 DEF Shows, InCompaction, T!Compacts, T!Running, T!Connected
  <2> QED BY <1>2, <2>1
<1>3. ASSUME NEW again \in BOOLEAN, T!StartCompaction(T!EventQueue, again, u),
             handler' = "compacting", answered' => answered
      PROVE  /\ IsPlain(ui') /\ Shows(ui)' /\ ui'.loading = u.loading
             /\ InRetry(ui') => InRetry(u)
             /\ answered' => answered
             /\ handler' # "sleep"
             /\ T!Connected' <=> T!Connected
  <2>1. InCompaction(ui') /\ ui'.loading = u.loading /\ Shows(ui)'
    BY <1>1, <1>3, Begins
  <2>2. T!Connected' <=> T!Connected
    BY <1>1, <1>3 DEF EscapeTypes, T!StartCompaction, T!Connected
  <2> QED BY <1>3, <2>1, <2>2, OneScreen DEF IsPlain
<1>4. CASE /\ ui' = T!CompactionEnded(u) /\ handler' = "free"
           /\ crossed' = (crossed \/ T!Compacts)
           /\ UNCHANGED <<compaction, recovered, answered>>
  <2>1. ~T!Compacts
    BY <1>4, Zenon
  <2>2. IsMain(u) \/ InRetry(u)
    BY <2>1 DEF Shows, IsPlain
  <2>3. /\ IsPlain(ui') /\ ~InCompaction(ui') /\ ui'.loading = u.loading
        /\ InRetry(ui') => InRetry(u)
    BY <1>4, <2>2, CompactionShown, OneScreen DEF IsPlain
  <2>4. Shows(ui)' /\ (T!Connected' <=> T!Connected)
    BY <1>4, <2>1, <2>3 DEF Shows, T!Compacts, T!Running, T!Connected
  <2> QED BY <1>4, <2>3, <2>4
<1> DEFINE begins == \E again \in BOOLEAN : T!StartCompaction(T!EventQueue, again, u)
           ends == crossed' = (crossed \/ T!Compacts)
<1>5. \/ ui' = u /\ handler' = "free" /\ UNCHANGED <<compaction, recovered, answered>>
      \/ begins /\ handler' = "compacting" /\ answered' = answered
      \/ begins /\ handler' = "compacting" /\ answered' = FALSE
      \/ /\ ui' = T!CompactionEnded(u) /\ handler' = "free" /\ ends
         /\ UNCHANGED <<compaction, recovered, answered>>
  <2>1. T!StartCompaction(T!EventQueue, FALSE, u) \/ T!StartCompaction(T!EventQueue, TRUE, u)
          => begins
    OBVIOUS
  <2> HIDE DEF begins
  <2> QED BY <2>1 DEF T!CheckCompaction, T!compactions
<1> HIDE DEF ends
<1>6. CASE ui' = T!CompactionEnded(u) /\ handler' = "free" /\ ends
           /\ UNCHANGED <<compaction, recovered, answered>>
  BY <1>4, <1>6 DEF ends
<1>7. ASSUME begins, handler' = "compacting", answered' = answered \/ answered' = FALSE
      PROVE  answered' => answered
  BY <1>7, Zenon
<1> QED BY <1>2, <1>3, <1>5, <1>6, <1>7

(***************************************************************************)
(* Types.                                                                  *)
(***************************************************************************)
LEMMA CheckingTypes ==
  ASSUME EscapeTypes, NEW u \in Screens, NEW stop, T!CheckCompaction(stop, u)
  PROVE  /\ ui' \in Screens
         /\ compaction' \in CompactionTypes
<1>1. \/ ui' = u /\ UNCHANGED compaction
      \/ \E again \in BOOLEAN : T!StartCompaction(T!EventQueue, again, u)
      \/ ui' = T!CompactionEnded(u) /\ UNCHANGED compaction
  BY DEF T!CheckCompaction, T!compactions
<1>2. ASSUME NEW again \in BOOLEAN, T!StartCompaction(T!EventQueue, again, u)
      PROVE  /\ ui' \in Screens
             /\ compaction' \in CompactionTypes
  BY <1>2, CompactionShown DEF EscapeTypes, T!StartCompaction
<1> QED BY <1>1, <1>2, CompactionShown DEF EscapeTypes

\* Of what is emitted at once only the first may be a mark.
LEMMA Marked ==
  ASSUME EscapeTypes, T!Connected, NEW W, NEW some \in Seq(W), some # <<>>, T!Emit(some),
         \A i \in 2..Len(some) : some[i].type \notin {"agent_start", "agent_end"}
  PROVE  LET n == Len(notices) + 1
         IN  /\ \A i \in Starts \union Ends : i \in Nat /\ i < n
             /\ Starts' = Starts \union (IF some[1].type = "agent_start" THEN {n} ELSE {})
             /\ Ends' = Ends \union (IF some[1].type = "agent_end" THEN {n} ELSE {})
<1> DEFINE m == Len(notices)
           k == Len(some)
<1>1. /\ m \in Nat /\ DOMAIN notices = 1..m /\ k \in Nat \ {0}
      /\ DOMAIN notices' = 1..(m + k)
      /\ \A i \in 1..m : notices'[i] = notices[i]
      /\ \A i \in 1..k : notices'[m + i] = some[i]
  <2>1. k \in Nat \ {0}
    BY EmptySeq
  <2> QED BY <2>1, Emitting
<1>2. \A i \in 2..k : some[i].type \notin {"agent_start", "agent_end"}
  OBVIOUS
<1> HIDE DEF m, k
<1>3. m + 1 \in 1..(m + k) /\ notices'[m + 1] = some[1]
  BY <1>1
<1>4. ASSUME NEW i \in (m + 2)..(m + k) PROVE notices'[i].type \notin {"agent_start", "agent_end"}
  <2>1. i - m \in 2..k /\ i - m \in 1..k /\ m + (i - m) = i
    BY <1>1
  <2>2. notices'[i] = some[i - m]
    BY <1>1, <2>1
  <2> QED BY <1>2, <2>1, <2>2
<1>5. \A i \in 1..(m + k) : i \in 1..m \/ i = m + 1 \/ i \in (m + 2)..(m + k)
  BY <1>1
<1>6. \A i \in 1..m : i \in 1..(m + k) /\ i \in Nat /\ i < m + 1
  BY <1>1
<1>7. Starts' = { i \in 1..(m + k) : notices'[i].type = "agent_start" }
  BY <1>1 DEF Starts
<1>8. Ends' = { i \in 1..(m + k) : notices'[i].type = "agent_end" }
  BY <1>1 DEF Ends
<1>9. Starts = { i \in 1..m : notices[i].type = "agent_start" }
  BY <1>1 DEF Starts
<1>10. Ends = { i \in 1..m : notices[i].type = "agent_end" }
  BY <1>1 DEF Ends
<1>11. Starts' = Starts \union (IF some[1].type = "agent_start" THEN {m + 1} ELSE {})
  BY <1>1, <1>3, <1>4, <1>5, <1>6, <1>7, <1>9
<1>12. Ends' = Ends \union (IF some[1].type = "agent_end" THEN {m + 1} ELSE {})
  BY <1>1, <1>3, <1>4, <1>5, <1>6, <1>8, <1>10
<1>13. \A i \in Starts \union Ends : i \in Nat /\ i < m + 1
  BY <1>6, <1>9, <1>10
<1> QED BY <1>11, <1>12, <1>13 DEF m

\* A run begins, and a retry that is shown will leave the screen when that is processed.
LEMMA RunBegins ==
  ASSUME EscapeTypes, Fits, ~T!IsStreaming, T!IsStreaming',
         NEW W, NEW some \in Seq(W), some # <<>>, T!Emit(some), some[1].type = "agent_start",
         \A i \in 2..Len(some) : some[i].type \notin {"agent_start", "agent_end"},
         UNCHANGED <<ui, handler, compaction>>
  PROVE  Fits'
<1>1. IsPlain(ui)' /\ Shows(ui)' /\ (T!Connected' <=> T!Connected)
  BY DEF Fits, IsPlain, IsMain, InRetry, InCompaction, Shows, T!Compacts, T!Running,
         T!Connected
<1>2. CASE ~T!Connected
  <2>1. notices = <<>> /\ notices' = <<>> /\ ui.loading = FALSE /\ ~InRetry(ui)
    BY <1>2, Emitting DEF Fits, Deaf
  <2>2. Starts' = {} /\ Ends' = {}
    BY <2>1 DEF Starts, Ends
  <2> QED BY <1>1, <2>1, <2>2 DEF Fits, Loading, Retrying, Deaf, InRetry
<1>3. CASE T!Connected
  <2> DEFINE n == Len(notices) + 1
  <2>1. /\ \A i \in Starts \union Ends : i \in Nat /\ i < n
        /\ Starts' = Starts \union {n} /\ Ends' = Ends
    <3>1. /\ Starts' = Starts \union (IF some[1].type = "agent_start" THEN {n} ELSE {})
          /\ Ends' = Ends \union (IF some[1].type = "agent_end" THEN {n} ELSE {})
          /\ \A i \in Starts \union Ends : i \in Nat /\ i < n
      BY <1>3, Marked
    <3> QED BY <3>1
  <2> HIDE DEF n
  <2>2. Loading'
    BY <2>1 DEF Loading
  <2>3. Retrying'
    BY <2>1 DEF Fits, Retrying, InRetry
  <2> QED BY <1>1, <1>3, <2>2, <2>3 DEF Fits, Deaf
<1> QED BY <1>2, <1>3

LEMMA RunEnds ==
  ASSUME EscapeTypes, Fits, T!IsStreaming, ~T!IsStreaming',
         NEW W, NEW e \in W, T!Emit(<<e>>), e.type = "agent_end",
         UNCHANGED <<ui, handler, compaction, timers, answered>>
  PROVE  Fits'
<1>1. IsPlain(ui)' /\ Shows(ui)' /\ (T!Connected' <=> T!Connected)
  BY DEF Fits, IsPlain, IsMain, InRetry, InCompaction, Shows, T!Compacts, T!Running,
         T!Connected
<1>s. <<e>> \in Seq(W) /\ <<e>> # <<>> /\ Len(<<e>>) = 1 /\ <<e>>[1] = e /\ 2..1 = {}
  OBVIOUS
<1>2. CASE ~T!Connected
  <2>1. notices = <<>> /\ notices' = <<>> /\ ui.loading = FALSE /\ ~InRetry(ui)
    BY <1>2, <1>s, Emitting DEF Fits, Deaf
  <2>2. Starts' = {} /\ Ends' = {}
    BY <2>1 DEF Starts, Ends
  <2> QED BY <1>1, <2>1, <2>2 DEF Fits, Loading, Retrying, Deaf, InRetry
<1>3. CASE T!Connected
  <2> DEFINE n == Len(notices) + 1
  <2>1. /\ \A i \in Starts \union Ends : i \in Nat /\ i < n
        /\ Starts' = Starts /\ Ends' = Ends \union {n}
    BY <1>3, <1>s, Marked
  <2> HIDE DEF n
  <2>2. Loading'
    BY <2>1 DEF Loading
  <2>3. Retrying'
    BY <2>1 DEF Fits, Retrying, InRetry
  <2> QED BY <1>1, <1>3, <2>2, <2>3 DEF Fits, Deaf
<1> QED BY <1>2, <1>3

(***************************************************************************)
(* The steps.                                                              *)
(***************************************************************************)
LEMMA Compacting ==
  /\ T!Callers \subseteq T!Compactors /\ T!Manual \notin T!Callers
  /\ T!Manual \in T!Compactors /\ T!EventQueue \in T!Compactors /\ T!EventQueue # T!Manual
BY RepliesAssumption DEF T!Compactors, T!Callers, T!Flushes, T!Loop, T!EventQueue, T!Manual

\* session.prompt, as far as its next await.
LEMMA CallPromptFits ==
  ASSUME EscapeTypes, NEW c \in T!Callers, NEW text, T!CallPrompt(c, text),
         UNCHANGED <<notices, run, handler, timers, answered>>
  PROVE  EscapeTypes' /\ (Fits /\ ~crossed' => Fits')
<1>1. CASE UNCHANGED <<ui, compaction>>
  <2>1. Starts' = Starts /\ Ends' = Ends /\ (T!IsStreaming' <=> T!IsStreaming)
    BY DEF Starts, Ends, T!IsStreaming
  <2>2. EscapeTypes'
    BY <1>1 DEF EscapeTypes
  <2>3. Fits => Fits'
    BY <1>1, <2>1, GoesOn
  <2> QED BY <2>2, <2>3
<1>2. CASE T!StartCompaction(c, FALSE, ui)
  <2>1. EscapeTypes'
    BY <1>2, CompactionShown, Compacting DEF EscapeTypes, T!StartCompaction
  <2>2. ASSUME Fits, ~crossed' PROVE Fits'
    <3>1. /\ IsMain(ui) /\ InCompaction(ui') /\ ui'.loading = ui.loading /\ Shows(ui)'
      BY <1>2, <2>2, Begins, Compacting DEF Fits, EscapeTypes
    <3>2. ~InRetry(ui) /\ ~InRetry(ui') /\ IsPlain(ui)'
      BY <3>1, OneScreen DEF IsPlain
    <3>3. Starts' = Starts /\ Ends' = Ends /\ (T!IsStreaming' <=> T!IsStreaming)
      BY DEF Starts, Ends, T!IsStreaming
    <3>4. T!Connected' <=> T!Connected
      BY <1>2, Compacting DEF EscapeTypes, T!StartCompaction, T!Connected
    <3>5. Loading'
      BY <2>2, <3>1, <3>3 DEF Fits, Loading
    <3>6. Retrying'
      BY <2>2, <3>2 DEF Fits, Retrying
    <3>7. Deaf'
      BY <2>2, <3>1, <3>2, <3>4 DEF Fits, Deaf
    <3> QED BY <3>1, <3>2, <3>5, <3>6, <3>7 DEF Fits
  <2> QED BY <2>1, <2>2
<1> QED BY <1>1, <1>2 DEF T!CallPrompt

\* The mode and the session go on, and no event, run or compaction begins or ends.
LEMMA NothingSeen ==
  ASSUME EscapeTypes, UNCHANGED <<notices, handler, timers, answered, compaction, ui>>,
         run' = run \/ \E b \in BOOLEAN : run' = [run EXCEPT !.aborted = b]
  PROVE  EscapeTypes' /\ (Fits => Fits')
<1>1. EscapeTypes' /\ run'.pc = run.pc
  BY DEF EscapeTypes
<1>2. Starts' = Starts /\ Ends' = Ends /\ (T!IsStreaming' <=> T!IsStreaming)
  BY <1>1 DEF Starts, Ends, T!IsStreaming
<1> QED BY <1>1, <1>2, GoesOn

LEMMA StartPromptFits ==
  ASSUME EscapeTypes, NEW c \in T!Callers, T!StartPrompt(c)
  PROVE  EscapeTypes' /\ (Fits => Fits')
<1> USE DEF T!retry, T!compactions
<1>1. CASE T!IsStreaming
  BY <1>1, NothingSeen DEF T!StartPrompt
<1>2. CASE ~T!IsStreaming
  <2> DEFINE e == T!Emitted("agent_start", T!NoText, "")
             f == T!Emitted("user", prompts[c].text, "")
             W == {e, f}
  <2>1. /\ <<e, f>> \in Seq(W) /\ <<e, f>> # <<>> /\ Len(<<e, f>>) = 2
        /\ <<e, f>>[1] = e /\ <<e, f>>[2] = f
        /\ e.type = "agent_start" /\ f.type = "user"
    BY DEF T!Emitted
  <2>2. T!Emit(<<e, f>>) /\ T!StartRun("poll", c) /\ UNCHANGED <<ui, handler, compaction, timers>>
    BY <1>2 DEF T!StartPrompt
  <2> HIDE DEF e, f, W
  <2>3. run' \in RunTypes /\ run'.pc = "poll"
    BY <2>2, Compacting DEF T!StartRun, T!NoRun, T!Stops
  <2>4. EscapeTypes'
    <3>1. \E S : notices' \in Seq(S)
      BY <2>1, <2>2, Emitting
    <3> QED BY <2>2, <2>3, <3>1 DEF EscapeTypes
  <2>5. T!IsStreaming'
    BY <2>3 DEF T!IsStreaming
  <2>6. \A i \in 2..Len(<<e, f>>) : <<e, f>>[i].type \notin {"agent_start", "agent_end"}
    BY <2>1
  <2>7. Fits => Fits'
    BY <1>2, <2>1, <2>2, <2>5, <2>6, RunBegins
  <2> QED BY <2>4, <2>7
<1> QED BY <1>1, <1>2

LEMMA PromptStepFits ==
  ASSUME EscapeTypes, T!PromptStep
  PROVE  EscapeTypes' /\ (Fits /\ ~crossed' => Fits')
<1> USE DEF T!texts, T!agent, T!retry, T!compactions, T!bounds, T!history
<1>1. CASE T!LoopRefused
  BY <1>1, NothingSeen DEF T!LoopRefused
<1>2. CASE \E f \in T!Flushes : T!FlushRefused(f)
  BY <1>2, NothingSeen DEF T!FlushRefused
<1>3. ASSUME NEW f \in T!Flushes, T!FlushNext(f) PROVE EscapeTypes' /\ (Fits /\ ~crossed' => Fits')
  <2>1. UNCHANGED <<notices, run, handler, timers, answered>>
    BY <1>3 DEF T!FlushNext
  <2>2. CASE T!CallPrompt(f, Head(flush[f].rest).text)
    BY <2>1, <2>2, CallPromptFits DEF T!Callers
  <2>3. CASE UNCHANGED <<ui, compaction>>
    BY <2>1, <2>3, NothingSeen
  <2> QED BY <1>3, <2>2, <2>3 DEF T!FlushNext
<1>4. CASE \E c \in T!Callers : T!StartPrompt(c)
  BY <1>4, StartPromptFits
<1>5. CASE \E c \in T!Callers : T!PromptReturns(c)
  BY <1>5, NothingSeen DEF T!PromptReturns
<1> QED BY <1>1, <1>2, <1>3, <1>4, <1>5 DEF T!PromptStep

\* The run goes on: what it tells is no mark.
LEMMA RunGoesOn ==
  ASSUME EscapeTypes, NEW W, NEW some \in Seq(W), T!Emit(some),
         \A i \in 1..Len(some) : some[i].type \notin {"agent_start", "agent_end"},
         T!IsStreaming, T!IsStreaming',
         run' \in RunTypes,
         UNCHANGED <<ui, handler, timers, compaction>>
  PROVE  EscapeTypes' /\ (Fits => Fits')
<1>1. \E S : notices' \in Seq(S)
  BY Emitting
<1>2. EscapeTypes'
  BY <1>1 DEF EscapeTypes
<1>3. ~T!Connected => notices' = notices
  BY Emitting
<1>4. Starts' = Starts /\ Ends' = Ends
  BY Unmarked
<1> QED BY <1>2, <1>3, <1>4, GoesOn

LEMMA AgentStepFits ==
  ASSUME EscapeTypes, T!AgentStep
  PROVE  EscapeTypes' /\ (Fits => Fits')
<1> USE DEF T!texts, T!agent, T!retry, T!compactions, T!bounds, T!history
<1>t. run \in RunTypes
  BY DEF EscapeTypes
<1>1. CASE T!Poll
  <2>1. run' \in RunTypes /\ T!IsStreaming /\ T!IsStreaming'
    BY <1>1, <1>t DEF T!Poll, T!IsStreaming
  <2>2. UNCHANGED <<ui, handler, timers, compaction>>
    BY <1>1 DEF T!Poll
  <2>3. CASE UNCHANGED <<notices, answered>>
    <3>1. Starts' = Starts /\ Ends' = Ends
      BY <2>3 DEF Starts, Ends
    <3>2. EscapeTypes'
      BY <2>1, <2>2, <2>3 DEF EscapeTypes
    <3> QED BY <2>1, <2>2, <2>3, <3>1, <3>2, GoesOn
  <2>4. CASE T!Emit(<<T!Emitted("user", Head(queues["steer"]), "")>>)
    <3> DEFINE e == T!Emitted("user", Head(queues["steer"]), "")
    <3>1. e.type = "user"
      BY DEF T!Emitted
    <3> HIDE DEF e
    <3>2. <<e>> \in Seq({e}) /\ \A i \in 1..Len(<<e>>) : <<e>>[i] = e
      OBVIOUS
    <3>3. T!Emit(<<e>>)
      BY <2>4 DEF e
    <3> QED BY <2>1, <2>2, <3>1, <3>2, <3>3, RunGoesOn
  <2> QED BY <1>1, <2>3, <2>4 DEF T!Poll
<1>2. ASSUME NEW stop \in T!Stops, T!Reply(stop) PROVE EscapeTypes' /\ (Fits => Fits')
  <2>1. run' \in RunTypes /\ T!IsStreaming /\ T!IsStreaming'
    BY <1>2, <1>t DEF T!Reply, T!IsStreaming
  <2>2. UNCHANGED <<ui, handler, timers, compaction>>
    BY <1>2 DEF T!Reply
  <2> DEFINE e == T!Emitted("reply", T!NoText, stop)
             f == T!Emitted("user", Head(queues["followUp"]), "")
  <2>3. e.type = "reply" /\ f.type = "user"
    BY DEF T!Emitted
  <2>4. T!Emit(<<e, f>>) \/ T!Emit(<<e>>)
    BY <1>2 DEF T!Reply
  <2> HIDE DEF e, f
  <2>5. CASE T!Emit(<<e, f>>)
    <3>1. <<e, f>> \in Seq({e, f}) /\ \A i \in 1..Len(<<e, f>>) : <<e, f>>[i] \in {e, f}
      OBVIOUS
    <3> QED BY <2>1, <2>2, <2>3, <2>5, <3>1, RunGoesOn
  <2>6. CASE T!Emit(<<e>>)
    <3>1. <<e>> \in Seq({e}) /\ \A i \in 1..Len(<<e>>) : <<e>>[i] = e
      OBVIOUS
    <3> QED BY <2>1, <2>2, <2>3, <2>6, <3>1, RunGoesOn
  <2> QED BY <2>4, <2>5, <2>6
<1>3. CASE T!EndRun
  <2> DEFINE e == T!Emitted("agent_end", T!NoText, run.last)
  <2>1. e.type = "agent_end" /\ T!Emit(<<e>>)
    BY <1>3 DEF T!Emitted, T!EndRun
  <2> HIDE DEF e
  <2>2. run' \in RunTypes /\ T!IsStreaming /\ ~T!IsStreaming'
    BY <1>3, <1>t, Compacting DEF T!EndRun, T!IsStreaming, T!NoRun, T!Stops
  <2>3. UNCHANGED <<ui, handler, compaction, timers, answered>>
    BY <1>3 DEF T!EndRun
  <2>4. e \in {e} /\ <<e>> \in Seq({e})
    OBVIOUS
  <2>5. \E S : notices' \in Seq(S)
    BY <2>1, <2>4, Emitting
  <2>6. EscapeTypes'
    BY <2>2, <2>3, <2>5 DEF EscapeTypes
  <2>7. Fits => Fits'
    BY <2>1, <2>2, <2>3, <2>4, RunEnds
  <2> QED BY <2>6, <2>7
<1>4. CASE T!TimerFires
  <2>1. UNCHANGED <<ui, handler, compaction>> /\ timers' = timers - 1 /\ timers > 0
    BY <1>4 DEF T!TimerFires
  <2>2. CASE (T!IsStreaming \/ answered) /\ UNCHANGED <<run, answered, notices>>
    <3>1. EscapeTypes'
      BY <2>1, <2>2 DEF EscapeTypes
    <3>2. ASSUME Fits PROVE Fits'
      <4>1. Starts' = Starts /\ Ends' = Ends /\ (T!IsStreaming' <=> T!IsStreaming)
        BY <2>2 DEF Starts, Ends, T!IsStreaming
      <4>2. IsPlain(ui)' /\ Shows(ui)' /\ (T!Connected' <=> T!Connected)
        BY <2>1, <3>2 DEF Fits, IsPlain, IsMain, InRetry, InCompaction, Shows,
           T!Compacts, T!Running, T!Connected
      <4>3. Loading'
        BY <2>1, <3>2, <4>1 DEF Fits, Loading
      <4>4. Retrying'
        BY <2>1, <2>2, <3>2, <4>1 DEF Fits, Retrying, InRetry
      <4>5. Deaf'
        BY <2>1, <2>2, <3>2, <4>2 DEF Fits, Deaf, InRetry
      <4> QED BY <4>2, <4>3, <4>4, <4>5 DEF Fits
    <3> QED BY <3>1, <3>2
  <2>3. ASSUME ~T!IsStreaming, NEW where \in {"poll", "request"}, T!StartRun(where, T!Manual),
               NEW W, NEW some \in Seq(W), some # <<>>, T!Emit(some),
               some[1].type = "agent_start",
               \A i \in 2..Len(some) : some[i].type \notin {"agent_start", "agent_end"}
        PROVE  EscapeTypes' /\ (Fits => Fits')
    <3>1. run' \in RunTypes /\ T!IsStreaming'
      BY <2>3, Compacting DEF T!StartRun, T!NoRun, T!Stops, T!IsStreaming
    <3>2. \E S : notices' \in Seq(S)
      BY <2>3, Emitting
    <3>3. EscapeTypes'
      BY <2>1, <3>1, <3>2 DEF EscapeTypes
    <3>4. Fits => Fits'
      BY <2>1, <2>3, <3>1, RunBegins
    <3> QED BY <3>3, <3>4
  <2> DEFINE e == T!Emitted("agent_start", T!NoText, "")
             mode == IF queues["steer"] # <<>> THEN "steer" ELSE "followUp"
             f == T!Emitted("user", Head(queues[mode]), "")
  <2>4. e.type = "agent_start" /\ f.type = "user"
    BY DEF T!Emitted
  <2>5. ASSUME ~(T!IsStreaming \/ (answered /\ queues = T!Queues))
        PROVE  /\ ~T!IsStreaming
               /\ \/ /\ T!Emit(<<e, f>>)
                     /\ \E where \in {"poll", "request"} : T!StartRun(where, T!Manual)
                  \/ T!Emit(<<e>>) /\ T!StartRun("poll", T!Manual)
    BY <1>4, <2>5 DEF T!TimerFires
  <2> HIDE DEF e, f, mode
  <2>6. ASSUME T!IsStreaming \/ (answered /\ queues = T!Queues)
        PROVE  (T!IsStreaming \/ answered) /\ UNCHANGED <<run, answered, notices>>
    BY <1>4, <2>6 DEF T!TimerFires
  <2>7. /\ <<e, f>> \in Seq({e, f}) /\ <<e, f>> # <<>> /\ <<e, f>>[1] = e
        /\ \A i \in 2..Len(<<e, f>>) : <<e, f>>[i] = f
        /\ <<e>> \in Seq({e}) /\ <<e>> # <<>> /\ <<e>>[1] = e
        /\ \A i \in 2..Len(<<e>>) : FALSE
    OBVIOUS
  <2>8. CASE ~T!IsStreaming /\ T!Emit(<<e, f>>)
             /\ \E where \in {"poll", "request"} : T!StartRun(where, T!Manual)
    <3>1. \A i \in 2..Len(<<e, f>>) : <<e, f>>[i].type \notin {"agent_start", "agent_end"}
      BY <2>4, <2>7
    <3> QED BY <2>3, <2>4, <2>7, <2>8, <3>1
  <2>9. CASE ~T!IsStreaming /\ T!Emit(<<e>>) /\ T!StartRun("poll", T!Manual)
    <3>1. \A i \in 2..Len(<<e>>) : <<e>>[i].type \notin {"agent_start", "agent_end"}
      BY <2>7
    <3> QED BY <2>3, <2>4, <2>7, <2>9, <3>1
  <2> QED BY <2>2, <2>5, <2>6, <2>8, <2>9
<1> QED BY <1>1, <1>2, <1>3, <1>4 DEF T!AgentStep

LEMMA ProcessTypes ==
  ASSUME EscapeTypes, notices # <<>>, notices' = Tail(notices), UNCHANGED <<run, timers>>,
         ui' \in Screens,
         compaction' \in CompactionTypes
  PROVE  EscapeTypes'
<1>1. \E S : notices' \in Seq(S)
  BY Processing
<1> QED BY <1>1 DEF EscapeTypes

\* What a retry that is shown waits for is not taken back by another event.
LEMMA StartsRemain ==
  ASSUME EscapeTypes, notices # <<>>, notices' = Tail(notices), Starts # {},
         Head(notices).type # "agent_start"
  PROVE  Starts' # {}
<1>1. PICK i \in Starts : TRUE
  OBVIOUS
<1>2. i # 1 /\ i - 1 \in Starts'
  BY Processing
<1> QED BY <1>2

LEMMA ProcessFits ==
  ASSUME EscapeTypes,
         T!ProcessStart \/ T!ProcessUser \/ T!ProcessReply
  PROVE  EscapeTypes' /\ (Fits => Fits')
<1> USE DEF T!texts, T!agent, T!retry, T!compactions, T!bounds, T!history
<1>1. /\ notices # <<>> /\ notices' = Tail(notices) /\ handler = "free"
      /\ UNCHANGED <<run, answered, timers, compaction, handler>>
  BY DEF T!ProcessStart, T!ProcessUser, T!ProcessReply, T!MayProcess
<1>2. (T!IsStreaming' <=> T!IsStreaming) /\ (T!Connected' <=> T!Connected) /\ T!Running' = T!Running
  BY <1>1 DEF T!IsStreaming, T!Connected, T!Running
<1>u. ui \in Screens
  BY DEF EscapeTypes
<1>3. \/ ui' = T!AgentStarted(ui) /\ Head(notices).type = "agent_start"
      \/ (ui' = ui \/ ui' = T!RetryEnded(ui)) /\ Head(notices).type \in {"user", "reply"}
  BY DEF T!ProcessStart, T!ProcessUser, T!ProcessReply, T!MayProcess
<1>4. EscapeTypes'
  BY <1>1, <1>3, <1>u, RunShown, RetryShown, ProcessTypes DEF EscapeTypes
<1>5. ASSUME Fits PROVE Fits'
  <2>1. T!Connected
    BY <1>1, <1>5 DEF Fits, Deaf
  <2>2. /\ IsPlain(ui') /\ (InCompaction(ui') <=> InCompaction(ui))
        /\ InRetry(ui') => ui' = ui /\ Head(notices).type # "agent_start"
    <3>1. CASE ui' = T!AgentStarted(ui)
      BY <1>5, <1>u, <3>1, RunShown, OneScreen DEF Fits, IsPlain
    <3>2. CASE ui' = T!RetryEnded(ui)
      BY <1>5, <1>u, <3>2, RetryShown, OneScreen DEF Fits, IsPlain
    <3>3. CASE ui' = ui /\ Head(notices).type \in {"user", "reply"}
      BY <1>5, <3>3 DEF Fits, IsPlain, IsMain, InRetry, InCompaction
    <3> QED BY <1>3, <3>1, <3>2, <3>3
  <2>3. Shows(ui)'
    BY <1>2, <1>5, <2>2 DEF Fits, Shows, T!Compacts
  <2>4. ui'.loading = TRUE =>
           Head(notices).type = "agent_start"
             \/ (ui.loading = TRUE /\ Head(notices).type # "agent_end")
    BY <1>3, <1>u, RetryShown
  <2>5. Loading'
    BY <1>1, <1>2, <1>5, <2>4, ProcessingLoads DEF Fits
  <2>6. Retrying'
    <3>1. ASSUME InRetry(ui') PROVE Starts # {} => Starts' # {}
      BY <1>1, <2>2, <3>1, StartsRemain
    <3>2. ASSUME InRetry(ui')
          PROVE  /\ timers' > 0 \/ Starts' # {}
                 /\ T!IsStreaming' \/ answered' => Starts' # {}
      BY <1>1, <1>2, <1>5, <2>2, <3>1, <3>2 DEF Fits, Retrying
    <3> QED BY <1>1, <3>2 DEF Retrying
  <2> QED BY <1>2, <2>1, <2>2, <2>3, <2>5, <2>6 DEF Fits, Deaf
<1> QED BY <1>4, <1>5

\* Conclusions about a step that does not touch what is queued.
LEMMA ScreenChanges ==
  ASSUME Fits, UNCHANGED <<notices, run>>, T!Connected' <=> T!Connected,
         IsPlain(ui'), Shows(ui)', ui'.loading = ui.loading, ~InRetry(ui'), handler' # "sleep"
  PROVE  Fits'
<1>1. Starts' = Starts /\ Ends' = Ends /\ (T!IsStreaming' <=> T!IsStreaming)
  BY DEF Starts, Ends, T!IsStreaming
<1>2. Loading'
  BY <1>1 DEF Fits, Loading
<1>3. Retrying' /\ Deaf'
  BY DEF Fits, Retrying, Deaf
<1> QED BY <1>2, <1>3 DEF Fits

LEMMA ProcessEndFits ==
  ASSUME EscapeTypes, T!ProcessEnd
  PROVE  EscapeTypes' /\ (Fits /\ ~crossed' => Fits')
<1> DEFINE stop == Head(notices).stop
           off == T!AgentEnded(ui)
           u == IF stop = "error" THEN T!RetryEnded(off) ELSE off
<1>1. /\ notices # <<>> /\ notices' = Tail(notices) /\ Head(notices).type = "agent_end"
      /\ T!CheckCompaction(stop, u) /\ UNCHANGED <<run, timers>>
  BY DEF T!ProcessEnd, T!MayProcess
<1>2. /\ u \in Screens /\ u.loading = FALSE
      /\ IsPlain(ui) => /\ IsPlain(u) /\ (InCompaction(u) <=> InCompaction(ui))
                        /\ InRetry(u) => InRetry(ui)
  <2>1. /\ off \in Screens /\ off.loading = FALSE
        /\ IsPlain(ui) => /\ IsPlain(off) /\ (InCompaction(off) <=> InCompaction(ui))
                          /\ InRetry(off) => InRetry(ui)
    BY RunShown, OneScreen DEF EscapeTypes, IsPlain
  <2> HIDE DEF off
  <2>2. CASE stop = "error"
    <3>1. u = T!RetryEnded(off)
      BY <2>2
    <3> QED BY <2>1, <3>1, RetryShown, OneScreen DEF IsPlain
  <2>3. CASE stop # "error"
    BY <2>1, <2>3
  <2> QED BY <2>2, <2>3
<1> HIDE DEF stop, u
<1>3. EscapeTypes'
  BY <1>1, <1>2, CheckingTypes, ProcessTypes
<1>4. ASSUME Fits, ~crossed' PROVE Fits'
  <2>1. /\ IsPlain(ui') /\ Shows(ui)' /\ ui'.loading = FALSE
        /\ InRetry(ui') => InRetry(ui)
        /\ answered' => answered
        /\ handler' # "sleep"
        /\ T!Connected' <=> T!Connected
    BY <1>1, <1>2, <1>4, Checking DEF Fits
  <2>2. T!IsStreaming' <=> T!IsStreaming
    BY <1>1 DEF T!IsStreaming
  <2>3. Loading'
    BY <1>1, <1>4, <2>1, <2>2, ProcessingLoads DEF Fits
  <2>4. Starts # {} => Starts' # {}
    BY <1>1, StartsRemain
  <2>5. handler # "sleep"
    BY DEF T!ProcessEnd, T!MayProcess
  <2>6. Retrying'
    <3>1. ASSUME InRetry(ui')
          PROVE  /\ timers' > 0 \/ Starts' # {}
                 /\ T!IsStreaming' \/ answered' => Starts' # {}
      BY <1>1, <1>4, <2>1, <2>2, <2>4, <2>5, <3>1 DEF Fits, Retrying
    <3> QED BY <2>1, <3>1 DEF Retrying
  <2>7. T!Connected
    BY <1>1, <1>4 DEF Fits, Deaf
  <2> QED BY <2>1, <2>3, <2>6, <2>7 DEF Fits, Deaf
<1> QED BY <1>3, <1>4

LEMMA RetryAgainFits ==
  ASSUME EscapeTypes, T!RetryAgain
  PROVE  EscapeTypes' /\ (Fits /\ ~crossed' => Fits')
<1>1. /\ notices # <<>> /\ notices' = Tail(notices) /\ Head(notices).type = "agent_end"
      /\ ui' = T!RetryStarted(T!AgentEnded(ui)) /\ handler' = "sleep" /\ answered' = FALSE
      /\ UNCHANGED <<run, timers, compaction>> /\ T!Crossing(ui)
  BY DEF T!RetryAgain, T!MayProcess, T!compactions
<1>u. ui \in Screens
  BY DEF EscapeTypes
<1>2. ui' \in Screens /\ ui'.loading = FALSE
  BY <1>1, <1>u, RunShown, RetryShown
<1>3. EscapeTypes'
  BY <1>1, <1>2, ProcessTypes DEF EscapeTypes
<1>4. ASSUME Fits, ~crossed' PROVE Fits'
  <2>1. IsMain(ui) /\ InRetry(ui')
    <3>1. IsMain(ui)
      BY <1>1, <1>4, Crossed, OneScreen DEF Fits, IsPlain
    <3> QED BY <1>1, <1>u, <3>1, RunShown, RetryShown
  <2>2. /\ (T!IsStreaming' <=> T!IsStreaming) /\ (T!Connected' <=> T!Connected)
        /\ T!Running' = T!Running
    BY <1>1 DEF T!IsStreaming, T!Connected, T!Running
  <2>3. Shows(ui)'
    BY <1>4, <2>1, <2>2, OneScreen DEF Fits, Shows, T!Compacts
  <2>4. Loading'
    BY <1>1, <1>2, <1>4, <2>2, ProcessingLoads DEF Fits
  <2>5. ASSUME T!IsStreaming PROVE Starts' # {}
    <3>1. 1 \in Ends
      BY <1>1, Processing
    <3>2. PICK i \in Starts : 1 < i
      BY <1>4, <2>5, <3>1 DEF Fits, Loading
    <3>3. i - 1 \in Starts'
      BY <1>1, <3>2, Processing
    <3> QED BY <3>3
  <2>6. Retrying'
    BY <1>1, <2>1, <2>2, <2>5 DEF Retrying
  <2>7. T!Connected
    BY <1>1, <1>4 DEF Fits, Deaf
  <2> QED BY <2>1, <2>2, <2>3, <2>4, <2>6, <2>7 DEF Fits, Deaf, IsPlain
<1> QED BY <1>3, <1>4

LEMMA SleepEndsFits ==
  ASSUME EscapeTypes, T!RetrySleepEnds
  PROVE  EscapeTypes' /\ (Fits => Fits')
<1>1. /\ handler = "sleep" /\ handler' = "free" /\ timers' = timers + 1
      /\ UNCHANGED <<ui, run, answered, notices, compaction>>
  BY DEF T!RetrySleepEnds, T!agent, T!compactions
<1>2. EscapeTypes'
  BY <1>1 DEF EscapeTypes
<1>3. ASSUME Fits PROVE Fits'
  <2>1. Starts' = Starts /\ Ends' = Ends /\ (T!IsStreaming' <=> T!IsStreaming)
    BY <1>1 DEF Starts, Ends, T!IsStreaming
  <2>2. IsPlain(ui)' /\ Shows(ui)' /\ (T!Connected' <=> T!Connected)
    BY <1>1, <1>3 DEF Fits, IsPlain, IsMain, InRetry, InCompaction, Shows,
       T!Compacts, T!Running, T!Connected
  <2>3. Loading'
    BY <1>1, <1>3, <2>1 DEF Fits, Loading
  <2>4. timers' > 0
    BY <1>1 DEF EscapeTypes
  <2>5. Retrying'
    BY <1>1, <1>3, <2>1, <2>4 DEF Fits, Retrying, InRetry
  <2>6. Deaf'
    BY <1>1, <1>3, <2>2 DEF Fits, Deaf, InRetry
  <2> QED BY <2>2, <2>3, <2>5, <2>6 DEF Fits
<1> QED BY <1>2, <1>3

LEMMA CompactIdleFits ==
  ASSUME EscapeTypes, T!CompactIdle
  PROVE  EscapeTypes' /\ (Fits /\ ~crossed' => Fits')
<1>1. /\ compaction[T!Manual].pc = "waiting" /\ T!StartCompaction(T!Manual, FALSE, ui)
      /\ UNCHANGED <<run, answered, notices, handler, timers>>
  BY DEF T!CompactIdle, T!agent, T!retry
<1>2. EscapeTypes'
  BY <1>1, CompactionShown, Compacting DEF EscapeTypes, T!StartCompaction
<1>3. ASSUME Fits, ~crossed' PROVE Fits'
  <2>1. /\ IsMain(ui) /\ InCompaction(ui') /\ ui'.loading = ui.loading /\ Shows(ui)'
    BY <1>1, <1>3, Begins, Compacting DEF Fits, EscapeTypes
  <2>2. ~InRetry(ui') /\ IsPlain(ui') /\ ~InRetry(ui)
    BY <2>1, OneScreen DEF IsPlain
  <2>3. T!Connected' <=> T!Connected
    BY <1>1, Compacting DEF EscapeTypes, T!StartCompaction, T!Connected
  <2>4. handler' # "sleep"
    BY <1>1, <1>3, <2>2 DEF Fits, Retrying
  <2> QED BY <1>1, <1>3, <2>1, <2>2, <2>3, <2>4, ScreenChanges
<1> QED BY <1>2, <1>3

LEMMA EndCompactionFits ==
  ASSUME EscapeTypes, NEW c \in T!Compactors, NEW succeeds \in BOOLEAN, T!EndCompaction(c, succeeds)
  PROVE  EscapeTypes' /\ (Fits => Fits')
<1>1. /\ compaction[c].pc = "running" /\ ui' = T!CompactionEnded(ui)
      /\ compaction' = [compaction EXCEPT ![c] = T!NotCompacting]
      /\ timers' \in {timers, timers + 1} /\ handler' \in {"free", handler}
      /\ UNCHANGED <<run, answered, notices>>
  BY DEF T!EndCompaction, T!agent
<1>u. ui \in Screens
  BY DEF EscapeTypes
<1>2. EscapeTypes'
  BY <1>1, <1>u, CompactionShown DEF EscapeTypes, T!NotCompacting
<1>3. ASSUME Fits PROVE Fits'
  <2>1. T!Running = {c}
    BY <1>1, <1>3 DEF Fits, Shows, T!Running
  <2>2. InCompaction(ui)
    BY <1>3, <2>1 DEF Fits, Shows, T!Compacts
  <2>3. IsMain(ui') /\ ui'.loading = ui.loading
    BY <1>1, <1>u, <2>2, CompactionShown
  <2>4. T!Running' = {}
    BY <1>1, <2>1 DEF EscapeTypes, T!Running, T!NotCompacting
  <2>5. ~InRetry(ui) /\ ~InRetry(ui') /\ IsPlain(ui') /\ Shows(ui)'
    BY <2>2, <2>3, <2>4, OneScreen DEF IsPlain, Shows, T!Compacts
  <2>6. handler' # "sleep"
    BY <1>1, <1>3, <2>5 DEF Fits, Retrying
  <2>7. Starts' = Starts /\ Ends' = Ends /\ (T!IsStreaming' <=> T!IsStreaming)
    BY <1>1 DEF Starts, Ends, T!IsStreaming
  <2>8. Loading'
    BY <1>3, <2>3, <2>7 DEF Fits, Loading
  <2>9. T!Connected => T!Connected'
    BY <1>1, Compacting DEF EscapeTypes, T!Connected, T!NotCompacting
  <2>10. Retrying' /\ Deaf'
    BY <1>1, <1>3, <2>3, <2>5, <2>6, <2>9 DEF Fits, Retrying, Deaf
  <2> QED BY <2>5, <2>8, <2>10 DEF Fits
<1> QED BY <1>2, <1>3

LEMMA SessionStepFits ==
  ASSUME EscapeTypes, T!SessionStep
  PROVE  EscapeTypes' /\ (Fits /\ ~crossed' => Fits')
BY ProcessFits, ProcessEndFits, RetryAgainFits, SleepEndsFits, CompactIdleFits, EndCompactionFits
DEF T!SessionStep

LEMMA EscapeRetryFits ==
  ASSUME EscapeTypes, T!EscapeRetry
  PROVE  EscapeTypes' /\ (Fits /\ ~crossed' => Fits')
<1>1. UNCHANGED <<run, notices, timers>> /\ T!AbortRetry(ui)
  BY DEF T!EscapeRetry
<1>u. ui \in Screens
  BY DEF EscapeTypes
<1>2. CASE handler # "sleep"
  <2>1. UNCHANGED <<ui, handler, compaction, answered>>
    BY <1>1, <1>2 DEF T!AbortRetry, T!compactions
  <2> QED BY <1>1, <2>1, NothingSeen
<1>3. CASE handler = "sleep"
  <2> DEFINE u == T!RetryEnded(ui)
  <2>1. T!CheckCompaction("error", u)
    BY <1>1, <1>3 DEF T!AbortRetry
  <2>2. u \in Screens /\ u.loading = ui.loading /\ (InRetry(ui) => IsMain(u))
    BY <1>u, RetryShown
  <2> HIDE DEF u
  <2>3. EscapeTypes'
    BY <1>1, <2>1, <2>2, CheckingTypes DEF EscapeTypes
  <2>4. ASSUME Fits, ~crossed' PROVE Fits'
    <3>1. InRetry(ui)
      BY <1>3, <2>4 DEF Fits, Retrying
    <3>2. /\ IsMain(u) /\ IsPlain(u) /\ ~InRetry(u)
          /\ InCompaction(u) <=> InCompaction(ui)
      BY <2>2, <3>1, OneScreen DEF IsPlain
    <3>3. /\ IsPlain(ui') /\ Shows(ui)' /\ ui'.loading = u.loading
          /\ InRetry(ui') => InRetry(u)
          /\ handler' # "sleep"
          /\ T!Connected' <=> T!Connected
      BY <2>1, <2>2, <2>4, <3>2, Checking DEF Fits
    <3> QED BY <1>1, <2>2, <2>4, <3>2, <3>3, ScreenChanges
  <2> QED BY <2>3, <2>4
<1> QED BY <1>2, <1>3

LEMMA CompactFits ==
  ASSUME EscapeTypes, T!Compact
  PROVE  EscapeTypes' /\ (Fits /\ ~crossed' => Fits')
<1> DEFINE u == T!AgentEnded(ui)
<1>1. /\ compaction[T!Manual].pc = "none"
      /\ compaction' = [compaction EXCEPT ![T!Manual].pc = "waiting"]
      /\ run' = [run EXCEPT !.aborted = T!IsStreaming]
      /\ UNCHANGED <<answered, notices, timers>>
      /\ crossed' = (crossed \/ notices # <<>> \/ timers > 0)
  BY DEF T!Compact, T!Connected
<1>2. \/ handler = "sleep" /\ ui' = T!RetryEnded(u) /\ handler' = "free"
      \/ handler # "sleep" /\ ui' = u /\ handler' = handler
  BY DEF T!Compact
<1>3. /\ u \in Screens /\ u.loading = FALSE
      /\ IsMain(ui) => IsMain(u)
      /\ InRetry(ui) => InRetry(u)
      /\ InCompaction(ui) => InCompaction(u)
  BY RunShown DEF EscapeTypes
<1> HIDE DEF u
<1>4. ui' \in Screens /\ ui'.loading = FALSE
  BY <1>2, <1>3, RetryShown
<1>5. T!IsStreaming \in BOOLEAN
  BY DEF T!IsStreaming
<1>6. EscapeTypes' /\ run'.pc = run.pc
  BY <1>1, <1>4, <1>5, Compacting DEF EscapeTypes
<1>7. ASSUME Fits, ~crossed' PROVE Fits'
  <2>1. notices = <<>> /\ ~(timers > 0)
    BY <1>1, <1>7, Zenon
  <2>2. Starts = {} /\ Ends = {} /\ Starts' = {} /\ Ends' = {}
    BY <1>1, <2>1 DEF Starts, Ends
  <2>3. T!IsStreaming' <=> T!IsStreaming
    BY <1>6 DEF T!IsStreaming
  <2>4. T!Running' = T!Running
    BY <1>1, Compacting DEF EscapeTypes, T!Running
  <2>5. InRetry(ui) <=> handler = "sleep"
    BY <1>7, <2>1, <2>2 DEF Fits, Retrying
  <2>6. IsPlain(ui') /\ ~InRetry(ui') /\ (InCompaction(ui') <=> InCompaction(ui))
    BY <1>2, <1>3, <1>7, <2>5, RetryShown, OneScreen DEF Fits, IsPlain
  <2>7. Loading'
    BY <1>4, <2>2 DEF Loading
  <2>8. Retrying'
    BY <1>2, <2>6 DEF Retrying
  <2>9. Shows(ui)'
    BY <1>7, <2>4, <2>6 DEF Fits, Shows, T!Compacts
  <2>10. Deaf'
    BY <1>1, <1>4, <2>1, <2>6 DEF Deaf
  <2> QED BY <2>6, <2>7, <2>8, <2>9, <2>10 DEF Fits
<1> QED BY <1>6, <1>7

LEMMA UserStepFits ==
  ASSUME EscapeTypes, T!UserStep
  PROVE  EscapeTypes' /\ (Fits /\ ~crossed' => Fits')
<1> USE DEF T!texts, T!retry, T!compactions, T!bounds, T!history
<1>1. CASE T!Dequeue
  BY <1>1, NothingSeen DEF T!Dequeue
<1>2. CASE T!Escape
  <2>1. T!IsStreaming \in BOOLEAN /\ run' = [run EXCEPT !.aborted = T!IsStreaming]
    BY <1>2 DEF T!IsStreaming, T!Escape
  <2> QED BY <1>2, <2>1, NothingSeen DEF T!Escape
<1>3. ASSUME NEW mode \in T!Modes, T!Submit(mode)
      PROVE  EscapeTypes' /\ (Fits /\ ~crossed' => Fits')
  <2>1. UNCHANGED <<notices, run, handler, timers, answered>>
    BY <1>3 DEF T!Submit
  <2>2. CASE UNCHANGED <<ui, compaction>>
    BY <2>1, <2>2, NothingSeen
  <2>3. CASE T!CallPrompt(T!Loop, Append(editor, typed + 1))
    BY <2>1, <2>3, CallPromptFits DEF T!Callers
  <2> QED BY <1>3, <2>2, <2>3 DEF T!Submit
<1> QED BY <1>1, <1>2, <1>3, EscapeRetryFits, CompactFits DEF T!UserStep

\* What has overlapped stays on record.
LEMMA CrossedStays == T!Next /\ crossed => crossed'
<1> SUFFICES ASSUME T!Next, crossed PROVE crossed'
  OBVIOUS
<1>1. CASE T!PromptStep
  BY <1>1, Zenon DEF T!PromptStep, T!LoopRefused, T!FlushNext, T!FlushRefused, T!StartPrompt,
     T!PromptReturns, T!CallPrompt, T!StartCompaction, T!Crossing
<1>2. CASE T!AgentStep
  BY <1>2, Zenon DEF T!AgentStep, T!Poll, T!EndRun, T!TimerFires, T!Reply
<1>3. CASE T!SessionStep
  BY <1>3, Zenon DEF T!SessionStep, T!ProcessStart, T!ProcessUser, T!ProcessReply, T!ProcessEnd,
     T!RetryAgain, T!RetrySleepEnds, T!CompactIdle, T!EndCompaction, T!CheckCompaction,
     T!StartCompaction, T!Crossing
<1>4. CASE T!UserStep
  BY <1>4, Zenon DEF T!UserStep, T!Dequeue, T!Escape, T!EscapeRetry, T!Compact, T!Submit,
     T!CallPrompt, T!AbortRetry, T!CheckCompaction, T!StartCompaction, T!Crossing
<1>5. CASE T!NavigationStep
  BY <1>5, Zenon DEF T!NavigationStep, T!Navigate, T!NavigationMoves, T!NavigationEnds,
     T!NavigationFails
<1> QED BY <1>1, <1>2, <1>3, <1>4, <1>5 DEF T!Next

\* A navigation, which counts as one that overlaps.
LEMMA NavigationCrosses ==
  ASSUME EscapeTypes, NavigationTypes, crossed \/ AtHome, T!NavigationStep
  PROVE  EscapeTypes' /\ NavigationTypes' /\ crossed'
<1> USE DEF T!texts, T!agent, T!retry, T!compactions, T!bounds, T!history
<1>1. ASSUME NEW summarize \in BOOLEAN, T!Navigate(summarize)
      PROVE  EscapeTypes' /\ NavigationTypes' /\ crossed'
  <2>1. UNCHANGED <<run, answered, notices, timers, compaction>>
    BY <1>1 DEF T!Navigate
  <2>2. ui' = [ui EXCEPT !.onEscape = "abortBranchSummary"] \/ ui' = ui
    BY <1>1, Zenon DEF T!Navigate
  <2>3. ui' \in Screens
    BY <2>2 DEF EscapeTypes, Screens
  <2>4. EscapeTypes'
    BY <2>1, <2>3 DEF EscapeTypes
  <2>5. ui.onEscape \in Handlers
    BY DEF EscapeTypes, Screens
  <2>6. /\ navigation' = [pc |-> "asking", summarize |-> summarize, onEscape |-> ui.onEscape]
        /\ branchSummary' = TRUE /\ crossed' = TRUE
    BY <1>1 DEF T!Navigate
  <2> QED BY <2>4, <2>5, <2>6 DEF NavigationTypes
<1>2. ASSUME T!NavigationMoves \/ T!NavigationEnds \/ T!NavigationFails
      PROVE  EscapeTypes' /\ NavigationTypes' /\ crossed'
  <2>1. /\ UNCHANGED <<run, notices, timers, compaction, crossed>> /\ navigation.pc # "none"
        /\ ui' = ui \/ ui' = [ui EXCEPT !.onEscape = navigation.onEscape]
        /\ navigation' = T!NoNavigation \/ navigation' = [navigation EXCEPT !.pc = "telling"]
    BY <1>2 DEF T!NavigationMoves, T!NavigationEnds, T!NavigationFails
  <2>2. ui' \in Screens
    BY <2>1 DEF EscapeTypes, NavigationTypes, Screens
  <2>3. EscapeTypes'
    BY <2>1, <2>2 DEF EscapeTypes
  <2>4. branchSummary' \in BOOLEAN
    BY <1>2, Zenon DEF T!NavigationMoves, T!NavigationEnds, T!NavigationFails
  <2>5. navigation' \in [pc : {"none", "asking", "telling"}, summarize : BOOLEAN,
                       onEscape : Handlers]
    <3> DEFINE P == {"none", "asking", "telling"}
               K == Handlers
               N == [pc : P, summarize : BOOLEAN, onEscape : K]
    <3>1. "none" \in P /\ "telling" \in P /\ "main" \in K /\ FALSE \in BOOLEAN /\ navigation \in N
      BY DEF NavigationTypes
    <3> HIDE DEF P, K
    <3>2. T!NoNavigation \in N
      BY <3>1 DEF T!NoNavigation
    <3>3. [navigation EXCEPT !.pc = "telling"] \in N
      BY <3>1
    <3> QED BY <2>1, <3>2, <3>3 DEF P, K
  <2>6. crossed'
    BY <2>1 DEF AtHome
  <2> QED BY <2>3, <2>4, <2>5, <2>6 DEF NavigationTypes
<1> QED BY <1>1, <1>2 DEF T!NavigationStep

LEMMA EscapeBegins == InitReplies => EscapeInv
<1> SUFFICES ASSUME T!Init PROVE EscapeTypes /\ NavigationTypes /\ Fits /\ AtHome
  BY DEF InitReplies, EscapeInv
<1>1. EscapeTypes
  BY Compacting DEF T!Init, EscapeTypes, Screens, T!AtRest, T!NoRun, T!NotCompacting, T!Stops
<1>2. Starts = {} /\ Ends = {} /\ T!Running = {} /\ T!Connected
  BY Compacting DEF T!Init, Starts, Ends, T!Running, T!Connected, T!NotCompacting
<1>3. IsMain(ui) /\ ui.loading = FALSE
  BY DEF T!Init, IsMain, T!AtRest
<1>4. NavigationTypes /\ AtHome
  BY DEF T!Init, NavigationTypes, AtHome, T!NoNavigation
<1> QED
  BY <1>1, <1>2, <1>3, <1>4, OneScreen
  DEF T!Init, Fits, IsPlain, Loading, Retrying, Shows, Deaf, T!IsStreaming, T!Compacts,
      T!NoRun

LEMMA EscapeGoesOn ==
  ASSUME EscapeInv, [NextReplies]_allVars
  PROVE  EscapeInv'
<1>1. T!Next \/ UNCHANGED textVars
  BY DEF NextReplies, allVars
<1>2. CASE UNCHANGED textVars
  <2>1. UNCHANGED <<navigation, branchSummary, crossed>> /\ EscapeTypes' /\ (Fits => Fits')
    BY <1>2, NothingSeen DEF textVars, EscapeInv
  <2>2. NavigationTypes' /\ (AtHome => AtHome')
    BY <2>1 DEF NavigationTypes, AtHome, EscapeInv
  <2> QED BY <2>1, <2>2, Zenon DEF EscapeInv
<1>3. CASE (T!PromptStep \/ T!AgentStep \/ T!SessionStep \/ T!UserStep) /\ UNCHANGED T!navigations
  <2>1. EscapeTypes' /\ (Fits /\ ~crossed' => Fits')
    BY <1>3, PromptStepFits, AgentStepFits, SessionStepFits, UserStepFits DEF EscapeInv
  <2>2. crossed => crossed'
    BY <1>3, CrossedStays DEF T!Next
  <2>3. UNCHANGED <<navigation, branchSummary>>
    BY <1>3 DEF T!navigations
  <2>4. NavigationTypes' /\ (AtHome => AtHome')
    BY <2>3 DEF NavigationTypes, AtHome, EscapeInv
  <2> QED BY <2>1, <2>2, <2>4, Zenon DEF EscapeInv
<1>4. CASE T!NavigationStep
  <2>1. EscapeTypes' /\ NavigationTypes' /\ crossed'
    BY <1>4, NavigationCrosses DEF EscapeInv
  <2> QED BY <2>1, Zenon DEF EscapeInv
<1> QED BY <1>1, <1>2, <1>3, <1>4 DEF T!Next

\* handleEvent: escape cancels what is under way, and does what it always does when
\* nothing is, unless two things overlapped whose handlers the mode does not tell apart.
THEOREM EscapeAlwaysFits == SpecReplies => []EscapeFits
<1>1. InitReplies => EscapeInv
  BY EscapeBegins
<1>2. EscapeInv /\ [NextReplies]_allVars => EscapeInv'
  BY EscapeGoesOn
<1>3. EscapeInv => EscapeFits
  <2> SUFFICES ASSUME EscapeTypes, Fits, AtHome PROVE T!EscapeFits
    BY DEF EscapeInv, EscapeFits, T!EscapeFits
  <2>a. T!IsCompacting <=> T!Compacts
    BY DEF T!IsCompacting, AtHome
  <2>1. handler = "sleep" => ui.onEscape = "abortRetry"
    BY OneScreen DEF Fits, Retrying
  <2>2. T!IsCompacting => ui.onEscape = "abortCompaction"
    BY <2>a, OneScreen DEF Fits, Shows
  <2>3. ASSUME T!Quiet PROVE ui = T!AtRest
    <3>1. notices = <<>> /\ ~T!IsStreaming /\ handler # "sleep" /\ ~(timers > 0) /\ ~T!Compacts
      BY <2>3, <2>a DEF T!Quiet
    <3>2. Starts = {} /\ Ends = {}
      BY <3>1 DEF Starts, Ends
    <3>3. IsMain(ui) /\ ui.loading = FALSE
      BY <3>1, <3>2 DEF Fits, IsPlain, Retrying, Shows, Loading, EscapeTypes, Screens
    <3> QED BY <3>3 DEF EscapeTypes, Screens, IsMain, T!AtRest
  <2> QED BY <2>1, <2>2, <2>3 DEF T!EscapeFits
<1> QED BY <1>1, <1>2, <1>3, PTL DEF SpecReplies

(***************************************************************************)
(* What becomes of a text: the numbers in sequences of texts.              *)
(***************************************************************************)
LEMMA SetOfSequence ==
  ASSUME NEW S, NEW s \in Seq(S)
  PROVE  /\ T!ToSet(<<>>) = {}
         /\ T!ToSet(s) \subseteq S
         /\ \A x \in S : T!ToSet(Append(s, x)) = T!ToSet(s) \cup {x}
         /\ \A t \in Seq(S) : T!ToSet(s \o t) = T!ToSet(s) \cup T!ToSet(t)
         /\ s # <<>> => T!ToSet(s) = {Head(s)} \cup T!ToSet(Tail(s)) /\ Head(s) \in S
                        /\ Tail(s) \in Seq(S)
<1>1. T!ToSet(<<>>) = {}
  BY DEF T!ToSet
<1>2. T!ToSet(s) \subseteq S
  BY ElementOfSeq, LenProperties DEF T!ToSet
<1>3. ASSUME NEW x \in S PROVE T!ToSet(Append(s, x)) = T!ToSet(s) \cup {x}
  <2> DEFINE t == Append(s, x)
  <2>1. /\ Len(s) \in Nat /\ DOMAIN s = 1..Len(s) /\ DOMAIN t = 1..(Len(s) + 1)
        /\ t[Len(s) + 1] = x /\ \A i \in 1..Len(s) : t[i] = s[i]
    BY AppendProperties
  <2> HIDE DEF t
  <2>2. T!ToSet(t) = T!ToSet(s) \cup {x}
    BY <2>1 DEF T!ToSet
  <2> QED BY <2>2 DEF t
<1>4. ASSUME NEW t \in Seq(S) PROVE T!ToSet(s \o t) = T!ToSet(s) \cup T!ToSet(t)
  <2> DEFINE u == s \o t
             m == Len(s)
             n == Len(t)
  <2>1. /\ m \in Nat /\ n \in Nat /\ DOMAIN s = 1..m /\ DOMAIN t = 1..n /\ DOMAIN u = 1..(m + n)
        /\ \A i \in 1..m : u[i] = s[i]
        /\ \A i \in 1..n : u[m + i] = t[i]
    BY ConcatProperties, LenProperties
  <2> HIDE DEF u, m, n
  <2>2. \A i \in 1..(m + n) : i \in 1..m \/ (i - m \in 1..n /\ m + (i - m) = i)
    BY <2>1
  <2>3. T!ToSet(u) = T!ToSet(s) \cup T!ToSet(t)
    <3>1. ASSUME NEW i \in 1..(m + n) PROVE u[i] \in T!ToSet(s) \cup T!ToSet(t)
      BY <2>1, <2>2 DEF T!ToSet
    <3>2. \A i \in 1..m : i \in 1..(m + n)
      BY <2>1
    <3>3. \A i \in 1..n : m + i \in 1..(m + n)
      BY <2>1
    <3>4. T!ToSet(u) \subseteq T!ToSet(s) \cup T!ToSet(t)
      BY <2>1, <3>1 DEF T!ToSet
    <3>5. T!ToSet(s) \subseteq T!ToSet(u)
      BY <2>1, <3>2 DEF T!ToSet
    <3>6. T!ToSet(t) \subseteq T!ToSet(u)
      BY <2>1, <3>3 DEF T!ToSet
    <3> QED BY <3>4, <3>5, <3>6
  <2> QED BY <2>3 DEF u
<1>5. ASSUME s # <<>>
      PROVE  T!ToSet(s) = {Head(s)} \cup T!ToSet(Tail(s)) /\ Head(s) \in S /\ Tail(s) \in Seq(S)
  <2> DEFINE t == Tail(s)
             n == Len(s)
  <2>1. /\ n \in Nat /\ n # 0 /\ DOMAIN s = 1..n /\ t \in Seq(S) /\ DOMAIN t = 1..(n - 1)
        /\ Head(s) = s[1] /\ Head(s) \in S
        /\ \A i \in 1..(n - 1) : t[i] = s[i + 1]
    BY <1>5, EmptySeq, HeadTailProperties, LenProperties
  <2> HIDE DEF t, n
  <2>2. \A i \in 1..n : i = 1 \/ (i - 1 \in 1..(n - 1) /\ (i - 1) + 1 = i)
    BY <2>1
  <2>3. 1 \in 1..n /\ \A i \in 1..(n - 1) : i + 1 \in 1..n
    BY <2>1
  <2>4. T!ToSet(s) = {s[1]} \cup T!ToSet(t)
    <3>1. ASSUME NEW i \in 1..n PROVE s[i] \in {s[1]} \cup T!ToSet(t)
      <4>1. CASE i # 1
        <5>1. t[i - 1] = s[i] /\ i - 1 \in DOMAIN t
          BY <2>1, <2>2, <4>1
        <5> QED BY <5>1, Zenon DEF T!ToSet
      <4> QED BY <4>1
    <3>2. T!ToSet(s) \subseteq {s[1]} \cup T!ToSet(t)
      BY <2>1, <3>1, Zenon DEF T!ToSet
    <3>3. T!ToSet(t) \subseteq T!ToSet(s) /\ s[1] \in T!ToSet(s)
      BY <2>1, <2>3 DEF T!ToSet
    <3> QED BY <3>2, <3>3
  <2> QED BY <2>1, <2>4 DEF t
<1> QED BY <1>1, <1>2, <1>3, <1>4, <1>5

LEMMA AtomsIs ==
  ASSUME NEW some, NEW a
  PROVE  a \in T!Atoms(some) <=> \E i \in DOMAIN some : a \in T!ToSet(some[i])
BY DEF T!Atoms

LEMMA AtomsOfSequence ==
  ASSUME NEW S, NEW s \in Seq(S)
  PROVE  /\ T!Atoms(<<>>) = {}
         /\ \A x \in S : T!Atoms(Append(s, x)) = T!Atoms(s) \cup T!ToSet(x)
         /\ \A t \in Seq(S) : T!Atoms(s \o t) = T!Atoms(s) \cup T!Atoms(t)
         /\ s # <<>> => T!Atoms(s) = T!ToSet(Head(s)) \cup T!Atoms(Tail(s))
         /\ \A x \in T!ToSet(s) : T!ToSet(x) \subseteq T!Atoms(s)
<1>1. \A t, a : a \in T!Atoms(t) <=> \E x \in T!ToSet(t) : a \in T!ToSet(x)
  BY DEF T!Atoms, T!ToSet
<1>2. T!Atoms(<<>>) = {}
  BY SetOfSequence, <1>1
<1>3. ASSUME NEW x \in S PROVE T!Atoms(Append(s, x)) = T!Atoms(s) \cup T!ToSet(x)
  <2>1. T!ToSet(Append(s, x)) = T!ToSet(s) \cup {x}
    BY SetOfSequence
  <2> DEFINE t == Append(s, x)
  <2> HIDE DEF t
  <2> QED BY <1>1, <2>1 DEF t
<1>4. ASSUME NEW t \in Seq(S) PROVE T!Atoms(s \o t) = T!Atoms(s) \cup T!Atoms(t)
  <2> DEFINE u == s \o t
  <2>1. T!ToSet(u) = T!ToSet(s) \cup T!ToSet(t)
    BY SetOfSequence
  <2> HIDE DEF u
  <2>2. T!Atoms(u) = T!Atoms(s) \cup T!Atoms(t)
    BY <1>1, <2>1
  <2> QED BY <2>2 DEF u
<1>5. ASSUME s # <<>> PROVE T!Atoms(s) = T!ToSet(Head(s)) \cup T!Atoms(Tail(s))
  <2> DEFINE h == Head(s)
             t == Tail(s)
  <2>1. T!ToSet(s) = {h} \cup T!ToSet(t)
    BY <1>5, SetOfSequence
  <2> HIDE DEF h, t
  <2>2. T!Atoms(s) = T!ToSet(h) \cup T!Atoms(t)
    BY <1>1, <2>1
  <2> QED BY <2>2 DEF h, t
<1>6. \A x \in T!ToSet(s) : T!ToSet(x) \subseteq T!Atoms(s)
  BY <1>1
<1> QED BY <1>2, <1>3, <1>4, <1>5, <1>6

LEMMA ApartSequence ==
  ASSUME NEW S, NEW s \in Seq(S), NEW B, NEW D, B \subseteq D, ApartBut(s, B)
  PROVE  /\ ApartBut(s, D) /\ ApartBut(<<>>, D)
         /\ \A x \in S : T!ToSet(x) \cap T!Atoms(s) \subseteq D => ApartBut(Append(s, x), D)
         /\ s # <<>> => ApartBut(Tail(s), D) /\ T!ToSet(Head(s)) \cap T!Atoms(Tail(s)) \subseteq D
<1>1. ApartBut(s, D)
  BY DEF ApartBut
<1>2. ApartBut(<<>>, D)
  BY DEF ApartBut
<1>3. ASSUME NEW x \in S, T!ToSet(x) \cap T!Atoms(s) \subseteq D PROVE ApartBut(Append(s, x), D)
  <2> DEFINE t == Append(s, x)
             n == Len(s)
  <2>1. /\ n \in Nat /\ DOMAIN s = 1..n /\ DOMAIN t = 1..(n + 1)
        /\ t[n + 1] = x /\ \A i \in 1..n : t[i] = s[i]
    BY AppendProperties
  <2> HIDE DEF t, n
  <2>2. \A i \in 1..(n + 1) : i \in 1..n \/ i = n + 1
    BY <2>1
  <2>3. \A i \in 1..n : T!ToSet(s[i]) \cap T!ToSet(x) \subseteq D
    BY <1>3, <2>1 DEF T!Atoms
  <2>4. ASSUME NEW i \in 1..(n + 1), NEW j \in 1..(n + 1), i # j
        PROVE  T!ToSet(t[i]) \cap T!ToSet(t[j]) \subseteq D
    <3>1. CASE i \in 1..n /\ j \in 1..n
      BY <1>1, <2>1, <2>4, <3>1 DEF ApartBut
    <3>2. CASE i \in 1..n /\ j = n + 1
      BY <2>1, <2>3, <3>2
    <3>3. CASE i = n + 1 /\ j \in 1..n
      BY <2>1, <2>3, <3>3
    <3> QED BY <2>2, <2>4, <3>1, <3>2, <3>3
  <2>5. ApartBut(t, D)
    BY <2>1, <2>4 DEF ApartBut
  <2> QED BY <2>5 DEF t
<1>4. ASSUME s # <<>>
      PROVE  ApartBut(Tail(s), D) /\ T!ToSet(Head(s)) \cap T!Atoms(Tail(s)) \subseteq D
  <2> DEFINE t == Tail(s)
             n == Len(s)
             h == Head(s)
  <2>1. /\ n \in Nat /\ n # 0 /\ DOMAIN s = 1..n /\ DOMAIN t = 1..(n - 1)
        /\ h = s[1]
        /\ \A i \in 1..(n - 1) : t[i] = s[i + 1]
    BY <1>4, EmptySeq, HeadTailProperties, LenProperties
  <2> HIDE DEF t, n, h
  <2>2. 1 \in 1..n /\ \A i \in 1..(n - 1) : i + 1 \in 1..n /\ i + 1 # 1
    BY <2>1
  <2>3. \A i, j \in 1..(n - 1) : i # j => i + 1 # j + 1
    BY <2>1
  <2>4. ASSUME NEW i \in 1..(n - 1), NEW j \in 1..(n - 1), i # j
        PROVE  T!ToSet(t[i]) \cap T!ToSet(t[j]) \subseteq D
    BY <1>1, <2>1, <2>2, <2>3, <2>4 DEF ApartBut
  <2>5. ApartBut(t, D)
    BY <2>1, <2>4 DEF ApartBut
  <2>6. \A i \in 1..(n - 1) : T!ToSet(h) \cap T!ToSet(t[i]) \subseteq D
    BY <1>1, <2>1, <2>2 DEF ApartBut
  <2>7. T!ToSet(h) \cap T!Atoms(t) \subseteq D
    BY <2>1, <2>6 DEF T!Atoms
  <2> QED BY <2>5, <2>7 DEF t, h
<1> QED BY <1>1, <1>2, <1>3, <1>4

LEMMA TextsOfMessages ==
  ASSUME NEW s \in Seq(Message)
  PROVE  /\ T!Texts(s) \in Seq(Text) /\ T!Texts(<<>>) = <<>>
         /\ \A m \in Message : T!Texts(Append(s, m)) = Append(T!Texts(s), m.text)
         /\ s # <<>> => /\ T!Texts(s) # <<>> /\ Head(s) \in Message /\ Tail(s) \in Seq(Message)
                        /\ T!Texts(Tail(s)) = Tail(T!Texts(s))
                        /\ Head(T!Texts(s)) = Head(s).text
<1>1. \A r \in Seq(Message) : /\ T!Texts(r) \in Seq(Text) /\ Len(T!Texts(r)) = Len(r)
                              /\ Len(r) \in Nat /\ \A i \in 1..Len(r) : T!Texts(r)[i] = r[i].text
  <2> SUFFICES ASSUME NEW r \in Seq(Message)
               PROVE  /\ T!Texts(r) \in Seq(Text) /\ Len(T!Texts(r)) = Len(r)
                      /\ Len(r) \in Nat /\ \A i \in 1..Len(r) : T!Texts(r)[i] = r[i].text
    OBVIOUS
  <2>1. DOMAIN r = 1..Len(r) /\ Len(r) \in Nat
    BY LenProperties
  <2>2. \A i \in 1..Len(r) : r[i].text \in Text
    <3>1. \A i \in 1..Len(r) : r[i] \in Message
      BY ElementOfSeq
    <3>2. \A m \in Message : m.text \in Text
      BY DEF Message
    <3> QED BY <3>1, <3>2
  <2> QED BY <2>1, <2>2 DEF T!Texts
<1>2. T!Texts(<<>>) = <<>>
  BY DEF T!Texts
<1>3. ASSUME NEW m \in Message PROVE T!Texts(Append(s, m)) = Append(T!Texts(s), m.text)
  <2> DEFINE t == Append(s, m)
             x == T!Texts(t)
             y == Append(T!Texts(s), m.text)
             n == Len(s)
  <2>1. /\ t \in Seq(Message) /\ n \in Nat /\ Len(t) = n + 1
        /\ t[n + 1] = m /\ \A i \in 1..n : t[i] = s[i]
    BY AppendProperties
  <2>2. /\ y \in Seq(Text) /\ Len(y) = n + 1 /\ y[n + 1] = m.text
        /\ \A i \in 1..n : y[i] = s[i].text
    <3>1. m.text \in Text
      BY DEF Message
    <3> QED BY <1>1, <3>1, AppendProperties
  <2> HIDE DEF t, y, n
  <2>3. x \in Seq(Text) /\ Len(x) = n + 1 /\ \A i \in 1..(n + 1) : x[i] = t[i].text
    BY <1>1, <2>1
  <2> HIDE DEF x
  <2>4. \A i \in 1..(n + 1) : i \in 1..n \/ i = n + 1
    BY <2>1
  <2>5. \A i \in 1..(n + 1) : x[i] = y[i]
    BY <2>1, <2>2, <2>3, <2>4
  <2>6. x = y
    BY <2>2, <2>3, <2>5, SeqEqual
  <2> QED BY <2>6 DEF x, y, t
<1>4. ASSUME s # <<>>
      PROVE  /\ T!Texts(s) # <<>> /\ Head(s) \in Message /\ Tail(s) \in Seq(Message)
             /\ T!Texts(Tail(s)) = Tail(T!Texts(s))
             /\ Head(T!Texts(s)) = Head(s).text
  <2> DEFINE t == Tail(s)
             n == Len(s)
             u == T!Texts(s)
             x == T!Texts(t)
             y == Tail(u)
  <2>1. /\ n \in Nat /\ n # 0 /\ t \in Seq(Message) /\ Len(t) = n - 1
        /\ Head(s) = s[1] /\ Head(s) \in Message
        /\ \A i \in 1..(n - 1) : t[i] = s[i + 1]
    BY <1>4, EmptySeq, HeadTailProperties, LenProperties
  <2>2. u \in Seq(Text) /\ Len(u) = n /\ \A i \in 1..n : u[i] = s[i].text
    BY <1>1
  <2> HIDE DEF u, n, t
  <2>3. u # <<>>
    BY <2>1, <2>2
  <2>4. /\ y \in Seq(Text) /\ Len(y) = n - 1 /\ Head(u) = u[1]
        /\ \A i \in 1..(n - 1) : y[i] = u[i + 1]
    BY <2>2, <2>3, HeadTailProperties
  <2>5. x \in Seq(Text) /\ Len(x) = n - 1 /\ \A i \in 1..(n - 1) : x[i] = t[i].text
    BY <1>1, <2>1
  <2> HIDE DEF x, y
  <2>6. 1 \in 1..n /\ \A i \in 1..(n - 1) : i + 1 \in 1..n
    BY <2>1
  <2>7. \A i \in 1..(n - 1) : x[i] = y[i]
    BY <2>1, <2>2, <2>4, <2>5, <2>6
  <2>8. x = y
    BY <2>4, <2>5, <2>7, SeqEqual
  <2>9. Head(u) = Head(s).text
    BY <2>1, <2>2, <2>4, <2>6
  <2> QED BY <2>1, <2>3, <2>8, <2>9 DEF x, y, t, u
<1> QED BY <1>1, <1>2, <1>3, <1>4

(***************************************************************************)
(* FlattenSeq: the sequences joined so far, one more at a time.            *)
(***************************************************************************)
Joins(h, s) == /\ h[1] = s[1]
               /\ \A n \in 2..Len(s) : h[n] = h[n - 1] \o s[n]

LEMMA JoinsExist ==
  ASSUME NEW S, NEW s \in Seq(Seq(S)), s # <<>>
  PROVE  \E h \in [1..Len(s) -> Seq(S)] : Joins(h, s)
<1> DEFINE V == Seq(S)
           m == Len(s)
           Good(k, h) == \A n \in 1..k : h[n] = IF n = 1 THEN s[1] ELSE h[n - 1] \o s[n]
           N == { k \in 0..m : \E h \in [1..k -> V] : Good(k, h) }
<1>1. m \in Nat /\ m >= 1 /\ \A n \in 1..m : s[n] \in V
  BY EmptySeq, ElementOfSeq
<1> HIDE DEF V, m
<1>2. 0 \in N
  <2> SUFFICES ASSUME NEW k \in 0..m, k = 0 PROVE k \in N
    BY <1>1
  <2> DEFINE h == [n \in 1..k |-> s[1]]
  <2>1. h \in [1..k -> V] /\ Good(k, h)
    BY <1>1
  <2>2. \E f \in [1..k -> V] : Good(k, f)
    <3> HIDE DEF h, Good
    <3> QED BY <2>1
  <2> HIDE DEF Good
  <2> QED BY <2>2
<1>3. ASSUME NEW k \in 1..m, k - 1 \in N PROVE k \in N
  <2>1. PICK h \in [1..(k - 1) -> V] : Good(k - 1, h)
    BY <1>3
  <2> DEFINE x == IF k = 1 THEN s[1] ELSE h[k - 1] \o s[k]
             g == [n \in 1..k |-> IF n = k THEN x ELSE h[n]]
  <2>2. x \in V
    <3>1. CASE k = 1
      BY <1>1, <3>1
    <3>2. CASE k # 1
      <4>1. h[k - 1] \in V /\ s[k] \in V
        BY <1>1, <3>2
      <4> QED BY <3>2, <4>1 DEF V
    <3> QED BY <3>1, <3>2
  <2>3. g \in [1..k -> V]
    <3> HIDE DEF x
    <3>1. \A n \in 1..k : n # k => n \in 1..(k - 1)
      BY <1>1
    <3> QED BY <2>2, <3>1
  <2>4. Good(k, g)
    <3> SUFFICES ASSUME NEW n \in 1..k
                 PROVE  g[n] = IF n = 1 THEN s[1] ELSE g[n - 1] \o s[n]
      OBVIOUS
    <3>1. CASE n = k
      <4>1. g[n] = x
        BY <3>1
      <4>2. n # 1 => g[n - 1] = h[k - 1]
        BY <1>1, <3>1
      <4> HIDE DEF g
      <4> QED BY <3>1, <4>1, <4>2
    <3>2. CASE n # k
      <4>1. n \in 1..(k - 1) /\ g[n] = h[n] /\ (n # 1 => g[n - 1] = h[n - 1])
        BY <1>1, <3>2
      <4> HIDE DEF g
      <4> QED BY <2>1, <4>1
    <3> QED BY <3>1, <3>2
  <2>5. \E f \in [1..k -> V] : Good(k, f)
    <3> HIDE DEF g, Good
    <3> QED BY <2>3, <2>4
  <2> HIDE DEF Good
  <2> QED BY <1>1, <2>5
<1>4. m \in N
  <2>1. \A k \in 0..m : k \in N
    <3> HIDE DEF N
    <3> QED BY <1>1, <1>2, <1>3, Steps
  <2>2. m \in 0..m
    BY <1>1
  <2> HIDE DEF N
  <2> QED BY <2>1, <2>2
<1>5. PICK h \in [1..m -> V] : Good(m, h)
  BY <1>4
<1>6. Joins(h, s)
  <2>1. 1 \in 1..m /\ \A n \in 2..m : n \in 1..m /\ n # 1
    BY <1>1
  <2>2. h[1] = s[1] /\ \A n \in 2..m : h[n] = h[n - 1] \o s[n]
    BY <1>5, <2>1
  <2> QED BY <2>2 DEF Joins, m
<1> QED BY <1>5, <1>6 DEF V, m

\* It is what is joined in the end.
LEMMA FlattenIs ==
  ASSUME NEW S, NEW s \in Seq(Seq(S)), s # <<>>
  PROVE  \E h \in [1..Len(s) -> Seq(S)] : Joins(h, s) /\ T!FlattenSeq(s) = h[Len(s)]
<1> DEFINE Step(g) == [n \in 1..Len(s) |-> IF n = 1 THEN s[n] ELSE g[n - 1] \o s[n]]
           flat == CHOOSE g : g = Step(g)
<1>1. Len(s) \in Nat /\ Len(s) # 0
  BY EmptySeq
<1>2. T!FlattenSeq(s) = flat[Len(s)]
  BY <1>1, Zenon DEF T!FlattenSeq
<1>3. PICK h \in [1..Len(s) -> Seq(S)] : Joins(h, s)
  BY JoinsExist
<1>4. h = Step(h)
  <2>1. ASSUME NEW n \in 1..Len(s) PROVE h[n] = IF n = 1 THEN s[n] ELSE h[n - 1] \o s[n]
    <3>1. n = 1 \/ n \in 2..Len(s)
      BY <1>1
    <3> QED BY <1>3, <3>1 DEF Joins
  <2>2. h = [n \in 1..Len(s) |-> h[n]]
    OBVIOUS
  <2> QED BY <2>1, <2>2
<1>5. flat = Step(flat)
  <2> HIDE DEF Step
  <2> QED BY <1>4
<1> HIDE DEF flat
<1>6. DOMAIN flat = 1..Len(s)
      /\ \A n \in 1..Len(s) : flat[n] = IF n = 1 THEN s[n] ELSE flat[n - 1] \o s[n]
  BY <1>5
<1>7. Joins(flat, s)
  <2>1. 1 \in 1..Len(s) /\ \A n \in 2..Len(s) : n \in 1..Len(s) /\ n # 1
    BY <1>1
  <2>2. flat[1] = s[1] /\ \A n \in 2..Len(s) : flat[n] = flat[n - 1] \o s[n]
    BY <1>6, <2>1
  <2> QED BY <2>2 DEF Joins
<1>8. \A n \in 1..Len(s) : flat[n] = h[n]
  <2> DEFINE N == { n \in 0..Len(s) : n = 0 \/ flat[n] = h[n] }
  <2>1. 0 \in N
    BY <1>1
  <2>2. ASSUME NEW n \in 1..Len(s), n - 1 \in N PROVE n \in N
    <3>1. CASE n = 1
      BY <1>1, <1>3, <1>7, <3>1 DEF Joins
    <3>2. CASE n # 1
      <4>1. n \in 2..Len(s) /\ n \in 0..Len(s) /\ flat[n - 1] = h[n - 1]
        BY <1>1, <2>2, <3>2
      <4> QED BY <1>3, <1>7, <4>1 DEF Joins
    <3> QED BY <3>1, <3>2
  <2>3. \A n \in 0..Len(s) : n \in N
    <3> HIDE DEF N
    <3> QED BY <1>1, <2>1, <2>2, Steps
  <2> QED BY <2>3
<1> QED BY <1>1, <1>2, <1>3, <1>8

LEMMA FlattenNone == T!FlattenSeq(<<>>) = <<>>
  BY Zenon, EmptySeq DEF T!FlattenSeq

LEMMA FlattenType ==
  ASSUME NEW S, NEW s \in Seq(Seq(S))
  PROVE  T!FlattenSeq(s) \in Seq(S)
<1>1. CASE s = <<>>
  BY <1>1, FlattenNone, EmptySeq
<1>2. CASE s # <<>>
  <2>1. Len(s) \in 1..Len(s)
    BY <1>2, EmptySeq
  <2> QED BY <1>2, <2>1, FlattenIs
<1> QED BY <1>1, <1>2

\* What it holds is what they hold.
LEMMA FlattenHolds ==
  ASSUME NEW S, NEW s \in Seq(Seq(S))
  PROVE  T!FlattenSeq(s) \in Seq(S) /\ T!ToSet(T!FlattenSeq(s)) = T!Atoms(s)
<1>1. CASE s = <<>>
  <2>1. T!ToSet(<<>>) = {} /\ T!Atoms(<<>>) = {}
    BY DEF T!ToSet, T!Atoms
  <2> QED BY <1>1, <2>1, FlattenNone, FlattenType
<1>2. CASE s # <<>>
  <2> DEFINE m == Len(s)
             V == Seq(S)
  <2>1. PICK h \in [1..m -> V] : Joins(h, s) /\ T!FlattenSeq(s) = h[m]
    BY <1>2, FlattenIs
  <2>2. m \in Nat /\ m >= 1 /\ \A n \in 1..m : s[n] \in V
    BY <1>2, EmptySeq, ElementOfSeq
  <2>d. DOMAIN s = 1..m
    BY LenProperties
  <2> DEFINE N == { n \in 0..m : n = 0 \/ T!ToSet(h[n]) = UNION { T!ToSet(s[i]) : i \in 1..n } }
  <2> HIDE DEF m
  <2>3. 0 \in N
    BY <2>2
  <2>4. ASSUME NEW n \in 1..m, n - 1 \in N PROVE n \in N
    <3>0. n \in 0..m /\ n # 0
      BY <2>2
    <3>1. CASE n = 1
      <4>1. h[n] = s[1] /\ 1..n = {1}
        BY <2>1, <3>1 DEF Joins
      <4>2. T!ToSet(h[n]) = UNION { T!ToSet(s[i]) : i \in 1..n }
        BY <4>1
      <4> QED BY <3>0, <4>2
    <3>2. CASE n # 1
      <4>1. n \in 2..m /\ n - 1 \in 1..m /\ n - 1 # 0
        BY <2>2, <3>2
      <4>2. h[n] = h[n - 1] \o s[n]
        BY <2>1, <4>1 DEF Joins, m
      <4>3. T!ToSet(h[n]) = T!ToSet(h[n - 1]) \cup T!ToSet(s[n])
        <5>1. h[n - 1] \in Seq(S) /\ s[n] \in Seq(S)
          BY <2>1, <2>2, <4>1
        <5> QED BY <4>2, <5>1, SetOfSequence
      <4>4. 1..n = (1..(n - 1)) \cup {n}
        BY <2>2
      <4>5. T!ToSet(h[n - 1]) = UNION { T!ToSet(s[i]) : i \in 1..(n - 1) }
        BY <2>4, <4>1
      <4> DEFINE k == n - 1
      <4> HIDE DEF k
      <4>6. T!ToSet(h[n]) = UNION { T!ToSet(s[i]) : i \in 1..n }
        BY <4>3, <4>4, <4>5 DEF k
      <4> QED BY <3>0, <4>6
    <3> QED BY <3>1, <3>2
  <2>5. \A n \in 0..m : n \in N
    <3> HIDE DEF N
    <3> QED BY <2>2, <2>3, <2>4, Steps
  <2>6. m \in 0..m /\ m # 0
    BY <2>2
  <2>7. T!ToSet(h[m]) = UNION { T!ToSet(s[i]) : i \in 1..m }
    BY <2>5, <2>6
  <2> QED BY <2>1, <2>7, <2>d, FlattenType DEF T!Atoms
<1> QED BY <1>1, <1>2

\* What was held with either key is all that was held.
LEMMA HeldOfMode ==
  ASSUME NEW s \in Seq(Message)
  PROVE  /\ \A mode \in T!Modes : T!OfMode(s, mode) \in Seq(Text)
         /\ T!Atoms(T!OfMode(s, "steer")) \cup T!Atoms(T!OfMode(s, "followUp"))
            = T!Atoms(T!Texts(s))
<1> DEFINE n == Len(s)
           One(mode, i) == IF s[i].mode = mode THEN <<s[i].text>> ELSE <<>>
           Some(mode) == [i \in DOMAIN s |-> One(mode, i)]
<1>1. n \in Nat /\ DOMAIN s = 1..n /\ \A i \in 1..n : s[i].text \in Text /\ s[i].mode \in T!Modes
  <2>1. \A i \in 1..n : s[i] \in Message
    BY ElementOfSeq
  <2>2. \A m \in Message : m.text \in Text /\ m.mode \in T!Modes
    BY DEF Message
  <2> QED BY <2>1, <2>2, LenProperties
<1> HIDE DEF n
<1>2. \A mode, i : i \in 1..n => One(mode, i) \in Seq(Text)
  <2>1. ASSUME NEW x \in Text PROVE <<x>> \in Seq(Text)
    BY <2>1
  <2> DEFINE S == Seq(Text)
             e == <<>>
  <2>2. e \in S
    OBVIOUS
  <2> HIDE DEF S, e
  <2> QED BY <1>1, <2>1, <2>2 DEF S, e
<1> HIDE DEF One
<1>3. ASSUME NEW mode PROVE Some(mode) \in Seq(Seq(Text)) /\ DOMAIN Some(mode) = 1..n
  <2> DEFINE S == Seq(Text)
  <2>1. \A i \in 1..n : One(mode, i) \in S
    BY <1>2
  <2> HIDE DEF S
  <2> QED BY <1>1, <2>1 DEF S
<1>4. \A mode : T!OfMode(s, mode) = T!FlattenSeq(Some(mode))
  BY DEF T!OfMode, One
<1>5. \A mode : T!OfMode(s, mode) \in Seq(Text) /\ T!ToSet(T!OfMode(s, mode)) = T!Atoms(Some(mode))
  <2> HIDE DEF Some
  <2> QED BY <1>3, <1>4, FlattenHolds
<1>6. ASSUME NEW mode, NEW x
      PROVE  x \in T!Atoms(Some(mode)) <=> \E i \in 1..n : s[i].mode = mode /\ x = s[i].text
  <2>1. ASSUME NEW i \in 1..n
        PROVE  x \in T!ToSet(Some(mode)[i]) <=> s[i].mode = mode /\ x = s[i].text
    <3>1. Some(mode)[i] = IF s[i].mode = mode THEN <<s[i].text>> ELSE <<>>
      BY <1>1 DEF One
    <3>2. \A y : T!ToSet(<<y>>) = {y}
      BY DEF T!ToSet
    <3>3. T!ToSet(<<>>) = {}
      BY DEF T!ToSet
    <3> HIDE DEF Some
    <3> QED BY <3>1, <3>2, <3>3
  <2>2. DOMAIN Some(mode) = 1..n
    BY <1>3
  <2> HIDE DEF Some
  <2> QED BY <2>1, <2>2, AtomsIs
<1>7. \A t, a : a \in T!Atoms(t) <=> \E x \in T!ToSet(t) : a \in T!ToSet(x)
  BY DEF T!Atoms, T!ToSet
<1>8. ASSUME NEW mode, NEW a
      PROVE  a \in T!Atoms(T!OfMode(s, mode))
             <=> \E i \in 1..n : s[i].mode = mode /\ a \in T!ToSet(s[i].text)
  <2> HIDE DEF Some
  <2> QED BY <1>5, <1>6, <1>7
<1>9. ASSUME NEW a
      PROVE  a \in T!Atoms(T!Texts(s)) <=> \E i \in 1..n : a \in T!ToSet(s[i].text)
  <2>1. DOMAIN T!Texts(s) = 1..n /\ \A i \in 1..n : T!Texts(s)[i] = s[i].text
    BY <1>1 DEF T!Texts
  <2> QED BY <2>1, AtomsIs
<1>10. ASSUME NEW a
       PROVE  a \in T!Atoms(T!OfMode(s, "steer")) \cup T!Atoms(T!OfMode(s, "followUp"))
              <=> a \in T!Atoms(T!Texts(s))
  <2>1. \A i \in 1..n : s[i].mode = "steer" \/ s[i].mode = "followUp"
    BY <1>1 DEF T!Modes
  <2> QED BY <1>8, <1>9, <2>1
<1> QED BY <1>5, <1>10

\* One copy of a text leaves a list, the others keep their order.
LEMMA FirstRemoved ==
  ASSUME NEW S, NEW s \in Seq(S), NEW e
  PROVE  LET r == T!RemoveFirst(s, e)
         IN  /\ e \notin T!ToSet(s) => r = s
             /\ e \in T!ToSet(s) =>
                  \E k \in 1..Len(s) : /\ s[k] = e /\ r \in Seq(S) /\ Len(r) = Len(s) - 1
                                       /\ \A i \in 1..(k - 1) : r[i] = s[i]
                                       /\ \A i \in k..(Len(s) - 1) : r[i] = s[i + 1]
<1> DEFINE r == T!RemoveFirst(s, e)
           N == { i \in 1..Len(s) : s[i] = e }
<1>0. DOMAIN s = 1..Len(s) /\ Len(s) \in Nat
  BY LenProperties
<1>1. ASSUME e \notin T!ToSet(s) PROVE r = s
  <2>1. ~\E i \in 1..Len(s) : s[i] = e
    BY <1>0, <1>1, Zenon DEF T!ToSet
  <2> QED BY <2>1, Zenon DEF T!RemoveFirst
<1>2. ASSUME e \in T!ToSet(s)
      PROVE  \E k \in 1..Len(s) : /\ s[k] = e /\ r \in Seq(S) /\ Len(r) = Len(s) - 1
                                  /\ \A i \in 1..(k - 1) : r[i] = s[i]
                                  /\ \A i \in k..(Len(s) - 1) : r[i] = s[i + 1]
  <2>1. \E i \in 1..Len(s) : s[i] = e
    BY <1>0, <1>2, Zenon DEF T!ToSet
  <2> DEFINE k == T!Min(N)
  <2>2. T!SelectInSeq(s, LAMBDA v : v = e) = IF N # {} THEN k ELSE 0
    BY DEF T!SelectInSeq
  <2>3. k \in N
    <3>1. N \in SUBSET Nat /\ N # {}
      BY <1>0, <2>1
    <3> HIDE DEF N
    <3>2. \E x \in N : \A y \in N : x <= y
      BY <3>1, LeastExists
    <3> QED BY <3>2, Zenon DEF T!Min
  <2>4. r = T!RemoveAt(s, k)
    <3>1. N # {}
      BY <2>1
    <3> HIDE DEF N, k
    <3> QED BY <2>1, <2>2, <3>1, Zenon DEF T!RemoveFirst
  <2> HIDE DEF k
  <2>5. k \in 1..Len(s) /\ s[k] = e
    BY <2>3
  <2> DEFINE a == SubSeq(s, 1, k - 1)
             b == SubSeq(s, k + 1, Len(s))
  <2>6. a \in Seq(S) /\ Len(a) = k - 1 /\ \A i \in 1..(k - 1) : a[i] = s[i]
    BY <1>0, <2>5
  <2>7. /\ b \in Seq(S) /\ Len(b) = Len(s) - k
        /\ \A i \in 1..(Len(s) - k) : b[i] = s[i + k]
    <3> DEFINE n == Len(s)
               p == k + 1
    <3>1. /\ n \in Nat /\ k \in 1..n /\ p \in Int /\ n \in Int
          /\ \A i \in p..n : s[i] \in S
      <4>1. \A i \in p..n : i \in 1..n
        BY <1>0, <2>5
      <4> QED BY <1>0, <2>5, <4>1, ElementOfSeq
    <3>2. b = SubSeq(s, p, n)
      BY Zenon
    <3> HIDE DEF b
    <3>3. /\ b \in Seq(S) /\ Len(b) = IF p <= n THEN n - p + 1 ELSE 0
          /\ \A i \in 1..(n - p + 1) : b[i] = s[p + i - 1]
      <4> HIDE DEF p, n
      <4> QED BY <3>1, <3>2, SubSeqProperties
    <3>4. Len(b) = n - k /\ \A i \in 1..(n - k) : b[i] = s[i + k]
      <4>1. (IF p <= n THEN n - p + 1 ELSE 0) = n - k /\ n - p + 1 = n - k
        BY <3>1
      <4>2. \A i \in 1..(n - k) : p + i - 1 = i + k
        BY <3>1
      <4> QED BY <3>3, <4>1, <4>2
    <3> QED BY <3>3, <3>4
  <2>8. r = a \o b
    BY <2>4, Zenon DEF T!RemoveAt
  <2> HIDE DEF a, b, r
  <2>9. /\ r \in Seq(S) /\ Len(r) = Len(a) + Len(b)
        /\ \A i \in 1..(Len(a) + Len(b)) : r[i] = IF i <= Len(a) THEN a[i] ELSE b[i - Len(a)]
    BY <2>6, <2>7, <2>8, ConcatProperties
  <2>10. Len(a) + Len(b) = Len(s) - 1
    BY <1>0, <2>5, <2>6, <2>7
  <2>11. ASSUME NEW i \in 1..(k - 1) PROVE r[i] = s[i]
    <3>1. i \in 1..(Len(a) + Len(b)) /\ i <= Len(a)
      BY <1>0, <2>5, <2>6, <2>10
    <3> QED BY <2>6, <2>9, <3>1
  <2>12. ASSUME NEW i \in k..(Len(s) - 1) PROVE r[i] = s[i + 1]
    <3> DEFINE j == i - Len(a)
    <3>1. i \in 1..(Len(a) + Len(b)) /\ ~(i <= Len(a)) /\ j \in 1..(Len(s) - k) /\ j + k = i + 1
      BY <1>0, <2>5, <2>6, <2>10
    <3>2. r[i] = b[j]
      BY <2>9, <3>1
    <3> HIDE DEF j
    <3> QED BY <2>7, <3>1, <3>2
  <2>13. Len(r) = Len(s) - 1 /\ r \in Seq(S)
    BY <2>9, <2>10
  <2> QED BY <2>5, <2>11, <2>12, <2>13
<1> QED BY <1>1, <1>2 DEF r

(***************************************************************************)
(* Types.                                                                  *)
(***************************************************************************)
LEMMA EmitTypes ==
  ASSUME notices \in Seq(Notices), NEW some \in Seq(Notices), T!Emit(some)
  PROVE  notices' \in Seq(Notices)
<1> DEFINE u == notices \o some
<1>1. u \in Seq(Notices)
  BY ConcatProperties
<1> HIDE DEF u
<1>2. notices' = u \/ notices' = notices
  BY DEF T!Emit, u
<1> QED BY <1>1, <1>2

LEMMA EmittedType ==
  ASSUME NEW type \in NoticeTypes, NEW text \in Text, NEW stop \in T!Stops \cup {""}
  PROVE  /\ T!Emitted(type, text, stop) \in Notices
         /\ T!Emitted(type, text, stop).type = type /\ T!Emitted(type, text, stop).text = text
BY DEF T!Emitted, Notices

LEMMA NoTextIs == T!NoText \in Text /\ T!NoText = <<>>
BY DEF T!NoText, Text

LEMMA PromptTypes ==
  ASSUME TextTypes, NEW c \in T!Callers, NEW stage \in PromptPCs, NEW text \in Text,
         T!PromptAt(c, stage, text)
  PROVE  /\ prompts' \in [T!Callers -> Prompts]
         /\ prompts'[c].pc = stage /\ prompts'[c].text = text
         /\ \A d \in T!Callers : d # c => prompts'[d] = prompts[d]
<1> DEFINE p == [pc |-> stage, text |-> text]
<1>1. p \in Prompts /\ p.pc = stage /\ p.text = text
  BY DEF Prompts
<1>2. prompts' = [prompts EXCEPT ![c] = p]
  BY DEF T!PromptAt
<1> HIDE DEF p
<1> QED BY <1>1, <1>2 DEF TextTypes

\* session.prompt: the text is in hand.
LEMMA CallTypes ==
  ASSUME TextTypes, NEW c \in T!Callers, NEW text \in Text, T!CallPrompt(c, text)
  PROVE  /\ prompts' \in [T!Callers -> Prompts]
         /\ prompts'[c].pc \in {"threw", "ready", "compacting"} /\ prompts'[c].text = text
         /\ \A d \in T!Callers : d # c => prompts'[d] = prompts[d]
<1>1. \E stage \in {"threw", "ready", "compacting"} : T!PromptAt(c, stage, text)
  BY DEF T!CallPrompt
<1>2. \A stage \in {"threw", "ready", "compacting"} : stage \in PromptPCs
  BY DEF PromptPCs
<1> QED BY <1>1, <1>2, PromptTypes

LEMMA EnqueueTypes ==
  ASSUME TextTypes, NEW mode \in T!Modes, NEW text \in Text, T!Enqueue(mode, text)
  PROVE  /\ queues' \in [T!Modes -> Seq(Text)] /\ shown' \in [T!Modes -> Seq(Text)]
         /\ queues'[mode] = Append(queues[mode], text)
         /\ shown'[mode] = Append(shown[mode], text)
         /\ \A other \in T!Modes : other # mode => /\ queues'[other] = queues[other]
                                                   /\ shown'[other] = shown[other]
<1> DEFINE q == Append(queues[mode], text)
           r == Append(shown[mode], text)
           S == Seq(Text)
<1>1. q \in S /\ r \in S
  <2>1. queues[mode] \in Seq(Text) /\ shown[mode] \in Seq(Text)
    BY DEF TextTypes
  <2> QED BY <2>1, AppendProperties
<1>2. queues' = [queues EXCEPT ![mode] = q] /\ shown' = [shown EXCEPT ![mode] = r]
  BY DEF T!Enqueue
<1>3. queues \in [T!Modes -> S] /\ shown \in [T!Modes -> S]
  BY DEF TextTypes
<1> HIDE DEF q, r, S
<1>4. /\ queues' \in [T!Modes -> S] /\ shown' \in [T!Modes -> S]
      /\ queues'[mode] = q /\ shown'[mode] = r
      /\ \A other \in T!Modes : other # mode => /\ queues'[other] = queues[other]
                                                /\ shown'[other] = shown[other]
  BY <1>1, <1>2, <1>3
<1> QED BY <1>4 DEF S, q, r

LEMMA TakeTypes ==
  ASSUME TextTypes, NEW mode \in T!Modes, queues[mode] # <<>>, T!Take(mode)
  PROVE  /\ queues' \in [T!Modes -> Seq(Text)] /\ said' \in Seq(Text)
         /\ Head(queues[mode]) \in Text
         /\ queues'[mode] = Tail(queues[mode]) /\ said' = Append(said, Head(queues[mode]))
         /\ \A other \in T!Modes : other # mode => queues'[other] = queues[other]
<1> DEFINE q == Tail(queues[mode])
           h == Head(queues[mode])
           S == Seq(Text)
<1>1. q \in S /\ h \in Text
  <2>1. queues[mode] \in Seq(Text)
    BY DEF TextTypes
  <2> QED BY <2>1, HeadTailProperties
<1>2. queues' = [queues EXCEPT ![mode] = q] /\ said' = Append(said, h)
  BY DEF T!Take
<1>3. queues \in [T!Modes -> S] /\ said \in S
  BY DEF TextTypes
<1> HIDE DEF q, h
<1>4. said' \in S
  BY <1>1, <1>2, <1>3, AppendProperties
<1> HIDE DEF S
<1>5. /\ queues' \in [T!Modes -> S]
      /\ queues'[mode] = q
      /\ \A other \in T!Modes : other # mode => queues'[other] = queues[other]
  BY <1>1, <1>2, <1>3
<1> QED BY <1>1, <1>2, <1>4, <1>5 DEF S, q, h

\* One flush, if any, begins with all that was held.
LEMMA TakeHeldTypes ==
  ASSUME TextTypes, NEW again \in BOOLEAN, T!TakeHeld(again)
  PROVE  /\ held' = <<>> /\ held' \in Seq(Message) /\ flush' \in [T!Flushes -> Batches]
         /\ \/ held = <<>> /\ flush' = flush
            \/ \E f \in T!Flushes :
                 /\ T!IsFree(f) /\ flush'[f].batch = held /\ flush'[f].rest = held
                 /\ \A g \in T!Flushes : g # f => flush'[g] = flush[g]
<1>1. held' = <<>> /\ held' \in Seq(Message)
  BY DEF T!TakeHeld
<1>2. CASE held = <<>>
  BY <1>1, <1>2 DEF T!TakeHeld, TextTypes
<1>3. CASE held # <<>>
  <2>1. PICK f \in T!Flushes : T!Begin(f, again)
    BY <1>3 DEF T!TakeHeld
  <2> DEFINE r == [batch |-> held, rest |-> held, asked |-> again]
  <2>2. r \in Batches /\ r.batch = held /\ r.rest = held
    BY DEF TextTypes, Batches
  <2>3. T!IsFree(f) /\ flush' = [flush EXCEPT ![f] = r]
    BY <2>1 DEF T!Begin
  <2> HIDE DEF r
  <2>4. /\ flush' \in [T!Flushes -> Batches] /\ flush'[f] = r
        /\ \A g \in T!Flushes : g # f => flush'[g] = flush[g]
    BY <2>2, <2>3 DEF TextTypes
  <2> QED BY <1>1, <2>2, <2>3, <2>4
<1> QED BY <1>2, <1>3

\* _resolveRetry: no text moves.
LEMMA ResolveTypes ==
  ASSUME TextTypes, T!ResolveRetry
  PROVE  /\ prompts' \in [T!Callers -> Prompts]
         /\ \A c \in T!Callers : \/ prompts'[c] = prompts[c]
                                 \/ /\ prompts[c].pc = "waiting" /\ prompts'[c].pc = "idling"
                                    /\ prompts'[c].text = prompts[c].text
<1>1. ASSUME NEW c \in T!Callers
      PROVE  /\ prompts'[c] \in Prompts
             /\ \/ prompts'[c] = prompts[c]
                \/ /\ prompts[c].pc = "waiting" /\ prompts'[c].pc = "idling"
                   /\ prompts'[c].text = prompts[c].text
  <2> DEFINE p == [prompts[c] EXCEPT !.pc = "idling"]
  <2>1. prompts[c] \in Prompts
    BY DEF TextTypes
  <2>2. p \in Prompts /\ p.pc = "idling" /\ p.text = prompts[c].text
    <3>1. "idling" \in PromptPCs
      BY DEF PromptPCs
    <3> QED BY <2>1, <3>1 DEF Prompts
  <2>3. prompts'[c] = IF prompts[c].pc = "waiting" THEN p ELSE prompts[c]
    BY DEF T!ResolveRetry
  <2> HIDE DEF p
  <2> QED BY <2>1, <2>2, <2>3
<1>2. prompts' = [c \in T!Callers |-> prompts'[c]]
  BY DEF T!ResolveRetry
<1> QED BY <1>1, <1>2

LEMMA CheckTypes ==
  ASSUME NEW stop, NEW u, T!CheckCompaction(stop, u)
  PROVE  UNCHANGED <<held, flush>> \/ T!TakeHeld(FALSE)
BY DEF T!CheckCompaction

LEMMA NoticeProcessed ==
  ASSUME TextTypes, notices # <<>>, notices' = Tail(notices)
  PROVE  notices' \in Seq(Notices) /\ Head(notices) \in Notices
BY HeadTailProperties DEF TextTypes

\* An event of a text that begins a run or is taken within one.
LEMMA EmitTwo ==
  ASSUME TextTypes, NEW first \in Notices, NEW second \in Notices,
         T!Emit(<<first>>) \/ T!Emit(<<first, second>>)
  PROVE  notices' \in Seq(Notices)
<1>1. <<first>> \in Seq(Notices) /\ <<first, second>> \in Seq(Notices)
  OBVIOUS
<1> DEFINE a == <<first>>
           b == <<first, second>>
<1>2. a \in Seq(Notices) /\ b \in Seq(Notices) /\ (T!Emit(a) \/ T!Emit(b))
  BY <1>1
<1> HIDE DEF a, b
<1> QED BY <1>2, EmitTypes DEF TextTypes

LEMMA TypesOfPromptStep ==
  ASSUME TextTypes, T!PromptStep
  PROVE  TextTypes'
<1> USE DEF T!texts, T!agent, T!retry, T!compactions, T!bounds, T!history
<1>p. \A stage \in {"none", "waiting", "idling", "threw", "running"} : stage \in PromptPCs
  BY DEF PromptPCs
<1>1. CASE T!LoopRefused
  <2>1. prompts' \in [T!Callers -> Prompts]
    BY <1>1, <1>p, PromptTypes, NoTextIs, Zenon DEF T!LoopRefused, T!Callers
  <2>2. UNCHANGED <<editor, held, flush, queues, shown, notices, said, typed>>
    BY <1>1 DEF T!LoopRefused
  <2> QED BY <2>1, <2>2 DEF TextTypes
<1>2. ASSUME NEW f \in T!Flushes, T!FlushRefused(f) PROVE TextTypes'
  <2>1. prompts' \in [T!Callers -> Prompts]
    BY <1>2, <1>p, PromptTypes, NoTextIs, Zenon DEF T!FlushRefused, T!Callers
  <2>2. UNCHANGED <<editor, flush, notices, said, typed>>
    BY <1>2 DEF T!FlushRefused
  <2>3. queues' = T!Queues /\ shown' = T!Queues /\ held' = flush[f].batch
    BY <1>2 DEF T!FlushRefused, T!RestoreQueue
  <2>4. T!Queues \in [T!Modes -> Seq(Text)]
    BY DEF T!Queues
  <2>5. flush[f].batch \in Seq(Message)
    BY DEF TextTypes, Batches
  <2> QED BY <2>1, <2>2, <2>3, <2>4, <2>5 DEF TextTypes
<1>3. ASSUME NEW f \in T!Flushes, T!FlushNext(f) PROVE TextTypes'
  <2> DEFINE m == Head(flush[f].rest)
             b == [flush[f] EXCEPT !.rest = Tail(@)]
             d == [b EXCEPT !.asked = TRUE]
  <2>1. flush[f] \in Batches /\ flush[f].rest \in Seq(Message) /\ flush[f].rest # <<>>
    BY <1>3 DEF T!FlushNext, TextTypes, Batches
  <2>2. m \in Message /\ Tail(flush[f].rest) \in Seq(Message)
    BY <2>1, HeadTailProperties
  <2>3. b \in Batches
    BY <2>1, <2>2 DEF Batches
  <2>4. d \in Batches
    <3> HIDE DEF b
    <3> QED BY <2>3 DEF Batches
  <2>5. m.text \in Text /\ m.mode \in T!Modes /\ f \in T!Callers
    BY <2>2 DEF Message, T!Callers
  <2>6. UNCHANGED <<editor, held, notices, said, typed>>
    BY <1>3 DEF T!FlushNext
  <2>7. \/ /\ flush' = [flush EXCEPT ![f] = d] /\ T!CallPrompt(f, m.text)
           /\ UNCHANGED <<queues, shown>>
        \/ /\ flush' = [flush EXCEPT ![f] = b] /\ T!Enqueue(m.mode, m.text)
           /\ UNCHANGED prompts
    BY <1>3 DEF T!FlushNext
  <2> HIDE DEF m, b, d
  <2>8. flush' \in [T!Flushes -> Batches]
    BY <2>3, <2>4, <2>7 DEF TextTypes
  <2>9. prompts' \in [T!Callers -> Prompts]
    BY <2>5, <2>7, CallTypes DEF TextTypes
  <2>10. queues' \in [T!Modes -> Seq(Text)] /\ shown' \in [T!Modes -> Seq(Text)]
    BY <2>5, <2>7, EnqueueTypes DEF TextTypes
  <2> QED BY <2>6, <2>8, <2>9, <2>10 DEF TextTypes
<1>4. ASSUME NEW c \in T!Callers, T!StartPrompt(c) PROVE TextTypes'
  <2> DEFINE text == prompts[c].text
             e == T!Emitted("agent_start", T!NoText, "")
             u == T!Emitted("user", text, "")
  <2>1. text \in Text
    BY DEF TextTypes, Prompts
  <2>2. prompts' \in [T!Callers -> Prompts]
    <3>1. T!PromptAt(c, "threw", text) \/ T!PromptAt(c, "running", text)
      BY <1>4, Zenon DEF T!StartPrompt
    <3> HIDE DEF text
    <3> QED BY <1>p, <2>1, <3>1, PromptTypes
  <2>3. UNCHANGED <<editor, held, flush, queues, shown, typed>>
    BY <1>4 DEF T!StartPrompt
  <2>4. \/ UNCHANGED <<notices, said>>
        \/ said' = Append(said, text) /\ T!Emit(<<e, u>>)
    BY <1>4 DEF T!StartPrompt
  <2>5. e \in Notices /\ u \in Notices
    <3>1. "agent_start" \in NoticeTypes /\ "user" \in NoticeTypes /\ "" \in T!Stops \cup {""}
      BY DEF NoticeTypes
    <3> HIDE DEF text
    <3> QED BY <2>1, <3>1, EmittedType, NoTextIs
  <2> HIDE DEF e, u, text
  <2>6. notices' \in Seq(Notices)
    BY <2>4, <2>5, EmitTwo DEF TextTypes
  <2>7. said' \in Seq(Text)
    <3>1. said \in Seq(Text)
      BY DEF TextTypes
    <3>2. Append(said, text) \in Seq(Text)
      BY <2>1, <3>1, AppendProperties
    <3> QED BY <2>4, <3>1, <3>2
  <2> QED BY <2>2, <2>3, <2>6, <2>7 DEF TextTypes
<1>5. ASSUME NEW c \in T!Callers, T!PromptReturns(c) PROVE TextTypes'
  <2>1. T!PromptAt(c, "waiting", T!NoText) \/ T!PromptAt(c, "none", T!NoText)
    BY <1>5, Zenon DEF T!PromptReturns
  <2>2. prompts' \in [T!Callers -> Prompts]
    BY <1>p, <2>1, PromptTypes, NoTextIs
  <2>3. UNCHANGED <<editor, held, flush, queues, shown, notices, said, typed>>
    BY <1>5 DEF T!PromptReturns
  <2> QED BY <2>2, <2>3 DEF TextTypes
<1> QED BY <1>1, <1>2, <1>3, <1>4, <1>5 DEF T!PromptStep

LEMMA TypesOfAgentStep ==
  ASSUME TextTypes, EscapeTypes, T!AgentStep
  PROVE  TextTypes'
<1> USE DEF T!texts, T!agent, T!retry, T!compactions, T!bounds, T!history
<1> DEFINE Head1(mode) == T!Emitted("user", Head(queues[mode]), "")
           start == T!Emitted("agent_start", T!NoText, "")
<1>s. "steer" \in T!Modes /\ "followUp" \in T!Modes /\ "" \in T!Stops \cup {""}
      /\ "agent_start" \in NoticeTypes /\ "user" \in NoticeTypes /\ "reply" \in NoticeTypes
      /\ "agent_end" \in NoticeTypes
  BY DEF T!Modes, NoticeTypes
<1>h. \A mode \in T!Modes : queues[mode] # <<>> => Head1(mode) \in Notices
  <2>1. \A mode \in T!Modes : queues[mode] # <<>> => Head(queues[mode]) \in Text
    BY HeadTailProperties DEF TextTypes
  <2> QED BY <2>1, <1>s, EmittedType
<1>e. start \in Notices
  BY <1>s, EmittedType, NoTextIs
<1> HIDE DEF start, Head1
<1>1. CASE T!Poll
  <2>1. UNCHANGED <<editor, held, flush, prompts, shown, typed>>
    BY <1>1 DEF T!Poll
  <2>2. CASE queues["steer"] = <<>>
    <3>1. UNCHANGED <<queues, notices, said>>
      BY <1>1, <2>2 DEF T!Poll
    <3> QED BY <2>1, <3>1 DEF TextTypes
  <2>3. CASE queues["steer"] # <<>>
    <3>1. T!Take("steer") /\ T!Emit(<<Head1("steer")>>)
      BY <1>1, <2>3 DEF T!Poll, Head1
    <3>2. queues' \in [T!Modes -> Seq(Text)] /\ said' \in Seq(Text)
      BY <1>s, <2>3, <3>1, TakeTypes
    <3>3. notices' \in Seq(Notices)
      BY <1>h, <1>s, <2>3, <3>1, EmitTwo
    <3> QED BY <2>1, <3>2, <3>3 DEF TextTypes
  <2> QED BY <2>2, <2>3
<1>2. ASSUME NEW stop \in T!Stops, T!Reply(stop) PROVE TextTypes'
  <2> DEFINE replied == T!Emitted("reply", T!NoText, stop)
  <2>0. replied \in Notices
    BY <1>s, EmittedType, NoTextIs
  <2>1. UNCHANGED <<editor, held, flush, prompts, shown, typed>>
    BY <1>2 DEF T!Reply
  <2>2. \/ /\ queues["followUp"] # <<>> /\ T!Take("followUp")
           /\ T!Emit(<<replied, Head1("followUp")>>)
        \/ T!Emit(<<replied>>) /\ UNCHANGED <<queues, said>>
    BY <1>2 DEF T!Reply, Head1
  <2> HIDE DEF replied
  <2>3. CASE queues["followUp"] # <<>> /\ T!Take("followUp")
             /\ T!Emit(<<replied, Head1("followUp")>>)
    <3>2. queues' \in [T!Modes -> Seq(Text)] /\ said' \in Seq(Text)
      BY <1>s, <2>3, TakeTypes
    <3>3. notices' \in Seq(Notices)
      BY <1>h, <1>s, <2>0, <2>3, EmitTwo
    <3> QED BY <2>1, <3>2, <3>3 DEF TextTypes
  <2>4. CASE T!Emit(<<replied>>) /\ UNCHANGED <<queues, said>>
    <3>1. notices' \in Seq(Notices)
      BY <2>0, <2>4, EmitTwo
    <3> QED BY <2>1, <2>4, <3>1 DEF TextTypes
  <2> QED BY <2>2, <2>3, <2>4
<1>3. CASE T!EndRun
  <2> DEFINE e == T!Emitted("agent_end", T!NoText, run.last)
             p == [prompts[run.owner] EXCEPT !.pc = "returned"]
  <2>1. e \in Notices
    <3>1. run.last \in T!Stops \cup {""}
      BY DEF EscapeTypes, RunTypes
    <3> QED BY <1>s, <3>1, EmittedType, NoTextIs
  <2>2. run.owner \in T!Callers => p \in Prompts
    <3>1. "returned" \in PromptPCs
      BY DEF PromptPCs
    <3>2. run.owner \in T!Callers => prompts[run.owner] \in Prompts
      BY DEF TextTypes
    <3> QED BY <3>1, <3>2 DEF Prompts
  <2>3. T!Emit(<<e>>)
    BY <1>3 DEF T!EndRun
  <2>4. prompts' = IF run.owner \in T!Callers THEN [prompts EXCEPT ![run.owner] = p]
                   ELSE prompts
    BY <1>3 DEF T!EndRun
  <2>5. UNCHANGED <<editor, held, flush, queues, shown, said, typed>>
    BY <1>3 DEF T!EndRun
  <2> HIDE DEF e, p
  <2>6. notices' \in Seq(Notices)
    BY <2>1, <2>3, EmitTwo
  <2>7. prompts' \in [T!Callers -> Prompts]
    BY <2>2, <2>4 DEF TextTypes
  <2> QED BY <2>5, <2>6, <2>7 DEF TextTypes
<1>4. CASE T!TimerFires
  <2> DEFINE mode == IF queues["steer"] # <<>> THEN "steer" ELSE "followUp"
  <2>1. UNCHANGED <<editor, held, flush, prompts, shown, typed>>
    BY <1>4 DEF T!TimerFires
  <2>2. mode \in T!Modes
    BY <1>s
  <2>3. \/ UNCHANGED <<queues, notices, said>>
        \/ /\ queues # T!Queues /\ T!Take(mode) /\ T!Emit(<<start, Head1(mode)>>)
        \/ T!Emit(<<start>>) /\ UNCHANGED <<queues, said>>
    BY <1>4 DEF T!TimerFires, Head1, start
  <2>4. queues # T!Queues => queues[mode] # <<>>
    <3>1. ASSUME queues["steer"] = <<>>, queues["followUp"] = <<>> PROVE queues = T!Queues
      <4>1. queues = [m \in T!Modes |-> queues[m]]
        BY DEF TextTypes
      <4>2. \A m \in T!Modes : queues[m] = <<>>
        BY <3>1 DEF T!Modes
      <4> QED BY <4>1, <4>2 DEF T!Queues
    <3> QED BY <3>1
  <2> HIDE DEF mode
  <2>5. CASE UNCHANGED <<queues, notices, said>>
    BY <2>1, <2>5 DEF TextTypes
  <2>6. CASE queues # T!Queues /\ T!Take(mode) /\ T!Emit(<<start, Head1(mode)>>)
    <3>2. queues' \in [T!Modes -> Seq(Text)] /\ said' \in Seq(Text)
      BY <2>2, <2>4, <2>6, TakeTypes
    <3>3. notices' \in Seq(Notices)
      BY <1>h, <1>e, <2>2, <2>4, <2>6, EmitTwo
    <3> QED BY <2>1, <3>2, <3>3 DEF TextTypes
  <2>7. CASE T!Emit(<<start>>) /\ UNCHANGED <<queues, said>>
    <3>1. notices' \in Seq(Notices)
      BY <1>e, <2>7, EmitTwo
    <3> QED BY <2>1, <2>7, <3>1 DEF TextTypes
  <2> QED BY <2>3, <2>5, <2>6, <2>7
<1> QED BY <1>1, <1>2, <1>3, <1>4 DEF T!AgentStep

LEMMA TypesOfSessionStep ==
  ASSUME TextTypes, T!SessionStep
  PROVE  TextTypes'
<1> USE DEF T!texts, T!agent, T!retry, T!compactions, T!bounds, T!history
<1>1. CASE UNCHANGED <<editor, held, flush, prompts, queues, said, typed>>
           /\ notices' \in Seq(Notices) /\ shown' \in [T!Modes -> Seq(Text)]
  BY <1>1 DEF TextTypes
<1>2. CASE T!ProcessStart \/ T!ProcessReply \/ T!RetryAgain
  <2>1. /\ UNCHANGED <<editor, held, flush, prompts, queues, said, typed, shown>>
        /\ notices # <<>> /\ notices' = Tail(notices)
    BY <1>2 DEF T!ProcessStart, T!ProcessReply, T!RetryAgain, T!MayProcess
  <2> QED BY <1>1, <2>1, NoticeProcessed DEF TextTypes
<1>3. CASE T!ProcessUser
  <2> DEFINE text == Head(notices).text
             mode == IF text \in T!ToSet(shown["steer"]) THEN "steer" ELSE "followUp"
             r == T!RemoveFirst(shown[mode], text)
             S == Seq(Text)
  <2>1. /\ UNCHANGED <<editor, held, flush, prompts, queues, said, typed>>
        /\ notices # <<>> /\ notices' = Tail(notices)
        /\ shown' = [shown EXCEPT ![mode] = r]
    BY <1>3 DEF T!ProcessUser, T!MayProcess
  <2>2. mode \in T!Modes /\ shown \in [T!Modes -> S]
    BY DEF T!Modes, TextTypes
  <2> HIDE DEF mode, text
  <2>3. r \in S
    <3>1. shown[mode] \in Seq(Text)
      BY <2>2
    <3> QED BY <3>1, FirstRemoved
  <2> HIDE DEF r, S
  <2>4. shown' \in [T!Modes -> S]
    BY <2>1, <2>2, <2>3
  <2> QED BY <1>1, <2>1, <2>4, NoticeProcessed DEF S
<1>4. CASE T!RetrySleepEnds \/ T!CompactIdle
  BY <1>1, <1>4 DEF T!RetrySleepEnds, T!CompactIdle, TextTypes
<1>5. CASE T!ProcessEnd
  <2> DEFINE stop == Head(notices).stop
             after == T!AgentEnded(ui)
             u == IF stop = "error" THEN T!RetryEnded(after) ELSE after
  <2>1. /\ UNCHANGED <<editor, queues, shown, said, typed>>
        /\ notices # <<>> /\ notices' = Tail(notices)
        /\ T!ResolveRetry /\ T!CheckCompaction(stop, u)
    BY <1>5 DEF T!ProcessEnd, T!MayProcess
  <2> HIDE DEF stop, u
  <2>2. prompts' \in [T!Callers -> Prompts]
    BY <2>1, ResolveTypes
  <2>3. held' \in Seq(Message) /\ flush' \in [T!Flushes -> Batches]
    BY <2>1, CheckTypes, TakeHeldTypes DEF TextTypes
  <2>4. notices' \in Seq(Notices)
    BY <2>1, NoticeProcessed
  <2> QED BY <2>1, <2>2, <2>3, <2>4 DEF TextTypes
<1>6. ASSUME NEW c \in T!Compactors, NEW whole \in BOOLEAN, T!EndCompaction(c, whole)
      PROVE  TextTypes'
  <2> DEFINE p == [prompts[c] EXCEPT !.pc = "ready"]
             again == whole /\ compaction[c].again
  <2>1. again \in BOOLEAN /\ T!TakeHeld(again)
    BY <1>6 DEF T!EndCompaction
  <2>2. UNCHANGED <<editor, queues, shown, notices, said, typed>>
    BY <1>6 DEF T!EndCompaction
  <2>3. prompts' = IF c \in T!Callers THEN [prompts EXCEPT ![c] = p] ELSE prompts
    BY <1>6 DEF T!EndCompaction
  <2>4. c \in T!Callers => p \in Prompts
    <3>1. "ready" \in PromptPCs
      BY DEF PromptPCs
    <3>2. c \in T!Callers => prompts[c] \in Prompts
      BY DEF TextTypes
    <3> QED BY <3>1, <3>2 DEF Prompts
  <2> HIDE DEF p, again
  <2>5. held' \in Seq(Message) /\ flush' \in [T!Flushes -> Batches]
    BY <2>1, TakeHeldTypes
  <2>6. prompts' \in [T!Callers -> Prompts]
    BY <2>3, <2>4 DEF TextTypes
  <2> QED BY <2>2, <2>5, <2>6 DEF TextTypes
<1> QED BY <1>2, <1>3, <1>4, <1>5, <1>6 DEF T!SessionStep

\* What comes back to the editor.
LEMMA TakenTypes ==
  ASSUME TextTypes, T!TakeBack
  PROVE  LET listed == T!AllQueued("steer") \o T!AllQueued("followUp")
         IN  /\ editor' \in Text /\ held' \in Seq(Message)
             /\ queues' = T!Queues /\ shown' = T!Queues /\ held' = <<>>
             /\ T!Queues \in [T!Modes -> Seq(Text)]
             /\ T!ToSet(editor') = T!Atoms(listed) \cup T!ToSet(editor)
             /\ T!Atoms(listed) = T!Atoms(shown["steer"]) \cup T!Atoms(shown["followUp"])
                                 \cup T!Atoms(T!Texts(held))
<1> DEFINE S == Seq(Text)
           a == shown["steer"]
           b == T!OfMode(held, "steer")
           c == shown["followUp"]
           d == T!OfMode(held, "followUp")
           ab == a \o b
           cd == c \o d
           listed == ab \o cd
           back == T!FlattenSeq(listed)
           now == back \o editor
<1>1. a \in S /\ b \in S /\ c \in S /\ d \in S
      /\ T!Atoms(b) \cup T!Atoms(d) = T!Atoms(T!Texts(held))
  <2>1. "steer" \in T!Modes /\ "followUp" \in T!Modes
    BY DEF T!Modes
  <2> QED BY <2>1, HeldOfMode DEF TextTypes
<1>2. editor' = now /\ queues' = T!Queues /\ shown' = T!Queues /\ held' = <<>>
      /\ listed = T!AllQueued("steer") \o T!AllQueued("followUp")
  BY Zenon DEF T!TakeBack, T!AllQueued
<1>3. T!Queues \in [T!Modes -> Seq(Text)] /\ held' \in Seq(Message)
  BY <1>2 DEF T!Queues
<1> HIDE DEF a, b, c, d, ab, cd, listed, back, now
<1>4. /\ ab \in S /\ T!Atoms(ab) = T!Atoms(a) \cup T!Atoms(b)
      /\ cd \in S /\ T!Atoms(cd) = T!Atoms(c) \cup T!Atoms(d)
  BY <1>1, AtomsOfSequence, ConcatProperties DEF ab, cd
<1>5. listed \in S /\ T!Atoms(listed) = T!Atoms(ab) \cup T!Atoms(cd)
  BY <1>4, AtomsOfSequence, ConcatProperties DEF listed
<1>6. back \in Text /\ T!ToSet(back) = T!Atoms(listed)
  BY <1>5, FlattenHolds DEF back, Text
<1>7. editor \in Text
  BY DEF TextTypes
<1>8. now \in Text /\ T!ToSet(now) = T!ToSet(back) \cup T!ToSet(editor)
  BY <1>6, <1>7, SetOfSequence, ConcatProperties DEF now, Text
<1>9. T!Atoms(listed) = T!Atoms(a) \cup T!Atoms(c) \cup T!Atoms(T!Texts(held))
  BY <1>1, <1>4, <1>5
<1> QED BY <1>2, <1>3, <1>6, <1>8, <1>9 DEF a, c

LEMMA TypesOfUserStep ==
  ASSUME TextTypes, T!UserStep
  PROVE  TextTypes'
<1> USE DEF T!texts, T!agent, T!retry, T!compactions, T!bounds, T!history
<1>1. CASE T!Dequeue \/ T!Escape
  <2>1. T!TakeBack /\ UNCHANGED <<flush, prompts, notices, said, typed>>
    BY <1>1 DEF T!Dequeue, T!Escape
  <2>2. /\ editor' \in Text /\ held' \in Seq(Message)
        /\ queues' = T!Queues /\ shown' = T!Queues
        /\ T!Queues \in [T!Modes -> Seq(Text)]
    BY <2>1, TakenTypes
  <2> QED BY <2>1, <2>2 DEF TextTypes
<1>2. CASE T!EscapeRetry
  <2>1. /\ T!ResolveRetry /\ UNCHANGED <<editor, queues, shown, notices, said, typed>>
        /\ T!CheckCompaction("error", T!RetryEnded(ui)) \/ UNCHANGED <<held, flush>>
    BY <1>2 DEF T!EscapeRetry, T!AbortRetry
  <2>2. prompts' \in [T!Callers -> Prompts]
    BY <2>1, ResolveTypes
  <2>3. held' \in Seq(Message) /\ flush' \in [T!Flushes -> Batches]
    BY <2>1, CheckTypes, TakeHeldTypes DEF TextTypes
  <2> QED BY <2>1, <2>2, <2>3 DEF TextTypes
<1>3. CASE T!Compact
  <2>1. T!ResolveRetry
        /\ UNCHANGED <<editor, held, flush, queues, shown, notices, said, typed>>
    BY <1>3 DEF T!Compact
  <2> QED BY <2>1, ResolveTypes DEF TextTypes
<1>4. ASSUME NEW mode \in T!Modes, T!Submit(mode) PROVE TextTypes'
  <2> DEFINE text == Append(editor, typed + 1)
             m == [text |-> text, mode |-> mode]
  <2>1. text \in Text /\ T!Remains(mode, text) \in Text /\ typed' \in Nat
    <3>1. text \in Text
      BY AppendProperties DEF TextTypes, Text
    <3>2. typed' \in Nat
      BY <1>4 DEF T!Submit, TextTypes
    <3> HIDE DEF text
    <3> QED BY <3>1, <3>2, NoTextIs DEF T!Remains
  <2>2. UNCHANGED <<flush, notices>> /\ editor' = T!Remains(mode, text)
    BY <1>4 DEF T!Submit
  <2>3. /\ held' = held \/ held' = Append(held, m)
        /\ said' = said \/ said' = Append(said, text)
        /\ prompts' = prompts \/ T!CallPrompt(T!Loop, text)
        /\ UNCHANGED <<queues, shown>> \/ T!Enqueue(mode, text)
    BY <1>4 DEF T!Submit, T!Hold
  <2>m. text \in Text => m \in Message
    BY DEF Message
  <2> HIDE DEF text, m
  <2>4. held' \in Seq(Message)
    <3>1. m \in Message /\ held \in Seq(Message)
      BY <2>1, <2>m DEF TextTypes
    <3> QED BY <2>3, <3>1, AppendProperties
  <2>5. said' \in Seq(Text)
    <3>1. said \in Seq(Text)
      BY DEF TextTypes
    <3> QED BY <2>1, <2>3, <3>1, AppendProperties
  <2>6. prompts' \in [T!Callers -> Prompts]
    <3>1. T!Loop \in T!Callers
      BY DEF T!Callers
    <3> QED BY <2>1, <2>3, <3>1, CallTypes DEF TextTypes
  <2>7. queues' \in [T!Modes -> Seq(Text)] /\ shown' \in [T!Modes -> Seq(Text)]
    BY <2>1, <2>3, EnqueueTypes DEF TextTypes
  <2> QED BY <2>1, <2>2, <2>4, <2>5, <2>6, <2>7 DEF TextTypes
<1> QED BY <1>1, <1>2, <1>3, <1>4 DEF T!UserStep

\* /tree: nothing moves but the text of the prompt that was chosen, which the editor gets.
ToTheEditor ==
  \/ UNCHANGED <<editor, repeated>>
  \/ \E i \in DOMAIN said : /\ editor = <<>> /\ editor' = said[i]
                          /\ repeated' = repeated \cup T!ToSet(said[i])

LEMMA NavigationTexts ==
  ASSUME T!NavigationStep
  PROVE  /\ UNCHANGED <<held, flush, unheard, prompts, queues, shown, notices>>
         /\ UNCHANGED <<run, compaction, typed, said, dropped>>
         /\ ToTheEditor
<1> USE DEF T!texts, T!agent, T!retry, T!compactions, T!bounds, T!history
<1>1. UNCHANGED <<held, flush, unheard, prompts, queues, shown, notices>>
  BY DEF T!NavigationStep, T!Navigate, T!NavigationMoves, T!NavigationEnds, T!NavigationFails
<1>2. UNCHANGED <<run, compaction, typed, said, dropped>>
  BY DEF T!NavigationStep, T!Navigate, T!NavigationMoves, T!NavigationEnds, T!NavigationFails
<1>3. T!NavigationEnds => ToTheEditor
  BY DEF T!NavigationEnds, ToTheEditor, T!NoText
<1>4. ~T!NavigationEnds => UNCHANGED <<editor, repeated>>
  BY DEF T!NavigationStep, T!Navigate, T!NavigationMoves, T!NavigationFails
<1> QED BY <1>1, <1>2, <1>3, <1>4 DEF ToTheEditor

LEMMA TypesStep ==
  ASSUME TextTypes, EscapeTypes, T!Next
  PROVE  TextTypes'
<1>1. CASE T!NavigationStep
  <2>1. /\ UNCHANGED <<held, flush, prompts, queues, shown, notices, run, typed, said>>
        /\ ToTheEditor
    BY <1>1, NavigationTexts
  <2>2. editor' \in Text
    BY <2>1 DEF ToTheEditor, TextTypes
  <2> QED BY <2>1, <2>2 DEF TextTypes
<1> QED BY <1>1, TypesOfPromptStep, TypesOfAgentStep, TypesOfSessionStep, TypesOfUserStep
        DEF T!Next

(***************************************************************************)
(* Where the prompts are, and what is held while nothing is compacted.     *)
(***************************************************************************)
LEMMA PromisesKept ==
  ASSUME Promised,
         T!IsStreaming' /\ run'.owner \in T!Callers =>
           \/ prompts'[run'.owner].pc = "running"
           \/ /\ T!IsStreaming /\ run'.owner = run.owner
              /\ prompts[run.owner].pc = "running" => prompts'[run.owner].pc = "running",
         \A c \in T!Callers : compaction'[c].pc = "running" =>
           \/ prompts'[c].pc = "compacting"
           \/ /\ compaction[c].pc = "running"
              /\ prompts[c].pc = "compacting" => prompts'[c].pc = "compacting",
         \A f \in T!Flushes : flush'[f].rest # <<>> /\ ~flush'[f].asked =>
           \/ prompts'[f].pc = "none"
           \/ /\ flush[f].rest # <<>> /\ ~flush[f].asked
              /\ prompts[f].pc = "none" => prompts'[f].pc = "none"
  PROVE  Promised'
<1>1. ASSUME T!IsStreaming', run'.owner \in T!Callers PROVE prompts'[run'.owner].pc = "running"
  BY <1>1 DEF Promised
<1>2. ASSUME NEW c \in T!Callers, compaction'[c].pc = "running"
      PROVE  prompts'[c].pc = "compacting"
  BY <1>2 DEF Promised
<1>3. ASSUME NEW f \in T!Flushes, flush'[f].rest # <<>>, ~flush'[f].asked
      PROVE  prompts'[f].pc = "none"
  BY <1>3 DEF Promised
<1> QED BY <1>1, <1>2, <1>3 DEF Promised

\* One prompt goes on, that nothing waits for.
LEMMA PromptGoesOn ==
  ASSUME Promised, NEW c \in T!Callers, prompts[c].pc \notin {"running", "compacting"},
         \A d \in T!Callers : d # c => prompts'[d] = prompts[d],
         prompts[c].pc # "none" \/ prompts'[c].pc = "none",
         UNCHANGED <<run, compaction, flush>>
  PROVE  Promised'
<1>1. \A f \in T!Flushes : f \in T!Callers
  BY DEF T!Callers
<1>2. T!IsStreaming' <=> T!IsStreaming
  BY DEF T!IsStreaming
<1>3. ASSUME NEW d \in T!Callers
      PROVE  /\ prompts[d].pc = "running" => prompts'[d].pc = "running"
             /\ prompts[d].pc = "compacting" => prompts'[d].pc = "compacting"
             /\ prompts[d].pc = "none" => prompts'[d].pc = "none"
  <2>1. CASE d # c
    BY <2>1
  <2>2. CASE d = c
    BY <2>2
  <2> QED BY <2>1, <2>2
<1> QED BY <1>1, <1>2, <1>3, PromisesKept

LEMMA LoopIs == T!Loop \in T!Callers /\ T!Loop \notin T!Flushes /\ T!Flushes \subseteq T!Callers
BY RepliesAssumption DEF T!Callers, T!Flushes, T!Loop

\* A prompt begins, with its text in hand.
LEMMA CallPromises ==
  ASSUME Promised, TextTypes, EscapeTypes, NEW c \in T!Callers, NEW text \in Text,
         T!CallPrompt(c, text), prompts[c].pc = "none", UNCHANGED run,
         c \in T!Flushes => flush'[c].asked,
         \A f \in T!Flushes : f # c => flush'[f] = flush[f]
  PROVE  Promised'
<1>1. /\ prompts'[c].pc \in {"threw", "ready", "compacting"}
      /\ \A d \in T!Callers : d # c => prompts'[d] = prompts[d]
  BY CallTypes
<1>2. T!IsStreaming' <=> T!IsStreaming
  BY DEF T!IsStreaming
<1>3. \/ compaction' = compaction
      \/ T!StartCompaction(c, FALSE, ui) /\ T!PromptAt(c, "compacting", text)
  BY DEF T!CallPrompt
<1>4. \A d \in T!Callers : d # c => compaction'[d] = compaction[d]
  BY <1>3, Compacting DEF T!StartCompaction, EscapeTypes, CompactionTypes
<1>5. compaction' = compaction \/ prompts'[c].pc = "compacting"
  <2>1. CASE T!PromptAt(c, "compacting", text)
    <3>1. "compacting" \in PromptPCs
      BY DEF PromptPCs
    <3> QED BY <2>1, <3>1, PromptTypes
  <2> QED BY <1>3, <2>1
<1>6. ASSUME T!IsStreaming', run'.owner \in T!Callers
      PROVE  /\ T!IsStreaming /\ run'.owner = run.owner
             /\ prompts[run.owner].pc = "running" => prompts'[run.owner].pc = "running"
  <2>1. CASE run.owner = c
    BY <1>2, <1>6, <2>1
  <2>2. CASE run.owner # c
    BY <1>1, <1>2, <1>6, <2>2
  <2> QED BY <2>1, <2>2
<1>7. ASSUME NEW d \in T!Callers, compaction'[d].pc = "running"
      PROVE  \/ prompts'[d].pc = "compacting"
             \/ /\ compaction[d].pc = "running"
                /\ prompts[d].pc = "compacting" => prompts'[d].pc = "compacting"
  <2>1. CASE d = c
    BY <1>5, <1>7, <2>1
  <2>2. CASE d # c
    BY <1>1, <1>4, <1>7, <2>2
  <2> QED BY <2>1, <2>2
<1>8. ASSUME NEW f \in T!Flushes, flush'[f].rest # <<>>, ~flush'[f].asked
      PROVE  /\ flush[f].rest # <<>> /\ ~flush[f].asked
             /\ prompts[f].pc = "none" => prompts'[f].pc = "none"
  BY <1>1, <1>8, LoopIs
<1> QED BY <1>6, <1>7, <1>8, PromisesKept

\* No prompt changes but for those that wait for a retry; a flush may begin.
LEMMA PromisesResolved ==
  ASSUME Promised, TextTypes,
         UNCHANGED prompts \/ T!ResolveRetry,
         UNCHANGED <<held, flush>> \/ \E again \in BOOLEAN : T!TakeHeld(again),
         T!IsStreaming' <=> T!IsStreaming, run'.owner = run.owner,
         \A c \in T!Callers : compaction'[c].pc = "running" => compaction[c].pc = "running"
  PROVE  Promised'
<1>1. ASSUME NEW c \in T!Callers
      PROVE  \/ prompts'[c] = prompts[c]
             \/ prompts[c].pc = "waiting" /\ prompts'[c].pc = "idling"
  BY ResolveTypes
<1>2. ASSUME NEW f \in T!Flushes, flush'[f].rest # <<>>, ~flush'[f].asked
      PROVE  \/ prompts'[f].pc = "none"
             \/ /\ flush[f].rest # <<>> /\ ~flush[f].asked
                /\ prompts[f].pc = "none" => prompts'[f].pc = "none"
  <2>1. f \in T!Callers
    BY LoopIs
  <2>2. CASE flush'[f] = flush[f]
    BY <1>1, <1>2, <2>1, <2>2
  <2>3. CASE T!IsFree(f)
    <3>1. prompts[f].pc = "none"
      BY <2>3 DEF T!IsFree, T!NoPrompt
    <3> QED BY <1>1, <2>1, <3>1
  <2>4. flush'[f] = flush[f] \/ T!IsFree(f)
    BY TakeHeldTypes
  <2> QED BY <2>2, <2>3, <2>4
<1>3. \A c \in T!Callers : prompts[c].pc = "running" => prompts'[c].pc = "running"
  BY <1>1
<1>4. \A c \in T!Callers : prompts[c].pc = "compacting" => prompts'[c].pc = "compacting"
  BY <1>1
<1> QED BY <1>2, <1>3, <1>4, PromisesKept

\* A compaction of another begins or ends.
LEMMA CheckStarts ==
  ASSUME EscapeTypes, NEW stop, NEW u, T!CheckCompaction(stop, u)
  PROVE  \A c \in T!Callers : compaction'[c] = compaction[c]
<1>1. T!EventQueue \notin T!Callers
  BY RepliesAssumption DEF T!EventQueue, T!Callers, T!Flushes, T!Loop
<1>2. compaction' = compaction \/ \E again \in BOOLEAN : T!StartCompaction(T!EventQueue, again, u)
  BY DEF T!CheckCompaction, T!compactions
<1> QED BY <1>1, <1>2, Compacting DEF T!StartCompaction, EscapeTypes, CompactionTypes

LEMMA PromisedAtPrompt ==
  ASSUME TextTypes, EscapeTypes, Promised, T!PromptStep
  PROVE  Promised'
<1> USE DEF T!texts, T!agent, T!retry, T!compactions, T!bounds, T!history
<1>p. \A stage \in {"none", "waiting", "idling", "threw", "running"} : stage \in PromptPCs
  BY DEF PromptPCs
<1>1. ASSUME NEW c \in T!Callers, prompts[c].pc = "threw", T!PromptAt(c, "none", T!NoText),
             UNCHANGED <<run, compaction, flush>>
      PROVE  Promised'
  BY <1>1, <1>p, PromptTypes, PromptGoesOn, NoTextIs
<1>2. CASE T!LoopRefused
  BY <1>1, <1>2, LoopIs DEF T!LoopRefused
<1>3. ASSUME NEW f \in T!Flushes, T!FlushRefused(f) PROVE Promised'
  BY <1>1, <1>3, LoopIs DEF T!FlushRefused
<1>4. ASSUME NEW f \in T!Flushes, T!FlushNext(f) PROVE Promised'
  <2> DEFINE m == Head(flush[f].rest)
             b == [flush[f] EXCEPT !.rest = Tail(@)]
             d == [b EXCEPT !.asked = TRUE]
  <2>1. flush[f] \in Batches /\ flush[f].rest \in Seq(Message) /\ flush[f].rest # <<>>
    BY <1>4 DEF T!FlushNext, TextTypes, Batches
  <2>2. m \in Message
    BY <2>1, HeadTailProperties
  <2>3. m.text \in Text /\ f \in T!Callers
    BY <2>2, LoopIs DEF Message
  <2>4. b.asked = flush[f].asked /\ d.asked = TRUE
    <3>1. b \in [batch : Seq(Message), rest : {Tail(flush[f].rest)}, asked : BOOLEAN]
      BY <2>1 DEF Batches
    <3>2. b.asked = flush[f].asked
      BY <2>1 DEF Batches
    <3> HIDE DEF b
    <3> QED BY <3>1, <3>2
  <2>5. \/ /\ ~flush[f].asked /\ flush' = [flush EXCEPT ![f] = d] /\ T!CallPrompt(f, m.text)
        \/ /\ flush[f].asked /\ flush' = [flush EXCEPT ![f] = b]
           /\ UNCHANGED <<prompts, compaction>>
    BY <1>4 DEF T!FlushNext
  <2>6. UNCHANGED run
    BY <1>4 DEF T!FlushNext
  <2> HIDE DEF m, b, d
  <2>7. flush'[f].asked /\ \A g \in T!Flushes : g # f => flush'[g] = flush[g]
    BY <2>4, <2>5 DEF TextTypes
  <2>8. CASE ~flush[f].asked /\ T!CallPrompt(f, m.text)
    <3>1. prompts[f].pc = "none"
      BY <2>1, <2>8 DEF Promised
    <3> QED BY <2>3, <2>6, <2>7, <2>8, <3>1, CallPromises
  <2>9. CASE UNCHANGED <<prompts, compaction>>
    <3>1. T!IsStreaming' <=> T!IsStreaming
      BY <2>6 DEF T!IsStreaming
    <3>2. \A g \in T!Flushes : flush'[g].rest # <<>> /\ ~flush'[g].asked =>
            flush[g].rest # <<>> /\ ~flush[g].asked
      BY <2>7
    <3> QED BY <2>6, <2>9, <3>1, <3>2, PromisesKept
  <2> QED BY <2>5, <2>8, <2>9
<1>5. ASSUME NEW c \in T!Callers, T!StartPrompt(c) PROVE Promised'
  <2>0. prompts[c].text \in Text /\ prompts[c].pc = "ready" /\ UNCHANGED <<flush, compaction>>
    BY <1>5 DEF TextTypes, Prompts, T!StartPrompt
  <2>1. CASE T!IsStreaming
    <3>1. T!PromptAt(c, "threw", prompts[c].text) /\ UNCHANGED run
      BY <1>5, <2>1 DEF T!StartPrompt
    <3>2. \A e \in T!Callers : e # c => prompts'[e] = prompts[e]
      BY <1>p, <2>0, <3>1, PromptTypes
    <3> QED BY <2>0, <3>1, <3>2, PromptGoesOn
  <2>2. CASE ~T!IsStreaming
    <3>1. T!PromptAt(c, "running", prompts[c].text) /\ T!StartRun("poll", c)
      BY <1>5, <2>2 DEF T!StartPrompt
    <3>2. prompts'[c].pc = "running" /\ \A e \in T!Callers : e # c => prompts'[e] = prompts[e]
      BY <1>p, <2>0, <3>1, PromptTypes
    <3>3. run'.owner = c
      BY <3>1, Compacting DEF T!StartRun, T!NoRun
    <3>4. \A e \in T!Callers : /\ prompts[e].pc = "compacting" => prompts'[e].pc = "compacting"
                               /\ prompts[e].pc = "none" => prompts'[e].pc = "none"
      BY <2>0, <3>2
    <3> QED BY <2>0, <3>2, <3>3, <3>4, PromisesKept, LoopIs
  <2> QED BY <2>1, <2>2
<1>6. ASSUME NEW c \in T!Callers, T!PromptReturns(c) PROVE Promised'
  <2>1. /\ T!PromptAt(c, "waiting", T!NoText) \/ T!PromptAt(c, "none", T!NoText)
        /\ prompts[c].pc \in {"returned", "idling"}
        /\ UNCHANGED <<run, compaction, flush>>
    BY <1>6 DEF T!PromptReturns
  <2>2. \A e \in T!Callers : e # c => prompts'[e] = prompts[e]
    BY <1>p, <2>1, PromptTypes, NoTextIs
  <2> QED BY <2>1, <2>2, PromptGoesOn
<1> QED BY <1>2, <1>3, <1>4, <1>5, <1>6 DEF T!PromptStep

LEMMA PromisedAtAgent ==
  ASSUME TextTypes, EscapeTypes, Promised, T!AgentStep
  PROVE  Promised'
<1> USE DEF T!texts, T!agent, T!retry, T!compactions, T!bounds, T!history
<1>t. run \in RunTypes
  BY DEF EscapeTypes
<1>1. ASSUME UNCHANGED <<prompts, compaction, flush>>,
             T!IsStreaming' /\ run'.owner \in T!Callers => T!IsStreaming /\ run'.owner = run.owner
      PROVE  Promised'
  BY <1>1, PromisesKept
<1>2. CASE T!Poll
  BY <1>1, <1>2, <1>t DEF T!Poll, T!IsStreaming, RunTypes
<1>3. ASSUME NEW stop \in T!Stops, T!Reply(stop) PROVE Promised'
  BY <1>1, <1>3, <1>t DEF T!Reply, T!IsStreaming, RunTypes
<1>4. CASE T!EndRun
  <2> DEFINE p == [prompts[run.owner] EXCEPT !.pc = "returned"]
  <2>1. /\ prompts' = IF run.owner \in T!Callers THEN [prompts EXCEPT ![run.owner] = p] ELSE prompts
        /\ run' = T!NoRun /\ run.pc = "ending" /\ UNCHANGED <<compaction, flush>>
    BY <1>4 DEF T!EndRun
  <2>2. T!IsStreaming /\ ~T!IsStreaming'
    BY <2>1 DEF T!IsStreaming, T!NoRun
  <2> HIDE DEF p
  <2>3. \A c \in T!Callers : prompts'[c] = prompts[c] \/ prompts[c].pc = "running"
    BY <2>1, <2>2 DEF Promised, TextTypes
  <2>4. \A c \in T!Callers : /\ prompts[c].pc = "compacting" => prompts'[c].pc = "compacting"
                             /\ prompts[c].pc = "none" => prompts'[c].pc = "none"
    BY <2>3
  <2>5. \A c \in T!Callers : compaction'[c].pc = "running" =>
          /\ compaction[c].pc = "running"
          /\ prompts[c].pc = "compacting" => prompts'[c].pc = "compacting"
    <3>1. compaction' = compaction
      BY <2>1
    <3> QED BY <2>4, <3>1, Zenon
  <2>6. \A f \in T!Flushes : flush'[f].rest # <<>> /\ ~flush'[f].asked =>
          /\ flush[f].rest # <<>> /\ ~flush[f].asked
          /\ prompts[f].pc = "none" => prompts'[f].pc = "none"
    BY <2>1, <2>4, LoopIs
  <2> QED BY <2>2, <2>5, <2>6, PromisesKept
<1>5. CASE T!TimerFires
  <2>1. /\ UNCHANGED <<prompts, compaction, flush>>
        /\ run' = run \/ \E where \in {"poll", "request"} : T!StartRun(where, T!Manual)
    BY <1>5 DEF T!TimerFires
  <2>2. CASE run' = run
    BY <1>1, <2>1, <2>2 DEF T!IsStreaming
  <2>3. CASE \E where \in {"poll", "request"} : T!StartRun(where, T!Manual)
    <3>1. run'.owner = T!Manual
      BY <2>3 DEF T!StartRun, T!NoRun
    <3> QED BY <1>1, <2>1, <3>1, Compacting
  <2> QED BY <2>1, <2>2, <2>3
<1> QED BY <1>2, <1>3, <1>4, <1>5 DEF T!AgentStep

LEMMA PromisedAtSession ==
  ASSUME TextTypes, EscapeTypes, Promised, T!SessionStep
  PROVE  Promised'
<1> USE DEF T!texts, T!agent, T!retry, T!compactions, T!bounds, T!history
<1>1. CASE T!ProcessStart \/ T!ProcessUser \/ T!ProcessReply \/ T!RetryAgain \/ T!RetrySleepEnds
  <2>1. UNCHANGED <<prompts, compaction, flush, run>>
    BY <1>1 DEF T!ProcessStart, T!ProcessUser, T!ProcessReply, T!RetryAgain, T!RetrySleepEnds
  <2> QED BY <2>1, PromisesKept DEF T!IsStreaming
<1>2. CASE T!CompactIdle
  <2>1. UNCHANGED <<prompts, flush, run>> /\ T!StartCompaction(T!Manual, FALSE, ui)
    BY <1>2 DEF T!CompactIdle
  <2>2. \A c \in T!Callers : compaction'[c] = compaction[c]
    BY <2>1, Compacting DEF T!StartCompaction, EscapeTypes, CompactionTypes
  <2> QED BY <2>1, <2>2, PromisesKept DEF T!IsStreaming
<1>3. CASE T!ProcessEnd
  <2> DEFINE stop == Head(notices).stop
             after == T!AgentEnded(ui)
             u == IF stop = "error" THEN T!RetryEnded(after) ELSE after
  <2>1. T!ResolveRetry /\ T!CheckCompaction(stop, u) /\ UNCHANGED run
    BY <1>3 DEF T!ProcessEnd
  <2> HIDE DEF stop, u
  <2>2. UNCHANGED <<held, flush>> \/ T!TakeHeld(FALSE)
    BY <2>1, CheckTypes
  <2>3. \A c \in T!Callers : compaction'[c] = compaction[c]
    BY <2>1, CheckStarts
  <2> QED BY <2>1, <2>2, <2>3, PromisesResolved DEF T!IsStreaming
<1>4. ASSUME NEW c \in T!Compactors, NEW whole \in BOOLEAN, T!EndCompaction(c, whole)
      PROVE  Promised'
  <2> DEFINE p == [prompts[c] EXCEPT !.pc = "ready"]
             again == whole /\ compaction[c].again
  <2>1. again \in BOOLEAN /\ T!TakeHeld(again) /\ compaction[c].pc = "running"
    BY <1>4 DEF T!EndCompaction
  <2>2. UNCHANGED run
    BY <1>4 DEF T!EndCompaction
  <2>3. prompts' = IF c \in T!Callers THEN [prompts EXCEPT ![c] = p] ELSE prompts
    BY <1>4 DEF T!EndCompaction
  <2>4. compaction' = [compaction EXCEPT ![c] = T!NotCompacting]
    BY <1>4 DEF T!EndCompaction
  <2> HIDE DEF p, again
  <2>5. \A d \in T!Callers : prompts'[d] = prompts[d] \/ (d = c /\ prompts[d].pc = "compacting")
    BY <2>1, <2>3 DEF Promised, TextTypes
  <2>6. \A d \in T!Callers :
          compaction'[d].pc = "running" => d # c /\ compaction'[d] = compaction[d]
    BY <2>4, Compacting DEF EscapeTypes, CompactionTypes, T!NotCompacting
  <2>7. \A d \in T!Callers : /\ prompts[d].pc = "running" => prompts'[d].pc = "running"
                             /\ prompts[d].pc = "none" => prompts'[d].pc = "none"
    BY <2>5
  <2>8. ASSUME NEW f \in T!Flushes, flush'[f].rest # <<>>, ~flush'[f].asked
        PROVE  \/ prompts'[f].pc = "none"
               \/ flush[f].rest # <<>> /\ ~flush[f].asked
    <3>1. CASE T!IsFree(f)
      <4>1. prompts[f].pc = "none" /\ f \in T!Callers
        BY <3>1, LoopIs DEF T!IsFree, T!NoPrompt
      <4> QED BY <2>7, <4>1
    <3>2. flush'[f] = flush[f] \/ T!IsFree(f)
      BY <2>1, TakeHeldTypes
    <3> QED BY <2>8, <3>1, <3>2
  <2>9. ASSUME NEW d \in T!Callers, compaction'[d].pc = "running"
        PROVE  compaction[d].pc = "running" /\ prompts'[d] = prompts[d]
    BY <2>5, <2>6, <2>9
  <2>10. (T!IsStreaming' <=> T!IsStreaming) /\ run'.owner = run.owner
    BY <2>2 DEF T!IsStreaming
  <2>11. T!IsStreaming' /\ run'.owner \in T!Callers =>
           /\ T!IsStreaming /\ run'.owner = run.owner
           /\ prompts[run.owner].pc = "running" => prompts'[run.owner].pc = "running"
    <3>1. run.owner \in T!Callers =>
            (prompts[run.owner].pc = "running" => prompts'[run.owner].pc = "running")
      BY <2>7, Zenon
    <3> QED BY <2>10, <3>1, Zenon
  <2>12. \A f \in T!Flushes : flush'[f].rest # <<>> /\ ~flush'[f].asked =>
           \/ prompts'[f].pc = "none"
           \/ /\ flush[f].rest # <<>> /\ ~flush[f].asked
              /\ prompts[f].pc = "none" => prompts'[f].pc = "none"
    BY <2>7, <2>8, LoopIs
  <2> QED BY <2>9, <2>11, <2>12, PromisesKept
<1> QED BY <1>1, <1>2, <1>3, <1>4 DEF T!SessionStep

LEMMA PromisedAtUser ==
  ASSUME TextTypes, EscapeTypes, Promised, T!UserStep
  PROVE  Promised'
<1> USE DEF T!texts, T!agent, T!retry, T!compactions, T!bounds, T!history
<1>r. run \in RunTypes /\ \A b \in BOOLEAN : LET r == [run EXCEPT !.aborted = b]
                                             IN  r.pc = run.pc /\ r.owner = run.owner
  BY DEF EscapeTypes, RunTypes
<1>1. CASE T!Dequeue \/ T!Escape
  <2>1. /\ UNCHANGED <<flush, prompts, compaction>>
        /\ run' = run \/ \E b \in BOOLEAN : run' = [run EXCEPT !.aborted = b]
    BY <1>1 DEF T!Dequeue, T!Escape, T!IsStreaming
  <2>2. (T!IsStreaming' <=> T!IsStreaming) /\ run'.owner = run.owner
    BY <1>r, <2>1 DEF T!IsStreaming
  <2> QED BY <2>1, <2>2, PromisesKept
<1>2. CASE T!EscapeRetry
  <2>1. /\ T!ResolveRetry /\ UNCHANGED run
        /\ T!CheckCompaction("error", T!RetryEnded(ui)) \/ UNCHANGED <<held, flush, compaction>>
    BY <1>2 DEF T!EscapeRetry, T!AbortRetry
  <2>2. UNCHANGED <<held, flush>> \/ T!TakeHeld(FALSE)
    BY <2>1, CheckTypes
  <2>3. \A c \in T!Callers : compaction'[c] = compaction[c]
    BY <2>1, CheckStarts
  <2> QED BY <2>1, <2>2, <2>3, PromisesResolved DEF T!IsStreaming
<1>3. CASE T!Compact
  <2> DEFINE m == [compaction[T!Manual] EXCEPT !.pc = "waiting"]
  <2>1. /\ T!ResolveRetry /\ UNCHANGED <<held, flush>>
        /\ \E b \in BOOLEAN : run' = [run EXCEPT !.aborted = b]
        /\ compaction' = [compaction EXCEPT ![T!Manual] = m]
    BY <1>3 DEF T!Compact, T!IsStreaming
  <2> HIDE DEF m
  <2>2. (T!IsStreaming' <=> T!IsStreaming) /\ run'.owner = run.owner
    BY <1>r, <2>1 DEF T!IsStreaming
  <2>3. \A c \in T!Callers : compaction'[c] = compaction[c]
    BY <2>1, Compacting DEF EscapeTypes, CompactionTypes
  <2> QED BY <2>1, <2>2, <2>3, PromisesResolved
<1>4. ASSUME NEW mode \in T!Modes, T!Submit(mode) PROVE Promised'
  <2> DEFINE text == Append(editor, typed + 1)
  <2>1. text \in Text
    BY AppendProperties DEF TextTypes, Text
  <2>2. UNCHANGED <<flush, run>>
    BY <1>4 DEF T!Submit
  <2>3. UNCHANGED <<prompts, compaction>> \/ (T!IsListening /\ T!CallPrompt(T!Loop, text))
    BY <1>4 DEF T!Submit
  <2> HIDE DEF text
  <2>4. CASE UNCHANGED <<prompts, compaction>>
    BY <2>2, <2>4, PromisesKept DEF T!IsStreaming
  <2>5. CASE T!IsListening /\ T!CallPrompt(T!Loop, text)
    <3>1. prompts[T!Loop].pc = "none"
      BY <2>5 DEF T!IsListening
    <3> QED BY <2>1, <2>2, <2>5, <3>1, CallPromises, LoopIs
  <2> QED BY <2>3, <2>4, <2>5
<1> QED BY <1>1, <1>2, <1>3, <1>4 DEF T!UserStep

LEMMA PromisedStep ==
  ASSUME TextTypes, EscapeTypes, Promised, T!Next
  PROVE  Promised'
<1>1. CASE T!NavigationStep
  <2>1. UNCHANGED <<flush, prompts, run, compaction>>
    BY <1>1, NavigationTexts
  <2> QED BY <2>1, PromisesKept DEF T!IsStreaming
<1> QED BY <1>1, PromisedAtPrompt, PromisedAtAgent, PromisedAtSession, PromisedAtUser DEF T!Next

(***************************************************************************)
(* What is held.                                                           *)
(***************************************************************************)
LEMMA HeldStays ==
  ASSUME T!HeldWhileCompacting,
         \/ held' = <<>>
         \/ /\ (held' = held /\ (unheard => unheard')) \/ T!Compacts' \/ unheard'
            /\ T!Compacts => T!Compacts'
            /\ \A f \in T!Flushes : flush'[f].batch = flush[f].batch
         \/ \E f \in T!Flushes : held' = flush'[f].batch
  PROVE  T!HeldWhileCompacting'
BY DEF T!HeldWhileCompacting

LEMMA GoesOnCompacting ==
  ASSUME EscapeTypes
  PROVE  /\ UNCHANGED compaction => (T!Compacts => T!Compacts')
         /\ \A c \in T!Compactors, again \in BOOLEAN : \A u :
              T!StartCompaction(c, again, u) => T!Compacts'
         /\ \A c \in T!Callers : \A text : T!CallPrompt(c, text) =>
              (T!Compacts => T!Compacts')
         /\ \A stop, u : T!CheckCompaction(stop, u) =>
              \/ held' = <<>>
              \/ UNCHANGED <<held, flush, unheard>> /\ (T!Compacts => T!Compacts')
<1>1. UNCHANGED compaction => (T!Compacts => T!Compacts')
  BY DEF T!Compacts, T!Running
<1>2. ASSUME NEW c \in T!Compactors, NEW again \in BOOLEAN, NEW u, T!StartCompaction(c, again, u)
      PROVE  T!Compacts'
  <2> DEFINE m == [pc |-> "running", again |-> again]
  <2>1. compaction' = [compaction EXCEPT ![c] = m] /\ m.pc = "running"
    BY <1>2 DEF T!StartCompaction
  <2> HIDE DEF m
  <2>2. compaction'[c].pc = "running"
    BY <2>1 DEF EscapeTypes, CompactionTypes
  <2> QED BY <2>2 DEF T!Compacts, T!Running
<1>3. ASSUME NEW c \in T!Callers, NEW text, T!CallPrompt(c, text)
      PROVE  T!Compacts => T!Compacts'
  <2>1. UNCHANGED compaction \/ T!StartCompaction(c, FALSE, ui)
    BY <1>3 DEF T!CallPrompt
  <2> QED BY <1>1, <1>2, <2>1, Compacting
<1>4. ASSUME NEW stop, NEW u, T!CheckCompaction(stop, u)
      PROVE  \/ held' = <<>>
             \/ UNCHANGED <<held, flush, unheard>> /\ (T!Compacts => T!Compacts')
  <2>1. \/ T!TakeHeld(FALSE)
        \/ /\ UNCHANGED <<held, flush, unheard>>
           /\ \/ UNCHANGED compaction
              \/ \E again \in BOOLEAN : T!StartCompaction(T!EventQueue, again, u)
    BY <1>4 DEF T!CheckCompaction, T!compactions
  <2>2. T!TakeHeld(FALSE) => held' = <<>>
    BY DEF T!TakeHeld
  <2> QED BY <1>1, <1>2, <2>1, <2>2, Compacting
<1> QED BY <1>1, <1>2, <1>3, <1>4

LEMMA HeldAtPrompt ==
  ASSUME TextTypes, EscapeTypes, T!HeldWhileCompacting, T!PromptStep
  PROVE  T!HeldWhileCompacting'
<1> USE DEF T!texts, T!agent, T!retry, T!compactions, T!bounds, T!history
<1>1. CASE UNCHANGED <<held, flush, unheard, compaction>>
  BY <1>1, HeldStays, GoesOnCompacting
<1>2. ASSUME NEW f \in T!Flushes, T!FlushRefused(f) PROVE T!HeldWhileCompacting'
  <2>1. held' = flush[f].batch /\ flush' = flush
    BY <1>2 DEF T!FlushRefused, T!RestoreQueue
  <2> QED BY <2>1, HeldStays
<1>3. ASSUME NEW f \in T!Flushes, T!FlushNext(f) PROVE T!HeldWhileCompacting'
  <2> DEFINE b == [flush[f] EXCEPT !.rest = Tail(@)]
             d == [b EXCEPT !.asked = TRUE]
             m == Head(flush[f].rest)
  <2>1. b.batch = flush[f].batch /\ d.batch = flush[f].batch
    <3>1. flush[f] \in Batches
      BY DEF TextTypes
    <3>2. b.batch = flush[f].batch
      BY <3>1 DEF Batches
    <3>3. b \in [batch : {flush[f].batch}, rest : {Tail(flush[f].rest)}, asked : BOOLEAN]
      BY <3>1 DEF Batches
    <3>4. d.batch = b.batch
      <4> HIDE DEF b
      <4> QED BY <3>3
    <3> QED BY <3>2, <3>4
  <2>2. /\ flush' = [flush EXCEPT ![f] = d] \/ flush' = [flush EXCEPT ![f] = b]
        /\ UNCHANGED <<held, unheard>>
        /\ UNCHANGED compaction \/ T!CallPrompt(f, m.text)
    BY <1>3 DEF T!FlushNext
  <2> HIDE DEF b, d, m
  <2>3. \A g \in T!Flushes : flush'[g].batch = flush[g].batch
    BY <2>1, <2>2 DEF TextTypes
  <2>4. T!Compacts => T!Compacts'
    BY <2>2, GoesOnCompacting, LoopIs
  <2> QED BY <2>2, <2>3, <2>4, HeldStays
<1>4. CASE T!LoopRefused
  BY <1>1, <1>4 DEF T!LoopRefused
<1>5. ASSUME NEW c \in T!Callers, T!StartPrompt(c) \/ T!PromptReturns(c)
      PROVE  T!HeldWhileCompacting'
  BY <1>1, <1>5 DEF T!StartPrompt, T!PromptReturns
<1> QED BY <1>2, <1>3, <1>4, <1>5 DEF T!PromptStep

LEMMA HeldAtAgent ==
  ASSUME EscapeTypes, T!HeldWhileCompacting, T!AgentStep
  PROVE  T!HeldWhileCompacting'
<1> USE DEF T!texts, T!agent, T!retry, T!compactions, T!bounds, T!history
<1>1. UNCHANGED <<held, flush, unheard, compaction>>
  BY DEF T!AgentStep, T!Poll, T!Reply, T!EndRun, T!TimerFires
<1> QED BY <1>1, HeldStays, GoesOnCompacting

LEMMA HeldAtSession ==
  ASSUME EscapeTypes, T!HeldWhileCompacting, T!SessionStep
  PROVE  T!HeldWhileCompacting'
<1> USE DEF T!texts, T!agent, T!retry, T!compactions, T!bounds, T!history
<1>1. CASE T!ProcessStart \/ T!ProcessUser \/ T!ProcessReply \/ T!RetryAgain \/ T!RetrySleepEnds
  <2>1. UNCHANGED <<held, flush, unheard, compaction>>
    BY <1>1 DEF T!ProcessStart, T!ProcessUser, T!ProcessReply, T!RetryAgain, T!RetrySleepEnds
  <2> QED BY <2>1, HeldStays, GoesOnCompacting
<1>2. CASE T!CompactIdle
  <2>1. UNCHANGED <<held, flush, unheard>> /\ T!StartCompaction(T!Manual, FALSE, ui)
    BY <1>2 DEF T!CompactIdle
  <2> QED BY <2>1, HeldStays, GoesOnCompacting, Compacting
<1>3. CASE T!ProcessEnd
  <2> DEFINE stop == Head(notices).stop
             after == T!AgentEnded(ui)
             u == IF stop = "error" THEN T!RetryEnded(after) ELSE after
  <2>1. T!CheckCompaction(stop, u)
    BY <1>3 DEF T!ProcessEnd
  <2> HIDE DEF stop, u
  <2> QED BY <2>1, HeldStays, GoesOnCompacting
<1>4. ASSUME NEW c \in T!Compactors, NEW whole \in BOOLEAN, T!EndCompaction(c, whole)
      PROVE  T!HeldWhileCompacting'
  BY <1>4, HeldStays DEF T!EndCompaction, T!TakeHeld
<1> QED BY <1>1, <1>2, <1>3, <1>4 DEF T!SessionStep

LEMMA HeldAtUser ==
  ASSUME EscapeTypes, T!HeldWhileCompacting, T!UserStep
  PROVE  T!HeldWhileCompacting'
<1> USE DEF T!texts, T!agent, T!retry, T!compactions, T!bounds, T!history
<1>1. CASE T!Dequeue \/ T!Escape
  BY <1>1, HeldStays DEF T!Dequeue, T!Escape, T!TakeBack
<1>2. CASE T!EscapeRetry
  <2>1. \/ T!CheckCompaction("error", T!RetryEnded(ui))
        \/ UNCHANGED <<held, flush, unheard, compaction>>
    BY <1>2 DEF T!EscapeRetry, T!AbortRetry
  <2> QED BY <2>1, HeldStays, GoesOnCompacting
<1>3. CASE T!Compact
  <2> DEFINE m == [compaction[T!Manual] EXCEPT !.pc = "waiting"]
  <2>1. /\ UNCHANGED <<held, flush, unheard>> /\ T!Connected
        /\ compaction' = [compaction EXCEPT ![T!Manual] = m]
    BY <1>3 DEF T!Compact
  <2> HIDE DEF m
  <2>2. \A c \in T!Compactors : compaction[c].pc = "running" => compaction'[c].pc = "running"
    BY <2>1, Compacting DEF T!Connected, EscapeTypes, CompactionTypes
  <2>3. T!Compacts => T!Compacts'
    BY <2>2 DEF T!Compacts, T!Running
  <2> QED BY <2>1, <2>3, HeldStays
<1>4. ASSUME NEW mode \in T!Modes, T!Submit(mode) PROVE T!HeldWhileCompacting'
  <2> DEFINE text == Append(editor, typed + 1)
  <2>1. UNCHANGED flush
    BY <1>4 DEF T!Submit
  <2>2. \/ unheard' = (unheard \/ ~T!Compacts) /\ UNCHANGED compaction
        \/ UNCHANGED <<held, unheard>> /\ (UNCHANGED compaction \/ T!CallPrompt(T!Loop, text))
    BY <1>4 DEF T!Submit
  <2> HIDE DEF text
  <2>3. T!Compacts => T!Compacts'
    BY <2>2, GoesOnCompacting, LoopIs
  <2>4. (held' = held /\ (unheard => unheard')) \/ T!Compacts' \/ unheard'
    <3>1. CASE unheard' = (unheard \/ ~T!Compacts)
      BY <2>3, <3>1, Zenon
    <3>2. CASE UNCHANGED <<held, unheard>>
      BY <3>2
    <3> QED BY <2>2, <3>1, <3>2
  <2> QED BY <2>1, <2>3, <2>4, HeldStays
<1> QED BY <1>1, <1>2, <1>3, <1>4 DEF T!UserStep

LEMMA HeldStep ==
  ASSUME TextTypes, EscapeTypes, T!HeldWhileCompacting, T!Next
  PROVE  T!HeldWhileCompacting'
<1>1. CASE T!NavigationStep
  <2>1. UNCHANGED <<held, flush, unheard, compaction>>
    BY <1>1, NavigationTexts
  <2> QED BY <2>1, HeldStays, GoesOnCompacting
<1> QED BY <1>1, HeldAtPrompt, HeldAtAgent, HeldAtSession, HeldAtUser DEF T!Next

(***************************************************************************)
(* Places: a text moves from one to another.                               *)
(***************************************************************************)
LEMMA KeepsIs ==
  /\ Keeps("editor", 0) = T!ToSet(editor)
  /\ Keeps("held", 0) = T!Atoms(T!Texts(held))
  /\ Keeps("said", 0) = T!Said
  /\ \A x : Keeps("queue", x) = T!Atoms(queues[x])
  /\ \A x : Keeps("hand", x) = T!InHand(x)
  /\ \A x : Keeps("sending", x) = T!Sending(x)
BY DEF Keeps

LEMMA KeepsNext ==
  /\ Keeps("editor", 0)' = T!ToSet(editor')
  /\ Keeps("held", 0)' = T!Atoms(T!Texts(held'))
  /\ Keeps("said", 0)' = T!Atoms(said')
  /\ \A x : Keeps("queue", x)' = T!Atoms(queues'[x])
  /\ \A x : Keeps("hand", x)' = T!InHand(x)'
  /\ \A x : Keeps("sending", x)' = T!Sending(x)'
BY DEF Keeps, T!Said

LEMMA PlaceIs ==
  ASSUME NEW k, NEW x
  PROVE  IsPlace(k, x) <=> \/ k = "editor" /\ x = 0
                           \/ k = "held" /\ x = 0
                           \/ k = "said" /\ x = 0
                           \/ k = "queue" /\ x \in T!Modes
                           \/ k = "hand" /\ x \in T!Callers
                           \/ k = "sending" /\ x \in T!Flushes
BY DEF IsPlace

\* What stays as it is holds what it held.
LEMMA KeepsSame ==
  /\ editor' = editor => Keeps("editor", 0)' = Keeps("editor", 0)
  /\ held' = held => Keeps("held", 0)' = Keeps("held", 0)
  /\ said' = said => Keeps("said", 0)' = Keeps("said", 0)
  /\ \A x : queues'[x] = queues[x] => Keeps("queue", x)' = Keeps("queue", x)
  /\ \A x : prompts'[x] = prompts[x] => Keeps("hand", x)' = Keeps("hand", x)
  /\ \A x : flush'[x] = flush[x] => Keeps("sending", x)' = Keeps("sending", x)
BY DEF Keeps, T!Said, T!InHand, T!Sending

\* Some numbers come to one place, or stay in several because they are repeated.
Moves(N, l, y) ==
  /\ N \subseteq 1..typed' /\ typed \in Nat /\ typed' \in Nat /\ typed <= typed'
  /\ repeated \subseteq repeated' /\ repeated' \subseteq 1..typed'
  /\ \A k, x : IsPlace(k, x) /\ ~(k = l /\ x = y) =>
       Keeps(k, x)' \subseteq Keeps(k, x) \cup repeated'
  /\ \A k, x : IsPlace(k, x) /\ ~(k = l /\ x = y) => Keeps(k, x)' \cap N \subseteq repeated'
  /\ Keeps(l, y)' \subseteq Keeps(l, y) \cup N \cup repeated'
  /\ \A a \in 1..typed' :
       a \in dropped \/ a > typed \/ Somewhere(a) => a \in dropped' \/ Somewhere(a)'

LEMMA Moved ==
  ASSUME PlacesInv, NEW N, NEW l, NEW y, Moves(N, l, y)
  PROVE  PlacesInv'
<1> USE DEF Moves
<1>0. \A k, x : IsPlace(k, x)' <=> IsPlace(k, x)
  BY DEF IsPlace
<1>1. Separate'
  <2>1. ASSUME NEW k, NEW x, NEW k2, NEW x2, NEW a,
               IsPlace(k, x), IsPlace(k2, x2), ~(k = k2 /\ x = x2),
               a \in Keeps(k, x)', a \in Keeps(k2, x2)', a \notin repeated'
        PROVE  FALSE
    <3>1. CASE ~(k = l /\ x = y) /\ ~(k2 = l /\ x2 = y)
      <4>1. a \in Keeps(k, x) /\ a \in Keeps(k2, x2)
        BY <2>1, <3>1
      <4> QED BY <2>1, <4>1, Zenon DEF PlacesInv, Separate
    <3>2. CASE k = l /\ x = y
      <4>1. a \in Keeps(k2, x2) /\ a \notin N
        BY <2>1, <3>2
      <4>2. a \in Keeps(k, x)
        BY <2>1, <3>2, <4>1
      <4> QED BY <2>1, <4>1, <4>2, Zenon DEF PlacesInv, Separate
    <3>3. CASE k2 = l /\ x2 = y
      <4>1. a \in Keeps(k, x) /\ a \notin N
        BY <2>1, <3>3
      <4>2. a \in Keeps(k2, x2)
        BY <2>1, <3>3, <4>1
      <4> QED BY <2>1, <4>1, <4>2, Zenon DEF PlacesInv, Separate
    <3> QED BY <3>1, <3>2, <3>3
  <2> QED BY <1>0, <2>1, Zenon DEF Separate
<1>2. Bounded'
  <2>1. 1..typed \subseteq 1..typed'
    OBVIOUS
  <2>2. ASSUME NEW k, NEW x, IsPlace(k, x) PROVE Keeps(k, x)' \subseteq 1..typed'
    <3>1. Keeps(k, x) \subseteq 1..typed
      BY <2>2, Zenon DEF PlacesInv, Bounded
    <3>2. CASE k = l /\ x = y
      BY <2>1, <3>1, <3>2
    <3>3. CASE ~(k = l /\ x = y)
      BY <2>1, <2>2, <3>1, <3>3
    <3> QED BY <3>2, <3>3
  <2> QED BY <1>0, <2>2, Zenon DEF Bounded
<1>3. Found'
  <2>1. ASSUME NEW a \in 1..typed' PROVE a \in dropped' \/ Somewhere(a)'
    <3>1. a \in 1..typed \/ a > typed
      OBVIOUS
    <3>2. a \in 1..typed => a \in dropped \/ Somewhere(a)
      BY Zenon DEF PlacesInv, Found
    <3> QED BY <3>1, <3>2
  <2> QED BY <2>1, Zenon DEF Found
<1> QED BY <1>1, <1>2, <1>3 DEF PlacesInv

LEMMA SomewhereIs ==
  ASSUME NEW a
  PROVE  /\ \A k, x : IsPlace(k, x) /\ a \in Keeps(k, x) => Somewhere(a)
         /\ \A k, x : IsPlace(k, x) /\ a \in Keeps(k, x)' => Somewhere(a)'
<1>1. \A k, x : IsPlace(k, x)' <=> IsPlace(k, x)
  BY DEF IsPlace
<1> QED BY <1>1, Zenon DEF Somewhere

\* Nothing moves.
LEMMA Unmoved ==
  ASSUME PlacesInv, typed \in Nat, UNCHANGED <<typed, dropped>>,
         repeated \subseteq repeated', repeated' \subseteq 1..typed,
         \A k, x : IsPlace(k, x) => Keeps(k, x)' = Keeps(k, x)
  PROVE  PlacesInv'
<1> DEFINE N == {}
<1>1. /\ N \subseteq 1..typed' /\ repeated' \subseteq 1..typed' /\ typed' \in Nat /\ typed <= typed'
      /\ \A k, x : IsPlace(k, x) /\ ~(k = "said" /\ x = 0)
           => Keeps(k, x)' \cap N \subseteq repeated'
  OBVIOUS
<1>2. \A k, x : IsPlace(k, x) => Keeps(k, x)' \subseteq Keeps(k, x) \cup repeated'
  OBVIOUS
<1>3. IsPlace("said", 0)
  BY DEF IsPlace
<1>4. Keeps("said", 0)' \subseteq Keeps("said", 0) \cup N \cup repeated'
  BY <1>3
<1>5. ASSUME NEW a \in 1..typed', a \in dropped \/ a > typed \/ Somewhere(a)
      PROVE  a \in dropped' \/ Somewhere(a)'
  <2>1. ~(a > typed) /\ dropped' = dropped
    OBVIOUS
  <2>2. Somewhere(a) => Somewhere(a)'
    <3>1. ASSUME NEW k, NEW x, IsPlace(k, x), a \in Keeps(k, x) PROVE Somewhere(a)'
      <4>1. a \in Keeps(k, x)'
        BY <3>1, Zenon
      <4> QED BY <3>1, <4>1, SomewhereIs, Zenon
    <3> QED BY <3>1, Zenon DEF Somewhere
  <2> QED BY <1>5, <2>1, <2>2
<1> HIDE DEF N
<1>6. Moves(N, "said", 0)
  BY <1>1, <1>2, <1>4, <1>5 DEF Moves
<1> QED BY <1>6, Moved

\* Some go from one place to another, or are given up.
LEMMA Carried ==
  ASSUME PlacesInv, typed \in Nat, UNCHANGED typed, NEW N, NEW l, NEW y, NEW m, NEW z,
         IsPlace(l, y), IsPlace(m, z), ~(l = m /\ y = z),
         Keeps(m, z) \subseteq Keeps(m, z)' \cup N, Keeps(m, z)' \cap N \subseteq repeated',
         Keeps(m, z)' \subseteq Keeps(m, z), N \subseteq Keeps(m, z),
         \/ Keeps(l, y)' = Keeps(l, y) \cup N /\ dropped' = dropped
         \/ Keeps(l, y)' = Keeps(l, y) /\ dropped' = dropped \cup N,
         \A k, x : IsPlace(k, x) /\ ~(k = l /\ x = y) /\ ~(k = m /\ x = z) =>
           Keeps(k, x)' = Keeps(k, x),
         repeated \subseteq repeated', repeated' \subseteq 1..typed
  PROVE  PlacesInv'
<1>1. N \subseteq 1..typed' /\ repeated' \subseteq 1..typed'
  <2>1. Keeps(m, z) \subseteq 1..typed
    BY Zenon DEF PlacesInv, Bounded
  <2> QED BY <2>1
<1>2. ASSUME NEW k, NEW x, IsPlace(k, x), ~(k = l /\ x = y)
      PROVE  /\ Keeps(k, x)' \subseteq Keeps(k, x) \cup repeated'
             /\ Keeps(k, x)' \cap N \subseteq repeated'
  <2>1. CASE k = m /\ x = z
    BY <2>1
  <2>2. CASE ~(k = m /\ x = z)
    <3>1. Keeps(k, x)' = Keeps(k, x)
      BY <1>2, <2>2, Zenon
    <3>2. Keeps(k, x) \cap Keeps(m, z) \subseteq repeated
      BY <1>2, <2>2, Zenon DEF PlacesInv, Separate
    <3> QED BY <3>1, <3>2
  <2> QED BY <2>1, <2>2
<1>3. Keeps(l, y)' \subseteq Keeps(l, y) \cup N \cup repeated'
  OBVIOUS
<1>4. ASSUME NEW a \in 1..typed',
             a \in dropped \/ a > typed \/ Somewhere(a)
      PROVE  a \in dropped' \/ Somewhere(a)'
  <2>1. ~(a > typed) /\ dropped \subseteq dropped'
    OBVIOUS
  <2>2. CASE a \in dropped
    BY <2>1, <2>2
  <2>3. ASSUME NEW k, NEW x, IsPlace(k, x), a \in Keeps(k, x)
        PROVE  a \in dropped' \/ Somewhere(a)'
    <3>1. CASE k = l /\ x = y
      <4>1. a \in Keeps(k, x)'
        BY <2>3, <3>1
      <4> QED BY <2>3, <4>1, SomewhereIs, Zenon
    <3>2. CASE k = m /\ x = z
      <4>1. a \in Keeps(m, z)' \/ a \in Keeps(l, y)' \/ a \in dropped'
        BY <2>3, <3>2
      <4> QED BY <4>1, SomewhereIs, Zenon
    <3>3. CASE ~(k = l /\ x = y) /\ ~(k = m /\ x = z)
      <4>1. a \in Keeps(k, x)'
        BY <2>3, <3>3, Zenon
      <4> QED BY <2>3, <4>1, SomewhereIs, Zenon
    <3> QED BY <3>1, <3>2, <3>3
  <2>4. Somewhere(a) => a \in dropped' \/ Somewhere(a)'
    BY <2>3, Zenon DEF Somewhere
  <2> QED BY <1>4, <2>1, <2>2, <2>4
<1>5. typed' \in Nat /\ typed <= typed'
  OBVIOUS
<1>6. Moves(N, l, y)
  BY <1>1, <1>2, <1>3, <1>4, <1>5 DEF Moves
<1> QED BY <1>6, Moved

LEMMA ApartKept ==
  ASSUME AllApart, repeated \subseteq repeated',
         said' = said \/ ApartBut(said', repeated'),
         held' = held \/ ApartBut(T!Texts(held'), repeated'),
         \A mode \in T!Modes : queues'[mode] = queues[mode] \/ ApartBut(queues'[mode], repeated'),
         \A f \in T!Flushes :
           \/ flush'[f].rest = flush[f].rest
           \/ ApartBut(T!Texts(flush'[f].rest), repeated'),
         \A f \in T!Flushes :
           \/ flush'[f].batch = flush[f].batch
           \/ ApartBut(T!Texts(flush'[f].batch), repeated')
  PROVE  AllApart'
<1>0. ASSUME NEW s, ApartBut(s, repeated) PROVE ApartBut(s, repeated')
  BY <1>0 DEF ApartBut
<1>1. ApartBut(said', repeated') /\ ApartBut(T!Texts(held'), repeated')
  BY <1>0 DEF AllApart
<1>2. \A mode \in T!Modes : ApartBut(queues'[mode], repeated')
  BY <1>0 DEF AllApart
<1>3. \A f \in T!Flushes : /\ ApartBut(T!Texts(flush'[f].rest), repeated')
                           /\ ApartBut(T!Texts(flush'[f].batch), repeated')
  BY <1>0 DEF AllApart, Batch
<1>4. \A s : ApartBut(s, repeated)' <=> ApartBut(s', repeated')
  BY DEF ApartBut
<1>5. \A s : T!Texts(s)' = T!Texts(s')
  BY DEF T!Texts
<1> QED BY <1>1, <1>2, <1>3, <1>4, <1>5 DEF AllApart, Batch

LEMMA RestoredKept ==
  ASSUME Restored, typed \in Nat, typed' \in Nat, typed <= typed',
         \A f \in T!Flushes :
           \/ /\ flush'[f].batch = flush[f].batch
              /\ Keeps("sending", f)' \subseteq Keeps("sending", f) \cup Keeps("hand", f)
              /\ Keeps("hand", f)' \subseteq Keeps("sending", f) \cup Keeps("hand", f)
           \/ /\ T!Atoms(T!Texts(flush'[f].batch)) \subseteq 1..typed'
              /\ Keeps("sending", f)' \subseteq T!Atoms(T!Texts(flush'[f].batch))
              /\ Keeps("hand", f)' \subseteq T!Atoms(T!Texts(flush'[f].batch))
  PROVE  Restored'
<1>0. 1..typed \subseteq 1..typed'
  OBVIOUS
<1>1. ASSUME NEW f \in T!Flushes
      PROVE  /\ T!Atoms(T!Texts(flush'[f].batch)) \subseteq 1..typed'
             /\ Keeps("sending", f)' \subseteq T!Atoms(T!Texts(flush'[f].batch))
             /\ Keeps("hand", f)' \subseteq T!Atoms(T!Texts(flush'[f].batch))
  <2> DEFINE b == T!Atoms(T!Texts(flush[f].batch))
  <2>1. /\ b \subseteq 1..typed
        /\ Keeps("sending", f) \subseteq b /\ Keeps("hand", f) \subseteq b
    BY KeepsIs DEF Restored, Batch
  <2>2. flush'[f].batch = flush[f].batch => T!Atoms(T!Texts(flush'[f].batch)) = b
    OBVIOUS
  <2> HIDE DEF b
  <2> QED BY <1>0, <2>1, <2>2
<1>2. \A f : Batch(f)' = T!Texts(flush'[f].batch)
  BY DEF Batch, T!Texts
<1>3. \A s : T!Atoms(s)' = T!Atoms(s')
  BY DEF T!Atoms, T!ToSet
<1> QED BY <1>1, <1>2, <1>3, KeepsNext DEF Restored

\* The texts stay where they are.
LEMMA KeptStill ==
  ASSUME KeepInv, typed \in Nat,
         UNCHANGED <<editor, held, said, typed, dropped, repeated, queues, flush>>,
         \A c \in T!Callers : Keeps("hand", c)' = Keeps("hand", c)
  PROVE  KeepInv'
<1>1. \A k, x : IsPlace(k, x) => Keeps(k, x)' = Keeps(k, x)
  BY KeepsSame, PlaceIs
<1>2. PlacesInv'
  <2>1. repeated \subseteq 1..typed
    BY DEF KeepInv, PlacesInv, Bounded
  <2> QED BY <1>1, <2>1, Unmoved DEF KeepInv
<1>3. AllApart'
  BY ApartKept DEF KeepInv
<1>4. Restored'
  <2>1. \A f \in T!Flushes : /\ flush'[f].batch = flush[f].batch
                             /\ Keeps("sending", f)' = Keeps("sending", f)
                             /\ Keeps("hand", f)' = Keeps("hand", f)
    BY KeepsSame, LoopIs
  <2> QED BY <2>1, RestoredKept DEF KeepInv
<1> QED BY <1>2, <1>3, <1>4 DEF KeepInv

\* A prompt that is not refused, nor to be sent yet, has nothing in hand.
LEMMA InHandIs ==
  /\ \A c : Keeps("hand", c) = IF prompts[c].pc \in {"compacting", "ready", "threw"}
                               THEN T!ToSet(prompts[c].text) ELSE {}
  /\ \A c : Keeps("hand", c)' = IF prompts'[c].pc \in {"compacting", "ready", "threw"}
                                THEN T!ToSet(prompts'[c].text) ELSE {}
  /\ \A f : Keeps("sending", f)' = T!Atoms(T!Texts(flush'[f].rest))
BY KeepsIs, KeepsNext DEF T!InHand, T!Sending, T!ToSet, T!Atoms, T!Texts

LEMMA LoopRefusedKeeps ==
  ASSUME KeepInv, TextTypes, T!LoopRefused
  PROVE  KeepInv'
<1> USE DEF T!texts, T!agent, T!retry, T!compactions, T!bounds, T!history
<1> DEFINE N == Keeps("hand", T!Loop)
<1>1. /\ UNCHANGED <<editor, held, said, typed, repeated, queues, flush>>
      /\ prompts[T!Loop].pc = "threw" /\ dropped' = dropped \cup T!ToSet(prompts[T!Loop].text)
      /\ T!PromptAt(T!Loop, "none", T!NoText)
  BY DEF T!LoopRefused
<1>2. /\ prompts'[T!Loop].pc = "none"
      /\ \A d \in T!Callers : d # T!Loop => prompts'[d] = prompts[d]
  <2>1. "none" \in PromptPCs
    BY DEF PromptPCs
  <2> QED BY <1>1, <2>1, PromptTypes, NoTextIs, LoopIs
<1>3. Keeps("hand", T!Loop)' = {} /\ N = T!ToSet(prompts[T!Loop].text)
  BY <1>1, <1>2, InHandIs
<1>4. \A k, x : IsPlace(k, x) /\ ~(k = "hand" /\ x = T!Loop) => Keeps(k, x)' = Keeps(k, x)
  BY <1>1, <1>2, KeepsSame, PlaceIs
<1>5. repeated \subseteq 1..typed /\ typed \in Nat
  BY DEF KeepInv, PlacesInv, Bounded, TextTypes
<1>6. PlacesInv'
  <2>1. /\ IsPlace("said", 0) /\ IsPlace("hand", T!Loop)
        /\ ~("said" = "hand" /\ 0 = T!Loop)
    BY LoopIs, PlaceIs
  <2>2. Keeps("said", 0)' = Keeps("said", 0) /\ dropped' = dropped \cup N
    BY <1>1, <1>3, KeepsSame
  <2>3. \A k, x : IsPlace(k, x) /\ ~(k = "said" /\ x = 0) /\ ~(k = "hand" /\ x = T!Loop) =>
          Keeps(k, x)' = Keeps(k, x)
    BY <1>4
  <2> HIDE DEF N
  <2>4. /\ Keeps("hand", T!Loop) \subseteq Keeps("hand", T!Loop)' \cup N
        /\ Keeps("hand", T!Loop)' \cap N \subseteq repeated'
        /\ Keeps("hand", T!Loop)' \subseteq Keeps("hand", T!Loop)
        /\ N \subseteq Keeps("hand", T!Loop)
    BY <1>3 DEF N
  <2>5. repeated \subseteq repeated' /\ repeated' \subseteq 1..typed /\ UNCHANGED typed
    BY <1>1, <1>5
  <2> QED BY <1>5, <2>1, <2>2, <2>3, <2>4, <2>5, Carried DEF KeepInv
<1>7. AllApart'
  BY <1>1, ApartKept DEF KeepInv
<1>8. Restored'
  <2>1. \A f \in T!Flushes : /\ flush'[f].batch = flush[f].batch
                             /\ Keeps("sending", f)' = Keeps("sending", f)
                             /\ Keeps("hand", f)' = Keeps("hand", f)
    BY <1>1, <1>2, KeepsSame, LoopIs
  <2> QED BY <1>1, <1>5, <2>1, RestoredKept DEF KeepInv
<1> QED BY <1>6, <1>7, <1>8 DEF KeepInv

\* From one place to the end of what was said.
LEMMA SaidKeeps ==
  ASSUME KeepInv, TextTypes, NEW text \in Text, NEW m, NEW z, m # "said", IsPlace(m, z),
         UNCHANGED <<typed, dropped, held, flush>>, said' = Append(said, text),
         repeated \subseteq repeated', repeated' \subseteq 1..typed,
         T!ToSet(text) \subseteq Keeps(m, z),
         Keeps(m, z) \subseteq Keeps(m, z)' \cup T!ToSet(text),
         Keeps(m, z)' \subseteq Keeps(m, z),
         Keeps(m, z)' \cap T!ToSet(text) \subseteq repeated',
         \A k, x : IsPlace(k, x) /\ ~(k = "said" /\ x = 0) /\ ~(k = m /\ x = z) =>
           Keeps(k, x)' = Keeps(k, x),
         \A mode \in T!Modes : queues'[mode] = queues[mode] \/ ApartBut(queues'[mode], repeated')
  PROVE  KeepInv'
<1> DEFINE N == T!ToSet(text)
<1>1. Keeps("said", 0)' = Keeps("said", 0) \cup N
  <2>1. T!Atoms(Append(said, text)) = T!Atoms(said) \cup N
    BY AtomsOfSequence DEF TextTypes
  <2>2. Keeps("said", 0) = T!Atoms(said)
    BY KeepsIs DEF T!Said
  <2> QED BY <2>1, <2>2, KeepsNext
<1>2. PlacesInv'
  <2>1. IsPlace("said", 0) /\ ~("said" = m /\ 0 = z)
    BY PlaceIs
  <2> HIDE DEF N
  <2>2. /\ Keeps(m, z) \subseteq Keeps(m, z)' \cup N
        /\ Keeps(m, z)' \cap N \subseteq repeated'
        /\ N \subseteq Keeps(m, z)
    BY DEF N
  <2>3. typed \in Nat
    BY DEF TextTypes
  <2> QED BY <1>1, <2>1, <2>2, <2>3, Carried DEF KeepInv
<1>3. AllApart'
  <2>1. IsPlace("said", 0) /\ ~("said" = m /\ 0 = z) /\ Keeps("said", 0) = T!Atoms(said)
    BY PlaceIs, KeepsIs DEF T!Said
  <2>2. N \cap T!Atoms(said) \subseteq repeated
    <3>1. Keeps(m, z) \cap Keeps("said", 0) \subseteq repeated
      BY <2>1, Zenon DEF KeepInv, PlacesInv, Separate
    <3> QED BY <2>1, <3>1
  <2>3. N \cap T!Atoms(said) \subseteq repeated'
    BY <2>2
  <2>4. ApartBut(Append(said, text), repeated')
    <3>1. ApartBut(said, repeated) /\ said \in Seq(Text)
      BY DEF KeepInv, AllApart, TextTypes
    <3> QED BY <2>3, <3>1, ApartSequence
  <2> HIDE DEF N
  <2> QED BY <2>4, ApartKept DEF KeepInv
<1>4. Restored'
  <2>1. ASSUME NEW f \in T!Flushes
        PROVE  /\ flush'[f].batch = flush[f].batch
               /\ Keeps("sending", f)' \subseteq Keeps("sending", f)
               /\ Keeps("hand", f)' \subseteq Keeps("hand", f)
    <3>1. IsPlace("hand", f) /\ IsPlace("sending", f)
      BY LoopIs, PlaceIs
    <3>2. \A k : IsPlace(k, f) /\ k # "said" => Keeps(k, f)' \subseteq Keeps(k, f)
      OBVIOUS
    <3> QED BY <3>1, <3>2
  <2> QED BY <2>1, RestoredKept DEF KeepInv, TextTypes
<1> QED BY <1>2, <1>3, <1>4 DEF KeepInv

LEMMA StartPromptKeeps ==
  ASSUME KeepInv, TextTypes, NEW c \in T!Callers, T!StartPrompt(c)
  PROVE  KeepInv'
<1> USE DEF T!texts, T!agent, T!retry, T!compactions, T!bounds, T!history
<1> DEFINE text == prompts[c].text
<1>1. /\ UNCHANGED <<editor, held, typed, repeated, dropped, queues, flush>>
      /\ prompts[c].pc = "ready"
  BY DEF T!StartPrompt
<1>2. text \in Text /\ "threw" \in PromptPCs /\ "running" \in PromptPCs
  BY DEF TextTypes, Prompts, PromptPCs
<1>3. CASE T!PromptAt(c, "threw", text) /\ UNCHANGED said
  <2>1. /\ prompts'[c].pc = "threw" /\ prompts'[c].text = text
        /\ \A d \in T!Callers : d # c => prompts'[d] = prompts[d]
    BY <1>2, <1>3, PromptTypes
  <2>2. \A d \in T!Callers : Keeps("hand", d)' = Keeps("hand", d)
    BY <1>1, <2>1, InHandIs
  <2> QED BY <1>1, <1>3, <2>2, KeptStill DEF TextTypes
<1>4. CASE T!PromptAt(c, "running", text) /\ said' = Append(said, text)
  <2>1. /\ prompts'[c].pc = "running"
        /\ \A d \in T!Callers : d # c => prompts'[d] = prompts[d]
    BY <1>2, <1>4, PromptTypes
  <2>2. Keeps("hand", c)' = {} /\ Keeps("hand", c) = T!ToSet(text)
    BY <1>1, <2>1, InHandIs
  <2>3. \A k, x : IsPlace(k, x) /\ ~(k = "said" /\ x = 0) /\ ~(k = "hand" /\ x = c) =>
          Keeps(k, x)' = Keeps(k, x)
    BY <1>1, <2>1, KeepsSame, PlaceIs
  <2>4. "hand" # "said" /\ IsPlace("hand", c)
    BY PlaceIs
  <2>5. repeated \subseteq repeated' /\ repeated' \subseteq 1..typed
    BY <1>1 DEF KeepInv, PlacesInv, Bounded
  <2>6. \A mode \in T!Modes : queues'[mode] = queues[mode]
    BY <1>1
  <2> HIDE DEF text
  <2> QED BY <1>1, <1>2, <1>4, <2>2, <2>3, <2>4, <2>5, <2>6, SaidKeeps
<1> QED BY <1>3, <1>4 DEF T!StartPrompt

LEMMA PromptReturnsKeeps ==
  ASSUME KeepInv, TextTypes, NEW c \in T!Callers, T!PromptReturns(c)
  PROVE  KeepInv'
<1> USE DEF T!texts, T!agent, T!retry, T!compactions, T!bounds, T!history
<1>1. /\ UNCHANGED <<editor, held, said, typed, repeated, dropped, queues, flush>>
      /\ prompts[c].pc \in {"returned", "idling"}
      /\ \E stage \in {"waiting", "none"} : T!PromptAt(c, stage, T!NoText)
  BY DEF T!PromptReturns
<1>2. "waiting" \in PromptPCs /\ "none" \in PromptPCs
  BY DEF PromptPCs
<1>3. /\ prompts'[c].pc \in {"waiting", "none"}
      /\ \A d \in T!Callers : d # c => prompts'[d] = prompts[d]
  BY <1>1, <1>2, PromptTypes, NoTextIs
<1>4. \A d \in T!Callers : Keeps("hand", d)' = Keeps("hand", d)
  BY <1>1, <1>3, InHandIs
<1> QED BY <1>1, <1>4, KeptStill DEF TextTypes

\* restoreQueue: what the flush began with is held, wherever it is.
LEMMA FlushRefusedKeeps ==
  ASSUME KeepInv, TextTypes, NEW f \in T!Flushes, T!FlushRefused(f)
  PROVE  KeepInv'
<1> USE DEF T!texts, T!agent, T!retry, T!compactions, T!bounds, T!history
<1> DEFINE N == T!Atoms(Batch(f))
           hands == UNION { T!InHand(c) : c \in T!Callers \ {f} }
           sends == UNION { T!Sending(g) : g \in T!Flushes }
           D == T!Queued(queues) \cup T!Atoms(T!Texts(held))
           else == T!ToSet(editor) \cup hands \cup sends
<1>1. /\ UNCHANGED <<editor, said, typed, flush>>
      /\ prompts[f].pc = "threw" /\ T!PromptAt(f, "none", T!NoText)
      /\ queues' = T!Queues /\ held' = flush[f].batch
      /\ dropped' = dropped \cup (D \ N)
      /\ repeated' = repeated \cup (N \cap (T!Said \cup else))
  <2>1. /\ UNCHANGED <<editor, said, typed, flush>> /\ T!RestoreQueue(f)
        /\ prompts[f].pc = "threw" /\ T!PromptAt(f, "none", T!NoText)
    BY DEF T!FlushRefused
  <2>2. queues' = T!Queues /\ held' = flush[f].batch
    BY <2>1, Zenon DEF T!RestoreQueue
  <2>4. dropped' = dropped \cup (D \ N)
    BY <2>1, Zenon DEF T!RestoreQueue, Batch
  <2>3. repeated' = repeated \cup (N \cap (T!Said \cup else))
    BY <2>1, Zenon DEF T!RestoreQueue, Batch
  <2> QED BY <2>1, <2>2, <2>3, <2>4
<1>2. /\ prompts'[f].pc = "none"
      /\ \A d \in T!Callers : d # f => prompts'[d] = prompts[d]
  <2>1. "none" \in PromptPCs
    BY DEF PromptPCs
  <2> QED BY <1>1, <2>1, PromptTypes, NoTextIs, LoopIs
<1>3. N \subseteq 1..typed /\ Keeps("hand", f) \subseteq N /\ typed \in Nat
  BY KeepsIs DEF KeepInv, Restored, TextTypes
<1>4. /\ Keeps("hand", f)' = {} /\ Keeps("held", 0)' = N
      /\ \A mode \in T!Modes : Keeps("queue", mode)' = {} /\ queues'[mode] = <<>>
  <2>1. \A mode \in T!Modes : queues'[mode] = <<>>
    BY <1>1 DEF T!Queues
  <2>2. T!Atoms(<<>>) = {}
    BY AtomsOfSequence, EmptySeq
  <2>3. \A mode \in T!Modes : Keeps("queue", mode)' = {}
    BY <2>1, <2>2, KeepsNext
  <2>4. Keeps("held", 0)' = N
    BY <1>1, KeepsNext DEF Batch
  <2> QED BY <1>2, <2>1, <2>3, <2>4, InHandIs
<1>5. /\ Keeps("editor", 0)' = Keeps("editor", 0)
      /\ Keeps("said", 0)' = Keeps("said", 0)
      /\ \A c \in T!Callers : c # f => Keeps("hand", c)' = Keeps("hand", c)
      /\ \A g \in T!Flushes : Keeps("sending", g)' = Keeps("sending", g)
  BY <1>1, <1>2, KeepsSame
<1>6. /\ D = Keeps("queue", "steer") \cup Keeps("queue", "followUp") \cup Keeps("held", 0)
      /\ else \cup T!Said = Keeps("editor", 0) \cup Keeps("said", 0) \cup hands \cup sends
      /\ \A c \in T!Callers : c # f => Keeps("hand", c) \subseteq hands
      /\ \A g \in T!Flushes : Keeps("sending", g) \subseteq sends
  BY KeepsIs DEF T!Queued
<1>7. repeated \subseteq repeated' /\ repeated' \subseteq 1..typed
  BY <1>1, <1>3 DEF KeepInv, PlacesInv, Bounded
<1>8. PlacesInv'
  <2>1. ASSUME NEW k, NEW x, IsPlace(k, x), ~(k = "held" /\ x = 0)
        PROVE  /\ Keeps(k, x)' \subseteq Keeps(k, x)
               /\ Keeps(k, x)' \cap N \subseteq repeated'
    <3>1. CASE (k = "queue" /\ x \in T!Modes) \/ (k = "hand" /\ x = f)
      BY <1>4, <3>1
    <3>2. CASE (k = "editor" /\ x = 0) \/ (k = "said" /\ x = 0)
      BY <1>1, <1>5, <1>6, <3>2
    <3>3. CASE k = "hand" /\ x \in T!Callers /\ x # f
      BY <1>1, <1>5, <1>6, <3>3
    <3>4. CASE k = "sending" /\ x \in T!Flushes
      BY <1>1, <1>5, <1>6, <3>4
    <3> QED BY <2>1, <3>1, <3>2, <3>3, <3>4, PlaceIs
  <2>2. ASSUME NEW a \in 1..typed', a \in dropped \/ a > typed \/ Somewhere(a)
        PROVE  a \in dropped' \/ Somewhere(a)'
    <3>1. ~(a > typed)
      BY <1>1, <1>3
    <3>2. a \in dropped \cup N \cup D => a \in dropped' \/ Somewhere(a)'
      <4>1. IsPlace("held", 0)
        BY PlaceIs
      <4>2. a \in N => Somewhere(a)'
        BY <1>4, <4>1, SomewhereIs
      <4> QED BY <1>1, <4>2
    <3>3. ASSUME NEW k, NEW x, IsPlace(k, x), a \in Keeps(k, x)
          PROVE  a \in dropped' \/ Somewhere(a)'
      <4>1. CASE k = "held" \/ k = "queue" \/ (k = "hand" /\ x = f)
        <5>1. a \in N \cup D
          <6>1. CASE k = "held"
            BY <1>6, <3>3, <6>1, PlaceIs
          <6>2. CASE k = "queue"
            <7>1. x = "steer" \/ x = "followUp"
              BY <3>3, <6>2, PlaceIs DEF T!Modes
            <7> QED BY <1>6, <3>3, <6>2, <7>1
          <6>3. CASE k = "hand" /\ x = f
            BY <1>3, <3>3, <6>3
          <6> QED BY <4>1, <6>1, <6>2, <6>3
        <5> QED BY <3>2, <5>1
      <4>2. CASE ~(k = "held" \/ k = "queue" \/ (k = "hand" /\ x = f))
        <5>1. Keeps(k, x)' = Keeps(k, x)
          BY <1>5, <3>3, <4>2, PlaceIs
        <5> QED BY <3>3, <5>1, SomewhereIs, Zenon
      <4> QED BY <4>1, <4>2
    <3> QED BY <2>2, <3>1, <3>2, <3>3, Zenon DEF Somewhere
  <2>3. Moves(N, "held", 0)
    <3>1. typed' \in Nat /\ typed <= typed' /\ 1..typed' = 1..typed
      BY <1>1, <1>3
    <3> HIDE DEF N
    <3> QED BY <1>3, <1>4, <1>7, <2>1, <2>2, <3>1 DEF Moves
  <2> HIDE DEF N
  <2> QED BY <2>3, Moved DEF KeepInv
<1>9. AllApart'
  <2>1. ApartBut(T!Texts(held'), repeated')
    BY <1>1, <1>7 DEF KeepInv, AllApart, Batch, ApartBut
  <2>2. \A mode \in T!Modes : ApartBut(queues'[mode], repeated')
    BY <1>4 DEF ApartBut
  <2> QED BY <1>1, <1>7, <2>1, <2>2, ApartKept DEF KeepInv
<1>10. Restored'
  <2>1. ASSUME NEW g \in T!Flushes
        PROVE  /\ flush'[g].batch = flush[g].batch
               /\ Keeps("sending", g)' = Keeps("sending", g)
               /\ Keeps("hand", g)' \subseteq Keeps("hand", g)
    <3>1. g \in T!Callers
      BY LoopIs
    <3> QED BY <1>1, <1>4, <1>5, <3>1
  <2> QED BY <1>1, <1>3, <2>1, RestoredKept DEF KeepInv
<1> QED BY <1>8, <1>9, <1>10 DEF KeepInv

\* The message that is sent is in hand, or queued.
LEMMA FlushNextKeeps ==
  ASSUME KeepInv, TextTypes, Promised, NEW f \in T!Flushes, T!FlushNext(f)
  PROVE  KeepInv'
<1> USE DEF T!texts, T!agent, T!retry, T!compactions, T!bounds, T!history
<1> DEFINE m == Head(flush[f].rest)
           text == m.text
           N == T!ToSet(text)
           b == [flush[f] EXCEPT !.rest = Tail(@)]
           d == [b EXCEPT !.asked = TRUE]
<1>1. /\ UNCHANGED <<editor, held, said, typed, repeated, dropped>> /\ flush[f].rest # <<>>
      /\ \/ /\ flush' = [flush EXCEPT ![f] = d] /\ ~flush[f].asked /\ UNCHANGED queues
            /\ T!CallPrompt(f, text)
         \/ /\ flush' = [flush EXCEPT ![f] = b] /\ UNCHANGED prompts
            /\ T!Enqueue(m.mode, text)
  BY DEF T!FlushNext
<1>2. flush[f] \in Batches /\ flush[f].rest \in Seq(Message)
  BY DEF TextTypes, Batches
<1>3. /\ b.batch = flush[f].batch /\ d.batch = flush[f].batch
      /\ b.rest = Tail(flush[f].rest) /\ d.rest = Tail(flush[f].rest)
  <2>1. b.batch = flush[f].batch /\ b.rest = Tail(flush[f].rest)
    BY <1>2 DEF Batches
  <2>2. b \in [batch : {flush[f].batch}, rest : {Tail(flush[f].rest)}, asked : BOOLEAN]
    BY <1>2 DEF Batches
  <2>3. d.batch = b.batch /\ d.rest = b.rest
    <3> HIDE DEF b
    <3> QED BY <2>2
  <2> QED BY <2>1, <2>3
<1>4. /\ m \in Message /\ text \in Text /\ m.mode \in T!Modes
      /\ T!Texts(flush[f].rest) \in Seq(Text)
      /\ T!Texts(flush[f].rest) # <<>>
      /\ T!Texts(Tail(flush[f].rest)) = Tail(T!Texts(flush[f].rest))
      /\ Head(T!Texts(flush[f].rest)) = text
  <2>1. m \in Message
    BY <1>1, <1>2, TextsOfMessages
  <2>2. text \in Text /\ m.mode \in T!Modes
    BY <2>1 DEF Message
  <2> QED BY <1>1, <1>2, <2>1, <2>2, TextsOfMessages
<1>5. /\ flush'[f].batch = flush[f].batch /\ flush'[f].rest = Tail(flush[f].rest)
      /\ \A g \in T!Flushes : g # f => flush'[g] = flush[g]
  <2> HIDE DEF b, d
  <2>1. flush'[f] = b \/ flush'[f] = d
    BY <1>1 DEF TextTypes
  <2>2. \A g \in T!Flushes : g # f => flush'[g] = flush[g]
    BY <1>1 DEF TextTypes
  <2> QED BY <1>3, <2>1, <2>2
<1> HIDE DEF b, d, m
<1>6. /\ Keeps("sending", f) = N \cup Keeps("sending", f)'
      /\ N \cap Keeps("sending", f)' \subseteq repeated
      /\ ApartBut(T!Texts(flush'[f].rest), repeated)
  <2> DEFINE u == T!Texts(flush[f].rest)
  <2>1. /\ u \in Seq(Text) /\ u # <<>> /\ Head(u) = text /\ T!Texts(flush'[f].rest) = Tail(u)
        /\ ApartBut(u, repeated)
    BY <1>4, <1>5 DEF KeepInv, AllApart
  <2>2. Keeps("sending", f) = T!Atoms(u) /\ Keeps("sending", f)' = T!Atoms(Tail(u))
    BY <2>1, KeepsIs, InHandIs DEF T!Sending
  <2> HIDE DEF u
  <2>3. T!Atoms(u) = T!ToSet(Head(u)) \cup T!Atoms(Tail(u))
    BY <2>1, AtomsOfSequence
  <2>4. ApartBut(Tail(u), repeated) /\ T!ToSet(Head(u)) \cap T!Atoms(Tail(u)) \subseteq repeated
    BY <2>1, ApartSequence
  <2> QED BY <2>1, <2>2, <2>3, <2>4
<1>7. repeated \subseteq 1..typed /\ typed \in Nat
  BY DEF KeepInv, PlacesInv, Bounded, TextTypes
<1>8. \A g \in T!Flushes : g # f => Keeps("sending", g)' = Keeps("sending", g)
  BY <1>5, KeepsSame
<1>9. ASSUME NEW l, NEW y, IsPlace(l, y), l # "sending", Keeps(l, y)' = Keeps(l, y) \cup N,
             \A k, x : IsPlace(k, x) /\ ~(k = l /\ x = y) /\ ~(k = "sending" /\ x = f) =>
               Keeps(k, x)' = Keeps(k, x)
      PROVE  PlacesInv'
  <2> HIDE DEF N
  <2>1. IsPlace("sending", f) /\ ~(l = "sending" /\ y = f)
    BY <1>9, PlaceIs
  <2>2. /\ Keeps("sending", f) \subseteq Keeps("sending", f)' \cup N
        /\ Keeps("sending", f)' \cap N \subseteq repeated'
        /\ Keeps("sending", f)' \subseteq Keeps("sending", f) /\ N \subseteq Keeps("sending", f)
    BY <1>1, <1>6
  <2>3. repeated \subseteq repeated' /\ repeated' \subseteq 1..typed /\ UNCHANGED <<typed, dropped>>
    BY <1>1, <1>7
  <2> QED BY <1>7, <1>9, <2>1, <2>2, <2>3, Carried DEF KeepInv
<1>10. CASE UNCHANGED queues /\ ~flush[f].asked /\ T!CallPrompt(f, text)
  <2>1. /\ prompts'[f].pc \in {"threw", "ready", "compacting"} /\ prompts'[f].text = text
        /\ \A c \in T!Callers : c # f => prompts'[c] = prompts[c]
    BY <1>4, <1>10, CallTypes, LoopIs
  <2>2. prompts[f].pc = "none"
    BY <1>1, <1>10 DEF Promised
  <2>3. Keeps("hand", f) = {} /\ Keeps("hand", f)' = N
    BY <2>1, <2>2, InHandIs
  <2>4. IsPlace("hand", f) /\ "hand" # "sending"
    BY LoopIs, PlaceIs
  <2>5. \A k, x : IsPlace(k, x) /\ ~(k = "hand" /\ x = f) /\ ~(k = "sending" /\ x = f) =>
          Keeps(k, x)' = Keeps(k, x)
    BY <1>1, <1>5, <1>10, <2>1, KeepsSame, PlaceIs
  <2>6. PlacesInv'
    <3> HIDE DEF N
    <3> QED BY <1>9, <2>3, <2>4, <2>5
  <2>7. AllApart'
    BY <1>1, <1>5, <1>6, <1>10, ApartKept DEF KeepInv
  <2>8. Restored'
    <3>1. ASSUME NEW g \in T!Flushes
          PROVE  /\ flush'[g].batch = flush[g].batch
                 /\ Keeps("sending", g)' \subseteq Keeps("sending", g) \cup Keeps("hand", g)
                 /\ Keeps("hand", g)' \subseteq Keeps("sending", g) \cup Keeps("hand", g)
      <4>1. CASE g = f
        BY <1>5, <1>6, <2>3, <4>1
      <4>2. CASE g # f
        BY <1>5, <1>8, <2>1, <4>2, KeepsSame, LoopIs
      <4> QED BY <4>1, <4>2
    <3> QED BY <1>1, <1>7, <3>1, RestoredKept DEF KeepInv
  <2> QED BY <2>6, <2>7, <2>8 DEF KeepInv
<1>11. ASSUME UNCHANGED prompts, NEW mode \in T!Modes, T!Enqueue(mode, text) PROVE KeepInv'
  <2>1. /\ queues'[mode] = Append(queues[mode], text)
        /\ \A other \in T!Modes : other # mode => queues'[other] = queues[other]
    BY <1>4, <1>11, EnqueueTypes
  <2>2. queues[mode] \in Seq(Text) /\ ApartBut(queues[mode], repeated)
    BY <2>1 DEF TextTypes, KeepInv, AllApart
  <2>3. Keeps("queue", mode)' = Keeps("queue", mode) \cup N
    <3>1. T!Atoms(Append(queues[mode], text)) = T!Atoms(queues[mode]) \cup N
      BY <1>4, <2>2, AtomsOfSequence
    <3>2. /\ Keeps("queue", mode)' = T!Atoms(queues'[mode])
          /\ Keeps("queue", mode) = T!Atoms(queues[mode])
      BY KeepsIs, KeepsNext, Zenon
    <3> HIDE DEF N
    <3> QED BY <2>1, <3>1, <3>2
  <2>4. IsPlace("queue", mode) /\ "queue" # "sending" /\ IsPlace("sending", f)
    BY <2>1, PlaceIs
  <2>5. \A k, x : IsPlace(k, x) /\ ~(k = "queue" /\ x = mode) /\ ~(k = "sending" /\ x = f) =>
          Keeps(k, x)' = Keeps(k, x)
    BY <1>1, <1>5, <1>11, <2>1, KeepsSame, PlaceIs
  <2>6. PlacesInv'
    <3> HIDE DEF N
    <3> QED BY <1>9, <2>3, <2>4, <2>5
  <2>7. ApartBut(queues'[mode], repeated)
    <3>1. Keeps("queue", mode) \cap Keeps("sending", f) \subseteq repeated
      BY <2>4, Zenon DEF KeepInv, PlacesInv, Separate
    <3>2. N \cap T!Atoms(queues[mode]) \subseteq repeated
      BY <1>6, <3>1, KeepsIs
    <3> QED BY <1>4, <2>1, <2>2, <3>2, ApartSequence
  <2>8. AllApart'
    BY <1>1, <1>5, <1>6, <2>1, <2>7, ApartKept DEF KeepInv
  <2>9. Restored'
    <3>1. ASSUME NEW g \in T!Flushes
          PROVE  /\ flush'[g].batch = flush[g].batch
                 /\ Keeps("sending", g)' \subseteq Keeps("sending", g)
                 /\ Keeps("hand", g)' = Keeps("hand", g)
      <4>1. CASE g = f
        BY <1>5, <1>6, <1>11, <4>1, KeepsSame
      <4>2. CASE g # f
        BY <1>5, <1>8, <1>11, <4>2, KeepsSame
      <4> QED BY <4>1, <4>2
    <3> QED BY <1>1, <1>7, <3>1, RestoredKept DEF KeepInv
  <2> QED BY <2>6, <2>8, <2>9 DEF KeepInv
<1> QED BY <1>1, <1>4, <1>10, <1>11

(***************************************************************************)
(* The agent and the session.                                              *)
(***************************************************************************)
\* Head of a queue, to the end of what was said.
LEMMA TakeKeeps ==
  ASSUME KeepInv, TextTypes, NEW mode \in T!Modes, queues[mode] # <<>>, T!Take(mode),
         UNCHANGED <<editor, held, flush, prompts, typed, dropped>>
  PROVE  KeepInv'
<1> DEFINE text == Head(queues[mode])
           N == T!ToSet(text)
<1>1. /\ text \in Text /\ queues'[mode] = Tail(queues[mode]) /\ said' = Append(said, text)
      /\ \A other \in T!Modes : other # mode => queues'[other] = queues[other]
  BY TakeTypes
<1>2. repeated' = repeated \/ repeated' = repeated \cup N
  BY DEF T!Take
<1>3. /\ Keeps("queue", mode) = N \cup Keeps("queue", mode)'
      /\ N \cap Keeps("queue", mode)' \subseteq repeated
      /\ ApartBut(queues'[mode], repeated)
  <2> DEFINE u == queues[mode]
  <2>1. u \in Seq(Text) /\ ApartBut(u, repeated) /\ u # <<>>
    BY DEF TextTypes, KeepInv, AllApart
  <2>2. Keeps("queue", mode) = T!Atoms(u) /\ Keeps("queue", mode)' = T!Atoms(Tail(u))
    BY <1>1, KeepsIs, KeepsNext
  <2>3. T!Atoms(u) = N \cup T!Atoms(Tail(u))
    BY <2>1, AtomsOfSequence
  <2>4. ApartBut(Tail(u), repeated) /\ N \cap T!Atoms(Tail(u)) \subseteq repeated
    BY <2>1, ApartSequence
  <2> QED BY <1>1, <2>2, <2>3, <2>4
<1>4. IsPlace("queue", mode) /\ "queue" # "said"
  BY PlaceIs
<1>5. repeated \subseteq repeated' /\ repeated' \subseteq 1..typed
  <2>1. Keeps("queue", mode) \subseteq 1..typed /\ repeated \subseteq 1..typed
    BY <1>4, Zenon DEF KeepInv, PlacesInv, Bounded
  <2> QED BY <1>2, <1>3, <2>1
<1>6. \A k, x : IsPlace(k, x) /\ ~(k = "said" /\ x = 0) /\ ~(k = "queue" /\ x = mode) =>
        Keeps(k, x)' = Keeps(k, x)
  BY <1>1, KeepsSame, PlaceIs
<1>7. \A other \in T!Modes : queues'[other] = queues[other] \/ ApartBut(queues'[other], repeated')
  <2>1. ApartBut(queues'[mode], repeated')
    BY <1>3, <1>5 DEF ApartBut
  <2> QED BY <1>1, <2>1
<1>8. /\ N \subseteq Keeps("queue", mode)
      /\ Keeps("queue", mode) \subseteq Keeps("queue", mode)' \cup N
      /\ Keeps("queue", mode)' \subseteq Keeps("queue", mode)
      /\ Keeps("queue", mode)' \cap N \subseteq repeated'
  BY <1>3, <1>5
<1> HIDE DEF text
<1> QED BY <1>1, <1>4, <1>5, <1>6, <1>7, <1>8, SaidKeeps

LEMMA AgentKeeps ==
  ASSUME KeepInv, TextTypes, Promised, T!AgentStep
  PROVE  KeepInv'
<1> USE DEF T!texts, T!agent, T!retry, T!compactions, T!bounds, T!history
<1>s. "steer" \in T!Modes /\ "followUp" \in T!Modes
  BY DEF T!Modes
<1>0. ASSUME UNCHANGED <<editor, held, said, typed, dropped, repeated, queues, flush, prompts>>
      PROVE  KeepInv'
  BY <1>0, KeepsSame, KeptStill DEF TextTypes
<1>1. CASE T!Poll
  BY <1>s, <1>0, <1>1, TakeKeeps DEF T!Poll
<1>2. ASSUME NEW stop \in T!Stops, T!Reply(stop) PROVE KeepInv'
  <2>1. /\ UNCHANGED <<editor, held, flush, prompts, typed, dropped>>
        /\ \/ UNCHANGED <<said, repeated, queues>>
           \/ queues["followUp"] # <<>> /\ T!Take("followUp")
    BY <1>2 DEF T!Reply
  <2> QED BY <1>s, <1>0, <2>1, TakeKeeps
<1>3. CASE T!EndRun
  <2> DEFINE p == [prompts[run.owner] EXCEPT !.pc = "returned"]
  <2>1. /\ UNCHANGED <<editor, held, said, typed, dropped, repeated, queues, flush>>
        /\ T!IsStreaming
        /\ prompts' = IF run.owner \in T!Callers THEN [prompts EXCEPT ![run.owner] = p]
                      ELSE prompts
    BY <1>3 DEF T!EndRun, T!IsStreaming
  <2>2. ASSUME NEW c \in T!Callers PROVE Keeps("hand", c)' = Keeps("hand", c)
    <3>1. CASE c = run.owner
      <4>1. prompts[c] \in Prompts /\ prompts[c].pc = "running"
        BY <2>1, <3>1 DEF TextTypes, Promised
      <4>2. p.pc = "returned"
        BY <3>1, <4>1 DEF Prompts
      <4>3. prompts'[c] = p
        <5> HIDE DEF p
        <5> QED BY <2>1, <3>1 DEF TextTypes
      <4> HIDE DEF p
      <4> QED BY <4>1, <4>2, <4>3, InHandIs
    <3>2. CASE c # run.owner
      <4>1. prompts'[c] = prompts[c]
        <5> HIDE DEF p
        <5> QED BY <2>1, <3>2 DEF TextTypes
      <4> QED BY <4>1, KeepsSame
    <3> QED BY <3>1, <3>2
  <2> QED BY <2>1, <2>2, KeptStill DEF TextTypes
<1>4. CASE T!TimerFires
  <2>1. /\ UNCHANGED <<editor, held, flush, prompts, typed, dropped>>
        /\ \/ UNCHANGED <<said, repeated, queues>>
           \/ /\ queues # T!Queues
              /\ T!Take(IF queues["steer"] # <<>> THEN "steer" ELSE "followUp")
    BY <1>4 DEF T!TimerFires
  <2>2. queues # T!Queues => queues["steer"] # <<>> \/ queues["followUp"] # <<>>
    <3>1. queues = [mode \in T!Modes |-> queues[mode]]
      BY DEF TextTypes
    <3> QED BY <3>1 DEF T!Queues, T!Modes
  <2>3. \/ UNCHANGED <<said, repeated, queues>>
        \/ \E mode \in T!Modes : queues[mode] # <<>> /\ T!Take(mode)
    BY <1>s, <2>1, <2>2
  <2> QED BY <1>0, <2>1, <2>3, TakeKeeps
<1> QED BY <1>1, <1>2, <1>3, <1>4 DEF T!AgentStep

\* The end of a compaction: what is held is sent, by a flush that had nothing.
LEMMA TakeHeldKeeps ==
  ASSUME KeepInv, TextTypes, NEW again \in BOOLEAN,
         T!TakeHeld(again) \/ UNCHANGED <<held, flush>>,
         UNCHANGED <<editor, said, typed, dropped, repeated, queues>>,
         \A c \in T!Callers : Keeps("hand", c)' = Keeps("hand", c)
  PROVE  KeepInv'
<1> DEFINE N == Keeps("held", 0)
<1>1. CASE UNCHANGED <<held, flush>>
  BY <1>1, KeptStill DEF TextTypes
<1>2. ASSUME NEW f \in T!Flushes, T!IsFree(f), held' = <<>>,
             flush'[f].batch = held, flush'[f].rest = held,
             \A g \in T!Flushes : g # f => flush'[g] = flush[g]
      PROVE  KeepInv'
  <2>1. /\ Keeps("sending", f) = {} /\ Keeps("sending", f)' = N
        /\ Keeps("hand", f) = {} /\ Keeps("hand", f)' = {}
        /\ Keeps("held", 0)' = {}
    <3>1. T!Texts(<<>>) = <<>> /\ T!Atoms(<<>>) = {}
      BY TextsOfMessages, AtomsOfSequence, EmptySeq
    <3>2. Keeps("sending", f) = {} /\ Keeps("sending", f)' = N /\ Keeps("held", 0)' = {}
      BY <1>2, <3>1, KeepsIs, KeepsNext, InHandIs DEF T!IsFree, T!Sending
    <3>3. Keeps("hand", f) = {} /\ f \in T!Callers
      BY <1>2, InHandIs, LoopIs DEF T!IsFree, T!NoPrompt
    <3> QED BY <3>2, <3>3
  <2>2. IsPlace("held", 0) /\ IsPlace("sending", f) /\ ~("sending" = "held" /\ f = 0)
    BY PlaceIs
  <2>3. \A k, x : IsPlace(k, x) /\ ~(k = "sending" /\ x = f) /\ ~(k = "held" /\ x = 0) =>
          Keeps(k, x)' = Keeps(k, x)
    BY <1>2, KeepsSame, PlaceIs
  <2>4. repeated \subseteq repeated' /\ repeated' \subseteq 1..typed /\ N \subseteq 1..typed
        /\ typed \in Nat
    <3>1. repeated \subseteq 1..typed /\ N \subseteq 1..typed
      BY <2>2, Zenon DEF KeepInv, PlacesInv, Bounded
    <3> QED BY <3>1 DEF TextTypes
  <2>5. PlacesInv'
    <3>1. /\ Keeps("held", 0) \subseteq Keeps("held", 0)' \cup N
          /\ Keeps("held", 0)' \cap N \subseteq repeated'
          /\ Keeps("held", 0)' \subseteq Keeps("held", 0) /\ N \subseteq Keeps("held", 0)
      BY <2>1
    <3>2. Keeps("sending", f)' = Keeps("sending", f) \cup N /\ dropped' = dropped
      BY <2>1
    <3> HIDE DEF N
    <3> QED BY <2>2, <2>3, <2>4, <3>1, <3>2, Carried DEF KeepInv
  <2>6. AllApart'
    <3>1. ApartBut(T!Texts(held), repeated)
      BY DEF KeepInv, AllApart
    <3>2. ApartBut(T!Texts(held'), repeated')
      <4>1. T!Texts(held') = <<>>
        BY <1>2, TextsOfMessages, EmptySeq
      <4> QED BY <4>1 DEF ApartBut
    <3> QED BY <1>2, <3>1, <3>2, ApartKept DEF KeepInv
  <2>7. Restored'
    <3>1. ASSUME NEW g \in T!Flushes
          PROVE  \/ /\ flush'[g].batch = flush[g].batch
                    /\ Keeps("sending", g)' = Keeps("sending", g)
                    /\ Keeps("hand", g)' = Keeps("hand", g)
                 \/ /\ T!Atoms(T!Texts(flush'[g].batch)) \subseteq 1..typed'
                    /\ Keeps("sending", g)' \subseteq T!Atoms(T!Texts(flush'[g].batch))
                    /\ Keeps("hand", g)' \subseteq T!Atoms(T!Texts(flush'[g].batch))
      <4>1. CASE g = f
        BY <1>2, <2>1, <2>4, <4>1, KeepsIs
      <4>2. CASE g # f
        BY <1>2, <4>2, KeepsSame, LoopIs
      <4> QED BY <4>1, <4>2
    <3> QED BY <2>4, <3>1, RestoredKept DEF KeepInv
  <2> QED BY <2>5, <2>6, <2>7 DEF KeepInv
<1>3. CASE T!TakeHeld(again)
  <2>1. held = <<>> /\ flush' = flush /\ held' = <<>> => KeepInv'
    BY <1>1
  <2> QED BY <1>2, <1>3, <2>1, TakeHeldTypes
<1> QED BY <1>1, <1>3

LEMMA ResolveHands ==
  ASSUME TextTypes, T!ResolveRetry
  PROVE  \A c \in T!Callers : Keeps("hand", c)' = Keeps("hand", c)
BY ResolveTypes, InHandIs

LEMMA SessionKeeps ==
  ASSUME KeepInv, TextTypes, Promised, T!SessionStep
  PROVE  KeepInv'
<1> USE DEF T!texts, T!agent, T!retry, T!compactions, T!bounds, T!history
<1>1. CASE \/ T!ProcessStart \/ T!ProcessUser \/ T!ProcessReply \/ T!RetryAgain
           \/ T!RetrySleepEnds \/ T!CompactIdle
  <2>1. UNCHANGED <<editor, held, said, typed, dropped, repeated, queues, flush, prompts>>
    BY <1>1 DEF T!ProcessStart, T!ProcessUser, T!ProcessReply, T!RetryAgain, T!RetrySleepEnds,
                T!CompactIdle
  <2> QED BY <2>1, KeepsSame, KeptStill DEF TextTypes
<1>2. CASE T!ProcessEnd
  <2> DEFINE stop == Head(notices).stop
             after == T!AgentEnded(ui)
             u == IF stop = "error" THEN T!RetryEnded(after) ELSE after
  <2>1. /\ T!ResolveRetry /\ T!CheckCompaction(stop, u)
        /\ UNCHANGED <<editor, said, typed, dropped, repeated, queues>>
    BY <1>2 DEF T!ProcessEnd
  <2> HIDE DEF stop, u
  <2>2. UNCHANGED <<held, flush>> \/ T!TakeHeld(FALSE)
    BY <2>1, CheckTypes
  <2> QED BY <2>1, <2>2, ResolveHands, TakeHeldKeeps
<1>3. ASSUME NEW c \in T!Compactors, NEW whole \in BOOLEAN, T!EndCompaction(c, whole)
      PROVE  KeepInv'
  <2> DEFINE p == [prompts[c] EXCEPT !.pc = "ready"]
             again == whole /\ compaction[c].again
  <2>1. /\ again \in BOOLEAN /\ T!TakeHeld(again) /\ compaction[c].pc = "running"
        /\ prompts' = IF c \in T!Callers THEN [prompts EXCEPT ![c] = p] ELSE prompts
    BY <1>3 DEF T!EndCompaction
  <2>2. UNCHANGED <<editor, said, typed, dropped, repeated, queues>>
    BY <1>3 DEF T!EndCompaction
  <2> HIDE DEF again
  <2>3. ASSUME NEW d \in T!Callers PROVE Keeps("hand", d)' = Keeps("hand", d)
    <3>1. CASE d = c
      <4>1. prompts[c] \in Prompts /\ prompts[c].pc = "compacting"
        BY <2>1, <3>1 DEF TextTypes, Promised
      <4>2. p.pc = "ready" /\ p.text = prompts[c].text
        BY <4>1 DEF Prompts
      <4>3. prompts'[c] = p
        <5> HIDE DEF p
        <5> QED BY <2>1, <3>1 DEF TextTypes
      <4> HIDE DEF p
      <4> QED BY <3>1, <4>1, <4>2, <4>3, InHandIs
    <3>2. CASE d # c
      <4>1. prompts'[d] = prompts[d]
        <5> HIDE DEF p
        <5> QED BY <2>1, <3>2 DEF TextTypes
      <4> QED BY <4>1, KeepsSame
    <3> QED BY <3>1, <3>2
  <2> QED BY <2>1, <2>2, <2>3, TakeHeldKeeps
<1> QED BY <1>1, <1>2, <1>3 DEF T!SessionStep

(***************************************************************************)
(* The user.                                                               *)
(***************************************************************************)
\* Announced texts were said; what is listed was typed.
LEMMA ListedIs ==
  ASSUME KeepInv, ListInv, NEW mode \in T!Modes, NEW text \in T!ToSet(shown[mode])
  PROVE  /\ \/ text \in T!ToSet(queues[mode]) \/ T!ToSet(text) \subseteq T!Said
            \/ T!ToSet(text) \subseteq repeated
         /\ T!ToSet(text) \subseteq 1..typed
<1>1. text \in InNotices => T!ToSet(text) \subseteq T!Said
  BY DEF ListInv, Announced, InNotices
<1>2. \/ text \in T!ToSet(queues[mode]) \/ T!ToSet(text) \subseteq T!Said
      \/ T!ToSet(text) \subseteq repeated
  BY <1>1 DEF ListInv, Listed
<1>3. text \in T!ToSet(queues[mode]) => T!ToSet(text) \subseteq Keeps("queue", mode)
  BY KeepsIs DEF T!ToSet, T!Atoms
<1>4. /\ Keeps("queue", mode) \subseteq 1..typed /\ Keeps("said", 0) \subseteq 1..typed
      /\ repeated \subseteq 1..typed
  <2>1. IsPlace("queue", mode) /\ IsPlace("said", 0)
    BY PlaceIs
  <2> QED BY <2>1, Zenon DEF KeepInv, PlacesInv, Bounded
<1>5. Keeps("said", 0) = T!Said
  BY KeepsIs
<1> QED BY <1>2, <1>3, <1>4, <1>5

\* clearAllQueues: all that is listed comes back, and what is queued is listed.
LEMMA TakeBackKeeps ==
  ASSUME KeepInv, ListInv, TextTypes, T!TakeBack, UNCHANGED <<flush, prompts, typed, said>>
  PROVE  KeepInv'
<1> DEFINE N == T!Atoms(shown["steer"]) \cup T!Atoms(shown["followUp"]) \cup T!Atoms(T!Texts(held))
<1>1. /\ T!ToSet(editor') = N \cup T!ToSet(editor)
      /\ queues' = T!Queues /\ held' = <<>> /\ dropped' = dropped
      /\ repeated' = repeated \cup (N \cap T!Said)
  <2>1. dropped' = dropped
    BY DEF T!TakeBack
  <2> DEFINE listed == T!AllQueued("steer") \o T!AllQueued("followUp")
  <2>2. repeated' = repeated \cup (T!Atoms(listed) \cap T!Said)
    BY DEF T!TakeBack
  <2>3. /\ queues' = T!Queues /\ held' = <<>>
        /\ T!ToSet(editor') = T!Atoms(listed) \cup T!ToSet(editor)
        /\ T!Atoms(listed) = N
    BY TakenTypes
  <2> QED BY <2>1, <2>2, <2>3
<1>2. /\ Keeps("editor", 0)' = N \cup Keeps("editor", 0)
      /\ Keeps("held", 0) \subseteq N /\ Keeps("said", 0) = T!Said
      /\ \A mode \in T!Modes : T!Atoms(shown[mode]) \subseteq N
  BY <1>1, KeepsIs, KeepsNext DEF T!Modes
<1>3. /\ Keeps("held", 0)' = {} /\ held' = <<>> /\ ApartBut(T!Texts(held'), repeated')
      /\ \A mode \in T!Modes : Keeps("queue", mode)' = {} /\ queues'[mode] = <<>>
  <2>1. T!Texts(<<>>) = <<>> /\ T!Atoms(<<>>) = {}
    BY TextsOfMessages, AtomsOfSequence, EmptySeq
  <2>2. \A mode \in T!Modes : queues'[mode] = <<>>
    BY <1>1 DEF T!Queues
  <2>3. ApartBut(T!Texts(held'), repeated')
    BY <1>1, <2>1 DEF ApartBut
  <2> QED BY <1>1, <2>1, <2>2, <2>3, KeepsNext
<1>4. /\ Keeps("said", 0)' = Keeps("said", 0)
      /\ \A c \in T!Callers : Keeps("hand", c)' = Keeps("hand", c)
      /\ \A f \in T!Flushes : Keeps("sending", f)' = Keeps("sending", f)
  BY KeepsSame
<1>5. ASSUME NEW a \in N
      PROVE  /\ a \in 1..typed
             /\ \/ a \in Keeps("said", 0) \/ a \in repeated \/ a \in Keeps("held", 0)
                \/ \E mode \in T!Modes : a \in Keeps("queue", mode)
  <2>1. CASE a \in T!Atoms(T!Texts(held))
    <3>1. IsPlace("held", 0) /\ a \in Keeps("held", 0)
      BY <2>1, PlaceIs, KeepsIs
    <3> QED BY <3>1, Zenon DEF KeepInv, PlacesInv, Bounded
  <2>2. ASSUME NEW mode \in T!Modes, a \in T!Atoms(shown[mode])
        PROVE  /\ a \in 1..typed
               /\ a \in Keeps("said", 0) \/ a \in repeated \/ a \in Keeps("queue", mode)
    <3>1. PICK text \in T!ToSet(shown[mode]) : a \in T!ToSet(text)
      BY <2>2 DEF T!ToSet, T!Atoms
    <3>2. text \in T!ToSet(queues[mode]) => T!ToSet(text) \subseteq Keeps("queue", mode)
      BY KeepsIs DEF T!ToSet, T!Atoms
    <3> QED BY <1>2, <3>1, <3>2, ListedIs
  <2>3. a \in T!Atoms(shown["steer"]) \/ a \in T!Atoms(shown["followUp"])
        \/ a \in T!Atoms(T!Texts(held))
    OBVIOUS
  <2> QED BY <2>1, <2>2, <2>3 DEF T!Modes
<1>6. repeated \subseteq repeated' /\ repeated' \subseteq 1..typed /\ typed \in Nat
  <2>1. repeated \subseteq 1..typed
    BY DEF KeepInv, PlacesInv, Bounded
  <2> QED BY <1>1, <1>5, <2>1 DEF TextTypes
<1>7. \A k, x, l, y : IsPlace(k, x) /\ IsPlace(l, y) /\ ~(k = l /\ x = y) =>
        Keeps(k, x) \cap Keeps(l, y) \subseteq repeated
  BY Zenon DEF KeepInv, PlacesInv, Separate
<1>8. PlacesInv'
  <2>1. ASSUME NEW k, NEW x, IsPlace(k, x), ~(k = "editor" /\ x = 0)
        PROVE  /\ Keeps(k, x)' \subseteq Keeps(k, x)
               /\ Keeps(k, x)' \cap N \subseteq repeated'
    <3>1. CASE k \in {"queue", "held"}
      BY <1>3, <2>1, <3>1, PlaceIs
    <3>2. CASE k = "said" /\ x = 0
      BY <1>1, <1>2, <1>4, <3>2
    <3>3. CASE k \in {"hand", "sending"}
      <4>1. Keeps(k, x)' = Keeps(k, x)
        BY <1>4, <2>1, <3>3, PlaceIs
      <4>2. ASSUME NEW a \in N, a \in Keeps(k, x) PROVE a \in repeated
        <5>1. /\ IsPlace("said", 0) /\ IsPlace("held", 0)
              /\ \A mode \in T!Modes : IsPlace("queue", mode)
          BY PlaceIs
        <5>2. CASE a \in Keeps("said", 0)
          BY <1>7, <2>1, <3>3, <4>2, <5>1, <5>2
        <5>3. CASE a \in Keeps("held", 0)
          BY <1>7, <2>1, <3>3, <4>2, <5>1, <5>3
        <5>4. ASSUME NEW mode \in T!Modes, a \in Keeps("queue", mode) PROVE a \in repeated
          <6>1. IsPlace("queue", mode) /\ ~(k = "queue" /\ x = mode)
            BY <3>3, PlaceIs
          <6> QED BY <1>7, <2>1, <4>2, <5>4, <6>1
        <5> HIDE DEF N
        <5> QED BY <1>5, <4>2, <5>2, <5>3, <5>4
      <4> HIDE DEF N
      <4> QED BY <1>6, <4>1, <4>2
    <3> QED BY <2>1, <3>1, <3>2, <3>3, PlaceIs
  <2>2. ASSUME NEW a \in 1..typed', a \in dropped \/ a > typed \/ Somewhere(a)
        PROVE  a \in dropped' \/ Somewhere(a)'
    <3>1. ~(a > typed) /\ dropped' = dropped
      BY <1>1, <1>6
    <3>2. ASSUME NEW k, NEW x, IsPlace(k, x), a \in Keeps(k, x) PROVE Somewhere(a)'
      <4>0. IsPlace("editor", 0) /\ IsPlace("said", 0)
        BY PlaceIs
      <4>1. CASE a \in N
        <5>1. a \in Keeps("editor", 0)'
          BY <1>2, <4>1
        <5> QED BY <4>0, <5>1, SomewhereIs
      <4>2. CASE k = "queue" /\ a \notin N
        <5>1. x \in T!Modes /\ a \in T!Atoms(queues[x])
          BY <3>2, <4>2, PlaceIs, KeepsIs
        <5>2. PICK text \in T!ToSet(queues[x]) : a \in T!ToSet(text)
          BY <5>1 DEF T!ToSet, T!Atoms
        <5>3. text \notin T!ToSet(shown[x])
          <6>1. text \in T!ToSet(shown[x]) => a \in T!Atoms(shown[x])
            BY <5>2 DEF T!ToSet, T!Atoms
          <6> QED BY <1>2, <4>2, <5>1, <6>1
        <5>4. a \in Keeps("said", 0)
          BY <1>2, <5>1, <5>2, <5>3 DEF ListInv, Listed
        <5> QED BY <1>4, <4>0, <5>4, SomewhereIs
      <4>3. CASE k = "editor"
        <5>1. a \in Keeps("editor", 0)'
          BY <1>2, <3>2, <4>3, PlaceIs
        <5> QED BY <4>0, <5>1, SomewhereIs
      <4>4. CASE k = "held"
        BY <1>2, <3>2, <4>1, <4>4, PlaceIs
      <4>5. CASE k \in {"said", "hand", "sending"}
        <5>1. Keeps(k, x)' = Keeps(k, x)
          BY <1>4, <3>2, <4>5, PlaceIs
        <5> QED BY <3>2, <5>1, SomewhereIs, Zenon
      <4> QED BY <3>2, <4>1, <4>2, <4>3, <4>4, <4>5, PlaceIs
    <3> QED BY <2>2, <3>1, <3>2, Zenon DEF Somewhere
  <2>3. Moves(N, "editor", 0)
    <3>1. typed' \in Nat /\ typed <= typed' /\ N \subseteq 1..typed'
      BY <1>5, <1>6
    <3> HIDE DEF N
    <3> QED BY <1>2, <1>6, <2>1, <2>2, <3>1 DEF Moves
  <2> HIDE DEF N
  <2> QED BY <2>3, Moved DEF KeepInv
<1>9. AllApart'
  <2>1. \A mode \in T!Modes : ApartBut(queues'[mode], repeated')
    BY <1>3 DEF ApartBut
  <2> QED BY <1>3, <1>6, <2>1, ApartKept DEF KeepInv
<1>10. Restored'
  <2>1. \A f \in T!Flushes : /\ flush'[f].batch = flush[f].batch
                             /\ Keeps("sending", f)' = Keeps("sending", f)
                             /\ Keeps("hand", f)' = Keeps("hand", f)
    BY <1>4, LoopIs
  <2> QED BY <1>6, <2>1, RestoredKept DEF KeepInv
<1> QED BY <1>8, <1>9, <1>10 DEF KeepInv

\* What the editor held, and what is typed after it, comes to a place.
Submits(N, l, y) ==
  /\ N = T!ToSet(editor) \cup {typed + 1} /\ typed' = typed + 1
  /\ IsPlace(l, y) /\ l # "editor"
  /\ \/ Keeps(l, y)' = Keeps(l, y) \cup N /\ dropped' = dropped
     \/ Keeps(l, y)' = Keeps(l, y) /\ dropped' = dropped \cup N
     \/ Keeps(l, y)' = Keeps(l, y) /\ dropped' = dropped /\ Keeps("editor", 0)' = N
  /\ \/ Keeps("editor", 0)' = {}
     \/ Keeps("editor", 0)' = N /\ (N \subseteq repeated' \/ Keeps(l, y)' = Keeps(l, y))
  /\ \A k, x : IsPlace(k, x) /\ ~(k = l /\ x = y) /\ k # "editor" =>
       Keeps(k, x)' = Keeps(k, x)
  /\ repeated \subseteq repeated' /\ repeated' \subseteq repeated \cup N

LEMMA SubmittedPlaces ==
  ASSUME KeepInv, TextTypes, NEW N, NEW l, NEW y, Submits(N, l, y)
  PROVE  PlacesInv' /\ typed \in Nat /\ typed' \in Nat /\ typed <= typed'
<1> SUFFICES ASSUME N = T!ToSet(editor) \cup {typed + 1}, typed' = typed + 1,
         IsPlace(l, y), l # "editor",
         \/ Keeps(l, y)' = Keeps(l, y) \cup N /\ dropped' = dropped
         \/ Keeps(l, y)' = Keeps(l, y) /\ dropped' = dropped \cup N
         \/ Keeps(l, y)' = Keeps(l, y) /\ dropped' = dropped /\ Keeps("editor", 0)' = N,
         \/ Keeps("editor", 0)' = {}
         \/ Keeps("editor", 0)' = N /\ (N \subseteq repeated' \/ Keeps(l, y)' = Keeps(l, y)),
         \A k, x : IsPlace(k, x) /\ ~(k = l /\ x = y) /\ k # "editor" =>
           Keeps(k, x)' = Keeps(k, x),
         repeated \subseteq repeated', repeated' \subseteq repeated \cup N
    PROVE  PlacesInv' /\ typed \in Nat /\ typed' \in Nat /\ typed <= typed'
  BY DEF Submits
<1>0. typed \in Nat /\ typed' \in Nat /\ typed <= typed' /\ typed + 1 \in 1..typed'
      /\ typed + 1 \notin 1..typed /\ 1..typed \subseteq 1..typed'
      /\ \A a \in 1..typed' : a \in 1..typed \/ a = typed + 1
  BY DEF TextTypes
<1>1. \A k, x : IsPlace(k, x) => Keeps(k, x) \subseteq 1..typed
  BY Zenon DEF KeepInv, PlacesInv, Bounded
<1>2. IsPlace("editor", 0) /\ Keeps("editor", 0) = T!ToSet(editor)
  BY PlaceIs, KeepsIs
<1>3. N \subseteq 1..typed' /\ Keeps("editor", 0) \subseteq N
  BY <1>0, <1>1, <1>2
<1>4. repeated \subseteq 1..typed /\ repeated' \subseteq 1..typed'
  BY <1>0, <1>3 DEF KeepInv, PlacesInv, Bounded
<1>5. ASSUME NEW k, NEW x, IsPlace(k, x), k # "editor"
      PROVE  Keeps(k, x) \cap N \subseteq repeated
  <2>1. Keeps(k, x) \cap Keeps("editor", 0) \subseteq repeated
    BY <1>2, <1>5, Zenon DEF KeepInv, PlacesInv, Separate
  <2>2. typed + 1 \notin Keeps(k, x)
    BY <1>0, <1>1, <1>5
  <2> QED BY <1>2, <2>1, <2>2
<1>6. \A k, x : IsPlace(k, x) /\ k = "editor" => x = 0
  BY PlaceIs
<1>7. ASSUME NEW a \in 1..typed', a \in dropped \/ a > typed \/ Somewhere(a)
      PROVE  a \in dropped' \/ Somewhere(a)'
  <2>1. a \in N => a \in dropped' \/ Somewhere(a)'
    <3>1. a \in N => a \in dropped' \/ a \in Keeps(l, y)' \/ a \in Keeps("editor", 0)'
      OBVIOUS
    <3> QED BY <1>2, <3>1, SomewhereIs
  <2>2. a \in dropped => a \in dropped'
    OBVIOUS
  <2>3. a > typed => a \in N
    BY <1>0
  <2>4. ASSUME NEW k, NEW x, IsPlace(k, x), a \in Keeps(k, x), a \notin N PROVE Somewhere(a)'
    <3>1. k # "editor"
      BY <1>3, <1>6, <2>4
    <3>2. a \in Keeps(k, x)'
      <4>1. CASE k = l /\ x = y
        BY <2>4, <4>1
      <4>2. CASE ~(k = l /\ x = y)
        BY <2>4, <3>1, <4>2, Zenon
      <4> QED BY <4>1, <4>2
    <3> QED BY <2>4, <3>2, SomewhereIs, Zenon
  <2> QED BY <1>7, <2>1, <2>2, <2>3, <2>4, Zenon DEF Somewhere
<1>8. CASE Keeps(l, y)' = Keeps(l, y)
  <2>1. ASSUME NEW k, NEW x, IsPlace(k, x), ~(k = "editor" /\ x = 0)
        PROVE  Keeps(k, x)' = Keeps(k, x)
    <3>1. k # "editor"
      BY <1>6, <2>1
    <3>2. CASE k = l /\ x = y
      BY <1>8, <3>2
    <3>3. CASE ~(k = l /\ x = y)
      BY <2>1, <3>1, <3>3, Zenon
    <3> QED BY <3>2, <3>3
  <2>2. \A k, x : IsPlace(k, x) /\ ~(k = "editor" /\ x = 0) =>
          /\ Keeps(k, x)' \subseteq Keeps(k, x)
          /\ Keeps(k, x)' \cap N \subseteq repeated'
    <3>1. \A k, x : IsPlace(k, x) /\ ~(k = "editor" /\ x = 0) => k # "editor"
      BY <1>6
    <3> QED BY <1>5, <2>1, <3>1
  <2>3. Moves(N, "editor", 0)
    <3>1. Keeps("editor", 0)' \subseteq N
      OBVIOUS
    <3> QED BY <1>0, <1>3, <1>4, <1>7, <2>2, <3>1 DEF Moves
  <2> QED BY <1>0, <2>3, Moved DEF KeepInv
<1>9. CASE Keeps(l, y)' = Keeps(l, y) \cup N
  <2>1. Keeps("editor", 0)' = {} \/ N \subseteq repeated' \/ N \subseteq Keeps(l, y)
    BY <1>9
  <2>2. N \subseteq Keeps(l, y) => N \subseteq repeated'
    BY <1>5
  <2>3. ASSUME NEW k, NEW x, IsPlace(k, x), ~(k = l /\ x = y)
        PROVE  /\ Keeps(k, x)' \subseteq Keeps(k, x) \cup repeated'
               /\ Keeps(k, x)' \cap N \subseteq repeated'
    <3>1. CASE k = "editor"
      BY <1>6, <2>1, <2>2, <2>3, <3>1
    <3>2. CASE k # "editor"
      <4>1. Keeps(k, x)' = Keeps(k, x)
        BY <2>3, <3>2, Zenon
      <4> QED BY <1>5, <2>3, <3>2, <4>1
    <3> QED BY <3>1, <3>2
  <2>4. Moves(N, l, y)
    BY <1>0, <1>3, <1>4, <1>7, <1>9, <2>3 DEF Moves
  <2> QED BY <1>0, <2>4, Moved DEF KeepInv
<1> QED BY <1>8, <1>9

LEMMA SubmitKeeps ==
  ASSUME KeepInv, TextTypes, NEW mode \in T!Modes, T!Submit(mode)
  PROVE  KeepInv'
<1> DEFINE text == Append(editor, typed + 1)
           N == T!ToSet(text)
           m == [text |-> text, mode |-> mode]
<1>1. text \in Text /\ N = T!ToSet(editor) \cup {typed + 1} /\ m \in Message /\ m.text = text
  <2>1. text \in Text /\ N = T!ToSet(editor) \cup {typed + 1}
    <3>1. editor \in Seq(Nat) /\ typed + 1 \in Nat
      BY DEF TextTypes, Text
    <3>2. text \in Seq(Nat)
      BY <3>1, AppendProperties
    <3>3. \A x \in Nat : T!ToSet(Append(editor, x)) = T!ToSet(editor) \cup {x}
      BY <3>1, SetOfSequence
    <3> QED BY <3>1, <3>2, <3>3 DEF Text
  <2> QED BY <2>1 DEF Message
<1>2. /\ typed' = typed + 1 /\ editor' = T!Remains(mode, text) /\ UNCHANGED flush
  BY DEF T!Submit
<1>3. \/ /\ T!IsCompacting /\ T!Hold(text, mode)
         /\ UNCHANGED <<prompts, said, queues, dropped, repeated>>
      \/ /\ T!IsCompacting \/ T!IsStreaming
         /\ said' = Append(said, text)
         /\ UNCHANGED <<held, prompts, queues, dropped, repeated>>
      \/ /\ T!IsStreaming /\ T!Enqueue(mode, text)
         /\ UNCHANGED <<held, prompts, said, dropped, repeated>>
      \/ /\ T!IsListening
         /\ \/ said' = Append(said, text) /\ UNCHANGED prompts
            \/ T!CallPrompt(T!Loop, text) /\ UNCHANGED said
         /\ repeated' = IF mode = "followUp" THEN repeated \cup N ELSE repeated
         /\ UNCHANGED <<held, queues, dropped>>
      \/ /\ ~T!IsCompacting /\ ~T!IsStreaming
         /\ dropped' = IF mode = "steer" THEN dropped \cup N ELSE dropped
         /\ UNCHANGED <<held, prompts, said, queues, repeated>>
  BY DEF T!Submit, T!history
<1>4. /\ editor' = T!NoText \/ editor' = text
      /\ T!IsCompacting \/ T!IsStreaming \/ mode = "steer" => editor' = T!NoText
      /\ ~T!IsCompacting /\ ~T!IsStreaming /\ mode = "followUp" => editor' = text
  <2>1. "steer" # "followUp"
    OBVIOUS
  <2> QED BY <1>2, <2>1 DEF T!Remains
<1>5. T!ToSet(T!NoText) = {} /\ Keeps("editor", 0)' = T!ToSet(editor')
  BY SetOfSequence, KeepsNext, EmptySeq DEF T!NoText
<1> HIDE DEF text, m
<1>6. /\ \A x : IsPlace("queue", x) => x \in T!Modes
      /\ \A x : IsPlace("hand", x) => x \in T!Callers
      /\ IsPlace("held", 0) /\ IsPlace("said", 0) /\ IsPlace("hand", T!Loop)
      /\ IsPlace("queue", mode)
  BY PlaceIs, LoopIs
<1>7. /\ flush' = flush
      /\ ApartBut(T!Texts(held), repeated) /\ ApartBut(said, repeated)
      /\ \A other \in T!Modes : ApartBut(queues[other], repeated)
      /\ repeated \subseteq repeated'
  BY <1>2, <1>3 DEF KeepInv, AllApart
<1>8. ASSUME NEW l, NEW y, IsPlace(l, y), l # "editor" PROVE Keeps(l, y) \cap N \subseteq repeated
  <2>1. Keeps(l, y) \cap Keeps("editor", 0) \subseteq repeated
    BY <1>8, PlaceIs, Zenon DEF KeepInv, PlacesInv, Separate
  <2>2. Keeps(l, y) \subseteq 1..typed
    BY <1>8, Zenon DEF KeepInv, PlacesInv, Bounded
  <2>3. typed + 1 \notin 1..typed
    BY DEF TextTypes
  <2> QED BY <1>1, <2>1, <2>2, <2>3, KeepsIs
<1>a. ASSUME NEW s \in Seq(Text), ApartBut(s, repeated), N \cap T!Atoms(s) \subseteq repeated
      PROVE  ApartBut(Append(s, text), repeated')
  <2>1. N \cap T!Atoms(s) \subseteq repeated'
    BY <1>7, <1>a
  <2> QED BY <1>1, <1>7, <1>a, <2>1, ApartSequence
<1>9. ASSUME PlacesInv', AllApart', typed \in Nat, typed' \in Nat, typed <= typed',
             \A f \in T!Flushes : Keeps("hand", f)' = Keeps("hand", f)
      PROVE  KeepInv'
  <2>1. \A f \in T!Flushes : /\ flush'[f].batch = flush[f].batch
                             /\ Keeps("sending", f)' = Keeps("sending", f)
    BY <1>2, KeepsSame
  <2>2. Restored'
    BY <1>9, <2>1, RestoredKept DEF KeepInv
  <2> QED BY <1>9, <2>2 DEF KeepInv
<1>10. CASE /\ T!IsCompacting /\ T!Hold(text, mode)
            /\ UNCHANGED <<prompts, said, queues, dropped, repeated>>
  <2>1. held' = Append(held, m) /\ held \in Seq(Message) /\ T!Texts(held) \in Seq(Text)
    BY <1>10, TextsOfMessages DEF T!Hold, m, TextTypes
  <2>2. T!Texts(held') = Append(T!Texts(held), text)
    BY <1>1, <2>1, TextsOfMessages
  <2>3. Keeps("held", 0)' = Keeps("held", 0) \cup N
    <3>1. T!Atoms(Append(T!Texts(held), text)) = T!Atoms(T!Texts(held)) \cup N
      BY <1>1, <2>1, AtomsOfSequence
    <3> QED BY <2>2, <3>1, KeepsIs, KeepsNext
  <2>4. \A k, x : IsPlace(k, x) /\ ~(k = "held" /\ x = 0) /\ k # "editor" =>
          Keeps(k, x)' = Keeps(k, x)
    BY <1>2, <1>10, KeepsSame, PlaceIs
  <2>5. Keeps("editor", 0)' = {} /\ dropped' = dropped /\ repeated' = repeated
    BY <1>4, <1>5, <1>10
  <2>6. AllApart'
    <3>1. N \cap T!Atoms(T!Texts(held)) \subseteq repeated
      BY <1>6, <1>8, KeepsIs
    <3>2. ApartBut(T!Texts(held'), repeated')
      BY <1>7, <1>a, <2>1, <2>2, <3>1
    <3> QED BY <1>7, <1>10, <3>2, ApartKept DEF KeepInv
  <2>7. PlacesInv' /\ typed \in Nat /\ typed' \in Nat /\ typed <= typed'
    <3> HIDE DEF N
    <3>1. Submits(N, "held", 0)
      BY <1>1, <1>2, <1>6, <2>3, <2>4, <2>5 DEF Submits
    <3> QED BY <3>1, SubmittedPlaces
  <2>8. \A f \in T!Flushes : Keeps("hand", f)' = Keeps("hand", f)
    BY <1>10, KeepsSame
  <2> QED BY <1>9, <2>6, <2>7, <2>8
<1>11. ASSUME said' = Append(said, text), UNCHANGED <<held, prompts, queues, dropped>>,
              repeated' = repeated \/ repeated' = repeated \cup N,
              editor' = T!NoText \/ (editor' = text /\ N \subseteq repeated')
       PROVE  KeepInv'
  <2>1. Keeps("said", 0)' = Keeps("said", 0) \cup N
    <3>1. T!Atoms(Append(said, text)) = T!Atoms(said) \cup N
      BY <1>1, AtomsOfSequence DEF TextTypes
    <3> QED BY <1>11, <3>1, KeepsIs, KeepsNext DEF T!Said
  <2>2. \A k, x : IsPlace(k, x) /\ ~(k = "said" /\ x = 0) /\ k # "editor" =>
          Keeps(k, x)' = Keeps(k, x)
    BY <1>2, <1>11, KeepsSame, PlaceIs
  <2>3. \/ Keeps("editor", 0)' = {}
        \/ Keeps("editor", 0)' = N /\ N \subseteq repeated'
    BY <1>5, <1>11
  <2>4. AllApart'
    <3>1. N \cap T!Atoms(said) \subseteq repeated
      BY <1>6, <1>8, KeepsIs DEF T!Said
    <3>2. ApartBut(said', repeated')
      BY <1>7, <1>a, <1>11, <3>1 DEF TextTypes
    <3> QED BY <1>7, <1>11, <3>2, ApartKept DEF KeepInv
  <2>5. PlacesInv' /\ typed \in Nat /\ typed' \in Nat /\ typed <= typed'
    <3> HIDE DEF N
    <3>1. repeated \subseteq repeated' /\ repeated' \subseteq repeated \cup N
      BY <1>11
    <3>2. "said" # "editor" /\ dropped' = dropped
      BY <1>11
    <3>3. Submits(N, "said", 0)
      BY <1>1, <1>2, <1>6, <2>1, <2>2, <2>3, <3>1, <3>2 DEF Submits
    <3> QED BY <3>3, SubmittedPlaces
  <2>6. \A f \in T!Flushes : Keeps("hand", f)' = Keeps("hand", f)
    BY <1>11, KeepsSame
  <2> QED BY <1>9, <2>4, <2>5, <2>6
<1>12. CASE /\ T!IsStreaming /\ T!Enqueue(mode, text)
            /\ UNCHANGED <<held, prompts, said, dropped, repeated>>
  <2>1. /\ queues'[mode] = Append(queues[mode], text)
        /\ \A other \in T!Modes : other # mode => queues'[other] = queues[other]
        /\ queues[mode] \in Seq(Text)
    BY <1>1, <1>12, EnqueueTypes DEF TextTypes
  <2>2. Keeps("queue", mode)' = Keeps("queue", mode) \cup N
    <3>1. T!Atoms(Append(queues[mode], text)) = T!Atoms(queues[mode]) \cup N
      BY <1>1, <2>1, AtomsOfSequence
    <3> QED BY <2>1, <3>1, KeepsIs, KeepsNext
  <2>3. \A k, x : IsPlace(k, x) /\ ~(k = "queue" /\ x = mode) /\ k # "editor" =>
          Keeps(k, x)' = Keeps(k, x)
    BY <1>2, <1>12, <2>1, KeepsSame, PlaceIs
  <2>4. Keeps("editor", 0)' = {} /\ dropped' = dropped /\ repeated' = repeated
    BY <1>4, <1>5, <1>12
  <2>5. AllApart'
    <3>1. N \cap T!Atoms(queues[mode]) \subseteq repeated
      BY <1>6, <1>8, KeepsIs
    <3>2. ApartBut(queues'[mode], repeated')
      BY <1>7, <1>a, <2>1, <3>1
    <3> QED BY <1>7, <1>12, <2>1, <3>2, ApartKept DEF KeepInv
  <2>6. PlacesInv' /\ typed \in Nat /\ typed' \in Nat /\ typed <= typed'
    <3> HIDE DEF N
    <3>1. Submits(N, "queue", mode)
      BY <1>1, <1>2, <1>6, <2>2, <2>3, <2>4 DEF Submits
    <3> QED BY <3>1, SubmittedPlaces
  <2>7. \A f \in T!Flushes : Keeps("hand", f)' = Keeps("hand", f)
    BY <1>12, KeepsSame
  <2> QED BY <1>9, <2>5, <2>6, <2>7
<1>13. CASE /\ T!IsListening /\ T!CallPrompt(T!Loop, text)
            /\ repeated' = IF mode = "followUp" THEN repeated \cup N ELSE repeated
            /\ UNCHANGED <<held, queues, dropped, said>>
  <2>1. /\ prompts'[T!Loop].pc \in {"threw", "ready", "compacting"} /\ prompts'[T!Loop].text = text
        /\ \A c \in T!Callers : c # T!Loop => prompts'[c] = prompts[c]
    BY <1>1, <1>13, CallTypes, LoopIs
  <2>2. Keeps("hand", T!Loop)' = Keeps("hand", T!Loop) \cup N
    <3>1. Keeps("hand", T!Loop) = {}
      BY <1>13, InHandIs DEF T!IsListening
    <3> QED BY <2>1, <3>1, InHandIs
  <2>3. \A k, x : IsPlace(k, x) /\ ~(k = "hand" /\ x = T!Loop) /\ k # "editor" =>
          Keeps(k, x)' = Keeps(k, x)
    BY <1>2, <1>13, <2>1, KeepsSame, PlaceIs
  <2>4. /\ \/ Keeps("editor", 0)' = {}
           \/ Keeps("editor", 0)' = N /\ N \subseteq repeated'
        /\ dropped' = dropped
        /\ repeated \subseteq repeated' /\ repeated' \subseteq repeated \cup N
    <3>1. mode = "steer" \/ mode = "followUp"
      BY DEF T!Modes
    <3> QED BY <1>4, <1>5, <1>13, <3>1
  <2>5. AllApart'
    BY <1>7, <1>13, ApartKept DEF KeepInv
  <2>6. PlacesInv' /\ typed \in Nat /\ typed' \in Nat /\ typed <= typed'
    <3> HIDE DEF N
    <3>1. "hand" # "editor" /\ IsPlace("hand", T!Loop) /\ dropped' = dropped
      BY <1>6, <2>4
    <3>2. \/ Keeps("editor", 0)' = {}
          \/ Keeps("editor", 0)' = N /\ N \subseteq repeated'
      BY <2>4
    <3>3. repeated \subseteq repeated' /\ repeated' \subseteq repeated \cup N
      BY <2>4
    <3>4. N = T!ToSet(editor) \cup {typed + 1} /\ typed' = typed + 1
      BY <1>1, <1>2
    <3>5. Submits(N, "hand", T!Loop)
      BY <2>2, <2>3, <3>1, <3>2, <3>3, <3>4 DEF Submits
    <3> QED BY <3>5, SubmittedPlaces
  <2>7. \A f \in T!Flushes : Keeps("hand", f)' = Keeps("hand", f)
    BY <2>1, KeepsSame, LoopIs
  <2> QED BY <1>9, <2>5, <2>6, <2>7
<1>14. CASE /\ ~T!IsCompacting /\ ~T!IsStreaming
            /\ dropped' = IF mode = "steer" THEN dropped \cup N ELSE dropped
            /\ UNCHANGED <<held, prompts, said, queues, repeated>>
  <2>1. \A k, x : IsPlace(k, x) /\ k # "editor" => Keeps(k, x)' = Keeps(k, x)
    BY <1>2, <1>14, KeepsSame, PlaceIs
  <2>2. AllApart'
    BY <1>7, <1>14, ApartKept DEF KeepInv
  <2>3. \/ dropped' = dropped \cup N /\ Keeps("editor", 0)' = {}
        \/ dropped' = dropped /\ Keeps("editor", 0)' = N
    <3>1. mode = "steer" \/ mode = "followUp"
      BY DEF T!Modes
    <3> QED BY <1>4, <1>5, <1>14, <3>1
  <2>4. PlacesInv' /\ typed \in Nat /\ typed' \in Nat /\ typed <= typed'
    <3> HIDE DEF N
    <3>1. Keeps("said", 0)' = Keeps("said", 0) /\ "said" # "editor"
      BY <1>6, <2>1
    <3>2. repeated \subseteq repeated' /\ repeated' \subseteq repeated \cup N
      BY <1>14
    <3>3. Submits(N, "said", 0)
      BY <1>1, <1>2, <1>6, <2>1, <2>3, <3>1, <3>2 DEF Submits
    <3> QED BY <3>3, SubmittedPlaces
  <2>5. \A f \in T!Flushes : Keeps("hand", f)' = Keeps("hand", f)
    BY <1>14, KeepsSame
  <2> QED BY <1>9, <2>2, <2>4, <2>5
<1>15. mode = "steer" \/ mode = "followUp"
  BY DEF T!Modes
<1>16. CASE /\ T!IsCompacting \/ T!IsStreaming
            /\ said' = Append(said, text)
            /\ UNCHANGED <<held, prompts, queues, dropped, repeated>>
  <2>1. editor' = T!NoText /\ repeated' = repeated
    BY <1>4, <1>16
  <2> QED BY <1>11, <1>16, <2>1
<1>17. CASE /\ said' = Append(said, text) /\ UNCHANGED prompts
            /\ repeated' = IF mode = "followUp" THEN repeated \cup N ELSE repeated
            /\ UNCHANGED <<held, queues, dropped>>
  <2>1. /\ repeated' = repeated \/ repeated' = repeated \cup N
        /\ editor' = T!NoText \/ (editor' = text /\ N \subseteq repeated')
    BY <1>4, <1>15, <1>17
  <2> QED BY <1>11, <1>17, <2>1
<1> QED BY <1>3, <1>10, <1>12, <1>13, <1>14, <1>16, <1>17

LEMMA UserKeeps ==
  ASSUME KeepInv, ListInv, TextTypes, T!UserStep
  PROVE  KeepInv'
<1> USE DEF T!texts, T!agent, T!retry, T!compactions, T!bounds, T!history
<1>1. CASE T!Dequeue \/ T!Escape
  <2>1. T!TakeBack /\ UNCHANGED <<flush, prompts, typed, said>>
    BY <1>1 DEF T!Dequeue, T!Escape
  <2> QED BY <2>1, TakeBackKeeps
<1>2. CASE T!EscapeRetry
  <2>1. /\ T!ResolveRetry /\ UNCHANGED <<editor, said, typed, dropped, repeated, queues>>
        /\ T!CheckCompaction("error", T!RetryEnded(ui)) \/ UNCHANGED <<held, flush>>
    BY <1>2 DEF T!EscapeRetry, T!AbortRetry
  <2>2. UNCHANGED <<held, flush>> \/ T!TakeHeld(FALSE)
    BY <2>1, CheckTypes
  <2> QED BY <2>1, <2>2, ResolveHands, TakeHeldKeeps
<1>3. CASE T!Compact
  <2>1. T!ResolveRetry /\ UNCHANGED <<editor, held, flush, said, typed, dropped, repeated, queues>>
    BY <1>3 DEF T!Compact
  <2> QED BY <2>1, ResolveHands, KeptStill DEF TextTypes
<1>4. ASSUME NEW mode \in T!Modes, T!Submit(mode) PROVE KeepInv'
  BY <1>4, SubmitKeeps
<1> QED BY <1>1, <1>2, <1>3, <1>4 DEF T!UserStep

\* What has been said comes to the empty editor once more.
LEMMA NavigationKeeps ==
  ASSUME KeepInv, TextTypes, T!NavigationStep
  PROVE  KeepInv'
<1>1. /\ UNCHANGED <<held, flush, prompts, queues, said, typed, dropped>> /\ ToTheEditor
      /\ typed \in Nat
  BY NavigationTexts DEF TextTypes
<1>2. /\ Keeps("held", 0)' = Keeps("held", 0) /\ Keeps("said", 0)' = Keeps("said", 0)
      /\ \A mode \in T!Modes : Keeps("queue", mode)' = Keeps("queue", mode)
      /\ \A c \in T!Callers : Keeps("hand", c)' = Keeps("hand", c)
      /\ \A f \in T!Flushes : Keeps("sending", f)' = Keeps("sending", f)
  BY <1>1, KeepsSame
<1>3. CASE UNCHANGED <<editor, repeated>>
  BY <1>1, <1>2, <1>3, KeptStill
<1>4. ASSUME NEW i \in DOMAIN said, editor = <<>>, editor' = said[i],
             repeated' = repeated \cup T!ToSet(said[i])
      PROVE  KeepInv'
  <2> DEFINE N == T!ToSet(said[i])
  <2>1. Keeps("editor", 0)' = N /\ repeated' = repeated \cup N
    BY <1>4, KeepsNext
  <2>2. N \subseteq Keeps("said", 0)
    BY KeepsIs DEF T!Said, T!Atoms
  <2> HIDE DEF N
  <2>3. N \subseteq 1..typed /\ repeated \subseteq 1..typed
    <3>1. IsPlace("said", 0)
      BY PlaceIs
    <3>2. Keeps("said", 0) \subseteq 1..typed /\ repeated \subseteq 1..typed
      BY <3>1, Zenon DEF KeepInv, PlacesInv, Bounded
    <3> QED BY <2>2, <3>2
  <2>4. repeated \subseteq repeated' /\ repeated' \subseteq 1..typed /\ N \subseteq repeated'
    BY <2>1, <2>3
  <2>5. \A k, x : IsPlace(k, x) /\ ~(k = "editor" /\ x = 0) => Keeps(k, x)' = Keeps(k, x)
    BY <1>2, PlaceIs
  <2>6. Keeps("editor", 0) = {}
    <3>1. T!ToSet(<<>>) = {}
      BY SetOfSequence, EmptySeq
    <3> QED BY <1>4, <3>1, KeepsIs
  <2>7. ASSUME NEW a \in 1..typed', a \in dropped \/ a > typed \/ Somewhere(a)
        PROVE  a \in dropped' \/ Somewhere(a)'
    <3>1. ~(a > typed) /\ dropped' = dropped
      BY <1>1
    <3>2. ASSUME NEW k, NEW x, IsPlace(k, x), a \in Keeps(k, x) PROVE Somewhere(a)'
      <4>1. ~(k = "editor" /\ x = 0)
        BY <2>6, <3>2
      <4>2. a \in Keeps(k, x)'
        BY <2>5, <3>2, <4>1
      <4> QED BY <3>2, <4>2, SomewhereIs, Zenon
    <3> QED BY <2>7, <3>1, <3>2, Zenon DEF Somewhere
  <2>8. Moves(N, "editor", 0)
    <3>1. typed' \in Nat /\ typed <= typed' /\ typed' = typed
      BY <1>1
    <3> QED BY <1>1, <2>1, <2>3, <2>4, <2>5, <2>7, <3>1 DEF Moves
  <2>9. PlacesInv'
    BY <2>8, Moved DEF KeepInv
  <2>10. AllApart'
    BY <1>1, <2>4, ApartKept DEF KeepInv
  <2>11. Restored'
    <3>1. \A f \in T!Flushes : /\ flush'[f].batch = flush[f].batch
                               /\ Keeps("sending", f)' = Keeps("sending", f)
                               /\ Keeps("hand", f)' = Keeps("hand", f)
      BY <1>1, <1>2, LoopIs
    <3> QED BY <1>1, <3>1, RestoredKept DEF KeepInv
  <2> QED BY <2>9, <2>10, <2>11 DEF KeepInv
<1> QED BY <1>1, <1>3, <1>4 DEF ToTheEditor

LEMMA KeepStep ==
  ASSUME KeepInv, ListInv, TextTypes, Promised, T!Next
  PROVE  KeepInv'
<1>1. CASE T!PromptStep
  BY <1>1, LoopRefusedKeeps, FlushRefusedKeeps, FlushNextKeeps, StartPromptKeeps,
     PromptReturnsKeeps DEF T!PromptStep
<1>2. CASE T!NavigationStep
  BY <1>2, NavigationKeeps
<1> QED BY <1>1, <1>2, AgentKeeps, SessionKeeps, UserKeeps DEF T!Next

(***************************************************************************)
(* The list of what is queued, and what is to be announced.                *)
(***************************************************************************)
LEMMA AnnouncedIs ==
  /\ Announced <=> \A e \in T!ToSet(notices) : /\ T!ToSet(e.text) \subseteq T!Said
                                               /\ e.type # "user" => e.text = <<>>
  /\ Announced' <=> \A e \in T!ToSet(notices') : /\ T!ToSet(e.text) \subseteq T!Atoms(said')
                                                 /\ e.type # "user" => e.text = <<>>
<1>1. Announced <=> \A e \in T!ToSet(notices) : /\ T!ToSet(e.text) \subseteq T!Said
                                                /\ e.type # "user" => e.text = <<>>
  BY DEF Announced, T!ToSet
<1>2. Announced' <=> \A i \in DOMAIN notices' :
                       /\ T!ToSet(notices'[i].text) \subseteq T!Atoms(said')
                       /\ notices'[i].type # "user" => notices'[i].text = <<>>
  BY DEF Announced, T!Said
<1>3. T!ToSet(notices') = { notices'[i] : i \in DOMAIN notices' }
  BY DEF T!ToSet
<1> QED BY <1>1, <1>2, <1>3

LEMMA InNoticesIs ==
  /\ \A text : text \in InNotices <=> \E e \in T!ToSet(notices) : e.text = text
  /\ \A text : text \in InNotices' <=> \E e \in T!ToSet(notices') : e.text = text
BY DEF InNotices, T!ToSet

LEMMA ListedNext ==
  /\ Listed' <=>
       \A mode \in T!Modes :
         /\ \A text \in T!ToSet(queues'[mode]) \ T!ToSet(shown'[mode]) :
              T!ToSet(text) \subseteq T!Atoms(said')
         /\ \A text \in T!ToSet(shown'[mode]) :
              \/ text \in T!ToSet(queues'[mode]) \/ text \in InNotices'
              \/ T!ToSet(text) \subseteq repeated'
  /\ ListedOnce' <=>
       \A mode, other \in T!Modes : \A i \in DOMAIN shown'[mode], j \in DOMAIN shown'[other] :
         shown'[mode][i] = shown'[other][j] /\ ~(mode = other /\ i = j) =>
           T!ToSet(shown'[mode][i]) \subseteq repeated'
<1>1. Listed' <=>
       \A mode \in T!Modes :
         /\ \A text \in T!ToSet(queues'[mode]) \ T!ToSet(shown'[mode]) :
              T!ToSet(text) \subseteq T!Atoms(said')
         /\ \A text \in T!ToSet(shown'[mode]) :
              \/ text \in T!ToSet(queues'[mode]) \/ text \in InNotices'
              \/ T!ToSet(text) \subseteq repeated'
  BY DEF Listed, T!Said
<1>2. ListedOnce' <=>
       \A mode, other \in T!Modes : \A i \in DOMAIN shown'[mode], j \in DOMAIN shown'[other] :
         shown'[mode][i] = shown'[other][j] /\ ~(mode = other /\ i = j) =>
           T!ToSet(shown'[mode][i]) \subseteq repeated'
  BY DEF ListedOnce
<1> QED BY <1>1, <1>2

\* The list stays as it is; what leaves a queue is to be announced.
LEMMA ListKept ==
  ASSUME ListInv, shown' = shown, repeated \subseteq repeated', T!Said \subseteq T!Atoms(said'),
         \A mode \in T!Modes : T!ToSet(queues'[mode]) \subseteq T!ToSet(queues[mode]),
         \A mode \in T!Modes : \A text \in T!ToSet(queues[mode]) \ T!ToSet(queues'[mode]) :
           text \in InNotices' \/ T!ToSet(text) \subseteq repeated',
         \A e \in T!ToSet(notices) :
           e \in T!ToSet(notices') \/ T!ToSet(e.text) \subseteq repeated',
         \A e \in T!ToSet(notices') :
           \/ e \in T!ToSet(notices)
           \/ /\ T!ToSet(e.text) \subseteq T!Atoms(said') /\ (e.type # "user" => e.text = <<>>)
  PROVE  ListInv'
<1>1. Announced'
  BY AnnouncedIs DEF ListInv
<1>2. \A text \in InNotices : text \in InNotices' \/ T!ToSet(text) \subseteq repeated'
  BY InNoticesIs
<1>3. ASSUME NEW mode \in T!Modes
      PROVE  /\ \A text \in T!ToSet(queues'[mode]) \ T!ToSet(shown'[mode]) :
                  T!ToSet(text) \subseteq T!Atoms(said')
             /\ \A text \in T!ToSet(shown'[mode]) :
                  \/ text \in T!ToSet(queues'[mode]) \/ text \in InNotices'
                  \/ T!ToSet(text) \subseteq repeated'
  <2>1. /\ \A text \in T!ToSet(queues[mode]) \ T!ToSet(shown[mode]) : T!ToSet(text) \subseteq T!Said
        /\ \A text \in T!ToSet(shown[mode]) :
             \/ text \in T!ToSet(queues[mode]) \/ text \in InNotices
             \/ T!ToSet(text) \subseteq repeated
    BY DEF ListInv, Listed
  <2>2. shown'[mode] = shown[mode]
    OBVIOUS
  <2>3. \A text \in T!ToSet(queues'[mode]) \ T!ToSet(shown'[mode]) :
          T!ToSet(text) \subseteq T!Atoms(said')
    BY <2>1, <2>2
  <2>4. ASSUME NEW text \in T!ToSet(shown'[mode])
        PROVE  \/ text \in T!ToSet(queues'[mode]) \/ text \in InNotices'
               \/ T!ToSet(text) \subseteq repeated'
    BY <1>2, <2>1, <2>2
  <2> QED BY <2>3, <2>4
<1>4. Listed'
  BY <1>3, ListedNext, Zenon
<1>5. ListedOnce'
  <2>1. ASSUME NEW mode \in T!Modes, NEW other \in T!Modes,
               NEW i \in DOMAIN shown[mode], NEW j \in DOMAIN shown[other],
               shown[mode][i] = shown[other][j], ~(mode = other /\ i = j)
        PROVE  T!ToSet(shown[mode][i]) \subseteq repeated'
    <3>1. T!ToSet(shown[mode][i]) \subseteq repeated
      BY <2>1, Zenon DEF ListInv, ListedOnce
    <3> QED BY <3>1
  <2> QED BY <2>1, ListedNext, Zenon
<1> QED BY <1>1, <1>4, <1>5 DEF ListInv

\* Nothing is queued any more.
LEMMA ListEmptied ==
  ASSUME ListInv, queues' = T!Queues, shown' = T!Queues, UNCHANGED <<notices, said>>
  PROVE  ListInv'
<1>1. \A mode \in T!Modes : queues'[mode] = <<>> /\ shown'[mode] = <<>>
  BY DEF T!Queues
<1>2. T!ToSet(<<>>) = {}
  BY SetOfSequence, EmptySeq
<1>3. Announced'
  BY AnnouncedIs DEF ListInv, T!Said
<1>4. \A mode \in T!Modes : T!ToSet(queues'[mode]) = {} /\ T!ToSet(shown'[mode]) = {}
  BY <1>1, <1>2
<1>5. Listed'
  BY <1>4, ListedNext
<1>6. \A mode \in T!Modes : DOMAIN shown'[mode] = {}
  BY <1>1
<1>7. ListedOnce'
  BY <1>6, ListedNext
<1> QED BY <1>3, <1>5, <1>7 DEF ListInv

\* A text that is not listed is queued and listed.
LEMMA ListEnqueued ==
  ASSUME ListInv, TextTypes, NEW mode \in T!Modes, NEW text \in Text, T!Enqueue(mode, text),
         UNCHANGED <<notices, said, repeated>>,
         \A other \in T!Modes : text \in T!ToSet(shown[other]) => T!ToSet(text) \subseteq repeated
  PROVE  ListInv'
<1>1. /\ queues'[mode] = Append(queues[mode], text)
      /\ shown'[mode] = Append(shown[mode], text)
      /\ \A other \in T!Modes : other # mode => /\ queues'[other] = queues[other]
                                                /\ shown'[other] = shown[other]
  BY EnqueueTypes
<1>2. \A other \in T!Modes : queues[other] \in Seq(Text) /\ shown[other] \in Seq(Text)
  BY DEF TextTypes
<1>3. /\ T!ToSet(queues'[mode]) = T!ToSet(queues[mode]) \cup {text}
      /\ T!ToSet(shown'[mode]) = T!ToSet(shown[mode]) \cup {text}
  BY <1>1, <1>2, SetOfSequence
<1>4. Announced'
  BY AnnouncedIs DEF ListInv, T!Said
<1>5. \A u : u \in InNotices' <=> u \in InNotices
  BY InNoticesIs
<1>6. ASSUME NEW other \in T!Modes
      PROVE  /\ \A u \in T!ToSet(queues'[other]) \ T!ToSet(shown'[other]) :
                  T!ToSet(u) \subseteq T!Atoms(said')
             /\ \A u \in T!ToSet(shown'[other]) :
                  \/ u \in T!ToSet(queues'[other]) \/ u \in InNotices'
                  \/ T!ToSet(u) \subseteq repeated'
  <2>1. /\ \A u \in T!ToSet(queues[other]) \ T!ToSet(shown[other]) :
             T!ToSet(u) \subseteq T!Atoms(said')
        /\ \A u \in T!ToSet(shown[other]) :
             \/ u \in T!ToSet(queues[other]) \/ u \in InNotices'
             \/ T!ToSet(u) \subseteq repeated'
    BY <1>5 DEF ListInv, Listed, T!Said
  <2>2. CASE other = mode
    BY <1>3, <2>1, <2>2
  <2>3. CASE other # mode
    BY <1>1, <2>1, <2>3
  <2> QED BY <2>2, <2>3
<1>7. Listed'
  BY <1>6, ListedNext, Zenon
<1>8. ListedOnce'
  <2> DEFINE n == Len(shown[mode])
  <2>1. /\ n \in Nat /\ DOMAIN shown[mode] = 1..n /\ DOMAIN shown'[mode] = 1..(n + 1)
        /\ shown'[mode][n + 1] = text
        /\ \A i \in 1..n : shown'[mode][i] = shown[mode][i]
        /\ \A i \in 1..(n + 1) : i \in 1..n \/ i = n + 1
    BY <1>1, <1>2, AppendProperties, LenProperties
  <2> HIDE DEF n
  <2>2. ASSUME NEW one \in T!Modes, NEW i \in DOMAIN shown'[one]
        PROVE  \/ i \in DOMAIN shown[one] /\ shown'[one][i] = shown[one][i]
               \/ one = mode /\ i = n + 1 /\ shown'[one][i] = text
    BY <1>1, <2>1
  <2>3. \A one \in T!Modes : \A i \in DOMAIN shown[one] : shown[one][i] \in T!ToSet(shown[one])
    BY DEF T!ToSet
  <2>4. ASSUME NEW one \in T!Modes, NEW other \in T!Modes,
               NEW i \in DOMAIN shown'[one], NEW j \in DOMAIN shown'[other],
               shown'[one][i] = shown'[other][j], ~(one = other /\ i = j)
        PROVE  T!ToSet(shown'[one][i]) \subseteq repeated'
    <3>1. CASE i \in DOMAIN shown[one] /\ shown'[one][i] = shown[one][i]
      <4>1. CASE j \in DOMAIN shown[other] /\ shown'[other][j] = shown[other][j]
        <5>1. T!ToSet(shown[one][i]) \subseteq repeated
          BY <2>4, <3>1, <4>1, Zenon DEF ListInv, ListedOnce
        <5> QED BY <3>1, <5>1
      <4>2. CASE shown'[other][j] = text
        BY <2>3, <2>4, <3>1, <4>2
      <4> QED BY <2>2, <4>1, <4>2
    <3>2. CASE one = mode /\ i = n + 1 /\ shown'[one][i] = text
      <4>1. CASE j \in DOMAIN shown[other] /\ shown'[other][j] = shown[other][j]
        BY <2>3, <2>4, <3>2, <4>1
      <4>2. CASE other = mode /\ j = n + 1
        BY <2>4, <3>2, <4>2
      <4> QED BY <2>2, <4>1, <4>2
    <3> QED BY <2>2, <3>1, <3>2
  <2> QED BY <2>4, ListedNext, Zenon
<1> QED BY <1>4, <1>7, <1>8 DEF ListInv

\* What is left of a list, one copy of a text removed, was in other places of the list.
LEMMA RemovedFrom ==
  ASSUME NEW S, NEW s \in Seq(S), NEW e, NEW r, r = T!RemoveFirst(s, e)
  PROVE  /\ \A i, j \in DOMAIN r : i # j =>
              \E k, l \in DOMAIN s : k # l /\ s[k] = r[i] /\ s[l] = r[j]
         /\ \A i \in DOMAIN r : \E k \in DOMAIN s : s[k] = r[i]
         /\ \A i \in DOMAIN r : r[i] = e => \E k, l \in DOMAIN s : k # l /\ s[k] = e /\ s[l] = e
         /\ \A u \in T!ToSet(s) : u \in T!ToSet(r) \/ u = e
<1>0. DOMAIN s = 1..Len(s) /\ Len(s) \in Nat
  BY LenProperties
<1>1. CASE e \notin T!ToSet(s)
  <2>1. r = s
    BY <1>1, FirstRemoved
  <2>2. \A i \in DOMAIN s : s[i] # e
    BY <1>1 DEF T!ToSet
  <2> QED BY <2>1, <2>2
<1>2. CASE e \in T!ToSet(s)
  <2>1. PICK p \in 1..Len(s) : /\ s[p] = e /\ r \in Seq(S) /\ Len(r) = Len(s) - 1
                               /\ \A i \in 1..(p - 1) : r[i] = s[i]
                               /\ \A i \in p..(Len(s) - 1) : r[i] = s[i + 1]
    BY <1>2, FirstRemoved
  <2> DEFINE n == Len(s)
             at1(i) == IF i < p THEN i ELSE i + 1
  <2>2. DOMAIN r = 1..(n - 1) /\ n \in Nat /\ p \in 1..n /\ DOMAIN s = 1..n
    BY <1>0, <2>1, LenProperties
  <2>3. ASSUME NEW i \in DOMAIN r
        PROVE  at1(i) \in DOMAIN s /\ at1(i) # p /\ s[at1(i)] = r[i]
    <3>1. CASE i < p
      <4>1. i \in 1..(p - 1) /\ i \in DOMAIN s /\ i # p
        BY <2>2, <3>1
      <4> QED BY <2>1, <3>1, <4>1
    <3>2. CASE ~(i < p)
      <4>1. i \in p..(n - 1) /\ i + 1 \in DOMAIN s /\ i + 1 # p
        BY <2>2, <3>2
      <4> QED BY <2>1, <3>2, <4>1
    <3> QED BY <3>1, <3>2
  <2>4. ASSUME NEW i \in DOMAIN r, NEW j \in DOMAIN r, i # j PROVE at1(i) # at1(j)
    BY <2>2, <2>4
  <2>5. ASSUME NEW i \in DOMAIN s PROVE s[i] \in T!ToSet(r) \/ s[i] = e
    <3>1. CASE i < p
      <4>1. i \in 1..(p - 1) /\ i \in DOMAIN r
        BY <2>2, <3>1
      <4> QED BY <2>1, <4>1 DEF T!ToSet
    <3>2. CASE i > p
      <4>1. (i - 1) \in p..(n - 1) /\ (i - 1) \in DOMAIN r /\ (i - 1) + 1 = i
        BY <2>2, <3>2
      <4>2. r[i - 1] = s[i]
        BY <2>1, <4>1
      <4>3. r[i - 1] \in T!ToSet(r)
        BY <4>1, Zenon DEF T!ToSet
      <4> QED BY <4>2, <4>3
    <3>3. i = p \/ i < p \/ i > p
      BY <2>2
    <3> QED BY <2>1, <3>1, <3>2, <3>3
  <2> HIDE DEF at1
  <2>6. p \in DOMAIN s
    BY <2>2
  <2>7. \A i, j \in DOMAIN r : i # j => \E k, l \in DOMAIN s : k # l /\ s[k] = r[i] /\ s[l] = r[j]
    BY <2>3, <2>4, Zenon
  <2>8. \A i \in DOMAIN r : \E k \in DOMAIN s : s[k] = r[i]
    BY <2>3, Zenon
  <2>9. \A i \in DOMAIN r : r[i] = e => \E k, l \in DOMAIN s : k # l /\ s[k] = e /\ s[l] = e
    BY <2>1, <2>3, <2>6
  <2>10. \A u \in T!ToSet(s) : u \in T!ToSet(r) \/ u = e
    BY <2>5 DEF T!ToSet
  <2> QED BY <2>7, <2>8, <2>9, <2>10
<1> QED BY <1>1, <1>2

\* A text leaves the list when it is announced.
LEMMA ListProcessed ==
  ASSUME ListInv, TextTypes, T!ProcessUser
  PROVE  ListInv'
<1> USE DEF T!texts, T!agent, T!retry, T!compactions, T!bounds, T!history
<1> DEFINE h == Head(notices)
           text == h.text
           mode == IF text \in T!ToSet(shown["steer"]) THEN "steer" ELSE "followUp"
<1>1. /\ notices # <<>> /\ notices' = Tail(notices) /\ UNCHANGED <<queues, said, repeated>>
      /\ shown' = [shown EXCEPT ![mode] = T!RemoveFirst(@, text)]
  BY DEF T!ProcessUser, T!MayProcess
<1>2. T!ToSet(notices) = {h} \cup T!ToSet(notices')
  BY <1>1, SetOfSequence DEF TextTypes
<1>3. mode \in T!Modes /\ (mode = "followUp" => text \notin T!ToSet(shown["steer"]))
  BY DEF T!Modes
<1>m. T!Modes = {"steer", "followUp"}
  BY DEF T!Modes
<1> HIDE DEF mode, h
<1>4. /\ shown'[mode] = T!RemoveFirst(shown[mode], text)
      /\ \A other \in T!Modes : other # mode => shown'[other] = shown[other]
      /\ \A other \in T!Modes : shown[other] \in Seq(Text)
  <2> DEFINE r == T!RemoveFirst(shown[mode], text)
  <2>1. shown' = [shown EXCEPT ![mode] = r] /\ shown \in [T!Modes -> Seq(Text)]
    BY <1>1 DEF TextTypes
  <2> HIDE DEF r
  <2>2. /\ shown'[mode] = r
        /\ \A other \in T!Modes : other # mode => shown'[other] = shown[other]
    BY <1>3, <2>1
  <2> QED BY <2>1, <2>2 DEF r
<1>5. /\ \A i, j \in DOMAIN shown'[mode] : i # j =>
           \E k, l \in DOMAIN shown[mode] :
             k # l /\ shown[mode][k] = shown'[mode][i] /\ shown[mode][l] = shown'[mode][j]
      /\ \A i \in DOMAIN shown'[mode] : \E k \in DOMAIN shown[mode] :
           shown[mode][k] = shown'[mode][i]
      /\ \A i \in DOMAIN shown'[mode] : shown'[mode][i] = text =>
           \E k, l \in DOMAIN shown[mode] :
             k # l /\ shown[mode][k] = text /\ shown[mode][l] = text
      /\ \A u \in T!ToSet(shown[mode]) : u \in T!ToSet(shown'[mode]) \/ u = text
  <2> HIDE DEF text
  <2> QED BY <1>3, <1>4, RemovedFrom
<1>6. T!ToSet(text) \subseteq T!Said
  BY <1>2, AnnouncedIs DEF ListInv
<1>7. Announced'
  BY <1>1, <1>2, AnnouncedIs DEF ListInv, T!Said
<1>8. \A u : u \in InNotices /\ u # text => u \in InNotices'
  BY <1>2, InNoticesIs
<1> HIDE DEF text
<1>9. \A one \in T!Modes : \A i \in DOMAIN shown'[one] : \E k \in DOMAIN shown[one] :
        shown[one][k] = shown'[one][i]
  BY <1>4, <1>5
<1>10. \A one \in T!Modes : /\ T!ToSet(shown'[one]) \subseteq T!ToSet(shown[one])
                            /\ \A u \in T!ToSet(shown[one]) : u \in T!ToSet(shown'[one]) \/ u = text
  BY <1>4, <1>5, <1>9 DEF T!ToSet
<1>11. ASSUME NEW one \in T!Modes, NEW other \in T!Modes,
              NEW i \in DOMAIN shown[one], NEW j \in DOMAIN shown[other],
              shown[one][i] = shown[other][j], ~(one = other /\ i = j)
       PROVE  T!ToSet(shown[one][i]) \subseteq repeated'
  <2>1. T!ToSet(shown[one][i]) \subseteq repeated
    BY <1>11, Zenon DEF ListInv, ListedOnce
  <2> QED BY <1>1, <2>1
<1>12. ASSUME NEW one \in T!Modes, text \in T!ToSet(shown'[one])
       PROVE  T!ToSet(text) \subseteq repeated'
  <2>1. PICK i \in DOMAIN shown'[one] : shown'[one][i] = text
    BY <1>12 DEF T!ToSet
  <2>2. CASE one = mode
    <3>1. PICK k \in DOMAIN shown[mode], l \in DOMAIN shown[mode] :
            k # l /\ shown[mode][k] = text /\ shown[mode][l] = text
      BY <1>5, <2>1, <2>2
    <3> QED BY <1>3, <1>11, <3>1
  <2>3. CASE one # mode
    <3>1. text \in T!ToSet(shown[one]) /\ shown[one][i] = text /\ i \in DOMAIN shown[one]
      BY <1>4, <1>12, <2>1, <2>3
    <3>2. mode = "steer" /\ text \in T!ToSet(shown[mode])
      <4>1. mode = "followUp" => one = "steer"
        BY <1>m, <2>3
      <4>2. mode = "steer" \/ mode = "followUp"
        BY <1>3, <1>m
      <4>3. mode = "steer" => text \in T!ToSet(shown["steer"])
        BY DEF mode
      <4> QED BY <1>3, <3>1, <4>1, <4>2, <4>3
    <3>3. PICK k \in DOMAIN shown[mode] : shown[mode][k] = text
      BY <3>2 DEF T!ToSet
    <3> QED BY <1>3, <1>11, <2>3, <3>1, <3>3
  <2> QED BY <2>2, <2>3
<1>13. ASSUME NEW one \in T!Modes
       PROVE  /\ \A u \in T!ToSet(queues'[one]) \ T!ToSet(shown'[one]) :
                   T!ToSet(u) \subseteq T!Atoms(said')
              /\ \A u \in T!ToSet(shown'[one]) :
                   \/ u \in T!ToSet(queues'[one]) \/ u \in InNotices'
                   \/ T!ToSet(u) \subseteq repeated'
  <2>1. /\ \A u \in T!ToSet(queues[one]) \ T!ToSet(shown[one]) : T!ToSet(u) \subseteq T!Said
        /\ \A u \in T!ToSet(shown[one]) :
             \/ u \in T!ToSet(queues[one]) \/ u \in InNotices
             \/ T!ToSet(u) \subseteq repeated
    BY DEF ListInv, Listed
  <2>2. T!Said = T!Atoms(said') /\ queues' = queues /\ repeated' = repeated
    BY <1>1 DEF T!Said
  <2>3. \A u \in T!ToSet(queues'[one]) \ T!ToSet(shown'[one]) : T!ToSet(u) \subseteq T!Atoms(said')
    BY <1>6, <1>10, <2>1, <2>2
  <2>4. ASSUME NEW u \in T!ToSet(shown'[one])
        PROVE  \/ u \in T!ToSet(queues'[one]) \/ u \in InNotices'
               \/ T!ToSet(u) \subseteq repeated'
    <3>1. u \in T!ToSet(shown[one])
      BY <1>10
    <3> QED BY <1>8, <1>12, <2>1, <2>2, <3>1
  <2> QED BY <2>3, <2>4
<1>14. Listed'
  BY <1>13, ListedNext, Zenon
<1>15. ListedOnce'
  <2>1. ASSUME NEW one \in T!Modes, NEW other \in T!Modes,
               NEW i \in DOMAIN shown'[one], NEW j \in DOMAIN shown'[other],
               shown'[one][i] = shown'[other][j], ~(one = other /\ i = j)
        PROVE  T!ToSet(shown'[one][i]) \subseteq repeated'
    <3>1. CASE one = other
      <4>1. \E k, l \in DOMAIN shown[one] :
              k # l /\ shown[one][k] = shown'[one][i] /\ shown[one][l] = shown'[one][j]
        <5>1. CASE one = mode
          BY <1>5, <2>1, <3>1, <5>1
        <5>2. CASE one # mode
          BY <1>4, <2>1, <3>1, <5>2
        <5> QED BY <5>1, <5>2
      <4> QED BY <1>11, <2>1, <3>1, <4>1
    <3>2. CASE one # other
      <4>1. PICK k \in DOMAIN shown[one] : shown[one][k] = shown'[one][i]
        BY <1>9
      <4>2. PICK l \in DOMAIN shown[other] : shown[other][l] = shown'[other][j]
        BY <1>9
      <4>3. shown[one][k] = shown[other][l] /\ ~(one = other /\ k = l)
        BY <2>1, <3>2, <4>1, <4>2
      <4> QED BY <1>11, <4>1, <4>3
    <3> QED BY <3>1, <3>2
  <2> QED BY <2>1, ListedNext, Zenon
<1> QED BY <1>7, <1>14, <1>15 DEF ListInv

\* What is emitted comes after what is there, and only while the session listens.
LEMMA EmittedSet ==
  ASSUME notices \in Seq(Notices), NEW first \in Notices, NEW second \in Notices
  PROVE  /\ T!Emit(<<first>>) =>
              T!ToSet(notices') = IF T!Connected THEN T!ToSet(notices) \cup {first}
                                  ELSE T!ToSet(notices)
         /\ T!Emit(<<first, second>>) =>
              T!ToSet(notices') = IF T!Connected THEN T!ToSet(notices) \cup {first, second}
                                  ELSE T!ToSet(notices)
<1>1. /\ <<first>> \in Seq(Notices) /\ T!ToSet(<<first>>) = {first}
      /\ <<first, second>> \in Seq(Notices) /\ T!ToSet(<<first, second>>) = {first, second}
  BY DEF T!ToSet
<1>2. ASSUME NEW some \in Seq(Notices), T!Emit(some)
      PROVE  T!ToSet(notices') = IF T!Connected THEN T!ToSet(notices) \cup T!ToSet(some)
                                 ELSE T!ToSet(notices)
  <2>1. T!ToSet(notices \o some) = T!ToSet(notices) \cup T!ToSet(some)
    BY SetOfSequence
  <2> DEFINE u == notices \o some
  <2>2. notices' = IF T!Connected THEN u ELSE notices
    BY <1>2 DEF T!Emit
  <2> HIDE DEF u
  <2> QED BY <2>1, <2>2 DEF u
<1> DEFINE a == <<first>>
           b == <<first, second>>
<1>3. a \in Seq(Notices) /\ T!ToSet(a) = {first} /\ b \in Seq(Notices)
      /\ T!ToSet(b) = {first, second}
  BY <1>1
<1> HIDE DEF a, b
<1>4. /\ T!Emit(a) =>
           T!ToSet(notices') = IF T!Connected THEN T!ToSet(notices) \cup {first}
                               ELSE T!ToSet(notices)
      /\ T!Emit(b) =>
           T!ToSet(notices') = IF T!Connected THEN T!ToSet(notices) \cup {first, second}
                               ELSE T!ToSet(notices)
  BY <1>2, <1>3
<1> QED BY <1>4 DEF a, b

\* What is emitted without a text, or with one that is said now.
LEMMA EmitsTold ==
  ASSUME ListInv, TextTypes, UNCHANGED <<queues, shown, repeated>>,
         T!Said \subseteq T!Atoms(said'),
         NEW first \in Notices, NEW second \in Notices,
         T!Emit(<<first>>) \/ T!Emit(<<first, second>>),
         first.text = <<>>,
         \/ second.text = <<>>
         \/ second.type = "user" /\ T!ToSet(second.text) \subseteq T!Atoms(said')
  PROVE  ListInv'
<1>1. T!ToSet(<<>>) = {}
  BY SetOfSequence, EmptySeq
<1>2. /\ T!ToSet(notices) \subseteq T!ToSet(notices')
      /\ T!ToSet(notices') \subseteq T!ToSet(notices) \cup {first, second}
  BY EmittedSet DEF TextTypes
<1>3. \A e \in T!ToSet(notices') :
        \/ e \in T!ToSet(notices)
        \/ T!ToSet(e.text) \subseteq T!Atoms(said') /\ (e.type # "user" => e.text = <<>>)
  BY <1>1, <1>2
<1>4. \A mode \in T!Modes : T!ToSet(queues'[mode]) = T!ToSet(queues[mode])
  OBVIOUS
<1>5. \A e \in T!ToSet(notices) : e \in T!ToSet(notices')
  BY <1>2
<1> QED BY <1>3, <1>4, <1>5, ListKept

\* A notice of the kinds that have no text.
LEMMA NoTextEmitted ==
  ASSUME NEW type \in NoticeTypes, NEW stop \in T!Stops \cup {""}
  PROVE  T!Emitted(type, T!NoText, stop) \in Notices /\ T!Emitted(type, T!NoText, stop).text = <<>>
<1> DEFINE none == T!NoText
<1>1. none \in Text /\ none = <<>>
  BY NoTextIs
<1> HIDE DEF none
<1>2. T!Emitted(type, none, stop) \in Notices /\ T!Emitted(type, none, stop).text = none
  BY <1>1, EmittedType
<1> QED BY <1>1, <1>2 DEF none

\* What has been said since.
LEMMA SaidMore ==
  ASSUME TextTypes, NEW text \in Text, said' = Append(said, text)
  PROVE  T!Atoms(said') = T!Said \cup T!ToSet(text)
<1>1. said \in Seq(Text)
  BY DEF TextTypes
<1>2. T!Atoms(Append(said, text)) = T!Atoms(said) \cup T!ToSet(text)
  BY <1>1, AtomsOfSequence
<1> QED BY <1>2 DEF T!Said

\* A text that the agent takes is to be announced, or the session does not listen.
LEMMA ListTaken ==
  ASSUME ListInv, TextTypes, NEW mode \in T!Modes, queues[mode] # <<>>, T!Take(mode),
         UNCHANGED shown, NEW first \in Notices, first.text = <<>>,
         \/ T!Emit(<<T!Emitted("user", Head(queues[mode]), "")>>)
         \/ T!Emit(<<first, T!Emitted("user", Head(queues[mode]), "")>>)
  PROVE  ListInv'
<1> DEFINE text == Head(queues[mode])
           second == T!Emitted("user", text, "")
<1>1. /\ text \in Text /\ queues'[mode] = Tail(queues[mode]) /\ said' = Append(said, text)
      /\ \A other \in T!Modes : other # mode => queues'[other] = queues[other]
  BY TakeTypes
<1>2. repeated' = IF T!Connected THEN repeated ELSE repeated \cup T!ToSet(text)
  BY DEF T!Take
<1>3. T!Atoms(said') = T!Said \cup T!ToSet(text)
  BY <1>1, SaidMore
<1>4. T!ToSet(queues[mode]) = {text} \cup T!ToSet(queues'[mode])
  <2> DEFINE u == queues[mode]
  <2>1. u \in Seq(Text) /\ u # <<>>
    BY DEF TextTypes
  <2>2. T!ToSet(u) = {Head(u)} \cup T!ToSet(Tail(u))
    <3> HIDE DEF u
    <3> QED BY <2>1, SetOfSequence
  <2> QED BY <1>1, <2>2
<1>5. T!ToSet(<<>>) = {}
  BY SetOfSequence, EmptySeq
<1>6. second \in Notices /\ second.type = "user" /\ second.text = text
  <2>1. "user" \in NoticeTypes /\ "" \in T!Stops \cup {""}
    BY DEF NoticeTypes
  <2> HIDE DEF text
  <2> QED BY <1>1, <2>1, EmittedType
<1>7. /\ T!ToSet(notices) \subseteq T!ToSet(notices')
      /\ T!ToSet(notices') \subseteq T!ToSet(notices) \cup {first, second}
      /\ T!Connected => second \in T!ToSet(notices')
  <2>1. T!Emit(<<second>>) \/ T!Emit(<<first, second>>)
    OBVIOUS
  <2> HIDE DEF second
  <2>2. notices \in Seq(Notices)
    BY DEF TextTypes
  <2>3. /\ T!Emit(<<second>>) =>
             T!ToSet(notices') = IF T!Connected THEN T!ToSet(notices) \cup {second}
                                 ELSE T!ToSet(notices)
        /\ T!Emit(<<first, second>>) =>
             T!ToSet(notices') = IF T!Connected THEN T!ToSet(notices) \cup {first, second}
                                 ELSE T!ToSet(notices)
    BY <1>6, <2>2, EmittedSet
  <2> QED BY <2>1, <2>3
<1> HIDE DEF text, second
<1>8. \A one \in T!Modes : /\ T!ToSet(queues'[one]) \subseteq T!ToSet(queues[one])
                           /\ \A u \in T!ToSet(queues[one]) \ T!ToSet(queues'[one]) : u = text
  BY <1>1, <1>4
<1>9. text \in InNotices' \/ T!ToSet(text) \subseteq repeated'
  BY <1>2, <1>6, <1>7, InNoticesIs
<1>10. \A e \in T!ToSet(notices') :
         \/ e \in T!ToSet(notices)
         \/ T!ToSet(e.text) \subseteq T!Atoms(said') /\ (e.type # "user" => e.text = <<>>)
  BY <1>3, <1>5, <1>6, <1>7
<1>11. /\ repeated \subseteq repeated' /\ T!Said \subseteq T!Atoms(said')
       /\ \A e \in T!ToSet(notices) : e \in T!ToSet(notices')
  BY <1>2, <1>3, <1>7
<1> QED BY <1>8, <1>9, <1>10, <1>11, ListKept

\* Nothing that the list is about changes, but for what was repeated or said.
LEMMA ListStill ==
  ASSUME ListInv, TextTypes, UNCHANGED <<queues, shown, notices>>, repeated \subseteq repeated',
         said' = said \/ \E text \in Text : said' = Append(said, text)
  PROVE  ListInv'
<1>1. T!Said \subseteq T!Atoms(said')
  BY SaidMore DEF T!Said
<1>2. \A mode \in T!Modes : T!ToSet(queues'[mode]) = T!ToSet(queues[mode])
  OBVIOUS
<1> QED BY <1>1, <1>2, ListKept

\* An event that announces no text is processed.
LEMMA ListPassed ==
  ASSUME ListInv, TextTypes, UNCHANGED <<queues, shown, said, repeated>>,
         notices # <<>>, notices' = Tail(notices), Head(notices).type # "user"
  PROVE  ListInv'
<1> DEFINE h == Head(notices)
<1>1. T!ToSet(notices) = {h} \cup T!ToSet(notices')
  BY SetOfSequence DEF TextTypes
<1>2. T!ToSet(<<>>) = {}
  BY SetOfSequence, EmptySeq
<1>3. h.text = <<>>
  BY <1>1, AnnouncedIs DEF ListInv
<1>4. T!Said \subseteq T!Atoms(said')
  BY DEF T!Said
<1> HIDE DEF h
<1>5. \A mode \in T!Modes : T!ToSet(queues'[mode]) = T!ToSet(queues[mode])
  OBVIOUS
<1> QED BY <1>1, <1>2, <1>3, <1>4, <1>5, ListKept

LEMMA ListAtPrompt ==
  ASSUME ListInv, KeepInv, TextTypes, T!PromptStep
  PROVE  ListInv'
<1> USE DEF T!texts, T!agent, T!retry, T!compactions, T!bounds, T!history
<1>1. CASE T!LoopRefused \/ \E c \in T!Callers : T!PromptReturns(c)
  BY <1>1, ListStill DEF T!LoopRefused, T!PromptReturns
<1>2. ASSUME NEW f \in T!Flushes, T!FlushRefused(f) PROVE ListInv'
  <2>1. queues' = T!Queues /\ shown' = T!Queues /\ UNCHANGED <<notices, said>>
    BY <1>2 DEF T!FlushRefused, T!RestoreQueue
  <2> QED BY <2>1, ListEmptied
<1>3. ASSUME NEW c \in T!Callers, T!StartPrompt(c) PROVE ListInv'
  <2> DEFINE text == prompts[c].text
             first == T!Emitted("agent_start", T!NoText, "")
             second == T!Emitted("user", text, "")
  <2>1. UNCHANGED <<queues, shown, repeated>>
    BY <1>3 DEF T!StartPrompt
  <2>2. \/ UNCHANGED <<notices, said>>
        \/ said' = Append(said, text) /\ T!Emit(<<first, second>>)
    BY <1>3 DEF T!StartPrompt
  <2>3. text \in Text
    BY DEF TextTypes, Prompts
  <2>4. /\ first \in Notices /\ first.text = <<>>
        /\ second \in Notices /\ second.type = "user" /\ second.text = text
    <3>1. "agent_start" \in NoticeTypes /\ "user" \in NoticeTypes /\ "" \in T!Stops \cup {""}
      BY DEF NoticeTypes
    <3>2. first \in Notices /\ first.text = <<>>
      BY <3>1, NoTextEmitted
    <3> HIDE DEF text, first
    <3>4. "user" \in NoticeTypes /\ "" \in T!Stops \cup {""}
      BY <3>1
    <3>3. second \in Notices /\ second.type = "user" /\ second.text = text
      BY <2>3, <3>4, EmittedType
    <3> QED BY <3>2, <3>3
  <2> HIDE DEF text, first, second
  <2>5. CASE said' = Append(said, text) /\ T!Emit(<<first, second>>)
    <3>1. T!Atoms(said') = T!Said \cup T!ToSet(text)
      BY <2>3, <2>5, SaidMore
    <3>2. /\ T!Said \subseteq T!Atoms(said')
          /\ second.type = "user" /\ T!ToSet(second.text) \subseteq T!Atoms(said')
      BY <2>4, <3>1
    <3> QED BY <2>1, <2>4, <2>5, <3>2, EmitsTold
  <2> QED BY <2>1, <2>2, <2>5, ListStill
<1>4. ASSUME NEW f \in T!Flushes, T!FlushNext(f) PROVE ListInv'
  <2> DEFINE m == Head(flush[f].rest)
             text == m.text
  <2>1. /\ UNCHANGED <<notices, said, repeated>> /\ flush[f].rest # <<>>
        /\ UNCHANGED <<queues, shown>> \/ T!Enqueue(m.mode, text)
    BY <1>4 DEF T!FlushNext
  <2>2. flush[f].rest \in Seq(Message)
    BY DEF TextTypes, Batches
  <2>3. /\ m.mode \in T!Modes /\ text \in Text
        /\ T!Texts(flush[f].rest) \in Seq(Text) /\ T!Texts(flush[f].rest) # <<>>
        /\ Head(T!Texts(flush[f].rest)) = text
    <3>1. m \in Message
      BY <2>1, <2>2, TextsOfMessages
    <3> QED BY <2>1, <2>2, <3>1, TextsOfMessages DEF Message
  <2>4. T!ToSet(text) \subseteq Keeps("sending", f)
    <3> DEFINE u == T!Texts(flush[f].rest)
    <3>1. T!Atoms(u) = T!ToSet(Head(u)) \cup T!Atoms(Tail(u))
      BY <2>3, AtomsOfSequence
    <3> QED BY <2>3, <3>1, KeepsIs DEF T!Sending
  <2> HIDE DEF m, text
  <2>5. ASSUME NEW other \in T!Modes, text \in T!ToSet(shown[other])
        PROVE  T!ToSet(text) \subseteq repeated
    <3>1. /\ Keeps("sending", f) \cap Keeps("queue", other) \subseteq repeated
          /\ Keeps("sending", f) \cap Keeps("said", 0) \subseteq repeated
      <4>1. IsPlace("sending", f) /\ IsPlace("queue", other) /\ IsPlace("said", 0)
        BY PlaceIs
      <4>2. "sending" # "queue" /\ "sending" # "said"
        OBVIOUS
      <4> QED BY <4>1, <4>2, Zenon DEF KeepInv, PlacesInv, Separate
    <3>2. text \in T!ToSet(queues[other]) => T!ToSet(text) \subseteq Keeps("queue", other)
      BY KeepsIs DEF T!ToSet, T!Atoms
    <3>3. Keeps("said", 0) = T!Said
      BY KeepsIs
    <3> QED BY <2>4, <2>5, <3>1, <3>2, <3>3, ListedIs
  <2> QED BY <2>1, <2>3, <2>5, ListEnqueued, ListStill
<1> QED BY <1>1, <1>2, <1>3, <1>4 DEF T!PromptStep

LEMMA ListAtAgent ==
  ASSUME ListInv, TextTypes, EscapeTypes, T!AgentStep
  PROVE  ListInv'
<1> USE DEF T!texts, T!agent, T!retry, T!compactions, T!bounds, T!history
<1> DEFINE start == T!Emitted("agent_start", T!NoText, "")
<1>s. "steer" \in T!Modes /\ "followUp" \in T!Modes
  BY DEF T!Modes
<1>n. /\ "agent_start" \in NoticeTypes /\ "reply" \in NoticeTypes /\ "agent_end" \in NoticeTypes
      /\ "" \in T!Stops \cup {""}
  BY DEF NoticeTypes
<1>0. start \in Notices /\ start.text = <<>>
  BY <1>n, NoTextEmitted
<1>e. ASSUME NEW some \in Notices, some.text = <<>>, T!Emit(<<some>>),
             UNCHANGED <<queues, shown, said, repeated>>
      PROVE  ListInv'
  BY <1>e, EmitsTold DEF T!Said
<1>1. CASE T!Poll
  <2>1. /\ UNCHANGED shown
        /\ \/ UNCHANGED <<queues, notices, said, repeated>>
           \/ /\ queues["steer"] # <<>> /\ T!Take("steer")
              /\ T!Emit(<<T!Emitted("user", Head(queues["steer"]), "")>>)
    BY <1>1 DEF T!Poll
  <2> HIDE DEF start
  <2>2. CASE UNCHANGED <<queues, notices, said, repeated>>
    BY <2>1, <2>2, ListStill
  <2> QED BY <1>s, <1>0, <2>1, <2>2, ListTaken
<1>2. ASSUME NEW stop \in T!Stops, T!Reply(stop) PROVE ListInv'
  <2> DEFINE replied == T!Emitted("reply", T!NoText, stop)
  <2>1. replied \in Notices /\ replied.text = <<>>
    BY <1>n, NoTextEmitted
  <2>2. /\ UNCHANGED shown
        /\ \/ T!Emit(<<replied>>) /\ UNCHANGED <<queues, said, repeated>>
           \/ /\ queues["followUp"] # <<>> /\ T!Take("followUp")
              /\ T!Emit(<<replied, T!Emitted("user", Head(queues["followUp"]), "")>>)
    BY <1>2 DEF T!Reply
  <2> HIDE DEF replied
  <2>3. CASE T!Emit(<<replied>>) /\ UNCHANGED <<queues, said, repeated>>
    BY <1>e, <2>1, <2>2, <2>3
  <2> QED BY <1>s, <2>1, <2>2, <2>3, ListTaken
<1>3. CASE T!EndRun
  <2> DEFINE end == T!Emitted("agent_end", T!NoText, run.last)
  <2>1. end \in Notices /\ end.text = <<>>
    <3>1. run.last \in T!Stops \cup {""}
      BY DEF EscapeTypes, RunTypes
    <3> QED BY <1>n, <3>1, NoTextEmitted
  <2>2. T!Emit(<<end>>) /\ UNCHANGED <<queues, shown, said, repeated>>
    BY <1>3 DEF T!EndRun
  <2> HIDE DEF end
  <2> QED BY <1>e, <2>1, <2>2
<1>4. CASE T!TimerFires
  <2> DEFINE mode == IF queues["steer"] # <<>> THEN "steer" ELSE "followUp"
  <2>1. /\ UNCHANGED shown
        /\ \/ UNCHANGED <<queues, notices, said, repeated>>
           \/ T!Emit(<<start>>) /\ UNCHANGED <<queues, said, repeated>>
           \/ /\ queues # T!Queues /\ T!Take(mode)
              /\ T!Emit(<<start, T!Emitted("user", Head(queues[mode]), "")>>)
    BY <1>4 DEF T!TimerFires
  <2>2. queues # T!Queues => queues["steer"] # <<>> \/ queues["followUp"] # <<>>
    <3>1. queues = [one \in T!Modes |-> queues[one]]
      BY DEF TextTypes
    <3> QED BY <3>1 DEF T!Queues, T!Modes
  <2>3. mode \in T!Modes /\ (queues # T!Queues => queues[mode] # <<>>)
    BY <1>s, <2>2
  <2> HIDE DEF mode, start
  <2>4. CASE UNCHANGED <<queues, notices, said, repeated>>
    BY <2>1, <2>4, ListStill
  <2>5. CASE T!Emit(<<start>>) /\ UNCHANGED <<queues, said, repeated>>
    BY <1>e, <1>0, <2>1, <2>5
  <2> QED BY <1>0, <2>1, <2>3, <2>4, <2>5, ListTaken
<1> QED BY <1>1, <1>2, <1>3, <1>4 DEF T!AgentStep

LEMMA ListAtSession ==
  ASSUME ListInv, TextTypes, T!SessionStep
  PROVE  ListInv'
<1> USE DEF T!texts, T!agent, T!retry, T!compactions, T!bounds, T!history
<1>1. CASE T!ProcessStart \/ T!ProcessReply \/ T!ProcessEnd \/ T!RetryAgain
  <2>1. /\ UNCHANGED <<queues, shown, said, repeated>>
        /\ notices # <<>> /\ notices' = Tail(notices)
        /\ Head(notices).type \in {"agent_start", "reply", "agent_end"}
    BY <1>1 DEF T!ProcessStart, T!ProcessReply, T!ProcessEnd, T!RetryAgain, T!MayProcess
  <2> QED BY <2>1, ListPassed
<1>2. CASE T!ProcessUser
  BY <1>2, ListProcessed
<1>3. CASE \/ T!RetrySleepEnds \/ T!CompactIdle
           \/ \E c \in T!Compactors, whole \in BOOLEAN : T!EndCompaction(c, whole)
  <2>1. UNCHANGED <<queues, shown, notices, repeated, said>>
    BY <1>3 DEF T!RetrySleepEnds, T!CompactIdle, T!EndCompaction
  <2> QED BY <2>1, ListStill
<1> QED BY <1>1, <1>2, <1>3 DEF T!SessionStep

LEMMA ListAtUser ==
  ASSUME ListInv, KeepInv, TextTypes, T!UserStep
  PROVE  ListInv'
<1> USE DEF T!texts, T!agent, T!retry, T!compactions, T!bounds, T!history
<1>1. CASE T!Dequeue \/ T!Escape
  <2>1. queues' = T!Queues /\ shown' = T!Queues /\ UNCHANGED <<notices, said>>
    BY <1>1 DEF T!Dequeue, T!Escape, T!TakeBack
  <2> QED BY <2>1, ListEmptied
<1>2. CASE T!EscapeRetry \/ T!Compact
  <2>1. UNCHANGED <<queues, shown, notices, repeated, said>>
    BY <1>2 DEF T!EscapeRetry, T!Compact
  <2> QED BY <2>1, ListStill
<1>3. ASSUME NEW mode \in T!Modes, T!Submit(mode) PROVE ListInv'
  <2> DEFINE text == Append(editor, typed + 1)
  <2>1. text \in Text /\ typed + 1 \in T!ToSet(text)
    <3>1. editor \in Seq(Nat) /\ typed + 1 \in Nat
      BY DEF TextTypes, Text
    <3>2. T!ToSet(text) = T!ToSet(editor) \cup {typed + 1}
      BY <3>1, SetOfSequence
    <3> QED BY <3>1, <3>2, AppendProperties DEF Text
  <2>2. /\ UNCHANGED notices
        /\ \/ /\ T!Enqueue(mode, text) /\ UNCHANGED <<said, repeated>>
           \/ /\ UNCHANGED <<queues, shown>>
              /\ said' = said \/ said' = Append(said, text)
              /\ repeated' = repeated \/ repeated' = repeated \cup T!ToSet(text)
    BY <1>3 DEF T!Submit
  <2> HIDE DEF text
  <2>3. ASSUME NEW other \in T!Modes, text \in T!ToSet(shown[other]) PROVE FALSE
    <3>1. typed + 1 \notin 1..typed
      BY DEF TextTypes
    <3> QED BY <2>1, <2>3, <3>1, ListedIs
  <2>4. CASE T!Enqueue(mode, text) /\ UNCHANGED <<said, repeated>>
    BY <2>1, <2>2, <2>3, <2>4, ListEnqueued
  <2>5. CASE /\ UNCHANGED <<queues, shown>>
             /\ said' = said \/ said' = Append(said, text)
             /\ repeated' = repeated \/ repeated' = repeated \cup T!ToSet(text)
    BY <2>1, <2>2, <2>5, ListStill
  <2> QED BY <2>2, <2>4, <2>5
<1> QED BY <1>1, <1>2, <1>3 DEF T!UserStep

LEMMA ListStep ==
  ASSUME ListInv, KeepInv, TextTypes, EscapeTypes, T!Next
  PROVE  ListInv'
<1>1. CASE T!NavigationStep
  <2>1. UNCHANGED <<queues, shown, notices, said>> /\ repeated \subseteq repeated'
    BY <1>1, NavigationTexts DEF ToTheEditor
  <2> QED BY <2>1, ListStill
<1> QED BY <1>1, ListAtPrompt, ListAtAgent, ListAtSession, ListAtUser DEF T!Next

(***************************************************************************)
(* The four properties, and the theorem.                                   *)
(***************************************************************************)
LEMMA TextBegins ==
  ASSUME T!Init
  PROVE  TextInv
<1>0. /\ T!ToSet(<<>>) = {} /\ T!Atoms(<<>>) = {} /\ T!Texts(<<>>) = <<>>
      /\ \A B : ApartBut(<<>>, B)
  <2>1. T!ToSet(<<>>) = {} /\ DOMAIN <<>> = {}
    BY EmptySeq DEF T!ToSet
  <2>2. T!Atoms(<<>>) = {}
    BY <2>1 DEF T!Atoms
  <2>3. T!Texts(<<>>) = <<>>
    <3> <<>> \in Seq(Message)
      BY EmptySeq
    <3> QED BY TextsOfMessages
  <2>4. \A B : ApartBut(<<>>, B)
    BY <2>1 DEF ApartBut
  <2> QED BY <2>1, <2>2, <2>3, <2>4
<1>1. /\ editor = <<>> /\ held = <<>> /\ notices = <<>> /\ said = <<>> /\ typed = 0
      /\ dropped = {} /\ repeated = {} /\ run.pc = "idle"
      /\ \A mode \in T!Modes : queues[mode] = <<>> /\ shown[mode] = <<>>
      /\ \A f \in T!Flushes : flush[f].batch = <<>> /\ flush[f].rest = <<>>
      /\ \A c \in T!Callers : prompts[c].pc = "none"
      /\ \A c \in T!Compactors : compaction[c].pc = "none"
  BY DEF T!Init, T!NoText, T!NoRun, T!Queues, T!NoFlush, T!NoPrompt, T!NotCompacting
<1>2. TextTypes
  <2>1. T!NoPrompt \in Prompts
    BY NoTextIs DEF T!NoPrompt, Prompts, PromptPCs
  <2>2. T!NoFlush \in Batches
    BY EmptySeq DEF T!NoFlush, Batches
  <2>3. T!Queues \in [T!Modes -> Seq(Text)]
    BY EmptySeq DEF T!Queues
  <2>4. /\ prompts = [c \in T!Callers |-> T!NoPrompt] /\ flush = [f \in T!Flushes |-> T!NoFlush]
        /\ queues = T!Queues /\ shown = T!Queues
    BY DEF T!Init
  <2>5. /\ prompts \in [T!Callers -> Prompts] /\ flush \in [T!Flushes -> Batches]
    BY <2>1, <2>2, <2>4
  <2>6. editor \in Text /\ held \in Seq(Message) /\ notices \in Seq(Notices) /\ said \in Seq(Text)
    BY <1>1, EmptySeq DEF Text
  <2> QED BY <1>1, <2>3, <2>4, <2>5, <2>6 DEF TextTypes
<1>3. Promised
  BY <1>1, Compacting DEF Promised, T!IsStreaming
<1>4. T!HeldWhileCompacting
  BY <1>1 DEF T!HeldWhileCompacting
<1>5. /\ Keeps("editor", 0) = {} /\ Keeps("held", 0) = {} /\ Keeps("said", 0) = {}
      /\ \A mode \in T!Modes : Keeps("queue", mode) = {}
      /\ \A c \in T!Callers : Keeps("hand", c) = {}
      /\ \A f \in T!Flushes : Keeps("sending", f) = {}
  BY <1>0, <1>1, KeepsIs DEF T!Said, T!InHand, T!Sending
<1>6. \A k, x : IsPlace(k, x) => Keeps(k, x) = {}
  BY <1>5, PlaceIs
<1>7. PlacesInv
  <2>1. Separate
    BY <1>6 DEF Separate
  <2>2. Bounded
    BY <1>1, <1>6 DEF Bounded
  <2>3. Found
    BY <1>1 DEF Found
  <2> QED BY <2>1, <2>2, <2>3 DEF PlacesInv
<1>8. AllApart
  BY <1>0, <1>1 DEF AllApart, Batch
<1>9. Restored
  BY <1>0, <1>1, <1>5, KeepsIs, LoopIs DEF Restored, Batch
<1>10. ListInv
  <2>1. Announced
    BY <1>1 DEF Announced
  <2>2. Listed
    BY <1>0, <1>1 DEF Listed
  <2>3. ListedOnce
    BY <1>1 DEF ListedOnce
  <2> QED BY <2>1, <2>2, <2>3 DEF ListInv
<1> QED BY <1>2, <1>3, <1>4, <1>7, <1>8, <1>9, <1>10 DEF TextInv, KeepInv

LEMMA TextStays ==
  ASSUME TextInv, EscapeTypes, UNCHANGED textVars
  PROVE  TextInv'
<1>1. /\ UNCHANGED <<editor, held, flush, unheard, prompts, run, queues, shown, notices>>
      /\ UNCHANGED <<compaction, typed, said, dropped, repeated>>
  BY DEF textVars
<1>2. TextTypes'
  BY <1>1 DEF TextInv, TextTypes
<1>3. Promised'
  BY <1>1, PromisesKept DEF TextInv, T!IsStreaming
<1>4. T!HeldWhileCompacting'
  BY <1>1, HeldStays, GoesOnCompacting DEF TextInv
<1>5. KeepInv'
  <2>1. \A c \in T!Callers : Keeps("hand", c)' = Keeps("hand", c)
    BY <1>1, KeepsSame
  <2> QED BY <1>1, <2>1, KeptStill DEF TextInv, TextTypes
<1>6. ListInv'
  BY <1>1, ListStill DEF TextInv
<1> QED BY <1>2, <1>3, <1>4, <1>5, <1>6 DEF TextInv

LEMMA TextSteps ==
  ASSUME TextInv, EscapeTypes, T!Next
  PROVE  TextInv'
BY TypesStep, PromisedStep, HeldStep, KeepStep, ListStep DEF TextInv

\* The invariant says where every text is, and that it is there once.
LEMMA TextsAreKept ==
  ASSUME TextInv
  PROVE  TextsKept
<1> DEFINE hands == UNION { T!InHand(c) : c \in T!Callers }
           sends == UNION { T!Sending(f) : f \in T!Flushes }
<1>0. PlacesInv
  BY DEF TextInv, KeepInv
<1>1. T!Kept = Keeps("editor", 0) \cup Keeps("held", 0) \cup Keeps("queue", "steer")
               \cup Keeps("queue", "followUp") \cup hands \cup sends
  BY KeepsIs DEF T!Kept, T!Queued
<1>2. /\ \A c \in T!Callers : Keeps("hand", c) \subseteq hands
      /\ \A f \in T!Flushes : Keeps("sending", f) \subseteq sends
      /\ \A a \in hands : \E c \in T!Callers : a \in Keeps("hand", c)
      /\ \A a \in sends : \E f \in T!Flushes : a \in Keeps("sending", f)
  BY KeepsIs
<1> HIDE DEF hands, sends
<1>3. Keeps("said", 0) = T!Said
  BY KeepsIs
<1>m. T!Modes = {"steer", "followUp"}
  BY DEF T!Modes
<1>4. T!NothingLost
  <2>1. ASSUME NEW k, NEW x, IsPlace(k, x) PROVE Keeps(k, x) \subseteq T!Kept \cup T!Said
    BY <1>1, <1>2, <1>3, <1>m, <2>1, PlaceIs
  <2>2. ASSUME NEW a \in 1..typed, a \notin dropped PROVE a \in T!Kept \cup T!Said
    <3>1. Somewhere(a)
      BY <1>0, <2>2, Zenon DEF PlacesInv, Found
    <3> QED BY <2>1, <3>1 DEF Somewhere
  <2> QED BY <2>2 DEF T!NothingLost
<1>5. T!NothingTwice
  <2>1. ASSUME NEW a \in T!Kept \cap T!Said PROVE a \in repeated
    <3>1. ASSUME NEW k, NEW x, IsPlace(k, x), k # "said", a \in Keeps(k, x) PROVE a \in repeated
      <4>1. IsPlace("said", 0) /\ a \in Keeps("said", 0)
        BY <1>3, <2>1, PlaceIs
      <4>2. Keeps(k, x) \cap Keeps("said", 0) \subseteq repeated
        BY <1>0, <3>1, <4>1, Zenon DEF PlacesInv, Separate
      <4> QED BY <3>1, <4>1, <4>2
    <3>2. \E k, x : IsPlace(k, x) /\ k # "said" /\ a \in Keeps(k, x)
      <4>1. /\ IsPlace("editor", 0) /\ IsPlace("held", 0)
            /\ IsPlace("queue", "steer") /\ IsPlace("queue", "followUp")
            /\ \A c \in T!Callers : IsPlace("hand", c)
            /\ \A f \in T!Flushes : IsPlace("sending", f)
        BY <1>m, PlaceIs
      <4>2. a \in Keeps("editor", 0) => \E k, x : IsPlace(k, x) /\ k # "said" /\ a \in Keeps(k, x)
        BY <4>1
      <4>3. a \in Keeps("held", 0) => \E k, x : IsPlace(k, x) /\ k # "said" /\ a \in Keeps(k, x)
        BY <4>1
      <4>4. \A y \in {"steer", "followUp"} :
              a \in Keeps("queue", y) => \E k, x : IsPlace(k, x) /\ k # "said" /\ a \in Keeps(k, x)
        BY <4>1
      <4>5. \A y \in T!Callers :
              a \in Keeps("hand", y) => \E k, x : IsPlace(k, x) /\ k # "said" /\ a \in Keeps(k, x)
        BY <4>1
      <4>6. \A y \in T!Flushes :
              a \in Keeps("sending", y) =>
                \E k, x : IsPlace(k, x) /\ k # "said" /\ a \in Keeps(k, x)
        BY <4>1
      <4> QED BY <1>1, <1>2, <2>1, <4>2, <4>3, <4>4, <4>5, <4>6
    <3> QED BY <3>1, <3>2
  <2>2. \A i, j \in DOMAIN said : i # j => T!ToSet(said[i]) \cap T!ToSet(said[j]) \subseteq repeated
    BY DEF TextInv, KeepInv, AllApart, ApartBut
  <2> QED BY <2>1, <2>2 DEF T!NothingTwice
<1>6. T!ShownIsWaiting
  <2>1. \A mode \in T!Modes :
          \A text \in T!ToSet(queues[mode]) \ T!ToSet(shown[mode]) :
            T!ToSet(text) \subseteq repeated
    <3> SUFFICES ASSUME NEW mode \in T!Modes, NEW text \in T!ToSet(queues[mode]),
                        text \notin T!ToSet(shown[mode])
                 PROVE  T!ToSet(text) \subseteq repeated
      OBVIOUS
    <3>1. T!ToSet(text) \subseteq T!Said
      BY DEF TextInv, ListInv, Listed
    <3>2. T!ToSet(text) \subseteq Keeps("queue", mode)
      BY KeepsIs DEF T!ToSet, T!Atoms
    <3>3. Keeps("queue", mode) \cap Keeps("said", 0) \subseteq repeated
      <4>1. IsPlace("queue", mode) /\ IsPlace("said", 0) /\ "queue" # "said"
        BY PlaceIs
      <4> QED BY <1>0, <4>1, Zenon DEF PlacesInv, Separate
    <3> QED BY <1>3, <3>1, <3>2, <3>3
  <2>2. \A mode \in T!Modes :
          \A text \in T!ToSet(shown[mode]) \ (T!ToSet(queues[mode]) \cup InNotices) :
            T!ToSet(text) \subseteq repeated
    BY DEF TextInv, ListInv, Listed
  <2> QED BY <2>1, <2>2 DEF T!ShownIsWaiting, InNotices
<1> QED BY <1>4, <1>5, <1>6 DEF TextsKept, TextInv

\* onSubmit, flushCompactionQueue, clearAllQueues and the rest: of whatever the user has
\* submitted, however often it was queued, held, refused and taken back, nothing is lost and
\* nothing is said twice but what the code gives up or puts back although it is gone; what
\* is listed as queued is queued; and nothing is held when no compaction is under way unless
\* a prompt was refused, or it was submitted while /tree was summarising or had failed.
THEOREM TextsAlwaysKept == SpecReplies => []TextsKept
<1> DEFINE Inv == EscapeInv /\ TextInv
<1>1. InitReplies => Inv
  <2>1. InitReplies => T!Init
    BY DEF InitReplies
  <2>2. T!Init => TextInv
    BY TextBegins
  <2>3. InitReplies => EscapeInv
    BY EscapeBegins
  <2> QED BY <2>1, <2>2, <2>3
<1>2. Inv /\ [NextReplies]_allVars => Inv'
  <2> SUFFICES ASSUME EscapeInv, TextInv, [NextReplies]_allVars PROVE EscapeInv' /\ TextInv'
    OBVIOUS
  <2>1. EscapeInv'
    BY EscapeGoesOn
  <2>2. EscapeTypes
    BY DEF EscapeInv
  <2>3. T!Next \/ UNCHANGED textVars
    BY DEF NextReplies, allVars
  <2>4. TextInv'
    BY <2>2, <2>3, TextStays, TextSteps
  <2> QED BY <2>1, <2>4
<1>3. Inv => TextsKept
  BY TextsAreKept
<1> QED BY <1>1, <1>2, <1>3, PTL DEF SpecReplies
==============================================================================
