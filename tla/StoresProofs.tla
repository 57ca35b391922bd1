------------------------------ MODULE StoresProofs ------------------------------
(***************************************************************************)
(* What holds of the settings and of the credentials by themselves holds    *)
(* where they stand beside the other stores; and the proofs about the other *)
(* two: the path through a session's entries, and the file they are in.     *)
(***************************************************************************)
EXTENDS MCStores, FiniteSetTheorems, SequenceTheorems, WellFoundedInduction, TLAPS

\* The part that is explored goes its own steps; the others stay as they began.
LEMMA PathSpec == SpecStores => P!Spec
<1>1. InitStores => P!Init
  BY DEF InitStores
<1>2. [NextStores]_<<part, vars, pathVars, settingsVars, authVars>> => [P!Next]_P!vars
  BY DEF NextStores, pathVars, P!vars
<1> QED BY <1>1, <1>2, PTL DEF SpecStores, P!Spec

LEMMA SessionSpec == SpecStores => Spec
<1>1. InitStores => Init
  BY DEF InitStores
<1>2. UNCHANGED <<part, vars, pathVars, settingsVars, authVars>> => UNCHANGED vars
  OBVIOUS
<1>3. [NextStores]_<<part, vars, pathVars, settingsVars, authVars>> => [Next]_vars
  BY <1>2 DEF NextStores
<1> QED BY <1>1, <1>3, PTL DEF SpecStores, Spec

LEMMA SettingsSpec == SpecStores => S!Spec
<1>1. InitStores => S!Init
  BY DEF InitStores
<1>2. [NextStores]_<<part, vars, pathVars, settingsVars, authVars>> => [S!Next]_S!vars
  BY DEF NextStores, settingsVars, S!vars
<1> QED BY <1>1, <1>2, PTL DEF SpecStores, S!Spec

LEMMA CredentialsSpec == SpecStores => C!Spec
<1>1. InitStores => C!Init
  BY DEF InitStores
<1>2. UNCHANGED authVars => UNCHANGED C!vars
  BY DEF authVars, C!vars, C!fileVars
<1>3. [NextStores]_<<part, vars, pathVars, settingsVars, authVars>> => [C!Next]_C!vars
  BY <1>2 DEF NextStores
<1> QED BY <1>1, <1>3, PTL DEF SpecStores, C!Spec

(***************************************************************************)
(* A nonempty set of positions has a least and a greatest member.          *)
(***************************************************************************)
LEMMA LeastExists ==
  ASSUME NEW N \in SUBSET Nat, N # {}
  PROVE  \E x \in N : \A y \in N : x <= y
<1> DEFINE R == OpToRel(<, Nat)
<1>1. PICK x \in N : \A y \in N : <<y, x>> \notin R
  <2>1. IsWellFoundedOn(R, Nat)
    BY NatLessThanWellFounded
  <2> HIDE DEF R
  <2> QED BY <2>1, WFMin
<1>2. \A y \in N : ~(y < x)
  BY <1>1 DEF OpToRel
<1> QED BY <1>2

LEMMA MinIsLeast ==
  ASSUME NEW N \in SUBSET Nat, N # {}
  PROVE  P!Min(N) \in N /\ \A y \in N : P!Min(N) <= y
BY LeastExists DEF P!Min

LEMMA MaxIsGreatest ==
  ASSUME NEW n \in Nat, NEW N \in SUBSET (0..n), N # {}
  PROVE  P!Max(N) \in N /\ \A y \in N : P!Max(N) >= y
<1> DEFINE T == { n - x : x \in N }
<1>1. T \in SUBSET Nat /\ T # {}
  <2>1. PICK x \in N : TRUE
    OBVIOUS
  <2>2. n - x \in T
    OBVIOUS
  <2>3. \A y \in N : n - y \in Nat
    OBVIOUS
  <2> QED BY <2>2, <2>3
<1>2. PICK t \in T : \A u \in T : t <= u
  BY <1>1, LeastExists
<1>3. PICK x \in N : t = n - x
  OBVIOUS
<1>4. \A y \in N : x >= y
  BY <1>2, <1>3
<1> QED BY <1>4 DEF P!Max

(***************************************************************************)
(* The path through a session's entries: the invariant.                    *)
(***************************************************************************)
\* What may stand between a call and its results.
Follows(j) == path[j].kind \in {"toolResult", "note", "compaction"}
Call(c, last) == path[c].kind = "toolCall" /\ \A j \in (c + 1)..last : Follows(j)

\* From f on, every result that is not astray is with its call.
Result(i) == path[i].kind = "toolResult" /\ ~path[i].astray
KeepsCalls(f) ==
  \A i \in f..Len(path) : Result(i) => \E c \in f..(i - 1) : Call(c, i - 1)

\* What becomes of the messages before position f is known to r, a compaction or one
\* that is being prepared.
Known(r) == r.covers \union r.dropped \union r.missed
KnownTo(f, r) == \A i \in 1..(f - 1) : P!HasMessage(i) => i \in Known(r)

CompactionOK(m) == /\ path[m].kept \in 1..(m + 1)
                   /\ KnownTo(path[m].kept, path[m])
                   /\ KeepsCalls(path[m].kept)

PreparingOK(p) == /\ p.at \in 1..(Len(path) + 1)
                  /\ KnownTo(p.at, p)
                  /\ p.onPath => KeepsCalls(p.at)

\* The calls being executed are kept by every compaction, those to come included.
KeptBy(c) == /\ \A m \in P!Compactions : path[m].kept <= c
             /\ \A p \in preparing : p.onPath => p.at <= c
RunningInv == running = "here" => \E c \in 1..Len(path) : Call(c, Len(path)) /\ KeptBy(c)

IInv == /\ P!TypeOK
        /\ \A m \in P!Compactions : CompactionOK(m)
        /\ \A p \in preparing : PreparingOK(p)
        /\ KeepsCalls(1)
        /\ RunningInv

\* The path keeps its first n entries, and gets at most one more.
KeepsPath(n) == /\ path' \in Seq(P!Entries)
            /\ Len(path)' \in {n, n + 1}
            /\ \A i \in 1..n : path'[i] = path[i]

\* A result that is not astray is written behind the calls of the last reply.
Answers(n) ==
  Len(path)' = n + 1 /\ Result(n + 1)' => running = "here" /\ n = Len(path)

LEMMA SameMessages ==
  ASSUME P!TypeOK, NEW n \in 0..Len(path), KeepsPath(n), NEW i \in 1..n
  PROVE  /\ P!HasMessage(i)' <=> P!HasMessage(i)
         /\ i \in P!Compactions' <=> i \in P!Compactions
         /\ Result(i)' <=> Result(i)
<1>1. path'[i] = path[i] /\ Len(path) \in Nat /\ i \in 1..Len(path) /\ i \in 1..Len(path)'
  BY DEF P!TypeOK, KeepsPath
<1> QED BY <1>1 DEF P!HasMessage, P!Compactions, Result

LEMMA SameKnown ==
  ASSUME P!TypeOK, NEW n \in 0..Len(path), KeepsPath(n), NEW f \in 1..(n + 1), NEW r, KnownTo(f, r)
  PROVE  KnownTo(f, r)'
<1>1. n \in Nat
  BY DEF P!TypeOK
<1>2. \A i \in 1..(f - 1) : i \in 1..n
  BY <1>1
<1>3. \A i \in 1..(f - 1) : P!HasMessage(i)' <=> P!HasMessage(i)
  BY <1>2, SameMessages
<1> QED BY <1>3 DEF KnownTo, Known

LEMMA SameCall ==
  ASSUME P!TypeOK, NEW n \in 0..Len(path), KeepsPath(n), NEW last \in 0..n, NEW c \in 1..last,
         Call(c, last)
  PROVE  Call(c, last)'
<1>1. n \in Nat /\ \A j \in c..last : path'[j] = path[j]
  BY DEF P!TypeOK, KeepsPath
<1> QED BY <1>1 DEF Call, Follows

LEMMA KeepsCallsStep ==
  ASSUME P!TypeOK, NEW n \in 0..Len(path), KeepsPath(n), NEW f \in Nat, f >= 1, KeepsCalls(f),
         Len(path)' = n + 1 /\ Result(n + 1)' => \E c \in f..n : Call(c, n)
  PROVE  KeepsCalls(f)'
<1>1. n \in Nat /\ Len(path) \in Nat
  BY DEF P!TypeOK
<1> SUFFICES ASSUME NEW i \in f..Len(path)', Result(i)'
             PROVE  \E c \in f..(i - 1) : Call(c, i - 1)'
  BY DEF KeepsCalls
<1>2. PICK c \in f..(i - 1) : Call(c, i - 1)
  <2>1. CASE i \in 1..n
    <3>1. Result(i) /\ i \in f..Len(path)
      BY <1>1, <2>1, SameMessages
    <3> QED BY <3>1 DEF KeepsCalls
  <2>2. CASE i \notin 1..n
    <3>1. Len(path)' = n + 1 /\ i = n + 1
      BY <1>1, <2>2 DEF KeepsPath
    <3>2. PICK c \in f..n : Call(c, n)
      BY <3>1
    <3> QED BY <1>1, <3>1, <3>2
  <2> QED BY <2>1, <2>2
<1>3. i - 1 \in 0..n /\ c \in 1..(i - 1)
  BY <1>1, <1>2 DEF KeepsPath
<1> QED BY <1>2, <1>3, SameCall

(***************************************************************************)
(* Where a compaction cuts.                                                *)
(***************************************************************************)
LEMMA LatestIsCompaction ==
  ASSUME P!TypeOK, P!Compactions # {}
  PROVE  P!Latest \in P!Compactions /\ \A m \in P!Compactions : m <= P!Latest
<1>1. Len(path) \in Nat /\ P!Compactions \in SUBSET (0..Len(path))
  BY DEF P!TypeOK, P!Compactions
<1> QED BY <1>1, MaxIsGreatest DEF P!Latest

LEMMA StartInPath ==
  ASSUME IInv, path # <<>>, P!Last(path).kind # "compaction"
  PROVE  /\ P!Start \in 1..Len(path) /\ KeepsCalls(P!Start)
         /\ P!Compactions # {} => P!Latest \in P!Compactions /\ P!Start = path[P!Latest].kept
<1>1. Len(path) \in Nat /\ Len(path) >= 1
  BY DEF IInv, P!TypeOK
<1>2. CASE P!Compactions = {}
  BY <1>1, <1>2 DEF P!Start, IInv
<1>3. CASE P!Compactions # {}
  <2>1. P!Latest \in P!Compactions
    BY <1>3, LatestIsCompaction DEF IInv
  <2>2. P!Latest # Len(path)
    BY <2>1 DEF P!Compactions, P!Last
  <2>3. P!Latest \in 1..Len(path) /\ CompactionOK(P!Latest)
    BY <2>1 DEF P!Compactions, IInv
  <2> QED BY <1>1, <1>3, <2>1, <2>2, <2>3 DEF P!Start, CompactionOK
<1> QED BY <1>2, <1>3

LEMMA NearestIsCutPoint ==
  ASSUME P!TypeOK, NEW start \in 1..Len(path), P!CutPoints(start) # {}
  PROVE  P!NearestCut(start) \in P!CutPoints(start)
<1> DEFINE later == { c \in P!CutPoints(start) :
                       P!Exceeding(start) # {} /\ c >= P!Max(P!Exceeding(start)) }
           from == IF later = {} THEN P!CutPoints(start) ELSE later
<1>1. P!CutPoints(start) \in SUBSET Nat
  BY DEF P!TypeOK, P!CutPoints
<1>2. from \in SUBSET Nat /\ from # {} /\ from \subseteq P!CutPoints(start)
  BY <1>1
<1>3. P!NearestCut(start) = P!Min(from)
  BY DEF P!NearestCut
<1> HIDE DEF from
<1>4. P!Min(from) \in from
  BY <1>2, MinIsLeast
<1> QED BY <1>2, <1>3, <1>4

\* With notes, the cut is at or before a place to cut, with nothing but notes in between.
LEMMA NotesBeforeCut ==
  ASSUME P!TypeOK, NEW start \in 1..Len(path), NEW cut \in P!CutPoints(start)
  PROVE  /\ P!IncludeNotes(cut, start) \in start..cut
         /\ \A i \in P!IncludeNotes(cut, start)..(cut - 1) :
               ~P!IsMessage(i) /\ path[i].kind # "compaction"
<1> DEFINE N == { j \in start..cut : \A i \in j..(cut - 1) :
                    ~P!IsMessage(i) /\ path[i].kind # "compaction" }
<1>1. Len(path) \in Nat /\ cut \in start..Len(path)
  BY DEF P!TypeOK, P!CutPoints
<1>2. cut \in N /\ N \in SUBSET Nat
  BY <1>1
<1>3. P!IncludeNotes(cut, start) = P!Min(N)
  BY DEF P!IncludeNotes
<1>4. P!Min(N) \in N
  <2> HIDE DEF N
  <2> QED BY <1>2, MinIsLeast
<1> QED BY <1>3, <1>4

LEMMA FirstKeptInPath ==
  ASSUME P!TypeOK, NEW start \in 1..Len(path)
  PROVE  /\ P!FirstKept(start) \in start..Len(path)
         /\ \/ P!CutPoints(start) = {} /\ P!FirstKept(start) = start
            \/ \E p \in P!FirstKept(start)..Len(path) :
                 /\ P!IsCutPoint(p)
                 /\ \A j \in P!FirstKept(start)..(p - 1) : path[j].kind # "toolResult"
<1>1. Len(path) \in Nat
  BY DEF P!TypeOK
<1>2. CASE P!CutPoints(start) = {}
  BY <1>1, <1>2 DEF P!FirstKept
<1>3. CASE P!CutPoints(start) # {}
  <2> DEFINE p == P!NearestCut(start)
  <2>1. p \in P!CutPoints(start) /\ p \in start..Len(path) /\ P!IsCutPoint(p)
    BY <1>3, NearestIsCutPoint DEF P!CutPoints
  <2>2. P!FirstKept(start) = P!IncludeNotes(p, start)
    BY <1>3 DEF P!FirstKept
  <2>3. /\ P!IncludeNotes(p, start) \in start..p
        /\ \A i \in P!IncludeNotes(p, start)..(p - 1) : ~P!IsMessage(i)
    BY <2>1, NotesBeforeCut
  <2>4. \A i \in P!IncludeNotes(p, start)..(p - 1) : path[i].kind # "toolResult"
    BY <2>3 DEF P!IsMessage, P!MessageKind
  <2> QED BY <1>1, <2>1, <2>2, <2>3, <2>4
<1> QED BY <1>2, <1>3

\* No call before the cut has results behind it: a place to cut would stand between them.
LEMMA CutKeepsCalls ==
  ASSUME P!TypeOK, NEW start \in 1..Len(path), NEW last \in start..Len(path),
         NEW c \in start..last, Call(c, last), P!FirstKept(start) <= last + 1,
         last = Len(path) \/ Result(last + 1)
  PROVE  c >= P!FirstKept(start)
<1> DEFINE cut == P!FirstKept(start)
<1>1. /\ Len(path) \in Nat /\ start \in Nat /\ last \in Nat /\ c \in Nat
      /\ start <= last /\ last <= Len(path) /\ start <= c /\ c <= last
  BY DEF P!TypeOK
<1>2. /\ cut \in start..Len(path)
      /\ \/ cut = start
         \/ \E p \in cut..Len(path) :
              P!IsCutPoint(p) /\ \A j \in cut..(p - 1) : path[j].kind # "toolResult"
  BY FirstKeptInPath
<1> HIDE DEF cut
<1>3. CASE cut = start
  BY <1>1, <1>3 DEF cut
<1>4. ASSUME NEW p \in cut..Len(path), P!IsCutPoint(p),
             \A j \in cut..(p - 1) : path[j].kind # "toolResult"
      PROVE  c >= cut
  <2>1. p \in Nat /\ cut \in Nat /\ cut <= p /\ p <= Len(path) /\ cut <= last + 1
    BY <1>1, <1>2 DEF cut
  <2>2. ~Follows(p)
    BY <1>4 DEF Follows, P!IsCutPoint, P!HasMessage
  <2>3. p <= last
    <3>1. CASE last = Len(path)
      BY <1>1, <2>1, <3>1
    <3>2. CASE Result(last + 1)
      <4>1. path[last + 1].kind = "toolResult"
        BY <3>2 DEF Result
      <4>2. ~(last + 1 \in cut..(p - 1))
        BY <1>4, <4>1
      <4>3. p # last + 1
        BY <1>4, <4>1 DEF P!IsCutPoint
      <4> QED BY <1>1, <2>1, <4>2, <4>3
    <3> QED BY <3>1, <3>2
  <2>4. p \notin (c + 1)..last
    BY <2>2 DEF Call
  <2> QED BY <1>1, <2>1, <2>3, <2>4
<1> QED BY <1>2, <1>3, <1>4 DEF cut

LEMMA FirstKeptKeepsCalls ==
  ASSUME P!TypeOK, NEW start \in 1..Len(path), KeepsCalls(start)
  PROVE  KeepsCalls(P!FirstKept(start))
<1> DEFINE cut == P!FirstKept(start)
<1>1. cut \in start..Len(path) /\ Len(path) \in Nat
  BY FirstKeptInPath DEF P!TypeOK
<1> HIDE DEF cut
<1> SUFFICES ASSUME NEW i \in cut..Len(path), Result(i)
             PROVE  \E c \in cut..(i - 1) : Call(c, i - 1)
  BY DEF KeepsCalls, cut
<1>2. i \in start..Len(path)
  BY <1>1
<1>3. PICK c \in start..(i - 1) : Call(c, i - 1)
  BY <1>2 DEF KeepsCalls
<1> DEFINE last == i - 1
<1>4. last \in start..Len(path) /\ c \in start..last /\ Result(last + 1) /\ cut <= last + 1
  BY <1>1, <1>2, <1>3
<1>5. Call(c, last)
  BY <1>3
<1> HIDE DEF last
<1>6. c >= cut
  BY <1>4, <1>5, CutKeepsCalls DEF cut
<1> QED BY <1>1, <1>3, <1>4, <1>6 DEF last

(***************************************************************************)
(* What a compaction covers.                                               *)
(***************************************************************************)
LEMMA TurnBeforeCut ==
  ASSUME P!TypeOK, P!Start \in 1..Len(path), NEW cut \in P!Start..Len(path),
         P!IsSplitTurn(cut, P!Start)
  PROVE  P!Max(P!TurnStarts(cut, P!Start)) \in P!Start..cut
<1>1. cut \in Nat /\ P!Start \in Nat
  BY DEF P!TypeOK
<1>2. P!TurnStarts(cut, P!Start) \in SUBSET (0..cut) /\ P!TurnStarts(cut, P!Start) # {}
  BY <1>1 DEF P!TurnStarts, P!IsSplitTurn
<1>3. P!Max(P!TurnStarts(cut, P!Start)) \in P!TurnStarts(cut, P!Start)
  BY <1>1, <1>2, MaxIsGreatest
<1> QED BY <1>3 DEF P!TurnStarts

LEMMA AllSummarized ==
  ASSUME P!TypeOK, P!Start \in 1..Len(path), NEW cut \in P!Start..Len(path),
         NEW i \in P!Start..(cut - 1), P!HasMessage(i)
  PROVE  LET parts == P!ToSummarize(cut, P!IsSplitTurn(cut, P!Start))
         IN  i \in parts.history \union parts.prefix
<1> DEFINE turn == P!Max(P!TurnStarts(cut, P!Start))
<1>1. Len(path) \in Nat
  BY DEF P!TypeOK
<1>2. CASE ~P!IsSplitTurn(cut, P!Start)
  BY <1>1, <1>2 DEF P!ToSummarize, P!Messages
<1>3. CASE P!IsSplitTurn(cut, P!Start)
  <2>1. turn \in P!Start..cut
    BY <1>3, TurnBeforeCut
  <2> HIDE DEF turn
  <2>2. i \in P!Messages(P!Start, turn - 1) \union P!Messages(turn, cut - 1)
    BY <1>1, <2>1 DEF P!Messages
  <2>3. /\ P!ToSummarize(cut, TRUE).history = P!Messages(P!Start, turn - 1)
        /\ P!ToSummarize(cut, TRUE).prefix = P!Messages(turn, cut - 1)
    BY DEF P!ToSummarize, turn
  <2>4. P!IsSplitTurn(cut, P!Start) = TRUE
    BY <1>3 DEF P!IsSplitTurn
  <2> QED BY <2>2, <2>3, <2>4
<1> QED BY <1>2, <1>3

LEMMA SummarizedArePositions ==
  ASSUME P!TypeOK, P!Start \in 1..Len(path), NEW cut \in P!Start..Len(path)
  PROVE  LET parts == P!ToSummarize(cut, P!IsSplitTurn(cut, P!Start))
         IN  parts.history \subseteq Nat /\ parts.prefix \subseteq Nat
<1> DEFINE turn == P!Max(P!TurnStarts(cut, P!Start))
<1>1. Len(path) \in Nat
  BY DEF P!TypeOK
<1>2. CASE ~P!IsSplitTurn(cut, P!Start)
  BY <1>1, <1>2 DEF P!ToSummarize, P!Messages
<1>3. CASE P!IsSplitTurn(cut, P!Start)
  <2>1. turn \in P!Start..cut
    BY <1>3, TurnBeforeCut
  <2> HIDE DEF turn
  <2>2. P!Messages(P!Start, turn - 1) \subseteq Nat /\ P!Messages(turn, cut - 1) \subseteq Nat
    BY <1>1, <2>1 DEF P!Messages
  <2>3. /\ P!ToSummarize(cut, TRUE).history = P!Messages(P!Start, turn - 1)
        /\ P!ToSummarize(cut, TRUE).prefix = P!Messages(turn, cut - 1)
    BY DEF P!ToSummarize, turn
  <2>4. P!IsSplitTurn(cut, P!Start) = TRUE
    BY <1>3 DEF P!IsSplitTurn
  <2> QED BY <2>2, <2>3, <2>4
<1> QED BY <1>2, <1>3

(***************************************************************************)
(* The steps.  A path keeps a prefix and may get one more entry.           *)
(***************************************************************************)
LEMMA CompactionsStay ==
  ASSUME IInv, NEW n \in 0..Len(path), KeepsPath(n), Answers(n), NEW m \in P!Compactions, m <= n
  PROVE  CompactionOK(m)'
<1>1. /\ P!TypeOK /\ n \in Nat /\ Len(path) \in Nat
      /\ m \in 1..n /\ path'[m] = path[m] /\ m \in 1..Len(path)
  BY DEF IInv, P!TypeOK, P!Compactions, KeepsPath
<1>2. path[m].kept \in 1..(m + 1) /\ KnownTo(path[m].kept, path[m]) /\ KeepsCalls(path[m].kept)
  BY DEF IInv, CompactionOK
<1>8. PICK f, r : f = path[m].kept /\ r = path[m]
  OBVIOUS
<1>3. f \in 1..(n + 1) /\ f \in Nat /\ f >= 1
  BY <1>1, <1>2, <1>8
<1>4. Len(path)' = n + 1 /\ Result(n + 1)' => \E c \in f..n : Call(c, n)
  <2> SUFFICES ASSUME running = "here", n = Len(path) PROVE \E c \in f..n : Call(c, n)
    BY DEF Answers
  <2>1. PICK c \in 1..n : Call(c, n) /\ KeptBy(c)
    BY DEF IInv, RunningInv
  <2>2. f <= c
    BY <1>8, <2>1 DEF KeptBy
  <2> QED BY <1>1, <1>3, <2>1, <2>2
<1>5. KnownTo(f, r) /\ KeepsCalls(f)
  BY <1>2, <1>8
<1>6. KnownTo(f, r)'
  BY <1>1, <1>3, <1>5, SameKnown
<1>7. KeepsCalls(f)'
  BY <1>1, <1>3, <1>4, <1>5, KeepsCallsStep
<1>9. path'[m] = r /\ path'[m].kept = f /\ f \in 1..(m + 1)
  BY <1>1, <1>2, <1>8
<1> QED BY <1>6, <1>7, <1>9 DEF CompactionOK

LEMMA KnownStays ==
  ASSUME IInv, NEW n \in 0..Len(path), KeepsPath(n), NEW p \in preparing,
         NEW at \in 1..(n + 1), at <= p.at, NEW r,
         \A i \in 1..n : i \in Known(p) => i \in Known(r)
  PROVE  KnownTo(at, r)'
<1>1. P!TypeOK /\ n \in Nat /\ p.at \in 1..(Len(path) + 1) /\ Len(path) \in Nat
  BY DEF IInv, P!TypeOK, PreparingOK
<1>2. KnownTo(at, r)
  <2> SUFFICES ASSUME NEW i \in 1..(at - 1), P!HasMessage(i) PROVE i \in Known(r)
    BY DEF KnownTo
  <2>1. i \in 1..n /\ i \in 1..(p.at - 1)
    BY <1>1
  <2>2. i \in Known(p)
    BY <2>1 DEF IInv, PreparingOK, KnownTo
  <2> QED BY <2>1, <2>2
<1> QED BY <1>1, <1>2, SameKnown

LEMMA CallsStay ==
  ASSUME IInv, NEW n \in 0..Len(path), KeepsPath(n), Answers(n), NEW p \in preparing, p.onPath,
         NEW at, at = p.at
  PROVE  KeepsCalls(at)'
<1>1. /\ P!TypeOK /\ n \in Nat /\ Len(path) \in Nat
      /\ at \in Nat /\ at >= 1 /\ KeepsCalls(at)
  BY DEF IInv, P!TypeOK, PreparingOK
<1>2. Len(path)' = n + 1 /\ Result(n + 1)' => \E c \in at..n : Call(c, n)
  <2> SUFFICES ASSUME running = "here", n = Len(path) PROVE \E c \in at..n : Call(c, n)
    BY DEF Answers
  <2>1. PICK c \in 1..n : Call(c, n) /\ KeptBy(c)
    BY DEF IInv, RunningInv
  <2>2. at <= c
    BY <2>1 DEF KeptBy
  <2> QED BY <1>1, <2>1, <2>2
<1> QED BY <1>1, <1>2, KeepsCallsStep

\* What is being prepared is not touched by one more entry.
LEMMA PreparedOnAppend ==
  ASSUME IInv, KeepsPath(Len(path)), Answers(Len(path)), NEW p \in preparing
  PROVE  PreparingOK(p)'
<1> DEFINE n == Len(path)
<1>1. /\ P!TypeOK /\ Len(path) \in Nat /\ Len(path)' >= Len(path) /\ Len(path)' \in Nat
      /\ p.at \in 1..(Len(path) + 1)
  BY DEF IInv, P!TypeOK, PreparingOK, KeepsPath
<1>2. n \in 0..Len(path) /\ KeepsPath(n) /\ Answers(n) /\ p.at \in 1..(n + 1) /\ p.at <= p.at
  BY <1>1
<1>3. \A i \in 1..n : i \in Known(p) => i \in Known(p)
  OBVIOUS
<1> HIDE DEF n
<1>4. KnownTo(p.at, p)'
  BY <1>2, <1>3, KnownStays
<1>5. p.onPath => KeepsCalls(p.at)'
  BY <1>2, CallsStay
<1>6. p.at \in 1..(Len(path)' + 1)
  BY <1>1
<1> QED BY <1>4, <1>5, <1>6 DEF PreparingOK

LEMMA PathStep ==
  ASSUME IInv, NEW n \in 0..Len(path), KeepsPath(n), Answers(n),
         Len(path)' = n + 1 /\ path'[n + 1].kind = "compaction" => CompactionOK(n + 1)',
         running' \in {"no", "here", "elsewhere"}, RunningInv',
         preparing' \subseteq P!Preparations,
         \A p \in preparing' : PreparingOK(p)'
  PROVE  IInv'
<1>1. P!TypeOK /\ n \in Nat /\ Len(path) \in Nat
  BY DEF IInv, P!TypeOK
<1>2. P!TypeOK'
  BY DEF P!TypeOK, KeepsPath
<1>3. ASSUME NEW m \in P!Compactions' PROVE CompactionOK(m)'
  <2>1. CASE m \in 1..n
    <3>1. m \in P!Compactions
      BY <1>1, <1>3, <2>1, SameMessages
    <3> QED BY <1>1, <2>1, <3>1, CompactionsStay
  <2>2. CASE m \notin 1..n
    <3>1. m = n + 1 /\ Len(path)' = n + 1 /\ path'[n + 1].kind = "compaction"
      BY <1>1, <1>3, <2>2 DEF P!Compactions, KeepsPath
    <3> QED BY <3>1
  <2> QED BY <2>1, <2>2
<1>4. KeepsCalls(1)'
  <2>1. KeepsCalls(1)
    BY DEF IInv
  <2>2. Len(path)' = n + 1 /\ Result(n + 1)' => \E c \in 1..n : Call(c, n)
    BY DEF Answers, IInv, RunningInv
  <2> QED BY <1>1, <2>1, <2>2, KeepsCallsStep
<1> QED BY <1>2, <1>3, <1>4 DEF IInv

\* Calls go on being executed behind an entry that may follow them.
LEMMA RunningStays ==
  ASSUME IInv, KeepsPath(Len(path)), Len(path)' = Len(path) + 1,
         running' = "here" => running = "here",
         running' = "here" => path'[Len(path) + 1].kind \in {"toolResult", "note", "compaction"},
         running' = "here" /\ path'[Len(path) + 1].kind = "compaction" =>
           \E p \in preparing : p.onPath /\ path'[Len(path) + 1].kept = p.at,
         preparing' \subseteq preparing
  PROVE  RunningInv'
<1> SUFFICES ASSUME running' = "here"
             PROVE  \E c \in 1..Len(path)' : Call(c, Len(path))' /\ KeptBy(c)'
  BY DEF RunningInv
<1>1. P!TypeOK /\ Len(path) \in Nat
  BY DEF IInv, P!TypeOK
<1>2. PICK c \in 1..Len(path) : Call(c, Len(path)) /\ KeptBy(c)
  BY DEF IInv, RunningInv
<1>3. \A j \in 1..Len(path) : path'[j] = path[j]
  BY DEF KeepsPath
<1>4. path[c].kind = "toolCall" /\ \A j \in (c + 1)..Len(path) : Follows(j)
  BY <1>2 DEF Call
<1>5. path'[c].kind = "toolCall" /\ c \in 1..Len(path)'
  BY <1>1, <1>3, <1>4
<1>6. ASSUME NEW j \in (c + 1)..(Len(path)') PROVE Follows(j)'
  <2>1. CASE j \in 1..Len(path)
    <3>1. j \in (c + 1)..Len(path)
      BY <1>1, <2>1
    <3> QED BY <1>3, <1>4, <2>1, <3>1 DEF Follows
  <2>2. CASE j \notin 1..Len(path)
    <3>1. j = Len(path) + 1
      BY <1>1, <1>2, <2>2
    <3>2. path'[j].kind \in {"toolResult", "note", "compaction"}
      BY <3>1
    <3> QED BY <3>2 DEF Follows
  <2> QED BY <2>1, <2>2
<1>7. Call(c, Len(path))'
  BY <1>5, <1>6 DEF Call
<1>8. ASSUME NEW m \in P!Compactions' PROVE path'[m].kept <= c
  <2>1. CASE m \in 1..Len(path)
    <3>1. m \in P!Compactions /\ path'[m] = path[m]
      BY <1>3, <1>8, <2>1 DEF P!Compactions
    <3> QED BY <1>2, <3>1 DEF KeptBy
  <2>2. CASE m \notin 1..Len(path)
    <3>1. m = Len(path) + 1 /\ path'[Len(path) + 1].kind = "compaction"
      BY <1>1, <1>8, <2>2 DEF P!Compactions
    <3>2. PICK p \in preparing : p.onPath /\ path'[Len(path) + 1].kept = p.at
      BY <3>1
    <3> QED BY <1>2, <3>1, <3>2 DEF KeptBy
  <2> QED BY <2>1, <2>2
<1>9. KeptBy(c)'
  BY <1>2, <1>8 DEF KeptBy
<1> QED BY <1>5, <1>7, <1>9

LEMMA SamePath ==
  ASSUME IInv, path' = path
  PROVE  /\ KeepsPath(Len(path)) /\ Answers(Len(path)) /\ Len(path) \in 0..Len(path)
         /\ Len(path)' # Len(path) + 1
BY DEF IInv, P!TypeOK, KeepsPath, Answers

\* What the entries before the cut hold is summarized, or was before.
LEMMA KnownToCut ==
  ASSUME IInv, P!Start \in 1..Len(path),
         P!Compactions # {} => P!Latest \in P!Compactions /\ P!Start = path[P!Latest].kept,
         NEW cut \in P!Start..Len(path), NEW parts,
         parts = P!ToSummarize(cut, P!IsSplitTurn(cut, P!Start)),
         NEW r, r.covers = P!Summary(parts), r.missed = P!PreviouslyMissed,
         r.dropped = P!PreviouslyDropped \union
                       (IF P!NoPriorHistory(parts) THEN P!PreviousCovers ELSE {})
  PROVE  KnownTo(cut, r)
<1>1. P!TypeOK /\ Len(path) \in Nat /\ P!Start \in Nat /\ cut \in Nat
  BY DEF IInv, P!TypeOK
<1> SUFFICES ASSUME NEW i \in 1..(cut - 1), P!HasMessage(i) PROVE i \in Known(r)
  BY DEF KnownTo
<1>2. CASE i >= P!Start
  <2>1. i \in P!Start..(cut - 1)
    BY <1>1, <1>2
  <2>2. i \in parts.history \union parts.prefix
    BY <1>1, <2>1, AllSummarized
  <2> QED BY <2>2 DEF Known, P!Summary
<1>3. CASE ~(i >= P!Start)
  <2>1. P!Compactions # {}
    BY <1>1, <1>3 DEF P!Start
  <2>2. i \in 1..(path[P!Latest].kept - 1)
    BY <1>1, <1>3, <2>1
  <2>3. i \in Known(path[P!Latest])
    BY <2>1, <2>2 DEF IInv, CompactionOK, KnownTo
  <2>4. i \in P!PreviousCovers \union P!PreviouslyDropped \union P!PreviouslyMissed
    BY <2>1, <2>3 DEF Known, P!PreviousCovers, P!PreviouslyDropped, P!PreviouslyMissed
  <2> QED BY <2>4 DEF Known, P!Summary
<1> QED BY <1>2, <1>3

LEMMA PreviousTyped ==
  ASSUME P!TypeOK
  PROVE  P!PreviousCovers \subseteq Nat /\ P!PreviouslyDropped \subseteq Nat
         /\ P!PreviouslyMissed \subseteq Nat
<1>1. CASE P!Compactions = {}
  BY <1>1 DEF P!PreviousCovers, P!PreviouslyDropped, P!PreviouslyMissed
<1>2. CASE P!Compactions # {}
  <2>1. P!Latest \in 1..Len(path)
    BY <1>2, LatestIsCompaction DEF P!Compactions
  <2>2. path[P!Latest] \in P!Entries
    BY <2>1 DEF P!TypeOK
  <2> QED BY <1>2, <2>2 DEF P!Entries, P!PreviousCovers, P!PreviouslyDropped, P!PreviouslyMissed
<1> QED BY <1>1, <1>2

LEMMA PrepareStep ==
  ASSUME IInv, NEW by \in Compactors, P!Prepare(by)
  PROVE  IInv'
<1>1. P!TypeOK /\ Len(path) \in Nat
  BY DEF IInv, P!TypeOK
<1>2. path # <<>> /\ P!Last(path).kind # "compaction" /\ path' = path /\ running' = running
  BY DEF P!Prepare
<1>3. PICK cut : cut = P!FirstKept(P!Start)
  OBVIOUS
<1>4. PICK parts : parts = P!ToSummarize(cut, P!IsSplitTurn(cut, P!Start))
  OBVIOUS
<1> DEFINE dropped == P!PreviouslyDropped \union
                        (IF P!NoPriorHistory(parts) THEN P!PreviousCovers ELSE {})
<1>5. PICK r : r = [by |-> by, at |-> cut, onPath |-> TRUE, covers |-> P!Summary(parts),
                    dropped |-> dropped, missed |-> P!PreviouslyMissed]
  OBVIOUS
<1>6. preparing' = preparing \union {r}
  BY <1>3, <1>4, <1>5 DEF P!Prepare
<1>7. /\ r.by = by /\ r.at = cut /\ r.onPath = TRUE
      /\ r.covers = P!Summary(parts) /\ r.dropped = dropped /\ r.missed = P!PreviouslyMissed
  BY <1>5
<1>8. /\ P!Start \in 1..Len(path) /\ KeepsCalls(P!Start)
      /\ P!Compactions # {} => P!Latest \in P!Compactions /\ P!Start = path[P!Latest].kept
  BY <1>2, StartInPath
<1>9. cut \in P!Start..Len(path)
  BY <1>1, <1>3, <1>8, FirstKeptInPath
<1>10. r \in P!Preparations
  <2>1. parts.history \subseteq Nat /\ parts.prefix \subseteq Nat
    BY <1>1, <1>4, <1>8, <1>9, SummarizedArePositions
  <2>2. P!Summary(parts) \subseteq Nat /\ dropped \subseteq Nat /\ P!PreviouslyMissed \subseteq Nat
    BY <1>1, <2>1, PreviousTyped DEF P!Summary
  <2>3. cut \in Nat
    BY <1>1, <1>8, <1>9
  <2> HIDE DEF dropped
  <2> QED BY <1>5, <2>2, <2>3 DEF P!Preparations
<1>11. KnownTo(cut, r)
  BY <1>4, <1>7, <1>8, <1>9, KnownToCut
<1>12. KeepsCalls(cut)
  BY <1>1, <1>3, <1>8, FirstKeptKeepsCalls
<1>13. PreparingOK(r)'
  <2>1. KnownTo(cut, r)' /\ KeepsCalls(cut)'
    BY <1>2, <1>11, <1>12 DEF KnownTo, Known, P!HasMessage, KeepsCalls, Result, Call, Follows
  <2>2. cut \in 1..(Len(path)' + 1)
    BY <1>1, <1>2, <1>8, <1>9
  <2> QED BY <1>7, <2>1, <2>2 DEF PreparingOK
<1>14. \A p \in preparing' : PreparingOK(p)'
  BY <1>2, <1>6, <1>13, SamePath, PreparedOnAppend
<1>15. RunningInv'
  <2> SUFFICES ASSUME running' = "here"
               PROVE  \E c \in 1..Len(path)' : Call(c, Len(path))' /\ KeptBy(c)'
    BY DEF RunningInv
  <2>1. PICK c \in 1..Len(path) : Call(c, Len(path)) /\ KeptBy(c)
    BY <1>2 DEF IInv, RunningInv
  <2>2. cut <= c
    <3>1. P!Start <= c
      <4>1. CASE P!Compactions = {}
        BY <1>1, <2>1, <4>1 DEF P!Start
      <4>2. CASE P!Compactions # {}
        BY <1>8, <2>1, <4>2 DEF KeptBy
      <4> QED BY <4>1, <4>2
    <3> DEFINE last == Len(path)
    <3>2. last \in P!Start..Len(path) /\ c \in P!Start..last /\ Call(c, last)
          /\ cut <= last + 1 /\ last = Len(path) /\ cut \in Nat /\ c \in Nat
      BY <1>1, <1>8, <1>9, <2>1, <3>1
    <3> HIDE DEF last
    <3>3. c >= cut
      BY <1>1, <1>3, <1>8, <3>2, CutKeepsCalls
    <3> QED BY <3>2, <3>3
  <2>3. \A p \in preparing' : p.onPath => p.at <= c
    BY <1>6, <1>7, <2>1, <2>2 DEF KeptBy
  <2>4. KeptBy(c)'
    BY <1>2, <2>1, <2>3 DEF KeptBy, P!Compactions
  <2>5. Call(c, Len(path))'
    BY <1>2, <2>1 DEF Call, Follows
  <2> QED BY <1>2, <2>1, <2>4, <2>5
<1>16. preparing' \subseteq P!Preparations /\ running' \in {"no", "here", "elsewhere"}
  BY <1>1, <1>2, <1>6, <1>10 DEF P!TypeOK
<1>17. KeepsPath(Len(path)) /\ Answers(Len(path)) /\ Len(path) \in 0..Len(path)
       /\ Len(path)' # Len(path) + 1
  BY <1>2, SamePath
<1> QED BY <1>14, <1>15, <1>16, <1>17, PathStep

LEMMA GiveUpStep ==
  ASSUME IInv, NEW p \in preparing, P!GiveUp(p)
  PROVE  IInv'
<1>1. path' = path /\ running' = running /\ preparing' = preparing \ {p}
  BY DEF P!GiveUp
<1>2. P!TypeOK' /\ \A m \in P!Compactions' : CompactionOK(m)'
  BY <1>1 DEF IInv, P!TypeOK, P!Compactions, CompactionOK, KnownTo, Known, P!HasMessage,
              KeepsCalls, Result, Call, Follows
<1>3. \A q \in preparing' : PreparingOK(q)'
  BY <1>1, SamePath, PreparedOnAppend
<1>4. KeepsCalls(1)' /\ RunningInv'
  BY <1>1 DEF IInv, KeepsCalls, Result, Call, Follows, RunningInv, KeptBy, P!Compactions
<1> QED BY <1>2, <1>3, <1>4 DEF IInv

LEMMA Appended ==
  ASSUME P!TypeOK, NEW e \in P!Entries, path' = Append(path, e)
  PROVE  /\ KeepsPath(Len(path)) /\ Len(path) \in Nat /\ Len(path) \in 0..Len(path)
         /\ Len(path)' = Len(path) + 1 /\ path'[Len(path) + 1] = e
BY DEF P!TypeOK, KeepsPath

LEMMA AppendCompactionStep ==
  ASSUME IInv, NEW p \in preparing, P!AppendCompaction(p)
  PROVE  IInv'
<1>0. P!TypeOK /\ Len(path) \in Nat
  BY DEF IInv, P!TypeOK
<1> PICK n \in Nat : n = Len(path)
  BY <1>0
<1>1. P!TypeOK /\ n = Len(path) /\ p \in P!Preparations /\ PreparingOK(p)
  BY DEF IInv, P!TypeOK
<1>2. /\ p.at \in 1..(n + 1) /\ KnownTo(p.at, p) /\ p.onPath \in BOOLEAN
      /\ p.missed \subseteq Nat
  BY <1>1 DEF PreparingOK, P!Preparations
<1>3. PICK f \in Nat : f = P!KeptFrom(p)
  BY <1>1, <1>2 DEF P!KeptFrom
<1>4. PICK missed \in SUBSET Nat :
        missed = p.missed \union (IF p.onPath THEN {} ELSE P!Messages(p.at, Len(path)))
  <2>1. P!Messages(p.at, Len(path)) \subseteq Nat
    BY <1>0, <1>2 DEF P!Messages
  <2> QED BY <1>2, <2>1
<1>5. PICK e \in P!Entries :
        /\ path' = Append(path, e)
        /\ e.kind = "compaction" /\ e.kept = f /\ e.missed = missed
        /\ e.covers = p.covers /\ e.dropped = p.dropped
  <2> DEFINE d == [kind |-> "compaction", size |-> 0, astray |-> FALSE, kept |-> f,
                   covers |-> p.covers, dropped |-> p.dropped, missed |-> missed]
  <2>1. path' = Append(path, d)
    BY <1>3, <1>4 DEF P!AppendCompaction
  <2>2. d \in P!Entries
    BY <1>1 DEF P!Preparations, P!Entries
  <2> QED BY <2>1, <2>2
<1>6. /\ preparing' = preparing \ {p}
      /\ running' = IF running = "here" /\ ~p.onPath THEN "elsewhere" ELSE running
  BY DEF P!AppendCompaction
<1>7. KeepsPath(n) /\ n \in 0..Len(path) /\ Len(path)' = n + 1 /\ path'[n + 1] = e
  BY <1>1, <1>5, Appended
<1>8. Answers(n)
  BY <1>5, <1>7 DEF Answers, Result
<1>9. CompactionOK(n + 1)'
  <2>1. CASE p.onPath
    <3>1. f = p.at /\ f \in 1..(n + 1) /\ KnownTo(f, e)
      BY <1>2, <1>3, <1>4, <1>5, <2>1 DEF P!KeptFrom, KnownTo, Known
    <3>2. KnownTo(f, e)'
      BY <1>1, <1>7, <3>1, SameKnown
    <3>3. KeepsCalls(f)'
      BY <1>7, <1>8, <2>1, <3>1, CallsStay
    <3>4. f \in 1..(n + 1 + 1)
      BY <1>1, <3>1
    <3>5. path'[n + 1].kept = f
      BY <1>5, <1>7
    <3> QED BY <1>1, <1>7, <3>2, <3>3, <3>4, <3>5 DEF CompactionOK
  <2>2. CASE ~p.onPath
    <3>1. f = n + 2
      BY <1>3, <2>2 DEF P!KeptFrom
    <3>2. ASSUME NEW i \in 1..(f - 1), P!HasMessage(i)' PROVE i \in Known(e)
      <4>1. i # n + 1
        BY <1>5, <1>7, <3>2 DEF P!HasMessage
      <4>2. i \in 1..n
        BY <1>1, <3>1, <4>1
      <4>3. P!HasMessage(i)
        BY <1>1, <1>7, <3>2, <4>2, SameMessages
      <4>4. CASE i < p.at
        BY <1>2, <1>4, <1>5, <4>2, <4>3, <4>4 DEF KnownTo, Known
      <4>5. CASE ~(i < p.at)
        <5>1. i \in P!Messages(p.at, Len(path))
          BY <1>1, <1>2, <4>2, <4>3, <4>5 DEF P!Messages
        <5> QED BY <1>4, <1>5, <2>2, <5>1 DEF Known
      <4> QED BY <4>4, <4>5
    <3>3. KnownTo(f, e)'
      BY <3>2 DEF KnownTo, Known
    <3>4. KeepsCalls(f)'
      BY <1>1, <1>7, <3>1 DEF KeepsCalls
    <3>5. f \in 1..(n + 1 + 1) /\ path'[n + 1].kept = f
      BY <1>1, <1>5, <1>7, <3>1
    <3> QED BY <1>1, <1>7, <3>3, <3>4, <3>5 DEF CompactionOK
  <2> QED BY <1>2, <2>1, <2>2
<1>10. \A q \in preparing' : PreparingOK(q)'
  BY <1>6, <1>7, <1>8, PreparedOnAppend
<1>11. preparing' \subseteq P!Preparations /\ running' \in {"no", "here", "elsewhere"}
  BY <1>1, <1>6 DEF P!TypeOK
<1>12. RunningInv'
  <2>1. running' = "here" => running = "here" /\ p.onPath
    BY <1>6
  <2>2. p.onPath => path'[n + 1].kept = p.at
    BY <1>3, <1>5, <1>7 DEF P!KeptFrom
  <2>3. path'[n + 1].kind \in {"toolResult", "note", "compaction"}
    BY <1>5, <1>7
  <2> QED BY <1>6, <1>7, <2>1, <2>2, <2>3, RunningStays
<1> QED BY <1>7, <1>8, <1>9, <1>10, <1>11, <1>12, PathStep

\* One more entry that is not a compaction.
LEMMA AppendStep ==
  ASSUME IInv, NEW e \in P!Entries, path' = Append(path, e), preparing' = preparing,
         e.kind # "compaction",
         e.kind = "toolResult" /\ ~e.astray => running = "here",
         running' \in {"no", "here", "elsewhere"},
         running' = "here" => \/ e.kind = "toolCall"
                              \/ running = "here" /\ e.kind \in {"note", "toolResult"}
  PROVE  IInv'
<1>0. P!TypeOK /\ Len(path) \in Nat
  BY DEF IInv, P!TypeOK
<1> PICK n \in Nat : n = Len(path)
  BY <1>0
<1>1. P!TypeOK /\ n = Len(path)
  BY <1>0
<1>2. KeepsPath(n) /\ n \in 0..Len(path) /\ Len(path)' = n + 1 /\ path'[n + 1] = e
  BY <1>1, Appended
<1>3. Answers(n)
  BY <1>2 DEF Answers, Result
<1>4. \A p \in preparing' : PreparingOK(p)'
  BY <1>2, <1>3, PreparedOnAppend
<1>5. RunningInv'
  <2>1. CASE running' = "here" /\ e.kind = "toolCall"
    <3>1. PICK m \in Nat : m = n + 1
      BY <1>1
    <3>2. m \in 1..Len(path)' /\ Len(path)' = m
      BY <1>1, <1>2, <3>1
    <3>3. \A j \in (m + 1)..m : Follows(j)'
      BY <3>1
    <3>4. Call(m, m)'
      BY <1>2, <2>1, <3>1, <3>3 DEF Call
    <3>5. ASSUME NEW k \in P!Compactions' PROVE path'[k].kept <= m
      <4>1. k \in 1..n
        BY <1>1, <1>2, <2>1, <3>5 DEF P!Compactions
      <4>2. k \in P!Compactions /\ path'[k] = path[k]
        BY <1>1, <1>2, <3>5, <4>1, SameMessages DEF KeepsPath
      <4>3. path[k].kept \in 1..(k + 1)
        BY <4>2 DEF IInv, CompactionOK
      <4> QED BY <1>1, <3>1, <4>1, <4>2, <4>3
    <3>6. \A p \in preparing' : p.onPath => p.at <= m
      BY <1>1, <3>1 DEF IInv, PreparingOK
    <3>7. KeptBy(m)'
      BY <3>5, <3>6 DEF KeptBy
    <3> QED BY <3>2, <3>4, <3>7 DEF RunningInv
  <2>2. CASE running' = "here" => running = "here" /\ e.kind \in {"note", "toolResult"}
    BY <1>2, <2>2, RunningStays
  <2> QED BY <2>1, <2>2
<1>6. preparing' \subseteq P!Preparations
  BY <1>1 DEF P!TypeOK
<1> QED BY <1>2, <1>3, <1>4, <1>5, <1>6, PathStep

LEMMA AppendMessageStep ==
  ASSUME IInv, NEW kind \in P!MessageKind, P!AppendMessage(kind)
  PROVE  IInv'
<1>1. running \in {"no", "here", "elsewhere"}
  BY DEF IInv, P!TypeOK
<1>2. PICK size \in (IF kind = "toolResult" THEN Sizes ELSE {1}) :
        path' = Append(path, [P!Entry(kind, size) EXCEPT
                  !.astray = kind = "toolResult" /\ running = "elsewhere"])
  BY DEF P!AppendMessage
<1>3. size \in Sizes \union {0, 1} /\ kind \in P!Kind /\ kind # "compaction"
  BY <1>2 DEF P!Kind, P!MessageKind
<1>4. PICK astray \in BOOLEAN : astray = (kind = "toolResult" /\ running = "elsewhere")
  OBVIOUS
<1>5. PICK e \in P!Entries : path' = Append(path, e) /\ e.kind = kind /\ e.astray = astray
  <2> DEFINE d == [kind |-> kind, size |-> size, astray |-> astray,
                   kept |-> 0, covers |-> {}, dropped |-> {}, missed |-> {}]
  <2>1. [P!Entry(kind, size) EXCEPT !.astray = astray] = d
    BY DEF P!Entry
  <2>2. path' = Append(path, d)
    BY <1>2, <1>4, <2>1
  <2>3. d \in P!Entries
    BY <1>3 DEF P!Entries
  <2> QED BY <2>2, <2>3
<1>6. /\ kind = "toolResult" => running # "no"
      /\ running' = CASE kind = "toolCall" -> "here"
                      [] kind = "toolResult" -> running
                      [] OTHER -> IF running = "here" THEN "no" ELSE running
      /\ preparing' = preparing
  BY DEF P!AppendMessage
<1>7. kind = "toolResult" /\ ~astray => running = "here"
  BY <1>1, <1>4, <1>6
<1>8. /\ running' \in {"no", "here", "elsewhere"}
      /\ running' = "here" => \/ kind = "toolCall"
                              \/ running = "here" /\ kind \in {"note", "toolResult"}
  BY <1>1, <1>6
<1> QED BY <1>3, <1>5, <1>6, <1>7, <1>8, AppendStep

LEMMA AppendEntryStep ==
  ASSUME IInv, NEW kind \in {"custom_message", "note"}, P!AppendEntry(kind),
         kind = "custom_message" => running # "here"
  PROVE  IInv'
<1>1. PICK e : e = P!Entry(kind, 0)
  OBVIOUS
<1>2. e \in P!Entries /\ e.kind = kind
  BY <1>1 DEF P!Entry, P!Entries, P!Kind
<1>3. path' = Append(path, e) /\ preparing' = preparing /\ running' = running
      /\ running' \in {"no", "here", "elsewhere"}
  BY <1>1 DEF P!AppendEntry, IInv, P!TypeOK
<1> QED BY <1>2, <1>3, AppendStep

LEMMA UpToFacts ==
  ASSUME NEW p \in P!Preparations, NEW end \in Nat, p.at \in Nat, p.at >= 1,
         NEW q, q = P!UpTo(end, p)
  PROVE  /\ q \in P!Preparations /\ q.at \in 1..(end + 1) /\ q.at <= p.at
         /\ q.onPath => p.onPath /\ q.at = p.at
         /\ \A i \in 1..end : i \in Known(p) => i \in Known(q)
<1>1. /\ p = [by |-> p.by, at |-> p.at, onPath |-> p.onPath, covers |-> p.covers,
              dropped |-> p.dropped, missed |-> p.missed]
      /\ p.by \in Compactors /\ p.covers \subseteq Nat /\ p.dropped \subseteq Nat
      /\ p.missed \subseteq Nat /\ p.onPath \in BOOLEAN
  BY DEF P!Preparations
<1> DEFINE at == P!Min({p.at, end + 1})
<1>2. at \in {p.at, end + 1} /\ at <= p.at /\ at <= end + 1
  BY MinIsLeast
<1> HIDE DEF at
<1>3. PICK onPath \in BOOLEAN : onPath = (p.onPath /\ p.at <= end)
  OBVIOUS
<1>4. q = [by |-> p.by, at |-> at, onPath |-> onPath, covers |-> p.covers \intersect 1..end,
           dropped |-> p.dropped \intersect 1..end, missed |-> p.missed \intersect 1..end]
  BY <1>1, <1>3 DEF P!UpTo, at
<1>5. q.onPath => p.onPath /\ q.at = p.at
  <2> SUFFICES ASSUME q.onPath PROVE p.onPath /\ q.at = p.at
    OBVIOUS
  <2>1. q.onPath = onPath /\ q.at = at
    BY <1>4
  <2>2. p.onPath /\ p.at <= end
    BY <1>3, <2>1
  <2> QED BY <1>2, <2>1, <2>2
<1> QED BY <1>1, <1>2, <1>4, <1>5 DEF P!Preparations, Known

LEMMA NavigateStep ==
  ASSUME IInv, P!Navigate
  PROVE  IInv'
<1>1. P!TypeOK /\ Len(path) \in Nat /\ path \in Seq(P!Entries)
  BY DEF IInv, P!TypeOK
<1>2. PICK n \in 0..(Len(path) - 1) :
        /\ path' \in { SubSeq(path, 1, n),
                       Append(SubSeq(path, 1, n), P!Entry("branch_summary", 0)) }
        /\ running' = IF running = "no" THEN "no" ELSE "elsewhere"
        /\ preparing' = { P!UpTo(n, p) : p \in preparing }
  BY DEF P!Navigate
<1>3. PICK e : e = P!Entry("branch_summary", 0)
  OBVIOUS
<1>4. e \in P!Entries /\ e.kind = "branch_summary"
  BY <1>3 DEF P!Entry, P!Entries, P!Kind
<1>5. n \in Nat /\ n \in 0..Len(path) /\ n < Len(path)
  BY <1>1, <1>2
<1>6. PICK s \in Seq(P!Entries) : /\ s = SubSeq(path, 1, n) /\ Len(s) = n
                                  /\ \A i \in 1..n : s[i] = path[i]
  <2>1. SubSeq(path, 1, n) \in Seq(P!Entries)
    BY <1>1, <1>5
  <2>2. Len(SubSeq(path, 1, n)) = n /\ \A i \in 1..n : SubSeq(path, 1, n)[i] = path[i]
    BY <1>1, <1>5
  <2> QED BY <2>1, <2>2
<1>7. path' = s \/ path' = Append(s, e)
  BY <1>2, <1>3, <1>6
<1>8. KeepsPath(n) /\ (Len(path)' = n + 1 => path'[n + 1] = e)
  BY <1>4, <1>5, <1>6, <1>7 DEF KeepsPath
<1>9. Answers(n) /\ ~(Len(path)' = n + 1 /\ path'[n + 1].kind = "compaction")
  BY <1>4, <1>8 DEF Answers, Result
<1>10. running' \in {"no", "here", "elsewhere"} /\ RunningInv'
  BY <1>2 DEF RunningInv
<1>11. ASSUME NEW q \in preparing' PROVE q \in P!Preparations /\ PreparingOK(q)'
  <2>1. PICK p \in preparing : q = P!UpTo(n, p)
    BY <1>2
  <2>2. p \in P!Preparations /\ p.at \in Nat /\ p.at >= 1
    BY <1>1 DEF IInv, P!TypeOK, PreparingOK
  <2>3. /\ q \in P!Preparations /\ q.at \in 1..(n + 1) /\ q.at <= p.at
        /\ q.onPath => p.onPath /\ q.at = p.at
        /\ \A i \in 1..n : i \in Known(p) => i \in Known(q)
    BY <1>5, <2>1, <2>2, UpToFacts
  <2>4. KnownTo(q.at, q)'
    BY <1>5, <1>8, <2>3, KnownStays
  <2>5. q.onPath => KeepsCalls(q.at)'
    BY <1>5, <1>8, <1>9, <2>3, CallsStay
  <2>6. q.at \in 1..(Len(path)' + 1)
    BY <1>5, <1>8, <2>3 DEF KeepsPath
  <2> QED BY <2>3, <2>4, <2>5, <2>6 DEF PreparingOK
<1> QED BY <1>5, <1>8, <1>9, <1>10, <1>11, PathStep

LEMMA Initially == P!Init => IInv
<1> SUFFICES ASSUME P!Init PROVE IInv
  OBVIOUS
<1>1. path \in Seq(P!Entries) /\ Len(path) = 0 /\ running = "no" /\ preparing = {}
  BY DEF P!Init
<1>2. P!TypeOK
  BY <1>1 DEF P!TypeOK
<1>3. P!Compactions = {}
  BY <1>1 DEF P!Compactions
<1>4. KeepsCalls(1) /\ RunningInv
  BY <1>1 DEF KeepsCalls, RunningInv
<1> QED BY <1>1, <1>2, <1>3, <1>4 DEF IInv

LEMMA Inductive == IInv /\ [P!Next]_P!vars => IInv'
<1> SUFFICES ASSUME IInv, [P!Next]_P!vars PROVE IInv'
  OBVIOUS
<1>1. ASSUME NEW kind \in P!MessageKind, P!AppendMessage(kind) PROVE IInv'
  BY <1>1, AppendMessageStep
<1>2. CASE P!AppendEntry("custom_message") /\ running # "here"
  BY <1>2, AppendEntryStep
<1>3. CASE P!AppendEntry("note")
  BY <1>3, AppendEntryStep
<1>4. ASSUME NEW p \in preparing, P!AppendCompaction(p) PROVE IInv'
  BY <1>4, AppendCompactionStep
<1>5. ASSUME NEW by \in Compactors, P!Prepare(by) PROVE IInv'
  BY <1>5, PrepareStep
<1>6. ASSUME NEW p \in preparing, P!GiveUp(p) PROVE IInv'
  BY <1>6, GiveUpStep
<1>7. CASE P!Navigate
  BY <1>7, NavigateStep
<1>8. CASE UNCHANGED P!vars
  BY <1>8 DEF P!vars, IInv, P!TypeOK, P!Compactions, CompactionOK, PreparingOK, KnownTo, Known,
              KeepsCalls, Result, RunningInv, KeptBy, Call, Follows, P!HasMessage
<1> QED BY <1>1, <1>2, <1>3, <1>4, <1>5, <1>6, <1>7, <1>8 DEF P!Next

LEMMA Invariance == P!Spec => []IInv
<1>1. P!Init => IInv
  BY Initially
<1>2. IInv /\ [P!Next]_P!vars => IInv'
  BY Inductive
<1> QED BY <1>1, <1>2, PTL DEF P!Spec

(***************************************************************************)
(* The invariant says what the properties ask.                             *)
(***************************************************************************)
LEMMA LatestIsOK ==
  ASSUME IInv, P!Compactions # {}
  PROVE  CompactionOK(P!Latest) /\ path[P!Latest].kept \in Nat /\ path[P!Latest].kept >= 1
<1>1. P!Latest \in P!Compactions
  BY LatestIsCompaction DEF IInv
<1>2. P!Latest \in Nat /\ CompactionOK(P!Latest)
  BY <1>1 DEF IInv, P!TypeOK, P!Compactions
<1> QED BY <1>2 DEF CompactionOK

LEMMA CoveredOrSeen == IInv => P!NothingForgotten
<1> SUFFICES ASSUME IInv, NEW i \in P!Messages(1, Len(path)), i \notin P!Context
             PROVE  i \in Known(path[P!Latest])
  BY DEF P!NothingForgotten, Known
<1>1. Len(path) \in Nat /\ i \in 1..Len(path) /\ P!HasMessage(i)
  BY DEF IInv, P!TypeOK, P!Messages
<1>2. P!Compactions # {} /\ i \notin P!Messages(path[P!Latest].kept, Len(path))
  BY DEF P!Context
<1>3. CompactionOK(P!Latest) /\ path[P!Latest].kept \in Nat /\ path[P!Latest].kept >= 1
  BY <1>2, LatestIsOK
<1>4. i \in 1..(path[P!Latest].kept - 1)
  BY <1>1, <1>2, <1>3 DEF P!Messages
<1> QED BY <1>1, <1>3, <1>4 DEF CompactionOK, KnownTo

\* What the model sees begins with the entries a compaction keeps, and from there on the
\* results are with their calls.
LEMMA CallIsKept == IInv => P!ResultsKeepTheirCalls
<1> SUFFICES ASSUME IInv, NEW i \in P!Context, Result(i)
             PROVE  \E c \in P!Context : /\ c < i
                                       /\ path[c].kind = "toolCall"
                                       /\ \A j \in (c + 1)..(i - 1) : Follows(j)
  BY DEF P!ResultsKeepTheirCalls, Follows, Result
<1>1. Len(path) \in Nat
  BY DEF IInv, P!TypeOK
<1>2. PICK from \in Nat : /\ P!Context = P!Messages(from, Len(path)) /\ from >= 1
                          /\ KeepsCalls(from)
  <2>1. CASE P!Compactions = {}
    BY <2>1 DEF P!Context, IInv
  <2>2. CASE P!Compactions # {}
    BY <2>2, LatestIsOK DEF P!Context, CompactionOK
  <2> QED BY <2>1, <2>2
<1>3. i \in from..Len(path)
  BY <1>2 DEF P!Messages
<1>4. PICK c \in from..(i - 1) : Call(c, i - 1)
  BY <1>2, <1>3 DEF KeepsCalls
<1>5. path[c].kind = "toolCall" /\ \A j \in (c + 1)..(i - 1) : Follows(j)
  BY <1>4 DEF Call
<1>6. c \in P!Context /\ c < i
  BY <1>1, <1>2, <1>3, <1>4, <1>5 DEF P!Messages, P!HasMessage
<1> QED BY <1>5, <1>6

(***************************************************************************)
(* The file of a session: the invariant.  The lines that are there and those *)
(* that a call has still to write are, as sets, the entries in memory; a call *)
(* works on one file, cuts it off first if it does, and opens it last.     *)
(***************************************************************************)
\* What IndexLabel makes of the entries at the places k, taken in their order.
LabelsAt(entries, k) ==
  { entries[i].ref : i \in { i \in k :
      /\ entries[i].type = "label" /\ entries[i].set
      /\ \A j \in k : j > i /\ entries[j].type = "label" => entries[j].ref # entries[i].ref } }

KeptTo(n) == { line \in LinesTo(n) : line.type # "torn" }
WritesTo(n, f) == [cmd : {"append", "truncate", "open"}, file : 1..f, line : LinesTo(n),
                   path : SUBSET (1..n)]
ContentsTo(n) == { c \in [lines : Seq(LinesTo(n)), open : BOOLEAN] : c.open => c.lines # <<>> }

Counted == /\ lastId \in 0..MaxId /\ lastFile \in 0..MaxFile
           /\ flushed \in BOOLEAN /\ file \in 0..lastFile
DiskTyped == DOMAIN disk \subseteq 1..lastFile /\ disk \in [DOMAIN disk -> ContentsTo(lastId)]
TodoTyped == todo \in Seq(WritesTo(lastId, lastFile))
MemTyped == mem \in Seq(KeptTo(lastId)) /\ leaf \in Ids(mem) \cup {0}
Labelled == labels = LabelsAt(mem, DOMAIN mem)
Typed == Counted /\ DiskTyped /\ TodoTyped /\ MemTyped

\* A call cuts its file off first and opens it last, and works on one file.
InOneFile ==
  /\ file = 0 => mem = <<>> /\ todo = <<>>
  /\ \A i \in 1..Len(todo) :
       /\ todo[i].file = todo[Len(todo)].file
       /\ todo[i].cmd = "truncate" => i = 1
       /\ todo[i].cmd = "open" => i = Len(todo)
  /\ todo # <<>> => (todo[Len(todo)].cmd = "open" <=> todo[1].file # file)

Entries(lines) == { e \in ToSet(lines) : IsEntry(e) }
\* The lines that t will append to f, and whether it cuts f off before.
PendingTo(f, t) == { w.line : w \in { x \in ToSet(t) : x.cmd = "append" /\ x.file = f } }
Cuts(f, t) == t # <<>> /\ t[1].cmd = "truncate" /\ t[1].file = f

Pending == PendingTo(file, todo)
PendingEntries == { e \in Pending : IsEntry(e) }
CutsOff == Cuts(file, todo)

InMemory ==
  /\ file # 0 => mem # <<>> /\ mem[1].type = "session"
  /\ ~flushed => ~HasAssistant(mem)
WhileCutOff ==
  CutsOff => /\ flushed /\ Len(todo) >= 2 /\ todo[2].line.type = "session"
             /\ PendingEntries = Entries(mem)
             /\ Entries(Load(Content(file))) \subseteq Entries(mem)
WhileWhole ==
  file # 0 /\ ~CutsOff /\ Intact(file) =>
    LET lines == Content(file).lines
    IN  /\ Entries(lines) \cup PendingEntries \subseteq Entries(mem)
        /\ flushed => Entries(lines) \cup PendingEntries = Entries(mem)
        /\ lines # <<>> => lines[1].type = "session"
        /\ lines = <<>> /\ (flushed \/ Pending # {}) =>
             Pending # {} /\ todo[1].line.type = "session"
Keeps == InOneFile /\ InMemory /\ WhileCutOff /\ WhileWhole

(***************************************************************************)
(* Operators of Session that recurse or fold.                              *)
(***************************************************************************)
\* What holds of 0, and of n if it does of n - 1, holds up to m.
LEMMA Steps ==
  ASSUME NEW m \in Nat, NEW N, 0 \in N, \A n \in 1..m : n - 1 \in N => n \in N
  PROVE  \A n \in 0..m : n \in N
<1> DEFINE Rest == { n \in 0..m : n \notin N }
<1> SUFFICES ASSUME Rest # {} PROVE FALSE
  OBVIOUS
<1>1. PICK n \in Rest : \A k \in Rest : n <= k
  <2> Rest \in SUBSET Nat
    OBVIOUS
  <2> HIDE DEF Rest
  <2> QED BY LeastExists
<1>2. n \in 1..m /\ n - 1 \in 0..m /\ n - 1 \notin Rest
  BY <1>1
<1> QED BY <1>2

\* A recursion on 0..m, one step from each value to the next, has a solution.
LEMMA RecursionExists ==
  ASSUME NEW W, NEW b \in W, NEW m \in Nat, NEW F \in [1..m -> [W -> W]]
  PROVE  \E g \in [0..m -> W] : g[0] = b /\ \A n \in 1..m : g[n] = F[n][g[n - 1]]
<1> DEFINE Solved(k) == \E g \in [0..k -> W] :
                           g[0] = b /\ \A n \in 1..k : g[n] = F[n][g[n - 1]]
           N == { k \in 0..m : Solved(k) }
<1>1. 0 \in N
  <2> DEFINE g0 == [n \in 0..0 |-> b]
  <2>1. g0 \in [0..0 -> W] /\ g0[0] = b /\ 1..0 = {}
    OBVIOUS
  <2> HIDE DEF g0
  <2>2. Solved(0)
    BY <2>1
  <2> HIDE DEF Solved
  <2> QED BY <2>2
<1>2. ASSUME NEW k \in 1..m, k - 1 \in N
      PROVE  k \in N
  <2>1. PICK g \in [0..(k - 1) -> W] :
          g[0] = b /\ \A n \in 1..(k - 1) : g[n] = F[n][g[n - 1]]
    BY <1>2
  <2> DEFINE last == F[k][g[k - 1]]
             h == [n \in 0..k |-> IF n = k THEN last ELSE g[n]]
  <2>2. last \in W
    <3>1. g[k - 1] \in W /\ F[k] \in [W -> W]
      BY <2>1
    <3> QED BY <3>1
  <2>3. h \in [0..k -> W]
    BY <2>1, <2>2
  <2>4. h[0] = b
    BY <2>1
  <2>5. ASSUME NEW n \in 1..k
        PROVE  h[n] = F[n][h[n - 1]]
    <3>1. n - 1 \in 0..k /\ n - 1 # k /\ h[n - 1] = g[n - 1]
      OBVIOUS
    <3>2. CASE n = k
      <4>1. h[n] = last
        BY <3>2
      <4> HIDE DEF h
      <4> QED BY <3>1, <3>2, <4>1
    <3>3. CASE n # k
      <4>1. h[n] = g[n] /\ n \in 1..(k - 1)
        BY <3>3
      <4> HIDE DEF h
      <4> QED BY <3>1, <4>1, <2>1
    <3> QED BY <3>2, <3>3
  <2> HIDE DEF h
  <2>6. Solved(k)
    BY <2>3, <2>4, <2>5
  <2> HIDE DEF Solved
  <2> QED BY <2>6
<1>3. \A k \in 1..m : k - 1 \in N => k \in N
  BY <1>2
<1>4. \A k \in 0..m : k \in N
  <2> HIDE DEF N
  <2> QED BY <1>1, <1>3, Steps
<1> QED BY <1>4

\* What Those computes, prefix by prefix.
LEMMA ThoseSteps ==
  ASSUME NEW V, NEW s \in Seq(V), NEW T
  PROVE  \E g \in [0..Len(s) -> Seq(V)] :
           /\ Those(s, T) = g[Len(s)] /\ g[0] = <<>>
           /\ \A n \in 1..Len(s) :
                g[n] = IF s[n] \in T THEN Append(g[n - 1], s[n]) ELSE g[n - 1]
<1> DEFINE Step(g) == [n \in 0..Len(s) |->
                 IF n = 0 THEN <<>> ELSE IF s[n] \in T THEN Append(g[n - 1], s[n]) ELSE g[n - 1]]
           those == CHOOSE g : g = Step(g)
           F == [n \in 1..Len(s) |->
                  [kept \in Seq(V) |-> IF s[n] \in T THEN Append(kept, s[n]) ELSE kept]]
<1>1. Those(s, T) = those[Len(s)]
  BY Zenon DEF Those
<1>2. \E g : g = Step(g)
  <2>1. ASSUME NEW n \in 1..Len(s), NEW kept \in Seq(V)
        PROVE  Append(kept, s[n]) \in Seq(V)
    OBVIOUS
  <2>2. F \in [1..Len(s) -> [Seq(V) -> Seq(V)]]
    BY <2>1
  <2>3. <<>> \in Seq(V) /\ Len(s) \in Nat
    OBVIOUS
  <2>4. PICK g \in [0..Len(s) -> Seq(V)] :
          g[0] = <<>> /\ \A n \in 1..Len(s) : g[n] = F[n][g[n - 1]]
    <3> DEFINE W == Seq(V)
               l == Len(s)
               first == <<>>
    <3>1. first \in W /\ l \in Nat /\ F \in [1..l -> [W -> W]]
      BY <2>2, <2>3
    <3>2. \E g \in [0..l -> W] : g[0] = first /\ \A n \in 1..l : g[n] = F[n][g[n - 1]]
      <4> HIDE DEF F, Step, those, W, l, first
      <4> QED BY <3>1, RecursionExists
    <3> HIDE DEF F, Step, those
    <3> QED BY <3>2
  <2>5. g = Step(g)
    <3>1. ASSUME NEW n \in 1..Len(s)
          PROVE  g[n] = IF s[n] \in T THEN Append(g[n - 1], s[n]) ELSE g[n - 1]
      <4>1. n - 1 \in 0..Len(s)
        OBVIOUS
      <4>2. g[n - 1] \in Seq(V) /\ g[n] = F[n][g[n - 1]]
        <5> HIDE DEF F
        <5> QED BY <2>4, <4>1
      <4> HIDE DEF Step, those
      <4> QED BY <4>2
    <3>2. ASSUME NEW n \in 0..Len(s)
          PROVE  g[n] = IF n = 0 THEN <<>> ELSE
                   IF s[n] \in T THEN Append(g[n - 1], s[n]) ELSE g[n - 1]
      <4> HIDE DEF F, those, Step
      <4>1. CASE n = 0
        BY <2>4, <4>1
      <4>2. CASE n \in 1..Len(s)
        <5>1. n # 0
          BY <4>2
        <5>2. g[n] = IF s[n] \in T THEN Append(g[n - 1], s[n]) ELSE g[n - 1]
          BY <3>1, <4>2, Zenon
        <5> QED BY <5>1, <5>2, Zenon
      <4> QED BY <4>1, <4>2
    <3>3. g = [n \in 0..Len(s) |-> g[n]]
      <4> HIDE DEF F, those, Step
      <4> QED BY <2>4
    <3> HIDE DEF F, those
    <3> QED BY <3>2, <3>3
  <2> HIDE DEF Step
  <2> QED BY <2>5
<1>3. those = Step(those)
  <2> HIDE DEF Step
  <2> QED BY <1>2
<1>4. \A n \in 0..Len(s) :
        those[n] = IF n = 0 THEN <<>> ELSE
          IF s[n] \in T THEN Append(those[n - 1], s[n]) ELSE those[n - 1]
  <2> HIDE DEF those
  <2> QED BY <1>3
<1> HIDE DEF those, F
<1>4a. those[0] = <<>> /\ \A n \in 1..Len(s) :
        those[n] = IF s[n] \in T THEN Append(those[n - 1], s[n]) ELSE those[n - 1]
  BY <1>4
<1> DEFINE N == { m \in 0..Len(s) : those[m] \in Seq(V) }
<1>5. \A m \in 0..Len(s) : m \in N
  <2>1. 0 \in N
    <3>1. those[0] \in Seq(V)
      BY <1>4a
    <3> QED BY <3>1
  <2>2. ASSUME NEW m \in 1..Len(s), m - 1 \in N
        PROVE  m \in N
    <3>1. those[m - 1] \in Seq(V) /\ s[m] \in V
      BY <2>2
    <3>2. those[m] = IF s[m] \in T THEN Append(those[m - 1], s[m]) ELSE those[m - 1]
      BY <1>4a
    <3>3. those[m] \in Seq(V)
      BY <3>1, <3>2
    <3> QED BY <3>3
  <2>3. Len(s) \in Nat /\ \A m \in 1..Len(s) : m - 1 \in N => m \in N
    BY <2>2
  <2> HIDE DEF N
  <2> QED BY <2>1, <2>3, Steps
<1>6. those \in [0..Len(s) -> Seq(V)]
  <2>1. those = [n \in 0..Len(s) |-> those[n]]
    BY <1>3
  <2> QED BY <1>5, <2>1
<1> QED BY <1>1, <1>4a, <1>6

\* Nothing is passed over when all of s is in T.
LEMMA ThoseAll ==
  ASSUME NEW V, NEW s \in Seq(V), NEW T, \A n \in 1..Len(s) : s[n] \in T
  PROVE  Those(s, T) = s
<1>1. PICK g \in [0..Len(s) -> Seq(V)] :
           /\ Those(s, T) = g[Len(s)] /\ g[0] = <<>>
           /\ \A n \in 1..Len(s) :
                g[n] = IF s[n] \in T THEN Append(g[n - 1], s[n]) ELSE g[n - 1]
  BY ThoseSteps
<1> DEFINE N == { m \in 0..Len(s) : Len(g[m]) = m /\ \A i \in 1..m : g[m][i] = s[i] }
<1>2. 0 \in N
  BY <1>1
<1>3. ASSUME NEW m \in 1..Len(s), m - 1 \in N
      PROVE  m \in N
  <2>1. g[m] = Append(g[m - 1], s[m])
    BY <1>1
  <2>2. g[m - 1] \in Seq(V) /\ s[m] \in V
    OBVIOUS
  <2> QED BY <1>3, <2>1, <2>2
<1>4. \A m \in 0..Len(s) : m \in N
  <2>1. Len(s) \in Nat /\ \A m \in 1..Len(s) : m - 1 \in N => m \in N
    BY <1>3
  <2> HIDE DEF N
  <2> QED BY <1>2, <2>1, Steps
<1> QED BY <1>1, <1>4

\* What is kept was in s, and is in T.
LEMMA ThoseIn ==
  ASSUME NEW V, NEW s \in Seq(V), NEW T
  PROVE  Those(s, T) \in Seq(T \cap ToSet(s))
<1>1. PICK g \in [0..Len(s) -> Seq(V)] :
           /\ Those(s, T) = g[Len(s)] /\ g[0] = <<>>
           /\ \A n \in 1..Len(s) :
                g[n] = IF s[n] \in T THEN Append(g[n - 1], s[n]) ELSE g[n - 1]
  BY ThoseSteps
<1> DEFINE N == { m \in 0..Len(s) : g[m] \in Seq(T \cap ToSet(s)) }
<1>2. 0 \in N
  BY <1>1
<1>3. ASSUME NEW m \in 1..Len(s), m - 1 \in N
      PROVE  m \in N
  <2>1. g[m] = IF s[m] \in T THEN Append(g[m - 1], s[m]) ELSE g[m - 1]
    BY <1>1
  <2>2. s[m] \in ToSet(s)
    BY DEF ToSet
  <2>3. g[m] \in Seq(T \cap ToSet(s))
    <3> HIDE DEF N
    <3>1. g[m - 1] \in Seq(T \cap ToSet(s))
      BY <1>3 DEF N
    <3> QED BY <2>1, <2>2, <3>1
  <2> QED BY <2>3
<1>4. \A m \in 0..Len(s) : m \in N
  <2>1. Len(s) \in Nat /\ \A m \in 1..Len(s) : m - 1 \in N => m \in N
    BY <1>3
  <2> HIDE DEF N
  <2> QED BY <1>2, <2>1, Steps
<1> QED BY <1>1, <1>4

\* One round of getBranch's loop.
Longer(entries, i, found) ==
  LET next == { x \in ToSet(entries) :
                  IsEntry(x) /\ x.id = IF found = <<>> THEN i ELSE Head(found).parent }
  IN  IF next = {} THEN found ELSE <<CHOOSE x \in next : TRUE>> \o found

\* A branch is made of entries of the session.
LEMMA BranchOfEntries ==
  ASSUME NEW V, NEW entries \in Seq(V), NEW i
  PROVE  GetBranch(entries, i) \in Seq({ x \in ToSet(entries) : IsEntry(x) })
<1> DEFINE U == { x \in ToSet(entries) : IsEntry(x) }
           Step(g) == [n \in 0..MaxId |-> IF n = 0 THEN <<>> ELSE Longer(entries, i, g[n - 1])]
           walked == CHOOSE g : g = Step(g)
<1>0. MaxId \in Nat
  BY SessionAssumption
<1>1. GetBranch(entries, i) = walked[MaxId]
  BY Zenon DEF GetBranch, Longer
<1>2. ASSUME NEW found \in Seq(U)
      PROVE  Longer(entries, i, found) \in Seq(U)
  <2> DEFINE next == { x \in ToSet(entries) :
                  IsEntry(x) /\ x.id = IF found = <<>> THEN i ELSE Head(found).parent }
  <2>1. next \subseteq U
    OBVIOUS
  <2>2. Longer(entries, i, found) = IF next = {} THEN found
                                    ELSE <<CHOOSE x \in next : TRUE>> \o found
    BY DEF Longer
  <2> HIDE DEF next, U
  <2>3. CASE next = {}
    BY <2>2, <2>3
  <2>4. CASE next # {}
    <3>1. (CHOOSE x \in next : TRUE) \in U
      BY <2>1, <2>4
    <3> DEFINE x0 == CHOOSE x \in next : TRUE
    <3> HIDE DEF x0
    <3>2. <<x0>> \o found \in Seq(U)
      BY <3>1 DEF x0
    <3> QED BY <2>2, <2>4, <3>2 DEF x0
  <2> QED BY <2>3, <2>4
<1> HIDE DEF U
<1>3. \E g : g = Step(g)
  <2> DEFINE W == Seq(U)
             first == <<>>
             F == [n \in 1..MaxId |-> [found \in W |-> Longer(entries, i, found)]]
  <2>1. first \in W /\ F \in [1..MaxId -> [W -> W]]
    BY <1>2
  <2>2. PICK g \in [0..MaxId -> W] :
          g[0] = first /\ \A n \in 1..MaxId : g[n] = F[n][g[n - 1]]
    <3> HIDE DEF W, first, F, walked, Step
    <3> QED BY <1>0, <2>1, RecursionExists
  <2>3. ASSUME NEW n \in 1..MaxId
        PROVE  g[n] = Longer(entries, i, g[n - 1])
    <3>1. n - 1 \in 0..MaxId
      BY <1>0
    <3>2. g[n - 1] \in W /\ g[n] = F[n][g[n - 1]]
      <4> HIDE DEF F, W
      <4> QED BY <2>2, <3>1
    <3> HIDE DEF Step, walked, W
    <3> QED BY <3>2
  <2> HIDE DEF W, F, walked
  <2>4. g = Step(g)
    BY <1>0, <2>2, <2>3
  <2> HIDE DEF Step
  <2> QED BY <2>4
<1>4. walked = Step(walked)
  <2> HIDE DEF Step
  <2> QED BY <1>3
<1> HIDE DEF walked
<1>5. /\ walked = [n \in 0..MaxId |-> walked[n]]
      /\ walked[0] = <<>>
      /\ \A n \in 1..MaxId : walked[n] = Longer(entries, i, walked[n - 1])
  BY <1>0, <1>4
<1> DEFINE N == { n \in 0..MaxId : walked[n] \in Seq(U) }
<1>6. 0 \in N
  BY <1>0, <1>5
<1>7. ASSUME NEW n \in 1..MaxId, n - 1 \in N
      PROVE  n \in N
  <2>1. walked[n - 1] \in Seq(U)
    BY <1>7
  <2>2. walked[n] = Longer(entries, i, walked[n - 1])
    BY <1>5
  <2>3. walked[n] \in Seq(U)
    BY <1>2, <2>1, <2>2
  <2> QED BY <1>0, <2>3
<1>8. \A n \in 0..MaxId : n \in N
  <2>1. \A n \in 1..MaxId : n - 1 \in N => n \in N
    BY <1>7
  <2> HIDE DEF N
  <2> QED BY <1>0, <1>6, <2>1, Steps
<1> QED BY <1>0, <1>1, <1>8 DEF U

\* SetToSeq gives each element of a finite set a place.
LEMMA SetToSeqPlaces ==
  ASSUME NEW U, IsFiniteSet(U)
  PROVE  /\ SetToSeq(U) \in Seq(U)
         /\ Len(SetToSeq(U)) = Cardinality(U)
         /\ Cardinality(U) \in Nat
<1>1. Cardinality(U) \in Nat /\ ExistsBijection(1..Cardinality(U), U)
  BY FS_CardinalityType
<1>2. PICK f : f \in Bijection(1..Cardinality(U), U)
  BY <1>1 DEF ExistsBijection
<1>3. f \in [1..Cardinality(U) -> U] /\ IsInjective(f)
  BY <1>2 DEF Bijection, Injection, IsInjective, Surjection
<1>4. SetToSeq(U) \in [1..Cardinality(U) -> U]
  BY <1>3 DEF SetToSeq
<1> QED BY <1>1, <1>4

\* The last entry does to the labels what IndexLabel says.
LEMMA LastLabelled ==
  ASSUME NEW n \in Nat, NEW entries, DOMAIN entries = 1..n,
         NEW k \in SUBSET (1..n), NEW x \in k, \A j \in k : x >= j
  PROVE  LabelsAt(entries, k) = IndexLabel(LabelsAt(entries, k \ {x}), entries[x])
<1> DEFINE rest == k \ {x}
<1>1. \A j \in rest : j < x /\ j \in k
  OBVIOUS
<1>2. CASE entries[x].type # "label"
  <2>1. \A j \in k : entries[j].type = "label" <=> j \in rest /\ entries[j].type = "label"
    BY <1>2
  <2>2. { i \in k : /\ entries[i].type = "label" /\ entries[i].set
                    /\ \A j \in k : j > i /\ entries[j].type = "label"
                                      => entries[j].ref # entries[i].ref }
        = { i \in rest : /\ entries[i].type = "label" /\ entries[i].set
                         /\ \A j \in rest : j > i /\ entries[j].type = "label"
                                              => entries[j].ref # entries[i].ref }
    <3> HIDE DEF rest
    <3> QED BY <1>1, <2>1
  <2>3. LabelsAt(entries, k) = LabelsAt(entries, rest)
    BY <2>2, Zenon DEF LabelsAt
  <2> QED BY <1>2, <2>3 DEF IndexLabel
<1>3. CASE entries[x].type = "label" /\ entries[x].set
  <2>1. LabelsAt(entries, k) \subseteq LabelsAt(entries, rest) \cup {entries[x].ref}
    BY DEF LabelsAt
  <2>2. entries[x].ref \in LabelsAt(entries, k)
    <3>1. \A j \in k : ~(j > x)
      BY <1>1
    <3>2. x \in { i \in k : /\ entries[i].type = "label" /\ entries[i].set
                           /\ \A j \in k : j > i /\ entries[j].type = "label"
                                             => entries[j].ref # entries[i].ref }
      BY <1>3, <3>1
    <3> QED BY <3>2, Zenon DEF LabelsAt
  <2>3. LabelsAt(entries, rest) \subseteq LabelsAt(entries, k) \cup {entries[x].ref}
    BY <1>1 DEF LabelsAt
  <2> QED BY <1>3, <2>1, <2>2, <2>3 DEF IndexLabel
<1>4. CASE entries[x].type = "label" /\ ~entries[x].set
  <2>1. LabelsAt(entries, k) \subseteq LabelsAt(entries, rest)
    BY <1>4 DEF LabelsAt
  <2>2. entries[x].ref \notin LabelsAt(entries, k)
    BY <1>1, <1>4 DEF LabelsAt
  <2>3. LabelsAt(entries, rest) \subseteq LabelsAt(entries, k) \cup {entries[x].ref}
    BY <1>1 DEF LabelsAt
  <2> QED BY <1>4, <2>1, <2>2, <2>3 DEF IndexLabel
<1> QED BY <1>2, <1>3, <1>4

\* Read from a file, the labels are those their entries tell.
LEMMA LabelsFolded ==
  ASSUME NEW n \in Nat, NEW entries, DOMAIN entries = 1..n
  PROVE  LabelsOf(entries) = LabelsAt(entries, DOMAIN entries)
<1> DEFINE Step(g) == [k \in SUBSET (1..n) |->
             IF k = {} THEN {} ELSE IndexLabel(g[k \ {Max(k)}], entries[Max(k)])]
           folded == CHOOSE g : g = Step(g)
<1>1. LabelsOf(entries) = folded[1..n]
  BY Zenon DEF LabelsOf, FoldLeft, MapThenFoldSet
<1>2. ASSUME NEW k \in SUBSET (1..n), k # {}
      PROVE  Max(k) \in k /\ \A j \in k : Max(k) >= j
  <2> DEFINE above == { n - j : j \in k }
  <2>1. above \in SUBSET Nat /\ above # {}
    <3>1. PICK j \in k : TRUE
      BY <1>2
    <3>2. n - j \in above
      OBVIOUS
    <3>3. \A m \in 1..n : n - m \in Nat
      OBVIOUS
    <3> QED BY <3>2, <3>3
  <2>2. PICK a \in above : \A b \in above : a <= b
    <3> HIDE DEF above
    <3> QED BY <2>1, LeastExists
  <2>3. PICK x \in k : a = n - x
    BY <2>2
  <2>4. ASSUME NEW j \in k PROVE x >= j
    <3>1. n - j \in above
      OBVIOUS
    <3>2. n - x <= n - j /\ x \in 1..n /\ j \in 1..n
      BY <2>2, <2>3, <3>1
    <3> QED BY <3>2
  <2> QED BY <2>4 DEF Max
<1>3. \E g : g = Step(g)
  <2> DEFINE g == [k \in SUBSET (1..n) |-> LabelsAt(entries, k)]
  <2>1. ASSUME NEW k \in SUBSET (1..n)
        PROVE  g[k] = IF k = {} THEN {} ELSE IndexLabel(g[k \ {Max(k)}], entries[Max(k)])
    <3>1. CASE k = {}
      BY <3>1 DEF LabelsAt
    <3>2. CASE k # {}
      <4>1. Max(k) \in k /\ \A j \in k : Max(k) >= j
        BY <1>2, <3>2
      <4>2. g[k \ {Max(k)}] = LabelsAt(entries, k \ {Max(k)}) /\ g[k] = LabelsAt(entries, k)
        OBVIOUS
      <4> HIDE DEF g
      <4>3. LabelsAt(entries, k) = IndexLabel(LabelsAt(entries, k \ {Max(k)}), entries[Max(k)])
        BY <4>1, LastLabelled
      <4> QED BY <3>2, <4>2, <4>3
    <3> QED BY <3>1, <3>2
  <2>2. g = [k \in SUBSET (1..n) |-> g[k]]
    OBVIOUS
  <2> HIDE DEF g, folded
  <2>3. g = Step(g)
    BY <2>1, <2>2
  <2> HIDE DEF Step
  <2> QED BY <2>3
<1>4. folded = Step(folded)
  <2> HIDE DEF Step
  <2> QED BY <1>3
<1> HIDE DEF folded
<1>5. \A k \in SUBSET (1..n) :
        folded[k] = IF k = {} THEN {} ELSE IndexLabel(folded[k \ {Max(k)}], entries[Max(k)])
  BY <1>4
<1> DEFINE N == { m \in 0..n : folded[1..m] = LabelsAt(entries, 1..m) }
<1>6. 0 \in N
  <2>1. 1..0 = {} /\ 1..0 \in SUBSET (1..n)
    OBVIOUS
  <2>2. folded[1..0] = {} /\ LabelsAt(entries, 1..0) = {}
    <3>1. folded[{}] = {} /\ LabelsAt(entries, {}) = {}
      <4>1. {} \in SUBSET (1..n)
        OBVIOUS
      <4>2. folded[{}] = {}
        BY <1>5, <4>1, Zenon
      <4> QED BY <4>2 DEF LabelsAt
    <3> QED BY <2>1, <3>1
  <2>3. 0 \in 0..n
    OBVIOUS
  <2> QED BY <2>2, <2>3, Zenon
<1>7. ASSUME NEW m \in 1..n, m - 1 \in N
      PROVE  m \in N
  <2> DEFINE k == 1..m
  <2>1. k \in SUBSET (1..n) /\ k # {} /\ m \in k /\ \A j \in k : m >= j
    <3>1. m \in k
      OBVIOUS
    <3>2. \A j \in k : m >= j /\ j \in 1..n
      OBVIOUS
    <3> QED BY <3>1, <3>2
  <2>2. Max(k) = m
    <3>1. Max(k) \in k /\ \A j \in k : Max(k) >= j
      BY <1>2, <2>1
    <3> QED BY <2>1, <3>1
  <2>3. k \ {m} = 1..(m - 1)
    OBVIOUS
  <2>4. folded[k] = IndexLabel(folded[k \ {m}], entries[m])
    BY <1>5, <2>1, <2>2
  <2>5. LabelsAt(entries, k) = IndexLabel(LabelsAt(entries, k \ {m}), entries[m])
    BY <2>1, LastLabelled
  <2>6. folded[k \ {m}] = LabelsAt(entries, k \ {m})
    BY <1>7, <2>3
  <2>7. folded[k] = LabelsAt(entries, k)
    <3> HIDE DEF k
    <3> QED BY <2>4, <2>5, <2>6
  <2> QED BY <2>7
<1>8. \A m \in 0..n : m \in N
  <2>1. \A m \in 1..n : m - 1 \in N => m \in N
    BY <1>7
  <2> HIDE DEF N
  <2> QED BY <1>6, <2>1, Steps
<1> QED BY <1>1, <1>8

(***************************************************************************)
(* What is read, and what is written.                                      *)
(***************************************************************************)
\* What there can be when n is the last id, there can be when n is more.
LEMMA SeqGrows ==
  ASSUME NEW A, NEW B, A \subseteq B, NEW s \in Seq(A)
  PROVE  s \in Seq(B)
OBVIOUS

LEMMA LinesGrow ==
  ASSUME NEW m \in Nat, NEW n \in Nat, m <= n, NEW f \in Nat, NEW g \in Nat, f <= g
  PROVE  /\ LinesTo(m) \subseteq LinesTo(n)
         /\ KeptTo(m) \subseteq KeptTo(n)
         /\ WritesTo(m, f) \subseteq WritesTo(n, g)
         /\ ContentsTo(m) \subseteq ContentsTo(n)
<1>1. 0..m \subseteq 0..n /\ 1..m \subseteq 1..n /\ 1..f \subseteq 1..g
  OBVIOUS
<1>2. LinesTo(m) \subseteq LinesTo(n)
  BY <1>1 DEF LinesTo
<1>3. WritesTo(m, f) \subseteq WritesTo(n, g)
  BY <1>1, <1>2 DEF WritesTo
<1>4. ContentsTo(m) \subseteq ContentsTo(n)
  BY <1>2 DEF ContentsTo
<1> QED BY <1>2, <1>3, <1>4 DEF KeptTo

\* An intact file is read as it is; of another, lines are left out.
LEMMA LoadFacts ==
  ASSUME NEW n \in Nat, NEW c \in ContentsTo(n)
  PROVE  /\ Load(c) \in Seq(KeptTo(n))
         /\ ToSet(Load(c)) \subseteq ToSet(c.lines)
         /\ Load(c) # <<>> => Load(c)[1].type = "session"
         /\ (\A line \in ToSet(c.lines) : line.type # "torn") =>
              Load(c) = IF c.lines # <<>> /\ c.lines[1].type = "session" THEN c.lines ELSE <<>>
<1> DEFINE T == { line \in ToSet(c.lines) : Parses(line) }
           kept == Those(c.lines, T)
<1>0. c.lines \in Seq(LinesTo(n))
  BY DEF ContentsTo
<1>1. T \cap ToSet(c.lines) \subseteq KeptTo(n)
  BY <1>0 DEF ToSet, Parses, KeptTo
<1>2. kept \in Seq(T \cap ToSet(c.lines))
  <2> HIDE DEF T
  <2> QED BY <1>0, ThoseIn
<1>3. kept \in Seq(KeptTo(n)) /\ ToSet(kept) \subseteq ToSet(c.lines)
  <2> HIDE DEF kept, T
  <2> QED BY <1>1, <1>2 DEF ToSet
<1>4. Load(c) = IF kept # <<>> /\ Head(kept).type = "session" THEN kept ELSE <<>>
  BY DEF Load
<1>5. ASSUME \A line \in ToSet(c.lines) : line.type # "torn"
      PROVE  kept = c.lines
  <2>1. \A i \in 1..Len(c.lines) : c.lines[i] \in T
    BY <1>0, <1>5 DEF ToSet, Parses
  <2> HIDE DEF T
  <2> QED BY <1>0, <2>1, ThoseAll
<1> HIDE DEF kept
<1>6. /\ Load(c) \in Seq(KeptTo(n))
      /\ ToSet(Load(c)) \subseteq ToSet(c.lines)
      /\ Load(c) # <<>> => Load(c)[1].type = "session"
  BY <1>3, <1>4 DEF ToSet
<1>7. ASSUME \A line \in ToSet(c.lines) : line.type # "torn"
      PROVE  Load(c) = IF c.lines # <<>> /\ c.lines[1].type = "session" THEN c.lines ELSE <<>>
  BY <1>0, <1>4, <1>5, <1>7
<1> QED BY <1>6, <1>7

\* The header, and the line that a crash leaves.
LEMMA HeaderTyped ==
  ASSUME NEW n \in Nat
  PROVE  Header \in KeptTo(n) /\ TornLine \in LinesTo(n)
BY SessionAssumption DEF Header, TornLine, Line, KeptTo, LinesTo, Types, CURRENT_SESSION_VERSION

\* The ids of a session's entries.
LEMMA IdsTyped ==
  ASSUME NEW n \in Nat, NEW entries \in Seq(KeptTo(n))
  PROVE  /\ Ids(entries) \subseteq 1..n
         /\ ToSet(entries) \subseteq KeptTo(n)
         /\ IsFiniteSet(Ids(entries))
<1>1. ToSet(entries) \subseteq KeptTo(n)
  BY DEF ToSet
<1>2. Ids(entries) \subseteq 1..n
  BY <1>1 DEF Ids, IsEntry, KeptTo, LinesTo, Types
<1>3. IsFiniteSet(1..n)
  BY FS_Interval
<1> QED BY <1>1, <1>2, <1>3, FS_Subset

\* createBranchedSession's entries: the new labels have the ids after the last.
LEMMA BranchedFacts ==
  ASSUME lastId \in 0..MaxId, NEW source \in Seq(KeptTo(lastId)), NEW i,
         NEW route, route = GetBranch(source, i),
         NEW branched, branched = BranchedEntries(source, route),
         NEW n, n = lastId + Cardinality(Ids(branched) \ Ids(route)), n <= MaxId
  PROVE  /\ n \in Nat /\ lastId <= n
         /\ branched \in Seq(KeptTo(n))
         /\ branched # <<>> /\ branched[1] = Header
         /\ route \in Seq(KeptTo(lastId))
<1> DEFINE U == { x \in ToSet(source) : IsEntry(x) }
           NotLabels == { e \in ToSet(route) : e.type # "label" }
           kept == Those(route, NotLabels)
           labelled == SetToSeq(LabelsOf(source) \cap Ids(kept))
           Parent(j) == IF j > 1 THEN lastId + j - 1 ELSE IF kept = <<>> THEN 0 ELSE Last(kept).id
           new == [j \in DOMAIN labelled |->
                    Line("label", lastId + j, Parent(j), labelled[j], TRUE)]
<1>0. lastId \in Nat /\ MaxId \in Nat /\ lastId <= MaxId
  BY SessionAssumption
<1>1. route \in Seq(KeptTo(lastId))
  <2>1. route \in Seq(U)
    BY BranchOfEntries
  <2>2. U \subseteq KeptTo(lastId)
    BY <1>0, IdsTyped
  <2> HIDE DEF U
  <2> QED BY <2>1, <2>2
<1>2. kept \in Seq(KeptTo(lastId)) /\ ToSet(kept) \subseteq ToSet(route)
  <2>1. kept \in Seq(NotLabels \cap ToSet(route))
    <3> HIDE DEF NotLabels
    <3> QED BY <1>1, ThoseIn
  <2>2. NotLabels \cap ToSet(route) \subseteq KeptTo(lastId)
    BY <1>0, <1>1, IdsTyped
  <2> HIDE DEF kept, NotLabels
  <2> QED BY <2>1, <2>2 DEF ToSet
<1>3. branched = <<Header>> \o kept \o new
  BY DEF BranchedEntries
<1> DEFINE L == LabelsOf(source) \cap Ids(kept)
<1>4. /\ IsFiniteSet(L) /\ L \subseteq 1..lastId
  <2>1. Ids(kept) \subseteq 1..lastId /\ IsFiniteSet(Ids(kept))
    <3> HIDE DEF kept
    <3> QED BY <1>0, <1>2, IdsTyped
  <2> HIDE DEF kept
  <2> QED BY <2>1, FS_Subset
<1>5. /\ labelled \in Seq(L) /\ Len(labelled) \in Nat
  <2> HIDE DEF L
  <2>1. SetToSeq(L) \in Seq(L)
    BY <1>4, SetToSeqPlaces
  <2>2. Len(SetToSeq(L)) \in Nat
    BY <2>1
  <2> USE DEF L
  <2> QED BY <2>1, <2>2
<1> DEFINE m == Len(labelled)
<1>6. ASSUME NEW j \in 1..m
      PROVE  new[j] \in [type : {"label"}, id : {lastId + j}, parent : 0..(lastId + m),
                         ref : 1..lastId, set : BOOLEAN]
  <2>1. labelled[j] \in L /\ j \in DOMAIN labelled
    <3> HIDE DEF labelled, L
    <3> QED BY <1>5
  <2>2. kept # <<>> => Last(kept).id \in 0..lastId
    <3> HIDE DEF kept
    <3>1. kept # <<>> => Last(kept) \in KeptTo(lastId)
      BY <1>2 DEF Last
    <3> QED BY <3>1 DEF KeptTo, LinesTo
  <2>3. Parent(j) \in 0..(lastId + m)
    <3> HIDE DEF kept, labelled
    <3> QED BY <1>0, <1>5, <2>2
  <2>4. new[j] = [type |-> "label", id |-> lastId + j, parent |-> Parent(j),
                  ref |-> labelled[j], set |-> TRUE]
    <3> HIDE DEF labelled, Parent
    <3> QED BY <2>1 DEF Line
  <2>5. labelled[j] \in 1..lastId
    <3> HIDE DEF L, labelled
    <3> QED BY <1>4, <2>1
  <2> DEFINE parent == Parent(j)
  <2> HIDE DEF parent, new, labelled
  <2>6. parent \in 0..(lastId + m)
    BY <2>3 DEF parent
  <2>7. new[j] = [type |-> "label", id |-> lastId + j, parent |-> parent,
                  ref |-> labelled[j], set |-> TRUE]
    BY <2>4 DEF parent
  <2> QED BY <2>5, <2>6, <2>7
<1>7. new = [j \in 1..m |-> new[j]] /\ m \in Nat
  <2>1. DOMAIN labelled = 1..m /\ m \in Nat
    <3> HIDE DEF labelled, L
    <3> QED BY <1>5
  <2>2. new = [j \in DOMAIN labelled |-> new[j]]
    <3> HIDE DEF labelled, Parent
    <3> QED OBVIOUS
  <2> HIDE DEF labelled, new
  <2> QED BY <2>1, <2>2
<1> HIDE DEF new, labelled, L, kept, Parent
<1>8. n = lastId + m
  <2> DEFINE NewIds == (lastId + 1)..(lastId + m)
  <2>1. new \in Seq({ new[j] : j \in 1..m }) /\ ToSet(new) = { new[j] : j \in 1..m }
    BY <1>5, <1>7 DEF ToSet
  <2>2. ToSet(branched) = {Header} \cup ToSet(kept) \cup ToSet(new)
    <3> DEFINE V == {Header} \cup ToSet(kept) \cup ToSet(new)
    <3>1. <<Header>> \in Seq(V) /\ kept \in Seq(V) /\ new \in Seq(V)
      BY <1>2, <2>1 DEF ToSet
    <3>2. \A s, t \in Seq(V) : ToSet(s \o t) = ToSet(s) \cup ToSet(t)
      <4> SUFFICES ASSUME NEW s \in Seq(V), NEW t \in Seq(V)
                   PROVE  ToSet(s \o t) = ToSet(s) \cup ToSet(t)
        OBVIOUS
      <4> HIDE DEF V
      <4>1. Range(s \o t) = Range(s) \cup Range(t)
        BY RangeConcatenation
      <4> QED BY <4>1 DEF ToSet, Range
    <3>3. <<Header>> \o kept \in Seq(V) /\ ToSet(<<Header>>) = {Header}
      <4> HIDE DEF V
      <4> QED BY <3>1 DEF ToSet
    <3> HIDE DEF V
    <3> QED BY <1>3, <3>1, <3>2, <3>3
  <2>3. Ids(branched) = Ids(kept) \cup { x.id : x \in ToSet(new) }
    <3>1. ~IsEntry(Header)
      BY DEF IsEntry, Header, Line
    <3>2. \A x \in ToSet(new) : IsEntry(x)
      <4>1. \A j \in 1..m : new[j].type = "label"
        BY <1>6
      <4> QED BY <2>1, <4>1 DEF IsEntry
    <3> QED BY <2>2, <3>1, <3>2 DEF Ids
  <2>4. { x.id : x \in ToSet(new) } = NewIds
    <3>1. \A j \in 1..m : new[j].id = lastId + j
      BY <1>6
    <3>2. ASSUME NEW k \in NewIds PROVE k \in { x.id : x \in ToSet(new) }
      <4>1. k - lastId \in 1..m /\ new[k - lastId].id = k
        BY <1>0, <1>5, <3>1
      <4> QED BY <2>1, <4>1
    <3>3. \A j \in 1..m : lastId + j \in NewIds
      BY <1>0, <1>5
    <3>4. { x.id : x \in ToSet(new) } = { new[j].id : j \in 1..m }
      BY <2>1
    <3> HIDE DEF NewIds
    <3> QED BY <3>1, <3>2, <3>3, <3>4
  <2>5. Ids(kept) \subseteq Ids(route) /\ Ids(route) \subseteq 1..lastId
    BY <1>0, <1>1, <1>2, IdsTyped DEF Ids
  <2>6. Ids(branched) \ Ids(route) = NewIds
    <3>1. NewIds \cap (1..lastId) = {}
      BY <1>0, <1>5
    <3> HIDE DEF NewIds
    <3> QED BY <2>3, <2>4, <2>5, <3>1
  <2>7. Cardinality(NewIds) = m
    <3>1. lastId + 1 \in Int /\ lastId + m \in Int
      BY <1>0, <1>5
    <3>2. Cardinality(NewIds) = IF lastId + 1 > lastId + m THEN 0
                                ELSE (lastId + m) - (lastId + 1) + 1
      BY <3>1, FS_Interval
    <3> HIDE DEF NewIds
    <3> QED BY <1>0, <1>5, <3>2
  <2> HIDE DEF NewIds
  <2> QED BY <2>6, <2>7
<1>9. n \in Nat /\ lastId <= n
  BY <1>0, <1>5, <1>8
<1>10. new \in Seq(KeptTo(n))
  <2>1. ASSUME NEW j \in 1..m PROVE new[j] \in KeptTo(n)
    <3>1. /\ lastId + j \in 1..n /\ 1..lastId \subseteq 1..n
          /\ 1..lastId \subseteq 0..(MaxId + 3) /\ 0..(lastId + m) = 0..n
      <4> HIDE DEF m
      <4>1. lastId + j \in 1..n /\ lastId <= n
        BY <1>0, <1>7, <1>8
      <4>2. 1..lastId \subseteq 0..(MaxId + 3)
        BY <1>0
      <4>3. 1..lastId \subseteq 1..n
        BY <1>0, <1>9, <4>1
      <4>4. 0..(lastId + m) = 0..n
        BY <1>8
      <4> QED BY <4>1, <4>2, <4>3, <4>4
    <3>2. new[j] \in [type : {"label"}, id : {lastId + j}, parent : 0..(lastId + m),
                      ref : 1..lastId, set : BOOLEAN]
      BY <1>6
    <3> QED BY <1>9, <3>1, <3>2 DEF KeptTo, LinesTo, Types
  <2> HIDE DEF m
  <2>2. new = [j \in 1..m |-> new[j]]
    BY <1>7
  <2>3. new \in [1..m -> KeptTo(n)]
    BY <2>1, <2>2
  <2>4. \A A : \A k \in Nat : \A t \in [1..k -> A] : t \in Seq(A)
    OBVIOUS
  <2> QED BY <1>7, <2>3, <2>4, Zenon
<1>11. <<Header>> \in Seq(KeptTo(n)) /\ kept \in Seq(KeptTo(n))
  <2>1. KeptTo(lastId) \subseteq KeptTo(n) /\ Header \in KeptTo(n)
    <3>1. 0 \in Nat /\ 0 <= 0
      OBVIOUS
    <3> QED BY <1>0, <1>9, <3>1, LinesGrow, HeaderTyped
  <2>2. <<Header>> \in Seq(KeptTo(n))
    BY <2>1
  <2>3. kept \in Seq(KeptTo(n))
    BY <1>2, <2>1, SeqGrows
  <2> QED BY <2>2, <2>3
<1>12. branched \in Seq(KeptTo(n)) /\ branched # <<>> /\ branched[1] = Header
  BY <1>3, <1>10, <1>11
<1> QED BY <1>1, <1>9, <1>12

\* What is to be written is typed, and in order.
LEMMA AppendsFacts ==
  ASSUME NEW n \in Nat, NEW g \in Nat, NEW f \in 1..g, NEW lines \in Seq(LinesTo(n))
  PROVE  /\ Appends(f, lines) \in Seq(WritesTo(n, g))
         /\ Len(Appends(f, lines)) = Len(lines)
         /\ \A i \in 1..Len(lines) :
              /\ Appends(f, lines)[i].cmd = "append" /\ Appends(f, lines)[i].file = f
              /\ Appends(f, lines)[i].line = lines[i]
<1> DEFINE w(i) == [cmd |-> "append", file |-> f, line |-> lines[i], path |-> {}]
<1>1. \A i \in 1..Len(lines) : w(i) \in WritesTo(n, g)
  BY DEF WritesTo
<1>2. Appends(f, lines) = [i \in 1..Len(lines) |-> w(i)]
  BY DEF Appends
<1> QED BY <1>1, <1>2

LEMMA RewriteFacts ==
  ASSUME NEW n \in Nat, NEW g \in Nat, NEW f \in 1..g, NEW lines \in Seq(LinesTo(n))
  PROVE  /\ Rewrite(f, lines) \in Seq(WritesTo(n, g))
         /\ Len(Rewrite(f, lines)) = Len(lines) + 1
         /\ Rewrite(f, lines)[1].cmd = "truncate" /\ Rewrite(f, lines)[1].file = f
         /\ \A i \in 2..(Len(lines) + 1) :
              /\ Rewrite(f, lines)[i].cmd = "append" /\ Rewrite(f, lines)[i].file = f
              /\ Rewrite(f, lines)[i].line = lines[i - 1]
<1> DEFINE cut == [cmd |-> "truncate", file |-> f, line |-> TornLine, path |-> {}]
<1>1. cut \in WritesTo(n, g)
  BY HeaderTyped DEF WritesTo
<1>2. Rewrite(f, lines) = <<cut>> \o Appends(f, lines)
  BY DEF Rewrite
<1>3. cut.cmd = "truncate" /\ cut.file = f
  OBVIOUS
<1> HIDE DEF cut
<1>4. \A i \in 2..(Len(lines) + 1) : i - 1 \in 1..Len(lines)
  OBVIOUS
<1> QED BY <1>1, <1>2, <1>3, <1>4, AppendsFacts

LEMMA OpenFacts ==
  ASSUME NEW n \in Nat, NEW g \in Nat, NEW f \in 1..g, NEW p \in SUBSET (1..n)
  PROVE  /\ Open(f, p) \in Seq(WritesTo(n, g)) /\ Len(Open(f, p)) = 1
         /\ Open(f, p)[1].cmd = "open" /\ Open(f, p)[1].file = f
BY HeaderTyped DEF Open, WritesTo

\* What is on the disk, and what Put changes of it.
LEMMA ContentTyped ==
  ASSUME Typed, NEW f
  PROVE  Content(f) \in ContentsTo(lastId)
BY DEF Typed, DiskTyped, Content, NoFile, ContentsTo

LEMMA PutTyped ==
  ASSUME Typed, NEW f \in 1..lastFile, NEW c \in ContentsTo(lastId), Put(f, c)
  PROVE  /\ DOMAIN disk' \subseteq 1..lastFile /\ disk' \in [DOMAIN disk' -> ContentsTo(lastId)]
         /\ Content(f)' = c
         /\ \A g : g # f => Content(g)' = Content(g)
BY DEF Typed, DiskTyped, Put, Content

\* A line goes after the others, or is lost with the one that was cut off.
LEMMA WriteLineFacts ==
  ASSUME NEW n \in Nat, NEW c \in ContentsTo(n), NEW line \in LinesTo(n)
  PROVE  /\ WriteLine(c, line) \in ContentsTo(n)
         /\ WriteLine(c, line).lines # <<>>
         /\ [lines |-> WriteLine(c, line).lines, open |-> TRUE] \in ContentsTo(n)
         /\ c.open => TornLine \in ToSet(WriteLine(c, line).lines)
         /\ ~c.open => WriteLine(c, line).lines = Append(c.lines, line)
<1>1. c.lines \in Seq(LinesTo(n)) /\ (c.open => c.lines # <<>>) /\ TornLine \in LinesTo(n)
  BY HeaderTyped DEF ContentsTo
<1>2. CASE c.open
  <2> DEFINE rest == Front(c.lines)
  <2>1. rest \in Seq(LinesTo(n))
    BY <1>1, <1>2 DEF Front
  <2>2. WriteLine(c, line) = [lines |-> Append(rest, TornLine), open |-> FALSE]
    BY <1>2 DEF WriteLine
  <2> HIDE DEF rest
  <2>3. Append(rest, TornLine) \in Seq(LinesTo(n)) /\ Append(rest, TornLine) # <<>>
    BY <1>1, <2>1
  <2>4. TornLine \in ToSet(Append(rest, TornLine))
    <3>1. Append(rest, TornLine)[Len(rest) + 1] = TornLine
      BY <1>1, <2>1
    <3>2. Len(rest) + 1 \in DOMAIN Append(rest, TornLine)
      BY <1>1, <2>1
    <3> QED BY <3>1, <3>2 DEF ToSet
  <2> QED BY <1>2, <2>2, <2>3, <2>4 DEF ContentsTo
<1>3. CASE ~c.open
  <2>1. WriteLine(c, line) = [lines |-> Append(c.lines, line), open |-> FALSE]
    BY <1>3 DEF WriteLine, ContentsTo
  <2>2. \A s \in Seq(LinesTo(n)) :
          Append(s, line) \in Seq(LinesTo(n)) /\ Append(s, line) # <<>>
    OBVIOUS
  <2> DEFINE s == c.lines
  <2> HIDE DEF s
  <2>3. Append(s, line) \in Seq(LinesTo(n)) /\ Append(s, line) # <<>>
    BY <1>1, <2>2 DEF s
  <2>4. WriteLine(c, line) = [lines |-> Append(s, line), open |-> FALSE]
    BY <2>1 DEF s
  <2> QED BY <1>3, <2>3, <2>4 DEF ContentsTo, s
<1> QED BY <1>2, <1>3

\* The program starts, and the file it may find is typed.
LEMMA InitTyped == Init => Typed /\ Labelled
<1> SUFFICES ASSUME Init PROVE Typed /\ Labelled
  OBVIOUS
<1>1. todo = <<>> /\ mem = <<>> /\ leaf = 0 /\ labels = {} /\ flushed = FALSE /\ file = 0
  BY DEF Init
<1>2. Labelled
  BY <1>1 DEF Labelled, LabelsAt
<1>2a. TodoTyped /\ MemTyped
  <2>1. \A V : <<>> \in Seq(V)
    OBVIOUS
  <2> QED BY <1>1, <2>1 DEF TodoTyped, MemTyped
<1>3. CASE disk \in [{1} -> Found]
  <2>1. DOMAIN disk = {1} /\ disk[1] \in Found
    BY <1>3
  <2>2. lastFile = 1
    BY <2>1, FS_Singleton DEF Init
  <2>3. lastId = Cardinality(Ids(disk[1].lines))
    BY <2>1 DEF Init
  <2>4. disk[1] \in ContentsTo(lastId) /\ lastId \in 0..MaxId
    BY <2>1, <2>3, SessionAssumption DEF ContentsTo
  <2>5. disk = [f \in DOMAIN disk |-> disk[f]]
    BY <1>3
  <2>6. DOMAIN disk \subseteq 1..lastFile /\ disk \in [DOMAIN disk -> ContentsTo(lastId)]
    BY <2>1, <2>2, <2>4, <2>5
  <2>7. lastFile \in 0..MaxFile
    BY <2>2, SessionAssumption
  <2>8. Counted
    <3>1. flushed \in BOOLEAN
      BY <1>1, Zenon
    <3> QED BY <1>1, <2>2, <2>4, <2>7, <3>1 DEF Counted
  <2> QED BY <1>2, <1>2a, <2>6, <2>8 DEF Typed, DiskTyped
<1>4. CASE disk \in {[f \in {} |-> NoFile]}
  <2>1. DOMAIN disk = {} /\ disk = [f \in DOMAIN disk |-> disk[f]]
    BY <1>4
  <2>2. lastFile = 0 /\ lastId = 0
    BY <2>1, FS_EmptySet DEF Init
  <2>3. Counted
    <3>1. flushed \in BOOLEAN
      BY <1>1, Zenon
    <3> QED BY <1>1, <2>2, <3>1, SessionAssumption DEF Counted
  <2>4. DiskTyped
    BY <2>1 DEF DiskTyped
  <2> QED BY <1>2, <1>2a, <2>3, <2>4 DEF Typed
<1> QED BY <1>3, <1>4 DEF Init

\* One entry more in memory: its id, and its label.
LEMMA MemoryFacts ==
  ASSUME NEW n \in Nat, NEW entries \in Seq(KeptTo(n)), NEW e \in KeptTo(n)
  PROVE  /\ Append(entries, e) \in Seq(KeptTo(n))
         /\ ToSet(Append(entries, e)) = ToSet(entries) \cup {e}
         /\ IsEntry(e) => e.id \in Ids(Append(entries, e))
         /\ Append(entries, e) # <<>>
         /\ entries # <<>> => Append(entries, e)[1] = entries[1]
         /\ LabelsAt(Append(entries, e), DOMAIN Append(entries, e)) =
              IndexLabel(LabelsAt(entries, DOMAIN entries), e)
<1> DEFINE more == Append(entries, e)
<1>1. /\ more \in Seq(KeptTo(n)) /\ Len(more) = Len(entries) + 1
      /\ \A i \in 1..Len(entries) : more[i] = entries[i]
      /\ more[Len(entries) + 1] = e
  OBVIOUS
<1> HIDE DEF more
<1>2. ToSet(more) = ToSet(entries) \cup {e}
  <2>1. \A i \in 1..Len(more) : i \in 1..Len(entries) \/ i = Len(entries) + 1
    BY <1>1
  <2>2. \A i \in 1..Len(entries) : i \in 1..Len(more)
    BY <1>1
  <2>3. Len(entries) + 1 \in 1..Len(more)
    BY <1>1
  <2> QED BY <1>1, <2>1, <2>2, <2>3 DEF ToSet
<1>3. LabelsAt(more, DOMAIN more) = IndexLabel(LabelsAt(entries, DOMAIN entries), e)
  <2> DEFINE l == Len(entries) + 1
             k == 1..l
  <2>1. DOMAIN more = k /\ l \in Nat /\ l \in k /\ \A j \in k : l >= j
    BY <1>1
  <2>2. LabelsAt(more, k) = IndexLabel(LabelsAt(more, k \ {l}), more[l])
    <3> HIDE DEF l
    <3> QED BY <2>1, LastLabelled
  <2>3. k \ {l} = DOMAIN entries
    <3>1. Len(entries) \in Nat /\ DOMAIN entries = 1..Len(entries)
      OBVIOUS
    <3> QED BY <3>1
  <2>4. LabelsAt(more, DOMAIN entries) = LabelsAt(entries, DOMAIN entries)
    <3>1. \A i \in DOMAIN entries : more[i] = entries[i]
      BY <1>1
    <3> QED BY <3>1 DEF LabelsAt
  <2> QED BY <1>1, <2>1, <2>2, <2>3, <2>4
<1>4. more # <<>> /\ (entries # <<>> => more[1] = entries[1])
  BY <1>1
<1> QED BY <1>1, <1>2, <1>3, <1>4 DEF more, Ids

\* A session read from its file, or begun there.
LEMMA SetSessionFileTyped ==
  ASSUME Typed, NEW f \in 1..lastFile, NEW rest \in Seq(WritesTo(lastId, lastFile)),
         SetSessionFile(f, rest), UNCHANGED <<disk, lastId, lastFile>>
  PROVE  Typed' /\ Labelled'
<1> DEFINE entries == Load(disk[f])
<1>0. lastId \in Nat /\ lastFile \in Nat /\ MaxId \in Nat
  BY SessionAssumption DEF Typed, Counted
<1>1. DiskTyped'
  BY DEF Typed, DiskTyped
<1>2. <<Header>> \in Seq(KeptTo(lastId)) /\ LabelsAt(<<Header>>, DOMAIN <<Header>>) = {}
  <2>1. Header \in KeptTo(lastId)
    BY <1>0, HeaderTyped
  <2>2. Header.type # "label"
    BY DEF Header, Line
  <2> QED BY <2>1, <2>2 DEF LabelsAt
<1>3. CASE f \notin DOMAIN disk
  <2>1. /\ file' = f /\ mem' = <<Header>> /\ leaf' = 0 /\ labels' = {} /\ flushed' = FALSE
        /\ todo' = rest
    BY <1>3 DEF SetSessionFile, Fresh
  <2>2. Counted'
    <3>1. flushed' \in BOOLEAN
      BY <2>1, Zenon
    <3> QED BY <2>1, <3>1 DEF Typed, Counted
  <2>3. TodoTyped' /\ MemTyped' /\ Labelled'
    BY <1>2, <2>1 DEF TodoTyped, MemTyped, Labelled
  <2> QED BY <1>1, <2>2, <2>3 DEF Typed
<1>4. CASE f \in DOMAIN disk /\ entries = <<>>
  <2>1. /\ file' = f /\ mem' = <<Header>> /\ leaf' = 0 /\ labels' = {} /\ flushed' = TRUE
        /\ todo' = rest \o Rewrite(f, mem')
    BY <1>4 DEF SetSessionFile
  <2>2. todo' \in Seq(WritesTo(lastId, lastFile))
    <3>1. <<Header>> \in Seq(LinesTo(lastId))
      BY <1>2, SeqGrows DEF KeptTo
    <3>2. Rewrite(f, mem') \in Seq(WritesTo(lastId, lastFile))
      BY <1>0, <2>1, <3>1, RewriteFacts
    <3> QED BY <2>1, <3>2
  <2>3. Counted'
    <3>1. flushed' \in BOOLEAN
      BY <2>1, Zenon
    <3> QED BY <2>1, <3>1 DEF Typed, Counted
  <2>4. TodoTyped' /\ MemTyped' /\ Labelled'
    BY <1>2, <2>1, <2>2 DEF TodoTyped, MemTyped, Labelled
  <2> QED BY <1>1, <2>3, <2>4 DEF Typed
<1>5. CASE f \in DOMAIN disk /\ entries # <<>>
  <2>1. /\ file' = f /\ flushed' = TRUE
        /\ mem' = IF NeedsMigration(entries) THEN Migrated(entries) ELSE entries
        /\ leaf' = LastEntry(entries) /\ labels' = LabelsOf(entries)
        /\ todo' = rest \o (IF NeedsMigration(entries) THEN Rewrite(f, mem') ELSE <<>>)
    BY <1>5 DEF SetSessionFile
  <2>2. /\ entries \in Seq(KeptTo(lastId)) /\ entries[1].type = "session"
    <3>1. disk[f] \in ContentsTo(lastId)
      BY <1>5 DEF Typed, DiskTyped
    <3> QED BY <1>0, <1>5, <3>1, LoadFacts
  <2> HIDE DEF entries
  <2>3. /\ mem' \in Seq(KeptTo(lastId)) /\ Len(mem') = Len(entries)
        /\ \A i \in 2..Len(entries) : mem'[i] = entries[i]
        /\ mem'[1].type = "session"
    <3>1. CASE NeedsMigration(entries)
      <4>1. mem' = <<Header>> \o Tail(entries)
        BY <2>1, <3>1 DEF Migrated
      <4>2. Header \in KeptTo(lastId) /\ Header.type = "session"
        BY <1>0, HeaderTyped DEF Header, Line
      <4>3. Tail(entries) \in Seq(KeptTo(lastId)) /\ Len(Tail(entries)) = Len(entries) - 1
            /\ \A i \in 1..(Len(entries) - 1) : Tail(entries)[i] = entries[i + 1]
        BY <1>5, <2>2
      <4> HIDE DEF entries
      <4> QED BY <1>5, <2>2, <4>1, <4>2, <4>3
    <3>2. CASE ~NeedsMigration(entries)
      BY <2>1, <2>2, <3>2
    <3> QED BY <3>1, <3>2
  <2>4. todo' \in Seq(WritesTo(lastId, lastFile))
    <3>1. mem' \in Seq(LinesTo(lastId))
      BY <2>3, SeqGrows DEF KeptTo
    <3>2. Rewrite(f, mem') \in Seq(WritesTo(lastId, lastFile))
      BY <1>0, <3>1, RewriteFacts
    <3> QED BY <2>1, <3>2
  <2>5. labels' = LabelsAt(mem', DOMAIN mem')
    <3>1. DOMAIN entries = 1..Len(entries) /\ DOMAIN mem' = 1..Len(entries)
          /\ Len(entries) \in Nat
      BY <2>2, <2>3
    <3>2. labels' = LabelsAt(entries, DOMAIN entries)
      BY <2>1, <3>1, LabelsFolded
    <3>3. \A i \in 1..Len(entries) : i = 1 \/ i \in 2..Len(entries)
      OBVIOUS
    <3>4. \A i \in 1..Len(entries) : mem'[i].type = entries[i].type
                                     /\ (entries[i].type = "label" => mem'[i] = entries[i])
      BY <2>2, <2>3, <3>3
    <3>5. LabelsAt(mem', 1..Len(entries)) = LabelsAt(entries, 1..Len(entries))
      BY <3>4 DEF LabelsAt
    <3> QED BY <3>1, <3>2, <3>5
  <2>6. leaf' \in Ids(mem') \cup {0}
    <3>1. Len(entries) \in 1..Len(entries)
      BY <1>5, <2>2 DEF entries
    <3>2. CASE IsEntry(entries[Len(entries)])
      <4>1. Len(entries) # 1
        BY <2>2, <3>2 DEF IsEntry
      <4>2. mem'[Len(entries)] = entries[Len(entries)]
        BY <2>3, <3>1, <4>1
      <4>3. mem'[Len(entries)] \in ToSet(mem')
        BY <2>3, <3>1 DEF ToSet
      <4> QED BY <2>1, <3>2, <4>2, <4>3 DEF LastEntry, Last, Ids
    <3>3. CASE ~IsEntry(entries[Len(entries)])
      BY <2>1, <3>3 DEF LastEntry, Last
    <3> QED BY <3>2, <3>3
  <2> QED BY <1>0, <1>1, <2>1, <2>3, <2>4, <2>5, <2>6
          DEF Typed, Counted, TodoTyped, MemTyped, Labelled
<1> QED BY <1>3, <1>4, <1>5

\* _appendEntry, whatever the entry.
LEMMA AppendEntryTyped ==
  ASSUME Typed, Ready, NewId <= MaxId, NEW e \in KeptTo(lastId + 1), e.id = lastId + 1,
         IsEntry(e), AppendEntry(e)
  PROVE  /\ Typed'
         /\ LabelsAt(mem', DOMAIN mem') = IndexLabel(LabelsAt(mem, DOMAIN mem), e)
         /\ ToSet(mem') = ToSet(mem) \cup {e}
         /\ mem # <<>> => mem'[1] = mem[1]
<1> DEFINE n == lastId + 1
<1>0. /\ lastId \in Nat /\ n \in Nat /\ lastId <= n /\ lastFile \in Nat /\ n \in 0..MaxId
      /\ file \in 1..lastFile /\ todo = <<>>
  BY SessionAssumption DEF Typed, Counted, Ready, NewId
<1>1. /\ mem' = Append(mem, e) /\ leaf' = e.id /\ lastId' = n
      /\ disk' = disk /\ file' = file /\ lastFile' = lastFile
      /\ \/ flushed' = FALSE /\ todo' = <<>>
         \/ flushed' = TRUE /\ todo' = Appends(file, <<e>>)
         \/ flushed' = TRUE /\ todo' = Appends(file, mem')
  BY DEF AppendEntry
<1>2. KeptTo(lastId) \subseteq KeptTo(n) /\ ContentsTo(lastId) \subseteq ContentsTo(n)
  BY <1>0, LinesGrow
<1>3. mem \in Seq(KeptTo(n)) /\ e \in KeptTo(n)
  BY <1>2, SeqGrows DEF Typed, MemTyped
<1> HIDE DEF n
<1>4. /\ mem' \in Seq(KeptTo(n)) /\ e.id \in Ids(mem')
      /\ ToSet(mem') = ToSet(mem) \cup {e}
      /\ LabelsAt(mem', DOMAIN mem') = IndexLabel(LabelsAt(mem, DOMAIN mem), e)
      /\ mem # <<>> => mem'[1] = mem[1]
  BY <1>0, <1>1, <1>3, MemoryFacts
<1>5. todo' \in Seq(WritesTo(n, lastFile))
  <2>1. <<e>> \in Seq(LinesTo(n))
    BY <1>3 DEF KeptTo
  <2>2. mem' \in Seq(LinesTo(n))
    BY <1>4, SeqGrows DEF KeptTo
  <2>3. /\ Appends(file, <<e>>) \in Seq(WritesTo(n, lastFile))
        /\ Appends(file, mem') \in Seq(WritesTo(n, lastFile))
    BY <1>0, <2>1, <2>2, AppendsFacts
  <2>4. <<>> \in Seq(WritesTo(n, lastFile))
    OBVIOUS
  <2> QED BY <1>1, <2>3, <2>4, Zenon
<1>6. DiskTyped'
  BY <1>1, <1>2 DEF Typed, DiskTyped
<1>7. Counted'
  <2>1. flushed' \in BOOLEAN
    BY <1>1, Zenon
  <2> QED BY <1>0, <1>1, <2>1 DEF Typed, Counted
<1> QED BY <1>1, <1>4, <1>5, <1>6, <1>7 DEF Typed, TodoTyped, MemTyped

LEMMA AppendMessageTyped ==
  ASSUME Typed, Labelled, AppendMessage
  PROVE  Typed' /\ Labelled'
<1>1. PICK type \in {"user", "assistant", "note"} :
        AppendEntry(Line(type, NewId, leaf, 0, FALSE))
  BY DEF AppendMessage
<1> DEFINE e == Line(type, NewId, leaf, 0, FALSE)
<1>2. e \in KeptTo(lastId + 1) /\ e.id = lastId + 1 /\ IsEntry(e) /\ e.type # "label"
  <2>1. leaf \in 0..lastId /\ lastId \in Nat /\ MaxId \in Nat
    BY IdsTyped, SessionAssumption DEF Typed, Counted, MemTyped
  <2> QED BY <2>1 DEF Line, NewId, KeptTo, LinesTo, Types, IsEntry
<1> HIDE DEF e
<1>3. /\ Typed'
      /\ LabelsAt(mem', DOMAIN mem') = IndexLabel(LabelsAt(mem, DOMAIN mem), e)
  BY <1>1, <1>2, AppendEntryTyped DEF AppendMessage, e
<1> QED BY <1>2, <1>3 DEF AppendMessage, Labelled, IndexLabel

LEMMA AppendLabelChangeTyped ==
  ASSUME Typed, Labelled, AppendLabelChange
  PROVE  Typed' /\ Labelled'
<1>1. PICK target \in Ids(mem), set \in BOOLEAN :
        /\ AppendEntry(Line("label", NewId, leaf, target, set))
        /\ labels' = IF set THEN labels \cup {target} ELSE labels \ {target}
  BY DEF AppendLabelChange
<1> DEFINE e == Line("label", NewId, leaf, target, set)
<1>2. /\ e \in KeptTo(lastId + 1) /\ e.id = lastId + 1 /\ IsEntry(e)
      /\ e.type = "label" /\ e.set = set /\ e.ref = target
  <2>1. /\ leaf \in 0..lastId /\ target \in 1..lastId /\ lastId \in 0..MaxId
        /\ MaxId \in Nat
    BY IdsTyped, SessionAssumption DEF Typed, Counted, MemTyped
  <2>2. target \in 0..(MaxId + 3) /\ target \in 1..(lastId + 1)
    BY <2>1
  <2> QED BY <2>1, <2>2 DEF Line, NewId, KeptTo, LinesTo, Types, IsEntry
<1> HIDE DEF e
<1>3. /\ Typed'
      /\ LabelsAt(mem', DOMAIN mem') = IndexLabel(LabelsAt(mem, DOMAIN mem), e)
  BY <1>1, <1>2, AppendEntryTyped DEF AppendLabelChange, e
<1> QED BY <1>1, <1>2, <1>3 DEF Labelled, IndexLabel

LEMMA BranchWithSummaryTyped ==
  ASSUME Typed, Labelled, BranchWithSummary
  PROVE  Typed' /\ Labelled'
<1>1. PICK from \in BranchPoints : AppendEntry(Line("note", NewId, from, 0, FALSE))
  BY DEF BranchWithSummary
<1> DEFINE e == Line("note", NewId, from, 0, FALSE)
<1>2. e \in KeptTo(lastId + 1) /\ e.id = lastId + 1 /\ IsEntry(e) /\ e.type # "label"
  <2>1. from \in 0..lastId /\ lastId \in Nat /\ MaxId \in Nat
    BY IdsTyped, SessionAssumption DEF Typed, Counted, MemTyped, BranchPoints
  <2> QED BY <2>1 DEF Line, NewId, KeptTo, LinesTo, Types, IsEntry
<1> HIDE DEF e
<1>3. /\ Typed'
      /\ LabelsAt(mem', DOMAIN mem') = IndexLabel(LabelsAt(mem, DOMAIN mem), e)
  BY <1>1, <1>2, AppendEntryTyped DEF BranchWithSummary, e
<1> QED BY <1>2, <1>3 DEF BranchWithSummary, Labelled, IndexLabel

LEMMA BranchTyped ==
  ASSUME Typed, Labelled, Branch
  PROVE  Typed' /\ Labelled'
BY DEF Branch, Typed, Labelled, Counted, DiskTyped, TodoTyped, MemTyped, BranchPoints

\* New sessions, from newSession or from a fork at the first message.
LEMMA FreshTyped ==
  ASSUME Typed, lastFile < MaxFile, Fresh(lastFile + 1), lastFile' = lastFile + 1,
         UNCHANGED <<disk, todo, lastId>>
  PROVE  Typed' /\ Labelled'
<1>0. lastId \in Nat /\ lastFile \in Nat /\ MaxFile \in Nat
  BY SessionAssumption DEF Typed, Counted
<1>1. /\ file' = lastFile + 1 /\ mem' = <<Header>> /\ leaf' = 0 /\ labels' = {}
      /\ flushed' = FALSE
  BY DEF Fresh
<1>2. Counted'
  <2>1. flushed' \in BOOLEAN
    BY <1>1, Zenon
  <2> QED BY <1>0, <1>1, <2>1 DEF Typed, Counted
<1>3. DiskTyped'
  <2>1. 1..lastFile \subseteq 1..(lastFile + 1)
    BY <1>0
  <2> QED BY <2>1 DEF Typed, DiskTyped
<1>4. TodoTyped'
  <2>1. WritesTo(lastId, lastFile) \subseteq WritesTo(lastId, lastFile + 1)
    BY <1>0, LinesGrow
  <2> QED BY <2>1, SeqGrows DEF Typed, TodoTyped
<1>5. MemTyped' /\ Labelled'
  <2>1. Header \in KeptTo(lastId) /\ Header.type # "label"
    BY <1>0, HeaderTyped DEF Header, Line
  <2> QED BY <1>1, <2>1 DEF MemTyped, Labelled, LabelsAt
<1> QED BY <1>2, <1>3, <1>4, <1>5 DEF Typed

LEMMA NewSessionTyped ==
  ASSUME Typed, NewSession
  PROVE  Typed' /\ Labelled'
BY FreshTyped DEF NewSession

LEMMA OpenSessionTyped ==
  ASSUME Typed, OpenSession
  PROVE  Typed' /\ Labelled'
<1>1. PICK f \in DOMAIN disk : SetSessionFile(f, <<>>)
  BY DEF OpenSession
<1>2. f \in 1..lastFile /\ <<>> \in Seq(WritesTo(lastId, lastFile))
  BY DEF Typed, DiskTyped
<1> QED BY <1>1, <1>2, SetSessionFileTyped DEF OpenSession

\* A crash leaves typed lines, and nothing in memory.
LEMMA CrashTyped ==
  ASSUME Typed, Crash
  PROVE  Typed' /\ Labelled'
<1>0. /\ lastId \in Nat /\ lastFile \in Nat /\ Head(todo) \in WritesTo(lastId, lastFile)
      /\ lastId' = lastId /\ lastFile' = lastFile
      /\ file' = 0 /\ mem' = <<>> /\ leaf' = 0 /\ labels' = {} /\ flushed' = FALSE
      /\ todo' = <<>>
  BY SessionAssumption DEF Typed, Counted, TodoTyped, Crash
<1>1. DiskTyped'
  <2>1. CASE UNCHANGED disk
    BY <1>0, <2>1 DEF Typed, DiskTyped
  <2>2. CASE \E line \in {Head(todo).line, TornLine} :
               LET before == Content(Head(todo).file)
               IN  Put(Head(todo).file,
                       [lines |-> WriteLine(before, line).lines, open |-> TRUE])
    <3> DEFINE f == Head(todo).file
    <3>1. PICK line \in {Head(todo).line, TornLine} :
            Put(f, [lines |-> WriteLine(Content(f), line).lines, open |-> TRUE])
      BY <2>2
    <3>2. f \in 1..lastFile /\ line \in LinesTo(lastId)
      BY <1>0, HeaderTyped DEF WritesTo
    <3>3. [lines |-> WriteLine(Content(f), line).lines, open |-> TRUE] \in ContentsTo(lastId)
      BY <1>0, <3>2, ContentTyped, WriteLineFacts
    <3> HIDE DEF f
    <3> QED BY <1>0, <3>1, <3>2, <3>3, PutTyped DEF DiskTyped
  <2> QED BY <2>1, <2>2 DEF Crash
<1>2. Counted'
  <2>1. flushed' \in BOOLEAN
    BY <1>0, Zenon
  <2> QED BY <1>0, <2>1 DEF Typed, Counted
<1>3. TodoTyped' /\ MemTyped' /\ Labelled'
  <2>1. \A V : <<>> \in Seq(V)
    OBVIOUS
  <2> QED BY <1>0, <2>1 DEF TodoTyped, MemTyped, Labelled, LabelsAt
<1> QED BY <1>1, <1>2, <1>3 DEF Typed

\* One thing to do after the others.
LEMMA OneMore ==
  ASSUME NEW W, NEW s \in Seq(W), NEW t \in Seq(W), Len(t) = 1
  PROVE  /\ s \o t \in Seq(W) /\ s \o t # <<>>
         /\ Len(s) \in Nat /\ Len(s \o t) = Len(s) + 1
         /\ \A i \in 1..Len(s) : (s \o t)[i] = s[i]
         /\ (s \o t)[Len(s) + 1] = t[1]
<1> DEFINE l == Len(s)
<1>1. l \in Nat
  OBVIOUS
<1>2. /\ s \o t \in Seq(W)
      /\ Len(s \o t) = l + 1
      /\ \A i \in 1..(l + 1) : (s \o t)[i] = IF i <= l THEN s[i] ELSE t[i - l]
  <2>1. /\ s \o t \in Seq(W)
        /\ Len(s \o t) = Len(s) + Len(t)
        /\ \A i \in 1..Len(s) + Len(t) : (s \o t)[i] = IF i <= Len(s) THEN s[i] ELSE t[i - Len(s)]
    BY ConcatProperties, Zenon
  <2> QED BY <2>1, Zenon
<1>3. s \o t # <<>>
  <2> HIDE DEF l
  <2> QED BY <1>1, <1>2
<1>4. \A i \in 1..l : (s \o t)[i] = s[i]
  <2> HIDE DEF l
  <2> QED BY <1>1, <1>2
<1>5. (s \o t)[Len(s) + 1] = t[1]
  <2>1. Len(s) + 1 \in 1 .. Len(s) + Len(t) /\ ~(Len(s) + 1 <= Len(s))
    BY <1>1
  <2>2. (s \o t)[Len(s) + 1] = t[Len(s) + 1 - Len(s)]
    BY <2>1, ConcatProperties
  <2> QED BY <1>1, <2>2
<1> QED BY <1>1, <1>2, <1>3, <1>4, <1>5

\* What Fork leaves to write: the branch, if it has a reply, and then to open it.
LEMMA ForkTodo ==
  ASSUME Typed, NEW e \in ToSet(mem), e.parent # 0, file \in DOMAIN disk, lastFile < MaxFile,
         NEW source, source = Load(disk[file]),
         NEW route, route = GetBranch(source, e.parent),
         NEW branched, branched = BranchedEntries(source, route),
         lastId' = lastId + Cardinality(Ids(branched) \ Ids(route)), lastId' <= MaxId,
         todo' = (IF HasAssistant(branched) THEN Rewrite(lastFile + 1, branched) ELSE <<>>)
                   \o Open(lastFile + 1,
                           { x.id : x \in { y \in ToSet(route) : y.type # "label" } })
  PROVE  /\ lastId' \in Nat /\ lastId <= lastId'
         /\ todo' \in Seq(WritesTo(lastId', lastFile + 1)) /\ todo' # <<>>
         /\ \A i \in 1..Len(todo') :
              /\ todo'[i].file = lastFile + 1
              /\ todo'[i].cmd = "truncate" => i = 1
              /\ todo'[i].cmd = "open" <=> i = Len(todo')
<1> DEFINE n == lastId'
           g == lastFile + 1
           ids == { x.id : x \in { y \in ToSet(route) : y.type # "label" } }
           written == IF HasAssistant(branched) THEN Rewrite(g, branched) ELSE <<>>
<1>0. lastId \in 0..MaxId /\ lastFile \in Nat /\ MaxId \in Nat /\ lastId \in Nat
  BY SessionAssumption DEF Typed, Counted
<1>1. source \in Seq(KeptTo(lastId))
  <2>1. disk[file] \in ContentsTo(lastId)
    BY DEF Typed, DiskTyped
  <2> QED BY <1>0, <2>1, LoadFacts
<1>2. /\ n \in Nat /\ lastId <= n /\ branched \in Seq(KeptTo(n))
      /\ route \in Seq(KeptTo(lastId))
  <2> DEFINE k == lastId + Cardinality(Ids(branched) \ Ids(route))
  <2>1. k <= MaxId
    OBVIOUS
  <2>2. k \in Nat /\ lastId <= k /\ branched \in Seq(KeptTo(k)) /\ route \in Seq(KeptTo(lastId))
    BY <1>0, <1>1, <2>1, BranchedFacts
  <2> QED BY <2>2
<1>3. ids \in SUBSET (1..n)
  <2>1. ToSet(route) \subseteq KeptTo(lastId)
    BY <1>0, <1>2, IdsTyped
  <2>2. \A x \in KeptTo(lastId) : x.id \in 0..lastId
    BY DEF KeptTo, LinesTo
  <2>3. \A x \in ToSet(route) : x.id \in 1..lastId
    <3>1. route \in Seq({ x \in ToSet(source) : IsEntry(x) })
      BY <1>1, BranchOfEntries
    <3>2. ToSet(route) \subseteq { x \in ToSet(source) : IsEntry(x) }
      BY <3>1 DEF ToSet
    <3>3. \A x \in ToSet(route) : x.id \in Ids(source)
      BY <3>2 DEF Ids
    <3> QED BY <1>0, <1>1, <3>3, IdsTyped
  <2> QED BY <1>0, <1>2, <2>3
<1>4. g \in 1..g /\ g \in Nat
  BY <1>0
<1>5. /\ written \in Seq(WritesTo(n, g))
      /\ \A i \in 1..Len(written) :
              /\ written[i].file = g
              /\ written[i].cmd = "truncate" => i = 1
              /\ written[i].cmd # "open"
  <2>1. branched \in Seq(LinesTo(n))
    BY <1>2, SeqGrows DEF KeptTo
  <2> DEFINE all == Rewrite(g, branched)
  <2>2. /\ all \in Seq(WritesTo(n, g)) /\ Len(all) = Len(branched) + 1
        /\ all[1].cmd = "truncate" /\ all[1].file = g
        /\ \A i \in 2..(Len(branched) + 1) : all[i].cmd = "append" /\ all[i].file = g
    <3> HIDE DEF g, n
    <3> QED BY <1>2, <1>4, <2>1, RewriteFacts
  <2>3. Len(branched) \in Nat
    BY <2>1
  <2> HIDE DEF all, g, n
  <2>4. \A i \in 1..Len(all) : i = 1 \/ i \in 2..(Len(branched) + 1)
    BY <2>2, <2>3
  <2> USE DEF all
  <2>5. CASE HasAssistant(branched)
    <3>1. written = all
      BY <2>5
    <3> HIDE DEF written, all
    <3> QED BY <2>2, <2>4, <3>1
  <2>6. CASE ~HasAssistant(branched)
    BY <2>6
  <2> QED BY <2>5, <2>6
<1>6. /\ Open(g, ids) \in Seq(WritesTo(n, g)) /\ Len(Open(g, ids)) = 1
      /\ Open(g, ids)[1].cmd = "open" /\ Open(g, ids)[1].file = g
  <2> HIDE DEF g, n, ids
  <2> QED BY <1>2, <1>3, <1>4, OpenFacts
<1> DEFINE opened == Open(g, ids)
<1> HIDE DEF written, opened
<1>7. todo' = written \o opened
  BY DEF written, opened
<1>8. /\ todo' \in Seq(WritesTo(n, g)) /\ todo' # <<>>
      /\ Len(written) \in Nat /\ Len(todo') = Len(written) + 1
      /\ \A i \in 1..Len(written) : todo'[i] = written[i]
      /\ todo'[Len(written) + 1] = opened[1]
  <2> DEFINE W == WritesTo(n, g)
  <2>1. written \in Seq(W) /\ opened \in Seq(W) /\ Len(opened) = 1
    BY <1>5, <1>6 DEF opened
  <2> HIDE DEF W
  <2>2. /\ written \o opened \in Seq(W) /\ written \o opened # <<>>
        /\ Len(written) \in Nat /\ Len(written \o opened) = Len(written) + 1
        /\ \A i \in 1..Len(written) : (written \o opened)[i] = written[i]
        /\ (written \o opened)[Len(written) + 1] = opened[1]
    BY <2>1, OneMore, Zenon
  <2> DEFINE now == todo'
  <2>3. now = written \o opened
    BY <1>7
  <2> HIDE DEF now
  <2>4. now \in Seq(W) /\ now # <<>> /\ Len(now) = Len(written) + 1
        /\ (\A i \in 1..Len(written) : now[i] = written[i]) /\ now[Len(written) + 1] = opened[1]
    BY <2>2, <2>3, Zenon
  <2> QED BY <2>2, <2>4, Zenon DEF now, W
<1>9. ASSUME NEW i \in 1..Len(todo')
      PROVE  /\ todo'[i].file = g
             /\ todo'[i].cmd = "truncate" => i = 1
             /\ todo'[i].cmd = "open" <=> i = Len(todo')
  <2>1. CASE i = Len(todo')
    BY <1>6, <1>8, <2>1 DEF opened
  <2>2. CASE i # Len(todo')
    <3>1. i \in 1..Len(written)
      <4>1. \A l \in Nat : \A j \in 1..(l + 1) : j # l + 1 => j \in 1..l
        OBVIOUS
      <4> QED BY <1>8, <2>2, <4>1
    <3> QED BY <1>5, <1>8, <2>2, <3>1
  <2> QED BY <2>1, <2>2
<1> QED BY <1>2, <1>8, <1>9

LEMMA ForkTyped ==
  ASSUME Typed, Labelled, Fork
  PROVE  Typed' /\ Labelled'
<1>0. /\ lastId \in Nat /\ lastFile \in Nat /\ MaxFile \in Nat /\ lastFile < MaxFile
      /\ lastFile' = lastFile + 1 /\ disk' = disk
  BY SessionAssumption DEF Typed, Counted, Fork
<1>1. PICK e \in ToSet(mem) :
        \/ e.parent = 0 /\ Fresh(lastFile + 1) /\ UNCHANGED <<todo, lastId>>
        \/ /\ e.parent # 0 /\ file \in DOMAIN disk
           /\ LET source == Load(disk[file])
                  route == GetBranch(source, e.parent)
                  branched == BranchedEntries(source, route)
                  target == lastFile + 1
              IN  /\ lastId' = lastId + Cardinality(Ids(branched) \ Ids(route))
                  /\ lastId' <= MaxId
                  /\ todo' = (IF HasAssistant(branched) THEN Rewrite(target, branched) ELSE <<>>)
                               \o Open(target, { x.id : x \in
                                                 { y \in ToSet(route) : y.type # "label" } })
           /\ UNCHANGED manager
  BY DEF Fork
<1>2. CASE e.parent = 0 /\ Fresh(lastFile + 1) /\ UNCHANGED <<todo, lastId>>
  BY <1>0, <1>2, FreshTyped
<1>3. CASE e.parent # 0
  <2> DEFINE source == Load(disk[file])
             route == GetBranch(source, e.parent)
             branched == BranchedEntries(source, route)
  <2>1. /\ file \in DOMAIN disk
        /\ lastId' = lastId + Cardinality(Ids(branched) \ Ids(route)) /\ lastId' <= MaxId
        /\ todo' = (IF HasAssistant(branched) THEN Rewrite(lastFile + 1, branched) ELSE <<>>)
                     \o Open(lastFile + 1,
                             { x.id : x \in { y \in ToSet(route) : y.type # "label" } })
        /\ UNCHANGED manager
    BY <1>1, <1>3
  <2>2. lastId' \in Nat /\ lastId <= lastId' /\ todo' \in Seq(WritesTo(lastId', lastFile + 1))
    <3> HIDE DEF source
    <3>1. source = Load(disk[file])
      BY DEF source
    <3> HIDE DEF route
    <3>2. route = GetBranch(source, e.parent)
      BY DEF route
    <3> HIDE DEF branched
    <3>3. branched = BranchedEntries(source, route)
      BY DEF branched
    <3> QED BY <1>0, <1>3, <2>1, <3>1, <3>2, <3>3, ForkTodo
  <2> HIDE DEF source, route, branched
  <2>3. Counted'
    BY <1>0, <2>1, <2>2, SessionAssumption DEF Typed, Counted, manager
  <2>4. /\ KeptTo(lastId) \subseteq KeptTo(lastId')
        /\ ContentsTo(lastId) \subseteq ContentsTo(lastId')
        /\ 1..lastFile \subseteq 1..(lastFile + 1)
    BY <1>0, <2>2, LinesGrow
  <2>5. DiskTyped'
    BY <1>0, <2>4 DEF Typed, DiskTyped
  <2>6. TodoTyped'
    BY <1>0, <2>2 DEF TodoTyped
  <2>7. MemTyped' /\ Labelled'
    BY <2>1, <2>4, SeqGrows DEF Typed, MemTyped, Labelled, manager
  <2> QED BY <2>3, <2>5, <2>6, <2>7 DEF Typed
<1> QED BY <1>1, <1>2, <1>3

LEMMA WriteNextTyped ==
  ASSUME Typed, Labelled, WriteNext
  PROVE  Typed' /\ Labelled'
<1> DEFINE w == Head(todo)
<1>0. /\ lastId \in Nat /\ lastFile \in Nat /\ w \in WritesTo(lastId, lastFile)
      /\ Tail(todo) \in Seq(WritesTo(lastId, lastFile))
      /\ lastId' = lastId /\ lastFile' = lastFile
      /\ w.file \in 1..lastFile /\ w.line \in LinesTo(lastId)
  <2>1. /\ Head(todo) \in WritesTo(lastId, lastFile)
        /\ Tail(todo) \in Seq(WritesTo(lastId, lastFile))
    BY DEF Typed, TodoTyped, WriteNext
  <2> QED BY <2>1, SessionAssumption DEF Typed, Counted, WriteNext, WritesTo
<1> HIDE DEF w
<1>1. ASSUME NEW c \in ContentsTo(lastId), Put(w.file, c), todo' = Tail(todo), UNCHANGED manager
      PROVE  Typed' /\ Labelled'
  <2>1. DiskTyped'
    BY <1>0, <1>1, PutTyped DEF DiskTyped
  <2>2. Counted' /\ TodoTyped' /\ MemTyped' /\ Labelled'
    BY <1>0, <1>1 DEF Typed, Counted, TodoTyped, MemTyped, Labelled, manager
  <2> QED BY <2>1, <2>2 DEF Typed
<1>2. CASE w.cmd = "append"
  <2>1. /\ Put(w.file, WriteLine(Content(w.file), w.line))
        /\ todo' = Tail(todo) /\ UNCHANGED manager
    BY <1>2 DEF WriteNext, w
  <2>2. WriteLine(Content(w.file), w.line) \in ContentsTo(lastId)
    BY <1>0, ContentTyped, WriteLineFacts
  <2> QED BY <1>1, <2>1, <2>2
<1>3. CASE w.cmd = "truncate"
  <2>1. Put(w.file, NoFile) /\ todo' = Tail(todo) /\ UNCHANGED manager
    BY <1>3 DEF WriteNext, w
  <2>2. NoFile \in ContentsTo(lastId)
    BY DEF NoFile, ContentsTo
  <2> QED BY <1>1, <2>1, <2>2
<1>4. CASE w.cmd = "open"
  <2>1. SetSessionFile(w.file, Tail(todo)) /\ UNCHANGED disk
    BY <1>4 DEF WriteNext, w
  <2> QED BY <1>0, <2>1, SetSessionFileTyped
<1> QED BY <1>0, <1>2, <1>3, <1>4 DEF WritesTo

\* Every step keeps the types, and the labels told by their entries.
LEMMA NextTyped ==
  ASSUME Typed, Labelled, [Next]_vars
  PROVE  Typed' /\ Labelled'
<1>1. CASE UNCHANGED vars
  BY <1>1 DEF vars, manager, Typed, Labelled, Counted, DiskTyped, TodoTyped, MemTyped
<1>2. CASE Next
  BY <1>2, AppendMessageTyped, AppendLabelChangeTyped, BranchTyped, BranchWithSummaryTyped,
     NewSessionTyped, OpenSessionTyped, ForkTyped, WriteNextTyped, CrashTyped DEF Next
<1> QED BY <1>1, <1>2

(***************************************************************************)
(* What keeps file and memory together.                                    *)
(***************************************************************************)

\* The entries of one line more.
LEMMA EntriesFacts ==
  ASSUME NEW n, NEW a \in Seq(LinesTo(n)), NEW e
  PROVE  /\ ToSet(Append(a, e)) = ToSet(a) \cup {e}
         /\ Entries(Append(a, e)) = Entries(a) \cup (IF IsEntry(e) THEN {e} ELSE {})
         /\ Append(a, e)[1] = IF a = <<>> THEN e ELSE a[1]
         /\ Append(a, e) # <<>>
<1> DEFINE more == Append(a, e)
<1>1. /\ Len(more) = Len(a) + 1 /\ Len(a) \in Nat
      /\ \A i \in 1..Len(a) : more[i] = a[i]
      /\ more[Len(a) + 1] = e
      /\ DOMAIN more = 1..Len(more) /\ DOMAIN a = 1..Len(a)
  OBVIOUS
<1> HIDE DEF more
<1>2. ToSet(more) = ToSet(a) \cup {e}
  <2>1. \A i \in 1..Len(more) : i \in 1..Len(a) \/ i = Len(a) + 1
    BY <1>1
  <2>2. \A i \in 1..Len(a) : i \in 1..Len(more)
    BY <1>1
  <2>3. Len(a) + 1 \in 1..Len(more)
    BY <1>1
  <2> QED BY <1>1, <2>1, <2>2, <2>3 DEF ToSet
<1>3. more[1] = IF a = <<>> THEN e ELSE a[1]
  <2>1. a = <<>> => Len(a) = 0
    OBVIOUS
  <2>2. a # <<>> => 1 \in 1..Len(a)
    OBVIOUS
  <2> QED BY <1>1, <2>1, <2>2
<1>4. more # <<>>
  BY <1>1
<1> QED BY <1>2, <1>3, <1>4 DEF more, Entries

LEMMA EmptyTodo ==
  ASSUME NEW f
  PROVE  PendingTo(f, <<>>) = {} /\ ~Cuts(f, <<>>)
BY DEF PendingTo, Cuts, ToSet

\* A call that appends, and one that writes the whole file again.
LEMMA AppendsPending ==
  ASSUME NEW n \in Nat, NEW g \in Nat, NEW f \in 1..g, NEW lines \in Seq(LinesTo(n)),
         NEW t, t = Appends(f, lines)
  PROVE  /\ PendingTo(f, t) = ToSet(lines) /\ ~Cuts(f, t) /\ Len(t) \in Nat
         /\ \A i \in 1..Len(t) : t[i].cmd = "append" /\ t[i].file = f
         /\ lines # <<>> => t # <<>> /\ t[1].line = lines[1]
<1>1. /\ t \in Seq(WritesTo(n, g)) /\ Len(t) = Len(lines)
      /\ \A i \in 1..Len(lines) :
              /\ t[i].cmd = "append" /\ t[i].file = f
              /\ t[i].line = lines[i]
  <2> DEFINE all == Appends(f, lines)
  <2>1. /\ all \in Seq(WritesTo(n, g)) /\ Len(all) = Len(lines)
        /\ \A i \in 1..Len(lines) :
              /\ all[i].cmd = "append" /\ all[i].file = f
              /\ all[i].line = lines[i]
    BY AppendsFacts, SMTT(40)
  <2>2. t = all
    OBVIOUS
  <2> HIDE DEF all
  <2> QED BY <2>1, <2>2, Zenon
<1>2. DOMAIN t = 1..Len(lines) /\ DOMAIN lines = 1..Len(lines)
  BY <1>1
<1>3. PendingTo(f, t) = ToSet(lines)
  BY <1>1, <1>2 DEF PendingTo, ToSet
<1>4. lines # <<>> => 1 \in 1..Len(lines)
  OBVIOUS
<1>5. t # <<>> => 1 \in 1..Len(t)
  BY <1>1
<1>6. ~Cuts(f, t)
  BY <1>1, <1>5 DEF Cuts
<1>7. lines # <<>> => t # <<>>
  BY <1>1, <1>2, <1>4
<1> QED BY <1>1, <1>3, <1>4, <1>6, <1>7

LEMMA RewritePending ==
  ASSUME NEW n \in Nat, NEW g \in Nat, NEW f \in 1..g, NEW lines \in Seq(LinesTo(n)),
         lines # <<>>, NEW t, t = Rewrite(f, lines)
  PROVE  /\ PendingTo(f, t) = ToSet(lines) /\ Cuts(f, t) /\ Len(t) \in Nat
         /\ \A i \in 1..Len(t) :
              /\ t[i].file = f /\ t[i].cmd # "open"
              /\ t[i].cmd = "truncate" => i = 1
         /\ Len(t) >= 2 /\ t[2].line = lines[1]
<1>1. /\ t \in Seq(WritesTo(n, g)) /\ Len(t) = Len(lines) + 1
      /\ t[1].cmd = "truncate" /\ t[1].file = f
      /\ \A i \in 2..(Len(lines) + 1) :
              /\ t[i].cmd = "append" /\ t[i].file = f
              /\ t[i].line = lines[i - 1]
  <2>0. /\ Rewrite(f, lines) \in Seq(WritesTo(n, g)) /\ Len(Rewrite(f, lines)) = Len(lines) + 1
        /\ Rewrite(f, lines)[1].cmd = "truncate" /\ Rewrite(f, lines)[1].file = f
        /\ \A i \in 2..(Len(lines) + 1) :
              /\ Rewrite(f, lines)[i].cmd = "append" /\ Rewrite(f, lines)[i].file = f
              /\ Rewrite(f, lines)[i].line = lines[i - 1]
    BY RewriteFacts
  <2> DEFINE all == Rewrite(f, lines)
  <2>1. /\ all \in Seq(WritesTo(n, g)) /\ Len(all) = Len(lines) + 1
        /\ all[1].cmd = "truncate" /\ all[1].file = f
        /\ \A i \in 2..(Len(lines) + 1) :
              /\ all[i].cmd = "append" /\ all[i].file = f
              /\ all[i].line = lines[i - 1]
    BY <2>0, Zenon
  <2> HIDE DEF all
  <2>2. t = all
    BY DEF all
  <2> QED BY <2>1, <2>2, Zenon
<1>2. DOMAIN t = 1..(Len(lines) + 1) /\ DOMAIN lines = 1..Len(lines) /\ Len(lines) \in Nat
      /\ Len(lines) >= 1
  BY <1>1
<1>3. \A i \in 1..(Len(lines) + 1) : i = 1 \/ i \in 2..(Len(lines) + 1)
  BY <1>2
<1>4. PendingTo(f, t) = ToSet(lines)
  <2>1. \A i \in 2..(Len(lines) + 1) : i - 1 \in 1..Len(lines)
    BY <1>2
  <2>2. \A i \in 1..Len(lines) : i + 1 \in 2..(Len(lines) + 1) /\ (i + 1) - 1 = i
    BY <1>2
  <2>3. ASSUME NEW x \in PendingTo(f, t) PROVE x \in ToSet(lines)
    <3>1. PICK i \in 1..(Len(lines) + 1) :
            x = t[i].line /\ t[i].cmd = "append" /\ t[i].file = f
      BY <1>2 DEF PendingTo, ToSet
    <3>2. i \in 2..(Len(lines) + 1)
      BY <1>1, <1>3, <3>1
    <3> QED BY <1>1, <1>2, <2>1, <3>1, <3>2 DEF ToSet
  <2>4. ASSUME NEW i \in 1..Len(lines) PROVE lines[i] \in PendingTo(f, t)
    <3>1. t[i + 1].cmd = "append" /\ t[i + 1].file = f /\ t[i + 1].line = lines[i]
      BY <1>1, <2>2
    <3>2. i + 1 \in DOMAIN t
      BY <1>2, <2>2
    <3> QED BY <3>1, <3>2 DEF PendingTo, ToSet
  <2> QED BY <1>2, <2>3, <2>4 DEF ToSet
<1>5. Cuts(f, t)
  BY <1>1, <1>2 DEF Cuts
<1>6. \A i \in 1..Len(t) :
              /\ t[i].file = f /\ t[i].cmd # "open"
              /\ t[i].cmd = "truncate" => i = 1
  BY <1>1, <1>3
<1>7. Len(t) >= 2 /\ t[2].line = lines[1]
  <2>1. 2 \in 2..(Len(lines) + 1) /\ 2 - 1 = 1
    BY <1>2
  <2> QED BY <1>1, <1>2, <2>1
<1> QED BY <1>4, <1>5, <1>6, <1>7

\* A file that is only what a manager has just begun.
LEMMA FreshKeeps ==
  ASSUME NEW f \in Nat \ {0}, file' = f, mem' = <<Header>>, flushed' = FALSE, todo' = <<>>,
         f \notin DOMAIN disk'
  PROVE  Keeps'
<1>1. Pending' = {} /\ PendingEntries' = {} /\ ~CutsOff'
  BY EmptyTodo DEF Pending, PendingEntries, CutsOff
<1>2. Content(file)'.lines = <<>>
  BY DEF Content, NoFile
<1>3. InOneFile'
  BY DEF InOneFile
<1>4. InMemory'
  BY DEF InMemory, HasAssistant, ToSet, Header, Line
<1>5. WhileCutOff'
  BY <1>1 DEF WhileCutOff
<1>6. WhileWhole'
  BY <1>1, <1>2 DEF WhileWhole, Entries, ToSet
<1> QED BY <1>3, <1>4, <1>5, <1>6 DEF Keeps

\* A file that is read, and written again when it is empty or of an old version.
LEMMA ReadKeeps ==
  ASSUME NEW n \in Nat, NEW g \in Nat, NEW f \in 1..g, file' = f, f \in DOMAIN disk',
         disk'[f] \in ContentsTo(n), flushed' = TRUE,
         NEW entries, entries = Load(disk'[f]),
         \/ entries = <<>> /\ mem' = <<Header>> /\ todo' = Rewrite(f, mem')
         \/ /\ entries # <<>>
            /\ mem' = IF NeedsMigration(entries) THEN Migrated(entries) ELSE entries
            /\ todo' = IF NeedsMigration(entries) THEN Rewrite(f, mem') ELSE <<>>
  PROVE  Keeps'
<1>1. Content(file)' = disk'[f]
  BY DEF Content
<1>2. /\ entries \in Seq(KeptTo(n))
      /\ entries # <<>> => entries[1].type = "session"
      /\ (\A line \in ToSet(disk'[f].lines) : line.type # "torn") =>
           entries = IF disk'[f].lines # <<>> /\ disk'[f].lines[1].type = "session"
                     THEN disk'[f].lines ELSE <<>>
  BY LoadFacts
<1>3. Header \in KeptTo(n) /\ Header.type = "session"
  BY HeaderTyped DEF Header, Line
<1>4. CASE todo' = Rewrite(f, mem') /\ mem' \in Seq(KeptTo(n)) /\ mem' # <<>>
           /\ mem'[1].type = "session" /\ Entries(entries) \subseteq Entries(mem')
  <2>1. mem' \in Seq(LinesTo(n))
    BY <1>4, SeqGrows DEF KeptTo
  <2>2. /\ CutsOff' /\ PendingEntries' = Entries(mem')
        /\ \A i \in 1..Len(todo') :
              /\ todo'[i].file = file' /\ todo'[i].cmd # "open"
              /\ todo'[i].cmd = "truncate" => i = 1
        /\ Len(todo') >= 2 /\ todo'[2].line = mem'[1]
    BY <1>4, <2>1, RewritePending DEF Pending, PendingEntries, CutsOff, Entries
  <2>3. Len(todo') \in Nat
    <3>1. Rewrite(f, mem') \in Seq(WritesTo(n, g))
      BY <2>1, RewriteFacts
    <3>2. \A V : \A s \in Seq(V) : Len(s) \in Nat
      OBVIOUS
    <3> QED BY <1>4, <3>1, <3>2
  <2>4. InOneFile'
    <3>1. Len(todo') \in 1..Len(todo') /\ 1 \in 1..Len(todo')
      BY <2>2, <2>3
    <3>2. file' # 0
      OBVIOUS
    <3>3. \A i \in 1..Len(todo') : todo'[i].file = file'
      BY <2>2
    <3>4. ~(todo'[Len(todo')].cmd = "open") /\ ~(todo'[1].file # file')
      BY <2>2, <3>1
    <3> QED BY <2>2, <3>1, <3>2, <3>3, <3>4 DEF InOneFile
  <2>5. InMemory'
    BY <1>4 DEF InMemory
  <2>6. WhileCutOff'
    BY <1>1, <1>4, <2>2 DEF WhileCutOff
  <2>7. WhileWhole'
    BY <2>2 DEF WhileWhole
  <2> QED BY <2>4, <2>5, <2>6, <2>7 DEF Keeps
<1>5. CASE entries # <<>> /\ ~NeedsMigration(entries)
  <2>1. mem' = entries /\ todo' = <<>>
    BY <1>5
  <2>2. Pending' = {} /\ PendingEntries' = {} /\ ~CutsOff'
    BY <2>1, EmptyTodo DEF Pending, PendingEntries, CutsOff
  <2>3. InOneFile'
    BY <2>1 DEF InOneFile
  <2>4. InMemory'
    BY <1>2, <1>5, <2>1 DEF InMemory
  <2>5. WhileCutOff'
    BY <2>2 DEF WhileCutOff
  <2>6. WhileWhole'
    <3> SUFFICES ASSUME Intact(file)'
                 PROVE  LET lines == Content(file)'.lines
                        IN  lines = mem' /\ lines # <<>> /\ lines[1].type = "session"
      BY <2>2 DEF WhileWhole
    <3>1. \A line \in ToSet(disk'[f].lines) : line.type # "torn"
      BY <1>1 DEF Intact
    <3> QED BY <1>1, <1>2, <1>5, <2>1, <3>1
  <2> QED BY <2>3, <2>4, <2>5, <2>6 DEF Keeps
<1>6. CASE entries = <<>>
  <2>1. mem' = <<Header>> /\ todo' = Rewrite(f, mem')
    BY <1>6
  <2>2. mem' \in Seq(KeptTo(n)) /\ mem' # <<>> /\ mem'[1].type = "session"
    BY <1>3, <2>1
  <2>3. Entries(entries) = {}
    BY <1>6 DEF Entries, ToSet
  <2> QED BY <1>4, <2>1, <2>2, <2>3
<1>7. CASE entries # <<>> /\ NeedsMigration(entries)
  <2>1. mem' = <<Header>> \o Tail(entries) /\ todo' = Rewrite(f, mem')
    BY <1>7 DEF Migrated
  <2>2. /\ Tail(entries) \in Seq(KeptTo(n)) /\ Len(Tail(entries)) = Len(entries) - 1
        /\ \A i \in 1..(Len(entries) - 1) : Tail(entries)[i] = entries[i + 1]
        /\ Len(entries) \in Nat /\ Len(entries) >= 1
    BY <1>2, <1>7
  <2>3. /\ mem' \in Seq(KeptTo(n)) /\ mem' # <<>> /\ mem'[1].type = "session"
        /\ Len(mem') = Len(entries)
        /\ \A i \in 2..Len(entries) : mem'[i] = entries[i]
    BY <1>3, <2>1, <2>2
  <2>4. Entries(entries) \subseteq Entries(mem')
    <3> SUFFICES ASSUME NEW x \in Entries(entries) PROVE x \in ToSet(mem')
      BY DEF Entries
    <3>1. PICK i \in 1..Len(entries) : x = entries[i]
      BY <1>2 DEF Entries, ToSet
    <3>2. i # 1
      BY <1>2, <1>7, <3>1 DEF Entries, IsEntry
    <3>3. i \in 2..Len(entries) /\ i \in 1..Len(mem')
      BY <2>3, <3>2
    <3> QED BY <2>3, <3>1, <3>3 DEF ToSet
  <2> QED BY <1>4, <2>1, <2>3, <2>4
<1> QED BY <1>5, <1>6, <1>7

LEMMA SetSessionFileKeeps ==
  ASSUME Typed, Typed', NEW f \in 1..lastFile, SetSessionFile(f, <<>>),
         UNCHANGED <<disk, lastId, lastFile>>
  PROVE  Keeps'
<1>0. lastId \in Nat /\ lastFile \in Nat /\ f \in Nat \ {0}
  BY SessionAssumption DEF Typed, Counted
<1>1. CASE f \notin DOMAIN disk
  <2>1. file' = f /\ mem' = <<Header>> /\ flushed' = FALSE /\ todo' = <<>>
    BY <1>1 DEF SetSessionFile, Fresh
  <2>2. f \notin DOMAIN disk'
    BY <1>1
  <2> QED BY <1>0, <2>1, <2>2, FreshKeeps
<1>2. CASE f \in DOMAIN disk
  <2> DEFINE entries == Load(disk'[f])
  <2>1. disk' = disk /\ f \in DOMAIN disk' /\ disk'[f] \in ContentsTo(lastId)
    BY <1>2 DEF Typed, DiskTyped
  <2>2. /\ file' = f /\ flushed' = TRUE
        /\ \/ entries = <<>> /\ mem' = <<Header>> /\ todo' = <<>> \o Rewrite(f, mem')
           \/ /\ entries # <<>>
              /\ mem' = IF NeedsMigration(entries) THEN Migrated(entries) ELSE entries
              /\ todo' = <<>> \o (IF NeedsMigration(entries) THEN Rewrite(f, mem') ELSE <<>>)
    BY <1>2 DEF SetSessionFile
  <2>3. <<>> \o <<>> = <<>> /\ <<>> \o Rewrite(f, mem') = Rewrite(f, mem')
    <3>1. mem' \in Seq(LinesTo(lastId))
      BY SeqGrows DEF Typed, MemTyped, KeptTo
    <3>2. Rewrite(f, mem') \in Seq(WritesTo(lastId, lastFile))
      BY <1>0, <3>1, RewriteFacts
    <3> QED BY <3>2, ConcatEmptySeq
  <2> HIDE DEF entries
  <2>4. \/ entries = <<>> /\ mem' = <<Header>> /\ todo' = Rewrite(f, mem')
        \/ /\ entries # <<>>
           /\ mem' = IF NeedsMigration(entries) THEN Migrated(entries) ELSE entries
           /\ todo' = IF NeedsMigration(entries) THEN Rewrite(f, mem') ELSE <<>>
    BY <2>2, <2>3
  <2>5. entries = Load(disk'[f])
    BY DEF entries
  <2> QED BY <1>0, <2>1, <2>2, <2>4, <2>5, ReadKeeps
<1> QED BY <1>1, <1>2

\* A call that appends an entry: alone, with all that was held back, or not yet.
LEMMA AppendEntryKeeps ==
  ASSUME Typed, Typed', Keeps, Ready, NEW e \in KeptTo(lastId'), IsEntry(e), AppendEntry(e),
         ToSet(mem') = ToSet(mem) \cup {e}, mem # <<>> => mem'[1] = mem[1]
  PROVE  Keeps'
<1>0. /\ lastId' \in Nat /\ lastFile \in Nat /\ file \in 1..lastFile /\ todo = <<>>
      /\ file' = file /\ disk' = disk
  BY SessionAssumption DEF Typed, Counted, Ready, AppendEntry
<1>1. /\ mem' = Append(mem, e) /\ mem' \in Seq(LinesTo(lastId')) /\ mem' # <<>>
      /\ <<e>> \in Seq(LinesTo(lastId'))
  <2>1. mem' = Append(mem, e)
    BY DEF AppendEntry
  <2>2. mem' \in Seq(LinesTo(lastId'))
    BY SeqGrows DEF Typed, MemTyped, KeptTo
  <2>3. e \in ToSet(mem')
    OBVIOUS
  <2>4. mem' # <<>>
    BY <2>3 DEF ToSet
  <2> QED BY <2>1, <2>2, <2>4 DEF KeptTo
<1>2. Pending = {} /\ PendingEntries = {} /\ ~CutsOff
  BY <1>0, EmptyTodo DEF Pending, PendingEntries, CutsOff
<1>3. /\ mem # <<>> /\ mem[1].type = "session"
      /\ mem'[1].type = "session"
      /\ ~flushed => ~HasAssistant(mem)
  BY <1>0 DEF Keeps, InMemory
<1>4. /\ Content(file)' = Content(file)
      /\ Intact(file)' => Intact(file)
  BY <1>0 DEF Content, Intact
<1>5. Entries(mem') = Entries(mem) \cup {e}
  BY DEF Entries
<1> DEFINE lines == Content(file).lines
<1>6. Intact(file) =>
        /\ Entries(lines) \subseteq Entries(mem)
        /\ flushed => Entries(lines) = Entries(mem) /\ lines # <<>>
        /\ lines # <<>> => lines[1].type = "session"
  BY <1>0, <1>2 DEF Keeps, WhileWhole
<1>7. CASE ~HasAssistant(mem')
  <2>1. flushed' = FALSE /\ todo' = <<>>
    BY <1>7 DEF AppendEntry
  <2>2. Pending' = {} /\ PendingEntries' = {} /\ ~CutsOff'
    BY <2>1, EmptyTodo DEF Pending, PendingEntries, CutsOff
  <2>3. InOneFile' /\ InMemory' /\ WhileCutOff'
    BY <1>0, <1>1, <1>3, <1>7, <2>1, <2>2 DEF InOneFile, InMemory, WhileCutOff
  <2>4. WhileWhole'
    BY <1>4, <1>5, <1>6, <2>1, <2>2 DEF WhileWhole
  <2> QED BY <2>3, <2>4 DEF Keeps
<1>8. ASSUME NEW part0 \in Seq(LinesTo(lastId')), part0 # <<>>, todo' = Appends(file, part0),
             flushed' = TRUE,
             Intact(file) => /\ Entries(lines) \cup Entries(part0) = Entries(mem')
                             /\ lines = <<>> => part0[1].type = "session"
      PROVE  Keeps'
  <2>1. /\ PendingTo(file, todo') = ToSet(part0) /\ ~Cuts(file, todo') /\ Len(todo') \in Nat
        /\ \A i \in 1..Len(todo') : todo'[i].cmd = "append" /\ todo'[i].file = file
        /\ todo' # <<>> /\ todo'[1].line = part0[1]
    BY <1>0, <1>8, AppendsPending
  <2>2. Pending' = ToSet(part0) /\ PendingEntries' = Entries(part0) /\ ~CutsOff'
    BY <1>0, <2>1 DEF Pending, PendingEntries, CutsOff, Entries
  <2>3. InOneFile'
    <3>1. Len(todo') \in 1..Len(todo') /\ 1 \in 1..Len(todo')
      BY <2>1, <1>8 DEF Typed, TodoTyped
    <3> QED BY <1>0, <2>1, <3>1 DEF InOneFile
  <2>4. InMemory' /\ WhileCutOff'
    BY <1>0, <1>1, <1>3, <1>8, <2>2 DEF InMemory, WhileCutOff
  <2>5. Pending' # {}
    <3>1. part0[1] \in ToSet(part0)
      BY <1>8 DEF ToSet
    <3> QED BY <2>2, <3>1
  <2>6. WhileWhole'
    <3> SUFFICES ASSUME Intact(file)'
                 PROVE  /\ Entries(lines) \cup PendingEntries' = Entries(mem')
                        /\ lines # <<>> => lines[1].type = "session"
                        /\ lines = <<>> => Pending' # {} /\ todo'[1].line.type = "session"
      BY <1>4 DEF WhileWhole
    <3> HIDE DEF lines
    <3> QED BY <1>4, <1>6, <1>8, <2>1, <2>2, <2>5
  <2> QED BY <2>3, <2>4, <2>6 DEF Keeps
<1>9. CASE HasAssistant(mem') /\ flushed
  <2>1. flushed' = TRUE /\ todo' = Appends(file, <<e>>)
    BY <1>9 DEF AppendEntry, WritesEntryOnly
  <2>2. Entries(<<e>>) = {e}
    BY DEF Entries, ToSet
  <2> HIDE DEF lines
  <2>3. Intact(file) => /\ Entries(lines) \cup Entries(<<e>>) = Entries(mem')
                        /\ lines = <<>> => <<e>>[1].type = "session"
    BY <1>5, <1>6, <1>9, <2>2
  <2>4. <<e>> # <<>>
    OBVIOUS
  <2> QED BY <1>1, <1>8, <2>1, <2>3, <2>4 DEF lines
<1>10. CASE HasAssistant(mem') /\ ~flushed
  <2>1. flushed' = TRUE /\ todo' = Appends(file, mem')
    BY <1>10 DEF AppendEntry, WritesEntryOnly
  <2> HIDE DEF lines
  <2>2. Intact(file) => /\ Entries(lines) \cup Entries(mem') = Entries(mem')
                        /\ lines = <<>> => mem'[1].type = "session"
    BY <1>3, <1>5, <1>6
  <2> QED BY <1>1, <1>8, <2>1, <2>2 DEF lines
<1> QED BY <1>7, <1>9, <1>10

\* What does not touch the file, nor what is in memory but for the leaf.
LEMMA SameKeeps ==
  ASSUME Keeps, UNCHANGED <<disk, todo, mem, flushed, file, lastFile>>
  PROVE  Keeps'
BY DEF Keeps, InOneFile, InMemory, WhileCutOff, WhileWhole, CutsOff, Cuts, Pending, PendingTo,
       PendingEntries, Entries, Content, Intact

\* Writing a branch to another file leaves this one as it is.
LEMMA ForkKeeps ==
  ASSUME Typed, Typed', Keeps, Fork
  PROVE  Keeps'
<1>0. /\ lastFile \in Nat /\ file \in 1..lastFile /\ todo = <<>> /\ disk' = disk
      /\ lastFile' = lastFile + 1 /\ lastFile < MaxFile
      /\ DOMAIN disk \subseteq 1..lastFile
  BY SessionAssumption DEF Typed, Counted, DiskTyped, Fork, Ready
<1>1. PICK e \in ToSet(mem) :
        \/ e.parent = 0 /\ Fresh(lastFile + 1) /\ UNCHANGED <<todo, lastId>>
        \/ /\ e.parent # 0 /\ file \in DOMAIN disk
           /\ LET source == Load(disk[file])
                  route == GetBranch(source, e.parent)
                  branched == BranchedEntries(source, route)
                  target == lastFile + 1
              IN  /\ lastId' = lastId + Cardinality(Ids(branched) \ Ids(route))
                  /\ lastId' <= MaxId
                  /\ todo' = (IF HasAssistant(branched) THEN Rewrite(target, branched) ELSE <<>>)
                               \o Open(target, { x.id : x \in
                                                 { y \in ToSet(route) : y.type # "label" } })
           /\ UNCHANGED manager
  BY DEF Fork
<1>2. CASE e.parent = 0 /\ Fresh(lastFile + 1) /\ UNCHANGED <<todo, lastId>>
  <2>1. /\ file' = lastFile + 1 /\ mem' = <<Header>> /\ flushed' = FALSE /\ todo' = <<>>
        /\ lastFile + 1 \notin DOMAIN disk' /\ lastFile + 1 \in Nat \ {0}
    BY <1>0, <1>2 DEF Fresh
  <2> QED BY <2>1, FreshKeeps
<1>3. CASE e.parent # 0
  <2> DEFINE source == Load(disk[file])
             route == GetBranch(source, e.parent)
             branched == BranchedEntries(source, route)
  <2>1. /\ file \in DOMAIN disk
        /\ lastId' = lastId + Cardinality(Ids(branched) \ Ids(route)) /\ lastId' <= MaxId
        /\ todo' = (IF HasAssistant(branched) THEN Rewrite(lastFile + 1, branched) ELSE <<>>)
                     \o Open(lastFile + 1,
                             { x.id : x \in { y \in ToSet(route) : y.type # "label" } })
        /\ UNCHANGED manager
    BY <1>1, <1>3
  <2>2. /\ todo' \in Seq(WritesTo(lastId', lastFile + 1)) /\ todo' # <<>>
        /\ \A i \in 1..Len(todo') :
              /\ todo'[i].file = lastFile + 1
              /\ todo'[i].cmd = "truncate" => i = 1
              /\ todo'[i].cmd = "open" <=> i = Len(todo')
    <3> HIDE DEF source
    <3>1. source = Load(disk[file])
      BY DEF source
    <3> HIDE DEF route
    <3>2. route = GetBranch(source, e.parent)
      BY DEF route
    <3> HIDE DEF branched
    <3>3. branched = BranchedEntries(source, route)
      BY DEF branched
    <3> QED BY <1>0, <1>3, <2>1, <3>1, <3>2, <3>3, ForkTodo
  <2> HIDE DEF source, route, branched
  <2>3. file' = file /\ mem' = mem /\ flushed' = flushed
    BY <2>1 DEF manager
  <2>4. lastFile + 1 # file /\ file # 0
    BY <1>0
  <2>5. Len(todo') \in 1..Len(todo') /\ 1 \in 1..Len(todo') /\ DOMAIN todo' = 1..Len(todo')
    <3>1. \A V : \A s \in Seq(V) : s # <<>> =>
            Len(s) \in 1..Len(s) /\ 1 \in 1..Len(s) /\ DOMAIN s = 1..Len(s)
      OBVIOUS
    <3> QED BY <2>2, <3>1
  <2>6. InOneFile'
    BY <2>2, <2>3, <2>4, <2>5 DEF InOneFile
  <2>7. Pending' = {} /\ PendingEntries' = {} /\ ~CutsOff'
    <3> DEFINE t == todo'
    <3>1. (\A i \in DOMAIN t : t[i].file # file) /\ 1 \in DOMAIN t
      BY <2>2, <2>4, <2>5
    <3> HIDE DEF t
    <3>2. PendingTo(file, t) = {}
      BY <3>1 DEF PendingTo, ToSet
    <3>3. ~Cuts(file, t)
      BY <3>1 DEF Cuts
    <3>4. PendingTo(file, todo') = {} /\ ~Cuts(file, todo')
      BY <3>2, <3>3 DEF t
    <3> QED BY <2>3, <3>4 DEF Pending, PendingEntries, CutsOff
  <2>8. Pending = {} /\ PendingEntries = {} /\ ~CutsOff
    BY <1>0, EmptyTodo DEF Pending, PendingEntries, CutsOff
  <2>9. InMemory' /\ WhileCutOff'
    BY <2>3, <2>7 DEF Keeps, InMemory, WhileCutOff
  <2>10. WhileWhole'
    <3>1. Content(file)' = Content(file) /\ (Intact(file)' => Intact(file))
      BY <1>0, <2>3 DEF Content, Intact
    <3>2. Entries(mem)' = Entries(mem)
      BY <2>3 DEF Entries
    <3> QED BY <2>3, <2>7, <2>8, <3>1, <3>2 DEF Keeps, WhileWhole
  <2> QED BY <2>6, <2>9, <2>10 DEF Keeps
<1> QED BY <1>1, <1>2, <1>3

\* What is left when the first thing in todo is done.
LEMMA TailFacts ==
  ASSUME NEW W, NEW t \in Seq(W), t # <<>>, NEW rest, rest = Tail(t)
  PROVE  /\ Head(t) = t[1] /\ t[1] \in W /\ Len(t) \in Nat /\ Len(t) >= 1
         /\ rest \in Seq(W) /\ Len(rest) = Len(t) - 1
         /\ \A i \in 1..Len(rest) : i + 1 \in 2..Len(t) /\ rest[i] = t[i + 1]
         /\ \A i \in 2..Len(t) : i - 1 \in 1..Len(rest) /\ t[i] = rest[i - 1]
         /\ DOMAIN rest = 1..Len(rest) /\ DOMAIN t = 1..Len(t)
<1>1. /\ Head(t) = t[1] /\ t[1] \in W /\ Len(t) \in Nat /\ Len(t) >= 1
      /\ rest \in Seq(W) /\ Len(rest) = Len(t) - 1
      /\ \A i \in 1..Len(rest) : rest[i] = t[i + 1]
      /\ DOMAIN rest = 1..Len(rest) /\ DOMAIN t = 1..Len(t)
  OBVIOUS
<1>2. \A i \in 1..Len(rest) : i + 1 \in 2..Len(t)
  BY <1>1
<1>3. \A i \in 2..Len(t) : i - 1 \in 1..Len(rest) /\ (i - 1) + 1 = i
  BY <1>1
<1>4. \A i \in 2..Len(t) : t[i] = rest[i - 1]
  BY <1>1, <1>3
<1> QED BY <1>1, <1>2, <1>3, <1>4

\* What the rest of a call still appends to file f.
LEMMA PendingTail ==
  ASSUME NEW W, NEW t \in Seq(W), t # <<>>, NEW rest, rest = Tail(t), NEW f
  PROVE  IF t[1].cmd = "append" /\ t[1].file = f
         THEN PendingTo(f, t) = PendingTo(f, rest) \cup {t[1].line}
         ELSE PendingTo(f, t) = PendingTo(f, rest)
<1>0. /\ Len(t) \in Nat /\ Len(t) >= 1 /\ Len(rest) = Len(t) - 1
      /\ \A i \in 1..Len(rest) : i + 1 \in 2..Len(t) /\ rest[i] = t[i + 1]
      /\ \A i \in 2..Len(t) : i - 1 \in 1..Len(rest) /\ t[i] = rest[i - 1]
      /\ DOMAIN rest = 1..Len(rest) /\ DOMAIN t = 1..Len(t)
  BY TailFacts
<1>1. ToSet(t) = {t[1]} \cup ToSet(rest)
  <2>1. \A i \in 1..Len(t) : i = 1 \/ i \in 2..Len(t)
    BY <1>0
  <2>2. 1 \in 1..Len(t) /\ \A i \in 2..Len(t) : i \in 1..Len(t)
    BY <1>0
  <2>3. ASSUME NEW x \in ToSet(t) PROVE x \in {t[1]} \cup ToSet(rest)
    <3>1. PICK i \in 1..Len(t) : x = t[i]
      BY <1>0 DEF ToSet
    <3>2. CASE i \in 2..Len(t)
      <4>1. x = rest[i - 1] /\ i - 1 \in DOMAIN rest
        BY <1>0, <3>1, <3>2
      <4> QED BY <4>1 DEF ToSet
    <3> QED BY <2>1, <3>1, <3>2
  <2>4. ASSUME NEW x \in ToSet(rest) PROVE x \in ToSet(t)
    BY <1>0, <2>2 DEF ToSet
  <2>5. t[1] \in ToSet(t)
    BY <1>0, <2>2 DEF ToSet
  <2> QED BY <2>3, <2>4, <2>5
<1> DEFINE A == ToSet(t)
           B == ToSet(rest)
           a == t[1]
<1> HIDE DEF A, B, a
<1>2. A = {a} \cup B
  BY <1>1 DEF A, B, a
<1>3. CASE a.cmd = "append" /\ a.file = f
  <2>1. { w.line : w \in { x \in A : x.cmd = "append" /\ x.file = f } } =
          { w.line : w \in { x \in B : x.cmd = "append" /\ x.file = f } } \cup {a.line}
    BY <1>2, <1>3
  <2> QED BY <1>3, <2>1, Zenon DEF PendingTo, A, B, a
<1>4. CASE ~(a.cmd = "append" /\ a.file = f)
  <2>1. { w.line : w \in { x \in A : x.cmd = "append" /\ x.file = f } } =
          { w.line : w \in { x \in B : x.cmd = "append" /\ x.file = f } }
    BY <1>2, <1>4
  <2> QED BY <1>4, <2>1, Zenon DEF PendingTo, A, B, a
<1> QED BY <1>3, <1>4, Zenon

\* What the call works on, and what comes of it when its first step is done.
LEMMA RestInOneFile ==
  ASSUME Typed, InOneFile, todo # <<>>, todo' = Tail(todo), file' = file, file # 0,
         todo[1].cmd # "open"
  PROVE  InOneFile' /\ ~CutsOff'
<1> DEFINE t == todo
           rest == todo'
<1>0. t \in Seq(WritesTo(lastId, lastFile)) /\ t # <<>> /\ rest = Tail(t)
  BY DEF Typed, TodoTyped
<1> HIDE DEF t, rest
<1>1. /\ Len(t) \in Nat /\ Len(t) >= 1
      /\ rest \in Seq(WritesTo(lastId, lastFile)) /\ Len(rest) = Len(t) - 1
      /\ \A i \in 1..Len(rest) : i + 1 \in 2..Len(t) /\ rest[i] = t[i + 1]
  BY <1>0, TailFacts
<1>2. /\ \A i \in 1..Len(t) :
           /\ t[i].file = t[Len(t)].file
           /\ t[i].cmd = "truncate" => i = 1
           /\ t[i].cmd = "open" => i = Len(t)
      /\ t[Len(t)].cmd = "open" <=> t[1].file # file
      /\ t[1].cmd # "open"
  BY <1>0 DEF InOneFile, t
<1>3. /\ \A i \in 1..Len(rest) :
           /\ rest[i].cmd # "truncate"
           /\ rest[i].file = t[Len(t)].file
           /\ rest[i].cmd = "open" => i = Len(rest)
  <2> SUFFICES ASSUME NEW i \in 1..Len(rest)
               PROVE  /\ rest[i].cmd # "truncate"
                      /\ rest[i].file = t[Len(t)].file
                      /\ rest[i].cmd = "open" => i = Len(rest)
    OBVIOUS
  <2>1. i + 1 \in 1..Len(t) /\ i + 1 # 1 /\ (i + 1 = Len(t) => i = Len(rest)) /\ rest[i] = t[i + 1]
    BY <1>1
  <2> QED BY <1>2, <2>1
<1>4. rest # <<>> => /\ Len(rest) \in 1..Len(rest) /\ 1 \in 1..Len(rest)
                     /\ rest[Len(rest)] = t[Len(t)]
                     /\ rest[1].file = t[1].file
  <2> SUFFICES ASSUME rest # <<>>
               PROVE  /\ Len(rest) \in 1..Len(rest) /\ 1 \in 1..Len(rest)
                      /\ rest[Len(rest)] = t[Len(t)]
                      /\ rest[1].file = t[1].file
    OBVIOUS
  <2>1. Len(rest) \in 1..Len(rest) /\ 1 \in 1..Len(rest) /\ Len(rest) + 1 = Len(t)
        /\ 1 \in 1..Len(t)
    BY <1>1
  <2>2. rest[Len(rest)] = t[Len(t)]
    BY <1>1, <2>1
  <2>3. rest[1].file = t[1].file
    BY <1>2, <1>3, <2>1
  <2> QED BY <2>1, <2>2, <2>3
<1>5. ~Cuts(file, rest)
  BY <1>3, <1>4 DEF Cuts
<1>6. /\ \A i \in 1..Len(rest) :
           /\ rest[i].file = rest[Len(rest)].file
           /\ rest[i].cmd = "truncate" => i = 1
           /\ rest[i].cmd = "open" => i = Len(rest)
      /\ rest # <<>> => (rest[Len(rest)].cmd = "open" <=> rest[1].file # file)
  <2>1. rest = <<>> => Len(rest) = 0
    OBVIOUS
  <2>2. (\E i \in 1..Len(rest) : TRUE) => rest # <<>>
    BY <2>1
  <2> QED BY <1>2, <1>3, <1>4, <2>2
<1> QED BY <1>5, <1>6 DEF InOneFile, CutsOff, rest

\* What is written to another file is no concern of this one.
LEMMA OtherFile ==
  ASSUME Typed, InOneFile, todo # <<>>, todo[1].file # file
  PROVE  Pending = {} /\ ~CutsOff
<1> DEFINE t == todo
<1>1. t \in Seq(WritesTo(lastId, lastFile)) /\ t # <<>>
  BY DEF Typed, TodoTyped
<1>2. /\ \A i \in 1..Len(t) : t[i].file = t[Len(t)].file
      /\ t[1].file # file
  BY DEF InOneFile
<1> HIDE DEF t
<1>3. 1 \in 1..Len(t) /\ DOMAIN t = 1..Len(t)
  BY <1>1
<1>4. \A i \in DOMAIN t : t[i].file # file
  BY <1>2, <1>3
<1>5. PendingTo(file, t) = {} /\ ~Cuts(file, t)
  <2>1. PendingTo(file, t) = {}
    BY <1>4 DEF PendingTo, ToSet
  <2>2. ~Cuts(file, t)
    BY <1>3, <1>4 DEF Cuts
  <2> QED BY <2>1, <2>2
<1> QED BY <1>5 DEF t, Pending, CutsOff

\* The next line reaches the file: it is no longer pending, and is in the file.
LEMMA WriteNextKeeps ==
  ASSUME Typed, Typed', Keeps, WriteNext
  PROVE  Keeps'
<1> DEFINE w == todo[1]
<1>0. /\ todo \in Seq(WritesTo(lastId, lastFile)) /\ todo # <<>>
      /\ Head(todo) = w /\ w \in WritesTo(lastId, lastFile)
      /\ w.file \in 1..lastFile /\ w.line \in LinesTo(lastId)
      /\ lastId \in Nat /\ lastFile \in Nat /\ file # 0
      /\ lastId' = lastId /\ lastFile' = lastFile
  <2>1. todo \in Seq(WritesTo(lastId, lastFile)) /\ todo # <<>>
    BY DEF Typed, TodoTyped, WriteNext
  <2>2. Head(todo) = todo[1] /\ todo[1] \in WritesTo(lastId, lastFile)
    BY <2>1
  <2>3. file # 0
    BY <2>1 DEF Keeps, InOneFile
  <2> QED BY <2>1, <2>2, <2>3, SessionAssumption DEF Typed, Counted, WriteNext, WritesTo
<1> DEFINE L == Content(file).lines
<1>1. CASE w.cmd = "open"
  <2>1. SetSessionFile(w.file, Tail(todo)) /\ UNCHANGED disk
    BY <1>0, <1>1 DEF WriteNext
  <2>2. Tail(todo) = <<>>
    <3>1. 1 \in 1..Len(todo)
      BY <1>0
    <3>2. Len(todo) = 1
      BY <1>1, <3>1 DEF Keeps, InOneFile
    <3>3. \A V : \A s \in Seq(V) : Len(s) = 1 => Tail(s) \in Seq(V) /\ Len(Tail(s)) = 0
      OBVIOUS
    <3>4. \A V : \A s \in Seq(V) : Len(s) = 0 => s = <<>>
      BY EmptySeq
    <3> QED BY <1>0, <3>2, <3>3, <3>4
  <2> QED BY <1>0, <2>1, <2>2, SetSessionFileKeeps
<1>2. CASE w.cmd # "open"
  <2>1. /\ \/ w.cmd = "append" /\ Put(w.file, WriteLine(Content(w.file), w.line))
           \/ w.cmd = "truncate" /\ Put(w.file, NoFile)
        /\ todo' = Tail(todo) /\ UNCHANGED manager
    BY <1>0, <1>2 DEF WriteNext
  <2>2. /\ file' = file /\ mem' = mem /\ flushed' = flushed
        /\ Entries(mem)' = Entries(mem)
    BY <2>1 DEF manager, Entries
  <2>3. InOneFile' /\ ~CutsOff'
    BY <1>0, <1>2, <2>1, <2>2, RestInOneFile DEF Keeps
  <2>4. InMemory' /\ WhileCutOff'
    BY <2>2, <2>3 DEF Keeps, InMemory, WhileCutOff
  <2>5. IF w.cmd = "append" /\ w.file = file
        THEN Pending = Pending' \cup {w.line}
        ELSE Pending = Pending'
    <3> DEFINE rest == todo'
    <3>1. rest = Tail(todo)
      BY <2>1
    <3> HIDE DEF rest
    <3> DEFINE W == WritesTo(lastId, lastFile)
               t == todo
    <3> HIDE DEF W, t
    <3>1a. t \in Seq(W) /\ t # <<>> /\ rest = Tail(t) /\ w = t[1]
      BY <1>0, <3>1 DEF W, t
    <3>2. IF t[1].cmd = "append" /\ t[1].file = file
          THEN PendingTo(file, t) = PendingTo(file, rest) \cup {t[1].line}
          ELSE PendingTo(file, t) = PendingTo(file, rest)
      BY <3>1a, PendingTail
    <3>3. IF w.cmd = "append" /\ w.file = file
          THEN PendingTo(file, todo) = PendingTo(file, rest) \cup {w.line}
          ELSE PendingTo(file, todo) = PendingTo(file, rest)
      BY <3>1a, <3>2, Zenon DEF t
    <3> QED BY <2>2, <3>3 DEF Pending, rest
  <2> HIDE DEF w
  <2>6. ASSUME NEW g \in 1..lastFile, g # w.file
        PROVE  Content(g)' = Content(g)
    <3>1. WriteLine(Content(w.file), w.line) \in ContentsTo(lastId)
          /\ NoFile \in ContentsTo(lastId)
      <4>1. Content(w.file) \in ContentsTo(lastId)
        BY ContentTyped
      <4>2. WriteLine(Content(w.file), w.line) \in ContentsTo(lastId)
        BY <1>0, <4>1, WriteLineFacts
      <4>3. NoFile \in ContentsTo(lastId)
        BY DEF NoFile, ContentsTo
      <4> QED BY <4>2, <4>3
    <3> QED BY <1>0, <2>1, <2>6, <3>1, PutTyped
  <2>7. CASE w.file # file
    <3>1. Pending = {} /\ ~CutsOff
      BY <1>0, <2>7, OtherFile DEF Keeps, w
    <3>2. Pending' = {} /\ PendingEntries = {} /\ PendingEntries' = {}
      BY <2>5, <3>1 DEF PendingEntries
    <3>3. Content(file)' = Content(file) /\ (Intact(file)' => Intact(file))
      BY <1>0, <2>2, <2>6, <2>7 DEF Typed, Counted, Intact
    <3>4. WhileWhole'
      BY <1>0, <2>2, <3>1, <3>2, <3>3 DEF Keeps, WhileWhole
    <3> QED BY <2>3, <2>4, <3>4 DEF Keeps
  <2>8. CASE w.file = file /\ w.cmd = "append"
    <3> DEFINE c == Content(file)
    <3>1. c \in ContentsTo(lastId)
      BY ContentTyped
    <3>2. Content(file)' = WriteLine(c, w.line)
      <4>1. Put(file, WriteLine(c, w.line)) /\ WriteLine(c, w.line) \in ContentsTo(lastId)
        BY <1>0, <2>1, <2>8, <3>1, WriteLineFacts
      <4>2. PICK f \in 1..lastFile : f = file
        BY <1>0, <2>8
      <4> HIDE DEF c
      <4>3. Content(f)' = WriteLine(c, w.line)
        BY <4>1, <4>2, PutTyped
      <4> QED BY <2>2, <4>2, <4>3 DEF Content
    <3>3. SUFFICES ASSUME Intact(file)'
                   PROVE  LET lines == Content(file)'.lines
                          IN  /\ Entries(lines) \cup PendingEntries' \subseteq Entries(mem)
                              /\ flushed => Entries(lines) \cup PendingEntries' = Entries(mem)
                              /\ lines # <<>> /\ lines[1].type = "session"
      BY <2>2, <2>3, <2>4 DEF Keeps, WhileWhole
    <3>4. ~c.open /\ Content(file)'.lines = Append(L, w.line)
      <4>1. TornLine \notin ToSet(WriteLine(c, w.line).lines)
        BY <3>2, <3>3 DEF Intact, TornLine, Line
      <4>2. ~c.open
        BY <1>0, <3>1, <4>1, WriteLineFacts
      <4> HIDE DEF c
      <4>3. WriteLine(c, w.line).lines = Append(c.lines, w.line)
        BY <1>0, <3>1, <4>2, WriteLineFacts
      <4> QED BY <3>2, <4>2, <4>3 DEF c
    <3>5. L \in Seq(LinesTo(lastId))
      BY <3>1 DEF ContentsTo
    <3> HIDE DEF c, L
    <3>6. /\ ToSet(Append(L, w.line)) = ToSet(L) \cup {w.line}
          /\ Entries(Append(L, w.line)) = Entries(L) \cup (IF IsEntry(w.line) THEN {w.line}
             ELSE {})
          /\ Append(L, w.line)[1] = IF L = <<>> THEN w.line ELSE L[1]
          /\ Append(L, w.line) # <<>>
      BY <3>5, EntriesFacts
    <3>7. Intact(file)
      BY <3>3, <3>4, <3>6 DEF Intact, L
    <3>8. ~CutsOff
      BY <2>8 DEF CutsOff, Cuts, w
    <3>9. /\ Entries(L) \cup PendingEntries \subseteq Entries(mem)
          /\ flushed => Entries(L) \cup PendingEntries = Entries(mem)
          /\ L # <<>> => L[1].type = "session"
          /\ L = <<>> /\ Pending # {} => w.line.type = "session"
      BY <1>0, <3>7, <3>8 DEF Keeps, WhileWhole, L, w
    <3>10. /\ Pending = Pending' \cup {w.line}
           /\ PendingEntries = PendingEntries' \cup (IF IsEntry(w.line) THEN {w.line} ELSE {})
      <4>1. Pending = Pending' \cup {w.line}
        BY <2>5, <2>8
      <4> QED BY <4>1 DEF PendingEntries
    <3> DEFINE new == Append(L, w.line)
    <3> HIDE DEF new
    <3>11. /\ Entries(new) \cup PendingEntries' = Entries(L) \cup PendingEntries
           /\ new # <<>> /\ new[1].type = "session"
      BY <3>6, <3>9, <3>10 DEF new
    <3>12. Content(file)'.lines = new
      BY <3>4 DEF new
    <3> QED BY <3>9, <3>11, <3>12
  <2>9. CASE w.file = file /\ w.cmd = "truncate"
    <3>1. Content(file)'.lines = <<>>
      <4>1. Put(file, NoFile) /\ NoFile \in ContentsTo(lastId)
        BY <2>1, <2>9 DEF NoFile, ContentsTo
      <4>2. PICK f \in 1..lastFile : f = file
        BY <1>0, <2>9
      <4>3. Content(f)' = NoFile
        BY <4>1, <4>2, PutTyped
      <4> QED BY <2>2, <4>2, <4>3 DEF Content, NoFile
    <3>2. CutsOff
      BY <1>0, <2>9 DEF CutsOff, Cuts, w
    <3>3. /\ Len(todo) >= 2 /\ todo[2].line.type = "session"
          /\ PendingEntries = Entries(mem)
      BY <3>2 DEF Keeps, WhileCutOff
    <3>4. Pending' = Pending /\ PendingEntries' = PendingEntries
      BY <2>5, <2>9 DEF PendingEntries
    <3>5. /\ Len(todo) \in Nat /\ todo'[1] = todo[2]
          /\ 2 \in 1..Len(todo) /\ DOMAIN todo = 1..Len(todo)
      <4> DEFINE t == todo
                 rest == todo'
      <4>1. t \in Seq(WritesTo(lastId, lastFile)) /\ t # <<>> /\ rest = Tail(t) /\ Len(t) >= 2
        BY <1>0, <2>1, <3>3
      <4> HIDE DEF t, rest
      <4>2. /\ Len(t) \in Nat /\ Len(rest) = Len(t) - 1 /\ DOMAIN t = 1..Len(t)
            /\ \A i \in 1..Len(rest) : rest[i] = t[i + 1]
        BY <4>1, TailFacts
      <4>3. 1 \in 1..Len(rest) /\ 2 \in 1..Len(t) /\ 1 + 1 = 2
        BY <4>1, <4>2
      <4>4. rest[1] = t[2]
        BY <4>2, <4>3
      <4> QED BY <4>2, <4>3, <4>4 DEF t, rest
    <3>6. todo[2].file = file /\ todo[2].cmd = "append"
      <4>1. /\ \A i \in 1..Len(todo) :
                 /\ todo[i].file = todo[Len(todo)].file
                 /\ todo[i].cmd = "truncate" => i = 1
                 /\ todo[i].cmd = "open" => i = Len(todo)
            /\ todo[Len(todo)].cmd = "open" <=> todo[1].file # file
        BY <1>0 DEF Keeps, InOneFile
      <4>2. 1 \in 1..Len(todo) /\ todo[1].file = file
        BY <2>9, <3>5 DEF w
      <4>3. todo[2] \in WritesTo(lastId, lastFile)
        BY <1>0, <3>5
      <4>4. todo[2].cmd \in {"append", "truncate", "open"}
        BY <4>3 DEF WritesTo
      <4>5. Len(todo) \in 1..Len(todo)
        BY <3>5
      <4>6. todo[Len(todo)].file = file /\ todo[Len(todo)].cmd # "open"
        BY <4>1, <4>2
      <4>7. todo[2].file = file /\ todo[2].cmd # "truncate" /\ todo[2].cmd # "open"
        <5>1. 2 \in 1..Len(todo) /\ 2 # 1
          BY <3>5
        <5>2. /\ todo[2].file = todo[Len(todo)].file
              /\ todo[2].cmd # "truncate"
              /\ todo[2].cmd = "open" => 2 = Len(todo)
          BY <4>1, <5>1, Zenon
        <5> QED BY <4>6, <5>2, Zenon
      <4> QED BY <4>4, <4>7
    <3>7. todo[2].line \in Pending
      <4>1. todo[2] \in ToSet(todo)
        BY <3>5 DEF ToSet
      <4> QED BY <3>6, <4>1 DEF Pending, PendingTo
    <3>8. Entries(<<>>) = {}
      BY DEF Entries, ToSet
    <3>9. WhileWhole'
      BY <2>2, <3>1, <3>3, <3>4, <3>5, <3>7, <3>8 DEF WhileWhole
    <3> QED BY <2>3, <2>4, <3>9 DEF Keeps
  <2> QED BY <2>1, <2>7, <2>8, <2>9
<1> QED BY <1>1, <1>2

\* Nothing is in memory after a crash.
LEMMA CrashKeeps ==
  ASSUME Crash
  PROVE  Keeps'
<1>1. file' = 0 /\ mem' = <<>> /\ todo' = <<>>
  BY DEF Crash
<1>2. ~CutsOff'
  BY <1>1, EmptyTodo DEF CutsOff
<1>3. ~HasAssistant(mem')
  BY <1>1 DEF HasAssistant, ToSet
<1> QED BY <1>1, <1>2, <1>3 DEF Keeps, InOneFile, InMemory, WhileCutOff, WhileWhole

LEMMA AppendMessageKeeps ==
  ASSUME Typed, Typed', Keeps, AppendMessage
  PROVE  Keeps'
<1>1. PICK type \in {"user", "assistant", "note"} :
        AppendEntry(Line(type, NewId, leaf, 0, FALSE))
  BY DEF AppendMessage
<1> DEFINE e == Line(type, NewId, leaf, 0, FALSE)
<1>2. e \in KeptTo(lastId + 1) /\ e.id = lastId + 1 /\ IsEntry(e)
  <2>1. leaf \in 0..lastId /\ lastId \in Nat /\ MaxId \in Nat
    BY IdsTyped, SessionAssumption DEF Typed, Counted, MemTyped
  <2> QED BY <2>1 DEF Line, NewId, KeptTo, LinesTo, Types, IsEntry
<1> HIDE DEF e
<1>3. Ready /\ NewId <= MaxId /\ AppendEntry(e) /\ lastId' = lastId + 1
  BY <1>1, <1>2 DEF AppendMessage, AppendEntry, e
<1>4. ToSet(mem') = ToSet(mem) \cup {e} /\ (mem # <<>> => mem'[1] = mem[1])
  BY <1>2, <1>3, AppendEntryTyped
<1> QED BY <1>2, <1>3, <1>4, AppendEntryKeeps

LEMMA AppendLabelChangeKeeps ==
  ASSUME Typed, Typed', Keeps, AppendLabelChange
  PROVE  Keeps'
<1>1. PICK target \in Ids(mem), set \in BOOLEAN :
        AppendEntry(Line("label", NewId, leaf, target, set))
  BY DEF AppendLabelChange
<1> DEFINE e == Line("label", NewId, leaf, target, set)
<1>2. e \in KeptTo(lastId + 1) /\ e.id = lastId + 1 /\ IsEntry(e)
  <2>1. /\ leaf \in 0..lastId /\ target \in 1..lastId /\ lastId \in 0..MaxId
        /\ MaxId \in Nat
    BY IdsTyped, SessionAssumption DEF Typed, Counted, MemTyped
  <2>2. target \in 0..(MaxId + 3) /\ target \in 1..(lastId + 1)
    BY <2>1
  <2> QED BY <2>1, <2>2 DEF Line, NewId, KeptTo, LinesTo, Types, IsEntry
<1> HIDE DEF e
<1>3. Ready /\ NewId <= MaxId /\ AppendEntry(e) /\ lastId' = lastId + 1
  BY <1>1, <1>2 DEF AppendLabelChange, AppendEntry, e
<1>4. ToSet(mem') = ToSet(mem) \cup {e} /\ (mem # <<>> => mem'[1] = mem[1])
  BY <1>2, <1>3, AppendEntryTyped
<1> QED BY <1>2, <1>3, <1>4, AppendEntryKeeps

LEMMA BranchWithSummaryKeeps ==
  ASSUME Typed, Typed', Keeps, BranchWithSummary
  PROVE  Keeps'
<1>1. PICK from \in BranchPoints : AppendEntry(Line("note", NewId, from, 0, FALSE))
  BY DEF BranchWithSummary
<1> DEFINE e == Line("note", NewId, from, 0, FALSE)
<1>2. e \in KeptTo(lastId + 1) /\ e.id = lastId + 1 /\ IsEntry(e)
  <2>1. from \in 0..lastId /\ lastId \in Nat /\ MaxId \in Nat
    BY IdsTyped, SessionAssumption DEF Typed, Counted, MemTyped, BranchPoints
  <2> QED BY <2>1 DEF Line, NewId, KeptTo, LinesTo, Types, IsEntry
<1> HIDE DEF e
<1>3. Ready /\ NewId <= MaxId /\ AppendEntry(e) /\ lastId' = lastId + 1
  BY <1>1, <1>2 DEF BranchWithSummary, AppendEntry, e
<1>4. ToSet(mem') = ToSet(mem) \cup {e} /\ (mem # <<>> => mem'[1] = mem[1])
  BY <1>2, <1>3, AppendEntryTyped
<1> QED BY <1>2, <1>3, <1>4, AppendEntryKeeps

LEMMA NewSessionKeeps ==
  ASSUME Typed, NewSession
  PROVE  Keeps'
<1>1. lastFile \in Nat /\ DOMAIN disk \subseteq 1..lastFile
  BY SessionAssumption DEF Typed, Counted, DiskTyped
<1>2. /\ file' = lastFile + 1 /\ mem' = <<Header>> /\ flushed' = FALSE /\ todo' = <<>>
      /\ disk' = disk
  BY DEF NewSession, Fresh
<1>3. lastFile + 1 \in Nat \ {0} /\ lastFile + 1 \notin DOMAIN disk'
  BY <1>1, <1>2
<1> QED BY <1>2, <1>3, FreshKeeps

LEMMA OpenSessionKeeps ==
  ASSUME Typed, Typed', OpenSession
  PROVE  Keeps'
<1>1. PICK f \in DOMAIN disk : SetSessionFile(f, <<>>)
  BY DEF OpenSession
<1>2. f \in 1..lastFile
  BY DEF Typed, DiskTyped
<1> QED BY <1>1, <1>2, SetSessionFileKeeps DEF OpenSession

\* Nothing is in memory when the program starts.
LEMMA InitKeeps == Init => Keeps
<1> SUFFICES ASSUME Init PROVE Keeps
  OBVIOUS
<1>1. todo = <<>> /\ mem = <<>> /\ file = 0
  BY DEF Init
<1>2. ~CutsOff
  BY <1>1, EmptyTodo DEF CutsOff
<1>3. ~HasAssistant(mem)
  BY <1>1 DEF HasAssistant, ToSet
<1> QED BY <1>1, <1>2, <1>3 DEF Keeps, InOneFile, InMemory, WhileCutOff, WhileWhole

\* Every step keeps file and memory together.
LEMMA NextKeeps ==
  ASSUME Typed, Typed', Keeps, [Next]_vars
  PROVE  Keeps'
<1>1. CASE UNCHANGED vars
  <2>1. UNCHANGED <<disk, todo, mem, flushed, file, lastFile>>
    BY <1>1 DEF vars, manager
  <2> QED BY <2>1, SameKeeps
<1>2. CASE Branch
  BY <1>2, SameKeeps DEF Branch
<1>3. CASE Next
  BY <1>2, <1>3, AppendMessageKeeps, AppendLabelChangeKeeps, BranchWithSummaryKeeps,
     NewSessionKeeps, OpenSessionKeeps, ForkKeeps, WriteNextKeeps, CrashKeeps DEF Next
<1> QED BY <1>1, <1>3

\* The files and the memory of a manager agree.
LEMMA KeepsDurable ==
  ASSUME Typed, Keeps
  PROVE  Durable
<1> SUFFICES ASSUME HasAssistant(mem), Intact(file)
             PROVE  { e \in ToSet(Load(Content(file))) \cup PendingTo(file, todo) : IsEntry(e) }
                      = Entries(mem)
  BY DEF Durable, PendingTo, Entries
<1> DEFINE loaded == Load(Content(file))
           lines == Content(file).lines
<1>0. { e \in ToSet(loaded) \cup PendingTo(file, todo) : IsEntry(e) }
        = Entries(loaded) \cup PendingEntries
  BY DEF Entries, PendingEntries, Pending
<1>1. flushed /\ mem # <<>> /\ file # 0
  <2>1. mem # <<>>
    BY DEF HasAssistant, ToSet
  <2> QED BY <2>1 DEF Keeps, InMemory, InOneFile
<1>1a. SUFFICES Entries(loaded) \cup PendingEntries = Entries(mem)
  BY <1>0
<1>2. CASE CutsOff
  <2>1. PendingEntries = Entries(mem) /\ Entries(loaded) \subseteq Entries(mem)
    BY <1>2 DEF Keeps, WhileCutOff
  <2> HIDE DEF loaded
  <2> QED BY <2>1
<1>3. CASE ~CutsOff
  <2>1. /\ Entries(lines) \cup PendingEntries = Entries(mem)
        /\ lines # <<>> => lines[1].type = "session"
    BY <1>1, <1>3 DEF Keeps, WhileWhole
  <2>2. Content(file) \in ContentsTo(lastId) /\ lastId \in Nat
    BY ContentTyped, SessionAssumption DEF Typed, Counted
  <2>3. \A line \in ToSet(lines) : line.type # "torn"
    BY DEF Intact
  <2>4. loaded = IF lines # <<>> /\ lines[1].type = "session" THEN lines ELSE <<>>
    BY <2>2, <2>3, LoadFacts
  <2> HIDE DEF loaded, lines
  <2>5. loaded = lines
    BY <2>1, <2>4
  <2> QED BY <2>1, <2>5
<1> QED BY <1>2, <1>3

\* Labelled, put as the property puts it.
LEMMA LabelledSo ==
  ASSUME Typed, Labelled
  PROVE  LabelsAreTheirEntries
<1>1. mem \in Seq(KeptTo(lastId)) /\ lastId \in 0..MaxId /\ MaxId \in Nat
  BY SessionAssumption DEF Typed, Counted, MemTyped
<1>2. /\ DOMAIN mem = 1..Len(mem) /\ Len(mem) \in Nat
      /\ \A i \in 1..Len(mem) : mem[i].type = "label" => mem[i].ref \in 1..MaxId
  BY <1>1 DEF KeptTo, LinesTo
<1>3. \A i \in 1..Len(mem) : \A j \in 1..Len(mem) : j > i <=> j \in (i + 1)..Len(mem)
  BY <1>2
<1>4. \A i \in 1..Len(mem) : \A j \in (i + 1)..Len(mem) : j \in 1..Len(mem)
  BY <1>2
<1>5. labels = { mem[i].ref : i \in { i \in 1..Len(mem) :
                 /\ mem[i].type = "label" /\ mem[i].set
                 /\ \A j \in (i + 1)..Len(mem) :
                      mem[j].type = "label" => mem[j].ref # mem[i].ref } }
  BY <1>2, <1>3, <1>4 DEF Labelled, LabelsAt
<1> QED BY <1>2, <1>5 DEF LabelsAreTheirEntries

\* The invariant, from its start and its steps.
LEMMA SessionInvariance == Spec => [](Typed /\ Labelled /\ Keeps)
<1>1. Init => Typed /\ Labelled /\ Keeps
  BY InitTyped, InitKeeps
<1>2. Typed /\ Labelled /\ Keeps /\ [Next]_vars => (Typed /\ Labelled /\ Keeps)'
  BY NextTyped, NextKeeps
<1> QED BY <1>1, <1>2, PTL DEF Spec

\* What there can be when lastId is the last id is among what there can be at all.
LEMMA TypedSo ==
  ASSUME Typed, Labelled
  PROVE  TypeOK
<1>1. /\ lastId \in 0..MaxId /\ lastId \in Nat /\ MaxId \in Nat /\ lastId <= MaxId
      /\ lastFile \in 0..MaxFile /\ lastFile \in Nat /\ MaxFile \in Nat /\ lastFile <= MaxFile
      /\ file \in 0..MaxFile /\ 1..lastFile \subseteq 1..MaxFile
  BY SessionAssumption DEF Typed, Counted
<1>2. /\ LinesTo(lastId) \subseteq Lines /\ WritesTo(lastId, lastFile) \subseteq Writes
  BY <1>1, LinesGrow DEF Lines, Writes, WritesTo
<1>3. \A f \in DOMAIN disk : disk[f].lines \in Seq(Lines) /\ disk[f].open \in BOOLEAN
  BY <1>2, SeqGrows DEF Typed, DiskTyped, ContentsTo
<1>4. todo \in Seq(Writes)
  BY <1>2, SeqGrows DEF Typed, TodoTyped
<1>5. mem \in Seq({ line \in Lines : line.type # "torn" })
  BY <1>2, SeqGrows DEF Typed, MemTyped, KeptTo
<1>6. labels \subseteq 1..MaxId
  <2>1. \A i \in DOMAIN mem : mem[i].type = "label" => mem[i].ref \in 1..MaxId
    BY <1>5 DEF Lines, LinesTo
  <2> QED BY <2>1 DEF Labelled, LabelsAt
<1>7. DOMAIN disk \subseteq 1..MaxFile /\ leaf \in Ids(mem) \cup {0} /\ flushed \in BOOLEAN
  BY <1>1 DEF Typed, Counted, DiskTyped, MemTyped
<1> QED BY <1>1, <1>3, <1>4, <1>5, <1>6, <1>7 DEF TypeOK
(***************************************************************************)
(* The lock is held by at most one process that writes, and what it is      *)
(* about to write over is what it has read.                                *)
(***************************************************************************)
Writing(p) == settingsPc[p] \in {"unlocked", "locked"}

LockInv == \A p \in Processes : settingsPc[p] = "locked" => settingsLock = p
TaskInv == \A p \in Processes : Writing(p) => settingsTasks[p] # <<>>
AbsentInv == ~S!Exists => settingsFile.settings = S!Empty
LateInv == \A p \in Processes : settingsPc[p] = "unlocked" => settingsView[p] = S!Empty
ViewInv == ~settingsHarmed =>
  \A p \in Processes : settingsPc[p] = "locked" => settingsView[p] = settingsFile.settings

KInv == S!TypeOK /\ LockInv /\ TaskInv /\ AbsentInv /\ LateInv /\ ViewInv /\ S!SettingsKept

(***************************************************************************)
(* What is remembered has been in the file, or a write that brings it there *)
(* is queued.                                                              *)
(***************************************************************************)
WasSaved(value) == value \in settingsSaved \cup {S!Unset}
Queued(p, k) ==
  \E i \in 1..Len(settingsTasks[p]) : /\ k \in settingsTasks[p][i].fields
                                      /\ settingsTasks[p][i].settings[k] = settingsMemory[p][k]

FileSaved == \A k \in Keys : WasSaved(settingsFile.settings[k])
ViewSaved == \A p \in Processes, k \in Keys : WasSaved(settingsView[p][k])
MemorySaved ==
  \A p \in Processes : settingsPc[p] # "off" /\ ~settingsLoadError[p] /\ ~settingsFailed[p] =>
    \A k \in Keys : WasSaved(settingsMemory[p][k]) \/ Queued(p, k)

SInv == FileSaved /\ ViewSaved /\ MemorySaved

(***************************************************************************)
(* Types.                                                                  *)
(***************************************************************************)
LEMMA EmptyType == S!Empty \in [Keys -> Nat]
BY DEF S!Empty, S!Unset

LEMMA MergeType ==
  ASSUME S!TypeOK, NEW p \in Processes, settingsTasks[p] # <<>>
  PROVE  /\ Head(settingsTasks[p]) \in S!Snapshots
         /\ Tail(settingsTasks[p]) \in Seq(S!Snapshots)
         /\ S!Merge(p) \in [Keys -> Nat]
         /\ \A k \in Keys : S!Merge(p)[k] = IF k \in Head(settingsTasks[p]).fields
                                            THEN Head(settingsTasks[p]).settings[k]
                                            ELSE settingsView[p][k]
<1>1. settingsTasks[p] \in Seq(S!Snapshots) /\ settingsView[p] \in [Keys -> Nat]
  BY DEF S!TypeOK
<1>2. Head(settingsTasks[p]) \in S!Snapshots /\ Tail(settingsTasks[p]) \in Seq(S!Snapshots)
  BY <1>1
<1>3. Head(settingsTasks[p]).settings \in [Keys -> Nat]
  BY <1>2 DEF S!Snapshots
<1> QED BY <1>1, <1>2, <1>3 DEF S!Merge, S!Marked

LEMMA InitTypes == S!Init => S!TypeOK
<1> SUFFICES ASSUME S!Init PROVE S!TypeOK
  OBVIOUS
<1>1. <<>> \in Seq(S!Snapshots)
  OBVIOUS
<1> QED BY <1>1, EmptyType DEF S!Init, S!TypeOK, S!Absent

LEMMA StepTypes == S!TypeOK /\ TaskInv /\ [S!Next]_S!vars => S!TypeOK'
<1> SUFFICES ASSUME S!TypeOK, TaskInv, [S!Next]_S!vars PROVE S!TypeOK'
  OBVIOUS
<1> USE EmptyType
<1>load. ASSUME NEW p \in Processes, S!LoadOk(p)
      PROVE settingsMemory' \in [Processes -> [Keys -> Nat]]
  BY <1>load DEF S!LoadOk, S!TypeOK
<1>1. CASE UNCHANGED S!vars
  BY <1>1 DEF S!vars, S!TypeOK
<1>2. ASSUME NEW p \in Processes, S!Create(p) PROVE S!TypeOK'
  <2>1. <<>> \in Seq(S!Snapshots)
    OBVIOUS
  <2>2. settingsMemory' \in [Processes -> [Keys -> Nat]]
    BY <1>2, <1>load DEF S!Create, S!TypeOK
  <2>3. settingsLoadError' \in [Processes -> BOOLEAN] /\ settingsFailed' \in [Processes -> BOOLEAN]
    BY <1>2 DEF S!Create, S!LoadOk, S!LoadFails, S!TypeOK
  <2>4. settingsTasks' \in [Processes -> Seq(S!Snapshots)]
    BY <1>2, <2>1 DEF S!Create, S!TypeOK
  <2> QED BY <1>2, <2>2, <2>3, <2>4 DEF S!Create, S!TypeOK
<1>3. ASSUME NEW p \in Processes, S!Reload(p) PROVE S!TypeOK'
  <2>1. settingsMemory' \in [Processes -> [Keys -> Nat]]
    BY <1>3, <1>load DEF S!Reload, S!TypeOK
  <2>2. settingsLoadError' \in [Processes -> BOOLEAN] /\ settingsFailed' \in [Processes -> BOOLEAN]
    BY <1>3 DEF S!Reload, S!LoadOk, S!LoadFails, S!TypeOK
  <2>3. settingsModified' \in [Processes -> SUBSET Keys]
    BY <1>3 DEF S!Reload, S!TypeOK
  <2>4. settingsCrashes' \in Nat /\ UNCHANGED <<settingsFile, settingsLock, settingsPc,
        settingsTasks, settingsView, settingsSets, settingsLast, settingsSaved, settingsHarmed>>
    BY <1>3 DEF S!Reload, S!TypeOK
  <2> QED BY <2>1, <2>2, <2>3, <2>4 DEF S!TypeOK
<1>4. ASSUME NEW p \in Processes, S!Set(p) PROVE S!TypeOK'
  <2>1. PICK keys \in SUBSET Keys :
          /\ settingsMemory' = [settingsMemory EXCEPT ![p] = [k \in Keys |-> 
                                                 IF k \in keys THEN settingsSets' ELSE @[k]]]
          /\ settingsModified' = [settingsModified EXCEPT ![p] = @ \cup keys]
    BY <1>4 DEF S!Set
  <2>2. settingsSets' \in Nat
    BY <1>4 DEF S!Set, S!TypeOK
  <2>3. settingsMemory' \in [Processes -> [Keys -> Nat]]
    BY <2>1, <2>2 DEF S!TypeOK
  <2>4. settingsModified' \in [Processes -> SUBSET Keys]
    BY <2>1 DEF S!TypeOK
  <2>5. [settings |-> settingsMemory'[p], fields |-> settingsModified'[p]] \in S!Snapshots
    BY <2>3, <2>4 DEF S!Snapshots
  <2>6. settingsTasks' \in [Processes -> Seq(S!Snapshots)]
    <3>1. CASE settingsLoadError[p]
      BY <1>4, <3>1 DEF S!Set, S!Save, S!TypeOK
    <3>2. CASE ~settingsLoadError[p]
      <4>1. Append(settingsTasks[p], [settings |-> settingsMemory'[p],
            fields |-> settingsModified'[p]]) \in Seq(S!Snapshots)
        BY <2>5 DEF S!TypeOK
      <4> QED BY <1>4, <3>2, <4>1 DEF S!Set, S!Save, S!TypeOK
    <3> QED BY <3>1, <3>2
  <2> QED BY <1>4, <2>2, <2>3, <2>4, <2>6 DEF S!Set, S!TypeOK
<1>5. ASSUME NEW p \in Processes, S!BeginWrite(p) \/ S!LockLate(p) PROVE S!TypeOK'
  BY <1>5 DEF S!BeginWrite, S!LockLate, S!TypeOK
<1>6. ASSUME NEW p \in Processes, S!Write(p) PROVE S!TypeOK'
  <2>1. settingsTasks[p] # <<>>
    BY <1>6 DEF S!Write, TaskInv, Writing
  <2>2. S!Merge(p) \in [Keys -> Nat]
    BY <2>1, MergeType
  <2>3. Head(settingsTasks[p]).settings \in [Keys -> Nat] /\ S!Marked(p) \subseteq Keys
    BY <2>1, MergeType DEF S!Snapshots, S!Marked
  <2>4. settingsTasks' \in [Processes -> Seq(S!Snapshots)]
    BY <1>6, <2>1, MergeType DEF S!Write, S!TypeOK
  <2>5. settingsLast' \in [Keys -> Nat] /\ settingsSaved' \subseteq Nat
    BY <1>6, <2>3 DEF S!Write, S!TypeOK
  <2> QED BY <1>6, <2>2, <2>4, <2>5 DEF S!Write, S!Whole, S!TypeOK
<1>7. ASSUME NEW p \in Processes, S!WriteFails(p) PROVE S!TypeOK'
  <2>1. settingsTasks' \in [Processes -> Seq(S!Snapshots)]
    BY <1>7, MergeType DEF S!WriteFails, S!TypeOK
  <2> QED BY <1>7, <2>1 DEF S!WriteFails, S!TypeOK
<1>8. ASSUME NEW p \in Processes, S!Crash(p) PROVE S!TypeOK'
  <2>1. CASE UNCHANGED <<settingsFile, settingsHarmed>>
    BY <1>8, <2>1 DEF S!Crash, S!TypeOK
  <2>2. ASSUME NEW state \in {"empty", "partial"},
               settingsFile' = [state |-> state, settings |-> S!Empty], settingsHarmed' = TRUE
        PROVE  S!TypeOK'
    <3>1. settingsFile' \in [state : {"absent", "empty", "partial", "whole"}, settings :
          [Keys -> Nat]]
      BY <2>2
    <3> QED BY <1>8, <2>2, <3>1 DEF S!Crash, S!TypeOK
  <2> QED BY <1>8, <2>1, <2>2 DEF S!Crash
<1> QED BY <1>1, <1>2, <1>3, <1>4, <1>5, <1>6, <1>7, <1>8 DEF S!Next

(***************************************************************************)
(* The lock, and what is written over.                                     *)
(***************************************************************************)
LEMMA InitKept == S!Init => KInv
<1> SUFFICES ASSUME S!Init PROVE KInv
  OBVIOUS
<1>1. S!TypeOK
  BY InitTypes
<1>2. LockInv /\ TaskInv /\ AbsentInv /\ LateInv /\ ViewInv /\ S!SettingsKept
  BY DEF S!Init, LockInv, TaskInv, Writing, AbsentInv, LateInv, ViewInv, S!SettingsKept,
         S!Exists, S!Absent
<1> QED BY <1>1, <1>2 DEF KInv

LEMMA StepLocks == KInv /\ [S!Next]_S!vars => LockInv' /\ TaskInv'
<1> SUFFICES ASSUME S!TypeOK, LockInv, TaskInv, [S!Next]_S!vars PROVE LockInv' /\ TaskInv'
  BY DEF KInv
<1>1. CASE UNCHANGED S!vars
  BY <1>1 DEF S!vars, LockInv, TaskInv, Writing
<1>2. ASSUME NEW p \in Processes, S!Create(p) \/ S!Reload(p) \/ S!Set(p) \/ S!Crash(p)
      PROVE  LockInv' /\ TaskInv'
  <2>1. LockInv'
    BY <1>2 DEF LockInv, S!TypeOK, S!Create, S!Reload, S!Set, S!Crash
  <2>2. ASSUME NEW q \in Processes, Writing(q)' PROVE settingsTasks'[q] = settingsTasks[q]
        /\ Writing(q)
    BY <1>2, <2>2 DEF Writing, S!TypeOK, S!Create, S!Reload, S!Set, S!Save, S!Crash
  <2> QED BY <2>1, <2>2 DEF TaskInv
<1>3. ASSUME NEW p \in Processes, S!BeginWrite(p) \/ S!LockLate(p) PROVE LockInv' /\ TaskInv'
  <2>1. LockInv'
    BY <1>3 DEF LockInv, S!TypeOK, S!BeginWrite, S!LockLate, S!Free
  <2>2. TaskInv'
    BY <1>3 DEF TaskInv, Writing, S!TypeOK, S!BeginWrite, S!LockLate
  <2> QED BY <2>1, <2>2
<1>4. ASSUME NEW p \in Processes, S!Write(p) PROVE LockInv' /\ TaskInv'
  <2>1. \A q \in Processes : settingsPc'[q] # "locked"
    BY <1>4 DEF LockInv, S!TypeOK, S!Write
  <2>2. ASSUME NEW q \in Processes, Writing(q)' PROVE settingsTasks'[q] = settingsTasks[q]
        /\ Writing(q)
    BY <1>4, <2>2 DEF Writing, S!TypeOK, S!Write
  <2> QED BY <2>1, <2>2 DEF LockInv, TaskInv
<1>5. ASSUME NEW p \in Processes, S!WriteFails(p) PROVE LockInv' /\ TaskInv'
  <2>1. LockInv'
    BY <1>5 DEF LockInv, S!TypeOK, S!WriteFails
  <2>2. ASSUME NEW q \in Processes, Writing(q)' PROVE settingsTasks'[q] = settingsTasks[q]
        /\ Writing(q)
    BY <1>5, <2>2 DEF Writing, S!TypeOK, S!WriteFails
  <2> QED BY <2>1, <2>2 DEF TaskInv
<1> QED BY <1>1, <1>2, <1>3, <1>4, <1>5 DEF S!Next

LEMMA StepViews == KInv /\ [S!Next]_S!vars => AbsentInv' /\ LateInv' /\ ViewInv' /\ S!SettingsKept'
<1> DEFINE Goal == AbsentInv' /\ LateInv' /\ ViewInv' /\ S!SettingsKept'
<1> SUFFICES ASSUME KInv, [S!Next]_S!vars PROVE Goal
  OBVIOUS
<1> USE DEF KInv
<1>1. CASE UNCHANGED S!vars
  BY <1>1 DEF S!vars, AbsentInv, LateInv, ViewInv, S!SettingsKept, S!Exists
<1>2. ASSUME NEW p \in Processes, S!Create(p) \/ S!Reload(p) \/ S!Set(p)
      \/ S!WriteFails(p) PROVE Goal
  <2>1. UNCHANGED <<settingsFile, settingsView, settingsLast, settingsHarmed>>
    BY <1>2 DEF S!Create, S!Reload, S!Set, S!WriteFails
  <2>2. \A q \in Processes : Writing(q)' => settingsPc'[q] = settingsPc[q]
    BY <1>2 DEF Writing, S!TypeOK, S!Create, S!Reload, S!Set, S!WriteFails
  <2> QED BY <2>1, <2>2 DEF AbsentInv, LateInv, ViewInv, S!SettingsKept, S!Exists, Writing
<1>3. ASSUME NEW p \in Processes, S!BeginWrite(p) PROVE Goal
  <2>1. UNCHANGED <<settingsFile, settingsLast, settingsHarmed>>
    BY <1>3 DEF S!BeginWrite
  <2>2. settingsView'[p] = settingsFile.settings /\ (settingsPc'[p] = "unlocked" => ~S!Exists)
    BY <1>3 DEF S!BeginWrite, S!TypeOK
  <2>3. \A q \in Processes : q # p => settingsPc'[q] = settingsPc[q]
        /\ settingsView'[q] = settingsView[q]
    BY <1>3 DEF S!BeginWrite, S!TypeOK
  <2> QED BY <2>1, <2>2, <2>3 DEF AbsentInv, LateInv, ViewInv, S!SettingsKept, S!Exists
<1>4. ASSUME NEW p \in Processes, S!LockLate(p) PROVE Goal
  <2>1. UNCHANGED <<settingsFile, settingsView, settingsLast>>
        /\ settingsHarmed' = (settingsHarmed \/ S!Exists) /\ settingsPc[p] = "unlocked"
    BY <1>4 DEF S!LockLate
  <2>2. \A q \in Processes : q # p => settingsPc'[q] = settingsPc[q]
    BY <1>4 DEF S!LockLate, S!TypeOK
  <2>3. settingsPc'[p] = "locked"
    BY <1>4 DEF S!LockLate, S!TypeOK
  <2>4. ~settingsHarmed' => settingsView[p] = settingsFile.settings
    BY <2>1 DEF LateInv, AbsentInv
  <2> QED BY <2>1, <2>2, <2>3, <2>4 DEF AbsentInv, LateInv, ViewInv, S!SettingsKept, S!Exists
<1>5. ASSUME NEW p \in Processes, S!Write(p) PROVE Goal
  <2>1. settingsTasks[p] # <<>> /\ \A q \in Processes : settingsPc'[q] # "locked"
    BY <1>5 DEF S!Write, TaskInv, Writing, LockInv, S!TypeOK
  <2>2. settingsFile'.settings = S!Merge(p) /\ settingsFile'.state = "whole"
        /\ UNCHANGED <<settingsView, settingsHarmed>>
    BY <1>5 DEF S!Write, S!Whole
  <2>3. \A q \in Processes : settingsPc'[q] = "unlocked" => settingsPc[q] = "unlocked"
    BY <1>5 DEF S!Write, S!TypeOK
  <2>4. ASSUME ~settingsHarmed PROVE S!Merge(p) = settingsLast'
    <3>1. settingsView[p] = settingsLast
      BY <1>5, <2>4 DEF S!Write, ViewInv, S!SettingsKept
    <3>2. \A k \in Keys : S!Merge(p)[k] = settingsLast'[k]
      BY <1>5, <2>1, <3>1, MergeType DEF S!Write, S!Marked
    <3>3. S!Merge(p) \in [Keys -> Nat] /\ settingsLast' = [k \in Keys |-> settingsLast'[k]]
      BY <1>5, <2>1, MergeType DEF S!Write
    <3> QED BY <3>2, <3>3
  <2> QED BY <2>1, <2>2, <2>3, <2>4 DEF AbsentInv, LateInv, ViewInv, S!SettingsKept, S!Exists
<1>6. ASSUME NEW p \in Processes, S!Crash(p) PROVE Goal
  <2>1. UNCHANGED <<settingsView, settingsLast>> /\ \A q \in Processes : Writing(q)'
        => settingsPc'[q] = settingsPc[q]
    BY <1>6 DEF S!Crash, Writing, S!TypeOK
  <2>2. CASE UNCHANGED <<settingsFile, settingsHarmed>>
    BY <2>1, <2>2 DEF AbsentInv, LateInv, ViewInv, S!SettingsKept, S!Exists, Writing
  <2>3. CASE settingsHarmed' = TRUE /\ \E state \in {"empty", "partial"} :
                                settingsFile' = [state |-> state, settings |-> S!Empty]
    BY <2>1, <2>3 DEF AbsentInv, LateInv, ViewInv, S!SettingsKept, S!Exists, Writing
  <2> QED BY <1>6, <2>2, <2>3 DEF S!Crash
<1> QED BY <1>1, <1>2, <1>3, <1>4, <1>5, <1>6 DEF S!Next

LEMMA InvarianceKept == S!Spec => []KInv
<1>1. KInv /\ [S!Next]_S!vars => KInv'
  BY StepTypes, StepLocks, StepViews DEF KInv
<1> QED BY <1>1, InitKept, PTL DEF S!Spec

\* Every variable keeps its type, whatever is set, written, loaded and cut short.
THEOREM SettingsTyped == S!Spec => []S!TypeOK
<1>1. KInv => S!TypeOK
  BY DEF KInv
<1> QED BY <1>1, InvarianceKept, PTL

\* No process puts back an older value it happens to remember: unless two of them
\* create the file at once, or a crash cuts it short, the file holds of every key
\* what was written last by a process that had modified it.
LEMMA PutsNothingBack == S!Spec => []S!SettingsKept
<1>1. KInv => S!SettingsKept
  BY DEF KInv
<1> QED BY <1>1, InvarianceKept, PTL

(***************************************************************************)
(* What was set reaches the file.                                          *)
(***************************************************************************)
LEMMA InitSaved == S!Init => SInv
BY DEF S!Init, SInv, FileSaved, ViewSaved, MemorySaved, WasSaved, S!Absent, S!Empty, S!Unset

\* The file and what is read of it.
LEMMA StepFileSaved == KInv /\ SInv /\ [S!Next]_S!vars => FileSaved' /\ ViewSaved'
<1> SUFFICES ASSUME KInv, FileSaved, ViewSaved, [S!Next]_S!vars PROVE FileSaved' /\ ViewSaved'
  BY DEF SInv
<1>1. CASE UNCHANGED <<settingsFile, settingsView, settingsSaved>>
  BY <1>1 DEF FileSaved, ViewSaved, WasSaved
<1>2. ASSUME NEW p \in Processes, S!BeginWrite(p) PROVE FileSaved' /\ ViewSaved'
  BY <1>2 DEF S!BeginWrite, FileSaved, ViewSaved, WasSaved, KInv, S!TypeOK
<1>3. ASSUME NEW p \in Processes, S!Write(p) PROVE FileSaved' /\ ViewSaved'
  <2>1. settingsTasks[p] # <<>>
    BY <1>3 DEF S!Write, KInv, TaskInv, Writing
  <2>2. settingsFile'.settings = S!Merge(p) /\ UNCHANGED settingsView
        /\ settingsSaved \subseteq settingsSaved'
    BY <1>3 DEF S!Write, S!Whole
  <2>3. \A k \in Keys : S!Merge(p)[k] \in settingsSaved' \cup {S!Unset}
    BY <1>3, <2>1, MergeType DEF S!Write, S!Marked, WasSaved, ViewSaved, KInv
  <2> QED BY <2>2, <2>3 DEF FileSaved, ViewSaved, WasSaved
<1>4. ASSUME NEW p \in Processes, S!Crash(p) PROVE FileSaved' /\ ViewSaved'
  <2>1. UNCHANGED <<settingsView, settingsSaved>> /\ (settingsFile' = settingsFile
        \/ settingsFile'.settings = S!Empty)
    BY <1>4 DEF S!Crash
  <2>2. \A k \in Keys : S!Empty[k] = S!Unset
    BY DEF S!Empty
  <2> QED BY <2>1, <2>2 DEF FileSaved, ViewSaved, WasSaved
<1>5. ASSUME NEW p \in Processes, S!Create(p) \/ S!Reload(p) \/ S!Set(p) \/ S!LockLate(p)
      \/ S!WriteFails(p)
      PROVE  UNCHANGED <<settingsFile, settingsView, settingsSaved>>
  BY <1>5 DEF S!Create, S!Reload, S!Set, S!LockLate, S!WriteFails
<1> QED BY <1>1, <1>2, <1>3, <1>4, <1>5 DEF S!Next, S!vars

\* A process whose memory and queue stay has still saved or queued everything.
LEMMA SameMemory ==
  ASSUME MemorySaved, NEW p \in Processes, settingsPc[p] # "off", ~settingsLoadError[p],
         ~settingsFailed[p],
         settingsMemory'[p] = settingsMemory[p], settingsTasks'[p] = settingsTasks[p],
             settingsSaved \subseteq settingsSaved'
  PROVE  \A k \in Keys : (WasSaved(settingsMemory[p][k]) \/ Queued(p, k))'
BY DEF MemorySaved, WasSaved, Queued

LEMMA StepMemorySaved == KInv /\ SInv /\ [S!Next]_S!vars => MemorySaved'
<1> SUFFICES ASSUME KInv, SInv, [S!Next]_S!vars,
                    NEW q \in Processes, settingsPc'[q] # "off", ~settingsLoadError'[q],
                        ~settingsFailed'[q],
                    NEW k \in Keys
             PROVE  (WasSaved(settingsMemory[q][k]) \/ Queued(q, k))'
  BY DEF MemorySaved
<1> DEFINE Goal == (WasSaved(settingsMemory[q][k]) \/ Queued(q, k))'
<1> USE DEF KInv, SInv
<1>same. CASE /\ settingsPc[q] # "off" /\ ~settingsLoadError[q] /\ ~settingsFailed[q]
              /\ settingsMemory'[q] = settingsMemory[q]
                 /\ settingsTasks'[q] = settingsTasks[q] /\ settingsSaved \subseteq settingsSaved'
  BY <1>same, SameMemory
<1>loaded. ASSUME settingsMemory'[q] = settingsFile.settings, UNCHANGED settingsSaved PROVE Goal
  BY <1>loaded DEF FileSaved, WasSaved
<1>1. CASE UNCHANGED S!vars
  BY <1>1, <1>same DEF S!vars
<1>2. ASSUME NEW p \in Processes, S!Create(p) PROVE Goal
  <2>1. CASE p = q
    <3>1. S!LoadOk(p)
      BY <1>2, <2>1 DEF S!Create, S!LoadFails, S!TypeOK
    <3> QED BY <1>2, <2>1, <3>1, <1>loaded DEF S!Create, S!LoadOk, S!TypeOK
  <2>2. CASE p # q
    <3>1. settingsLoadError'[q] = settingsLoadError[q] /\ settingsFailed'[q] = settingsFailed[q]
      BY <1>2, <2>2 DEF S!Create, S!LoadOk, S!LoadFails, S!TypeOK
    <3>2. settingsMemory'[q] = settingsMemory[q]
      BY <1>2, <2>2 DEF S!Create, S!LoadOk, S!LoadFails, S!TypeOK
    <3>3. settingsPc'[q] = settingsPc[q] /\ settingsTasks'[q] = settingsTasks[q]
          /\ settingsSaved' = settingsSaved
      BY <1>2, <2>2 DEF S!Create, S!TypeOK
    <3> QED BY <3>1, <3>2, <3>3, <1>same
  <2> QED BY <2>1, <2>2
<1>3. ASSUME NEW p \in Processes, S!Reload(p) PROVE Goal
  <2>1. CASE p = q
    <3>1. S!LoadOk(p)
      BY <1>3, <2>1 DEF S!Reload, S!LoadFails, S!TypeOK
    <3> QED BY <1>3, <2>1, <3>1, <1>loaded DEF S!Reload, S!LoadOk, S!TypeOK
  <2>2. CASE p # q
    <3>1. settingsLoadError'[q] = settingsLoadError[q] /\ settingsFailed'[q] = settingsFailed[q]
      BY <1>3, <2>2 DEF S!Reload, S!LoadOk, S!LoadFails, S!TypeOK
    <3>2. settingsMemory'[q] = settingsMemory[q]
      BY <1>3, <2>2 DEF S!Reload, S!LoadOk, S!LoadFails, S!TypeOK
    <3>3. settingsPc'[q] = settingsPc[q] /\ settingsTasks'[q] = settingsTasks[q]
          /\ settingsSaved' = settingsSaved
      BY <1>3, <2>2 DEF S!Reload
    <3> QED BY <3>1, <3>2, <3>3, <1>same
  <2> QED BY <2>1, <2>2
<1>4. ASSUME NEW p \in Processes, S!Set(p) PROVE Goal
  <2>1. CASE p # q
    BY <1>4, <2>1, <1>same DEF S!Set, S!Save, S!TypeOK
  <2>2. CASE p = q
    <3>1. PICK keys \in SUBSET Keys :
            /\ settingsMemory' = [settingsMemory EXCEPT ![q] = [x \in Keys |-> IF x
               \in keys THEN settingsSets' ELSE @[x]]]
            /\ settingsModified' = [settingsModified EXCEPT ![q] = @ \cup keys]
      BY <1>4, <2>2 DEF S!Set
    <3>2. ~settingsLoadError[q] /\ ~settingsFailed[q] /\ settingsPc[q] # "off"
          /\ UNCHANGED settingsSaved
      BY <1>4, <2>2 DEF S!Set, S!TypeOK
    <3> DEFINE task == [settings |-> settingsMemory'[q], fields |-> settingsModified'[q]]
    <3>3. settingsTasks'[q] = Append(settingsTasks[q], task)
      BY <1>4, <2>2, <3>2 DEF S!Set, S!Save, S!TypeOK
    <3>4. settingsTasks[q] \in Seq(S!Snapshots)
      BY DEF S!TypeOK
    <3>5. /\ Len(settingsTasks'[q]) = Len(settingsTasks[q]) + 1
          /\ settingsTasks'[q][Len(settingsTasks[q]) + 1] = task
          /\ \A i \in 1..Len(settingsTasks[q]) : settingsTasks'[q][i] = settingsTasks[q][i]
      BY <3>3, <3>4
    <3>6. CASE k \in keys
      <4>1. k \in task.fields /\ task.settings[k] = settingsMemory'[q][k]
        BY <3>1, <3>6 DEF S!TypeOK
      <4>2. Len(settingsTasks[q]) + 1 \in 1..Len(settingsTasks'[q])
        BY <3>4, <3>5
      <4> QED BY <3>5, <4>1, <4>2 DEF Queued
    <3>7. CASE k \notin keys
      <4>1. settingsMemory'[q][k] = settingsMemory[q][k]
        BY <3>1, <3>7 DEF S!TypeOK
      <4>2. WasSaved(settingsMemory[q][k]) \/ Queued(q, k)
        BY <3>2 DEF MemorySaved
      <4>3. 1..Len(settingsTasks[q]) \subseteq 1..Len(settingsTasks'[q])
        BY <3>4, <3>5
      <4> QED BY <3>2, <3>5, <4>1, <4>2, <4>3 DEF Queued, WasSaved
    <3> QED BY <3>6, <3>7
  <2> QED BY <2>1, <2>2
<1>5. ASSUME NEW p \in Processes, S!BeginWrite(p) \/ S!LockLate(p) \/ S!Crash(p) PROVE Goal
  BY <1>5, <1>same DEF S!BeginWrite, S!LockLate, S!Crash, S!TypeOK
<1>6. ASSUME NEW p \in Processes, S!Write(p) PROVE Goal
  <2>1. CASE p # q
    BY <1>6, <2>1, <1>same DEF S!Write, S!TypeOK
  <2>2. CASE p = q
    <3>1. settingsTasks[q] # <<>> /\ settingsTasks[q] \in Seq(S!Snapshots)
          /\ settingsTasks'[q] = Tail(settingsTasks[q])
      BY <1>6, <2>2 DEF S!Write, TaskInv, Writing, S!TypeOK
    <3>2. ~settingsLoadError[q] /\ ~settingsFailed[q] /\ settingsPc[q] # "off"
          /\ settingsMemory'[q] = settingsMemory[q]
      BY <1>6, <2>2 DEF S!Write
    <3>3. settingsSaved' = settingsSaved \cup { Head(settingsTasks[q]).settings[x] : x
          \in Head(settingsTasks[q]).fields }
      BY <1>6, <2>2 DEF S!Write, S!Marked
    <3>4. CASE WasSaved(settingsMemory[q][k])
      BY <3>2, <3>3, <3>4 DEF WasSaved
    <3>5. ASSUME NEW i \in 1..Len(settingsTasks[q]),
                 k \in settingsTasks[q][i].fields,
                     settingsTasks[q][i].settings[k] = settingsMemory[q][k]
          PROVE  Goal
      <4>1. CASE i = 1
        BY <3>1, <3>2, <3>3, <3>5, <4>1 DEF WasSaved
      <4>2. CASE i # 1
        <5>1. i - 1 \in 1..Len(Tail(settingsTasks[q]))
              /\ Tail(settingsTasks[q])[i - 1] = settingsTasks[q][i]
          BY <3>1, <4>2
        <5> QED BY <3>1, <3>2, <3>5, <5>1 DEF Queued
      <4> QED BY <4>1, <4>2
    <3> QED BY <3>2, <3>4, <3>5 DEF MemorySaved, Queued
  <2> QED BY <2>1, <2>2
<1>7. ASSUME NEW p \in Processes, S!WriteFails(p) PROVE Goal
  <2>1. p # q
    BY <1>7 DEF S!WriteFails, S!TypeOK
  <2> QED BY <1>7, <2>1, <1>same DEF S!WriteFails, S!TypeOK
<1> QED BY <1>1, <1>2, <1>3, <1>4, <1>5, <1>6, <1>7 DEF S!Next

LEMMA InvarianceSaved == S!Spec => []SInv
<1>1. KInv /\ SInv /\ [S!Next]_S!vars => SInv'
  BY StepFileSaved, StepMemorySaved DEF SInv
<1> QED BY <1>1, InitSaved, InvarianceKept, PTL DEF S!Spec

\* Nothing that was set is forgotten: a process with nothing left to write, of whose
\* writes none has failed, remembers only what has been in the file.
LEMMA LosesNothing == S!Spec => []S!SettingsSaved
<1>1. S!TypeOK /\ SInv => S!SettingsSaved
  <2> SUFFICES ASSUME S!TypeOK, SInv, NEW p \in Processes, settingsPc[p] = "idle",
                      settingsTasks[p] = <<>>,
                      ~settingsLoadError[p], ~settingsFailed[p], NEW k \in Keys
               PROVE  WasSaved(settingsMemory[p][k])
    BY DEF S!SettingsSaved, WasSaved
  <2>1. ~Queued(p, k)
    BY DEF Queued
  <2> QED BY <2>1 DEF SInv, MemorySaved
<1> QED BY <1>1, SettingsTyped, InvarianceSaved, PTL


(***************************************************************************)
(* The theorems.                                                           *)
(***************************************************************************)
\* Every entry of a path is one that the session manager writes.
THEOREM PathTypeCorrect == SpecStores => []P!TypeOK
<1>1. IInv => P!TypeOK
  BY DEF IInv
<1> QED BY <1>1, Invariance, PathSpec, PTL

\* prepareCompaction and buildSessionContext: however often a session is compacted,
\* a message is in the context, in the summary, or in one that `compact` let go.
THEOREM EveryMessageCovered == SpecStores => []NothingForgotten
BY Invariance, CoveredOrSeen, PathSpec, PTL DEF NothingForgotten

\* findValidCutPoints: no compaction parts a tool result from its call.
THEOREM NoResultAlone == SpecStores => []ResultsKeepTheirCalls
BY Invariance, CallIsKept, PathSpec, PTL DEF ResultsKeepTheirCalls

\* session-manager: the leaf is an entry of the session, and every line and every
\* write is one there can be, across branching, forking, crashes and resuming.
THEOREM SessionTypeCorrect == SpecStores => []TypeOK
<1>1. Typed /\ Labelled => TypeOK
  BY TypedSo
<1> QED BY <1>1, SessionInvariance, SessionSpec, PTL

\* _persist, _rewriteFile and setSessionFile: what the file of a session with a reply
\* holds, with what is still to be written to it, is what memory holds.
THEOREM FileHoldsMemory == SpecStores => []Durable
BY KeepsDurable, SessionInvariance, SessionSpec, PTL

\* _buildIndex and appendLabelChange: a session that was read from its file has the
\* labels that one built by calls has.
THEOREM LabelsRebuilt == SpecStores => []LabelsAreTheirEntries
BY LabelledSo, SessionInvariance, SessionSpec, PTL

\* persistScopedSettings: no process puts back a value that it merely remembers.
THEOREM NothingPutBack == SpecStores => []SettingsKept
BY SettingsSpec, PutsNothingBack, PTL DEF SettingsKept

\* enqueueWrite and save: nothing that was set is forgotten.
THEOREM NothingLost == SpecStores => []SettingsSaved
BY SettingsSpec, LosesNothing, PTL DEF SettingsSaved

\* persistProviderChange and refreshOAuthTokenWithLock: nobody writes back what it
\* remembers of another provider.
THEOREM NothingOverwritten == SpecStores => []CredentialsKept
BY CredentialsSpec, StoresAssumption, C!NothingOverwritten, PTL DEF CredentialsKept

\* refreshOAuthTokenWithLock: no token is presented twice without a reason.
THEOREM ExchangedOnce == SpecStores => []SpentOnce
BY CredentialsSpec, StoresAssumption, C!ExchangedOnce, PTL DEF SpentOnce
=============================================================================
