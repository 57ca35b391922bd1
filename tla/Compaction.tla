----------------------------- MODULE Compaction -----------------------------
(***************************************************************************)
(* coding-agent/src/core/compaction/compaction.ts and what a session       *)
(* manager makes of it: where the path from the root to the leaf is cut,   *)
(* which messages the model summarizes, and which it sees afterwards.      *)
(*                                                                         *)
(* An entry of the path is known by its position, which is as good as its  *)
(* id: a path changes only at its end, and a branch that is visited again  *)
(* is what it was.  A message in a summary is covered by it; that the      *)
(* model writes a good summary is not in question here.                    *)
(*                                                                         *)
(* Extensions and the model are asked between the choice of a cut and the  *)
(* entry that records it.  Nothing holds the tree still meanwhile: neither *)
(* for a summary, nor while tools run.                                     *)
(***************************************************************************)
EXTENDS Integers, Sequences, SequencesExt, FiniteSetsExt

CONSTANTS KeepRecentTokens,  \* settings.keepRecentTokens
          Sizes,             \* what estimateTokens may say of a tool result
          Compactors,        \* compact and _runAutoCompaction, which do not look at each other
          MaxEntries         \* bound: entries of a path; at the bound none is compacted

VARIABLES path,      \* the entries from the root to the leaf
          running,   \* whether calls are being executed: "no", "here" if they are those of
                     \* the last reply, "elsewhere" if the session has left that reply
          preparing  \* the compactions whose summary is being written

vars == <<path, running, preparing>>

MessageKind == {"user", "assistant", "toolCall", "toolResult", "bashExecution"}
\* A toolCall is an assistant message with calls.  A note is any entry that is
\* nothing to the model: a model change, a label, an extension's state.
Kind == MessageKind \union {"custom_message", "branch_summary", "note"}

\* kept is the first entry that a compaction keeps.  The rest is history: what its
\* summary covers; dropped, the messages of an earlier summary that it was not told
\* about; missed, the messages of a branch the session turned to while it was made.
\* A result is astray if the reply it belongs to was left before it was written.
Entry(kind, size) ==
  [kind |-> kind, size |-> size, astray |-> FALSE,
   kept |-> 0, covers |-> {}, dropped |-> {}, missed |-> {}]

IsMessage(i) == path[i].kind \in MessageKind

\* getMessageFromEntryForCompaction, and appendMessage of buildSessionContext.
HasMessage(i) == path[i].kind \notin {"note", "compaction"}
Messages(from, to) == { i \in from..to : HasMessage(i) }

Compactions == { i \in 1..Len(path) : path[i].kind = "compaction" }
Latest == Max(Compactions)

\* The entries whose messages the model sees.
Context == IF Compactions = {} THEN Messages(1, Len(path))
                               ELSE Messages(path[Latest].kept, Len(path))

(***************************************************************************)
(* Where to cut.                                                           *)
(***************************************************************************)
\* Mutant: a tool result is as good a place as any.
CutAnywhere(i) == HasMessage(i)

IsCutPoint(i) == HasMessage(i) /\ path[i].kind # "toolResult"
CutPoints(start) == { i \in start..Len(path) : IsCutPoint(i) }

TokensFrom(i) == MapThenSumSet(LAMBDA j : IF IsMessage(j) THEN path[j].size ELSE 0, i..Len(path))

\* The walk from the newest message back to the one that exceeds the budget.
Exceeding(start) == { i \in start..Len(path) : IsMessage(i) /\ TokensFrom(i) >= KeepRecentTokens }

\* With no cut point at or after that message, everything is kept.
NearestCut(start) ==
  LET later == { c \in CutPoints(start) :
                   Exceeding(start) # {} /\ c >= Max(Exceeding(start)) }
  IN  Min(IF later = {} THEN CutPoints(start) ELSE later)

\* Entries that are not messages stay with the entry they precede.
IncludeNotes(cut, start) ==
  Min({ j \in start..cut : \A i \in j..(cut - 1) : ~IsMessage(i) /\ path[i].kind # "compaction" })

FirstKept(start) ==
  IF CutPoints(start) = {} THEN start ELSE IncludeNotes(NearestCut(start), start)

StartsTurn(i) == path[i].kind \in {"user", "bashExecution", "custom_message", "branch_summary"}
TurnStarts(cut, start) == { i \in start..cut : StartsTurn(i) }

\* isUserMessage is asked of the entry the cut ended at, which may be a note.
IsSplitTurn(cut, start) ==
  /\ CutPoints(start) # {}
  /\ path[cut].kind # "user"
  /\ TurnStarts(cut, start) # {}

(***************************************************************************)
(* prepareCompaction, compact and appendCompaction.                        *)
(***************************************************************************)
Start == IF Compactions = {} THEN 1 ELSE path[Latest].kept
PreviousCovers == IF Compactions = {} THEN {} ELSE path[Latest].covers
PreviouslyDropped == IF Compactions = {} THEN {} ELSE path[Latest].dropped
PreviouslyMissed == IF Compactions = {} THEN {} ELSE path[Latest].missed

ToSummarize(cut, split) ==
  LET turn == Max(TurnStarts(cut, Start))
  IN  [history |-> Messages(Start, IF split THEN turn - 1 ELSE cut - 1),
       prefix |-> IF split THEN Messages(turn, cut - 1) ELSE {}]

\* Beside a turn's prefix, no history is "No prior history.": the summary there was
\* before is not asked for.
NoPriorHistory(parts) == parts.prefix # {} /\ parts.history = {}

\* Mutant: the new summary is not asked to update the one before it.
FreshSummary(parts) == parts.history \union parts.prefix

Summary(parts) == parts.history \union parts.prefix
                  \union (IF NoPriorHistory(parts) THEN {} ELSE PreviousCovers)

\* at is where the path is cut, as long as that entry is on it; once the session has been
\* taken back behind it, at is the first position that the cut was not chosen for.
Prepare(by) ==
  /\ path # <<>>
  /\ Last(path).kind # "compaction"
  /\ \A p \in preparing : p.by # by
  /\ LET cut == FirstKept(Start)
         parts == ToSummarize(cut, IsSplitTurn(cut, Start))
     IN  preparing' = preparing \union
           {[by |-> by, at |-> cut, onPath |-> TRUE,
             covers |-> Summary(parts),
             dropped |-> PreviouslyDropped \union
                           (IF NoPriorHistory(parts) THEN PreviousCovers ELSE {}),
             missed |-> PreviouslyMissed]}
  /\ UNCHANGED <<path, running>>

\* Cancelled by the user or an extension, or failed.
GiveUp(p) == preparing' = preparing \ {p} /\ UNCHANGED <<path, running>>

\* An entry that is not on the path is never found: nothing before the compaction is
\* kept, and the next one starts behind it.
KeptFrom(p) == IF p.onPath THEN p.at ELSE Len(path) + 2

AppendCompaction(p) ==
  /\ path' = Append(path,
       [kind |-> "compaction", size |-> 0, astray |-> FALSE, kept |-> KeptFrom(p),
        covers |-> p.covers, dropped |-> p.dropped,
        missed |-> p.missed \union (IF p.onPath THEN {} ELSE Messages(p.at, Len(path)))])
  /\ preparing' = preparing \ {p}
  /\ running' = IF running = "here" /\ ~p.onPath THEN "elsewhere" ELSE running

\* What a compaction that is being prepared has to do with the path up to leaf.
UpTo(leaf, p) ==
  [p EXCEPT !.at = Min({@, leaf + 1}),
            !.onPath = @ /\ p.at <= leaf,
            !.covers = @ \intersect 1..leaf,
            !.dropped = @ \intersect 1..leaf,
            !.missed = @ \intersect 1..leaf]

(***************************************************************************)
(* What else happens to a path.  A result follows its call; only a model   *)
(* change or a compaction may come in between, unless the session is moved *)
(* to another entry before it is there.                                    *)
(***************************************************************************)
AppendMessage(kind) ==
  /\ kind = "toolResult" => running # "no"
  /\ running' = CASE kind = "toolCall" -> "here"
                  [] kind = "toolResult" -> running
                  [] OTHER -> IF running = "here" THEN "no" ELSE running
  /\ \E size \in (IF kind = "toolResult" THEN Sizes ELSE {1}) :
       path' = Append(path, [Entry(kind, size) EXCEPT
                 !.astray = kind = "toolResult" /\ running = "elsewhere"])
  /\ UNCHANGED preparing

AppendEntry(kind) == path' = Append(path, Entry(kind, 0)) /\ UNCHANGED <<running, preparing>>

\* navigateTree to an entry, or to the one before a message that is edited again.
Navigate ==
  \E leaf \in 0..(Len(path) - 1) :
    /\ \/ leaf > 0 /\ path[leaf].kind \notin {"user", "custom_message"}
       \/ path[leaf + 1].kind \in {"user", "custom_message"}
    /\ path' \in { SubSeq(path, 1, leaf),
                   Append(SubSeq(path, 1, leaf), Entry("branch_summary", 0)) }
    /\ running' = IF running = "no" THEN "no" ELSE "elsewhere"
    /\ preparing' = { UpTo(leaf, p) : p \in preparing }

Init == path = <<>> /\ running = "no" /\ preparing = {}

Next == \/ Len(path) < MaxEntries /\ \/ \E kind \in MessageKind : AppendMessage(kind)
                                     \/ AppendEntry("custom_message") /\ running # "here"
                                     \/ AppendEntry("note")
                                     \/ \E by \in Compactors : Prepare(by)
                                     \/ \E p \in preparing : AppendCompaction(p)
        \/ \E p \in preparing : GiveUp(p)
        \/ Navigate

Spec == Init /\ [][Next]_vars

Entries == [kind : Kind \union {"compaction"}, size : Sizes \union {0, 1}, astray : BOOLEAN,
            kept : Nat, covers : SUBSET Nat, dropped : SUBSET Nat, missed : SUBSET Nat]
Preparations == [by : Compactors, at : Nat, onPath : BOOLEAN,
                 covers : SUBSET Nat, dropped : SUBSET Nat, missed : SUBSET Nat]

TypeOK == /\ path \in Seq(Entries)
          /\ running \in {"no", "here", "elsewhere"}
          /\ preparing \subseteq Preparations

\* Every message of the path is one the model sees, or one that the summary it sees
\* covers: no cut, split turn or note before a cut lets a message fall between the
\* two, however often the session is compacted, and whatever is written to it, by
\* another compaction too, between the choice of a cut and the entry that records it.
\* Two things are lost in the code.  `compact` throws away the summary before it when a
\* split turn has no history (dropped).  And if /tree takes the session back behind the
\* cut while the summary is written, what is written there until it is done is neither
\* in the summary nor kept (missed); what was there before the cut still is.
NothingForgotten ==
  \A i \in Messages(1, Len(path)) :
    \/ i \in Context
    \/ i \in path[Latest].covers \union path[Latest].dropped \union path[Latest].missed

\* A tool result that the model sees has its call before it: findValidCutPoints
\* "Never cut at tool results (they must follow their tool call)".  The exception is a
\* result that came after the session had left the reply that asked for it, by /tree
\* while the tool ran or by a compaction that keeps nothing: it is written alone.
ResultsKeepTheirCalls ==
  \A i \in Context : path[i].kind = "toolResult" /\ ~path[i].astray =>
    \E c \in Context : /\ c < i
                       /\ path[c].kind = "toolCall"
                       /\ \A j \in (c + 1)..(i - 1) :
                            path[j].kind \in {"toolResult", "note", "compaction"}
=============================================================================
