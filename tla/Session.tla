------------------------------- MODULE Session -------------------------------
(***************************************************************************)
(* coding-agent/src/core/session-manager.ts, with the new, resume and fork *)
(* operations of agent-session-runtime.ts: a conversation as a tree of     *)
(* entries in memory, and as lines appended to a file.                     *)
(*                                                                         *)
(* A call of the manager runs to completion.  The lines it writes are put  *)
(* in todo and written one at a time, so that a crash may come between two *)
(* of them or in the middle of one; no other call begins before the last   *)
(* is written.                                                             *)
(***************************************************************************)
EXTENDS Naturals, Sequences, FiniteSets, SequencesExt

CONSTANTS MaxId,       \* bound: entries
          MaxFile,     \* bound: session files
          Found        \* the contents the first file may have when the program starts

VARIABLES disk,        \* the session files there are
          todo,        \* what the current call has still to do on disk
          mem,         \* fileEntries
          leaf,        \* leafId; 0 is null
          labels,      \* labelsById: the entries with a label
          flushed,
          file,        \* sessionFile; 0 when the program is not running
          lastId,      \* the last id given to an entry
          lastFile     \* the last name given to a file

manager == <<mem, leaf, labels, flushed, file>>
vars == <<disk, todo, manager, lastId, lastFile>>

(***************************************************************************)
(* Entries and lines.  ref is a label's target or a header's version; set  *)
(* tells a label that is set from one that is cleared.  Every entry that    *)
(* is neither a message nor a label is a note.                             *)
(***************************************************************************)
CURRENT_SESSION_VERSION == 3
Line(type, id, parent, ref, set) ==
  [type |-> type, id |-> id, parent |-> parent, ref |-> ref, set |-> set]
Header == Line("session", 0, 0, CURRENT_SESSION_VERSION, FALSE)
TornLine == Line("torn", 0, 0, 0, FALSE)
NoFile == [lines |-> <<>>, open |-> FALSE]

IsEntry(e) == e.type # "session"
Ids(entries) == { e.id : e \in { x \in ToSet(entries) : IsEntry(x) } }
HasAssistant(entries) == \E e \in ToSet(entries) : e.type = "assistant"

Types == {"session", "user", "assistant", "note", "label", "torn"}
\* The lines there can be when n is the last id given; a label is about an entry.
LinesTo(n) ==
  { line \in [type : Types, id : 0..n, parent : 0..n, ref : 0..(MaxId + 3), set : BOOLEAN] :
      /\ line.type \notin {"session", "torn"} => line.id # 0
      /\ line.type = "label" => line.ref \in 1..n }
Lines == LinesTo(MaxId)

\* A session that is found counts its ids from 1; only a crash leaves a line open.
ASSUME SessionAssumption ==
  /\ MaxId \in Nat /\ MaxFile \in Nat \ {0}
  /\ \A c \in Found :
       /\ c \in [lines : Seq(LinesTo(Cardinality(Ids(c.lines)))), open : BOOLEAN]
       /\ Cardinality(Ids(c.lines)) \in 0..MaxId
       /\ c.open => c.lines # <<>>

\* A line that ends without a newline, which a crash leaves, takes in the next.
WriteLine(content, line) ==
  IF content.open THEN [lines |-> Append(Front(content.lines), TornLine), open |-> FALSE]
                  ELSE [content EXCEPT !.lines = Append(@, line)]

Parses(line) == line.type # "torn"

\* filter: the elements of s that are in T, in their order.
Those(s, T) ==
  LET those[n \in 0..Len(s)] ==
        IF n = 0 THEN <<>> ELSE IF s[n] \in T THEN Append(those[n - 1], s[n]) ELSE those[n - 1]
  IN  those[Len(s)]

\* loadEntriesFromFile: malformed lines are skipped; the first must be a header.
Load(content) ==
  LET entries == Those(content.lines, { line \in ToSet(content.lines) : Parses(line) })
  IN  IF entries # <<>> /\ Head(entries).type = "session" THEN entries ELSE <<>>

\* migrateToCurrentVersion: of the two migrations only the header's version shows.
NeedsMigration(entries) == Head(entries).ref < CURRENT_SESSION_VERSION
Migrated(entries) == <<Header>> \o Tail(entries)

\* Mutant: a label that was cleared comes back when the file is read.
IndexLabelKept(acc, e) == IF e.type = "label" /\ e.set THEN acc \cup {e.ref} ELSE acc

IndexLabel(acc, e) ==
  IF e.type # "label" THEN acc ELSE IF e.set THEN acc \cup {e.ref} ELSE acc \ {e.ref}

\* _buildIndex.
LabelsOf(entries) == FoldLeft(IndexLabel, {}, entries)
LastEntry(entries) == IF IsEntry(Last(entries)) THEN Last(entries).id ELSE 0

\* getBranch: the entries from the root to entry i, as far as parents are known;
\* path[n] is what n rounds of its loop have found.
GetBranch(entries, i) ==
  LET Known(k) == { x \in ToSet(entries) : IsEntry(x) /\ x.id = k }
      path[n \in 0..MaxId] ==
        IF n = 0 THEN <<>>
        ELSE LET found == path[n - 1]
                 next == Known(IF found = <<>> THEN i ELSE Head(found).parent)
             IN  IF next = {} THEN found ELSE <<CHOOSE x \in next : TRUE>> \o found
  IN  path[MaxId]

(***************************************************************************)
(* Writing.                                                                *)
(***************************************************************************)
Appends(f, lines) == [i \in DOMAIN lines |-> [cmd |-> "append", file |-> f, line |-> lines[i], path |-> {}]]
\* _rewriteFile.
Rewrite(f, lines) ==
  <<[cmd |-> "truncate", file |-> f, line |-> TornLine, path |-> {}]>> \o Appends(f, lines)
Open(f, path) == <<[cmd |-> "open", file |-> f, line |-> TornLine, path |-> path]>>

Init == /\ disk \in [{1} -> Found] \cup {[f \in {} |-> NoFile]}
        /\ todo = <<>> /\ mem = <<>> /\ leaf = 0 /\ labels = {} /\ flushed = FALSE
        /\ file = 0
        /\ lastId = IF 1 \in DOMAIN disk THEN Cardinality(Ids(disk[1].lines)) ELSE 0
        /\ lastFile = Cardinality(DOMAIN disk)

Ready == file # 0 /\ todo = <<>>

\* Mutant: an entry is written alone, also when those before it were held back.
NothingHeldBack == TRUE

WritesEntryOnly == flushed

\* _appendEntry and _persist.
AppendEntry(e) ==
  /\ mem' = Append(mem, e)
  /\ leaf' = e.id
  /\ lastId' = e.id
  /\ IF ~HasAssistant(mem')
     THEN flushed' = FALSE /\ todo' = <<>>
     ELSE /\ flushed' = TRUE
          /\ todo' = IF WritesEntryOnly THEN Appends(file, <<e>>) ELSE Appends(file, mem')
  /\ UNCHANGED <<disk, file, lastFile>>

NewId == lastId + 1

\* appendMessage, and the other append calls.
AppendMessage ==
  /\ Ready /\ NewId <= MaxId
  /\ \E type \in {"user", "assistant", "note"} : AppendEntry(Line(type, NewId, leaf, 0, FALSE))
  /\ UNCHANGED labels

AppendLabelChange ==
  /\ Ready /\ NewId <= MaxId
  /\ \E target \in Ids(mem), set \in BOOLEAN :
       /\ AppendEntry(Line("label", NewId, leaf, target, set))
       /\ labels' = IF set THEN labels \cup {target} ELSE labels \ {target}

\* Mutant: the leaf is moved wherever the caller says.
BranchAnywhere == 0..MaxId

BranchPoints == Ids(mem) \cup {0}

\* branch and resetLeaf.
Branch == /\ Ready
          /\ leaf' \in BranchPoints
          /\ UNCHANGED <<disk, todo, mem, labels, flushed, file, lastId, lastFile>>

BranchWithSummary ==
  /\ Ready /\ NewId <= MaxId
  /\ \E from \in BranchPoints : AppendEntry(Line("note", NewId, from, 0, FALSE))
  /\ UNCHANGED labels

(***************************************************************************)
(* New, resumed and forked sessions.                                       *)
(***************************************************************************)
\* newSession on a new manager; the file is named and not yet made.
Fresh(f) == /\ file' = f
            /\ mem' = <<Header>> /\ leaf' = 0 /\ labels' = {} /\ flushed' = FALSE

NewSession == /\ todo = <<>> /\ lastFile < MaxFile
              /\ Fresh(lastFile + 1)
              /\ lastFile' = lastFile + 1
              /\ UNCHANGED <<disk, todo, lastId>>

\* setSessionFile on a new manager, and what it leaves to write.
SetSessionFile(f, rest) ==
  LET entries == Load(disk[f])
  IN  \/ /\ f \notin DOMAIN disk
         /\ Fresh(f)
         /\ todo' = rest
      \/ /\ f \in DOMAIN disk /\ entries = <<>>
         /\ file' = f
         /\ mem' = <<Header>> /\ leaf' = 0 /\ labels' = {} /\ flushed' = TRUE
         /\ todo' = rest \o Rewrite(f, mem')
      \/ /\ f \in DOMAIN disk /\ entries # <<>>
         /\ file' = f
         /\ mem' = IF NeedsMigration(entries) THEN Migrated(entries) ELSE entries
         /\ leaf' = LastEntry(entries) /\ labels' = LabelsOf(entries) /\ flushed' = TRUE
         /\ todo' = rest \o (IF NeedsMigration(entries) THEN Rewrite(f, mem') ELSE <<>>)

\* Start with --continue or --session, or resume another session.
OpenSession == /\ todo = <<>>
               /\ \E f \in DOMAIN disk : SetSessionFile(f, <<>>)
               /\ UNCHANGED <<disk, lastId, lastFile>>

\* createBranchedSession: the path without its label entries, and new entries for
\* the labels of what is on it.
BranchedEntries(entries, path) ==
  LET kept == Those(path, { e \in ToSet(path) : e.type # "label" })
      labelled == SetToSeq(LabelsOf(entries) \cap Ids(kept))
      Parent(i) == IF i > 1 THEN lastId + i - 1 ELSE IF kept = <<>> THEN 0 ELSE Last(kept).id
  IN  <<Header>> \o kept
        \o [i \in DOMAIN labelled |-> Line("label", lastId + i, Parent(i), labelled[i], TRUE)]

\* The runtime's fork at a user message: the session is read again from its file,
\* branched, written when it has a reply, and the branch is opened.
Fork ==
  /\ Ready /\ lastFile < MaxFile
  /\ \E e \in { x \in ToSet(mem) : x.type = "user" } :
       \/ /\ e.parent = 0
          /\ Fresh(lastFile + 1)
          /\ UNCHANGED <<todo, lastId>>
       \/ /\ e.parent # 0 /\ file \in DOMAIN disk
          /\ LET source == Load(disk[file])
                 path == GetBranch(source, e.parent)
                 branched == BranchedEntries(source, path)
                 target == lastFile + 1
             IN  /\ path # <<>>
                 /\ lastId' = lastId + Cardinality(Ids(branched) \ Ids(path))
                 /\ lastId' <= MaxId
                 /\ todo' = (IF HasAssistant(branched) THEN Rewrite(target, branched) ELSE <<>>)
                              \o Open(target, { x.id : x \in { y \in ToSet(path) : y.type # "label" } })
          /\ UNCHANGED manager
  /\ lastFile' = lastFile + 1
  /\ UNCHANGED disk

(***************************************************************************)
(* The disk, and crashes.                                                  *)
(***************************************************************************)
Content(f) == IF f \in DOMAIN disk THEN disk[f] ELSE NoFile
Put(f, content) == disk' = [g \in DOMAIN disk \cup {f} |-> IF g = f THEN content ELSE disk[g]]

WriteNext ==
  /\ todo # <<>>
  /\ UNCHANGED <<lastId, lastFile>>
  /\ LET w == Head(todo)
     IN  \/ /\ w.cmd = "append"
            /\ Put(w.file, WriteLine(Content(w.file), w.line))
            /\ todo' = Tail(todo) /\ UNCHANGED manager
         \/ /\ w.cmd = "truncate"
            /\ Put(w.file, NoFile)
            /\ todo' = Tail(todo) /\ UNCHANGED manager
         \/ /\ w.cmd = "open"
            /\ SetSessionFile(w.file, Tail(todo))
            /\ UNCHANGED disk

\* The program is killed while it writes (one that stops between two calls leaves what
\* any OpenSession finds).  The line is missing, or cut off, or only its newline is.
Crash ==
  /\ todo # <<>>
  /\ \/ UNCHANGED disk
     \/ /\ Head(todo).cmd = "append"
        /\ \E line \in {Head(todo).line, TornLine} :
             LET before == Content(Head(todo).file)
             IN  Put(Head(todo).file,
                     [lines |-> WriteLine(before, line).lines, open |-> TRUE])
  /\ file' = 0 /\ mem' = <<>> /\ leaf' = 0 /\ labels' = {} /\ flushed' = FALSE /\ todo' = <<>>
  /\ UNCHANGED <<lastId, lastFile>>

Next == \/ AppendMessage \/ AppendLabelChange \/ Branch \/ BranchWithSummary
        \/ NewSession \/ OpenSession \/ Fork
        \/ WriteNext \/ Crash

Spec == Init /\ [][Next]_vars

(***************************************************************************)
(* Properties.                                                             *)
(***************************************************************************)
Writes == [cmd : {"append", "truncate", "open"}, file : 1..MaxFile, line : Lines,
           path : SUBSET (1..MaxId)]

\* The leaf is an entry of the session, across branching, forking, crashes and resuming.
TypeOK == /\ DOMAIN disk \subseteq 1..MaxFile
          /\ \A f \in DOMAIN disk : disk[f].lines \in Seq(Lines) /\ disk[f].open \in BOOLEAN
          /\ todo \in Seq(Writes)
          /\ mem \in Seq({ line \in Lines : line.type # "torn" })
          /\ leaf \in Ids(mem) \cup {0} /\ labels \subseteq 1..MaxId
          /\ flushed \in BOOLEAN /\ file \in 0..MaxFile
          /\ lastId \in 0..MaxId /\ lastFile \in 0..MaxFile

Intact(f) == \A line \in ToSet(Content(f).lines) : line.type # "torn"

\* Once a session has a reply, its file and what is still being written to it hold
\* exactly the entries in memory, however often writing was held back, resumed,
\* repeated or migrated: a reader of the file finds the session.
Durable ==
  HasAssistant(mem) /\ Intact(file) =>
    LET held == ToSet(Load(Content(file)))
          \cup { w.line : w \in { x \in ToSet(todo) : x.cmd = "append" /\ x.file = file } }
    IN  { e \in held : IsEntry(e) } = { e \in ToSet(mem) : IsEntry(e) }

\* An entry has a label when the last label entry about it sets one, in a session that
\* was read from a file as in one that was built by calls.
LabelsAreTheirEntries ==
  labels = { t \in 1..MaxId :
    \E i \in DOMAIN mem : /\ mem[i].type = "label" /\ mem[i].ref = t /\ mem[i].set
                          /\ \A j \in (i + 1)..Len(mem) : mem[j].type = "label" => mem[j].ref # t }

\* "Create a new session file containing only the path from root to the specified
\* leaf": when a branch was written and is opened, all of that path leads to its leaf.
ForkKeepsPath ==
  [][todo # <<>> /\ Head(todo).cmd = "open" /\ Head(todo).file \in DOMAIN disk /\ file' # 0
       => Head(todo).path \subseteq Ids(GetBranch(mem', leaf'))]_vars
=============================================================================
