--------------------------- MODULE RepliesInvariants ---------------------------
(***************************************************************************)
(* The inductive invariants that RepliesProofs is about: of the stream, the*)
(* connections, the requests, the escape key, a reply and its reader, and  *)
(* the texts that were submitted.                                          *)
(***************************************************************************)
EXTENDS MCReplies

(***************************************************************************)
(* The stream.                                                             *)
(***************************************************************************)
\* The inductive invariant: the three invariants together, since the channel's
\* order rests on no waiter standing beside a queued event and the reverse.
IInv == TypeOK /\ QueueIsUntaken /\ NoWaiterBesideEvent

(***************************************************************************)
(* Connections: what the release functions and timers do is right because  *)
(* of what an entry of the cache can be.                                   *)
(***************************************************************************)
SocketTypes ==
  /\ opened \in Nat /\ cache \in Nat
  /\ state \in [C!Socket -> {"new", "connecting", "open", "closed"}]
  /\ busy \in [C!Socket -> BOOLEAN]
  /\ timer \in [C!Socket -> BOOLEAN]
  /\ requestAt \in [Request -> {"idle", "connecting", "using", "done"}]
  /\ uses \in [Request -> Nat]
  /\ release \in [Request -> {"own", "reused", "entered"}]

Holds(r) == requestAt[r] \in {"connecting", "using"}
Uses(r, s) == requestAt[r] = "using" /\ uses[r] = s

\* Sockets are numbered as they are opened.
Numbered ==
  /\ cache # C!NoSocket => cache \in C!Socket /\ cache <= opened
  /\ \A r \in Request : Holds(r) => uses[r] \in C!Socket /\ uses[r] <= opened
  /\ \A s \in C!Socket : s > opened => state[s] # "open"

\* A socket has one request; one that is in the cache came by way of an entry.
OneRequest ==
  /\ \A r, q \in Request : Holds(r) /\ Holds(q) /\ uses[r] = uses[q] => r = q
  /\ \A r \in Request : Holds(r) /\ uses[r] = cache
                          => requestAt[r] = "using" /\ release[r] # "own"
  /\ \A r \in Request : requestAt[r] = "connecting" => release[r] # "reused"

\* A socket that is used through an entry is busy, and the other way round while it is
\* open; one that is open and not used has its timer.
BusyIsUsed ==
  /\ \A r \in Request : requestAt[r] = "using" /\ release[r] # "own" => busy[uses[r]]
  /\ \A s \in C!Socket : busy[s] /\ state[s] = "open" => \E r \in Request : Uses(r, s)
  /\ \A s \in C!Socket : state[s] = "open" => timer[s] \/ \E r \in Request : Uses(r, s)

SocketInv == SocketTypes /\ Numbered /\ OneRequest /\ BusyIsUsed

(***************************************************************************)
(* Requests.                                                               *)
(***************************************************************************)
\* Nothing has been given to the reader before a request is made or made again.
RequestInv == /\ pc \in {"attempt", "waiting", "empty"} => begun = 0
              /\ begun \in Nat

(***************************************************************************)
(* The escape key.                                                         *)
(*                                                                         *)
(* As long as nothing overlaps that the code does not expect to, the mode  *)
(* shows one of three things: nothing special, a retry, or a compaction.   *)
(* A retry leaves its screen when a run begins, which is an event; so it is*)
(* to be shown that while a retry is shown a run begins still, or its      *)
(* beginning is on the way.                                                *)
(***************************************************************************)
Starts == { i \in DOMAIN notices : notices[i].type = "agent_start" }
Ends == { i \in DOMAIN notices : notices[i].type = "agent_end" }

Handlers == {"main", "abortRetry", "abortCompaction", "abortBranchSummary"}
Screens == [onEscape : Handlers, savedRetry : Handlers \cup {"none"},
            savedCompaction : Handlers \cup {"none"},
            loading : BOOLEAN, retryLoader : BOOLEAN, compactionLoader : BOOLEAN]

RunTypes == [pc : {"idle", "poll", "request", "ending"}, aborted : BOOLEAN, last : T!Stops,
             owner : T!Compactors]
CompactionTypes == [T!Compactors -> [pc : {"none", "waiting", "running"}, again : BOOLEAN]]

EscapeTypes ==
  /\ \E S : notices \in Seq(S)
  /\ run \in RunTypes
  /\ timers \in Nat
  /\ compaction \in CompactionTypes
  /\ ui \in Screens

NavigationTypes ==
  /\ navigation \in [pc : {"none", "asking", "telling"}, summarize : BOOLEAN, onEscape : Handlers]
  /\ branchSummary \in BOOLEAN

IsMain(u) == /\ u.onEscape = "main" /\ u.savedRetry = "none" /\ u.savedCompaction = "none"
             /\ u.retryLoader = FALSE /\ u.compactionLoader = FALSE
InRetry(u) == /\ u.onEscape = "abortRetry" /\ u.savedRetry = "main"
              /\ u.savedCompaction = "none"
              /\ u.retryLoader = TRUE /\ u.compactionLoader = FALSE
InCompaction(u) ==
  /\ u.onEscape = "abortCompaction" /\ u.savedCompaction = "main" /\ u.savedRetry = "none"
  /\ u.retryLoader = FALSE /\ u.compactionLoader = TRUE
IsPlain(u) == IsMain(u) \/ InRetry(u) \/ InCompaction(u)

\* Whether a run is shown to be under way is right once all events are processed.
Loading ==
  /\ ~T!IsStreaming => /\ \A i \in Starts : \E j \in Ends : i < j
                       /\ ui.loading = TRUE => Ends # {}
  /\ T!IsStreaming /\ Ends # {} => \E i \in Starts : \A j \in Ends : j < i
\* The end of a retry is to come.
Retrying ==
  /\ handler = "sleep" => InRetry(ui)
  /\ InRetry(ui) => /\ handler = "sleep" \/ timers > 0 \/ Starts # {}
                    /\ T!IsStreaming \/ answered => Starts # {}
\* One compaction runs at a time, while it is shown.
Shows(u) == /\ InCompaction(u) <=> T!Compacts
            /\ \A c, d \in T!Running : c = d
\* Nothing is under way that /compact does not hear of.
Deaf == ~T!Connected => notices = <<>> /\ ui.loading = FALSE /\ ~InRetry(ui)

Fits == IsPlain(ui) /\ Loading /\ Retrying /\ Shows(ui) /\ Deaf
\* A navigation has overlapped something as soon as it begins: its handler is saved elsewhere.
AtHome == navigation.pc = "none" /\ branchSummary = FALSE
EscapeInv == EscapeTypes /\ NavigationTypes /\ (crossed \/ (Fits /\ AtHome))

(***************************************************************************)
(* What is on its way is what leads the reader from what it has to what    *)
(* the provider has.  A view is what a reader knows; Reads is one event.   *)
(***************************************************************************)
Piece == [kind : R!Kinds, id : Nat, said : Seq(Nat), open : BOOLEAN]
Views == { v \in [phase : {"silent", "started", "over"}, outcome : {"none", "done", "error"},
                  blocks : Seq(Piece)] :
             v.outcome # "none" => v.phase = "over" }

\* One event, with the checks of processProxyEvent and those the protocol adds.
Reads(v, e, w) ==
  CASE e.type = "start" ->
         v.phase = "silent" /\ w = [v EXCEPT !.phase = "started"]
    [] e.type = "begin" ->
         /\ v.phase = "started" /\ e.at = Len(v.blocks) + 1
         /\ w = [v EXCEPT !.blocks = Append(@, [kind |-> e.kind, id |-> e.id, said |-> <<>>,
                                               open |-> TRUE])]
    [] e.type = "delta" ->
         /\ v.phase = "started" /\ e.at \in DOMAIN v.blocks
         /\ v.blocks[e.at].kind = e.kind /\ v.blocks[e.at].open
         /\ w = [v EXCEPT !.blocks = [v.blocks EXCEPT
                   ![e.at].said = Append(v.blocks[e.at].said, e.token)]]
    [] e.type = "end" ->
         /\ v.phase = "started" /\ e.at \in DOMAIN v.blocks
         /\ v.blocks[e.at].kind = e.kind
         /\ w = [v EXCEPT !.blocks = [@ EXCEPT ![e.at].open = FALSE]]
    [] e.type \in {"done", "error"} ->
         v.phase # "over" /\ w = [v EXCEPT !.phase = "over", !.outcome = e.type]
    [] OTHER -> FALSE

\* Blocks of which others are the beginning.
Beneath(bs, c) ==
  \A i \in DOMAIN bs :
    /\ i \in DOMAIN c /\ bs[i].kind = c[i].kind /\ bs[i].id = c[i].id
    /\ R!IsPrefix(bs[i].said, c[i].said)

\* The views from one to another, an event apart.
Path(g, w, v0, v1, c) ==
  /\ g \in [0..Len(w) -> Views] /\ g[0] = v0 /\ g[Len(w)] = v1
  /\ \A n \in 1..Len(w) : Reads(g[n - 1], w[n], g[n])
  /\ \A n \in 0..Len(w) : Beneath(g[n].blocks, c)
Leads(w, v0, v1, c) == (\E S : w \in Seq(S)) /\ \E g : Path(g, w, v0, v1, c)

\* A block as the provider has it: of what the deltas have said, unless it has a text of
\* the service's own.
Cell == { b \in [kind : R!Kinds, id : Nat, said : Seq(Nat), body : Seq(Nat),
                 origin : {"deltas", "service"}, key : Nat] :
            b.origin = "deltas" => b.body = b.said }

\* What the provider has sent of its message, with which blocks open.
Shown(c, O) ==
  [i \in 1..Len(c) |-> [kind |-> c[i].kind, id |-> c[i].id, said |-> c[i].said,
                         open |-> IF i \in O THEN TRUE ELSE FALSE]]
View(c, O, p) == [phase |-> p, outcome |-> "none", blocks |-> Shown(c, O)]

\* The events on their way lead from what the reader has to what the provider has, whose
\* open blocks are known from its variables.
Now == [phase |-> phase, outcome |-> outcome, blocks |-> partial]
Keyed == family \in {"anthropic", "bedrock"}
Opens == IF Keyed THEN { i \in DOMAIN content : content[i].key # 0 }
         ELSE { i \in DOMAIN content : i = cur \/ (family = "mistral"
                                                   /\ content[i].kind = "toolCall") }
Sent == View(content, Opens, IF started THEN "started" ELSE "silent")
\* Nothing of a message that is done is missing, or left open by who ends its blocks.
Final(v) ==
  /\ v.phase = "over" /\ Len(v.blocks) = Len(content)
  /\ \A i \in DOMAIN v.blocks : /\ v.blocks[i].said = content[i].said
                                /\ v.outcome = "done" /\ R!EndsItsBlocks =>
                                     ~v.blocks[i].open

\* Of the Responses providers: the item under way is the last block, or one passed over.
ItemFits ==
  IF upstream # <<>> /\ R!Last(upstream).live /\ R!Last(upstream).kind # "other"
  THEN cur # 0 /\ content[cur].kind = R!Last(upstream).kind
  ELSE cur = 0

Item == [kind : R!Kinds \union {"other"}, live : BOOLEAN]
ProviderTypes ==
  /\ content \in Seq(Cell) /\ inputs \in Nat /\ started \in BOOLEAN /\ over \in BOOLEAN
  /\ upstream \in Seq(Item)
  /\ cur \in Nat /\ (cur # 0 => cur = Len(content) /\ cur \in DOMAIN content)
\* What the providers' variables say of each other.
ProviderFits ==
  /\ family \notin {"gemini", "bedrock"} => started
  /\ content # <<>> => started
  /\ family = "bedrock" =>
       (upstream # <<>> => started) /\ \A i \in DOMAIN upstream : upstream[i].kind # "other"
  /\ Keyed => cur = 0
  /\ family = "mistral" /\ cur # 0 => content[cur].kind # "toolCall"
  /\ R!Responses => ItemFits

\* While the reader reads; after the last event the way leads to the end of the reply.
Live == /\ ProviderTypes /\ ProviderFits
        /\ ~over => Leads(wire, Now, Sent, content)
        /\ over => \E v : Leads(wire, Now, v, content) /\ Final(v)
ReplyInv == IF reader = "reading" THEN Live ELSE R!ReaderRebuilds

(***************************************************************************)
(* Interactive: what becomes of a text.  The numbers of a text are in one  *)
(* place at a time, of the places that the module names, but for those     *)
(* that the code has kept in two.  A place is a kind and, of the queues,   *)
(* the prompts and the flushes, which one.                                 *)
(***************************************************************************)
Text == Seq(Nat)
Message == [text : Text, mode : T!Modes]

\* The numbers of different texts are different, but for some.
ApartBut(some, B) ==
  \A i, j \in DOMAIN some : i # j => T!ToSet(some[i]) \cap T!ToSet(some[j]) \subseteq B

PromptPCs == {"none", "compacting", "ready", "threw", "running", "returned", "waiting", "idling"}
Prompts == [pc : PromptPCs, text : Text]
Batches == [batch : Seq(Message), rest : Seq(Message), asked : BOOLEAN]
NoticeTypes == {"agent_start", "user", "reply", "agent_end"}
Notices == [type : NoticeTypes, text : Text, stop : T!Stops \cup {""}]

TextTypes ==
  /\ editor \in Text
  /\ held \in Seq(Message)
  /\ flush \in [T!Flushes -> Batches]
  /\ prompts \in [T!Callers -> Prompts]
  /\ queues \in [T!Modes -> Seq(Text)] /\ shown \in [T!Modes -> Seq(Text)]
  /\ notices \in Seq(Notices)
  /\ said \in Seq(Text)
  /\ typed \in Nat

IsPlace(k, x) ==
  \/ k \in {"editor", "held", "said"} /\ x = 0
  \/ k = "queue" /\ x \in T!Modes
  \/ k = "hand" /\ x \in T!Callers
  \/ k = "sending" /\ x \in T!Flushes

Keeps(k, x) ==
  CASE k = "editor" -> T!ToSet(editor)
    [] k = "held" -> T!Atoms(T!Texts(held))
    [] k = "said" -> T!Said
    [] k = "queue" -> T!Atoms(queues[x])
    [] k = "hand" -> T!InHand(x)
    [] k = "sending" -> T!Sending(x)

Batch(f) == T!Texts(flush[f].batch)

\* What was typed is somewhere, and in one place only.
Separate ==
  \A k, x, l, y : IsPlace(k, x) /\ IsPlace(l, y) /\ ~(k = l /\ x = y) =>
    Keeps(k, x) \cap Keeps(l, y) \subseteq repeated
Bounded ==
  repeated \subseteq 1..typed /\ \A k, x : IsPlace(k, x) => Keeps(k, x) \subseteq 1..typed
Somewhere(a) == \E k, x : IsPlace(k, x) /\ a \in Keeps(k, x)
Found == \A a \in 1..typed : a \in dropped \/ Somewhere(a)

\* And only once in that place.
AllApart ==
  /\ ApartBut(said, repeated)
  /\ ApartBut(T!Texts(held), repeated)
  /\ \A mode \in T!Modes : ApartBut(queues[mode], repeated)
  /\ \A f \in T!Flushes : /\ ApartBut(T!Texts(flush[f].rest), repeated)
                          /\ ApartBut(Batch(f), repeated)

\* What a flush restores when its prompt is refused has what it still sends.
Restored ==
  \A f \in T!Flushes : /\ T!Atoms(Batch(f)) \subseteq 1..typed
                       /\ T!Sending(f) \subseteq T!Atoms(Batch(f))
                       /\ T!InHand(f) \subseteq T!Atoms(Batch(f))

\* Where a prompt is: a text in hand is not overwritten.
Promised ==
  /\ \A f \in T!Flushes : flush[f].rest # <<>> /\ ~flush[f].asked => prompts[f].pc = "none"
  /\ T!IsStreaming /\ run.owner \in T!Callers => prompts[run.owner].pc = "running"
  /\ \A c \in T!Callers : compaction[c].pc = "running" => prompts[c].pc = "compacting"

\* What is still to be announced has been said.
Announced ==
  \A i \in DOMAIN notices : /\ T!ToSet(notices[i].text) \subseteq T!Said
                            /\ notices[i].type # "user" => notices[i].text = <<>>
InNotices == { notices[i].text : i \in DOMAIN notices }

\* The list of what is queued.
Listed ==
  \A mode \in T!Modes :
    /\ \A text \in T!ToSet(queues[mode]) \ T!ToSet(shown[mode]) : T!ToSet(text) \subseteq T!Said
    /\ \A text \in T!ToSet(shown[mode]) :
         \/ text \in T!ToSet(queues[mode]) \/ text \in InNotices
         \/ T!ToSet(text) \subseteq repeated
\* No text is listed twice.
ListedOnce ==
  \A mode, other \in T!Modes : \A i \in DOMAIN shown[mode], j \in DOMAIN shown[other] :
    shown[mode][i] = shown[other][j] /\ ~(mode = other /\ i = j) =>
      T!ToSet(shown[mode][i]) \subseteq repeated

PlacesInv == Separate /\ Bounded /\ Found
KeepInv == PlacesInv /\ AllApart /\ Restored
ListInv == Announced /\ Listed /\ ListedOnce
TextInv == TextTypes /\ Promised /\ T!HeldWhileCompacting /\ KeepInv /\ ListInv
================================================================================
