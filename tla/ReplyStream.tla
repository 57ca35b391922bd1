----------------------------- MODULE ReplyStream -----------------------------
(***************************************************************************)
(* A reply on its way from a model to the agent: the providers of          *)
(* ai/src/providers turn what a service sends into one protocol of events, *)
(* and agent/src/proxy.ts rebuilds the message from the events alone,      *)
(* which a server forwards without it.  A step of a provider handles one   *)
(* event of the service and may emit several; the reader handles them one  *)
(* by one, later.  A piece of text is the number of the event that brought *)
(* it; the text of a call is its partialJson.  A block has the text of the *)
(* message (body) and what of it went out in deltas (said), which a service*)
(* may make different: it may send a text whole, or send one at the end    *)
(* that is not what it sent before.                                        *)
(***************************************************************************)
EXTENDS Naturals, Sequences, SequencesExt

CONSTANTS Families,   \* the providers considered
          MaxInputs,  \* bound: events of the service, over all streams of a request
          MAX_EMPTY_STREAM_RETRIES

VARIABLES family,    \* the provider of this request
          over,      \* its stream has ended
          content,   \* output.content: [kind, id, said, body, origin, key]
          cur,       \* currentBlock, as its place in content; 0 for null
          item,      \* currentItem of the Responses providers, as its kind
          upstream,  \* the blocks or items the service has begun: [kind, live]
          refused,   \* output.stopReason is "error"
          started,   \* start has been emitted
          empties,   \* emptyAttempt of the Gemini CLI provider
          inputs,    \* events of the service so far
          wire,      \* events emitted and not yet read
          reader,    \* "reading", "ended", "rejected" (an event did not fit)
          phase,     \* what has been read: "silent", "started", "over"
          outcome,   \* what result() of the reader's stream resolves to
          partial    \* the message the reader has rebuilt

providerVars == <<family, over, content, cur, item, upstream, refused, started, empties, inputs>>
readerVars == <<reader, phase, outcome, partial>>
vars == <<providerVars, wire, readerVars>>

Kinds == {"text", "thinking", "toolCall"}
Nothing == "none"

Init == /\ family \in Families
        /\ over = FALSE /\ content = <<>> /\ cur = 0 /\ item = Nothing /\ upstream = <<>>
        /\ refused = FALSE /\ empties = 0 /\ inputs = 0
        \* The Gemini CLI provider starts with the first block, Bedrock with the
        \* service's messageStart; the others as soon as there is a stream.
        /\ started = (family \notin {"gemini", "bedrock"})
        /\ wire = IF started THEN << [type |-> "start"] >> ELSE <<>>
        /\ reader = "reading" /\ phase = "silent" /\ outcome = Nothing /\ partial = <<>>

(***************************************************************************)
(* Providers.                                                              *)
(***************************************************************************)
Token == inputs + 1
Separator == 0    \* what is put between the parts of a reasoning

\* A block that begins with a text the service gives whole, or with none.
BlockOf(kind, id, key, text) ==
  [kind |-> kind, id |-> id, said |-> <<>>, body |-> text,
   origin |-> IF text = <<>> THEN "deltas" ELSE "service", key |-> key]
Block(kind, id, key) == BlockOf(kind, id, key, <<>>)

\* A block whose text is replaced.
Rewritten(b, text) == IF text = b.body THEN b ELSE [b EXCEPT !.body = text, !.origin = "service"]

Begin(at, b) == [type |-> "begin", at |-> at, kind |-> b.kind, id |-> b.id]
Delta(at, b, token) == [type |-> "delta", at |-> at, kind |-> b.kind, token |-> token]
End(at, b) == [type |-> "end", at |-> at, kind |-> b.kind]

\* Mutant: the text goes to the block that began last.
WithLast(blocks, i, token) ==
  [blocks EXCEPT ![Len(blocks)].said = Append(@, token), ![Len(blocks)].body = Append(@, token)]

With(blocks, i, token) ==
  [blocks EXCEPT ![i].said = Append(@, token), ![i].body = Append(@, token)]

\* blockIndex(): the place of a block an event is about, which is taken to be the last.
BlockIndex(blocks) == Len(blocks)

\* finishCurrentBlock
Finished == IF cur = 0 THEN <<>> ELSE << End(BlockIndex(content), content[cur]) >>

\* Mutant: the lazy start is forgotten.
NeverStarts == <<>>

\* ensureStarted
EnsureStarted == IF started THEN <<>> ELSE << [type |-> "start"] >>

\* The service sends nothing of the reply after the reason it ended.
Takes == /\ ~over /\ reader = "reading" /\ ~refused /\ inputs < MaxInputs
         /\ inputs' = inputs + 1
         /\ UNCHANGED <<family, over, refused, empties, readerVars>>

Emits(events) == wire' = wire \o events

\* A delta for the current block.
Continue == /\ content' = With(content, cur, Token)
            /\ Emits(<< Delta(BlockIndex(content), content[cur], Token) >>)
            /\ UNCHANGED <<cur, started>>

\* The current block ends, a new one begins with this delta.
BeginBlock(kind, id) ==
  LET new == Append(content, Block(kind, id, 0))
      b == Last(new)
  IN  /\ content' = With(new, Len(new), Token)
      /\ cur' = Len(new)
      /\ started' = TRUE
      /\ Emits(Finished \o EnsureStarted
               \o << Begin(BlockIndex(new), b), Delta(BlockIndex(new), b, Token) >>)

\* Text or reasoning, of the providers whose chunks say nothing of blocks.
TextPart(kind) ==
  /\ Takes
  /\ IF cur # 0 /\ content[cur].kind = kind THEN Continue ELSE BeginBlock(kind, 0)
  /\ UNCHANGED <<item, upstream>>

CompletionsText(kind) == family = "completions" /\ TextPart(kind)
MistralItem(kind) == family = "mistral" /\ TextPart(kind)
GooglePart(kind) == family = "google" /\ TextPart(kind)
VertexPart(kind) == family = "vertex" /\ TextPart(kind)
GeminiPart(kind) == family = "gemini" /\ TextPart(kind)

\* A piece of a call: the first names it, later ones may or may not (id 0).
CompletionsToolCall(id) ==
  /\ family = "completions" /\ Takes
  /\ IF cur # 0 /\ content[cur].kind = "toolCall" /\ id \in {0, content[cur].id}
     THEN Continue
     ELSE BeginBlock("toolCall", id)
  /\ UNCHANGED <<item, upstream>>

\* toolBlocksByKey: calls may be interleaved, and all end with the stream.
MistralToolCall(id) ==
  LET Known == { i \in DOMAIN content : content[i].kind = "toolCall" /\ content[i].id = id }
      at == CHOOSE i \in Known : TRUE
      new == Append(content, Block("toolCall", id, 0))
  IN  /\ family = "mistral" /\ Takes
      /\ cur' = 0
      /\ IF Known # {}
         THEN /\ content' = With(content, at, Token)
              /\ Emits(Finished \o << Delta(at, content[at], Token) >>)
         ELSE /\ content' = With(new, Len(new), Token)
              /\ Emits(Finished
                       \o << Begin(Len(new), Last(new)), Delta(Len(new), Last(new), Token) >>)
      /\ UNCHANGED <<item, upstream, started>>

\* An id is made up if the service gives none or one that is taken.
ToolCallId(id) ==
  IF id = 0 \/ \E i \in DOMAIN content : content[i].kind = "toolCall" /\ content[i].id = id
  THEN 100 + Token ELSE id

\* The Google services send a call whole.
FunctionCall(id) ==
  LET new == Append(content, Block("toolCall", ToolCallId(id), 0))
      at == BlockIndex(new)
  IN  /\ Takes
      /\ content' = With(new, Len(new), Token) /\ cur' = 0 /\ started' = TRUE
      /\ Emits(Finished \o EnsureStarted
               \o << Begin(at, Last(new)), Delta(at, Last(new), Token), End(at, Last(new)) >>)
      /\ UNCHANGED <<item, upstream>>

GoogleFunctionCall(id) == family = "google" /\ FunctionCall(id)
VertexFunctionCall(id) == family = "vertex" /\ FunctionCall(id)
GeminiFunctionCall(id) == family = "gemini" /\ FunctionCall(id)

(***************************************************************************)
(* Services that number their blocks.                                      *)
(***************************************************************************)
Positions(key) == { i \in DOMAIN content : content[i].key = key }

\* blocks.findIndex: the place of the open block with the service's number.
Place(key) == CHOOSE i \in Positions(key) : TRUE

Push(b) == /\ content' = Append(content, b)
           /\ Emits(<< Begin(Len(content'), Last(content')) >>)

\* content_block_start; a block of a kind the agent does not use is passed over.
AnthropicStart(kind) ==
  LET key == Len(upstream) + 1
  IN  /\ family = "anthropic" /\ Takes
      /\ upstream' = Append(upstream, [kind |-> kind, live |-> TRUE])
      /\ IF kind = "other" THEN UNCHANGED <<content, wire>> ELSE Push(Block(kind, key, key))
      /\ UNCHANGED <<cur, item, started>>

\* Reasoning that is kept secret: its text, "[Reasoning redacted]", is there at once.
AnthropicRedacted ==
  LET key == Len(upstream) + 1
  IN  /\ family = "anthropic" /\ Takes
      /\ upstream' = Append(upstream, [kind |-> "thinking", live |-> TRUE])
      /\ Push(BlockOf("thinking", key, key, <<Token>>))
      /\ UNCHANGED <<cur, item, started>>

\* messageStart
BedrockMessage == /\ family = "bedrock" /\ Takes /\ ~started
                  /\ started' = TRUE
                  /\ Emits(<< [type |-> "start"] >>)
                  /\ UNCHANGED <<content, cur, item, upstream>>

\* contentBlockStart comes for a call; another block starts with its first delta.
BedrockStart(kind) ==
  LET key == Len(upstream) + 1
  IN  /\ family = "bedrock" /\ started /\ Takes
      /\ upstream' = Append(upstream, [kind |-> kind, live |-> TRUE])
      /\ IF kind = "toolCall"
         THEN Push(Block(kind, key, key))
         ELSE UNCHANGED <<content, wire>>
      /\ UNCHANGED <<cur, item, started>>

AnthropicDelta(key) ==
  /\ family = "anthropic" /\ Takes /\ upstream[key].live
  /\ IF Positions(key) = {}
     THEN UNCHANGED <<content, wire>>
     ELSE /\ content' = With(content, Place(key), Token)
          /\ Emits(<< Delta(Place(key), content[Place(key)], Token) >>)
  /\ UNCHANGED <<cur, item, upstream, started>>

BedrockDelta(key) ==
  LET new == Append(content, Block(upstream[key].kind, key, key))
  IN  /\ family = "bedrock" /\ Takes /\ upstream[key].live
      /\ IF Positions(key) = {}
         THEN /\ content' = With(new, Len(new), Token)
              /\ Emits(<< Begin(Len(new), Last(new)), Delta(Len(new), Last(new), Token) >>)
         ELSE /\ content' = With(content, Place(key), Token)
              /\ Emits(<< Delta(Place(key), content[Place(key)], Token) >>)
      /\ UNCHANGED <<cur, item, upstream, started>>

\* The end of a block: its number is forgotten, and it is found no more.
BlockStop(key) ==
  /\ Takes /\ upstream[key].live
  /\ upstream' = [upstream EXCEPT ![key].live = FALSE]
  /\ IF Positions(key) = {}
     THEN UNCHANGED <<content, wire>>
     ELSE /\ content' = [content EXCEPT ![Place(key)].key = 0]
          /\ Emits(<< End(Place(key), content[Place(key)]) >>)
  /\ UNCHANGED <<cur, item, started>>

AnthropicStop(key) == family = "anthropic" /\ BlockStop(key)
BedrockStop(key) == family = "bedrock" /\ BlockStop(key)

(***************************************************************************)
(* The Responses services send items one after another.                    *)
(***************************************************************************)
Responses == family \in {"responses", "codex"}
ItemIsLive == upstream # <<>> /\ Last(upstream).live

\* response.output_item.added; an item of another kind leaves the variables alone, and a
\* call may come with arguments.
ItemAdded(kind) ==
  /\ Responses /\ ~ItemIsLive /\ Takes
  /\ upstream' = Append(upstream, [kind |-> kind, live |-> TRUE])
  /\ IF kind = "other"
     THEN UNCHANGED <<content, cur, item, wire>>
     ELSE \E arguments \in {<<>>} \cup IF kind = "toolCall" THEN { <<Token>> } ELSE {} :
            /\ Push(BlockOf(kind, Len(upstream'), 0, arguments))
            /\ cur' = Len(content') /\ item' = kind
  /\ UNCHANGED started

\* The check of the handlers of an item's parts.
IsCurrent(kind) == item = kind /\ cur # 0 /\ content[cur].kind = kind

\* A delta of an item; of a text or a reasoning it is passed over unless the service
\* has announced a part.
ItemDelta ==
  /\ Responses /\ ItemIsLive /\ Takes
  /\ LET kind == Last(upstream).kind
     IN  \/ /\ IsCurrent(kind)
            /\ content' = With(content, cur, Token)
            /\ Emits(<< Delta(BlockIndex(content), content[cur], Token) >>)
         \/ /\ ~IsCurrent(kind) \/ kind # "toolCall"
            /\ UNCHANGED <<content, wire>>
  /\ UNCHANGED <<cur, item, upstream, started>>

\* response.reasoning_summary_part.done: a separator, as a delta.
SummaryPartDone ==
  /\ Responses /\ ItemIsLive /\ Takes
  /\ Last(upstream).kind = "thinking" /\ IsCurrent("thinking")
  /\ content' = With(content, cur, Separator)
  /\ Emits(<< Delta(BlockIndex(content), content[cur], Separator) >>)
  /\ UNCHANGED <<cur, item, upstream, started>>

\* The text of the current block becomes what the service says it is, without a delta.
SetText(texts) == \E text \in texts : content' = [content EXCEPT ![cur] = Rewritten(@, text)]

\* response.function_call_arguments.done: the arguments whole, as they were sent or not.
ArgumentsDone ==
  /\ Responses /\ ItemIsLive /\ Takes
  /\ Last(upstream).kind = "toolCall" /\ IsCurrent("toolCall")
  /\ SetText({content[cur].body, <<Token>>})
  /\ UNCHANGED <<cur, item, upstream, started, wire>>

\* The parts of a reasoning, joined: there is a separator between two of them only.
Joined(text) == IF text # <<>> /\ Last(text) = Separator THEN Front(text) ELSE text

\* response.output_item.done.  The block gets the text of the item, which is that of its
\* parts as they were sent, or another; a call that is at its end leaves its block alone.
ItemDone ==
  /\ Responses /\ ItemIsLive /\ Takes
  /\ upstream' = [upstream EXCEPT ![Len(upstream)].live = FALSE]
  /\ LET kind == Last(upstream).kind
         Ends == /\ cur' = 0
                 /\ Emits(<< [type |-> "end", at |-> BlockIndex(content), kind |-> kind] >>)
         own == IF kind = "thinking" THEN Joined(content[cur].body) ELSE content[cur].body
     IN  IF kind = "toolCall" THEN Ends /\ UNCHANGED content
         ELSE IF kind # "other" /\ cur # 0 /\ content[cur].kind = kind
         THEN Ends /\ SetText({own, <<Token>>})
         ELSE UNCHANGED <<content, cur, wire>>
  /\ UNCHANGED <<item, started>>

(***************************************************************************)
(* The end of a stream.                                                    *)
(***************************************************************************)
\* The service ends its reply with a reason that the code maps to "error".
Refuse == /\ ~over /\ reader = "reading" /\ ~refused
          /\ refused' = TRUE
          /\ UNCHANGED <<family, over, content, cur, item, upstream, started, empties, inputs,
                         wire, readerVars>>

\* Mistral's calls end in the order they began.
MistralEnds ==
  LET calls == { i \in DOMAIN content : content[i].kind = "toolCall" }
      order == CHOOSE s \in SeqOf(calls, Len(content)) :
                 ToSet(s) = calls /\ \A m, n \in DOMAIN s : m < n => s[m] < s[n]
  IN  IF family = "mistral" THEN [n \in DOMAIN order |-> End(order[n], content[order[n]])]
                            ELSE <<>>

\* The Google providers look at the reason, and a call makes it "toolUse".
RefusalCounts ==
  /\ refused /\ family # "codex"
  /\ family \in {"google", "vertex", "gemini"} => \A i \in DOMAIN content : content[i].kind # "toolCall"

Closing == IF Responses \/ family \in {"anthropic", "bedrock"} THEN <<>> ELSE Finished \o MistralEnds

\* A stream that ended without a part.
IsEmpty == family = "gemini" /\ content = <<>>

\* resetOutput, and the request is made again.
RetryEmpty == /\ ~over /\ reader = "reading" /\ IsEmpty
              /\ empties < MAX_EMPTY_STREAM_RETRIES
              /\ empties' = empties + 1
              /\ refused' = FALSE
              /\ UNCHANGED <<family, over, content, cur, item, upstream, started, inputs,
                             wire, readerVars>>

\* The stream has ended; meanwhile the request may have been aborted.
StreamEnds ==
  /\ ~over /\ reader = "reading"
  /\ ~IsEmpty \/ empties = MAX_EMPTY_STREAM_RETRIES
  /\ over' = TRUE
  /\ \E aborted \in BOOLEAN :
       Emits(Closing \o << [type |-> IF aborted \/ RefusalCounts \/ IsEmpty THEN "error" ELSE "done"] >>)
  /\ UNCHANGED <<family, content, cur, item, upstream, refused, started, empties, inputs,
                 readerVars>>

\* The request fails, at any point: an error of the service, of the network, an abort.
StreamFails == /\ ~over /\ reader = "reading"
               /\ over' = TRUE
               /\ Emits(<< [type |-> "error"] >>)
               /\ UNCHANGED <<family, content, cur, item, upstream, refused, started, empties,
                              inputs, readerVars>>

(***************************************************************************)
(* The reader: streamProxy and processProxyEvent.                          *)
(***************************************************************************)
\* partial is an array that an event may extend by one.
Fits(e) == e.at \in DOMAIN partial /\ partial[e.at].kind = e.kind

Reading == reader = "reading" /\ wire # <<>> /\ wire' = Tail(wire) /\ UNCHANGED providerVars

ReadStart == /\ Reading /\ Head(wire).type = "start"
             /\ phase' = "started"
             /\ UNCHANGED <<reader, outcome, partial>>

\* text_start, thinking_start, toolcall_start
ReadBegin ==
  /\ Reading /\ Head(wire).type = "begin"
  /\ LET e == Head(wire)
         b == [kind |-> e.kind, id |-> e.id, said |-> <<>>, open |-> TRUE]
     IN  partial' = IF e.at \in DOMAIN partial THEN [partial EXCEPT ![e.at] = b]
                                              ELSE Append(partial, b)
  /\ UNCHANGED <<reader, phase, outcome>>

\* processProxyEvent throws.
Reject == reader' = "rejected" /\ phase' = "over" /\ outcome' = "error" /\ UNCHANGED partial

\* text_delta, thinking_delta, toolcall_delta
ReadDelta ==
  /\ Reading /\ Head(wire).type = "delta"
  /\ IF Fits(Head(wire))
     THEN /\ partial' = [partial EXCEPT ![Head(wire).at].said = Append(@, Head(wire).token)]
          /\ UNCHANGED <<reader, phase, outcome>>
     ELSE Reject

\* text_end, thinking_end, toolcall_end: only the last is passed over if it does not fit.
ReadEnd ==
  /\ Reading /\ Head(wire).type = "end"
  /\ IF Fits(Head(wire)) \/ Head(wire).kind = "toolCall"
     THEN /\ partial' = [ i \in DOMAIN partial |->
                           IF i = Head(wire).at /\ Fits(Head(wire)) THEN [partial[i] EXCEPT !.open = FALSE]
                                                                   ELSE partial[i] ]
          /\ UNCHANGED <<reader, phase, outcome>>
     ELSE Reject

ReadLast == /\ Reading /\ Head(wire).type \in {"done", "error"}
            /\ phase' = "over" /\ outcome' = Head(wire).type
            /\ UNCHANGED <<reader, partial>>

\* The connection ends, after the last event or before: stream.end() either way.
ConnectionEnds == /\ reader = "reading"
                  /\ reader' = "ended" /\ phase' = "over"
                  /\ UNCHANGED <<providerVars, wire, outcome, partial>>

\* It fails, or the agent aborts: an error, if it is not too late for one.
ConnectionFails == /\ reader = "reading"
                   /\ reader' = "ended" /\ phase' = "over"
                   /\ outcome' = IF outcome = Nothing THEN "error" ELSE outcome
                   /\ UNCHANGED <<providerVars, wire, partial>>

ProviderStep ==
  \/ \E kind \in {"text", "thinking"} :
       \/ CompletionsText(kind) \/ MistralItem(kind)
       \/ GooglePart(kind) \/ VertexPart(kind) \/ GeminiPart(kind)
  \/ \E id \in 0..2 :
       \/ CompletionsToolCall(id)
       \/ GoogleFunctionCall(id) \/ VertexFunctionCall(id) \/ GeminiFunctionCall(id)
  \/ \E id \in 1..2 : MistralToolCall(id)
  \/ BedrockMessage
  \/ \E kind \in Kinds \cup {"other"} : AnthropicStart(kind) \/ ItemAdded(kind)
  \/ AnthropicRedacted
  \/ \E kind \in Kinds : BedrockStart(kind)
  \/ \E key \in DOMAIN upstream :
       \/ AnthropicDelta(key) \/ AnthropicStop(key)
       \/ BedrockDelta(key) \/ BedrockStop(key)
  \/ ItemDelta \/ SummaryPartDone \/ ArgumentsDone \/ ItemDone
  \/ Refuse \/ RetryEmpty \/ StreamEnds \/ StreamFails

ReaderStep == ReadStart \/ ReadBegin \/ ReadDelta \/ ReadEnd \/ ReadLast
              \/ ConnectionEnds \/ ConnectionFails

Next == ProviderStep \/ ReaderStep

Spec == Init /\ [][Next]_vars

(***************************************************************************)
(* Properties.                                                             *)
(***************************************************************************)
\* The events are enough: what the reader of streamProxy has rebuilt is at any time
\* the beginning of the provider's message, block by block, and all of it when the
\* reply is done; no event of any provider is one that processProxyEvent throws at.
\* The exception is a block whose text the service has given in another way than by
\* deltas: redacted reasoning, arguments that come with their call or are sent again,
\* an item that differs at its end from its deltas, as every reasoning in parts does by
\* the last separator.  Of such a block the reader has what the deltas brought of it.
\* The providers that end their blocks themselves have ended all of them by then.
EndsItsBlocks == family \notin {"anthropic", "bedrock", "responses", "codex"}
ReaderRebuilds ==
  /\ reader # "rejected"
  /\ \A i \in DOMAIN partial :
       /\ i \in DOMAIN content
       /\ partial[i].kind = content[i].kind /\ partial[i].id = content[i].id
       /\ IsPrefix(partial[i].said, content[i].said)
       /\ content[i].origin = "deltas" => IsPrefix(partial[i].said, content[i].body)
  /\ outcome = "done" =>
       /\ Len(partial) = Len(content)
       /\ \A i \in DOMAIN partial :
            /\ partial[i].said = content[i].said
            /\ content[i].origin = "deltas" => partial[i].said = content[i].body
            /\ EndsItsBlocks => ~partial[i].open

\* Read one by one, the events of every provider are a reply.
Protocol == INSTANCE Reply WITH
  blocks <- [ i \in DOMAIN partial |-> [kind |-> partial[i].kind, open |-> partial[i].open] ]
ImplementsReply == Protocol!Spec

\* "Failures must be encoded in the returned stream via protocol events and a final
\* AssistantMessage" (agent/src/types.ts): a stream that has ended has a result.
EndedHasResult == reader = "ended" => outcome # Nothing
=============================================================================
