---------------------------- MODULE StdinBuffer ----------------------------
(***************************************************************************)
(* tui/src/stdin-buffer.ts: what a terminal sends arrives in chunks, cut   *)
(* anywhere; StdinBuffer puts the escape sequences together again and      *)
(* emits one event per key, and one per bracketed paste.                   *)
(*                                                                         *)
(* The characters are those the code tells apart: "esc"; "[" "]" "O" after *)
(* it; digits "1", "<" and ";", which no sequence ends with; "m", "M", "A" *)
(* and what the two paste markers end with, "S" and "E", which end one;    *)
(* "bel"; and "x", any other letter.  DCS and APC sequences are read like   *)
(* the OSC ones, with another end.                                         *)
(***************************************************************************)
EXTENDS Integers, Sequences, SequencesExt, FiniteSetsExt

CONSTANTS Keys,      \* what the terminal may send in one go
          MaxKeys    \* bound: keys and pastes

VARIABLES typed,     \* history: the keys and pastes so far
          wire,      \* the characters that have not arrived yet
          buffer, pasteMode, pasteBuffer, timeout,
          emitted,   \* history: the events, each [paste, text]
          dropped,   \* history: some text was thrown away
          torn       \* history: a key was interrupted, by the timeout or by another key

state == [buffer |-> buffer, pasteMode |-> pasteMode, pasteBuffer |-> pasteBuffer,
          emitted |-> emitted, dropped |-> dropped]
vars == <<typed, wire, buffer, pasteMode, pasteBuffer, timeout, emitted, dropped, torn>>

PasteStart == <<"esc", "[", "1", "S">>
PasteEnd == <<"esc", "[", "1", "E">>
Text(event) == IF event.paste THEN PasteStart \o event.text \o PasteEnd ELSE event.text
Texts(events) == FlattenSeq([k \in DOMAIN events |-> Text(events[k])])
Data(text) == [paste |-> FALSE, text |-> text]
Paste(text) == [paste |-> TRUE, text |-> text]

(***************************************************************************)
(* isCompleteSequence, of a text that begins with esc.                     *)
(***************************************************************************)
FinalBytes == {"[", "]", "O", "m", "M", "A", "S", "E", "x"}

\* Mutant: the bracket is taken for the final byte, which it could be.
EndsAnywhere(s) == Last(s) \in FinalBytes

\* A mouse report has three numbers before its final byte.
CsiComplete(s) ==
  /\ Len(s) >= 3
  /\ Last(s) \in FinalBytes
  /\ s[3] = "<" => s = <<"esc", "[", "<", "1", ";", "1", ";", "1", Last(s)>> /\ Last(s) \in {"m", "M"}

IsComplete(s) ==
  /\ Len(s) > 1
  /\ CASE s[2] = "[" -> IF Len(s) > 2 /\ s[3] = "M" THEN Len(s) >= 6 ELSE CsiComplete(s)
       [] s[2] = "]" -> Last(s) = "bel"
       [] s[2] = "O" -> Len(s) >= 3
       [] OTHER -> TRUE

\* extractCompleteSequences: a character, or what begins with esc up to where it is
\* complete for the first time.
Extract(s) ==
  LET Grown(found, c) ==
        LET candidate == Append(found.remainder, c)
        IN  IF candidate[1] # "esc" \/ IsComplete(candidate)
            THEN [sequences |-> Append(found.sequences, candidate), remainder |-> <<>>]
            ELSE [found EXCEPT !.remainder = candidate]
  IN  FoldLeft(Grown, [sequences |-> <<>>, remainder |-> <<>>], s)

Datas(sequences) == [k \in 1..Len(sequences) |-> Data(sequences[k])]

(***************************************************************************)
(* process                                                                 *)
(***************************************************************************)
\* The first place a marker begins at, or 0.
IndexOf(s, marker) ==
  LET at == { i \in 1..(Len(s) - Len(marker) + 1) :
                \A k \in 1..Len(marker) : s[i + k - 1] = marker[k] }
  IN  IF at = {} THEN 0 ELSE Min(at)
After(s, i) == SubSeq(s, i + Len(PasteEnd), Len(s))

\* Mutant: what follows a paste in its chunk is not processed.
NothingFollows(s) == <<>>

Following(s) == s

\* In a paste: all is kept until its end is there, and what follows is processed again.
ProcessPaste(st) ==
  LET end == IndexOf(st.pasteBuffer, PasteEnd)
  IN  IF end = 0 THEN [st |-> st, rest |-> <<>>]
      ELSE [st |-> [st EXCEPT !.pasteMode = FALSE, !.pasteBuffer = <<>>,
                              !.emitted = Append(@, Paste(SubSeq(st.pasteBuffer, 1, end - 1)))],
            rest |-> Following(After(st.pasteBuffer, end))]

\* What was incomplete when a paste began is dropped.
BeginPaste(st, all, start) ==
  LET before == Extract(SubSeq(all, 1, start - 1))
  IN  [st EXCEPT !.emitted = @ \o Datas(before.sequences),
                 !.dropped = @ \/ before.remainder # <<>>,
                 !.pasteMode = TRUE, !.pasteBuffer = After(all, start), !.buffer = <<>>]

ProcessOnce(st, chunk) ==
  LET all == st.buffer \o chunk
      start == IndexOf(all, PasteStart)
      found == Extract(all)
  IN  IF st.pasteMode
      THEN ProcessPaste([st EXCEPT !.pasteBuffer = @ \o all, !.buffer = <<>>])
      ELSE IF start > 0 THEN ProcessPaste(BeginPaste(st, all, start))
      ELSE [st |-> [st EXCEPT !.emitted = @ \o Datas(found.sequences), !.buffer = found.remainder],
            rest |-> <<>>]

\* Each call has less to process than the one it is made in.
Process(st, chunk) ==
  LET calls[n \in 0..Len(chunk)] ==
        IF n = 0 THEN [st |-> st, rest |-> chunk]
        ELSE LET before == calls[n - 1]
             IN  IF before.rest = <<>> THEN before ELSE ProcessOnce(before.st, before.rest)
  IN  calls[Len(chunk)].st

\* Mutant: what is incomplete stays until something else arrives.
NeverAwaits(held) == FALSE

\* Only what is incomplete is waited for.
AwaitsMore(held) == held # <<>>

(***************************************************************************)
(* A key is sent; a chunk of the wire arrives; nothing arrived for 10 ms.  *)
(***************************************************************************)
\* The characters that have arrived, or are on their way, of the last keys.
Pending == (IF pasteMode THEN PasteStart \o pasteBuffer ELSE buffer) \o wire

\* A lone escape is a key only if nothing follows it in time.
Type(key) ==
  /\ Len(typed) < MaxKeys
  /\ typed' = Append(typed, key)
  /\ wire' = wire \o Text(key)
  /\ torn' = (torn \/ (Pending # <<>> /\ Last(typed) = Data(<<"esc">>)))
  /\ UNCHANGED <<buffer, pasteMode, pasteBuffer, timeout, emitted, dropped>>

Arrive(n) ==
  /\ \E st \in { Process(state, SubSeq(wire, 1, n)) } :
       /\ buffer' = st.buffer /\ pasteMode' = st.pasteMode /\ pasteBuffer' = st.pasteBuffer
       /\ emitted' = st.emitted /\ dropped' = st.dropped
       /\ timeout' = AwaitsMore(st.buffer)
  /\ wire' = SubSeq(wire, n + 1, Len(wire))
  /\ UNCHANGED <<typed, torn>>

\* flush, by the timer
Timeout ==
  /\ timeout
  /\ emitted' = Append(emitted, Data(buffer))
  /\ buffer' = <<>>
  /\ timeout' = FALSE
  /\ torn' = (torn \/ buffer # <<"esc">> \/ Last(typed) # Data(<<"esc">>) \/ wire # <<>>)
  /\ UNCHANGED <<typed, wire, pasteMode, pasteBuffer, dropped>>

Init == /\ typed = <<>> /\ wire = <<>> /\ buffer = <<>> /\ pasteMode = FALSE
        /\ pasteBuffer = <<>> /\ timeout = FALSE /\ emitted = <<>>
        /\ dropped = FALSE /\ torn = FALSE

Next == \/ \E key \in Keys : Type(key)
        \/ \E n \in 1..Len(wire) : Arrive(n)
        \/ Timeout

Spec == Init /\ [][Next]_vars

TypeOK ==
  /\ \A s \in {typed, emitted} : \A k \in 1..Len(s) : s[k].paste \in BOOLEAN
  /\ pasteBuffer # <<>> => pasteMode
  /\ timeout <=> buffer # <<>>
  /\ {pasteMode, timeout, dropped, torn} \subseteq BOOLEAN

\* However the terminal's output is cut into chunks, a key or a paste that nothing
\* interrupts is one event, in its turn, and none is left behind once all has arrived.
KeysArriveWhole ==
  ~torn => /\ IsPrefix(emitted, typed)
           /\ wire = <<>> /\ buffer = <<>> /\ ~pasteMode => emitted = typed

\* Timeouts may cut a sequence in two, but no character is lost, doubled or moved: the
\* events and what is held back are the input.  Only a sequence that a paste interrupts
\* is thrown away.
InputKept ==
  ~dropped => Texts(emitted) \o Pending = Texts(typed)
=============================================================================
