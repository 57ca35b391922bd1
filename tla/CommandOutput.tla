---------------------------- MODULE CommandOutput ----------------------------
(***************************************************************************)
(* A shell command and its output (tools/bash.ts, bash-executor.ts,        *)
(* utils/child-process.ts, tools/truncate.ts): the process and whoever     *)
(* else holds its pipe, the timeout, the abort, the buffer of the latest   *)
(* output, the file that takes all of it once it is long, and the end of   *)
(* it that is shown.  A piece of output is the number of the byte.         *)
(***************************************************************************)
EXTENDS Naturals, FiniteSets, Sequences, SequencesExt

CONSTANTS DEFAULT_MAX_BYTES, DEFAULT_MAX_LINES,
          MaxOutput,  \* bound: bytes the command writes
          MaxPiece    \* bound: bytes of one "data" event

VARIABLES by,       \* who runs the command: "tool" or "user" (executeBash)
          child,    \* the process: "running", "exited"
          held,     \* another process holds the pipe
          ended,    \* the pipe has ended
          aborted,  \* the signal is aborted
          timer,    \* timeoutHandle: "none", "armed", "fired"
          written,  \* how many bytes were written to the pipe
          read,     \* how many of them have arrived
          newlines, \* which bytes are the end of a line
          controls, \* which bytes executeBash takes out
          total,    \* totalBytes
          chunks,   \* the rolling buffer
          toFile,   \* there is a tempFileStream
          file,     \* what was written to it
          result    \* the promise's value, or Pending

vars == <<by, child, held, ended, aborted, timer, written, read, newlines, controls, total,
          chunks, toFile, file, result>>
processVars == <<child, held, ended, aborted, timer, written, newlines, controls>>

Pending == [settled |-> FALSE]

Init == /\ by \in {"tool", "user"}
        /\ child = "running" /\ held \in BOOLEAN /\ ended = FALSE
        /\ aborted = FALSE
        /\ timer \in {"none"} \cup (IF by = "tool" THEN {"armed"} ELSE {})
        /\ written = 0 /\ read = 0 /\ newlines = {} /\ controls = {}
        /\ total = 0 /\ chunks = <<>> /\ toFile = FALSE /\ file = <<>> /\ result = Pending

Settled == result # Pending

(***************************************************************************)
(* The process, which is killed with its group by an abort or a timeout.   *)
(***************************************************************************)
Write(kind) ==
  /\ child = "running" \/ held
  /\ ~Settled /\ ~ended /\ written < MaxOutput
  \* To the tool a control character is text.
  /\ kind = "control" => by = "user"
  /\ written' = written + 1
  /\ newlines' = IF kind = "newline" THEN newlines \cup {written + 1} ELSE newlines
  /\ controls' = IF kind = "control" THEN controls \cup {written + 1} ELSE controls
  /\ UNCHANGED <<by, child, held, ended, aborted, timer, read, total, chunks, toFile, file, result>>

Exit == /\ child = "running"
        /\ child' = "exited"
        /\ UNCHANGED <<by, held, ended, aborted, timer, written, read, newlines, controls, total,
                       chunks, toFile, file, result>>

\* A descendant that has left the group lets go of the pipe.
LetGo == /\ held /\ held' = FALSE
         /\ UNCHANGED <<by, child, ended, aborted, timer, written, read, newlines, controls,
                        total, chunks, toFile, file, result>>

\* killProcessTree
Killed == child' = "exited" /\ held' \in {held, FALSE}

Abort == /\ ~Settled /\ ~aborted
         /\ aborted' = TRUE /\ Killed
         /\ UNCHANGED <<by, ended, timer, written, read, newlines, controls, total, chunks,
                        toFile, file, result>>

Timeout == /\ ~Settled /\ timer = "armed"
           /\ timer' = "fired" /\ Killed
           /\ UNCHANGED <<by, ended, aborted, written, read, newlines, controls, total, chunks,
                          toFile, file, result>>

(***************************************************************************)
(* handleData and onData.                                                  *)
(***************************************************************************)
\* executeBash takes control characters out first; the tool does not.
Text(data) ==
  IF by = "tool" THEN data
  ELSE FlattenSeq([ k \in DOMAIN data |-> IF data[k] \in controls THEN <<>> ELSE << data[k] >> ])

\* The oldest chunks go while the buffer is too large and has another.
Rolled(cs) ==
  LET Small(k) == Len(FlattenSeq(SubSeq(cs, k, Len(cs)))) <= DEFAULT_MAX_BYTES * 2
      first == CHOOSE k \in DOMAIN cs :
                 /\ Small(k) \/ k = Len(cs)
                 /\ \A j \in 1..(k - 1) : ~Small(j)
  IN  SubSeq(cs, first, Len(cs))

Buffered == FlattenSeq(chunks)

\* Mutant: the file begins with the chunk it is made for.
BeginsEmpty == <<>>

\* What the file begins with: all buffered chunks.
BeginsWith == Buffered

Data(n) ==
  /\ ~Settled /\ n <= written - read
  /\ LET data == [ k \in 1..n |-> read + k ]
         text == Text(data)
         begins == total + n > DEFAULT_MAX_BYTES /\ ~toFile
     IN  /\ total' = total + n
         /\ read' = read + n
         /\ toFile' = (toFile \/ begins)
         /\ file' = IF toFile' THEN (IF begins THEN BeginsWith ELSE file) \o text ELSE file
         /\ chunks' = Rolled(Append(chunks, text))
  /\ UNCHANGED <<by, processVars, result>>

(***************************************************************************)
(* truncateTail.                                                           *)
(***************************************************************************)
\* Where the lines of a text begin; the last may be empty.
LineStarts(text) == { p \in 1..(Len(text) + 1) : p = 1 \/ text[p - 1] \in newlines }

\* As many whole lines from the end as both limits allow.
Fitting(text) ==
  { p \in LineStarts(text) :
      /\ Len(text) - p + 1 <= DEFAULT_MAX_BYTES
      /\ Cardinality({ q \in LineStarts(text) : q >= p }) <= DEFAULT_MAX_LINES }

\* Or the end of the last line.
TruncateTail(text) ==
  LET first == IF Fitting(text) = {} THEN Len(text) - DEFAULT_MAX_BYTES + 1
               ELSE CHOOSE p \in Fitting(text) : \A q \in Fitting(text) : p <= q
  IN  SubSeq(text, first, Len(text))

(***************************************************************************)
(* waitForChildProcess, and what follows.                                  *)
(***************************************************************************)
\* The pipe ends when nobody holds it and all has been read.
PipeEnds == /\ child = "exited" /\ ~held /\ ~ended /\ ~Settled
            /\ read = written
            /\ ended' = TRUE
            /\ UNCHANGED <<by, child, held, aborted, timer, written, read, newlines, controls,
                           total, chunks, toFile, file, result>>

How == IF aborted THEN "aborted" ELSE IF timer = "fired" THEN "timeout" ELSE "exited"

\* An aborted or timed out tool call shows the buffer as it is.
Shown == IF by = "tool" /\ How # "exited" THEN Buffered ELSE TruncateTail(Buffered)

\* Mutant: it waits until the pipe has ended.
Closed == child = "exited" /\ ended

\* exit, or close
Gone == child = "exited"

\* The process has exited, and its pipe has ended or 100 ms have gone by (whole):
\* the pipe is destroyed, and nothing arrives any more.
Settle == /\ Gone /\ ~Settled
          /\ result' = [settled |-> TRUE, how |-> How, shown |-> Shown, whole |-> ended]
          /\ UNCHANGED <<by, processVars, read, total, chunks, toFile, file>>

Next == \/ \E kind \in {"text", "newline", "control"} : Write(kind)
        \/ \E n \in 1..MaxPiece : Data(n)
        \/ Exit \/ LetGo \/ Abort \/ Timeout \/ PipeEnds \/ Settle

\* Timers run: the wait after the exit of a process is 100 ms.
Spec == Init /\ [][Next]_vars /\ WF_vars(Settle)

(***************************************************************************)
(* Properties.                                                             *)
(***************************************************************************)
\* Of what arrives nothing is lost: until there is a file the buffer holds all of it,
\* however it is cut into chunks, and then the file does, from the first byte; the
\* buffer is its end at any time, and what is shown is the end of that, within both
\* limits.  (Only an aborted or timed out call of the tool shows the whole buffer.)
OutputKept ==
  LET all == Text([ k \in 1..read |-> k ])
  IN  /\ (IF toFile THEN file ELSE Buffered) = all
      /\ IsSuffix(Buffered, all)
      /\ Settled =>
           /\ IsSuffix(result.shown, all)
           /\ by = "user" \/ result.how = "exited" =>
                /\ Len(result.shown) <= DEFAULT_MAX_BYTES
                /\ Cardinality(LineStarts(result.shown)) <= DEFAULT_MAX_LINES

\* A command that is aborted or runs out of its time ends with an answer, whoever
\* still holds the pipe of its process.
KilledReturns == aborted \/ timer = "fired" ~> Settled
=============================================================================
