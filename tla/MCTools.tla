-------------------------------- MODULE MCTools --------------------------------
(***************************************************************************)
(* The tools that change things, as TLC checks them: the calls that queue   *)
(* for a file, the edits of one call, or a shell command and its output.    *)
(* To the queue an edit is one change of a file, and a command has no part  *)
(* in it: one of the three is explored at a time.                           *)
(***************************************************************************)
EXTENDS MCFileMutation

CONSTANTS DEFAULT_MAX_BYTES, DEFAULT_MAX_LINES, MaxOutput, MaxPiece

ASSUME ToolsAssumption == DEFAULT_MAX_BYTES \in Nat /\ DEFAULT_MAX_LINES \in Nat \ {0}

VARIABLES
  part,  \* which of the three is explored
  file, edits, called,
  by, child, held, ended, commandAborted, timer, written, read, newlines, controls, total,
  chunks, toFile, tempFile, result

editVars == <<file, edits, called>>
commandVars == <<by, child, held, ended, commandAborted, timer, written, read, newlines,
                 controls, total, chunks, toFile, tempFile, result>>
allVars == <<part, vars, editVars, commandVars>>

\* Files with either end of a line, or both, blanks where lines end, and characters
\* that only a fuzzy match takes for each other; and files where lines end in "\r".
Files == [1..3 -> {"a", "A", " ", "\n", "\r\n"}] \cup [1..4 -> {"a", "A", " ", "\n"}]
         \cup { f \in [1..4 -> {"a", "\r", "\n", "\r\n"}] :
                 \A i \in 1..3 : f[i] = "\r" => f[i + 1] # "\n" }
OldTexts == UNION { [1..n -> {"a", " ", "\n"}] : n \in 1..2 }
\* One edit deletes, the other puts in more than was there, and what both look for.
NewTexts == { << <<>>, <<"a", "\n", "a">> >> }

E == INSTANCE EditMatching
B == INSTANCE CommandOutput WITH aborted <- commandAborted, file <- tempFile

InitTools ==
  /\ part \in {"queue", "edit", "command"}
  /\ B!Init
  /\ part # "command" => by = "user" /\ ~held
  /\ Init /\ (part # "queue" => content = [p \in Path |-> Missing])
  /\ IF part = "edit" THEN E!Init ELSE file = <<>> /\ edits = <<>> /\ called = "no"

NextTools ==
  /\ \/ part = "queue" /\ Next /\ UNCHANGED <<editVars, commandVars>>
     \/ part = "edit" /\ E!Next /\ UNCHANGED <<vars, commandVars>>
     \/ part = "command" /\ B!Next /\ UNCHANGED <<vars, editVars>>
  /\ UNCHANGED part

\* What the modules' own specifications are fair to.
InQueue(A) == part = "queue" /\ A /\ UNCHANGED <<part, editVars, commandVars>>
InCommand(A) == part = "command" /\ A /\ UNCHANGED <<part, vars, editVars>>

SpecTools == /\ InitTools /\ [][NextTools]_allVars
             /\ \A o \in Op : /\ WF_allVars(InQueue(Enter(o)))
                              /\ WF_allVars(InQueue(Release(o)))
                              /\ WF_allVars(InQueue(Body(o)))
             /\ WF_allVars(InCommand(B!Settle))

\* The properties of the modules, whose comments say what they mean.
EditsAreSimultaneous == E!EditsAreSimultaneous
OutputKept == B!OutputKept
KilledReturns == B!KilledReturns
=============================================================================
