------------------------------ MODULE MCAgentRuns ------------------------------
(***************************************************************************)
(* Two instances of AgentLoop explored together: one run in which the loop  *)
(* may do everything, with the constants of the module, and two runs, the   *)
(* second a prompt or a continue, of a loop that retries nothing.           *)
(***************************************************************************)
EXTENDS MCAgentLoop

VARIABLE repeated  \* the second instance

Twice == INSTANCE AgentLoop WITH
  CallLists <- OneEdit, MaxCalls <- 1, MaxRequests <- 1, MaxRuns <- 2,
  UPSTREAM_RETRY_LIMIT <- 0, EMPTY_TURN_MAX <- 0,
  MAX_COVERAGE_RETRIES <- 0, MAX_CRITERIA_COVERAGE_RETRIES <- 0

\* A step of the one, or of the other.
Either(A, B) == /\ \/ ~repeated /\ A
                   \/ repeated /\ B
                /\ UNCHANGED repeated

InitRuns == repeated \in BOOLEAN /\ Init
NextRuns == Either(Next, Twice!Next)
SpecRuns == InitRuns /\ [][NextRuns]_<<repeated, vars>>

\* What AgentLoop is fair to, in both.
FairRuns == /\ SpecRuns
            /\ WF_<<repeated, vars>>(Either(Loop, Twice!Loop))
            /\ WF_<<repeated, vars>>(Either(Tools, Twice!Tools))
            /\ WF_<<repeated, vars>>(Either(Tick, Twice!Tick))
=============================================================================
