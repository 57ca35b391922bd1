----------------------------- MODULE AgentEvents -----------------------------
(***************************************************************************)
(* What an Agent promises the listeners of its events, with no model, no   *)
(* queues and no clock in it: runs do not overlap, a tool runs inside a    *)
(* turn, a turn ends only when its tools have, agent_end comes when no     *)
(* tool is running, and a run that started becomes idle again.  A run may  *)
(* end inside a turn (the time budget ran out, or the request threw).      *)
(***************************************************************************)
CONSTANT Position      \* positions of tool calls in a reply

VARIABLES run,         \* "idle", "open" after agent_start, "ended" after agent_end
          turn,        \* a turn_start without its turn_end
          tools        \* tool_execution_start without tool_execution_end

vars == <<run, turn, tools>>

Init == run = "idle" /\ turn = FALSE /\ tools = {}

\* agent_start and the first turn_start.
AgentStart == /\ run = "idle"
              /\ run' = "open" /\ turn' = TRUE
              /\ UNCHANGED tools

TurnStart == /\ run = "open" /\ ~turn
             /\ turn' = TRUE
             /\ UNCHANGED <<run, tools>>

TurnEnd == /\ run = "open" /\ turn /\ tools = {}
           /\ turn' = FALSE
           /\ UNCHANGED <<run, tools>>

ToolStart(c) == /\ run = "open" /\ turn /\ c \notin tools
                /\ tools' = tools \cup {c}
                /\ UNCHANGED <<run, turn>>

ToolEnd(c) == /\ run = "open" /\ turn /\ c \in tools
              /\ tools' = tools \ {c}
              /\ UNCHANGED <<run, turn>>

AgentEnd == /\ run = "open" /\ tools = {}
            /\ run' = "ended" /\ turn' = FALSE
            /\ UNCHANGED tools

\* Every listener of agent_end has settled: waitForIdle() resolves.
Settle == /\ run = "ended"
          /\ run' = "idle"
          /\ UNCHANGED <<turn, tools>>

Next == \/ AgentStart \/ TurnStart \/ TurnEnd \/ AgentEnd \/ Settle
        \/ \E c \in Position : ToolStart(c) \/ ToolEnd(c)

SafeSpec == Init /\ [][Next]_vars

Spec == SafeSpec /\ (run # "idle" ~> run = "idle")
=============================================================================
