----------------------------- MODULE MCAgentLoop -----------------------------
(***************************************************************************)
(* Small instances of AgentLoop: replies without a call, with an edit, or  *)
(* with a read and an edit (the smallest in which results can be           *)
(* mistaken for each other).                                               *)
(***************************************************************************)
EXTENDS AgentLoop

TwoCalls == { <<>>, <<"read", "edit">> }
OneEdit == { <<>>, <<"edit">> }
OnlyTwoCalls == { <<"read", "edit">> }
=============================================================================
