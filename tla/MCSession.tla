------------------------------ MODULE MCSession ------------------------------
(***************************************************************************)
(* Small instances of Session.  The program finds no file, or a session of *)
(* version 2, whose migration a crash may cut off at an empty file.        *)
(***************************************************************************)
EXTENDS Session

Old == <<Line("session", 0, 0, 2, FALSE), Line("user", 1, 0, 0, FALSE),
         Line("assistant", 2, 1, 0, FALSE)>>
FoundMC == { [lines |-> Old, open |-> FALSE] }
NothingFound == {}
=============================================================================
