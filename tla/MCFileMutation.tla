---------------------------- MODULE MCFileMutation ----------------------------
(***************************************************************************)
(* Small instances of FileMutation: one file with two paths, a link and    *)
(* its real path.                                                          *)
(***************************************************************************)
EXTENDS FileMutation

CONSTANTS e1, e2, w1, w2, link, real

KindMC == [o \in Op |-> IF o \in {e1, e2} THEN "edit" ELSE "write"]
\* Three calls of one reply, and one of the next run.
RunMC == [o \in Op |-> IF o = e2 THEN 2 ELSE 1]

ByLink == [o \in Op |-> IF o = w2 THEN link ELSE real]
ByName == [o \in Op |-> real]
RealPathMC == [p \in Path |-> real]
=============================================================================
