--------------------------- MODULE CredentialsProofs ---------------------------
(***************************************************************************)
(* Proofs about Credentials for any processes, sets, crashes and failures:  *)
(* its types, that nobody writes back an older credential, and that no      *)
(* token is presented twice without a reason.                              *)
(***************************************************************************)
EXTENDS Credentials, TLAPS

(***************************************************************************)
(* Types.  How many numbers have been given out is not bounded.             *)
(***************************************************************************)
SyncStates == [pc : {"off", "none", "create", "lock"}, op : {"load", "set", "recover"},
               of : Providers, value : 0..issued]
RefreshStates == [pc : {"none", "lock", "asking", "answered", "recovering"},
                  view : Credentials, answer : 0..issued]

Types == TypeOK /\ issued \in Nat

LEMMA NothingType == issued \in Nat => Nothing \in Credentials
BY DEF Nothing, Credentials, Providers, None

LEMMA UpdateType ==
  ASSUME issued \in Nat, NEW c \in Credentials, NEW of \in Providers, NEW v \in 0..issued
  PROVE  /\ [c EXCEPT ![of] = v] \in Credentials
         /\ [c EXCEPT ![of] = v].token = IF of = "token" THEN v ELSE c.token
BY DEF Credentials, Providers

LEMMA TokenType ==
  ASSUME issued \in Nat, NEW c \in Credentials, NEW v \in 0..issued
  PROVE  /\ [c EXCEPT !.token = v] \in Credentials
         /\ [c EXCEPT !.token = v].token = v
         /\ c.token \in 0..issued
BY DEF Credentials, Providers

LEMMA InitTypes == Init => Types
<1> SUFFICES ASSUME Init PROVE Types
  OBVIOUS
<1>1. issued \in Nat
  BY DEF Init
<1>2. Nothing \in Credentials /\ 0 \in 0..issued /\ "key" \in Providers
  BY <1>1, NothingType DEF Providers
<1>3. file.credentials \in Credentials /\ file.state \in {"absent", "whole"}
      /\ file \in [state : {"absent", "empty", "partial", "whole"}, credentials : Credentials]
  <2>1. CASE file = [state |-> "absent", credentials |-> Nothing]
    BY <2>1, <1>2
  <2>2. CASE file = Whole([Nothing EXCEPT !.token = 1]) /\ issued = 1
    <3>1. 1 \in 0..issued
      BY <2>2
    <3>2. [Nothing EXCEPT !.token = 1] \in Credentials
      BY <1>1, <1>2, <3>1, TokenType
    <3> QED BY <2>2, <3>2 DEF Whole
  <2> QED BY <2>1, <2>2 DEF Init
<1>4. sync \in [Processes -> SyncStates]
  BY <1>2 DEF Init, NoSync, None, SyncStates
<1>5. refresh \in [Processes -> RefreshStates] /\ \A p \in Processes : ~AtWork(p)
  BY <1>2 DEF Init, NoRefresh, None, RefreshStates, AtWork
<1> QED BY <1>1, <1>2, <1>3, <1>4, <1>5
        DEF Init, Types, TypeOK, Unlocked, SyncStates, RefreshStates

\* What LockAndRead remembers is what it has read.
LEMMA ReadAsIs ==
  ASSUME Types, NEW p \in Processes
  PROVE  [file.credentials EXCEPT !.token = ToRefresh(p)] = file.credentials
<1> DEFINE c == file.credentials
<1>1. c \in Credentials
  BY DEF Types, TypeOK
<1> HIDE DEF c
<1>2. [c EXCEPT !.token = c.token] = c
  BY <1>1 DEF Credentials
<1> QED BY <1>2 DEF ToRefresh, c

\* Numbers are given out in order: what is of a type stays of it.
LEMMA Wider ==
  ASSUME issued \in Nat, issued' \in Nat, issued <= issued'
  PROVE  /\ Credentials \subseteq Credentials' /\ 1..issued \subseteq 1..issued'
         /\ SyncStates \subseteq SyncStates' /\ RefreshStates \subseteq RefreshStates'
<1>1. 0..issued \subseteq 0..issued' /\ 1..issued \subseteq 1..issued'
  OBVIOUS
<1>2. Credentials \subseteq Credentials'
  BY <1>1 DEF Credentials
<1> QED BY <1>1, <1>2 DEF SyncStates, RefreshStates

LEMMA BeginType ==
  ASSUME Types, NEW p \in Processes, NEW op \in {"load", "set", "recover"},
         NEW of \in Providers, NEW value \in 0..issued', issued' \in Nat, issued <= issued',
         Begin(p, op, of, value)
  PROVE  sync' \in [Processes -> SyncStates']
<1>1. sync \in [Processes -> SyncStates']
  BY Wider DEF Types, TypeOK, SyncStates
<1>2. [pc |-> IF Exists THEN "lock" ELSE "create", op |-> op, of |-> of, value |-> value]
        \in SyncStates'
  BY DEF SyncStates
<1> QED BY <1>1, <1>2 DEF Begin

LEMMA DoneType ==
  ASSUME Types, NEW p \in Processes, Done(p)
  PROVE  /\ sync' \in [Processes -> SyncStates] /\ refresh' \in [Processes -> RefreshStates]
         /\ \A q \in Processes : AtWork(q)' => AtWork(q) /\ refresh'[q] = refresh[q]
<1>1. NoSync \in SyncStates /\ NoRefresh \in RefreshStates
  BY NothingType DEF Types, SyncStates, RefreshStates, NoSync, NoRefresh, None, Providers
<1>2. refresh \in [Processes -> RefreshStates] /\ sync \in [Processes -> SyncStates]
  BY DEF Types, TypeOK, SyncStates, RefreshStates
<1> QED BY <1>1, <1>2 DEF Done, AtWork, NoRefresh

LEMMA RecoverType ==
  ASSUME Types, NEW p \in Processes, Recover(p), issued' = issued
  PROVE  /\ sync' \in [Processes -> SyncStates] /\ refresh' \in [Processes -> RefreshStates]
         /\ \A q \in Processes : AtWork(q)' => AtWork(q) /\ refresh'[q] = refresh[q]
<1>1. [NoRefresh EXCEPT !.pc = "recovering"] \in RefreshStates
  BY NothingType DEF Types, RefreshStates, NoRefresh, None
<1>2. sync' \in [Processes -> SyncStates']
  BY BeginType DEF Types, Recover, None, Providers
<1>3. SyncStates' = SyncStates
  BY DEF SyncStates
<1>4. refresh \in [Processes -> RefreshStates]
  BY DEF Types, TypeOK, RefreshStates
<1> QED BY <1>1, <1>2, <1>3, <1>4 DEF Recover, AtWork, NoRefresh

LEMMA StepTypes == Types /\ [Next]_vars => Types'
<1> SUFFICES ASSUME Types, [Next]_vars PROVE Types'
  OBVIOUS
<1> DEFINE FileStates == [state : {"absent", "empty", "partial", "whole"}, credentials : Credentials]
           Locks == [holder : Processes \cup {NoProcess}, how : {"sync", "async"}, age : 0..2]
<1>t. /\ issued \in Nat /\ file \in FileStates /\ last \in Credentials /\ lock \in Locks
      /\ sync \in [Processes -> SyncStates] /\ refresh \in [Processes -> RefreshStates]
      /\ \A p \in Processes : AtWork(p) => refresh[p].view.token \in expired
      /\ data \in [Processes -> Credentials]
      /\ loadError \in [Processes -> BOOLEAN] /\ compromised \in [Processes -> BOOLEAN]
      /\ expired \subseteq 1..issued /\ spent \subseteq expired
      /\ twice \subseteq spent /\ unanswered \subseteq spent
  BY DEF Types, TypeOK, SyncStates, RefreshStates
<1>n. Nothing \in Credentials /\ NoSync \in SyncStates /\ NoRefresh \in RefreshStates
      /\ Unlocked \in Locks
  BY <1>t, NothingType DEF SyncStates, RefreshStates, NoSync, NoRefresh, None, Providers, Unlocked
\* It is enough to say what changes, when no number is given out.
<1>same. ASSUME issued' = issued,
                file' \in FileStates, last' \in Credentials, lock' \in Locks,
                sync' \in [Processes -> SyncStates], refresh' \in [Processes -> RefreshStates],
                \A p \in Processes : AtWork(p)' => refresh'[p].view.token \in expired',
                data' \in [Processes -> Credentials],
                loadError' \in [Processes -> BOOLEAN], compromised' \in [Processes -> BOOLEAN],
                expired' \subseteq 1..issued, spent' \subseteq expired',
                twice' \subseteq spent', unanswered' \subseteq spent'
         PROVE  Types'
  BY <1>same, <1>t DEF Types, TypeOK, SyncStates, RefreshStates, Credentials
<1>1. CASE UNCHANGED vars
  BY <1>1, <1>t, <1>same DEF vars, fileVars, AtWork
<1>2. CASE Ages
  <2>1. lock' \in Locks
    BY <1>2, <1>t DEF Ages
  <2> QED BY <1>2, <2>1, <1>t, <1>same DEF Ages, fileVars, AtWork
<1>3. CASE Expire
  BY <1>3, <1>t, <1>same DEF Expire, fileVars, AtWork
<1>4. ASSUME NEW p \in Processes, Start(p) PROVE Types'
  <2>1. sync' \in [Processes -> SyncStates']
    BY <1>4, <1>t, BeginType DEF Start, None, Providers
  <2>2. SyncStates' = SyncStates
    BY <1>4 DEF Start, SyncStates
  <2> QED BY <1>4, <2>1, <2>2, <1>t, <1>n, <1>same DEF Start, fileVars, AtWork
<1>5. ASSUME NEW p \in Processes, CreateFile(p) PROVE Types'
  <2>1. sync' \in [Processes -> SyncStates]
    BY <1>5, <1>t DEF CreateFile, SyncStates
  <2>2. file' \in FileStates
    BY <1>5, <1>n DEF CreateFile, Whole
  <2> QED BY <1>5, <2>1, <2>2, <1>t, <1>same DEF CreateFile, AtWork
<1>6. ASSUME NEW p \in Processes, NEW of \in Providers, NEW value \in {None, issued + 1},
             Set(p, of, value)
      PROVE  Types'
  <2>1. issued' \in Nat /\ issued <= issued' /\ value \in 0..issued'
    BY <1>6, <1>t DEF Set, None
  <2>2. Credentials \subseteq Credentials' /\ 1..issued \subseteq 1..issued'
        /\ SyncStates \subseteq SyncStates' /\ RefreshStates \subseteq RefreshStates'
    BY <2>1, <1>t, Wider
  <2>3. sync' \in [Processes -> SyncStates']
    <3>1. CASE loadError[p]
      BY <1>6, <3>1, <2>2, <1>t DEF Set
    <3>2. CASE ~loadError[p]
      BY <1>6, <3>2, <2>1, BeginType DEF Set
    <3> QED BY <3>1, <3>2
  <2>4. data' \in [Processes -> Credentials']
    <3>1. data[p] \in Credentials'
      BY <2>2, <1>t
    <3>2. [data[p] EXCEPT ![of] = value] \in Credentials'
      BY <2>1, <3>1, UpdateType DEF Credentials
    <3> QED BY <1>6, <2>2, <3>2, <1>t DEF Set
  <2>5. refresh' \in [Processes -> RefreshStates'] /\ file.credentials \in Credentials'
        /\ last' \in Credentials'
    BY <1>6, <2>2, <1>t DEF Set, fileVars
  <2>6. file' \in [state : {"absent", "empty", "partial", "whole"}, credentials : Credentials']
    BY <1>6, <2>5, <2>2, <1>t DEF Set, fileVars
  <2>7. UNCHANGED <<fileVars, lock, refresh, loadError, compromised, expired, spent, twice,
                    unanswered>>
    BY <1>6 DEF Set
  <2>8. expired' \subseteq 1..issued'
    BY <2>2, <2>7, <1>t
  <2> QED BY <2>1, <2>3, <2>4, <2>5, <2>6, <2>7, <2>8, <1>t
          DEF Types, TypeOK, SyncStates, RefreshStates, AtWork
<1>7. ASSUME NEW p \in Processes, RunLocked(p) PROVE Types'
  <2>1. sync' \in [Processes -> SyncStates] /\ refresh' \in [Processes -> RefreshStates]
        /\ \A q \in Processes : AtWork(q)' => AtWork(q) /\ refresh'[q] = refresh[q]
    BY <1>7, DoneType DEF RunLocked
  <2>2. file' \in FileStates /\ last' \in Credentials /\ data' \in [Processes -> Credentials]
        /\ loadError' \in [Processes -> BOOLEAN]
    <3>1. CASE sync[p].op = "set"
      <4>1. sync[p].of \in Providers /\ sync[p].value \in 0..issued
        BY <1>t DEF SyncStates
      <4>2. With(p, file.credentials, sync[p].of, sync[p].value) \in Credentials
            /\ [last EXCEPT ![sync[p].of] = sync[p].value] \in Credentials
        BY <4>1, <1>t, UpdateType DEF With
      <4>3. /\ file' = Whole(With(p, file.credentials, sync[p].of, sync[p].value))
            /\ last' = [last EXCEPT ![sync[p].of] = sync[p].value]
            /\ UNCHANGED <<data, loadError>>
        BY <1>7, <3>1 DEF RunLocked
      <4> QED BY <4>2, <4>3, <1>t DEF Whole
    <3>2. CASE sync[p].op # "set"
      BY <1>7, <3>2, <1>t DEF RunLocked
    <3> QED BY <3>1, <3>2
  <2>3. lock' \in Locks /\ UNCHANGED <<compromised, issued, expired, spent, left, twice, unanswered>>
    BY <1>7, <1>n DEF RunLocked
  <2> QED BY <2>1, <2>2, <2>3, <1>t, <1>same
<1>8. ASSUME NEW p \in Processes, FailLocked(p) PROVE Types'
  <2>1. sync' \in [Processes -> SyncStates] /\ refresh' \in [Processes -> RefreshStates]
        /\ \A q \in Processes : AtWork(q)' => AtWork(q) /\ refresh'[q] = refresh[q]
    BY <1>8, DoneType DEF FailLocked
  <2>2. loadError' \in [Processes -> BOOLEAN]
    BY <1>8, <1>t DEF FailLocked
  <2> QED BY <1>8, <2>1, <2>2, <1>t, <1>same DEF FailLocked, fileVars
<1>9. ASSUME NEW p \in Processes, Touch(p) PROVE Types'
  <2>1. lock' = lock \/ lock' = [lock EXCEPT !.age = 0]
    BY <1>9 DEF Touch
  <2>2. lock' \in Locks
    BY <2>1, <1>t
  <2>3. compromised' \in [Processes -> BOOLEAN]
    BY <1>9, <1>t DEF Touch
  <2> QED BY <1>9, <2>2, <2>3, <1>t, <1>same DEF Touch, fileVars, AtWork
<1>10. ASSUME NEW p \in Processes, GetApiKey(p) PROVE Types'
  <2>1. refresh' \in [Processes -> RefreshStates] /\ compromised' \in [Processes -> BOOLEAN]
    BY <1>10, <1>t DEF GetApiKey, RefreshStates
  <2>2. \A q \in Processes : AtWork(q)' => AtWork(q) /\ refresh'[q] = refresh[q]
    BY <1>10, <1>t DEF GetApiKey, AtWork
  <2> QED BY <1>10, <2>1, <2>2, <1>t, <1>same DEF GetApiKey, fileVars
<1>11. ASSUME NEW p \in Processes, LockAndRead(p) PROVE Types'
  <2>0. UNCHANGED <<fileVars, compromised, issued, expired, spent, left, twice, unanswered>>
    BY <1>11 DEF LockAndRead
  <2>1. CASE ~Parses
    <3>1. lock' = Unlocked /\ Recover(p) /\ UNCHANGED <<data, loadError>>
      BY <1>11, <2>1 DEF LockAndRead
    <3> QED BY <2>0, <3>1, RecoverType, <1>t, <1>n, <1>same DEF fileVars
  <2>2. CASE Parses
    <3>1. data' \in [Processes -> Credentials] /\ loadError' \in [Processes -> BOOLEAN]
          /\ UNCHANGED sync
      BY <1>11, <2>2, <1>t DEF LockAndRead
    <3>2. CASE NeedsRefresh(ToRefresh(p))
      <4> DEFINE read == [file.credentials EXCEPT !.token = ToRefresh(p)]
                 new == [pc |-> "asking", view |-> read, answer |-> None]
      <4>1. refresh' = [refresh EXCEPT ![p] = new]
            /\ lock' = [holder |-> p, how |-> "async", age |-> 0]
        BY <1>11, <2>2, <3>2 DEF LockAndRead
      <4>2. read = file.credentials /\ 0 \in 0..issued
        BY <1>t, ReadAsIs
      <4> HIDE DEF read
      <4>3. new \in RefreshStates /\ new.view.token \in expired
        BY <3>2, <4>2, <1>t DEF RefreshStates, None, NeedsRefresh, ToRefresh
      <4>4. lock' \in Locks
        BY <4>1
      <4> HIDE DEF new
      <4>5. refresh' \in [Processes -> RefreshStates]
            /\ \A q \in Processes : AtWork(q)' => refresh'[q].view.token \in expired
        BY <4>1, <4>3, <1>t DEF AtWork
      <4> QED BY <2>0, <3>1, <4>4, <4>5, <1>t, <1>same DEF fileVars
    <3>3. CASE ~NeedsRefresh(ToRefresh(p))
      <4>1. lock' = Unlocked /\ refresh' = [refresh EXCEPT ![p] = NoRefresh]
        BY <1>11, <2>2, <3>3 DEF LockAndRead
      <4>2. \A q \in Processes : AtWork(q)' => AtWork(q) /\ refresh'[q] = refresh[q]
        BY <4>1, <1>t DEF AtWork, NoRefresh
      <4> QED BY <2>0, <3>1, <4>1, <4>2, <1>t, <1>n, <1>same DEF fileVars
    <3> QED BY <3>2, <3>3
  <2> QED BY <2>1, <2>2
<1>12. ASSUME NEW p \in Processes, LockFails(p) PROVE Types'
  <2>1. Recover(p) /\ UNCHANGED <<fileVars, lock, data, loadError, compromised, issued, expired,
                                  spent, left, twice, unanswered>>
    BY <1>12 DEF LockFails
  <2> QED BY <2>1, RecoverType, <1>t, <1>same DEF fileVars
<1>13. ASSUME NEW p \in Processes, Exchange(p) PROVE Types'
  <2> DEFINE token == refresh[p].view.token
  <2>0. UNCHANGED <<fileVars, lock, sync, data, loadError, compromised, expired, left>>
        /\ token \in expired /\ refresh[p].pc = "asking"
    BY <1>13, <1>t DEF Exchange, AtWork
  <2>1. CASE token \in spent
    <3>1. refresh' = [refresh EXCEPT ![p].pc = "answered"] /\ twice' = twice \cup {token}
          /\ UNCHANGED <<spent, issued, unanswered>>
      BY <1>13, <2>1 DEF Exchange
    <3>2. refresh' \in [Processes -> RefreshStates]
      BY <3>1, <1>t DEF RefreshStates
    <3>3. \A q \in Processes : AtWork(q)' => AtWork(q) /\ refresh'[q].view = refresh[q].view
      BY <2>0, <3>1, <1>t DEF AtWork, RefreshStates
    <3> QED BY <2>0, <2>1, <3>1, <3>2, <3>3, <1>t, <1>same DEF fileVars
  <2>2. CASE token \notin spent
    <3>1. refresh' = [refresh EXCEPT ![p].pc = "answered", ![p].answer = issued']
          /\ issued' = issued + 1 /\ spent' = spent \cup {token}
          /\ unanswered' = unanswered \cup {token} /\ UNCHANGED twice
      BY <1>13, <2>2 DEF Exchange
    <3>2. issued' \in Nat /\ issued <= issued' /\ issued' \in 0..issued'
      BY <3>1, <1>t
    <3>3. Credentials \subseteq Credentials' /\ 1..issued \subseteq 1..issued'
          /\ SyncStates \subseteq SyncStates' /\ RefreshStates \subseteq RefreshStates'
      BY <3>2, <1>t, Wider
    <3>4. refresh \in [Processes -> RefreshStates']
      BY <3>3, <1>t
    <3>5. refresh' \in [Processes -> RefreshStates']
      BY <3>1, <3>2, <3>4 DEF RefreshStates
    <3>6. \A q \in Processes : AtWork(q)' => AtWork(q) /\ refresh'[q].view = refresh[q].view
      BY <2>0, <3>1, <1>t DEF AtWork, RefreshStates
    <3>7. file.credentials \in Credentials' /\ last' \in Credentials'
          /\ data' \in [Processes -> Credentials'] /\ sync' \in [Processes -> SyncStates']
          /\ expired' \subseteq 1..issued'
      BY <2>0, <3>3, <1>t DEF fileVars
    <3>8. file' \in [state : {"absent", "empty", "partial", "whole"}, credentials : Credentials']
      BY <2>0, <3>7, <1>t DEF fileVars
    <3> QED BY <2>0, <3>1, <3>2, <3>5, <3>6, <3>7, <3>8, <1>t
            DEF Types, TypeOK, SyncStates, RefreshStates
  <2> QED BY <2>1, <2>2
<1>14. ASSUME NEW p \in Processes, Refreshed(p) PROVE Types'
  <2> DEFINE merged == [refresh[p].view EXCEPT !.token = refresh[p].answer]
  <2>1. refresh[p].view \in Credentials /\ refresh[p].answer \in 0..issued
    BY <1>t DEF RefreshStates
  <2>2. merged \in Credentials /\ merged.token \in 0..issued
    BY <2>1, <1>t, TokenType
  <2>3. /\ file' = Whole(merged) /\ last' = [last EXCEPT !.token = merged.token]
        /\ unanswered' = unanswered \ {refresh[p].view.token}
        /\ data' = [data EXCEPT ![p] = merged] /\ loadError' = [loadError EXCEPT ![p] = FALSE]
        /\ lock' = (IF compromised[p] THEN lock ELSE Unlocked)
        /\ refresh' = [refresh EXCEPT ![p] = NoRefresh]
        /\ UNCHANGED <<harmed, sync, compromised, issued, expired, spent, left, twice>>
    BY <1>14 DEF Refreshed, Unlocks
  <2> HIDE DEF merged
  <2>4. last' \in Credentials
    BY <2>2, <2>3, <1>t, TokenType
  <2>5. file' \in FileStates
    BY <2>2, <2>3 DEF Whole
  <2>6. \A q \in Processes : AtWork(q)' => AtWork(q) /\ refresh'[q] = refresh[q]
    BY <2>3, <1>t DEF AtWork, NoRefresh
  <2> QED BY <2>2, <2>3, <2>4, <2>5, <2>6, <1>t, <1>n, <1>same
<1>15. ASSUME NEW p \in Processes, RefreshFails(p) PROVE Types'
  <2>1. /\ Recover(p) /\ lock' = (IF compromised[p] THEN lock ELSE Unlocked)
        /\ UNCHANGED <<fileVars, loadError, compromised, issued, expired, spent, twice, unanswered>>
    BY <1>15 DEF RefreshFails, Unlocks
  <2>2. [refresh[p].view EXCEPT !.token = refresh[p].answer] \in Credentials
    BY <1>t, TokenType DEF RefreshStates
  <2>3. data' \in [Processes -> Credentials]
    BY <1>15, <2>2, <1>t DEF RefreshFails
  <2> QED BY <2>1, <2>3, RecoverType, <1>t, <1>n, <1>same DEF fileVars
<1>16. ASSUME NEW p \in Processes, Crash(p) PROVE Types'
  <2>1. /\ sync' = [sync EXCEPT ![p] = [NoSync EXCEPT !.pc = "off"]]
        /\ refresh' = [refresh EXCEPT ![p] = NoRefresh]
        /\ UNCHANGED <<data, loadError, compromised, issued, expired, spent, twice, unanswered>>
    BY <1>16 DEF Crash
  <2>2. [NoSync EXCEPT !.pc = "off"] \in SyncStates
    BY <1>t DEF SyncStates, NoSync, None, Providers
  <2>3. sync' \in [Processes -> SyncStates] /\ refresh' \in [Processes -> RefreshStates]
    BY <2>1, <2>2, <1>t, <1>n
  <2>4. \A q \in Processes : AtWork(q)' => AtWork(q) /\ refresh'[q] = refresh[q]
    BY <2>1, <1>t DEF AtWork, NoRefresh
  <2>5. file' \in FileStates /\ last' \in Credentials /\ lock' \in Locks
    <3>1. CASE UNCHANGED <<fileVars, lock>>
      BY <3>1, <1>t DEF fileVars
    <3>2. ASSUME NEW state \in {"empty", "partial"},
                 file' = [state |-> state, credentials |-> Nothing], UNCHANGED last,
                 lock' \in {lock, [holder |-> p, how |-> "sync", age |-> 0]}
          PROVE  file' \in FileStates /\ last' \in Credentials /\ lock' \in Locks
      BY <3>2, <1>t, <1>n
    <3> QED BY <1>16, <3>1, <3>2 DEF Crash
  <2> QED BY <2>1, <2>3, <2>4, <2>5, <1>t, <1>same
<1> QED BY <1>1, <1>2, <1>3, <1>4, <1>5, <1>6, <1>7, <1>8, <1>9, <1>10, <1>11, <1>12, <1>13,
          <1>14, <1>15, <1>16 DEF Next

(***************************************************************************)
(* A refresh at work has the lock, and has read what the file still holds.  *)
(***************************************************************************)
AbsentInv == ~Exists => file.credentials = Nothing
HolderInv == ~harmed => \A p \in Processes : AtWork(p) => Holds(p)
YoungInv == HeldAtWork => lock.age < 2
ViewInv == ~harmed => \A p \in Processes : AtWork(p) => refresh[p].view = file.credentials

KInv == AbsentInv /\ HolderInv /\ YoungInv /\ ViewInv /\ CredentialsKept

LEMMA InitKept == Init => KInv
BY DEF Init, KInv, AbsentInv, HolderInv, YoungInv, ViewInv, CredentialsKept, HeldAtWork,
       AtWork, NoRefresh, Exists, Whole

\* Nobody else is at work beside the holder, and nobody when the lock can be taken.
LEMMA Alone ==
  ASSUME KInv, ~harmed, NEW p \in Processes, AtWork(p)
  PROVE  HeldAtWork /\ lock.age < 2 /\ lock.holder = p
         /\ \A q \in Processes : AtWork(q) => q = p
BY DEF KInv, HolderInv, YoungInv, Holds, HeldAtWork

\* Steps that start no work and leave the lock and the file alone.
LEMMA Apart ==
  ASSUME KInv, UNCHANGED <<file, last, harmed, lock>>,
         \A q \in Processes : AtWork(q)' => AtWork(q) /\ refresh'[q].view = refresh[q].view
  PROVE  KInv'
BY DEF KInv, AbsentInv, HolderInv, YoungInv, ViewInv, CredentialsKept, HeldAtWork, Holds, Exists

\* Steps after which nobody is at work, or the file has been harmed.
LEMMA Idle ==
  ASSUME AbsentInv', CredentialsKept', YoungInv', ~harmed' => \A q \in Processes : ~AtWork(q)'
  PROVE  KInv'
BY DEF KInv, HolderInv, ViewInv

LEMMA StepKept ==
  ASSUME NoProcess \notin Processes
  PROVE  Types /\ KInv /\ [Next]_vars => KInv'
<1> SUFFICES ASSUME Types, KInv, [Next]_vars PROVE KInv'
  OBVIOUS
<1>t. /\ refresh \in [Processes -> RefreshStates] /\ sync \in [Processes -> SyncStates]
      /\ lock \in [holder : Processes \cup {NoProcess}, how : {"sync", "async"}, age : 0..2]
      /\ file.credentials \in Credentials /\ issued \in Nat
  BY DEF Types, TypeOK, RefreshStates, SyncStates
<1>1. CASE UNCHANGED vars
  BY <1>1, Apart DEF vars, fileVars, AtWork
<1>2. CASE Ages
  <2>1. UNCHANGED <<fileVars, refresh>> /\ lock' = [lock EXCEPT !.age = @ + 1] /\ lock.age < 2
        /\ (lock.age = 1 => ~HeldAtWork)
    BY <1>2 DEF Ages
  <2>2. lock'.holder = lock.holder /\ lock'.how = lock.how /\ lock'.age = lock.age + 1
    BY <2>1, <1>t
  <2>3. HeldAtWork' = HeldAtWork
    BY <2>1, <2>2 DEF HeldAtWork, Holds, AtWork
  <2>4. lock.age \in 0..2
    BY <1>t
  <2>5. YoungInv'
    BY <2>1, <2>2, <2>3, <2>4 DEF YoungInv
  <2> QED BY <2>1, <2>2, <2>5 DEF KInv, AbsentInv, HolderInv, ViewInv, CredentialsKept, Holds,
                                  AtWork, Exists, fileVars
<1>3. CASE Expire
  BY <1>3, Apart DEF Expire, fileVars, AtWork
<1>4. ASSUME NEW p \in Processes, Start(p) PROVE KInv'
  BY <1>4, Apart DEF Start, fileVars, AtWork
<1>5. ASSUME NEW p \in Processes, CreateFile(p) PROVE KInv'
  <2>1. /\ UNCHANGED <<last, lock, refresh>> /\ harmed' = (harmed \/ Exists)
        /\ file'.credentials = Nothing /\ file'.state = "whole"
    BY <1>5 DEF CreateFile, Whole
  <2>2. ~harmed' => ~harmed /\ file'.credentials = file.credentials
    BY <2>1 DEF KInv, AbsentInv
  <2>3. HeldAtWork' = HeldAtWork
    BY <2>1 DEF HeldAtWork, Holds, AtWork
  <2> QED BY <2>1, <2>2, <2>3 DEF KInv, AbsentInv, HolderInv, YoungInv, ViewInv, CredentialsKept,
                                 Holds, AtWork, Exists
<1>6. ASSUME NEW p \in Processes, NEW of \in Providers, NEW value \in {None, issued + 1},
             Set(p, of, value)
      PROVE  KInv'
  BY <1>6, Apart DEF Set, fileVars, AtWork
<1>7. ASSUME NEW p \in Processes, RunLocked(p) PROVE KInv'
  <2>1. /\ lock' = Unlocked /\ harmed' = (harmed \/ HeldAtWork)
        /\ \A q \in Processes : AtWork(q)' => AtWork(q)
    BY <1>7, DoneType DEF RunLocked
  <2>2. ~harmed' => \A q \in Processes : ~AtWork(q)'
    BY <2>1, Alone
  <2>3. ~HeldAtWork'
    BY <2>1 DEF HeldAtWork, Holds, Unlocked
  <2>4. AbsentInv' /\ CredentialsKept'
    <3>1. CASE sync[p].op = "set"
      <4>1. /\ file' = Whole(With(p, file.credentials, sync[p].of, sync[p].value))
            /\ last' = [last EXCEPT ![sync[p].of] = sync[p].value]
        BY <1>7, <3>1 DEF RunLocked
      <4>2. file'.credentials = [file.credentials EXCEPT ![sync[p].of] = sync[p].value]
            /\ file'.state = "whole"
        BY <4>1 DEF Whole, With
      <4> QED BY <2>1, <4>1, <4>2 DEF KInv, AbsentInv, CredentialsKept, Exists
    <3>2. CASE sync[p].op # "set"
      BY <1>7, <2>1, <3>2 DEF RunLocked, AbsentInv, CredentialsKept, KInv, Exists
    <3> QED BY <3>1, <3>2
  <2> QED BY <2>2, <2>3, <2>4, Idle DEF YoungInv
<1>8. ASSUME NEW p \in Processes, FailLocked(p) PROVE KInv'
  <2>1. \A q \in Processes : AtWork(q)' => AtWork(q) /\ refresh'[q] = refresh[q]
    BY <1>8, DoneType DEF FailLocked
  <2> QED BY <1>8, <2>1, Apart DEF FailLocked, fileVars
<1>9. ASSUME NEW p \in Processes, Touch(p) PROVE KInv'
  <2>1. CASE Holds(p)
    <3>1. UNCHANGED <<fileVars, refresh>> /\ lock' = [lock EXCEPT !.age = 0]
      BY <1>9, <2>1 DEF Touch
    <3>2. lock'.holder = lock.holder /\ lock'.how = lock.how /\ lock'.age = 0
      BY <3>1, <1>t
    <3>3. YoungInv'
      BY <3>2 DEF YoungInv
    <3> QED BY <3>1, <3>2, <3>3 DEF KInv, AbsentInv, HolderInv, ViewInv, CredentialsKept, Holds,
                                    AtWork, Exists, fileVars
  <2>2. CASE ~Holds(p)
    BY <1>9, <2>2, Apart DEF Touch, fileVars, AtWork
  <2> QED BY <2>1, <2>2
<1>10. ASSUME NEW p \in Processes, GetApiKey(p) PROVE KInv'
  <2>1. \A q \in Processes : AtWork(q)' => AtWork(q) /\ refresh'[q] = refresh[q]
    BY <1>10, <1>t DEF GetApiKey, AtWork
  <2> QED BY <1>10, <2>1, Apart DEF GetApiKey, fileVars
<1>11. ASSUME NEW p \in Processes, LockAndRead(p) PROVE KInv'
  <2>1. UNCHANGED fileVars /\ Takes(p, "async")
    BY <1>11 DEF LockAndRead
  <2>2. AbsentInv' /\ CredentialsKept'
    BY <2>1 DEF KInv, AbsentInv, CredentialsKept, fileVars, Exists
  <2>3. ~HeldAtWork
    <3>1. lock.holder = NoProcess => ~HeldAtWork
      BY DEF HeldAtWork, Holds
    <3>2. lock.age >= 2 => ~(lock.age < 2)
      BY <1>t
    <3> QED BY <2>1, <3>1, <3>2 DEF Takes, KInv, YoungInv
  <2>4. ~harmed => \A q \in Processes : ~AtWork(q)
    BY <2>3, Alone
  <2>5. CASE lock' = Unlocked /\ \A q \in Processes : AtWork(q)' => AtWork(q)
    <3>1. ~HeldAtWork'
      BY <2>5 DEF HeldAtWork, Holds, Unlocked
    <3> QED BY <2>1, <2>2, <2>4, <2>5, <3>1, Idle DEF YoungInv, fileVars
  <2>6. CASE Parses /\ NeedsRefresh(ToRefresh(p))
    <3> DEFINE read == [file.credentials EXCEPT !.token = ToRefresh(p)]
               new == [pc |-> "asking", view |-> read, answer |-> None]
    <3>1. refresh' = [refresh EXCEPT ![p] = new] /\ lock' = [holder |-> p, how |-> "async", age |-> 0]
      BY <1>11, <2>6 DEF LockAndRead
    <3>2. read = file.credentials
      BY ReadAsIs
    <3> HIDE DEF read
    <3>3. YoungInv' /\ Holds(p)'
      BY <3>1 DEF YoungInv, Holds
    <3>4. refresh'[p].view = file.credentials
      BY <3>1, <3>2, <1>t
    <3>5. \A q \in Processes : q # p => AtWork(q)' = AtWork(q)
      BY <3>1, <1>t DEF AtWork
    <3> QED BY <2>1, <2>2, <2>4, <3>3, <3>4, <3>5 DEF KInv, HolderInv, ViewInv, fileVars
  <2>7. CASE Parses /\ ~NeedsRefresh(ToRefresh(p))
    BY <1>11, <2>5, <2>7, <1>t DEF LockAndRead, AtWork, NoRefresh
  <2>8. CASE ~Parses
    <3>1. lock' = Unlocked /\ Recover(p) /\ issued' = issued
      BY <1>11, <2>8 DEF LockAndRead
    <3> QED BY <3>1, <2>5, RecoverType
  <2> QED BY <2>6, <2>7, <2>8
<1>12. ASSUME NEW p \in Processes, LockFails(p) PROVE KInv'
  <2>1. \A q \in Processes : AtWork(q)' => AtWork(q) /\ refresh'[q] = refresh[q]
    BY <1>12, RecoverType DEF LockFails
  <2> QED BY <1>12, <2>1, Apart DEF LockFails, fileVars
<1>13. ASSUME NEW p \in Processes, Exchange(p) PROVE KInv'
  <2>1. UNCHANGED <<fileVars, lock>>
    BY <1>13 DEF Exchange
  <2>2. \A q \in Processes : AtWork(q)' => AtWork(q) /\ refresh'[q].view = refresh[q].view
    BY <1>13, <1>t DEF Exchange, AtWork, RefreshStates
  <2> QED BY <2>1, <2>2, Apart DEF fileVars
<1>14. ASSUME NEW p \in Processes, Refreshed(p) PROVE KInv'
  <2> DEFINE merged == [refresh[p].view EXCEPT !.token = refresh[p].answer]
  <2>1. /\ file' = Whole(merged) /\ last' = [last EXCEPT !.token = merged.token]
        /\ lock' = (IF compromised[p] THEN lock ELSE Unlocked) /\ ~compromised[p]
        /\ refresh' = [refresh EXCEPT ![p] = NoRefresh]
        /\ harmed' = harmed /\ AtWork(p)
    BY <1>14 DEF Refreshed, Unlocks, AtWork
  <2>2. refresh[p].view \in Credentials /\ refresh[p].answer \in 0..issued
    BY <1>t DEF RefreshStates
  <2>3. merged.token = refresh[p].answer
    BY <2>2, <1>t, TokenType
  <2>4. \A q \in Processes : AtWork(q)' => AtWork(q) /\ q # p
    BY <2>1, <1>t DEF AtWork, NoRefresh
  <2>5. ~harmed' => \A q \in Processes : ~AtWork(q)'
    BY <2>1, <2>4, Alone
  <2>6. ~HeldAtWork'
    BY <2>1 DEF HeldAtWork, Holds, Unlocked
  <2>7. CredentialsKept'
    <3>1. ~harmed => refresh[p].view = last
      BY <2>1 DEF KInv, ViewInv, CredentialsKept
    <3> QED BY <2>1, <2>3, <3>1 DEF CredentialsKept, Whole
  <2>8. AbsentInv'
    BY <2>1 DEF AbsentInv, Exists, Whole
  <2> QED BY <2>5, <2>6, <2>7, <2>8, Idle DEF YoungInv
<1>15. ASSUME NEW p \in Processes, RefreshFails(p) PROVE KInv'
  <2>1. /\ UNCHANGED fileVars /\ lock' = (IF compromised[p] THEN lock ELSE Unlocked)
        /\ Recover(p) /\ issued' = issued /\ AtWork(p)
    BY <1>15 DEF RefreshFails, Unlocks, AtWork
  <2>2. \A q \in Processes : AtWork(q)' => AtWork(q) /\ refresh'[q] = refresh[q]
    BY <2>1, RecoverType
  <2>3. CASE compromised[p]
    BY <2>1, <2>2, <2>3, Apart DEF fileVars
  <2>4. CASE ~compromised[p]
    <3>1. ~AtWork(p)'
      BY <2>1, <1>t DEF Recover, AtWork, NoRefresh
    <3>2. ~harmed' => \A q \in Processes : ~AtWork(q)'
      BY <2>1, <2>2, <3>1, Alone DEF fileVars
    <3>3. ~HeldAtWork'
      BY <2>1, <2>4 DEF HeldAtWork, Holds, Unlocked
    <3> QED BY <2>1, <3>2, <3>3, Idle DEF KInv, YoungInv, AbsentInv, CredentialsKept, Exists, fileVars
  <2> QED BY <2>3, <2>4
<1>16. ASSUME NEW p \in Processes, Crash(p) PROVE KInv'
  <2>1. \A q \in Processes : AtWork(q)' => AtWork(q) /\ refresh'[q] = refresh[q]
    BY <1>16, <1>t DEF Crash, AtWork, NoRefresh
  <2>2. CASE UNCHANGED <<fileVars, lock>>
    BY <2>1, <2>2, Apart DEF fileVars
  <2>3. ASSUME NEW state \in {"empty", "partial"},
               file' = [state |-> state, credentials |-> Nothing], harmed' = TRUE,
               lock' = lock \/ lock' = [holder |-> p, how |-> "sync", age |-> 0]
        PROVE  KInv'
    <3>1. HeldAtWork' => HeldAtWork /\ lock' = lock
      BY <2>1, <2>3 DEF HeldAtWork, Holds
    <3> QED BY <2>3, <3>1, Idle DEF KInv, YoungInv, AbsentInv, CredentialsKept, Exists
  <2> QED BY <1>16, <2>2, <2>3 DEF Crash
<1> QED BY <1>1, <1>2, <1>3, <1>4, <1>5, <1>6, <1>7, <1>8, <1>9, <1>10, <1>11, <1>12, <1>13,
          <1>14, <1>15, <1>16 DEF Next

(***************************************************************************)
(* The tokens that are about to be written, by a process that sets one or   *)
(* one that has had one refreshed: nobody else knows them yet.              *)
(***************************************************************************)
Ways == {"set", "refresh"}
Setting(p) ==
  /\ sync[p].pc \in {"create", "lock"} /\ sync[p].op = "set"
  /\ sync[p].of = "token" /\ sync[p].value # None
Coming(p, way) ==
  CASE way = "set" /\ Setting(p) -> sync[p].value
    [] way = "refresh" /\ AtWork(p) -> refresh[p].answer
    [] OTHER -> None

Unknown(p, way) ==
  Coming(p, way) # None =>
    /\ Coming(p, way) \notin spent /\ Coming(p, way) # file.credentials.token
    /\ \A q \in Processes, other \in Ways :
         Coming(q, other) = Coming(p, way) => q = p /\ other = way

ComingInv == ~harmed => \A p \in Processes, way \in Ways : Unknown(p, way)
AskingInv == \A p \in Processes : refresh[p].pc = "asking" => refresh[p].answer = None
FileInv == ~harmed => (file.credentials.token \in spent => file.credentials.token \in unanswered)
AnswerInv ==
  ~harmed => \A p \in Processes :
               Coming(p, "refresh") # None => refresh[p].view.token \notin twice

SInv == ComingInv /\ AskingInv /\ FileInv /\ AnswerInv /\ SpentOnce

LEMMA InitSpent == Init => SInv
BY DEF Init, SInv, ComingInv, AskingInv, FileInv, AnswerInv, SpentOnce, Unknown, Coming, AtWork,
       NoRefresh, NoSync

LEMMA ComingType ==
  ASSUME Types, NEW p \in Processes, NEW way \in Ways
  PROVE  Coming(p, way) \in 0..issued
<1>1. sync[p].value \in 0..issued /\ refresh[p].answer \in 0..issued /\ None \in 0..issued
  BY DEF Types, TypeOK, None
<1> QED BY <1>1 DEF Coming

\* What is about to be written stays that, or is given up.
Stays(p, way) ==
  CASE way = "set" -> Setting(p)' => Setting(p) /\ sync'[p].value = sync[p].value
    [] way = "refresh" -> AtWork(p)' /\ refresh'[p].answer # None =>
                            AtWork(p) /\ refresh'[p] = refresh[p]

LEMMA ComingStays ==
  ASSUME NEW p \in Processes, NEW way \in Ways, Stays(p, way)
  PROVE  Coming(p, way)' \in {Coming(p, way), None}
<1>1. CASE way = "set"
  BY <1>1 DEF Stays, Coming, Setting
<1>2. CASE way = "refresh"
  BY <1>2 DEF Stays, Coming
<1> QED BY <1>1, <1>2 DEF Ways

\* Steps that bring nothing new about.
LEMMA NothingNew ==
  ASSUME SInv, AskingInv', ~harmed' => ~harmed /\ file'.credentials.token = file.credentials.token,
         UNCHANGED <<spent, unanswered, twice>>,
         \A p \in Processes, way \in Ways : Stays(p, way)
  PROVE  SInv'
<1>1. ComingInv'
  <2> SUFFICES ASSUME ~harmed', NEW p \in Processes, NEW way \in Ways, Coming(p, way)' # None
               PROVE  Unknown(p, way)'
    BY DEF ComingInv, Unknown
  <2>1. Coming(p, way)' = Coming(p, way) /\ Unknown(p, way)
    BY ComingStays DEF SInv, ComingInv
  <2> QED BY <2>1, ComingStays DEF Unknown
<1>2. AnswerInv'
  <2> SUFFICES ASSUME ~harmed', NEW p \in Processes, Coming(p, "refresh")' # None
               PROVE  refresh'[p].view.token \notin twice'
    BY DEF AnswerInv
  <2>1. Coming(p, "refresh")' = Coming(p, "refresh") /\ Coming(p, "refresh") # None
    BY ComingStays DEF Ways
  <2>2. refresh'[p] = refresh[p]
    BY DEF Coming, Stays, Ways
  <2> QED BY <2>1, <2>2 DEF SInv, AnswerInv
<1> QED BY <1>1, <1>2 DEF SInv, FileInv, SpentOnce

\* A number that has just been given out is nobody else's.
LEMMA OneNew ==
  ASSUME Types, SInv, harmed' = harmed, file' = file,
         NEW p \in Processes, NEW way \in Ways, Coming(p, way)' = issued + 1,
         issued + 1 \notin spent',
         \A q \in Processes, other \in Ways : q # p \/ other # way => Stays(q, other),
         \A q \in Processes, other \in Ways :
           ~harmed /\ Coming(q, other) # None => Coming(q, other) \notin spent'
  PROVE  ComingInv'
<1> SUFFICES ASSUME ~harmed', NEW q \in Processes, NEW other \in Ways, Coming(q, other)' # None
             PROVE  Unknown(q, other)'
  BY DEF ComingInv, Unknown
<1>1. issued \in Nat /\ file.credentials.token \in 0..issued
  BY DEF Types, TypeOK, Credentials, Providers
<1>2. ASSUME NEW r \in Processes, NEW third \in Ways, r # p \/ third # way
      PROVE  Coming(r, third)' \in {Coming(r, third), None} /\ Coming(r, third)' # issued + 1
  <2>1. Coming(r, third) \in 0..issued
    BY ComingType
  <2> QED BY <1>1, <1>2, <2>1, ComingStays DEF None
<1>3. CASE q = p /\ other = way
  BY <1>1, <1>2, <1>3 DEF Unknown
<1>4. CASE q # p \/ other # way
  <2>1. Coming(q, other)' = Coming(q, other) /\ Unknown(q, other)
    BY <1>2, <1>4 DEF SInv, ComingInv
  <2>2. Coming(q, other) \in 0..issued
    BY ComingType
  <2> QED BY <1>1, <1>2, <1>4, <2>1, <2>2 DEF Unknown
<1> QED BY <1>3, <1>4

\* What was about to be written is what the file holds now.
LEMMA Written ==
  ASSUME Types, SInv, ~harmed' => ~harmed, UNCHANGED spent,
         NEW p \in Processes, NEW way \in Ways,
         file'.credentials.token = Coming(p, way), Coming(p, way)' = None,
         \A q \in Processes, other \in Ways : Stays(q, other)
  PROVE  /\ ComingInv'
         /\ ~harmed' => file'.credentials.token \notin spent
<1>1. None \notin spent
  BY DEF Types, TypeOK, None
<1>2. ~harmed' => file'.credentials.token \notin spent
  BY <1>1 DEF SInv, ComingInv, Unknown
<1>3. ASSUME ~harmed', NEW q \in Processes, NEW other \in Ways, Coming(q, other)' # None
      PROVE  Unknown(q, other)'
  <2>1. Coming(q, other)' = Coming(q, other) /\ Unknown(q, other) /\ (q # p \/ other # way)
    BY <1>3, ComingStays DEF SInv, ComingInv
  <2> QED BY <1>3, <2>1, ComingStays DEF Unknown
<1> QED BY <1>2, <1>3 DEF ComingInv, Unknown

LEMMA DoneStays ==
  ASSUME Types, NEW p \in Processes, Done(p)
  PROVE  /\ \A q \in Processes, way \in Ways : Stays(q, way)
         /\ \A q \in Processes : refresh'[q].pc = "asking" => refresh'[q] = refresh[q]
BY DEF Types, TypeOK, Done, Stays, Ways, Setting, AtWork, NoSync, NoRefresh

LEMMA RecoverStays ==
  ASSUME Types, NEW p \in Processes, Recover(p)
  PROVE  /\ \A q \in Processes, way \in Ways : Stays(q, way)
         /\ \A q \in Processes : refresh'[q].pc = "asking" => refresh'[q] = refresh[q]
BY DEF Types, TypeOK, Recover, Begin, Stays, Ways, Setting, AtWork, NoRefresh

LEMMA StepSpent == Types /\ KInv /\ SInv /\ [Next]_vars => SInv'
<1> SUFFICES ASSUME Types, KInv, SInv, [Next]_vars PROVE SInv'
  OBVIOUS
<1>t. /\ refresh \in [Processes -> RefreshStates] /\ sync \in [Processes -> SyncStates]
      /\ file.credentials \in Credentials /\ issued \in Nat
      /\ spent \subseteq 1..issued /\ twice \subseteq spent /\ unanswered \subseteq spent
      /\ file.credentials.token \in 0..issued
  <2>1. /\ refresh \in [Processes -> RefreshStates] /\ sync \in [Processes -> SyncStates]
        /\ file.credentials \in Credentials /\ issued \in Nat
        /\ spent \subseteq 1..issued /\ twice \subseteq spent /\ unanswered \subseteq spent
    BY DEF Types, TypeOK, RefreshStates, SyncStates
  <2>2. file.credentials.token \in 0..issued
    BY <2>1 DEF Credentials, Providers
  <2> QED BY <2>1, <2>2
<1>1. CASE /\ UNCHANGED <<sync, refresh, spent, unanswered, twice>>
           /\ UNCHANGED file \/ file'.credentials = file.credentials \/ harmed'
           /\ harmed => harmed'
  <2>1. \A q \in Processes, way \in Ways : Stays(q, way)
    BY <1>1 DEF Stays, Ways, Setting, AtWork
  <2>2. AskingInv'
    BY <1>1 DEF SInv, AskingInv
  <2> QED BY <1>1, <2>1, <2>2, NothingNew
<1>2. CASE UNCHANGED vars \/ Ages \/ Expire
  BY <1>1, <1>2 DEF vars, fileVars, Ages, Expire
<1>3. ASSUME NEW p \in Processes, Touch(p) PROVE SInv'
  BY <1>1, <1>3 DEF fileVars, Touch
<1>4. ASSUME NEW p \in Processes, Start(p) \/ CreateFile(p) PROVE SInv'
  <2>1. \A q \in Processes : Setting(q)' => Setting(q) /\ sync'[q].value = sync[q].value
    <3>1. CASE Start(p)
      BY <3>1, <1>t DEF Start, Begin, Setting
    <3>2. CASE CreateFile(p)
      BY <3>2, <1>t DEF CreateFile, Setting, SyncStates
    <3> QED BY <1>4, <3>1, <3>2
  <2>2. AskingInv' /\ UNCHANGED <<refresh, spent, unanswered, twice>>
    BY <1>4 DEF SInv, AskingInv, Start, CreateFile
  <2>3. ~harmed' => ~harmed /\ file'.credentials = file.credentials
    <3>1. CASE Start(p)
      BY <3>1 DEF Start, fileVars
    <3>2. CASE CreateFile(p)
      BY <3>2 DEF CreateFile, Whole, KInv, AbsentInv
    <3> QED BY <1>4, <3>1, <3>2
  <2>4. \A q \in Processes, way \in Ways : Stays(q, way)
    BY <2>1, <2>2 DEF Stays, Ways, AtWork
  <2> QED BY <2>2, <2>3, <2>4, NothingNew
<1>5. ASSUME NEW p \in Processes, GetApiKey(p) PROVE SInv'
  <2>1. \A q \in Processes : refresh'[q] = refresh[q] \/ refresh'[q].pc = "lock"
    BY <1>5, <1>t DEF GetApiKey, RefreshStates
  <2>2. \A q \in Processes, way \in Ways : Stays(q, way)
    BY <1>5, <2>1 DEF GetApiKey, Stays, Ways, Setting, AtWork
  <2>3. AskingInv'
    BY <2>1 DEF SInv, AskingInv
  <2> QED BY <1>5, <2>2, <2>3, NothingNew DEF GetApiKey, fileVars
<1>6. ASSUME NEW p \in Processes, NEW of \in Providers, NEW value \in {None, issued + 1},
             Set(p, of, value)
      PROVE  SInv'
  <2>0. UNCHANGED <<fileVars, refresh, spent, twice, unanswered>>
    BY <1>6 DEF Set
  <2>1. AskingInv'
    BY <2>0 DEF SInv, AskingInv
  <2>2. \A q \in Processes : Stays(q, "refresh")
    BY <2>0 DEF Stays, AtWork
  <2>3. CASE \A q \in Processes, way \in Ways : Stays(q, way)
    BY <2>0, <2>1, <2>3, NothingNew DEF fileVars
  <2>4. CASE loadError[p]
    BY <1>6, <2>2, <2>3, <2>4 DEF Set, Stays, Ways, Setting
  <2>5. CASE ~loadError[p]
    <3>1. /\ sync'[p].pc \in {"create", "lock"} /\ sync'[p].op = "set"
          /\ sync'[p].of = of /\ sync'[p].value = value
          /\ \A q \in Processes : q # p => sync'[q] = sync[q]
      BY <1>6, <2>5, <1>t DEF Set, Begin
    <3>2. \A q \in Processes, way \in Ways : q # p \/ way # "set" => Stays(q, way)
      BY <2>2, <3>1 DEF Stays, Ways, Setting
    <3>3. CASE of = "token" /\ value = issued + 1
      <4>1. Coming(p, "set")' = issued + 1
        BY <3>1, <3>3, <1>t DEF Coming, Setting, None
      <4>2. \A q \in Processes, way \in Ways :
              ~harmed /\ Coming(q, way) # None => Coming(q, way) \notin spent'
        BY <2>0 DEF SInv, ComingInv, Unknown
      <4>3. issued + 1 \notin spent'
        BY <2>0, <1>t
      <4>4. ComingInv'
        BY <2>0, <3>2, <4>1, <4>2, <4>3, OneNew DEF fileVars, Ways
      <4>5. Coming(p, "refresh")' = Coming(p, "refresh")
            /\ \A q \in Processes : Coming(q, "refresh")' = Coming(q, "refresh")
        BY <2>0 DEF Coming, AtWork, Setting
      <4> QED BY <2>0, <2>1, <4>4, <4>5 DEF SInv, FileInv, AnswerInv, SpentOnce, fileVars
    <3>4. CASE of # "token" \/ value = None
      <4>1. ~Setting(p)'
        BY <3>1, <3>4 DEF Setting
      <4> QED BY <2>3, <3>2, <4>1 DEF Stays, Ways
    <3> QED BY <3>3, <3>4
  <2> QED BY <2>4, <2>5
<1>7. ASSUME NEW p \in Processes, RunLocked(p) PROVE SInv'
  <2>1. /\ \A q \in Processes, way \in Ways : Stays(q, way)
        /\ \A q \in Processes : refresh'[q].pc = "asking" => refresh'[q] = refresh[q]
    BY <1>7, DoneStays DEF RunLocked
  <2>2. AskingInv' /\ UNCHANGED <<spent, unanswered, twice>> /\ (harmed => harmed')
    BY <1>7, <2>1 DEF SInv, AskingInv, RunLocked
  <2>3. CASE sync[p].op = "set" /\ sync[p].of = "token"
    <3>1. file'.credentials = [file.credentials EXCEPT !["token"] = sync[p].value]
          /\ Done(p) /\ sync[p].pc = "lock"
      BY <1>7, <2>3 DEF RunLocked, Whole, With
    <3>2. sync[p].value \in 0..issued
      BY <1>t DEF SyncStates
    <3>3. file'.credentials.token = sync[p].value
      BY <3>1, <3>2, <1>t, UpdateType DEF Providers
    <3>4. sync[p].value = Coming(p, "set")
      BY <2>3, <3>1 DEF Coming, Setting
    <3>5. Coming(p, "set")' = None
      BY <3>1, <1>t DEF Done, Coming, Setting, NoSync
    <3>6. ComingInv' /\ (~harmed' => file'.credentials.token \notin spent)
      BY <2>1, <2>2, <3>3, <3>4, <3>5, Written DEF Ways
    <3>7. AnswerInv'
      <4> SUFFICES ASSUME ~harmed', NEW q \in Processes, Coming(q, "refresh")' # None
                   PROVE  refresh'[q].view.token \notin twice'
        BY DEF AnswerInv
      <4>1. Coming(q, "refresh")' = Coming(q, "refresh")
        BY <2>1, ComingStays DEF Ways
      <4>2. refresh'[q] = refresh[q]
        BY <2>1 DEF Coming, Stays, Ways
      <4> QED BY <2>2, <4>1, <4>2 DEF SInv, AnswerInv
    <3> QED BY <2>2, <3>6, <3>7 DEF SInv, FileInv, SpentOnce
  <2>4. CASE sync[p].op # "set" \/ sync[p].of # "token"
    <3>1. file'.credentials.token = file.credentials.token
      <4>1. CASE sync[p].op # "set"
        BY <1>7, <4>1 DEF RunLocked
      <4>2. CASE sync[p].op = "set" /\ sync[p].of # "token"
        <5>1. file'.credentials = [file.credentials EXCEPT ![sync[p].of] = sync[p].value]
          BY <1>7, <4>2 DEF RunLocked, Whole, With
        <5>2. sync[p].value \in 0..issued /\ sync[p].of \in Providers
          BY <1>t DEF SyncStates
        <5> QED BY <4>2, <5>1, <5>2, <1>t, UpdateType
      <4> QED BY <2>4, <4>1, <4>2
    <3> QED BY <2>1, <2>2, <3>1, NothingNew
  <2> QED BY <2>3, <2>4
<1>8. ASSUME NEW p \in Processes, FailLocked(p) PROVE SInv'
  <2>1. /\ \A q \in Processes, way \in Ways : Stays(q, way)
        /\ \A q \in Processes : refresh'[q].pc = "asking" => refresh'[q] = refresh[q]
    BY <1>8, DoneStays DEF FailLocked
  <2>2. AskingInv'
    BY <2>1 DEF SInv, AskingInv
  <2> QED BY <1>8, <2>1, <2>2, NothingNew DEF FailLocked, fileVars
<1>9. ASSUME NEW p \in Processes, LockAndRead(p) PROVE SInv'
  <2>1. UNCHANGED <<fileVars, spent, twice, unanswered>>
    BY <1>9 DEF LockAndRead
  <2>2. CASE ~Parses
    <3>1. Recover(p)
      BY <1>9, <2>2 DEF LockAndRead
    <3>2. /\ \A q \in Processes, way \in Ways : Stays(q, way)
          /\ \A q \in Processes : refresh'[q].pc = "asking" => refresh'[q] = refresh[q]
      BY <3>1, RecoverStays
    <3>3. AskingInv'
      BY <3>2 DEF SInv, AskingInv
    <3> QED BY <2>1, <3>2, <3>3, NothingNew DEF fileVars
  <2>3. CASE Parses
    <3>1. UNCHANGED sync /\ refresh'[p].answer = None
          /\ \A q \in Processes : q # p => refresh'[q] = refresh[q]
      BY <1>9, <2>3, <1>t DEF LockAndRead, NoRefresh
    <3>2. \A q \in Processes, way \in Ways : Stays(q, way)
      BY <3>1 DEF Stays, Ways, Setting, AtWork
    <3>3. AskingInv'
      BY <3>1 DEF SInv, AskingInv
    <3> QED BY <2>1, <3>2, <3>3, NothingNew DEF fileVars
  <2> QED BY <2>2, <2>3
<1>10. ASSUME NEW p \in Processes, LockFails(p) PROVE SInv'
  <2>1. /\ \A q \in Processes, way \in Ways : Stays(q, way)
        /\ \A q \in Processes : refresh'[q].pc = "asking" => refresh'[q] = refresh[q]
    BY <1>10, RecoverStays DEF LockFails
  <2>2. AskingInv'
    BY <2>1 DEF SInv, AskingInv
  <2> QED BY <1>10, <2>1, <2>2, NothingNew DEF LockFails, fileVars
<1>11. ASSUME NEW p \in Processes, Exchange(p) PROVE SInv'
  <2> DEFINE token == refresh[p].view.token
  <2>1. UNCHANGED <<fileVars, sync>> /\ refresh[p].pc = "asking" /\ AtWork(p)
    BY <1>11 DEF Exchange, AtWork
  <2>2. refresh[p].answer = None
    BY <2>1 DEF SInv, AskingInv
  <2>3. ~harmed => token = file.credentials.token
    BY <2>1 DEF KInv, ViewInv
  <2>4. refresh'[p].pc = "answered" /\ refresh'[p].view = refresh[p].view
        /\ \A q \in Processes : q # p => refresh'[q] = refresh[q]
    BY <1>11, <1>t DEF Exchange, RefreshStates
  <2>5. AskingInv'
    BY <2>4 DEF SInv, AskingInv
  <2>6. \A q \in Processes, way \in Ways : q # p \/ way # "refresh" => Stays(q, way)
    BY <2>1, <2>4 DEF Stays, Ways, Setting, AtWork
  <2>7. CASE token \in spent
    <3>1. /\ UNCHANGED <<spent, unanswered>> /\ twice' = twice \cup {token}
          /\ refresh'[p].answer = None
      BY <1>11, <2>2, <2>7, <1>t DEF Exchange, RefreshStates
    <3>2. \A q \in Processes, way \in Ways : Stays(q, way)
      BY <2>6, <3>1 DEF Stays, Ways
    <3>3. ComingInv'
      <4> SUFFICES ASSUME ~harmed', NEW q \in Processes, NEW way \in Ways, Coming(q, way)' # None
                   PROVE  Unknown(q, way)'
        BY DEF ComingInv, Unknown
      <4>1. Coming(q, way)' = Coming(q, way) /\ Unknown(q, way)
        BY <2>1, <3>2, ComingStays DEF SInv, ComingInv, fileVars
      <4> QED BY <2>1, <3>1, <3>2, <4>1, ComingStays DEF Unknown, fileVars
    <3>4. AnswerInv'
      <4> SUFFICES ASSUME ~harmed', NEW q \in Processes, Coming(q, "refresh")' # None PROVE FALSE
        BY DEF AnswerInv
      <4>1. AtWork(q) /\ q # p
        BY <2>4, <3>1 DEF Coming, AtWork
      <4> QED BY <2>1, <4>1, Alone DEF fileVars
    <3>5. ~harmed => token \in unanswered
      BY <2>3, <2>7 DEF SInv, FileInv
    <3> QED BY <2>1, <2>5, <3>1, <3>3, <3>4, <3>5 DEF SInv, FileInv, SpentOnce, fileVars
  <2>8. CASE token \notin spent
    <3>1. /\ spent' = spent \cup {token} /\ unanswered' = unanswered \cup {token}
          /\ UNCHANGED twice /\ refresh'[p].answer = issued + 1
      BY <1>11, <2>8, <1>t DEF Exchange, RefreshStates
    <3>2. Coming(p, "refresh")' = issued + 1
      BY <2>4, <3>1 DEF Coming, AtWork
    <3>3. token \in 0..issued
      BY <1>t, TokenType DEF RefreshStates
    <3>4. issued + 1 \notin spent'
      BY <3>1, <3>3, <1>t
    <3>5. \A q \in Processes, way \in Ways :
            ~harmed /\ Coming(q, way) # None => Coming(q, way) \notin spent'
      BY <2>3, <3>1 DEF SInv, ComingInv, Unknown
    <3>6. ComingInv'
      BY <2>1, <2>6, <3>2, <3>4, <3>5, OneNew DEF fileVars, Ways
    <3>7. AnswerInv'
      <4> SUFFICES ASSUME ~harmed', NEW q \in Processes, Coming(q, "refresh")' # None
                   PROVE  refresh'[q].view.token \notin twice
        BY <3>1 DEF AnswerInv
      <4>1. q = p
        <5>1. q # p => AtWork(q)
          BY <2>4 DEF Coming, AtWork
        <5> QED BY <2>1, <5>1, Alone DEF fileVars
      <4> QED BY <2>4, <2>8, <4>1, <1>t
    <3> QED BY <2>1, <2>3, <2>5, <3>1, <3>6, <3>7 DEF SInv, FileInv, SpentOnce, fileVars
  <2> QED BY <2>7, <2>8
<1>12. ASSUME NEW p \in Processes, Refreshed(p) PROVE SInv'
  <2>1. /\ file' = Whole([refresh[p].view EXCEPT !.token = refresh[p].answer])
        /\ unanswered' = unanswered \ {refresh[p].view.token}
        /\ refresh' = [refresh EXCEPT ![p] = NoRefresh]
        /\ refresh[p].answer # None /\ AtWork(p)
        /\ UNCHANGED <<harmed, sync, spent, twice>>
    BY <1>12 DEF Refreshed, AtWork
  <2>2. refresh[p].view \in Credentials /\ refresh[p].answer \in 0..issued
    BY <1>t DEF RefreshStates
  <2>3. Coming(p, "refresh") = refresh[p].answer
    BY <2>1 DEF Coming
  <2>4. file'.credentials.token = Coming(p, "refresh")
    BY <2>1, <2>2, <2>3, <1>t, TokenType DEF Whole
  <2>5. refresh'[p] = NoRefresh /\ \A q \in Processes : q # p => refresh'[q] = refresh[q]
    BY <2>1, <1>t
  <2>6. Coming(p, "refresh")' = None /\ \A q \in Processes, way \in Ways : Stays(q, way)
    BY <2>1, <2>5 DEF Coming, Stays, Ways, Setting, AtWork, NoRefresh
  <2>7. ComingInv' /\ (~harmed' => file'.credentials.token \notin spent)
    BY <2>1, <2>4, <2>6, Written DEF Ways
  <2>8. AskingInv'
    BY <2>5 DEF SInv, AskingInv, NoRefresh
  <2>9. \A q \in Processes : ~harmed => Coming(q, "refresh")' = None
    <3> SUFFICES ASSUME NEW q \in Processes, ~harmed, Coming(q, "refresh")' # None PROVE FALSE
      OBVIOUS
    <3>1. AtWork(q) /\ q # p
      BY <2>5, <2>6 DEF Coming, AtWork
    <3> QED BY <2>1, <3>1, Alone
  <2>10. SpentOnce'
    BY <2>1, <2>3 DEF SInv, SpentOnce, AnswerInv
  <2> QED BY <2>1, <2>7, <2>8, <2>9, <2>10 DEF SInv, FileInv, AnswerInv
<1>13. ASSUME NEW p \in Processes, RefreshFails(p) PROVE SInv'
  <2>1. /\ \A q \in Processes, way \in Ways : Stays(q, way)
        /\ \A q \in Processes : refresh'[q].pc = "asking" => refresh'[q] = refresh[q]
    BY <1>13, RecoverStays DEF RefreshFails
  <2>2. AskingInv'
    BY <2>1 DEF SInv, AskingInv
  <2> QED BY <1>13, <2>1, <2>2, NothingNew DEF RefreshFails, fileVars
<1>14. ASSUME NEW p \in Processes, Crash(p) PROVE SInv'
  <2>1. /\ sync' = [sync EXCEPT ![p] = [NoSync EXCEPT !.pc = "off"]]
        /\ refresh' = [refresh EXCEPT ![p] = NoRefresh]
        /\ UNCHANGED <<spent, twice, unanswered>>
    BY <1>14 DEF Crash
  <2>2. \A q \in Processes, way \in Ways : Stays(q, way)
    BY <2>1, <1>t DEF Stays, Ways, Setting, AtWork, NoSync, NoRefresh
  <2>3. AskingInv'
    BY <2>1, <1>t DEF SInv, AskingInv, NoRefresh
  <2>4. ~harmed' => ~harmed /\ file'.credentials = file.credentials
    BY <1>14 DEF Crash, fileVars
  <2> QED BY <2>1, <2>2, <2>3, <2>4, NothingNew
<1> QED BY <1>2, <1>3, <1>4, <1>5, <1>6, <1>7, <1>8, <1>9, <1>10, <1>11, <1>12, <1>13, <1>14
        DEF Next

LEMMA Invariance ==
  ASSUME NoProcess \notin Processes PROVE Spec => [](Types /\ KInv /\ SInv)
BY InitTypes, InitKept, InitSpent, StepTypes, StepKept, StepSpent, PTL DEF Spec

\* Every variable keeps its type, and only tokens that have expired are refreshed.
THEOREM TypeCorrect == ASSUME NoProcess \notin Processes PROVE Spec => []TypeOK
<1>1. Types => TypeOK
  BY DEF Types
<1> QED BY <1>1, Invariance, PTL

\* persistProviderChange and refreshOAuthTokenWithLock: nobody writes back what it
\* remembers of another provider, for any number of processes and credentials, unless a
\* lock was taken from a refresh under way, or the file was cut short or replaced.
THEOREM NothingOverwritten == ASSUME NoProcess \notin Processes PROVE Spec => []CredentialsKept
<1>1. KInv => CredentialsKept
  BY DEF KInv
<1> QED BY <1>1, Invariance, PTL

\* refreshOAuthTokenWithLock reads the file again under the lock: no token is presented
\* after it was exchanged, except one whose answer never reached the file.
THEOREM ExchangedOnce == ASSUME NoProcess \notin Processes PROVE Spec => []SpentOnce
<1>1. SInv => SpentOnce
  BY DEF SInv
<1> QED BY <1>1, Invariance, PTL
================================================================================
