------------------------------ MODULE Credentials ------------------------------
(***************************************************************************)
(* coding-agent/src/core/auth-storage.ts: several processes keep their      *)
(* credentials in one file, here an OAuth token of one provider and the key *)
(* of another.  Setting and loading run at once under a lock; a token that   *)
(* has expired is refreshed over the network under the same lock, which its   *)
(* holder touches every 15 seconds.  proper-lockfile and the provider are    *)
(* external.                                                               *)
(***************************************************************************)
EXTENDS Naturals, FiniteSets

CONSTANTS
  Processes,
  NoProcess,
  MaxSets,      \* bound: credentials that are set or removed
  MaxTroubles   \* bound: crashes, network errors and expirations

VARIABLES
  file,        \* auth.json
  lock,        \* who holds the lock, how, and since its time was last set
  sync,        \* what each process does without letting anything else run in it
  refresh,     \* where each process's refresh of the token is
  data,        \* the credentials in memory
  loadError,
  compromised, \* onCompromised was called
  issued,      \* tokens and keys are numbered
  expired,     \* tokens that have expired
  spent,       \* tokens the provider has exchanged for a new one
  left,        \* what is left of the bounds
  last,        \* history: what was written last of each credential
  twice,       \* history: tokens presented again although they were spent
  unanswered,  \* history: tokens whose exchange did not reach the file
  harmed       \* history: a lock stolen from its holder, a file cut short or replaced

fileVars == <<file, last, harmed>>
vars == <<fileVars, lock, sync, refresh, data, loadError, compromised, issued, expired, spent,
          left, twice, unanswered>>

None == 0
Nothing == [token |-> None, key |-> None]
Providers == {"token", "key"}
Whole(credentials) == [state |-> "whole", credentials |-> credentials]
Exists == file.state # "absent"
Parses == file.state # "partial"

NoSync == [pc |-> "none", op |-> "load", of |-> "key", value |-> None]
NoRefresh == [pc |-> "none", view |-> Nothing, answer |-> None]
Unlocked == [holder |-> NoProcess, how |-> "sync", age |-> 0]

\* The credentials file is missing, or holds a token.
Init ==
  /\ \/ file = [state |-> "absent", credentials |-> Nothing] /\ issued = 0
     \/ file = Whole([Nothing EXCEPT !.token = 1]) /\ issued = 1
  /\ last = file.credentials /\ harmed = FALSE
  /\ lock = Unlocked
  /\ sync = [p \in Processes |-> [NoSync EXCEPT !.pc = "off"]]
  /\ refresh = [p \in Processes |-> NoRefresh]
  /\ data = [p \in Processes |-> Nothing]
  /\ loadError = [p \in Processes |-> FALSE]
  /\ compromised = [p \in Processes |-> FALSE]
  /\ expired = {} /\ spent = {} /\ twice = {} /\ unanswered = {}
  /\ left = [sets |-> MaxSets, troubles |-> MaxTroubles]

Spend(what) == left[what] > 0 /\ left' = [left EXCEPT ![what] = @ - 1]
Running(p) == sync[p].pc # "off"
Free(p) == sync[p].pc = "none"

(***************************************************************************)
(* The lock.  age counts ten and thirty seconds, after which lockSync, and  *)
(* lock with its stale option, take it from whoever holds it.               *)
(***************************************************************************)
Takes(p, how) ==
  \/ lock.holder = NoProcess
  \/ lock.age >= (IF how = "sync" THEN 1 ELSE 2)

\* A refresh that has the lock and is still at work.
Holds(p) == lock.holder = p /\ lock.how = "async"
AtWork(p) == refresh[p].pc \in {"asking", "answered"}
HeldAtWork == \E q \in Processes : Holds(q) /\ AtWork(q)

\* A synchronous holder is done within milliseconds; an asynchronous one keeps the
\* lock young, but not younger than 15 seconds.
Ages ==
  /\ lock.holder # NoProcess /\ lock.age < 2
  /\ lock.age = 1 => ~HeldAtWork
  /\ lock' = [lock EXCEPT !.age = @ + 1]
  /\ UNCHANGED <<fileVars, sync, refresh, data, loadError, compromised, issued, expired, spent,
                 left, twice, unanswered>>

\* The update of the lock's time, which finds out when the lock is another's.
Touch(p) ==
  /\ AtWork(p) /\ Free(p)
  /\ IF Holds(p)
     THEN lock.age = 1 /\ lock' = [lock EXCEPT !.age = 0] /\ UNCHANGED compromised
     ELSE compromised' = [compromised EXCEPT ![p] = TRUE] /\ UNCHANGED lock
  /\ UNCHANGED <<fileVars, sync, refresh, data, loadError, issued, expired, spent, left, twice,
                 unanswered>>

(***************************************************************************)
(* Operations that run at once: reload, set and remove.                     *)
(***************************************************************************)
Begin(p, op, of, value) ==
  sync' = [sync EXCEPT ![p] = [pc |-> IF Exists THEN "lock" ELSE "create",
                               op |-> op, of |-> of, value |-> value]]

\* AuthStorage.create.
Start(p) ==
  /\ ~Running(p)
  /\ Begin(p, "load", "key", None)
  /\ data' = [data EXCEPT ![p] = Nothing]
  /\ loadError' = [loadError EXCEPT ![p] = FALSE]
  /\ UNCHANGED <<fileVars, lock, refresh, compromised, issued, expired, spent, left, twice,
                 unanswered>>

\* ensureFileExists of a file that was missing a moment ago.
CreateFile(p) ==
  /\ sync[p].pc = "create"
  /\ file' = Whole(Nothing)
  /\ harmed' = (harmed \/ Exists)
  /\ sync' = [sync EXCEPT ![p].pc = "lock"]
  /\ UNCHANGED <<last, lock, refresh, data, loadError, compromised, issued, expired, spent, left,
                 twice, unanswered>>

\* set, remove, login and logout: the memory first, then the file unless it did not load.
Set(p, of, value) ==
  /\ Free(p) /\ Spend("sets")
  /\ issued' = IF value = None THEN issued ELSE issued + 1
  /\ data' = [data EXCEPT ![p][of] = value]
  /\ IF loadError[p] THEN UNCHANGED sync ELSE Begin(p, "set", of, value)
  /\ UNCHANGED <<fileVars, lock, refresh, loadError, compromised, expired, spent, twice,
                 unanswered>>

\* After a failed refresh the memory is read again, and getApiKey returns.
Done(p) ==
  /\ sync' = [sync EXCEPT ![p] = NoSync]
  /\ refresh' = IF sync[p].op = "recover" THEN [refresh EXCEPT ![p] = NoRefresh] ELSE refresh

\* Mutant: what is in memory is written back.
WithMemory(p, credentials, of, value) == [data[p] EXCEPT ![of] = value]
With(p, credentials, of, value) == [credentials EXCEPT ![of] = value]

\* lockSync, readFileSync, the operation, writeFileSync, release.
RunLocked(p) ==
  /\ sync[p].pc = "lock" /\ Takes(p, "sync") /\ Parses
  /\ lock' = Unlocked
  /\ IF sync[p].op = "set"
     THEN /\ file' = Whole(With(p, file.credentials, sync[p].of, sync[p].value))
          /\ last' = [last EXCEPT ![sync[p].of] = sync[p].value]
          /\ UNCHANGED <<data, loadError>>
     ELSE /\ data' = [data EXCEPT ![p] = file.credentials]
          /\ loadError' = [loadError EXCEPT ![p] = FALSE]
          /\ UNCHANGED <<file, last>>
  /\ harmed' = (harmed \/ HeldAtWork)
  /\ Done(p)
  /\ UNCHANGED <<compromised, issued, expired, spent, left, twice, unanswered>>

\* Ten attempts fail, or the file does not parse: recordError.
FailLocked(p) ==
  /\ sync[p].pc = "lock"
  /\ lock.holder # NoProcess \/ ~Parses
  /\ loadError' = IF sync[p].op = "set" THEN loadError ELSE [loadError EXCEPT ![p] = TRUE]
  /\ Done(p)
  /\ UNCHANGED <<fileVars, lock, data, compromised, issued, expired, spent, left, twice,
                 unanswered>>

(***************************************************************************)
(* refreshOAuthTokenWithLock, from getApiKey.                               *)
(***************************************************************************)
\* Mutant: the time is not looked at.
AnyToken(token) == token # None
NeedsRefresh(token) == token \in expired

GetApiKey(p) ==
  /\ Free(p) /\ refresh[p].pc = "none"
  /\ NeedsRefresh(data[p].token)
  /\ refresh' = [refresh EXCEPT ![p].pc = "lock"]
  /\ compromised' = [compromised EXCEPT ![p] = FALSE]
  /\ UNCHANGED <<fileVars, lock, sync, data, loadError, issued, expired, spent, left, twice,
                 unanswered>>

Recover(p) ==
  /\ Begin(p, "recover", "key", None)
  /\ refresh' = [refresh EXCEPT ![p] = [NoRefresh EXCEPT !.pc = "recovering"]]

\* Mutant: the token that made the caller ask is refreshed, whatever the file holds.
AskedFor(p) == data[p].token
ToRefresh(p) == file.credentials.token

\* lock and the file's contents: nothing to refresh, a token another process has
\* refreshed, or one to exchange.
LockAndRead(p) ==
  /\ refresh[p].pc = "lock" /\ Free(p) /\ Takes(p, "async")
  /\ IF ~Parses
     THEN lock' = Unlocked /\ Recover(p) /\ UNCHANGED <<data, loadError>>
     ELSE /\ data' = [data EXCEPT ![p] = file.credentials]
          /\ loadError' = [loadError EXCEPT ![p] = FALSE]
          /\ UNCHANGED sync
          /\ IF NeedsRefresh(ToRefresh(p))
             THEN /\ lock' = [holder |-> p, how |-> "async", age |-> 0]
                  /\ refresh' = [refresh EXCEPT ![p] =
                       [pc |-> "asking", view |-> [file.credentials EXCEPT !.token = ToRefresh(p)],
                        answer |-> None]]
             ELSE lock' = Unlocked /\ refresh' = [refresh EXCEPT ![p] = NoRefresh]
  /\ UNCHANGED <<fileVars, compromised, issued, expired, spent, left, twice, unanswered>>

\* The retries of lock are used up.
LockFails(p) ==
  /\ refresh[p].pc = "lock" /\ Free(p) /\ lock.holder # NoProcess
  /\ Recover(p)
  /\ UNCHANGED <<fileVars, lock, data, loadError, compromised, issued, expired, spent, left,
                 twice, unanswered>>

\* The provider exchanges a token once.
Exchange(p) ==
  LET token == refresh[p].view.token
  IN  /\ refresh[p].pc = "asking"
      /\ IF token \in spent
         THEN /\ twice' = twice \cup {token}
              /\ refresh' = [refresh EXCEPT ![p].pc = "answered"]
              /\ UNCHANGED <<spent, issued, unanswered>>
         ELSE /\ spent' = spent \cup {token}
              /\ unanswered' = unanswered \cup {token}
              /\ issued' = issued + 1
              /\ refresh' = [refresh EXCEPT ![p].pc = "answered", ![p].answer = issued']
              /\ UNCHANGED twice
      /\ UNCHANGED <<fileVars, lock, sync, data, loadError, compromised, expired, left>>

Unlocks(p) == lock' = IF compromised[p] THEN lock ELSE Unlocked

\* The answer is merged into what was read and written.
Refreshed(p) ==
  LET merged == [refresh[p].view EXCEPT !.token = refresh[p].answer]
  IN  /\ refresh[p].pc = "answered" /\ Free(p)
      /\ refresh[p].answer # None /\ ~compromised[p]
      /\ file' = Whole(merged)
      /\ last' = [last EXCEPT !.token = merged.token]
      /\ unanswered' = unanswered \ {refresh[p].view.token}
      /\ data' = [data EXCEPT ![p] = merged]
      /\ loadError' = [loadError EXCEPT ![p] = FALSE]
      /\ Unlocks(p)
      /\ refresh' = [refresh EXCEPT ![p] = NoRefresh]
      /\ UNCHANGED <<harmed, sync, compromised, issued, expired, spent, left, twice>>

\* The provider refused, the network failed, or the lock was lost meanwhile.
RefreshFails(p) ==
  /\ refresh[p].pc = "answered" /\ Free(p)
  /\ IF refresh[p].answer # None /\ ~compromised[p] THEN Spend("troubles") ELSE UNCHANGED left
  /\ data' = IF compromised[p] /\ refresh[p].answer # None
             THEN [data EXCEPT ![p] = [refresh[p].view EXCEPT !.token = refresh[p].answer]]
             ELSE data
  /\ Unlocks(p)
  /\ Recover(p)
  /\ UNCHANGED <<fileVars, loadError, compromised, issued, expired, spent, twice, unanswered>>

(***************************************************************************)
(* Time and crashes.                                                       *)
(***************************************************************************)
Expire ==
  /\ Spend("troubles")
  /\ expired' = 1..issued
  /\ UNCHANGED <<fileVars, lock, sync, refresh, data, loadError, compromised, issued, spent, twice,
                 unanswered>>

\* A process dies; if it was writing, the file is left empty or cut short.
Crash(p) ==
  /\ Running(p) /\ Spend("troubles")
  /\ sync' = [sync EXCEPT ![p] = [NoSync EXCEPT !.pc = "off"]]
  /\ refresh' = [refresh EXCEPT ![p] = NoRefresh]
  /\ \/ UNCHANGED <<fileVars, lock>>
     \/ /\ sync[p].pc = "lock" /\ sync[p].op = "set" /\ Takes(p, "sync")
        /\ lock' = [holder |-> p, how |-> "sync", age |-> 0]
        /\ \E state \in {"empty", "partial"} : file' = [state |-> state, credentials |-> Nothing]
        /\ harmed' = TRUE /\ UNCHANGED last
     \/ /\ refresh[p].answer # None /\ ~compromised[p] /\ Free(p)
        /\ \E state \in {"empty", "partial"} : file' = [state |-> state, credentials |-> Nothing]
        /\ harmed' = TRUE /\ UNCHANGED <<last, lock>>
  /\ UNCHANGED <<data, loadError, compromised, issued, expired, spent, twice, unanswered>>

Next ==
  \/ Ages \/ Expire
  \/ \E p \in Processes :
       \/ Start(p) \/ CreateFile(p) \/ RunLocked(p) \/ FailLocked(p) \/ Touch(p)
       \/ GetApiKey(p) \/ LockAndRead(p) \/ LockFails(p) \/ Exchange(p) \/ Refreshed(p)
       \/ RefreshFails(p) \/ Crash(p)
       \/ \E of \in Providers, value \in {None, issued + 1} : Set(p, of, value)

Spec == Init /\ [][Next]_vars

(***************************************************************************)
(* Properties.                                                             *)
(***************************************************************************)
Credentials == [Providers -> 0..issued]

\* Types; the token being refreshed is one that has expired.
TypeOK ==
  /\ file \in [state : {"absent", "empty", "partial", "whole"}, credentials : Credentials]
  /\ last \in Credentials
  /\ lock \in [holder : Processes \cup {NoProcess}, how : {"sync", "async"}, age : 0..2]
  /\ sync \in [Processes -> [pc : {"off", "none", "create", "lock"},
                             op : {"load", "set", "recover"}, of : Providers, value : 0..issued]]
  /\ refresh \in [Processes -> [pc : {"none", "lock", "asking", "answered", "recovering"},
                                view : Credentials, answer : 0..issued]]
  /\ \A p \in Processes : AtWork(p) => refresh[p].view.token \in expired
  /\ data \in [Processes -> Credentials]
  /\ loadError \in [Processes -> BOOLEAN] /\ compromised \in [Processes -> BOOLEAN]
  /\ expired \subseteq 1..issued /\ spent \subseteq expired
  /\ twice \subseteq spent /\ unanswered \subseteq spent

\* No process presents a token that another one has had exchanged, unless the answer
\* never reached the file, or a lock was taken from a refresh under way: lockSync
\* takes a lock for dead after ten seconds, sooner than its holder touches it.
SpentOnce == harmed \/ twice \subseteq unanswered

\* The file holds of every provider what was written last of it: nobody writes back
\* what it remembers of another one.
CredentialsKept == harmed \/ file.credentials = last
=============================================================================
