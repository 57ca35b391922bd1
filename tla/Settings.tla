------------------------------- MODULE Settings -------------------------------
(***************************************************************************)
(* coding-agent/src/core/settings-manager.ts: several processes keep their  *)
(* settings in one file.  A setter changes the memory and queues a write;   *)
(* the write merges what this process has modified into what the file holds  *)
(* by then, under a lock that proper-lockfile (external) takes by making a   *)
(* directory.  One scope is modelled: the other has the same code and a file *)
(* of its own.  A key stands for a field, or for a key of a nested field.     *)
(***************************************************************************)
EXTENDS Naturals, Sequences, FiniteSets

CONSTANTS
  Processes,
  Keys,
  NoProcess,
  MaxSets,     \* bound: calls of setters
  MaxCrashes   \* bound: processes that die, and loads after the first

VARIABLES
  file,       \* the settings file
  lock,       \* who made the lock's directory
  pc,         \* where each process is
  memory,     \* globalSettings
  modified,   \* modifiedFields
  tasks,      \* writeQueue: snapshots of settings and modified fields
  view,       \* current in withLock
  loadError,  \* globalSettingsLoadError # null
  sets,       \* how many settings were made: each is a new value
  crashes,
  last,       \* history: the value written last of those that were marked
  saved,      \* history: all of these
  failed,     \* history: a write of this process has failed since it loaded
  harmed      \* history: a write over a file found absent, or cut short

vars == <<file, lock, pc, memory, modified, tasks, view, loadError, sets, crashes,
          last, saved, failed, harmed>>

Unset == 0
Empty == [k \in Keys |-> Unset]
Absent == [state |-> "absent", settings |-> Empty]
Whole(settings) == [state |-> "whole", settings |-> settings]

\* What parsing gives of a file: nothing of one that is absent or empty.
Parses(f) == f.state # "partial"
Exists == file.state # "absent"

Init ==
  /\ file = Absent /\ lock = NoProcess
  /\ pc = [p \in Processes |-> "off"]
  /\ memory = [p \in Processes |-> Empty]
  /\ modified = [p \in Processes |-> {}]
  /\ tasks = [p \in Processes |-> <<>>]
  /\ view = [p \in Processes |-> Empty]
  /\ loadError = [p \in Processes |-> FALSE]
  /\ sets = 0 /\ crashes = 0
  /\ last = Empty /\ saved = {} /\ harmed = FALSE
  /\ failed = [p \in Processes |-> FALSE]

\* A lock of a process that died is taken over when it is ten seconds old.
Free == \A p \in Processes : lock = p => pc[p] # "locked"

(***************************************************************************)
(* Loading.                                                                *)
(***************************************************************************)
LoadOk(p) ==
  /\ Exists => Free /\ Parses(file)
  /\ memory' = [memory EXCEPT ![p] = file.settings]
  /\ loadError' = [loadError EXCEPT ![p] = FALSE]
  /\ failed' = [failed EXCEPT ![p] = FALSE]

\* The file does not parse, or its lock stays taken for ten attempts.
LoadFails(p) ==
  /\ Exists
  /\ ~Parses(file) \/ lock # NoProcess
  /\ loadError' = [loadError EXCEPT ![p] = TRUE]

\* create: an error leaves the settings empty.
Create(p) ==
  /\ pc[p] = "off"
  /\ pc' = [pc EXCEPT ![p] = "idle"]
  /\ \/ LoadOk(p)
     \/ /\ LoadFails(p)
        /\ memory' = [memory EXCEPT ![p] = Empty]
        /\ failed' = [failed EXCEPT ![p] = FALSE]
  /\ modified' = [modified EXCEPT ![p] = {}]
  /\ tasks' = [tasks EXCEPT ![p] = <<>>]
  /\ UNCHANGED <<file, lock, view, sets, crashes, last, saved, harmed>>

\* reload: an error leaves the settings as they were; the marks go in any case.
Reload(p) ==
  /\ pc[p] = "idle" /\ crashes < MaxCrashes
  /\ crashes' = crashes + 1
  /\ LoadOk(p) \/ (LoadFails(p) /\ UNCHANGED <<memory, failed>>)
  /\ modified' = [modified EXCEPT ![p] = {}]
  /\ UNCHANGED <<file, lock, pc, tasks, view, sets, last, saved, harmed>>

(***************************************************************************)
(* Setting and writing.                                                    *)
(***************************************************************************)
\* save: nothing is queued as long as the file could not be loaded.
Save(p) ==
  IF loadError[p] THEN UNCHANGED tasks
  ELSE tasks' = [tasks EXCEPT ![p] =
                   Append(@, [settings |-> memory'[p], fields |-> modified'[p]])]

\* A setter; one of them sets two fields.
Set(p) ==
  /\ pc[p] = "idle" /\ sets < MaxSets
  /\ sets' = sets + 1
  /\ \E keys \in (SUBSET Keys) \ {{}} :
       /\ memory' = [memory EXCEPT ![p] = [k \in Keys |-> IF k \in keys THEN sets' ELSE @[k]]]
       /\ modified' = [modified EXCEPT ![p] = @ \cup keys]
  /\ Save(p)
  /\ UNCHANGED <<file, lock, pc, view, loadError, crashes, last, saved, failed, harmed>>

\* withLock of a write: the lock is taken first if the file is there.
BeginWrite(p) ==
  /\ pc[p] = "idle" /\ tasks[p] # <<>>
  /\ IF Exists
     THEN /\ Free /\ Parses(file)
          /\ lock' = p
          /\ pc' = [pc EXCEPT ![p] = "locked"]
     ELSE /\ pc' = [pc EXCEPT ![p] = "unlocked"]
          /\ UNCHANGED lock
  /\ view' = [view EXCEPT ![p] = file.settings]
  /\ UNCHANGED <<file, memory, modified, tasks, loadError, sets, crashes, last, saved,
                 failed, harmed>>

\* The file was not there when it was read; it may be by now.
LockLate(p) ==
  /\ pc[p] = "unlocked" /\ Free
  /\ lock' = p
  /\ pc' = [pc EXCEPT ![p] = "locked"]
  /\ harmed' = (harmed \/ Exists)
  /\ UNCHANGED <<file, memory, modified, tasks, view, loadError, sets, crashes, last, saved,
                 failed>>

\* Mutant: the marks are read when the write is made.
MarkedNow(p) == modified[p]
Marked(p) == Head(tasks[p]).fields

\* Mutant: all settings are written, modified or not.
MergeAll(p) == Head(tasks[p]).settings
Merge(p) == [k \in Keys |-> IF k \in Marked(p) THEN Head(tasks[p]).settings[k] ELSE view[p][k]]

\* writeFileSync, and clearModifiedScope.
Write(p) ==
  /\ pc[p] = "locked"
  /\ file' = Whole(Merge(p))
  /\ last' = [k \in Keys |-> IF k \in Marked(p) THEN Head(tasks[p]).settings[k] ELSE last[k]]
  /\ saved' = saved \cup { Head(tasks[p]).settings[k] : k \in Marked(p) }
  /\ lock' = NoProcess
  /\ pc' = [pc EXCEPT ![p] = "idle"]
  /\ modified' = [modified EXCEPT ![p] = {}]
  /\ tasks' = [tasks EXCEPT ![p] = Tail(@)]
  /\ UNCHANGED <<memory, view, loadError, sets, crashes, failed, harmed>>

\* The lock stays taken, or the file does not parse: recordError, and the marks stay.
WriteFails(p) ==
  /\ pc[p] \in {"idle", "unlocked"} /\ tasks[p] # <<>>
  /\ lock # NoProcess \/ (pc[p] = "idle" /\ ~Parses(file))
  /\ pc' = [pc EXCEPT ![p] = "idle"]
  /\ tasks' = [tasks EXCEPT ![p] = Tail(@)]
  /\ failed' = [failed EXCEPT ![p] = TRUE]
  /\ UNCHANGED <<file, lock, memory, modified, view, loadError, sets, crashes, last, saved,
                 harmed>>

\* A process dies; if it was writing, the file may be left empty or cut short.
Crash(p) ==
  /\ pc[p] # "off" /\ crashes < MaxCrashes
  /\ crashes' = crashes + 1
  /\ pc' = [pc EXCEPT ![p] = "off"]
  /\ \/ UNCHANGED <<file, harmed>>
     \/ /\ pc[p] = "locked"
        /\ \E state \in {"empty", "partial"} : file' = [state |-> state, settings |-> Empty]
        /\ harmed' = TRUE
  /\ UNCHANGED <<lock, memory, modified, tasks, view, loadError, sets, last, saved, failed>>

Next == \E p \in Processes : \/ Create(p) \/ Reload(p) \/ Set(p) \/ BeginWrite(p) \/ LockLate(p)
                             \/ Write(p) \/ WriteFails(p) \/ Crash(p)

Spec == Init /\ [][Next]_vars

(***************************************************************************)
(* Properties.                                                             *)
(***************************************************************************)
Snapshots == [settings : [Keys -> Nat], fields : SUBSET Keys]

\* Types.
TypeOK ==
  /\ file \in [state : {"absent", "empty", "partial", "whole"}, settings : [Keys -> Nat]]
  /\ lock \in Processes \cup {NoProcess}
  /\ pc \in [Processes -> {"off", "idle", "unlocked", "locked"}]
  /\ memory \in [Processes -> [Keys -> Nat]]
  /\ view \in [Processes -> [Keys -> Nat]]
  /\ modified \in [Processes -> SUBSET Keys]
  /\ tasks \in [Processes -> Seq(Snapshots)]
  /\ loadError \in [Processes -> BOOLEAN] /\ failed \in [Processes -> BOOLEAN]
  /\ sets \in Nat /\ crashes \in Nat
  /\ last \in [Keys -> Nat] /\ saved \subseteq Nat /\ harmed \in BOOLEAN

\* The file holds of every key what was written last by a process that had modified
\* it: no process puts back an older value it happens to remember.  The exception is
\* a file that two processes create at once, or that a crash cuts short.
SettingsKept == harmed \/ file.settings = last

\* When a process has nothing left to write, and none of its writes has failed, all
\* it remembers has been in the file: nothing that was set is forgotten.
SettingsSaved ==
  \A p \in Processes :
    pc[p] = "idle" /\ tasks[p] = <<>> /\ ~loadError[p] /\ ~failed[p]
      => \A k \in Keys : memory[p][k] \in saved \cup {Unset}
=============================================================================
