-------------------------------- MODULE MCStores --------------------------------
(***************************************************************************)
(* What the program keeps, as TLC checks it: the file of a session, one     *)
(* path through a session's entries and its compactions, the settings, or   *)
(* the credentials, of two processes.  They share nothing, Compaction does  *)
(* not look at the file, and to Session a compaction is a note like others: *)
(* one of the four is explored at a time.  The credentials come with their  *)
(* theorems, so that StoresProofs can carry them over.                      *)
(***************************************************************************)
EXTENDS MCSession

CONSTANTS KeepRecentTokens, Sizes, Compactors, MaxEntries,
          Processes, NoProcess, Keys, MaxSets, MaxCrashes, MaxChanges, MaxTroubles

ASSUME StoresAssumption == NoProcess \notin Processes

VARIABLES
  part,  \* which of the four is explored
  path, running, preparing,
  settingsFile, settingsLock, settingsPc, settingsMemory, settingsModified, settingsTasks,
  settingsView, settingsLoadError, settingsSets, settingsCrashes, settingsLast,
  settingsSaved, settingsFailed, settingsHarmed,
  authFile, authLock, authSync, authRefresh, authData, authLoadError, authCompromised,
  authIssued, authExpired, authSpent, authLeft, authLast, authTwice, authUnanswered,
  authHarmed

settingsVars ==
  <<settingsFile, settingsLock, settingsPc, settingsMemory, settingsModified,
    settingsTasks, settingsView, settingsLoadError, settingsSets, settingsCrashes,
    settingsLast, settingsSaved, settingsFailed, settingsHarmed>>
authVars ==
  <<authFile, authLock, authSync, authRefresh, authData, authLoadError, authCompromised,
    authIssued, authExpired, authSpent, authLeft, authLast, authTwice, authUnanswered,
    authHarmed>>
pathVars == <<path, running, preparing>>

P == INSTANCE Compaction
S == INSTANCE Settings WITH
  file <- settingsFile, lock <- settingsLock, pc <- settingsPc, memory <- settingsMemory,
  modified <- settingsModified, tasks <- settingsTasks, view <- settingsView,
  loadError <- settingsLoadError, sets <- settingsSets, crashes <- settingsCrashes,
  last <- settingsLast, saved <- settingsSaved, failed <- settingsFailed,
  harmed <- settingsHarmed
C == INSTANCE CredentialsProofs WITH MaxSets <- MaxChanges,
  file <- authFile, lock <- authLock, sync <- authSync, refresh <- authRefresh,
  data <- authData, loadError <- authLoadError, compromised <- authCompromised,
  issued <- authIssued, expired <- authExpired, spent <- authSpent, left <- authLeft,
  last <- authLast, twice <- authTwice, unanswered <- authUnanswered, harmed <- authHarmed

InitStores ==
  /\ part \in {"session", "path", "settings", "credentials"}
  /\ Init /\ P!Init /\ S!Init /\ C!Init
  /\ part # "session" => lastFile = 0
  /\ part # "credentials" => authIssued = 0
NextStores ==
  /\ \/ part = "session" /\ Next /\ UNCHANGED <<pathVars, settingsVars, authVars>>
     \/ part = "path" /\ P!Next /\ UNCHANGED <<vars, settingsVars, authVars>>
     \/ part = "settings" /\ S!Next /\ UNCHANGED <<vars, pathVars, authVars>>
     \/ part = "credentials" /\ C!Next /\ UNCHANGED <<vars, pathVars, settingsVars>>
  /\ UNCHANGED part
SpecStores == InitStores /\ [][NextStores]_<<part, vars, pathVars, settingsVars, authVars>>

\* The properties of the modules, whose comments say what they mean.
TypesOK == TypeOK /\ P!TypeOK /\ S!TypeOK /\ C!TypeOK
NothingForgotten == P!NothingForgotten
ResultsKeepTheirCalls == P!ResultsKeepTheirCalls
SettingsKept == S!SettingsKept
SettingsSaved == S!SettingsSaved
SpentOnce == C!SpentOnce
CredentialsKept == C!CredentialsKept
=============================================================================
