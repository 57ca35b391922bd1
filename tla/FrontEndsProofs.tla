---------------------------- MODULE FrontEndsProofs ----------------------------
(***************************************************************************)
(* Proofs about the prompt editor, about rendering, and about the client    *)
(* and the mode of the agent's process, where they stand beside each other. *)
(* Undo leads back to an empty prompt, whatever is typed, killed, yanked,   *)
(* browsed or put in.  What differential rendering leaves on a screen is    *)
(* what a full redraw would, whatever scrolled, shrank or was overlaid.     *)
(* However many requests, processes, stops and timers there are, no request *)
(* is forgotten while it can be answered, no dialog that is closed can be   *)
(* answered, who waits for idleness listens, and the session in place is    *)
(* heard once, however switches overlap.                                    *)
(***************************************************************************)
EXTENDS MCFrontEnds, SequenceTheorems, NaturalsInduction, WellFoundedInduction, TLAPS

\* The part that is explored goes its own steps; the others stay as they began.
LEMMA EditorSpec == Spec => E!Spec
<1>1. Init => E!Init
  BY DEF Init
<1>2. [Next]_vars => [E!Next]_E!vars
  BY DEF Next, vars, editorVars, E!vars
<1> QED BY <1>1, <1>2, PTL DEF Spec, E!Spec

LEMMA RpcSpec == Spec => C!Spec
<1>1. Init => C!Init
  BY DEF Init
<1>2. UNCHANGED rpcVars => UNCHANGED C!vars
  BY DEF rpcVars, C!vars, C!client, C!pipes, C!mode, C!host, C!dialogVars
<1>3. [Next]_vars => [C!Next]_C!vars
  BY <1>2 DEF Next, vars
<1> QED BY <1>1, <1>3, PTL DEF Spec, C!Spec

LEMMA RenderSpec == Spec => R!Spec
<1>1. Init => R!Init
  BY DEF Init
<1>2. UNCHANGED renderVars => UNCHANGED R!vars
  BY DEF renderVars, R!vars, R!believed, R!terminal
<1>3. [Next]_vars => [R!Next]_R!vars
  BY <1>2 DEF Next, vars
<1> QED BY <1>1, <1>3, PTL DEF Spec, R!Spec

(***************************************************************************)
(* Two actions change the text without a snapshot: one that types on, and  *)
(* one that browses on.  Each relies on the snapshot of the action that    *)
(* began it.                                                               *)
(***************************************************************************)
StackInv == \E S : undoStack \in Seq(S)
BegunInv == (lastAction = "type-word" \/ historyIndex # 0) => undoStack # <<>>
EditorInv == StackInv /\ BegunInv /\ E!UndoLeadsBack

\* UndoStack.push, of what the empty prompt began: the first snapshot stays the first.
LEMMA Pushing ==
  ASSUME StackInv, E!UndoLeadsBack, E!PushUndoSnapshot
  PROVE  StackInv' /\ undoStack' # <<>> /\ E!UndoLeadsBack'
<1>1. PICK S : undoStack \in Seq(S)
  BY DEF StackInv
<1> DEFINE T == S \union {state}
<1>2. undoStack \in Seq(T)
  BY <1>1, SeqMonotonic
<1>3. /\ undoStack' \in Seq(T) /\ undoStack' # <<>>
      /\ Head(undoStack') = IF undoStack = <<>> THEN state ELSE Head(undoStack)
  BY <1>2 DEF E!PushUndoSnapshot
<1>4. StackInv'
  BY <1>3 DEF StackInv
<1> QED BY <1>3, <1>4 DEF E!UndoLeadsBack

\* UndoStack.pop: what is left still begins with the first snapshot.
LEMMA Popping ==
  ASSUME StackInv, E!UndoLeadsBack, undoStack # <<>>,
         state' = E!Last(undoStack), undoStack' = E!Front(undoStack)
  PROVE  StackInv' /\ E!UndoLeadsBack'
<1>1. PICK S : undoStack \in Seq(S)
  BY DEF StackInv
<1>2. Len(undoStack) \in Nat /\ Len(undoStack) >= 1
  BY <1>1
<1>3. /\ undoStack' \in Seq(S) /\ Len(undoStack') = Len(undoStack) - 1
      /\ \A i \in 1..(Len(undoStack) - 1) : undoStack'[i] = undoStack[i]
  <2> DEFINE n == Len(undoStack) - 1
  <2>1. n \in Int /\ \A i \in 1..n : undoStack[i] \in S
    BY <1>1, <1>2
  <2>2. undoStack' = SubSeq(undoStack, 1, n)
    BY DEF E!Front
  <2> HIDE DEF n
  <2>3. /\ SubSeq(undoStack, 1, n) \in Seq(S)
        /\ Len(SubSeq(undoStack, 1, n)) = IF 1 <= n THEN n - 1 + 1 ELSE 0
        /\ \A i \in 1..(n - 1 + 1) : SubSeq(undoStack, 1, n)[i] = undoStack[1 + i - 1]
    BY <2>1, SubSeqProperties
  <2>4. n \in Nat /\ n = Len(undoStack) - 1
    BY <1>2 DEF n
  <2> QED BY <2>2, <2>3, <2>4
<1>4. state' = undoStack[Len(undoStack)]
  BY DEF E!Last
<1>5. Head(undoStack).lines = E!Nothing /\ Head(undoStack) = undoStack[1]
  BY <1>1, <1>2 DEF E!UndoLeadsBack
<1>6. CASE Len(undoStack) = 1
  <2>1. undoStack' = <<>>
    BY <1>3, <1>6
  <2>2. state'.lines = E!Nothing
    BY <1>4, <1>5, <1>6
  <2> QED BY <1>3, <2>1, <2>2 DEF E!UndoLeadsBack, StackInv
<1>7. CASE Len(undoStack) # 1
  <2>1. undoStack' # <<>> /\ Head(undoStack') = undoStack[1]
    BY <1>2, <1>3, <1>7
  <2> QED BY <1>3, <1>5, <2>1 DEF E!UndoLeadsBack, StackInv
<1> QED BY <1>6, <1>7

\* Nothing is pushed, and something was.
LEMMA Carrying ==
  ASSUME StackInv, E!UndoLeadsBack, UNCHANGED undoStack,
         undoStack # <<>> \/ state'.lines = state.lines
  PROVE  StackInv' /\ E!UndoLeadsBack'
BY DEF StackInv, E!UndoLeadsBack

LEMMA EditorInit == E!Init => EditorInv
<1> SUFFICES ASSUME E!Init PROVE EditorInv
  OBVIOUS
<1>1. undoStack \in Seq({}) /\ state.lines = E!Nothing
  BY DEF E!Init, E!Empty, E!At
<1> QED BY <1>1 DEF E!Init, EditorInv, StackInv, BegunInv, E!UndoLeadsBack

\* What pushes a snapshot keeps the invariant.
LEMMA WithSnapshot ==
  ASSUME EditorInv, E!PushUndoSnapshot PROVE EditorInv'
BY Pushing DEF EditorInv, BegunInv

\* What leaves the text and the snapshots alone keeps it, when it carries nothing on.
LEMMA WithoutChange ==
  ASSUME EditorInv, UNCHANGED undoStack, state'.lines = state.lines,
         lastAction' \in {"none", "kill", lastAction}, historyIndex' \in {0, historyIndex}
  PROVE  EditorInv'
<1>1. StackInv' /\ E!UndoLeadsBack'
  BY Carrying DEF EditorInv
<1> QED BY <1>1 DEF EditorInv, BegunInv

LEMMA EditorStep == EditorInv /\ [E!Next]_E!vars => EditorInv'
<1> SUFFICES ASSUME EditorInv, [E!Next]_E!vars PROVE EditorInv'
  OBVIOUS
<1>1. ASSUME NEW c \in Typed, E!InsertCharacter(c) PROVE EditorInv'
  <2>1. CASE E!Coalesces(c)
    <3>1. undoStack # <<>> /\ UNCHANGED undoStack
      BY <1>1, <2>1 DEF E!InsertCharacter, E!Coalesces, EditorInv, BegunInv
    <3>2. StackInv' /\ E!UndoLeadsBack'
      BY <3>1, Carrying DEF EditorInv
    <3> QED BY <3>1, <3>2 DEF EditorInv, BegunInv
  <2>2. CASE ~E!Coalesces(c)
    BY <1>1, <2>2, WithSnapshot DEF E!InsertCharacter
  <2> QED BY <2>1, <2>2
<1>2. ASSUME NEW new, E!Changed(new) PROVE EditorInv'
  BY <1>2, WithSnapshot DEF E!Changed
<1>3. ASSUME NEW text \in Texts, E!SetText(text) PROVE EditorInv'
  <2>1. CASE text = state.lines
    <3>1. state'.lines = state.lines
      BY <1>3, <2>1 DEF E!SetText, E!EndOf, E!At
    <3> QED BY <1>3, <2>1, <3>1, WithoutChange DEF E!SetText
  <2>2. CASE text # state.lines
    BY <1>3, <2>2, WithSnapshot DEF E!SetText
  <2> QED BY <2>1, <2>2
<1>4. ASSUME NEW item, NEW prefix, E!Complete(item, prefix) PROVE EditorInv'
  BY <1>4, WithSnapshot DEF E!Complete
<1>5. ASSUME NEW text, NEW prepend, NEW new, E!Killing(text, prepend, new) PROVE EditorInv'
  BY <1>5, WithSnapshot DEF E!Killing
<1>6. ASSUME NEW last \in {"none", lastAction}, E!Nowhere(last) PROVE EditorInv'
  BY <1>6, WithoutChange DEF E!Nowhere
<1>7. ASSUME NEW col, E!KillBackTo(col) \/ E!KillOnTo(col) PROVE EditorInv'
  BY <1>5, <1>6, <1>7 DEF E!KillBackTo, E!KillOnTo
<1>8. ASSUME E!HandleBackspace \/ E!HandleForwardDelete PROVE EditorInv'
  BY <1>2, <1>6, <1>8 DEF E!HandleBackspace, E!HandleForwardDelete
<1>9. ASSUME E!Yank \/ E!YankPop PROVE EditorInv'
  BY <1>9, WithSnapshot DEF E!Yank, E!YankPop
<1>10. ASSUME E!Move PROVE EditorInv'
  <2>1. state'.lines = state.lines
    BY <1>10 DEF E!Move, E!At
  <2> QED BY <1>10, <2>1, WithoutChange DEF E!Move
<1>11. ASSUME E!Undo PROVE EditorInv'
  <2>1. CASE undoStack = <<>>
    BY <1>11, <2>1, WithoutChange DEF E!Undo
  <2>2. CASE undoStack # <<>>
    <3>1. StackInv' /\ E!UndoLeadsBack'
      BY <1>11, <2>2, Popping DEF E!Undo, EditorInv
    <3> QED BY <1>11, <2>2, <3>1 DEF E!Undo, EditorInv, BegunInv
  <2> QED BY <2>1, <2>2
<1>12. ASSUME NEW up \in BOOLEAN, E!NavigateHistory(up) PROVE EditorInv'
  <2>1. CASE E!EntersHistory /\ undoStack' # undoStack
    <3>1. E!PushUndoSnapshot
      BY <1>12, <2>1 DEF E!NavigateHistory
    <3> QED BY <3>1, WithSnapshot
  <2>2. CASE E!EntersHistory /\ undoStack' = undoStack
    <3>1. \/ E!PushUndoSnapshot
          \/ UNCHANGED <<state, undoStack, historyIndex>>
      BY <1>12, <2>2 DEF E!NavigateHistory
    <3> QED BY <1>12, <3>1, WithSnapshot, WithoutChange DEF E!NavigateHistory
  <2>3. CASE ~E!EntersHistory
    <3>1. undoStack # <<>> /\ UNCHANGED undoStack
      BY <1>12, <2>3 DEF E!NavigateHistory, E!EntersHistory, EditorInv, BegunInv
    <3>2. StackInv' /\ E!UndoLeadsBack'
      BY <3>1, Carrying DEF EditorInv
    <3> QED BY <3>1, <3>2 DEF EditorInv, BegunInv
  <2> QED BY <2>1, <2>2, <2>3
<1>13. ASSUME E!SubmitValue PROVE EditorInv'
  <2>1. undoStack' \in Seq({}) /\ state'.lines = E!Nothing
    BY <1>13 DEF E!SubmitValue, E!Empty, E!At
  <2> QED BY <1>13, <2>1 DEF E!SubmitValue, EditorInv, StackInv, BegunInv, E!UndoLeadsBack
<1>14. ASSUME UNCHANGED E!vars PROVE EditorInv'
  BY <1>14, WithoutChange DEF E!vars
<1> QED
  BY <1>1, <1>2, <1>3, <1>4, <1>7, <1>8, <1>9, <1>10, <1>11, <1>12, <1>13, <1>14
  DEF E!Next, E!InsertText, E!AddNewLine, E!DeleteToStartOfLine, E!DeleteWordBackwards,
      E!DeleteToEndOfLine, E!DeleteWordForward

\* pushUndoSnapshot and undo: while there is any text there is something to undo, and
\* the last thing it leads to is the empty prompt, for any texts, keys and histories.
THEOREM UndoReachesEmpty == Spec => []UndoLeadsBack
<1>1. EditorInv /\ [E!Next]_E!vars => EditorInv'
  BY EditorStep
<1>2. EditorInv => UndoLeadsBack
  BY DEF EditorInv, UndoLeadsBack
<1> QED BY <1>1, <1>2, EditorInit, EditorSpec, PTL DEF E!Spec

Request == [id : Nat, process : Nat, state : {"waiting", "resolved", "rejected"},
            timer : BOOLEAN, cleared : BOOLEAN]
TInv == /\ process \in Nat /\ starts \in Nat
        /\ requests \in Seq(Request)
        /\ dialogs \in Seq(BOOLEAN)

(***************************************************************************)
(* A request's id is its place in the order of all of them, over all the   *)
(* processes: what is removed for one request cannot be another's.         *)
(***************************************************************************)
IdInv == \A r \in DOMAIN requests : requests[r].id = r
PendingInv == /\ pendingRequests \subseteq [id : Nat, request : Nat]
              /\ \A p \in pendingRequests : p.id = p.request

RpcInv == TInv /\ IdInv /\ PendingInv /\ C!RequestsAreTracked /\ C!DialogsAreOpen

clientVars == <<process, starts, requests, pendingRequests>>

\* Settling a request leaves all others as they are.
LEMMA Settling ==
  ASSUME TInv, NEW r, NEW how \in {"resolved", "rejected"}
  PROVE  LET rs == C!Settle(requests, r, how)
         IN  /\ rs \in Seq(Request) /\ DOMAIN rs = DOMAIN requests
             /\ \A q \in DOMAIN requests :
                  /\ rs[q].id = requests[q].id
                  /\ q = r => rs[q].state # "waiting"
                  /\ q # r => rs[q] = requests[q]
<1> DEFINE rs == C!Settle(requests, r, how)
<1>1. requests \in Seq(Request)
  BY DEF TInv
<1>2. DOMAIN rs = DOMAIN requests /\ DOMAIN requests = 1..Len(requests) /\ Len(requests) \in Nat
  BY <1>1 DEF C!Settle
<1>3. ASSUME NEW q \in DOMAIN requests
      PROVE  /\ rs[q] \in Request
             /\ rs[q].id = requests[q].id
             /\ q = r => rs[q].state # "waiting"
             /\ q # r => rs[q] = requests[q]
  <2>1. requests[q] \in Request
    BY <1>1, <1>3
  <2>2. CASE q = r
    <3>1. rs[q] = [[requests[q] EXCEPT !.state = IF @ = "waiting" THEN how ELSE @]
                                EXCEPT !.timer = FALSE]
      BY <1>3, <2>2 DEF C!Settle
    <3> QED BY <2>1, <2>2, <3>1 DEF Request
  <2>3. CASE q # r
    BY <1>3, <2>1, <2>3 DEF C!Settle
  <2> QED BY <2>2, <2>3
<1>4. rs = [q \in 1..Len(requests) |-> rs[q]]
  BY <1>2 DEF C!Settle
<1>5. rs \in Seq(Request)
  BY <1>2, <1>3, <1>4, IsASeq
<1> QED BY <1>2, <1>3, <1>5

\* A request that is settled, and only that, leaves the map.
LEMMA SettledAndRemoved ==
  ASSUME RpcInv, NEW r, NEW how \in {"resolved", "rejected"},
         requests' = C!Settle(requests, r, how),
         pendingRequests' = { p \in pendingRequests : p.id # r },
         UNCHANGED <<process, starts, dialogs, pendingExtensionRequests>>
  PROVE  RpcInv'
<1>1. /\ requests' \in Seq(Request) /\ DOMAIN requests' = DOMAIN requests
      /\ \A q \in DOMAIN requests :
           /\ requests'[q].id = requests[q].id
           /\ q = r => requests'[q].state # "waiting"
           /\ q # r => requests'[q] = requests[q]
  BY Settling DEF RpcInv
<1>2. TInv' /\ C!DialogsAreOpen'
  BY <1>1 DEF RpcInv, TInv, C!DialogsAreOpen
<1>3. IdInv' /\ PendingInv'
  BY <1>1 DEF RpcInv, IdInv, PendingInv
<1>4. C!RequestsAreTracked'
  <2> SUFFICES ASSUME NEW q \in DOMAIN requests, requests'[q].state = "waiting"
               PROVE  /\ requests'[q].timer
                      /\ \/ requests'[q].cleared
                         \/ [id |-> requests'[q].id, request |-> q] \in pendingRequests'
    BY <1>1 DEF C!RequestsAreTracked
  <2>1. q # r /\ requests'[q] = requests[q]
    BY <1>1
  <2>2. requests[q].id = q
    BY DEF RpcInv, IdInv
  <2> QED BY <2>1, <2>2 DEF RpcInv, C!RequestsAreTracked
<1> QED BY <1>2, <1>3, <1>4 DEF RpcInv

LEMMA RpcInit == C!Init => RpcInv
<1> SUFFICES ASSUME C!Init PROVE RpcInv
  OBVIOUS
<1>1. requests = <<>> /\ dialogs = <<>>
  BY DEF C!Init
<1>2. TInv
  BY <1>1 DEF C!Init, TInv
<1> QED BY <1>1, <1>2 DEF C!Init, RpcInv, IdInv, PendingInv, C!RequestsAreTracked, C!DialogsAreOpen

\* send: the number of a request is new.
LEMMA Sending ==
  ASSUME RpcInv, NEW command, C!Send(command),
         UNCHANGED <<process, starts, dialogs, pendingExtensionRequests>>
  PROVE  RpcInv'
<1> DEFINE new == [id |-> Len(requests) + 1, process |-> process, state |-> "waiting",
                   timer |-> TRUE, cleared |-> FALSE]
<1>1. requests \in Seq(Request) /\ Len(requests) \in Nat /\ process \in Nat
  BY DEF RpcInv, TInv
<1>2. new \in Request
  BY <1>1 DEF Request
<1>3. requests' = Append(requests, new)
  BY DEF C!Send, C!NextId
<1>4. pendingRequests' = { p \in pendingRequests : p.id # Len(requests) + 1 }
                         \union {[id |-> Len(requests) + 1, request |-> Len(requests) + 1]}
  BY DEF C!Send, C!NextId
<1> HIDE DEF new
<1>5. /\ requests' \in Seq(Request) /\ DOMAIN requests' = 1..(Len(requests) + 1)
      /\ DOMAIN requests = 1..Len(requests)
      /\ \A r \in 1..Len(requests) : requests'[r] = requests[r]
      /\ requests'[Len(requests) + 1] = new
  BY <1>1, <1>2, <1>3
<1>6. new.id = Len(requests) + 1 /\ new.timer
  BY DEF new
<1>7. TInv' /\ C!DialogsAreOpen'
  BY <1>5 DEF RpcInv, TInv, C!DialogsAreOpen
<1>8. IdInv'
  BY <1>1, <1>5, <1>6 DEF RpcInv, IdInv
<1>9. PendingInv'
  BY <1>1, <1>4 DEF RpcInv, PendingInv
<1>10. C!RequestsAreTracked'
  <2> SUFFICES ASSUME NEW r \in DOMAIN requests', requests'[r].state = "waiting"
               PROVE  /\ requests'[r].timer
                      /\ \/ requests'[r].cleared
                         \/ [id |-> requests'[r].id, request |-> r] \in pendingRequests'
    BY DEF C!RequestsAreTracked
  <2>1. CASE r \in DOMAIN requests
    <3>1. requests'[r] = requests[r] /\ requests[r].id = r /\ r # Len(requests) + 1
      BY <1>1, <1>5, <2>1 DEF RpcInv, IdInv
    <3> QED BY <1>4, <2>1, <3>1 DEF RpcInv, C!RequestsAreTracked
  <2>2. CASE r = Len(requests) + 1
    BY <1>4, <1>5, <1>6, <2>2
  <2> QED BY <1>1, <1>5, <2>1, <2>2
<1> QED BY <1>7, <1>8, <1>9, <1>10 DEF RpcInv

\* stop: whoever still waits is left to its timer.
LEMMA Stopping ==
  ASSUME RpcInv, NEW i, C!StopReturns(i) PROVE RpcInv'
<1>1. requests' = C!Cleared(requests) /\ pendingRequests' = {} /\ process' = 0
  BY DEF C!StopReturns
<1>2. /\ requests \in Seq(Request) /\ Len(requests) \in Nat
      /\ DOMAIN requests = 1..Len(requests)
  BY DEF RpcInv, TInv
<1>3. ASSUME NEW r \in DOMAIN requests
      PROVE  /\ requests'[r] \in Request
             /\ requests'[r].id = requests[r].id /\ requests'[r].timer = requests[r].timer
             /\ requests'[r].state = requests[r].state
             /\ requests[r].state = "waiting" => requests'[r].cleared
  <2>1. requests[r] \in Request
    BY <1>2, <1>3
  <2>2. requests'[r] = [requests[r] EXCEPT !.cleared = @ \/ requests[r].state = "waiting"]
    BY <1>1, <1>3 DEF C!Cleared
  <2> QED BY <2>1, <2>2 DEF Request
<1>4. requests' = [r \in 1..Len(requests) |-> requests'[r]] /\ DOMAIN requests' = DOMAIN requests
  BY <1>1, <1>2 DEF C!Cleared
<1>5. requests' \in Seq(Request)
  BY <1>2, <1>3, <1>4, IsASeq
<1>6. UNCHANGED <<starts, dialogs, pendingExtensionRequests>>
  BY DEF C!StopReturns, C!mode, C!dialogVars
<1>7. TInv' /\ C!DialogsAreOpen'
  BY <1>1, <1>5, <1>6 DEF RpcInv, TInv, C!DialogsAreOpen
<1>8. IdInv' /\ PendingInv'
  BY <1>1, <1>3, <1>4 DEF RpcInv, IdInv, PendingInv
<1>9. C!RequestsAreTracked'
  BY <1>3, <1>4 DEF RpcInv, C!RequestsAreTracked
<1> QED BY <1>7, <1>8, <1>9 DEF RpcInv

\* createDialogPromise: cleanup closes a dialog and takes it from the map.
LEMMA Cleaning ==
  ASSUME RpcInv, NEW d, C!CleanUp(d) PROVE RpcInv'
<1>1. /\ UNCHANGED clientVars /\ dialogs' = [dialogs EXCEPT ![d] = FALSE]
      /\ pendingExtensionRequests' = pendingExtensionRequests \ {d}
  BY DEF C!CleanUp, C!client, clientVars
<1>2. dialogs \in Seq(BOOLEAN) /\ dialogs' \in Seq(BOOLEAN)
  <2>1. dialogs \in Seq(BOOLEAN)
    BY DEF RpcInv, TInv
  <2>2. Len(dialogs) \in Nat /\ DOMAIN dialogs = 1..Len(dialogs)
    BY <2>1
  <2>3. dialogs' = [e \in 1..Len(dialogs) |-> dialogs'[e]]
    BY <1>1, <2>2
  <2>4. ASSUME NEW e \in 1..Len(dialogs) PROVE dialogs'[e] \in BOOLEAN
    <3>1. dialogs'[e] = FALSE \/ dialogs'[e] = dialogs[e]
      BY <1>1, <2>2
    <3>2. dialogs[e] \in BOOLEAN
      BY <2>1, <2>4
    <3> QED BY <3>1, <3>2
  <2>5. dialogs' \in Seq(BOOLEAN)
    BY <2>2, <2>3, <2>4, IsASeq
  <2> QED BY <2>1, <2>5
<1>3. TInv' /\ IdInv' /\ PendingInv' /\ C!RequestsAreTracked'
  BY <1>1, <1>2 DEF RpcInv, TInv, IdInv, PendingInv, C!RequestsAreTracked, clientVars
<1>4. C!DialogsAreOpen'
  BY <1>1, <1>2 DEF RpcInv, C!DialogsAreOpen
<1> QED BY <1>3, <1>4 DEF RpcInv

LEMMA RpcStep == RpcInv /\ [C!Next]_C!vars => RpcInv'
<1> SUFFICES ASSUME RpcInv, [C!Next]_C!vars PROVE RpcInv'
  OBVIOUS
<1>1. ASSUME UNCHANGED clientVars, UNCHANGED C!dialogVars PROVE RpcInv'
  BY <1>1 DEF RpcInv, TInv, IdInv, PendingInv, C!RequestsAreTracked, C!DialogsAreOpen, clientVars,
              C!dialogVars
<1>2. CASE C!Start
  <2>1. /\ process' \in Nat /\ starts' \in Nat /\ dialogs' = <<>> /\ pendingExtensionRequests' = {}
        /\ UNCHANGED <<requests, pendingRequests>>
    BY <1>2 DEF C!Start, RpcInv, TInv
  <2> QED BY <2>1 DEF RpcInv, TInv, IdInv, PendingInv, C!RequestsAreTracked, C!DialogsAreOpen
<1>3. CASE C!Call
  <2>1. UNCHANGED <<process, starts, dialogs, pendingExtensionRequests>>
    BY <1>3 DEF C!Call, C!mode, C!dialogVars
  <2>2. (\E command : C!Send(command)) \/ UNCHANGED <<requests, pendingRequests>>
    BY <1>3 DEF C!Call
  <2> QED BY <1>1, <2>1, <2>2, Sending DEF clientVars, C!dialogVars
<1>4. CASE C!HandleLine
  <2>1. UNCHANGED <<process, starts, dialogs, pendingExtensionRequests>>
    BY <1>4 DEF C!HandleLine, C!mode, C!dialogVars
  <2>2. \/ UNCHANGED <<requests, pendingRequests>>
        \/ \E p \in pendingRequests :
             /\ p.id = Head(stdout).id
             /\ pendingRequests' = pendingRequests \ {p}
             /\ requests' = C!Settle(requests, p.request, "resolved")
    BY <1>4 DEF C!HandleLine
  <2>3. ASSUME NEW p \in pendingRequests,
               pendingRequests' = pendingRequests \ {p},
               requests' = C!Settle(requests, p.request, "resolved")
        PROVE  RpcInv'
    <3>1. \A q \in pendingRequests : q.id = p.request <=> q = p
      BY DEF RpcInv, PendingInv
    <3>2. pendingRequests' = { q \in pendingRequests : q.id # p.request }
      BY <2>3, <3>1
    <3> QED BY <2>1, <2>3, <3>2, SettledAndRemoved
  <2> QED BY <1>1, <2>1, <2>2, <2>3 DEF clientVars, C!dialogVars
<1>5. ASSUME NEW r \in DOMAIN requests, C!RequestTimesOut(r) PROVE RpcInv'
  <2>1. requests[r].id = r
    BY DEF RpcInv, IdInv
  <2>2. /\ requests' = C!Settle(requests, r, "rejected")
        /\ pendingRequests' = { p \in pendingRequests : p.id # r }
        /\ UNCHANGED <<process, starts, dialogs, pendingExtensionRequests>>
    BY <1>5, <2>1 DEF C!RequestTimesOut, C!mode, C!dialogVars
  <2> QED BY <2>2, SettledAndRemoved
<1>6. ASSUME NEW i \in DOMAIN stops, C!StopReturns(i) PROVE RpcInv'
  BY <1>6, Stopping
<1>7. CASE C!OpenDialog
  <2>1. /\ UNCHANGED clientVars /\ dialogs' = Append(dialogs, TRUE)
        /\ pendingExtensionRequests' = pendingExtensionRequests \union {Len(dialogs) + 1}
    BY <1>7 DEF C!OpenDialog, C!client, clientVars
  <2>2. /\ dialogs \in Seq(BOOLEAN) /\ dialogs' \in Seq(BOOLEAN) /\ Len(dialogs) \in Nat
        /\ DOMAIN dialogs = 1..Len(dialogs) /\ DOMAIN dialogs' = 1..(Len(dialogs) + 1)
        /\ \A d \in 1..Len(dialogs) : dialogs'[d] = dialogs[d]
        /\ dialogs'[Len(dialogs) + 1] = TRUE
    BY <2>1 DEF RpcInv, TInv
  <2>3. TInv' /\ IdInv' /\ PendingInv' /\ C!RequestsAreTracked'
    BY <2>1, <2>2 DEF RpcInv, TInv, IdInv, PendingInv, C!RequestsAreTracked, clientVars
  <2>4. C!DialogsAreOpen'
    BY <2>1, <2>2 DEF RpcInv, C!DialogsAreOpen
  <2> QED BY <2>3, <2>4 DEF RpcInv
<1>8. ASSUME NEW d, C!DialogGivenUp(d) \/ C!DialogAnswered(d) PROVE RpcInv'
  BY <1>8, Cleaning DEF C!DialogGivenUp, C!DialogAnswered
<1>9. CASE C!Stop \/ C!HandleInputLine \/ C!RequestShutdown \/ C!Exit
  BY <1>1, <1>9
  DEF C!Stop, C!HandleInputLine, C!RequestShutdown, C!Exit, C!client, clientVars, C!mode
<1>10. ASSUME NEW w, C!WaiterTimesOut(w) PROVE RpcInv'
  BY <1>1, <1>10 DEF C!WaiterTimesOut, clientVars, C!mode
<1>11. ASSUME NEW c \in commands,
              \/ C!CommandThrows(c) \/ C!CommandReturns(c) \/ C!CreateRuntime(c)
              \/ C!Replace(c) \/ C!ReplaceThrows(c) \/ C!Rebind(c)
       PROVE  RpcInv'
  BY <1>1, <1>11
  DEF C!CommandThrows, C!CommandReturns, C!CreateRuntime, C!Replace, C!ReplaceThrows, C!Rebind,
      C!client, clientVars
<1>12. ASSUME NEW s \in running, C!RunEnds(s) PROVE RpcInv'
  BY <1>1, <1>12 DEF C!RunEnds, C!client, clientVars
<1>13. CASE UNCHANGED C!vars
  BY <1>1, <1>13 DEF C!vars, C!client, C!mode, clientVars
<1> QED
  BY <1>2, <1>3, <1>4, <1>5, <1>6, <1>7, <1>8, <1>9, <1>10, <1>11, <1>12, <1>13 DEF C!Next

(***************************************************************************)
(* Whoever waits for the agent to become idle listens, once.                *)
(***************************************************************************)
Distinct(s) == \A i, j \in 1..Len(s) : s[i] = s[j] => i = j

\* unsubscribe finds the listener where it is, and splices it out.
LEMMA FoundAt ==
  ASSUME NEW S, NEW s \in Seq(S), Distinct(s), NEW k \in 1..Len(s)
  PROVE  C!RemoveFirst(s, s[k]) = C!RemoveAt(s, k)
<1> DEFINE N == { i \in 1..Len(s) : s[i] = s[k] }
<1>1. N = {k}
  BY DEF Distinct
<1>2. C!SelectInSeq(s, LAMBDA v : v = s[k]) = IF N # {} THEN C!Min(N) ELSE 0
  BY DEF C!SelectInSeq
<1>3. C!Min({k}) = k
  BY DEF C!Min
<1> QED BY <1>1, <1>2, <1>3 DEF C!RemoveFirst

LEMMA RemovedAt ==
  ASSUME NEW S, NEW s \in Seq(S), Distinct(s), NEW k \in 1..Len(s)
  PROVE  LET t == C!RemoveAt(s, k)
         IN  /\ t \in Seq(S) /\ Distinct(t)
             /\ \A x : x \in C!ToSet(t) <=> x \in C!ToSet(s) /\ x # s[k]
<1> DEFINE t == C!RemoveAt(s, k)
<1>1. Len(s) \in Nat /\ k \in Nat
  OBVIOUS
<1>2. /\ t \in Seq(S) /\ Len(t) = Len(s) - 1
      /\ \A i \in 1..(k - 1) : t[i] = s[i]
      /\ \A i \in k..(Len(s) - 1) : t[i] = s[i + 1]
  <2> DEFINE a == SubSeq(s, 1, k - 1)
             b == SubSeq(s, k + 1, Len(s))
  <2>1. a \in Seq(S) /\ Len(a) = k - 1 /\ \A i \in 1..(k - 1) : a[i] = s[i]
    BY <1>1
  <2>2. /\ b \in Seq(S) /\ Len(b) = Len(s) - k
        /\ \A i \in 1..(Len(s) - k) : b[i] = s[i + k]
    BY <1>1
  <2>3. t = a \o b
    BY DEF C!RemoveAt
  <2> HIDE DEF a, b, t
  <2>4. /\ t \in Seq(S) /\ Len(t) = Len(a) + Len(b)
        /\ \A i \in 1..Len(a) : t[i] = a[i]
        /\ \A i \in 1..Len(b) : t[Len(a) + i] = b[i]
    <3>1. /\ t \in Seq(S) /\ Len(t) = Len(a) + Len(b)
          /\ \A i \in 1..(Len(a) + Len(b)) :
               t[i] = IF i <= Len(a) THEN a[i] ELSE b[i - Len(a)]
      BY <2>1, <2>2, <2>3, ConcatProperties
    <3>2. Len(a) \in Nat /\ Len(b) \in Nat
      BY <1>1, <2>1, <2>2
    <3>3. ASSUME NEW i \in 1..Len(b) PROVE t[Len(a) + i] = b[i]
      <4>1. Len(a) + i \in 1..(Len(a) + Len(b)) /\ ~(Len(a) + i <= Len(a))
        BY <3>2
      <4>2. Len(a) + i - Len(a) = i
        BY <3>2
      <4> QED BY <3>1, <4>1, <4>2
    <3>4. \A i \in 1..Len(a) : i \in 1..(Len(a) + Len(b)) /\ i <= Len(a)
      BY <3>2
    <3> QED BY <3>1, <3>3, <3>4
  <2>5. ASSUME NEW i \in k..(Len(s) - 1) PROVE t[i] = s[i + 1]
    <3>1. i - (k - 1) \in 1..Len(b) /\ i = Len(a) + (i - (k - 1))
      BY <1>1, <2>1, <2>2
    <3>2. t[i] = b[i - (k - 1)]
      BY <2>4, <3>1
    <3>3. b[i - (k - 1)] = s[i - (k - 1) + k] /\ i - (k - 1) + k = i + 1
      BY <1>1, <2>2, <3>1
    <3> QED BY <3>2, <3>3
  <2> QED BY <1>1, <2>1, <2>2, <2>4, <2>5
<1> HIDE DEF t
<1> DEFINE at(i) == IF i < k THEN i ELSE i + 1
<1>6. ASSUME NEW i \in 1..Len(t) PROVE at(i) \in 1..Len(s) /\ at(i) # k /\ t[i] = s[at(i)]
  <2>1. i \in Nat /\ 1 <= i /\ i <= Len(s) - 1
    BY <1>1, <1>2
  <2>2. CASE i < k
    <3>1. i \in 1..(k - 1)
      BY <1>1, <2>1, <2>2
    <3>2. t[i] = s[i]
      BY <1>2, <3>1
    <3> QED BY <1>1, <2>1, <2>2, <3>2
  <2>3. CASE ~(i < k)
    <3>1. i \in k..(Len(s) - 1)
      BY <1>1, <2>1, <2>3
    <3>2. t[i] = s[i + 1]
      BY <1>2, <3>1
    <3> QED BY <1>1, <2>1, <2>3, <3>2
  <2> QED BY <2>2, <2>3
<1>7. \A i, j \in 1..Len(t) : at(i) = at(j) => i = j
  BY <1>1, <1>2
<1> HIDE DEF at
<1>8. Distinct(t)
  BY <1>6, <1>7 DEF Distinct
<1>4. ASSUME NEW x, x \in C!ToSet(t) PROVE x \in C!ToSet(s) /\ x # s[k]
  <2>1. PICK i \in 1..Len(t) : t[i] = x
    BY <1>2, <1>4 DEF C!ToSet
  <2>2. at(i) \in 1..Len(s) /\ at(i) # k /\ x = s[at(i)]
    BY <1>6, <2>1
  <2> QED BY <2>2 DEF C!ToSet, Distinct
<1>5. ASSUME NEW x, x \in C!ToSet(s), x # s[k] PROVE x \in C!ToSet(t)
  <2>1. PICK i \in 1..Len(s) : s[i] = x
    BY <1>5 DEF C!ToSet
  <2>2. CASE i < k
    <3>1. i \in 1..Len(t) /\ t[i] = x
      BY <1>1, <1>2, <2>1, <2>2
    <3> QED BY <1>2, <3>1 DEF C!ToSet
  <2>3. CASE i > k
    <3>1. i - 1 \in 1..Len(t) /\ t[i - 1] = x
      BY <1>1, <1>2, <2>1, <2>3
    <3> QED BY <1>2, <3>1 DEF C!ToSet
  <2> QED BY <1>1, <1>5, <2>1, <2>2, <2>3
<1> QED BY <1>2, <1>4, <1>5, <1>8 DEF t

ListenInv ==
  /\ waiters \in Seq(BOOLEAN) /\ eventListeners \in Seq(Nat)
  /\ Distinct(eventListeners)
  /\ C!ToSet(eventListeners) = { w \in DOMAIN waiters : waiters[w] }

\* handleLine: of the listeners that hear the end of a run every other one is passed
\* over, and those are the ones that still listen.
LEMMA Passing ==
  ASSUME NEW S, eventListeners \in Seq(S), Distinct(eventListeners)
  PROVE  /\ C!PassedOver \in Seq(S) /\ Distinct(C!PassedOver)
         /\ C!ToSet(C!PassedOver) = C!ToSet(eventListeners) \ C!Heard
<1> DEFINE t == C!PassedOver
           n == Len(eventListeners)
<1>1. n \in Nat /\ n \div 2 \in Nat /\ DOMAIN eventListeners = 1..n
      /\ \A i \in 1..n : eventListeners[i] \in S
  OBVIOUS
<1>2. t = [i \in 1..(n \div 2) |-> eventListeners[2 * i]]
  BY DEF C!PassedOver
<1>3. \A i \in 1..(n \div 2) : 2 * i \in 1..n /\ (2 * i) % 2 # 1
  BY <1>1
<1>4. \A i \in 1..(n \div 2) : t[i] = eventListeners[2 * i] /\ t[i] \in S
  BY <1>1, <1>2, <1>3
<1>5. t \in Seq(S) /\ Len(t) = n \div 2 /\ DOMAIN t = 1..(n \div 2)
  BY <1>1, <1>2, <1>4, IsASeq
<1> HIDE DEF t
<1>6. Distinct(t)
  <2> SUFFICES ASSUME NEW i \in 1..(n \div 2), NEW j \in 1..(n \div 2), t[i] = t[j]
               PROVE  i = j
    BY <1>5 DEF Distinct
  <2>1. 2 * i = 2 * j
    BY <1>3, <1>4 DEF Distinct
  <2> QED BY <1>1, <2>1
<1>7. ASSUME NEW x, x \in C!ToSet(t) PROVE x \in C!ToSet(eventListeners) \ C!Heard
  <2>1. PICK i \in 1..(n \div 2) : x = eventListeners[2 * i]
    BY <1>4, <1>5, <1>7 DEF C!ToSet
  <2>2. 2 * i \in 1..n /\ (2 * i) % 2 # 1
    BY <1>3
  <2>3. \A j \in 1..n : eventListeners[j] = x => j = 2 * i
    BY <2>1, <2>2 DEF Distinct
  <2> QED BY <1>1, <2>1, <2>2, <2>3 DEF C!ToSet, C!Heard
<1>8. ASSUME NEW x, x \in C!ToSet(eventListeners), x \notin C!Heard PROVE x \in C!ToSet(t)
  <2>1. PICK j \in 1..n : x = eventListeners[j]
    BY <1>1, <1>8 DEF C!ToSet
  <2>2. j % 2 # 1
    BY <1>1, <1>8, <2>1 DEF C!Heard
  <2>3. j \div 2 \in 1..(n \div 2) /\ j = 2 * (j \div 2)
    BY <1>1, <2>2
  <2>4. t[j \div 2] = x
    BY <1>4, <2>1, <2>3
  <2> QED BY <1>5, <2>3, <2>4 DEF C!ToSet
<1> QED BY <1>5, <1>6, <1>7, <1>8 DEF t

LEMMA ListenInit == C!Init => ListenInv
BY DEF C!Init, ListenInv, Distinct, C!ToSet

LEMMA ListenStep == ListenInv /\ [C!Next]_C!vars => ListenInv'
<1> SUFFICES ASSUME ListenInv, [C!Next]_C!vars PROVE ListenInv'
  OBVIOUS
<1>1. /\ waiters \in Seq(BOOLEAN) /\ DOMAIN waiters = 1..Len(waiters) /\ Len(waiters) \in Nat
      /\ eventListeners \in Seq(Nat) /\ Distinct(eventListeners)
      /\ C!ToSet(eventListeners) = { w \in DOMAIN waiters : waiters[w] }
  BY DEF ListenInv
<1>2. ASSUME UNCHANGED <<eventListeners, waiters>> PROVE ListenInv'
  BY <1>2 DEF ListenInv
<1>3. CASE C!Listen
  <2> DEFINE t == Append(eventListeners, Len(waiters) + 1)
             v == Append(waiters, TRUE)
             n == Len(eventListeners)
  <2>1. eventListeners' = t /\ waiters' = v
    BY <1>3 DEF C!Listen
  <2>2. /\ v \in Seq(BOOLEAN) /\ DOMAIN v = 1..(Len(waiters) + 1)
        /\ \A w \in 1..Len(waiters) : v[w] = waiters[w]
        /\ v[Len(waiters) + 1] = TRUE
    BY <1>1
  <2>3. /\ t \in Seq(Nat) /\ Len(t) = n + 1 /\ n \in Nat /\ DOMAIN t = 1..(n + 1)
        /\ \A i \in 1..n : t[i] = eventListeners[i]
        /\ t[n + 1] = Len(waiters) + 1
    BY <1>1
  <2> HIDE DEF t, v
  <2>4. \A i \in 1..n : eventListeners[i] \in 1..Len(waiters)
    BY <1>1 DEF C!ToSet
  <2>5. Distinct(t)
    <3> SUFFICES ASSUME NEW i \in 1..(n + 1), NEW j \in 1..(n + 1), t[i] = t[j] PROVE i = j
      BY <2>3 DEF Distinct
    <3>1. CASE i \in 1..n /\ j \in 1..n
      BY <1>1, <2>3, <3>1 DEF Distinct
    <3>2. CASE ~(i \in 1..n /\ j \in 1..n)
      BY <1>1, <2>3, <2>4, <3>2
    <3> QED BY <3>1, <3>2
  <2>6. C!ToSet(t) = C!ToSet(eventListeners) \union {Len(waiters) + 1}
    <3>1. ASSUME NEW x, x \in C!ToSet(t)
          PROVE  x \in C!ToSet(eventListeners) \union {Len(waiters) + 1}
      <4>1. PICK i \in 1..(n + 1) : t[i] = x
        BY <2>3, <3>1 DEF C!ToSet
      <4>2. CASE i \in 1..n
        <5>1. x = eventListeners[i] /\ i \in DOMAIN eventListeners
          BY <1>1, <2>3, <4>1, <4>2
        <5> QED BY <5>1 DEF C!ToSet
      <4>3. CASE i = n + 1
        BY <2>3, <4>1, <4>3
      <4> QED BY <2>3, <4>2, <4>3
    <3>2. ASSUME NEW x \in C!ToSet(eventListeners) PROVE x \in C!ToSet(t)
      <4>1. PICK i \in 1..n : eventListeners[i] = x
        BY <1>1, <3>2 DEF C!ToSet
      <4>2. i \in 1..(n + 1) /\ t[i] = x
        BY <2>3, <4>1
      <4> QED BY <2>3, <4>2 DEF C!ToSet
    <3>3. n + 1 \in 1..(n + 1)
      BY <2>3
    <3> QED BY <2>3, <3>1, <3>2, <3>3 DEF C!ToSet
  <2>7. { w \in DOMAIN v : v[w] } = { w \in DOMAIN waiters : waiters[w] }
                                    \union {Len(waiters) + 1}
    BY <1>1, <2>2
  <2> QED BY <1>1, <2>1, <2>2, <2>3, <2>5, <2>6, <2>7 DEF ListenInv
<1>4. ASSUME NEW w \in DOMAIN waiters, C!WaiterTimesOut(w) PROVE ListenInv'
  <2>1. /\ waiters[w] /\ waiters' = [waiters EXCEPT ![w] = FALSE]
        /\ eventListeners' = C!RemoveFirst(eventListeners, w)
    BY <1>4 DEF C!WaiterTimesOut
  <2>2. PICK k \in 1..Len(eventListeners) : eventListeners[k] = w
    BY <1>1, <2>1 DEF C!ToSet
  <2> DEFINE t == C!RemoveAt(eventListeners, k)
  <2>3. eventListeners' = t
    BY <1>1, <2>1, <2>2, FoundAt
  <2>4. /\ t \in Seq(Nat) /\ Distinct(t)
        /\ \A x : x \in C!ToSet(t) <=> x \in C!ToSet(eventListeners) /\ x # w
    BY <1>1, <2>2, RemovedAt
  <2> HIDE DEF t
  <2>5. waiters' = [x \in 1..Len(waiters) |-> waiters'[x]]
    BY <1>1, <2>1
  <2>6. \A x \in 1..Len(waiters) : waiters'[x] = IF x = w THEN FALSE ELSE waiters[x]
    BY <1>1, <2>1
  <2>7. waiters' \in Seq(BOOLEAN) /\ DOMAIN waiters' = DOMAIN waiters
    <3>1. ASSUME NEW x \in 1..Len(waiters) PROVE waiters'[x] \in BOOLEAN
      <4>1. waiters[x] \in BOOLEAN
        BY <1>1
      <4>2. waiters'[x] = FALSE \/ waiters'[x] = waiters[x]
        BY <2>6
      <4> QED BY <4>1, <4>2
    <3> QED BY <1>1, <2>1, <2>5, <3>1, IsASeq
  <2>8. \A x : x \in C!ToSet(t) <=> x \in DOMAIN waiters' /\ waiters'[x]
    BY <1>1, <2>4, <2>6, <2>7
  <2> QED BY <2>3, <2>4, <2>7, <2>8 DEF ListenInv
<1>5. CASE C!HandleLine
  <2>1. \/ UNCHANGED <<eventListeners, waiters>>
        \/ /\ waiters' = [w \in DOMAIN waiters |-> waiters[w] /\ w \notin C!Heard]
           /\ eventListeners' = C!PassedOver
    BY <1>5 DEF C!HandleLine
  <2>2. CASE /\ waiters' = [w \in DOMAIN waiters |-> waiters[w] /\ w \notin C!Heard]
             /\ eventListeners' = C!PassedOver
    <3>1. /\ eventListeners' \in Seq(Nat) /\ Distinct(eventListeners)'
          /\ C!ToSet(eventListeners)' = C!ToSet(eventListeners) \ C!Heard
      BY <1>1, <2>2, Passing
    <3>2. waiters' \in Seq(BOOLEAN) /\ DOMAIN waiters' = DOMAIN waiters
      BY <1>1, <2>2, IsASeq
    <3>3. { w \in DOMAIN waiters' : waiters'[w] } = { w \in DOMAIN waiters : waiters[w] } \ C!Heard
      BY <2>2, <3>2
    <3> QED BY <1>1, <3>1, <3>2, <3>3 DEF ListenInv
  <2> QED BY <1>2, <2>1, <2>2
<1>6. CASE C!Call
  BY <1>2, <1>3, <1>6 DEF C!Call
<1>7. CASE C!Start \/ C!Stop \/ (\E r : C!RequestTimesOut(r)) \/ (\E i : C!StopReturns(i))
  BY <1>2, <1>7 DEF C!Start, C!Stop, C!RequestTimesOut, C!StopReturns
<1>8. ASSUME UNCHANGED C!client PROVE ListenInv'
  BY <1>2, <1>8 DEF C!client
<1>9. CASE C!HandleInputLine \/ C!RequestShutdown \/ C!Exit \/ C!OpenDialog
  BY <1>8, <1>9 DEF C!HandleInputLine, C!RequestShutdown, C!Exit, C!OpenDialog
<1>10. ASSUME NEW c, \/ C!CommandThrows(c) \/ C!CommandReturns(c) \/ C!CreateRuntime(c)
                     \/ C!Replace(c) \/ C!ReplaceThrows(c) \/ C!Rebind(c)
       PROVE  ListenInv'
  BY <1>8, <1>10 DEF C!CommandThrows, C!CommandReturns, C!CreateRuntime, C!Replace,
                     C!ReplaceThrows, C!Rebind
<1>11. ASSUME NEW s, C!RunEnds(s) \/ C!DialogGivenUp(s) \/ C!DialogAnswered(s) PROVE ListenInv'
  BY <1>8, <1>11 DEF C!RunEnds, C!DialogGivenUp, C!DialogAnswered, C!CleanUp
<1>12. CASE UNCHANGED C!vars
  BY <1>8, <1>12 DEF C!vars
<1> QED
  BY <1>4, <1>5, <1>6, <1>7, <1>9, <1>10, <1>11, <1>12 DEF C!Next

(***************************************************************************)
(* What is output is the session of the moment, by the listener that the    *)
(* mode would take back, whichever switch subscribed it; it is missing only *)
(* while another switch has still to subscribe.                            *)
(***************************************************************************)
Binding == \E c \in commands : c.step = "binding"

SwitchInv ==
  /\ sessions \in Nat /\ session \in Nat
  /\ \A c \in commands : c.step = "created" => c.next \in Nat \ {0}
  /\ session = 0 => subscriptions = {} /\ commands = {} /\ ~alive
  /\ \A s \in subscriptions : s = C!Subscription(session, unsubscribe)
  /\ session # 0 => subscriptions # {} \/ closing \/ stranded \/ Binding

LEMMA SwitchInit == C!Init => SwitchInv
BY DEF C!Init, SwitchInv

\* What an answer may do: shut down, and take the listener back.
LEMMA Answering ==
  ASSUME NEW subs, NEW id, C!Answer(id)
  PROVE  /\ closing => closing'
         /\ \A by : \/ C!AfterAnswer(subs, by) = subs
                    \/ C!AfterAnswer(subs, by) = { s \in subs : s.by # by } /\ closing'
BY DEF C!Answer, C!AfterAnswer, C!Unsubscribed

\* The commands that are handled come and go, and the listener goes when the mode closes.
LEMMA SwitchKept ==
  ASSUME SwitchInv, UNCHANGED <<sessions, session, unsubscribe, stranded>>,
         alive, subscriptions' \subseteq subscriptions, closing => closing',
         subscriptions' = subscriptions \/ closing',
         \A c \in commands' : c.step = "created" => c \in commands,
         \A c \in commands : c.step = "binding" => c \in commands'
  PROVE  SwitchInv'
BY DEF SwitchInv, Binding

LEMMA HandlingFields ==
  ASSUME NEW id, NEW step, NEW next
  PROVE  C!Handling(id, step, next).step = step /\ C!Handling(id, step, next).next = next
BY DEF C!Handling

LEMMA SwitchStep == SwitchInv /\ [C!Next]_C!vars => SwitchInv'
<1> SUFFICES ASSUME SwitchInv, [C!Next]_C!vars PROVE SwitchInv'
  OBVIOUS
<1>1. ASSUME UNCHANGED C!host, UNCHANGED <<commands, closing>>, alive' => alive PROVE SwitchInv'
  BY <1>1 DEF SwitchInv, Binding, C!host
<1>2. CASE C!Start
  BY <1>2 DEF C!Start, SwitchInv, C!Subscription
<1>3. CASE \/ C!Call \/ C!HandleLine \/ C!Stop \/ (\E r : C!RequestTimesOut(r))
           \/ \E w : C!WaiterTimesOut(w)
  <2>1. UNCHANGED <<alive, C!mode>>
    BY <1>3 DEF C!Call, C!HandleLine, C!Stop, C!RequestTimesOut, C!WaiterTimesOut, C!pipes
  <2> QED BY <1>1, <2>1 DEF C!mode
<1>4. ASSUME NEW i, C!StopReturns(i) PROVE SwitchInv'
  <2>1. UNCHANGED C!mode /\ (alive' => alive)
    <3>1. UNCHANGED C!mode /\ (alive' = alive \/ alive' = (alive /\ process = 0))
      BY <1>4 DEF C!StopReturns
    <3>2. alive' => alive
      BY <3>1, Zenon
    <3> QED BY <3>1, <3>2
  <2> QED BY <1>1, <2>1 DEF C!mode
<1>5. CASE C!HandleInputLine
  <2>1. alive
    BY <1>5 DEF C!HandleInputLine
  <2>2. ASSUME NEW id, C!HandleQuick(id) PROVE SwitchInv'
    BY <2>1, <2>2, Answering, SwitchKept DEF C!HandleQuick
  <2>3. ASSUME NEW id, C!HandlePrompt(id) PROVE SwitchInv'
    <3>1. /\ closing => closing'
          /\ \/ subscriptions' = subscriptions
             \/ subscriptions' = { s \in subscriptions : s.by # unsubscribe } /\ closing'
      BY <2>3 DEF C!HandlePrompt, C!AfterAnswer, C!Unsubscribed
    <3> QED BY <2>1, <2>3, <3>1, SwitchKept DEF C!HandlePrompt
  <2>4. ASSUME NEW id, C!BeginSlow(id) \/ C!BeginSwitch(id) PROVE SwitchInv'
    BY <2>1, <2>4, HandlingFields, SwitchKept DEF C!BeginSlow, C!BeginSwitch, C!host
  <2> QED BY <1>5, <2>2, <2>3, <2>4 DEF C!HandleInputLine
<1>6. ASSUME NEW c \in commands, C!CommandThrows(c) PROVE SwitchInv'
  BY <1>6, SwitchKept DEF C!CommandThrows, C!host
<1>7. ASSUME NEW c \in commands, C!CommandReturns(c) PROVE SwitchInv'
  <2>1. /\ closing => closing'
        /\ \/ subscriptions' = subscriptions
           \/ subscriptions' = { s \in subscriptions : s.by # unsubscribe } /\ closing'
    BY <1>7, Answering DEF C!CommandReturns
  <2> QED BY <1>7, <2>1, SwitchKept DEF C!CommandReturns
<1>8. ASSUME NEW c \in commands, C!CreateRuntime(c) PROVE SwitchInv'
  <2> DEFINE d == C!Handling(c.id, "created", sessions')
  <2>1. /\ alive /\ c.step = "switch" /\ sessions' = sessions + 1
        /\ commands' = (commands \ {c}) \union {d}
        /\ UNCHANGED <<session, subscriptions, unsubscribe, stranded, closing>>
    BY <1>8 DEF C!CreateRuntime
  <2>2. d.step = "created" /\ d.next = sessions'
    BY HandlingFields
  <2> HIDE DEF d
  <2>3. sessions' \in Nat \ {0}
    BY <2>1 DEF SwitchInv
  <2> QED BY <2>1, <2>2, <2>3 DEF SwitchInv, Binding
<1>9. ASSUME NEW c \in commands, C!Replace(c) PROVE SwitchInv'
  <2> DEFINE d == C!Handling(c.id, "binding", c.next)
  <2>1. /\ alive /\ c.step = "created" /\ session' = c.next /\ subscriptions' = C!Disposed
        /\ commands' = (commands \ {c}) \union {d}
        /\ UNCHANGED <<sessions, unsubscribe, stranded, closing>>
    BY <1>9 DEF C!Replace
  <2>2. d.step = "binding"
    BY HandlingFields
  <2> HIDE DEF d
  <2>3. session' \in Nat \ {0}
    BY <2>1 DEF SwitchInv
  <2>4. subscriptions' = {}
    BY <2>1 DEF SwitchInv, C!Disposed, C!Subscription
  <2> QED BY <2>1, <2>2, <2>3, <2>4 DEF SwitchInv, Binding
<1>10. ASSUME NEW c \in commands, C!ReplaceThrows(c) PROVE SwitchInv'
  BY <1>10 DEF C!ReplaceThrows, C!Disposed, SwitchInv
<1>11. ASSUME NEW c \in commands, C!Rebind(c) PROVE SwitchInv'
  <2> DEFINE s == C!Subscription(session, c.id)
             subs == C!Unsubscribed(subscriptions, unsubscribe) \union {s}
  <2>1. /\ alive /\ commands' = commands \ {c} /\ unsubscribe' = c.id
        /\ subscriptions' = C!AfterAnswer(subs, c.id) /\ C!Answer(c.id)
        /\ UNCHANGED <<sessions, session, stranded>>
    BY <1>11 DEF C!Rebind, C!SessionToHear
  <2>2. C!Unsubscribed(subscriptions, unsubscribe) = {}
    BY DEF C!Unsubscribed, SwitchInv, C!Subscription
  <2>3. subs = {s}
    BY <2>2
  <2>4. subscriptions' = {s} \/ (subscriptions' \subseteq {s} /\ closing')
    BY <2>1, <2>3, Answering
  <2> HIDE DEF s, subs
  <2>5. session # 0 /\ \A d \in commands' : d \in commands
    BY <2>1 DEF SwitchInv
  <2> QED BY <2>1, <2>4, <2>5 DEF SwitchInv, s
<1>12. ASSUME NEW s, C!RunEnds(s) PROVE SwitchInv'
  BY <1>12, SwitchKept DEF C!RunEnds
<1>13. ASSUME NEW d, C!DialogGivenUp(d) \/ C!DialogAnswered(d) PROVE SwitchInv'
  BY <1>1, <1>13 DEF C!DialogGivenUp, C!DialogAnswered, C!CleanUp, C!pipes
<1>14. CASE C!OpenDialog \/ C!RequestShutdown \/ C!Exit
  BY <1>1, <1>14 DEF C!OpenDialog, C!RequestShutdown, C!Exit, C!pipes, C!mode
<1>15. CASE UNCHANGED C!vars
  BY <1>1, <1>15 DEF C!vars, C!pipes, C!mode
<1> QED
  BY <1>2, <1>3, <1>4, <1>5, <1>6, <1>7, <1>8, <1>9, <1>10, <1>11, <1>12, <1>13, <1>14, <1>15
  DEF C!Next

(***************************************************************************)
(* The theorems.                                                           *)
(***************************************************************************)
\* RpcClient.send and stop: a request that waits has its timer, and unless stop has
\* cleared the map its answer finds it, for any number of processes and requests.
THEOREM RequestsFound == Spec => []C!RequestsAreTracked
<1>1. RpcInv => C!RequestsAreTracked
  BY DEF RpcInv
<1> QED BY <1>1, RpcInit, RpcStep, RpcSpec, PTL DEF C!Spec

\* createDialogPromise: the dialogs that may be answered are those that are open.
THEOREM DialogsClosed == Spec => []C!DialogsAreOpen
<1>1. RpcInv => C!DialogsAreOpen
  BY DEF RpcInv
<1> QED BY <1>1, RpcInit, RpcStep, RpcSpec, PTL DEF C!Spec

\* waitForIdle, its timer, and handleLine, whose walk passes every other listener over:
\* whoever was passed over is still subscribed and still has its timer.
THEOREM WaitersStillListen == Spec => []C!WaitersListen
<1>1. ListenInv => C!WaitersListen
  BY DEF ListenInv, C!WaitersListen
<1> QED BY <1>1, ListenInit, ListenStep, RpcSpec, PTL DEF C!Spec

\* The three together: nothing that is pending waits for ever.
THEOREM NothingWaitsForEver == Spec => []PendingIsOpen
BY RequestsFound, WaitersStillListen, DialogsClosed, PTL DEF PendingIsOpen, C!PendingIsOpen

\* rebindSession: however many switches overlap, between them the events of the current
\* session are output, and those of no other, once each.
THEOREM OneListener == Spec => []OneSubscription
<1>1. SwitchInv => OneSubscription
  <2> SUFFICES ASSUME SwitchInv, \A c \in commands : c.step # "binding", ~closing, ~stranded
               PROVE  IF session = 0 THEN subscriptions = {}
                      ELSE \E s \in subscriptions : s.session = session /\ subscriptions = {s}
    BY DEF OneSubscription, C!OneSubscription
  <2>1. CASE session = 0
    BY <2>1 DEF SwitchInv
  <2>2. CASE session # 0
    <3> DEFINE l == C!Subscription(session, unsubscribe)
    <3>1. subscriptions # {} /\ \A s \in subscriptions : s = l
      BY <2>2 DEF SwitchInv, Binding
    <3>2. l.session = session
      BY DEF C!Subscription
    <3> HIDE DEF l
    <3>3. subscriptions = {l}
      BY <3>1
    <3> QED BY <2>2, <3>2, <3>3
  <2> QED BY <2>1, <2>2
<1> QED BY <1>1, SwitchInit, SwitchStep, RpcSpec, PTL DEF C!Spec

(***************************************************************************)
(* What TUI keeps of the last render agrees with the terminal until the    *)
(* cursor is sent off the screen; a render that is forced, or that follows *)
(* a resize, relies on none of it.                                         *)
(***************************************************************************)
AllLines == Lines \union {EmptyLine, OverlayLine}
RenderTypes ==
  /\ previousLines \in Seq(AllLines) /\ maxLinesRendered \in Nat
  /\ previousViewportTop \in Nat /\ hardwareCursorRow \in Nat
  /\ height \in Heights /\ previousHeight \in Heights \union {0, -1}
  /\ cursor \in R!Rows /\ origin \in Int /\ astray \in BOOLEAN
\* Overlays are placed by what was ever rendered: no line of that is out of reach.
FilledInReach == origin + R!Larger(0, maxLinesRendered - height) >= 0
NothingYet ==
  previousHeight = 0 =>
    previousLines = <<>> /\ maxLinesRendered = 0 /\ \A r \in R!Rows : screen[r] = Blank
Forced == previousHeight = -1 => previousLines = <<>>
RenderInv ==
  /\ RenderTypes /\ NothingYet /\ Forced /\ R!ScreenShowsContent
  /\ previousHeight = height /\ ~astray => FilledInReach

(***************************************************************************)
(* What a way to render leaves: the terminal shows the lines, and the      *)
(* cursor is in the row it is believed to be in.                           *)
(***************************************************************************)
Agrees(done, lines) ==
  /\ done.term.cursor = done.term.origin + done.row
  /\ \A r \in R!Rows : r >= done.term.origin =>
       done.term.screen[r] = R!LineOf(lines, r - done.term.origin)
  /\ lines # <<>> => done.term.origin + Len(lines) - 1 \in R!Rows
  /\ done.term.origin + done.top >= 0
  /\ done.term.origin + R!Larger(0, done.max - height) >= 0
IsTerm(term) == \E a, b, c : term = [screen |-> a, cursor |-> b, origin |-> c]
DoneTyped(done) ==
  /\ IsTerm(done.term)
  /\ done.term.cursor \in R!Rows /\ done.term.origin \in Int
  /\ done.top \in Nat /\ done.row \in Nat /\ done.max \in Nat
  /\ done.cleared \in BOOLEAN

\* A move changes only the cursor's row, and clearing only that and the screen.
LEMMA StaysTerm ==
  ASSUME NEW term, IsTerm(term), NEW n
  PROVE  IsTerm(R!MoveBy(term, n)) /\ IsTerm(R!ClearBelow(term, n))
<1>1. PICK a, b, c : term = [screen |-> a, cursor |-> b, origin |-> c]
  BY DEF IsTerm
<1> DEFINE m == R!Clamp(b + n)
           x == [r \in R!Rows |-> IF \E k \in 1..n : r = R!Clamp(b + k) THEN Blank ELSE a[r]]
<1>2. R!MoveBy(term, n) = [screen |-> a, cursor |-> m, origin |-> c]
  <2>1. R!MoveBy(term, n) = [term EXCEPT !.cursor = m]
    BY <1>1 DEF R!MoveBy
  <2> HIDE DEF m
  <2> QED BY <1>1, <2>1
<1>3. R!ClearBelow(term, n) = [screen |-> x, cursor |-> m, origin |-> c]
  <2>1. R!ClearBelow(term, n) = [term EXCEPT !.screen = x, !.cursor = m]
    BY <1>1 DEF R!ClearBelow
  <2> HIDE DEF m, x
  <2> QED BY <1>1, <2>1
<1> HIDE DEF m, x
<1> QED BY <1>2, <1>3 DEF IsTerm

LEMMA HeightRows == ASSUME RenderTypes PROVE height \in Nat \ {0} /\ R!Rows = 0..(height - 1)
  BY FrontEndsAssumption DEF RenderTypes, R!Rows

LEMMA ClampedRow ==
  ASSUME RenderTypes, NEW n \in Int
  PROVE  R!Clamp(n) \in R!Rows /\ (n \in R!Rows => R!Clamp(n) = n)
  BY HeightRows DEF R!Clamp, R!Larger, R!Smaller

LEMMA LineIs ==
  ASSUME NEW lines \in Seq(AllLines), NEW i \in Nat
  PROVE  /\ i < Len(lines) => R!LineOf(lines, i) \in AllLines /\ R!LineOf(lines, i) # Blank
         /\ i >= Len(lines) => R!LineOf(lines, i) = Blank
<1>1. Len(lines) \in Nat
  OBVIOUS
<1>2. ASSUME i < Len(lines) PROVE lines[i + 1] \in AllLines
  BY <1>1, <1>2, ElementOfSeq
<1> QED BY <1>1, <1>2, FrontEndsAssumption DEF R!LineOf, AllLines

\* What WriteLines leaves, its lines as a function.
IsWritten(written, term, n, line) ==
  LET scrolled == R!Larger(0, term.cursor + n - height)
  IN  written = [screen |-> [r \in R!Rows |->
                     LET k == r + scrolled - term.cursor
                     IN  IF k \in 0..(n - 1) THEN line[k]
                         ELSE IF r + scrolled \in R!Rows THEN term.screen[r + scrolled]
                         ELSE Blank],
                 cursor |-> R!Clamp(term.cursor + R!Larger(0, n - 1)),
                 origin |-> term.origin - scrolled]

\* All of the lines, in rows that are blank from the cursor on.
LEMMA FullWritten ==
  ASSUME RenderTypes, NEW lines \in Seq(AllLines), NEW term,
         term = [screen |-> term.screen, cursor |-> term.cursor, origin |-> term.cursor],
         term.cursor \in R!Rows,
         NEW line, \A k \in 0..(Len(lines) - 1) : line[k] = lines[k + 1],
         NEW written, IsWritten(written, term, Len(lines), line)
  PROVE  /\ written.cursor \in R!Rows /\ written.origin \in Int
         /\ written.cursor = written.origin + R!Larger(0, Len(lines) - 1)
         /\ lines # <<>> => written.origin + Len(lines) - 1 \in R!Rows
         /\ written.origin + R!Larger(0, Len(lines) - height) >= 0
         /\ (\A r \in R!Rows : r >= term.cursor => term.screen[r] = Blank) =>
              \A r \in R!Rows : r >= written.origin =>
                written.screen[r] = R!LineOf(lines, r - written.origin)
<1> DEFINE c == term.cursor
           n == Len(lines)
           s == R!Larger(0, c + n - height)
<1>1. n \in Nat /\ c \in Nat /\ c < height /\ height \in Nat /\ term.origin = c
  BY HeightRows
<1>2. /\ written.cursor = R!Clamp(c + R!Larger(0, n - 1))
      /\ written.origin = c - s
      /\ written.screen = [r \in R!Rows |->
                     LET k == r + s - c
                     IN  IF k \in 0..(n - 1) THEN line[k]
                         ELSE IF r + s \in R!Rows THEN term.screen[r + s]
                         ELSE Blank]
  BY <1>1 DEF IsWritten
<1>3. s \in Nat /\ (s = 0 \/ s = c + n - height) /\ s >= c + n - height
  BY <1>1 DEF R!Larger
<1>4. n = 0 <=> lines = <<>>
  BY EmptySeq
<1>5. ASSUME \A r \in R!Rows : r >= c => term.screen[r] = Blank,
             NEW r \in R!Rows, r >= written.origin
      PROVE  written.screen[r] = R!LineOf(lines, r - written.origin)
  <2> DEFINE k == r + s - c
  <2>1. k \in Nat /\ r - written.origin = k /\ r \in Nat
    BY <1>1, <1>2, <1>3, <1>5, HeightRows
  <2>2. CASE k < n
    BY <2>1, <2>2, <1>2, <1>1 DEF R!LineOf
  <2>3. CASE k >= n
    <3>1. R!LineOf(lines, k) = Blank
      BY <2>1, <2>3, <1>1 DEF R!LineOf
    <3>2. written.screen[r] = IF r + s \in R!Rows THEN term.screen[r + s] ELSE Blank
      BY <2>1, <2>3, <1>2, <1>1
    <3>3. r + s >= c
      BY <2>1, <1>1, <1>3
    <3> QED BY <3>1, <3>2, <3>3, <2>1, <1>5
  <2> QED BY <2>1, <2>2, <2>3, <1>1
<1>6. written.cursor \in R!Rows /\ written.origin \in Int
  BY <1>1, <1>2, <1>3, ClampedRow DEF R!Larger
<1>7. written.cursor = written.origin + R!Larger(0, n - 1)
  <2>1. CASE n = 0
    <3>1. s = 0 /\ R!Larger(0, n - 1) = 0
      BY <2>1, <1>1, <1>3 DEF R!Larger
    <3> QED BY <3>1, <1>1, <1>2, HeightRows, ClampedRow
  <2>2. CASE n # 0
    <3>1. R!Larger(0, n - 1) = n - 1
      BY <2>2, <1>1 DEF R!Larger
    <3>2. CASE c + n - height <= 0
      <4>1. s = 0 /\ c + (n - 1) \in R!Rows
        BY <3>2, <2>2, <1>1, <1>3, HeightRows
      <4> QED BY <3>1, <4>1, <1>1, <1>2, ClampedRow
    <3>3. CASE c + n - height > 0
      <4>1. s = c + n - height /\ R!Clamp(c + (n - 1)) = height - 1
        BY <3>3, <2>2, <1>1, <1>3 DEF R!Clamp, R!Larger, R!Smaller
      <4>2. written.cursor = R!Clamp(c + (n - 1)) /\ written.origin = c - s
        BY <3>1, <1>2
      <4> HIDE DEF s, c, n
      <4> QED BY <3>1, <4>1, <4>2, <1>1
    <3> QED BY <3>2, <3>3, <1>1
  <2> QED BY <2>1, <2>2
<1>8. n # 0 => written.origin + n - 1 \in R!Rows
  BY <1>1, <1>2, <1>3, HeightRows DEF R!Larger
<1>9. written.origin + R!Larger(0, n - height) >= 0
  BY <1>1, <1>2, <1>3 DEF R!Larger
<1> QED BY <1>4, <1>5, <1>6, <1>7, <1>8, <1>9

LEMMA FullAgrees ==
  ASSUME RenderTypes, NEW lines \in Seq(AllLines), NEW clear \in BOOLEAN
  PROVE  LET done == R!FullRender(lines, clear)
         IN  /\ DoneTyped(done) /\ done.cleared = clear
             /\ clear \/ (\A r \in R!Rows : r >= cursor => screen[r] = Blank) =>
                  Agrees(done, lines)
             /\ done.max <= R!Larger(maxLinesRendered, Len(lines))
<1> DEFINE done == R!FullRender(lines, clear)
           term == IF clear THEN R!ClearedTerm ELSE R!TermFromHere
           Line(k) == lines[k + 1]
           written == R!WriteLines(term, Len(lines), Line)
<1>1. /\ done.term = written /\ done.top = R!Larger(0, Len(lines) - height)
      /\ done.row = R!Larger(0, Len(lines) - 1) /\ done.cleared = clear
      /\ done.max = R!Larger(Len(lines), IF clear THEN 0 ELSE maxLinesRendered)
  <2> DEFINE base == R!Rendered(written, R!Larger(0, Len(lines) - height),
                       R!Larger(0, Len(lines) - 1),
                       R!Larger(Len(lines), IF clear THEN 0 ELSE maxLinesRendered))
  <2>1. done = [base EXCEPT !.cleared = clear]
    BY DEF R!FullRender
  <2> HIDE DEF written, done
  <2> QED BY <2>1 DEF R!Rendered
<1>2. /\ term = [screen |-> term.screen, cursor |-> term.cursor, origin |-> term.cursor]
      /\ term.cursor \in R!Rows
      /\ clear => \A r \in R!Rows : term.screen[r] = Blank
      /\ ~clear => term.screen = screen /\ term.cursor = cursor
  BY HeightRows DEF R!ClearedTerm, R!BlankScreen, R!TermFromHere, R!Term, RenderTypes
<1> HIDE DEF term
<1>3. /\ written.cursor \in R!Rows /\ written.origin \in Int
      /\ written.cursor = written.origin + R!Larger(0, Len(lines) - 1)
      /\ lines # <<>> => written.origin + Len(lines) - 1 \in R!Rows
      /\ written.origin + R!Larger(0, Len(lines) - height) >= 0
      /\ (\A r \in R!Rows : r >= term.cursor => term.screen[r] = Blank) =>
           \A r \in R!Rows : r >= written.origin =>
             written.screen[r] = R!LineOf(lines, r - written.origin)
  <2> DEFINE line == [k \in 0..(Len(lines) - 1) |-> lines[k + 1]]
  <2>1. IsWritten(written, term, Len(lines), line)
    BY DEF IsWritten, R!WriteLines
  <2>2. \A k \in 0..(Len(lines) - 1) : line[k] = lines[k + 1]
    OBVIOUS
  <2> HIDE DEF written, line
  <2> QED BY <1>2, <2>1, <2>2, FullWritten
<1> HIDE DEF written, done
<1>4. Len(lines) \in Nat /\ height \in Nat /\ maxLinesRendered \in Nat
  BY HeightRows DEF RenderTypes
<1>t. IsTerm(written)
  BY DEF written, IsTerm, R!WriteLines
<1>5. DoneTyped(done) /\ done.max <= R!Larger(maxLinesRendered, Len(lines))
  BY <1>1, <1>3, <1>4, <1>t DEF DoneTyped, R!Larger
<1>6. ASSUME clear \/ (\A r \in R!Rows : r >= cursor => screen[r] = Blank)
      PROVE  Agrees(done, lines)
  <2>1. \A r \in R!Rows : r >= term.cursor => term.screen[r] = Blank
    BY <1>2, <1>6
  <2>2. written.origin + R!Larger(0, done.max - height) >= 0
    BY <1>1, <1>3, <1>4 DEF R!Larger
  <2> QED BY <1>1, <1>3, <2>1, <2>2 DEF Agrees
<1> QED BY <1>1, <1>5, <1>6 DEF done

(***************************************************************************)
(* The lines that changed.                                                 *)
(***************************************************************************)
LEMMA LeastExists ==
  ASSUME NEW N \in SUBSET Nat, N # {}
  PROVE  \E x \in N : \A y \in N : x <= y
  <1> DEFINE R0 == OpToRel(<, Nat)
  <1>1. PICK x \in N : \A y \in N : <<y, x>> \notin R0
    <2>1. IsWellFoundedOn(R0, Nat)
      BY NatLessThanWellFounded
    <2> HIDE DEF R0
    <2> QED BY <2>1, WFMin
  <1>2. \A y \in N : ~(y < x)
    BY <1>1 DEF OpToRel
  <1> QED BY <1>2

LEMMA GreatestExists ==
  ASSUME NEW b \in Nat, NEW N \in SUBSET (0..b), N # {}
  PROVE  \E x \in N : \A y \in N : x >= y
  <1> DEFINE Up == { n \in Nat : \A y \in N : y <= n }
  <1>1. PICK x \in Up : \A y \in Up : x <= y
    <2> Up \in SUBSET Nat /\ b \in Up
      OBVIOUS
    <2> HIDE DEF Up
    <2> QED BY LeastExists
  <1>2. x \in N
    <2>1. SUFFICES ASSUME x \notin N PROVE FALSE
      OBVIOUS
    <2>2. /\ x \in Nat /\ \A y \in N : y <= x /\ y # x /\ y \in Nat
          /\ x # 0 /\ \A y \in N : y <= x - 1
      <3>1. x \in Nat /\ \A y \in N : y <= x /\ y # x /\ y \in Nat
        BY <1>1, <2>1
      <3>2. PICK y \in N : TRUE
        OBVIOUS
      <3> QED BY <3>1, <3>2
    <2>3. x - 1 \in Up
      BY <1>1, <2>2
    <2> QED BY <1>1, <2>3
  <1> QED BY <1>1, <1>2

LEMMA ChangedIs ==
  ASSUME RenderTypes, NEW lines \in Seq(AllLines), NEW i \in Nat
  PROVE  i \in R!Changed(lines) <=> R!LineOf(lines, i) # R!LineOf(previousLines, i)
<1>1. Len(lines) \in Nat /\ Len(previousLines) \in Nat /\ previousLines \in Seq(AllLines)
  BY DEF RenderTypes
<1>2. CASE i < R!Larger(Len(lines), Len(previousLines))
  BY <1>1, <1>2 DEF R!Changed, R!Larger
<1>3. CASE ~(i < R!Larger(Len(lines), Len(previousLines)))
  <2>1. i >= Len(lines) /\ i >= Len(previousLines)
    BY <1>1, <1>3 DEF R!Larger
  <2>2. R!LineOf(lines, i) = Blank /\ R!LineOf(previousLines, i) = Blank
    BY <2>1, <1>1, LineIs
  <2>3. i \notin R!Changed(lines)
    BY <1>1, <1>3 DEF R!Changed, R!Larger
  <2> QED BY <2>2, <2>3
<1> QED BY <1>2, <1>3

\* The first and the last of them; where there are more lines than there were, or
\* fewer, the last is the last of the longer ones.
LEMMA FirstAndLast ==
  ASSUME RenderTypes, NEW lines \in Seq(AllLines), R!Changed(lines) # {}
  PROVE  LET first == R!Min(R!Changed(lines))
             last == R!Max(R!Changed(lines))
         IN  /\ first \in Nat /\ last \in Nat /\ first \in R!Changed(lines) /\ first <= last
             /\ \A i \in Nat : i < first \/ i > last =>
                  R!LineOf(lines, i) = R!LineOf(previousLines, i)
             /\ last < R!Larger(Len(lines), Len(previousLines))
             /\ Len(lines) # Len(previousLines) =>
                  last = R!Larger(Len(lines), Len(previousLines)) - 1
<1> DEFINE touched == R!Changed(lines)
           b == R!Larger(Len(lines), Len(previousLines)) - 1
           first == R!Min(touched)
           last == R!Max(touched)
<1>1. Len(lines) \in Nat /\ Len(previousLines) \in Nat /\ previousLines \in Seq(AllLines)
  BY DEF RenderTypes
<1>2. b + 1 \in Nat /\ touched \subseteq 0..b /\ b \in Nat
  BY <1>1 DEF R!Larger, R!Changed
<1>3. first \in touched /\ \A y \in touched : first <= y
  <2> HIDE DEF touched
  <2>1. \E x \in touched : \A y \in touched : x <= y
    BY <1>2, LeastExists DEF touched
  <2> QED BY <2>1 DEF R!Min
<1>4. last \in touched /\ \A y \in touched : last >= y
  <2> HIDE DEF touched
  <2>1. \E x \in touched : \A y \in touched : x >= y
    BY <1>2, GreatestExists DEF touched
  <2> QED BY <2>1 DEF R!Max
<1>5. first \in Nat /\ last \in Nat /\ last <= b /\ first <= last
  BY <1>2, <1>3, <1>4
<1>6. ASSUME NEW i \in Nat, i < first \/ i > last
      PROVE  R!LineOf(lines, i) = R!LineOf(previousLines, i)
  <2>1. i \notin touched
    BY <1>3, <1>4, <1>5, <1>6
  <2> QED BY <2>1, ChangedIs
<1>7. ASSUME Len(lines) # Len(previousLines)
      PROVE  b \in touched
  <2>1. R!LineOf(lines, b) # R!LineOf(previousLines, b)
    <3>1. CASE Len(lines) > Len(previousLines)
      <4>1. b = Len(lines) - 1
        BY <3>1, <1>1 DEF R!Larger
      <4> HIDE DEF b
      <4>2. R!LineOf(lines, b) # Blank /\ R!LineOf(previousLines, b) = Blank
        BY <3>1, <4>1, <1>1, <1>2, LineIs
      <4> QED BY <4>2
    <3>2. CASE Len(previousLines) > Len(lines)
      <4>1. b = Len(previousLines) - 1
        BY <3>2, <1>1 DEF R!Larger
      <4> HIDE DEF b
      <4>2. R!LineOf(lines, b) = Blank /\ R!LineOf(previousLines, b) # Blank
        BY <3>2, <4>1, <1>1, <1>2, LineIs
      <4> QED BY <4>2
    <3> QED BY <3>1, <3>2, <1>1, <1>7
  <2> HIDE DEF b
  <2> QED BY <2>1, <1>2, ChangedIs
<1>8. Len(lines) # Len(previousLines) => last = b
  BY <1>4, <1>5, <1>7, <1>2
<1>9. last < R!Larger(Len(lines), Len(previousLines))
  <2>1. R!Larger(Len(lines), Len(previousLines)) \in Nat
    BY <1>1 DEF R!Larger
  <2> HIDE DEF last
  <2> QED BY <2>1, <1>5
<1> HIDE DEF first, last
<1> QED BY <1>3, <1>5, <1>6, <1>8, <1>9 DEF first, last

(***************************************************************************)
(* The other ways to render, from where they begin: whatever is so, what   *)
(* they leave is of its type, and if the terminal agreed it still does.    *)
(***************************************************************************)
Agreed == Agrees(R!NothingToWrite, previousLines)

LEMMA AgreedIs ==
  Agreed <=> /\ cursor = origin + hardwareCursorRow
             /\ \A r \in R!Rows : r >= origin =>
                  screen[r] = R!LineOf(previousLines, r - origin)
             /\ previousLines # <<>> => origin + Len(previousLines) - 1 \in R!Rows
             /\ origin + previousViewportTop >= 0
             /\ origin + R!Larger(0, maxLinesRendered - height) >= 0
BY DEF Agreed, Agrees, R!NothingToWrite, R!Rendered, R!Term

LEMMA NothingAgrees ==
  ASSUME RenderTypes, NEW lines \in Seq(AllLines), R!Changed(lines) = {}
  PROVE  /\ DoneTyped(R!NothingToWrite)
         /\ ~R!NothingToWrite.cleared
         /\ Agreed => Agrees(R!NothingToWrite, lines)
         /\ R!NothingToWrite.max = maxLinesRendered
<1>1. DoneTyped(R!NothingToWrite) /\ ~R!NothingToWrite.cleared
      /\ R!NothingToWrite.max = maxLinesRendered
  BY DEF DoneTyped, IsTerm, R!NothingToWrite, R!Rendered, R!Term, RenderTypes
<1>2. \A i \in Nat : R!LineOf(lines, i) = R!LineOf(previousLines, i)
  BY ChangedIs
<1>3. Len(lines) = Len(previousLines)
  <2>1. Len(lines) \in Nat /\ Len(previousLines) \in Nat /\ previousLines \in Seq(AllLines)
    BY DEF RenderTypes
  <2>2. ~(Len(lines) < Len(previousLines))
    BY <1>2, <2>1, LineIs
  <2>3. ~(Len(previousLines) < Len(lines))
    BY <1>2, <2>1, LineIs
  <2> QED BY <2>1, <2>2, <2>3
<1>4. lines # <<>> <=> previousLines # <<>>
  BY <1>3, EmptySeq DEF RenderTypes
<1>5. ASSUME Agreed PROVE Agrees(R!NothingToWrite, lines)
  <2>1. R!NothingToWrite.term.origin = origin
    BY DEF R!NothingToWrite, R!Rendered, R!Term
  <2>2. ASSUME NEW r \in R!Rows, r >= origin
        PROVE  R!LineOf(previousLines, r - origin) = R!LineOf(lines, r - origin)
    <3>1. r - origin \in Nat
      BY <2>2, HeightRows DEF RenderTypes
    <3> QED BY <3>1, <1>2
  <2> QED BY <1>3, <1>4, <1>5, <2>1, <2>2 DEF Agreed, Agrees
<1> QED BY <1>1, <1>5

\* A row down as often as there are lines too many.
LEMMA DeleteAgrees ==
  ASSUME RenderTypes, NEW lines \in Seq(AllLines), R!Changed(lines) # {},
         R!OnlyDeleted(lines), R!InReach(lines)
  PROVE  LET done == R!DeleteLines(lines)
         IN  /\ DoneTyped(done) /\ ~done.cleared /\ done.max = maxLinesRendered
             /\ Agreed /\ lines # <<>> => Agrees(done, lines)
<1> DEFINE end == R!Larger(0, Len(lines) - 1)
           extra == R!ExtraLines(lines)
           first == R!Min(R!Changed(lines))
           there == R!MoveBy(R!Term, end - hardwareCursorRow)
           clear == R!ClearBelow(there, extra)
           done == R!DeleteLines(lines)
<1>1. /\ Len(lines) \in Nat /\ Len(previousLines) \in Nat /\ height \in Nat \ {0}
      /\ hardwareCursorRow \in Nat /\ cursor \in Nat /\ origin \in Int
      /\ maxLinesRendered \in Nat /\ previousViewportTop \in Nat
      /\ R!Rows = 0..(height - 1)
  BY HeightRows DEF RenderTypes
<1>2. /\ first \in Nat /\ first >= Len(lines) /\ first < Len(previousLines)
      /\ \A i \in Nat : i < first =>
           R!LineOf(lines, i) = R!LineOf(previousLines, i)
      /\ end >= previousViewportTop /\ extra <= height
  BY <1>1, FirstAndLast DEF R!OnlyDeleted, R!InReach, R!Larger
<1>3. extra = Len(previousLines) - Len(lines) /\ extra \in Nat \ {0}
  BY <1>1, <1>2 DEF R!ExtraLines
<1>4. /\ there.screen = screen /\ there.origin = origin
      /\ there.cursor = R!Clamp(cursor + (end - hardwareCursorRow))
      /\ end \in Nat
  BY <1>1 DEF R!MoveBy, R!Term, R!Larger
<1>5. /\ clear.origin = origin /\ clear.cursor = R!Clamp(there.cursor + extra)
      /\ clear.screen = [r \in R!Rows |-> IF \E k \in 1..extra :
                                             r = R!Clamp(there.cursor + k)
                                          THEN Blank ELSE screen[r]]
  <2> HIDE DEF there, extra
  <2>1. /\ clear.origin = there.origin /\ clear.cursor = R!Clamp(there.cursor + extra)
        /\ clear.screen = [r \in R!Rows |-> IF \E k \in 1..extra :
                                             r = R!Clamp(there.cursor + k)
                                          THEN Blank ELSE there.screen[r]]
    <3>1. there = [screen |-> there.screen, cursor |-> there.cursor,
                   origin |-> there.origin]
      BY DEF there, R!MoveBy, R!Term
    <3> QED BY <3>1 DEF R!ClearBelow
  <2> QED BY <2>1, <1>4
<1>6. /\ done.term.screen = clear.screen /\ done.term.origin = clear.origin
      /\ done.term.cursor = R!Clamp(clear.cursor - extra)
      /\ done.top = previousViewportTop /\ done.row = end /\ done.max = maxLinesRendered
      /\ done.cleared = FALSE
  <2>1. \E a, b, c : there = [screen |-> a, cursor |-> b, origin |-> c]
    <3>1. there = [screen |-> screen, cursor |-> R!Clamp(cursor + (end - hardwareCursorRow)),
                   origin |-> origin]
      BY DEF R!MoveBy, R!Term
    <3> HIDE DEF there
    <3> QED BY <3>1
  <2>2. done = R!Rendered(R!MoveBy(clear, -extra), previousViewportTop, end, maxLinesRendered)
    BY Zenon DEF R!DeleteLines
  <2> HIDE DEF there
  <2>3. /\ R!MoveBy(clear, -extra).screen = clear.screen
        /\ R!MoveBy(clear, -extra).origin = clear.origin
        /\ R!MoveBy(clear, -extra).cursor = R!Clamp(clear.cursor + (-extra))
    BY <2>1 DEF R!MoveBy, R!ClearBelow
  <2> HIDE DEF clear, done
  <2>4. clear.cursor + (-extra) = clear.cursor - extra
    <3>1. clear.cursor \in Int
      BY <1>1, <1>3, <1>4, <1>5, ClampedRow
    <3> QED BY <3>1, <1>3
  <2> QED BY <2>2, <2>3, <2>4 DEF R!Rendered
<1>t. IsTerm(done.term)
  <2>1. IsTerm(R!Term)
    BY DEF IsTerm, R!Term
  <2>2. IsTerm(clear)
    <3>1. IsTerm(there)
      BY <2>1, StaysTerm
    <3> HIDE DEF there, extra
    <3> QED BY <3>1, StaysTerm
  <2>3. done = R!Rendered(R!MoveBy(clear, -extra), previousViewportTop, end, maxLinesRendered)
    BY Zenon DEF R!DeleteLines
  <2> HIDE DEF clear, done, extra
  <2>4. IsTerm(R!MoveBy(clear, -extra))
    BY <2>2, StaysTerm
  <2> QED BY <2>3, <2>4 DEF R!Rendered
<1> HIDE DEF there, clear, done, first
<1>7. DoneTyped(done)
  <2>1. there.cursor \in R!Rows
    BY <1>1, <1>4, ClampedRow
  <2>2. clear.cursor \in R!Rows
    BY <2>1, <1>1, <1>3, <1>5, ClampedRow
  <2>3. done.term.cursor \in R!Rows
    BY <2>2, <1>1, <1>3, <1>6, ClampedRow
  <2> QED BY <2>3, <1>1, <1>4, <1>5, <1>6, <1>t DEF DoneTyped
<1>8. ASSUME Agreed, lines # <<>> PROVE Agrees(done, lines)
  <2>1. /\ cursor = origin + hardwareCursorRow
        /\ \A r \in R!Rows : r >= origin =>
             screen[r] = R!LineOf(previousLines, r - origin)
        /\ previousLines # <<>> => origin + Len(previousLines) - 1 \in R!Rows
        /\ origin + previousViewportTop >= 0
        /\ origin + R!Larger(0, maxLinesRendered - height) >= 0
    BY <1>8, AgreedIs
  <2>2. end = Len(lines) - 1 /\ previousLines # <<>>
    BY <1>1, <1>2, <1>8, EmptySeq DEF R!Larger
  <2> HIDE DEF end, extra
  <2>3. origin + end \in R!Rows /\ origin + end + extra \in R!Rows
    BY <1>1, <1>2, <1>3, <2>1, <2>2
  <2>4. there.cursor = origin + end
    <3>1. cursor + (end - hardwareCursorRow) = origin + end
      BY <1>1, <1>4, <2>1
    <3> QED BY <3>1, <2>3, <1>4, <1>1, ClampedRow
  <2>5. clear.cursor = origin + end + extra
    BY <2>4, <2>3, <1>5, <1>1, <1>3, <1>4, ClampedRow
  <2>6. done.term.cursor = done.term.origin + done.row
    <3>1. clear.cursor - extra = origin + end
      BY <2>5, <1>1, <1>3, <1>4
    <3> QED BY <3>1, <2>3, <1>5, <1>6, <1>1, <1>4, ClampedRow
  <2>7. ASSUME NEW r \in R!Rows, r >= origin
        PROVE  clear.screen[r] = R!LineOf(lines, r - origin)
    <3> DEFINE i == r - origin
    <3>1. i \in Nat /\ r \in Int /\ r = origin + i
      BY <1>1, <2>7
    <3>2. CASE i < first
      <4>1. \A k \in 1..extra : there.cursor + k \in R!Rows
        BY <2>3, <2>4, <1>1, <1>3, <1>4
      <4>2. \A k \in 1..extra : R!Clamp(there.cursor + k) = there.cursor + k
        <5>1. \A k \in 1..extra : there.cursor + k \in Int
          BY <2>4, <1>1, <1>4
        <5> QED BY <4>1, <5>1, ClampedRow
      <4>3. CASE i < Len(lines)
        <5>1. \A k \in 1..extra : r # there.cursor + k
          BY <4>3, <2>2, <2>4, <3>1, <1>1, <1>3
        <5>2. clear.screen[r] = screen[r]
          BY <4>2, <5>1, <1>5
        <5> QED BY <5>2, <3>1, <3>2, <2>1, <2>7, <1>2
      <4>4. CASE i >= Len(lines)
        <5>1. R!LineOf(lines, i) = Blank
          BY <4>4, <3>1, LineIs
        <5>2. R!LineOf(previousLines, i) = Blank
          BY <5>1, <3>1, <3>2, <1>2
        <5>3. screen[r] = Blank
          BY <5>2, <2>1, <2>7
        <5> QED BY <5>1, <5>3, <1>5
      <4> QED BY <4>3, <4>4, <1>1, <3>1
    <3>3. CASE i >= first
      <4>1. R!LineOf(lines, i) = Blank
        BY <3>1, <3>3, <1>1, <1>2, LineIs
      <4>2. CASE i < Len(previousLines)
        <5> DEFINE k == i - end
        <5>1. k \in 1..extra /\ there.cursor + k = r
          BY <4>2, <3>1, <3>3, <2>2, <2>4, <1>1, <1>2, <1>3, <1>4
        <5>2. r = R!Clamp(there.cursor + k)
          BY <5>1, <2>7, <3>1, ClampedRow
        <5>3. clear.screen[r] = Blank
          BY <5>1, <5>2, <1>5
        <5> QED BY <4>1, <5>3
      <4>3. CASE i >= Len(previousLines)
        <5>1. R!LineOf(previousLines, i) = Blank
          BY <4>3, <3>1, LineIs DEF RenderTypes
        <5>2. screen[r] = Blank
          BY <5>1, <2>1, <2>7
        <5> QED BY <4>1, <5>2, <1>5
      <4> QED BY <4>2, <4>3, <1>1, <3>1
    <3> QED BY <3>2, <3>3, <3>1, <1>2
  <2>8. done.term.origin + Len(lines) - 1 \in R!Rows
    BY <2>2, <2>3, <1>1, <1>4, <1>5, <1>6
  <2> QED BY <2>1, <2>6, <2>7, <2>8, <1>5, <1>6 DEF Agrees
<1> QED BY <1>6, <1>7, <1>8 DEF done

\* From the first line that changed, or the one before what is appended, to the last
\* that is left, and on over the rows of those that are not.
LEMMA DifferentialAgrees ==
  ASSUME RenderTypes, NEW lines \in Seq(AllLines), R!Changed(lines) # {},
         ~R!OnlyDeleted(lines), R!InReach(lines), previousLines # <<>>
  PROVE  LET done == R!Differential(lines)
         IN  /\ DoneTyped(done) /\ ~done.cleared
             /\ done.max = R!Larger(maxLinesRendered, Len(lines))
             /\ Agreed => Agrees(done, lines)
<1> DEFINE first == R!Min(R!Changed(lines))
           last == R!Max(R!Changed(lines))
           old == Len(previousLines)
           new == Len(lines)
           renderEnd == R!Smaller(last, new - 1)
           extra == R!Larger(0, R!ExtraLines(lines))
           from == IF first = old THEN first - 1 ELSE first
           atFirst == R!MoveBy(R!Term, from - hardwareCursorRow)
           Line(k) == IF from + k < first THEN screen[atFirst.cursor]
                                          ELSE R!LineOf(lines, from + k)
           n == renderEnd + 1 + extra - from
           written == R!WriteLines(atFirst, n, Line)
           line == [k \in 0..(n - 1) |-> Line(k)]
           done == R!Differential(lines)
<1>1. /\ new \in Nat /\ old \in Nat \ {0} /\ height \in Nat \ {0}
      /\ hardwareCursorRow \in Nat /\ cursor \in Nat /\ origin \in Int
      /\ maxLinesRendered \in Nat /\ previousViewportTop \in Nat
      /\ R!Rows = 0..(height - 1)
  BY HeightRows, EmptySeq DEF RenderTypes
<1>2. /\ first \in Nat /\ last \in Nat /\ first < new /\ first <= last
      /\ \A i \in Nat : i < first \/ i > last =>
           R!LineOf(lines, i) = R!LineOf(previousLines, i)
      /\ last < R!Larger(new, old)
      /\ new # old => last = R!Larger(new, old) - 1
      /\ first >= previousViewportTop
  <2>1. first < new /\ first >= previousViewportTop /\ first \in Nat
    BY <1>1, FirstAndLast DEF R!OnlyDeleted, R!InReach
  <2> QED BY <2>1, FirstAndLast
<1> HIDE DEF first, last
<1>3. /\ extra = IF old > new THEN old - new ELSE 0
      /\ renderEnd = IF last > new - 1 THEN new - 1 ELSE last
      /\ extra \in Nat /\ renderEnd \in Nat /\ renderEnd < new /\ renderEnd >= first
      /\ renderEnd + extra >= last
      /\ new > old => renderEnd = new - 1
      /\ new < old => renderEnd = new - 1
      /\ new = old => renderEnd = last
      /\ first <= old
  <2>1. first <= old
    <3>1. SUFFICES ASSUME old < first PROVE FALSE
      BY <1>1, <1>2
    <3>2. R!LineOf(lines, old) = R!LineOf(previousLines, old)
      BY <3>1, <1>1, <1>2
    <3>3. R!LineOf(previousLines, old) = Blank
      BY <1>1 DEF R!LineOf
    <3>4. R!LineOf(lines, old) # Blank
      BY <3>1, <1>1, <1>2, LineIs
    <3> QED BY <3>2, <3>3, <3>4
  <2>2. R!ExtraLines(lines) = old - new
    BY DEF R!ExtraLines
  <2> HIDE DEF old, new
  <2>3. extra = IF old > new THEN old - new ELSE 0
    BY <1>1, <2>2 DEF R!Larger
  <2>4. renderEnd = IF last > new - 1 THEN new - 1 ELSE last
    BY <1>1, <1>2 DEF R!Smaller
  <2>5. /\ last < IF new > old THEN new ELSE old
        /\ new # old => last = (IF new > old THEN new ELSE old) - 1
    BY <1>2 DEF R!Larger
  <2> HIDE DEF extra, renderEnd
  <2> QED BY <1>1, <1>2, <2>1, <2>3, <2>4, <2>5
<1>4. /\ from \in Nat /\ from <= first /\ n \in Nat \ {0} /\ from < old
      /\ from = first \/ (from = first - 1 /\ first = old)
  <2> HIDE DEF old, new, extra, renderEnd
  <2>1. /\ from \in Nat /\ from <= first /\ from < old
        /\ from = first \/ (from = first - 1 /\ first = old)
    BY <1>1, <1>2, <1>3
  <2> HIDE DEF from
  <2> QED BY <1>1, <1>2, <1>3, <2>1
<1>5. /\ atFirst.screen = screen /\ atFirst.origin = origin
      /\ atFirst.cursor = R!Clamp(cursor + (from - hardwareCursorRow))
      /\ atFirst.cursor \in R!Rows
  BY <1>1, <1>4, ClampedRow DEF R!MoveBy, R!Term
<1> DEFINE s == R!Larger(0, atFirst.cursor + n - height)
<1>6. /\ written.origin = origin - s
      /\ written.cursor = R!Clamp(atFirst.cursor + R!Larger(0, n - 1))
      /\ written.screen = [r \in R!Rows |->
                     LET k == r + s - atFirst.cursor
                     IN  IF k \in 0..(n - 1) THEN line[k]
                         ELSE IF r + s \in R!Rows THEN screen[r + s]
                         ELSE Blank]
  <2>1. IsWritten(written, atFirst, n, line)
    BY DEF IsWritten, R!WriteLines
  <2> HIDE DEF written, line, atFirst, n
  <2> QED BY <2>1, <1>5 DEF IsWritten
<1>7. /\ done.term.screen = written.screen /\ done.term.origin = written.origin
      /\ done.term.cursor = R!Clamp(written.cursor - extra)
      /\ done.top = R!Larger(previousViewportTop, renderEnd - height + 1)
      /\ done.row = renderEnd
      /\ done.max = R!Larger(maxLinesRendered, Len(lines))
      /\ done.cleared = FALSE
  <2>1. written = [screen |-> written.screen, cursor |-> written.cursor,
                   origin |-> written.origin]
    <3>1. IsWritten(written, atFirst, n, line)
      BY DEF IsWritten, R!WriteLines
    <3> HIDE DEF written, line, atFirst, n
    <3> QED BY <3>1 DEF IsWritten
  <2>2. done = R!Rendered(R!MoveBy(written, -extra),
                 R!Larger(previousViewportTop, renderEnd - height + 1), renderEnd,
                 R!Larger(maxLinesRendered, Len(lines)))
    BY DEF R!Differential, first, last
  <2>3. written.cursor \in Int
    <3> HIDE DEF written, atFirst, n, s
    <3> QED BY <1>1, <1>4, <1>5, <1>6, ClampedRow DEF R!Larger
  <2> HIDE DEF written, done, extra, renderEnd
  <2>4. R!MoveBy(written, -extra) = [screen |-> written.screen, origin |-> written.origin,
                                   cursor |-> R!Clamp(written.cursor + (-extra))]
    BY <2>1 DEF R!MoveBy
  <2>5. written.cursor + (-extra) = written.cursor - extra
    BY <2>3, <1>3
  <2> QED BY <2>2, <2>4, <2>5 DEF R!Rendered
<1>t. IsTerm(done.term)
  <2>1. IsTerm(written)
    BY DEF IsTerm, R!WriteLines
  <2>2. done.term = R!MoveBy(written, -extra)
    <3>1. done = R!Rendered(R!MoveBy(written, -extra),
                 R!Larger(previousViewportTop, renderEnd - height + 1), renderEnd,
                 R!Larger(maxLinesRendered, Len(lines)))
      BY DEF R!Differential, first, last
    <3> HIDE DEF written, done, extra, renderEnd
    <3> QED BY <3>1 DEF R!Rendered
  <2> HIDE DEF written, done, extra
  <2> QED BY <2>1, <2>2 DEF IsTerm, R!MoveBy
<1>8. \A k \in 0..(n - 1) : line[k] = Line(k)
  <2> HIDE DEF n
  <2> QED OBVIOUS
<1> HIDE DEF done, written, line, atFirst, extra, renderEnd, from, n, s, old, new
<1> DEFINE c == atFirst.cursor
<1>9. /\ s \in Int /\ s >= 0 /\ s >= c + n - height
      /\ s = 0 \/ s = c + n - height
      /\ c \in Int /\ 0 <= c /\ c < height
  BY <1>1, <1>4, <1>5 DEF s, R!Larger
\* What the numbers are to each other.
<1>N. /\ new \in Int /\ old \in Int /\ height \in Int /\ hardwareCursorRow \in Int
      /\ cursor \in Int /\ origin \in Int /\ maxLinesRendered \in Int
      /\ previousViewportTop \in Int /\ first \in Int /\ last \in Int /\ extra \in Int
      /\ renderEnd \in Int /\ from \in Int /\ n \in Int
      /\ old > 0 /\ height > 0 /\ 0 <= from /\ from <= first /\ first <= renderEnd
      /\ renderEnd < new /\ from < old /\ extra >= 0 /\ renderEnd + extra >= last
      /\ maxLinesRendered >= 0 /\ previousViewportTop >= 0
      /\ first >= previousViewportTop
  BY <1>1, <1>2, <1>3, <1>4
<1>L. n = renderEnd + 1 + extra - from
  BY DEF n
<1>R. \A x \in Int : x \in R!Rows <=> 0 <= x /\ x < height
  BY <1>1
<1>C. \A x \in Int : R!Clamp(x) \in R!Rows /\ (x \in R!Rows => R!Clamp(x) = x)
  BY ClampedRow
<1>M. R!Larger(0, n - 1) = n - 1
  BY <1>N, <1>L DEF R!Larger
<1>W. /\ written.origin = origin - s /\ written.cursor = R!Clamp(c + (n - 1))
      /\ written.origin \in Int
  BY <1>6, <1>M, <1>N, <1>9
<1>D. /\ done.term.screen = written.screen /\ done.term.origin = written.origin
      /\ done.term.cursor = R!Clamp(written.cursor - extra)
      /\ done.row = renderEnd /\ done.cleared = FALSE
      /\ done.top = R!Larger(previousViewportTop, renderEnd - height + 1)
      /\ done.max = R!Larger(maxLinesRendered, new)
  BY <1>7 DEF new
<1>T. /\ done.top \in Int /\ done.top >= previousViewportTop
      /\ done.top >= renderEnd - height + 1
      /\ done.max \in Int /\ done.max >= maxLinesRendered /\ done.max >= new
  BY <1>D, <1>N DEF R!Larger
<1>10. DoneTyped(done)
  <2>1. c + (n - 1) \in Int
    BY <1>N, <1>9
  <2>2. written.cursor \in R!Rows /\ written.cursor \in Int
    BY <2>1, <1>W, <1>C, <1>1
  <2>3. done.term.cursor \in R!Rows
    BY <2>2, <1>D, <1>C, <1>N
  <2>4. done.top \in Nat /\ done.row \in Nat /\ done.max \in Nat
    BY <1>D, <1>N, <1>T
  <2> QED BY <2>3, <2>4, <1>D, <1>W, <1>t DEF DoneTyped
<1>11. ASSUME Agreed PROVE Agrees(done, lines)
  <2>1. /\ cursor = origin + hardwareCursorRow
        /\ \A r \in R!Rows : r >= origin =>
             screen[r] = R!LineOf(previousLines, r - origin)
        /\ origin + old - 1 \in R!Rows
        /\ origin + previousViewportTop >= 0
        /\ origin + R!Larger(0, maxLinesRendered - height) >= 0
    BY <1>11, AgreedIs DEF old
  <2>a. 0 <= origin + old - 1 /\ origin + old - 1 < height
    <3>1. origin + old - 1 \in Int
      BY <1>N
    <3> QED BY <3>1, <2>1, <1>R
  <2>2. origin + from \in R!Rows /\ c = origin + from
    <3>1. origin + from \in Int /\ 0 <= origin + from /\ origin + from < height
      <4>1. origin + first >= 0
        BY <2>1, <1>N
      <4>2. CASE from = first
        BY <4>1, <4>2, <2>a, <1>N
      <4>3. CASE from = first - 1 /\ first = old
        BY <4>3, <2>a, <1>N
      <4> QED BY <4>2, <4>3, <1>4
    <3>2. cursor + (from - hardwareCursorRow) = origin + from
      BY <1>N, <2>1
    <3> QED BY <3>1, <3>2, <1>C, <1>R, <1>5
  <2>3. c + n = origin + renderEnd + 1 + extra
    BY <2>2, <1>N, <1>L
  <2>4. new < old => extra = old - new /\ renderEnd = new - 1 /\ s = 0
    <3>1. new < old => extra = old - new /\ renderEnd = new - 1
      BY <1>1, <1>3
    <3> QED BY <3>1, <2>3, <2>a, <1>N, <1>9
  <2>5. new >= old => extra = 0
    BY <1>1, <1>3
  <2>6. s # 0 => new > old /\ renderEnd = new - 1 /\ extra = 0
    <3>1. new > old => renderEnd = new - 1
      BY <1>1, <1>3
    <3> HIDE DEF c
    <3>2. new = old => s = 0
      BY <2>3, <2>5, <2>a, <1>N, <1>9
    <3> QED BY <3>1, <3>2, <2>4, <2>5, <1>N
  <2> HIDE DEF c
  <2>7. written.cursor = written.origin + renderEnd + extra /\ written.cursor \in R!Rows
    <3>2. c + (n - 1) = origin + renderEnd + extra /\ c + (n - 1) \in Int
      BY <2>3, <1>N, <1>9
    <3>3. CASE s = 0
      <4>1. c + (n - 1) \in R!Rows
        <5>1. 0 <= c + (n - 1) /\ c + (n - 1) < height
          BY <3>3, <1>N, <1>9, <1>L
        <5> QED BY <5>1, <3>2, <1>R
      <4>2. written.cursor = c + (n - 1)
        BY <4>1, <3>2, <1>C, <1>W
      <4> QED BY <4>1, <4>2, <3>2, <3>3, <1>N, <1>W
    <3>4. CASE s # 0
      <4>1. c + n > height
        BY <3>4, <1>9, <1>N
      <4>2. R!Clamp(c + (n - 1)) = height - 1
        BY <4>1, <1>N, <1>9 DEF R!Clamp, R!Larger, R!Smaller
      <4>3. s = origin + renderEnd + 1 + extra - height
        BY <3>4, <1>9, <2>3, <1>N
      <4>4. height - 1 \in R!Rows
        BY <1>N, <1>R
      <4> QED BY <4>2, <4>3, <4>4, <1>N, <1>W
    <3> QED BY <3>3, <3>4
  <2>8. written.origin + renderEnd \in R!Rows
    <3>1. 0 <= written.cursor /\ written.cursor < height /\ written.cursor \in Int
      BY <2>7, <1>1
    <3>2. written.origin + renderEnd < height /\ written.origin + renderEnd \in Int
      BY <3>1, <2>7, <1>N, <1>W
    <3>3. 0 <= written.origin + renderEnd
      <4>1. CASE new < old
        <5>1. origin + first >= 0
          BY <2>1, <1>N
        <5> QED BY <4>1, <5>1, <2>4, <1>N, <1>W
      <4>2. CASE new >= old
        BY <4>2, <3>1, <2>5, <2>7, <1>N, <1>W
      <4> QED BY <4>1, <4>2, <1>N
    <3> QED BY <3>2, <3>3, <1>R
  <2>9. done.term.cursor = done.term.origin + done.row
    <3>1. written.cursor - extra = written.origin + renderEnd
      BY <2>7, <1>N, <1>W
    <3> QED BY <3>1, <2>8, <1>D, <1>C, <1>W, <1>N
  <2>10. written.origin + new - 1 \in R!Rows
    <3>1. 0 <= written.origin + renderEnd /\ written.origin + renderEnd < height
      BY <2>8, <1>R, <1>W, <1>N
    <3>2. written.origin + new - 1 < height
      <4>1. CASE s # 0
        BY <4>1, <3>1, <2>6, <1>N, <1>W
      <4>2. CASE s = 0 /\ new <= old
        BY <4>2, <2>a, <1>N, <1>W
      <4>3. CASE new > old
        <5>1. renderEnd = new - 1
          BY <4>3, <1>1, <1>3
        <5> QED BY <5>1, <3>1, <1>N, <1>W
      <4> QED BY <4>1, <4>2, <4>3, <1>N
    <3> QED BY <3>1, <3>2, <1>R, <1>W, <1>N
  <2>11. written.origin + done.top >= 0
    <3>1. CASE s = 0
      BY <3>1, <2>1, <1>T, <1>N, <1>W
    <3>2. CASE s # 0
      BY <3>2, <2>3, <2>6, <1>9, <1>T, <1>N, <1>W
    <3> QED BY <3>1, <3>2
  <2>12. written.origin + R!Larger(0, done.max - height) >= 0
    <3> DEFINE over == R!Larger(0, done.max - height)
               before == R!Larger(0, maxLinesRendered - height)
    <3>1. over \in Int /\ before \in Int /\ over >= before /\ over >= new - height
      BY <1>T, <1>N DEF R!Larger
    <3> HIDE DEF over, before
    <3>2. CASE s = 0
      BY <3>1, <3>2, <2>1, <1>N, <1>W DEF before, over
    <3>3. CASE s # 0
      BY <3>1, <3>3, <2>3, <2>6, <1>9, <1>N, <1>W DEF over
    <3> QED BY <3>2, <3>3
  <2>13. ASSUME NEW r \in R!Rows, r >= written.origin
         PROVE  written.screen[r] = R!LineOf(lines, r - written.origin)
    <3> DEFINE i == r - written.origin
               k == r + s - c
    <3>1. /\ i \in Int /\ i >= 0 /\ k \in Int /\ i = from + k /\ r \in Int
          /\ 0 <= r /\ r < height /\ r + s = origin + i
      <4>1. r \in Int /\ 0 <= r /\ r < height
        BY <2>13, <1>1
      <4> QED BY <4>1, <2>2, <2>13, <1>N, <1>9, <1>W
    <3>i. i \in Nat
      BY <3>1
    <3>2. written.screen[r] = IF k \in 0..(n - 1) THEN line[k]
                              ELSE IF r + s \in R!Rows THEN screen[r + s] ELSE Blank
      BY <1>6 DEF c
    <3>3. r + s \in R!Rows => screen[r + s] = R!LineOf(previousLines, i)
      <4>1. SUFFICES ASSUME r + s \in R!Rows PROVE screen[r + s] = R!LineOf(previousLines, i)
        OBVIOUS
      <4>2. r + s >= origin /\ (r + s) - origin = i
        BY <3>1, <1>N, <1>9
      <4> QED BY <4>1, <4>2, <2>1
    <3> HIDE DEF i, k
    <3>4. CASE k \in 0..(n - 1)
      <4>1. written.screen[r] = IF from + k < first THEN screen[atFirst.cursor]
                                ELSE R!LineOf(lines, from + k)
        BY <3>2, <3>4, <1>8
      <4>2. CASE from + k < first
        <5>1. k = 0 /\ from < first
          BY <4>2, <3>1, <3>4, <1>4, <1>N
        <5>2. screen[atFirst.cursor] = R!LineOf(previousLines, i)
          <6>1. atFirst.cursor = r + s
            BY <5>1, <3>1, <2>2, <1>N, <1>9 DEF c
          <6> QED BY <6>1, <3>3, <1>5 DEF c
        <5>3. R!LineOf(lines, i) = R!LineOf(previousLines, i)
          BY <4>2, <3>1, <3>i, <1>2
        <5> QED BY <4>1, <4>2, <5>2, <5>3 DEF i
      <4>3. CASE ~(from + k < first)
        BY <4>1, <4>3, <3>1 DEF i
      <4> QED BY <4>2, <4>3
    <3>5. CASE k < 0
      <4>1. r + s \in R!Rows
        BY <3>1, <3>5, <2>2, <1>N, <1>9, <1>R
      <4>2. R!LineOf(lines, i) = R!LineOf(previousLines, i)
        <5>1. i < first
          BY <3>1, <3>5, <1>N
        <5> QED BY <5>1, <3>i, <1>2
      <4>3. k \notin 0..(n - 1)
        BY <3>5, <3>1, <1>N
      <4> QED BY <4>1, <4>2, <4>3, <3>2, <3>3 DEF i
    <3>6. CASE k > n - 1
      <4>1. i > last /\ i >= renderEnd + 1 + extra
        BY <3>1, <3>6, <1>N, <1>L
      <4>2. R!LineOf(lines, i) = R!LineOf(previousLines, i)
        BY <4>1, <3>i, <1>2
      <4>3. k \notin 0..(n - 1)
        BY <3>6, <3>1, <1>N
      <4>4. CASE r + s \in R!Rows
        BY <4>2, <4>3, <4>4, <3>2, <3>3 DEF i
      <4>5. CASE r + s \notin R!Rows
        <5>1. s # 0
          BY <4>5, <3>1, <1>R
        <5>2. i >= new
          BY <5>1, <4>1, <2>6, <3>1, <1>N
        <5>3. R!LineOf(lines, i) = Blank
          BY <5>2, <3>i, LineIs DEF new
        <5> QED BY <5>3, <4>3, <4>5, <3>2 DEF i
      <4> QED BY <4>4, <4>5
    <3> QED BY <3>4, <3>5, <3>6, <3>1, <1>N DEF i
  <2> QED BY <2>9, <2>10, <2>11, <2>12, <2>13, <1>D DEF Agrees, new
<1> QED BY <1>7, <1>10, <1>11 DEF done

LEMMA DoRenderAgrees ==
  ASSUME RenderInv, NEW lines \in Seq(AllLines), NEW stacked \in BOOLEAN
  PROVE  LET done == R!DoRender(lines, stacked)
         IN  /\ DoneTyped(done) /\ done.max <= R!Larger(maxLinesRendered, Len(lines))
             /\ done.cleared \/ (~astray /\ (lines # <<>> \/ previousLines = <<>>)) =>
                  Agrees(done, lines)
<1> DEFINE done == R!DoRender(lines, stacked)
           Fine(d) == /\ DoneTyped(d) /\ d.max <= R!Larger(maxLinesRendered, Len(lines))
                      /\ d.cleared \/ (~astray /\ (lines # <<>> \/ previousLines = <<>>)) =>
                           Agrees(d, lines)
<1>1. RenderTypes /\ NothingYet /\ Forced
  BY DEF RenderInv
<1>2. maxLinesRendered \in Nat /\ Len(lines) \in Nat
  BY <1>1 DEF RenderTypes
<1>3. maxLinesRendered <= R!Larger(maxLinesRendered, Len(lines))
  BY <1>2 DEF R!Larger
<1>4. ASSUME previousHeight = height, ~astray PROVE Agreed
  BY <1>4, AgreedIs DEF RenderInv, FilledInReach, R!ScreenShowsContent, R!CursorTracked,
     R!RowsShowLines, R!EndInSight, R!ReachInSight
<1>5. Fine(R!FullRender(lines, TRUE))
  BY <1>1, FullAgrees
<1>6. CASE previousLines = <<>> /\ ~R!Resized
  <2>1. ASSUME ~astray, NEW r \in R!Rows, r >= cursor PROVE screen[r] = Blank
    <3>1. CASE previousHeight = 0
      BY <3>1, <2>1, <1>1 DEF NothingYet
    <3>2. CASE previousHeight = height
      <4>1. /\ cursor = origin + hardwareCursorRow
            /\ \A q \in R!Rows : q >= origin =>
                 screen[q] = R!LineOf(previousLines, q - origin)
        BY <3>2, <2>1, <1>4, AgreedIs
      <4>2. r \in Int /\ origin \in Int /\ hardwareCursorRow \in Nat /\ cursor \in Int
        BY <1>1, <2>1, HeightRows DEF RenderTypes
      <4>3. r >= origin /\ r - origin \in Nat
        BY <4>1, <4>2, <2>1
      <4>4. R!LineOf(previousLines, r - origin) = Blank
        BY <4>3, <1>6 DEF R!LineOf
      <4> QED BY <4>1, <4>3, <4>4
    <3> QED BY <3>1, <3>2, <1>6 DEF R!Resized
  <2>2. Fine(R!FullRender(lines, FALSE))
    BY <1>1, <2>1, FullAgrees
  <2>3. done = R!FullRender(lines, FALSE)
    BY <1>6 DEF R!DoRender
  <2> HIDE DEF done
  <2> QED BY <2>2, <2>3 DEF done
<1>7. CASE ~(previousLines = <<>> /\ ~R!Resized) /\ (R!Resized \/ R!Shrunk(lines, stacked))
  <2>1. done = R!FullRender(lines, TRUE)
    BY <1>7 DEF R!DoRender
  <2> HIDE DEF done
  <2> QED BY <2>1, <1>5 DEF done
<1>8. CASE previousLines # <<>> /\ ~R!Resized /\ ~R!Shrunk(lines, stacked)
  <2>1. previousHeight = height
    BY <1>1, <1>8 DEF R!Resized, NothingYet
  <2>2. CASE R!Changed(lines) = {}
    <3>1. done = R!NothingToWrite
      BY <1>8, <2>2 DEF R!DoRender
    <3>2. Fine(R!NothingToWrite)
      BY <1>1, <1>3, <1>4, <2>1, <2>2, NothingAgrees
    <3> HIDE DEF done
    <3> QED BY <3>1, <3>2 DEF done
  <2>3. CASE R!Changed(lines) # {} /\ ~R!InReach(lines)
    <3>1. done = R!FullRender(lines, TRUE)
      BY <1>8, <2>3 DEF R!DoRender
    <3> HIDE DEF done
    <3> QED BY <3>1, <1>5 DEF done
  <2>4. CASE R!Changed(lines) # {} /\ R!InReach(lines) /\ R!OnlyDeleted(lines)
    <3>1. done = R!DeleteLines(lines)
      BY <1>8, <2>4 DEF R!DoRender
    <3>2. Fine(R!DeleteLines(lines))
      BY <1>1, <1>3, <1>4, <1>8, <2>1, <2>4, DeleteAgrees
    <3> HIDE DEF done
    <3> QED BY <3>1, <3>2 DEF done
  <2>5. CASE R!Changed(lines) # {} /\ R!InReach(lines) /\ ~R!OnlyDeleted(lines)
    <3>1. done = R!Differential(lines)
      BY <1>8, <2>5 DEF R!DoRender
    <3>2. Fine(R!Differential(lines))
      <4>1. /\ DoneTyped(R!Differential(lines)) /\ ~R!Differential(lines).cleared
            /\ R!Differential(lines).max = R!Larger(maxLinesRendered, Len(lines))
            /\ Agreed => Agrees(R!Differential(lines), lines)
        BY <1>1, <1>8, <2>5, DifferentialAgrees
      <4>2. R!Larger(maxLinesRendered, Len(lines)) <= R!Larger(maxLinesRendered, Len(lines))
        BY <1>2 DEF R!Larger
      <4> QED BY <4>1, <4>2, <1>4, <2>1
    <3> HIDE DEF done
    <3> QED BY <3>1, <3>2 DEF done
  <2> QED BY <2>2, <2>3, <2>4, <2>5
<1> QED BY <1>6, <1>7, <1>8

\* positionHardwareCursor: the cursor ends where it is believed to be, or the history
\* tells that it did not.
LEMMA LinesStep ==
  ASSUME RenderInv, NEW lines \in Seq(AllLines), NEW stacked \in BOOLEAN,
         R!RenderLines(lines, stacked), UNCHANGED height,
         \A i \in overlays' :
            /\ i \in Nat /\ i < Len(lines) /\ Len(lines) >= maxLinesRendered
            /\ i >= R!Larger(0, Len(lines) - height)
  PROVE  RenderInv'
<1> DEFINE done == R!DoRender(lines, stacked)
<1>1. PICK row \in R!CursorRows(lines) \union {done.row} :
        /\ LET term == R!MoveBy(done.term, row - done.row)
           IN  screen' = term.screen /\ cursor' = term.cursor /\ origin' = term.origin
        /\ hardwareCursorRow' = row
        /\ astray' = (\/ astray /\ ~done.cleared
                      \/ row + done.term.origin \notin R!Rows
                      \/ lines = <<>> /\ previousLines # <<>> /\ ~done.cleared)
        /\ previousLines' = lines
        /\ previousViewportTop' = done.top
        /\ maxLinesRendered' = done.max
        /\ previousHeight' = height
  BY DEF R!RenderLines
<1>2. /\ DoneTyped(done) /\ done.max <= R!Larger(maxLinesRendered, Len(lines))
      /\ done.cleared \/ (~astray /\ (lines # <<>> \/ previousLines = <<>>)) =>
           Agrees(done, lines)
  BY DoRenderAgrees
<1>R. RenderTypes
  BY DEF RenderInv
<1>3. height \in Nat \ {0} /\ R!Rows = 0..(height - 1) /\ R!Rows' = R!Rows
      /\ Len(lines) \in Nat /\ maxLinesRendered \in Nat /\ row \in Nat
  BY <1>R, <1>2, HeightRows DEF RenderTypes, R!Rows, R!CursorRows, DoneTyped, R!Larger
<1> HIDE DEF done
<1>4. /\ screen' = done.term.screen /\ origin' = done.term.origin
      /\ cursor' = R!Clamp(done.term.cursor + (row - done.row))
  BY <1>1, <1>2 DEF DoneTyped, IsTerm, R!MoveBy
<1>5. /\ done.term.cursor \in R!Rows /\ done.term.origin \in Int
      /\ done.top \in Nat /\ done.row \in Nat /\ done.max \in Nat /\ done.cleared \in BOOLEAN
  BY <1>2 DEF DoneTyped
<1>6. done.term.cursor + (row - done.row) \in Int /\ done.term.cursor \in Int
  BY <1>3, <1>5
<1>7. RenderTypes'
  <2>1. cursor' \in R!Rows'
    BY <1>R, <1>3, <1>4, <1>6, ClampedRow
  <2>2. astray' \in BOOLEAN
    BY <1>1
  <2>3. height' \in Heights /\ previousHeight' \in Heights \union {0, -1}
    BY <1>1, <1>R DEF RenderTypes
  <2> QED BY <1>1, <1>3, <1>4, <1>5, <2>1, <2>2, <2>3 DEF RenderTypes
<1>8. NothingYet' /\ Forced'
  BY <1>1, <1>3 DEF NothingYet, Forced
<1>9. ASSUME ~astray' PROVE R!ScreenShowsContent' /\ FilledInReach'
  <2>1. Agrees(done, lines) /\ row + done.term.origin \in R!Rows
    <3>1. done.cleared \/ (~astray /\ (lines # <<>> \/ previousLines = <<>>))
      BY <1>1, <1>9
    <3> QED BY <3>1, <1>1, <1>2, <1>9
  <2>2. /\ done.term.cursor = done.term.origin + done.row
        /\ \A r \in R!Rows : r >= done.term.origin =>
             done.term.screen[r] = R!LineOf(lines, r - done.term.origin)
        /\ lines # <<>> => done.term.origin + Len(lines) - 1 \in R!Rows
        /\ done.term.origin + done.top >= 0
        /\ done.term.origin + R!Larger(0, done.max - height) >= 0
    BY <2>1 DEF Agrees
  <2>3. cursor' = origin' + row
    <3>1. done.term.cursor + (row - done.row) = done.term.origin + row
      BY <2>2, <1>3, <1>5, <1>6
    <3>2. done.term.origin + row \in R!Rows
      BY <2>1, <1>3, <1>5
    <3> QED BY <3>1, <3>2, <1>R, <1>4, <1>6, ClampedRow
  <2>4. R!CursorTracked'
    BY <2>3, <1>1 DEF R!CursorTracked
  <2>5. R!RowsShowLines'
    BY <2>2, <1>1, <1>3, <1>4 DEF R!RowsShowLines, R!LineOf
  <2>6. R!EndInSight'
    BY <2>2, <1>1, <1>3, <1>4 DEF R!EndInSight
  <2>7. R!ReachInSight' /\ FilledInReach'
    BY <2>2, <1>1, <1>4 DEF R!ReachInSight, FilledInReach, R!Larger
  <2>8. ASSUME NEW i \in overlays' PROVE origin' + i \in R!Rows
    <3>1. /\ i \in Nat /\ i < Len(lines) /\ Len(lines) >= maxLinesRendered
          /\ i >= R!Larger(0, Len(lines) - height)
      BY <2>8
    <3>2. done.max <= Len(lines)
      BY <3>1, <1>2, <1>3 DEF R!Larger
    <3>3. R!Larger(0, done.max - height) <= R!Larger(0, Len(lines) - height)
      BY <3>2, <1>3, <1>5 DEF R!Larger
    <3>4. R!Larger(0, done.max - height) \in Int /\ R!Larger(0, Len(lines) - height) \in Int
      BY <1>3, <1>5 DEF R!Larger
    <3>5. done.term.origin + i >= 0
      BY <3>1, <3>3, <3>4, <2>2, <1>5
    <3>6. lines # <<>>
      BY <3>1, EmptySeq
    <3>7. done.term.origin + Len(lines) - 1 < height
      BY <3>6, <2>2, <1>3
    <3>8. done.term.origin + i < height
      BY <3>1, <3>7, <1>3, <1>5
    <3> QED BY <3>1, <3>5, <3>8, <1>3, <1>4, <1>5
  <2>9. R!OverlaysInSight'
    BY <2>8, <1>3 DEF R!OverlaysInSight
  <2> QED BY <2>4, <2>5, <2>6, <2>7, <2>9 DEF R!ScreenShowsContent
<1> QED BY <1>1, <1>7, <1>8, <1>9 DEF RenderInv, R!ScreenShowsContent

\* compositeOverlays fills the content up to what was ever rendered, and places its
\* overlay in the part of it that a screen holds.
LEMMA ContentStep ==
  ASSUME RenderInv, R!Render
  PROVE  RenderInv'
<1>1. PICK content \in R!SeqOf(Lines, MaxLines), stacked \in BOOLEAN :
        \E rows \in { {} } \union (IF stacked THEN { {row} : row \in R!Rows } ELSE {}) :
          /\ \E lines \in { IF stacked THEN R!CompositeOverlays(content, rows) ELSE content } :
               R!RenderLines(lines, stacked)
          /\ overlays' = R!OverlayIndices(content, rows)
          /\ UNCHANGED <<clearOnShrink, height>>
  BY DEF R!Render
<1>2. PICK rows \in { {} } \union (IF stacked THEN { {row} : row \in R!Rows } ELSE {}) :
        /\ \E lines \in { IF stacked THEN R!CompositeOverlays(content, rows) ELSE content } :
             R!RenderLines(lines, stacked)
        /\ overlays' = R!OverlayIndices(content, rows)
        /\ UNCHANGED <<clearOnShrink, height>>
  BY <1>1
<1>3. content \in Seq(Lines) /\ Len(content) \in Nat
  BY FrontEndsAssumption DEF R!SeqOf
<1>4. /\ height \in Nat \ {0} /\ R!Rows = 0..(height - 1) /\ maxLinesRendered \in Nat
  BY HeightRows DEF RenderInv, RenderTypes
<1> DEFINE lines == IF stacked THEN R!CompositeOverlays(content, rows) ELSE content
           H == R!WorkingHeight(content, rows)
           A == {maxLinesRendered, Len(content)} \union { row + 1 : row \in rows }
<1>5. ASSUME rows = {} \/ \E row \in R!Rows : rows = {row}
      PROVE  H \in A /\ (\A x \in A : H >= x) /\ H \in Nat
  <2>1. \E x \in A : \A y \in A : x >= y
    <3>1. CASE rows = {}
      <4>1. A = {maxLinesRendered, Len(content)}
        BY <3>1
      <4> QED BY <4>1, <1>3, <1>4
    <3>2. CASE \E row \in R!Rows : rows = {row}
      <4>1. PICK row \in R!Rows : rows = {row}
        BY <3>2
      <4>2. A = {maxLinesRendered, Len(content), row + 1} /\ row \in Nat
        BY <4>1, <1>4
      <4> HIDE DEF A
      <4> QED BY <4>2, <1>3, <1>4
    <3> QED BY <3>1, <3>2, <1>5
  <2>2. H = R!Max(A)
    BY DEF R!WorkingHeight
  <2>3. A \subseteq Nat
    BY <1>3, <1>4, <1>5
  <2> HIDE DEF A, H
  <2> QED BY <2>1, <2>2, <2>3 DEF R!Max
<1>6. rows = {} \/ (stacked /\ \E row \in R!Rows : rows = {row})
  BY <1>2
<1>7. H \in Nat /\ H >= maxLinesRendered /\ H >= Len(content)
      /\ \A row \in rows : row \in Nat /\ H >= row + 1 /\ row < height
  BY <1>5, <1>6, <1>4
<1>8. lines \in Seq(AllLines) /\ (stacked => Len(lines) = H)
  <2> HIDE DEF H
  <2>1. CASE ~stacked
    BY <2>1, <1>3 DEF AllLines
  <2>2. CASE stacked
    <3>1. \A k \in 1..H :
            (IF k - 1 \in R!OverlayIndices(content, rows) THEN OverlayLine
             ELSE IF k <= Len(content) THEN content[k] ELSE EmptyLine) \in AllLines
      BY <1>3, <1>7 DEF AllLines
    <3>2. lines = [k \in 1..H |-> IF k - 1 \in R!OverlayIndices(content, rows) THEN OverlayLine
             ELSE IF k <= Len(content) THEN content[k] ELSE EmptyLine]
      BY <2>2 DEF R!CompositeOverlays, H
    <3>3. lines \in [1..H -> AllLines]
      BY <3>1, <3>2
    <3> HIDE DEF lines
    <3> QED BY <3>3, <1>7
  <2> QED BY <2>1, <2>2
<1> HIDE DEF lines
<1>9. R!RenderLines(lines, stacked)
  BY <1>2 DEF lines
<1>10. ASSUME NEW i \in overlays'
       PROVE  /\ i \in Nat /\ i < Len(lines) /\ Len(lines) >= maxLinesRendered
              /\ i >= R!Larger(0, Len(lines) - height)
  <2>1. PICK row \in rows : i = row + R!Larger(0, H - height)
    BY <1>2 DEF R!OverlayIndices
  <2>2. Len(lines) = H
    BY <2>1, <1>6, <1>8
  <2> HIDE DEF H
  <2>3. i \in Nat /\ i < H /\ i >= R!Larger(0, H - height)
    BY <2>1, <1>4, <1>7 DEF R!Larger
  <2> QED BY <2>2, <2>3, <1>7
<1> QED BY <1>2, <1>8, <1>9, <1>10, LinesStep

\* A resize, or a terminal someone else had, leaves a terminal that is only written to
\* again after it is cleared.
LEMMA ResizeStep ==
  ASSUME RenderInv, R!Resize \/ R!ForceRender
  PROVE  RenderInv'
<1>1. CASE R!Resize
  <2>1. PICK h \in Heights :
          /\ previousHeight \in {0, height}
          /\ height' = h
          /\ h # height
          /\ screen' = [r \in 0..(h - 1) |-> IF r \in R!Rows THEN screen[r] ELSE Blank]
          /\ cursor' \in 0..(h - 1)
          /\ UNCHANGED <<R!believed, clearOnShrink, origin, overlays, astray>>
    BY <1>1 DEF R!Resize
  <2>2. /\ previousLines' = previousLines /\ maxLinesRendered' = maxLinesRendered
        /\ previousViewportTop' = previousViewportTop /\ previousHeight' = previousHeight
        /\ hardwareCursorRow' = hardwareCursorRow /\ origin' = origin /\ astray' = astray
    BY <2>1 DEF R!believed
  <2>3. R!Rows' = 0..(h - 1) /\ previousHeight' # height'
    BY <2>1, <2>2, FrontEndsAssumption DEF R!Rows
  <2>4. RenderTypes'
    BY <2>1, <2>2, <2>3 DEF RenderInv, RenderTypes
  <2>5. NothingYet' /\ Forced'
    BY <2>1, <2>2, <2>3 DEF RenderInv, NothingYet, Forced
  <2> QED BY <2>3, <2>4, <2>5 DEF RenderInv, R!ScreenShowsContent
<1>2. CASE R!ForceRender
  <2>1. height' = height /\ R!Rows' = R!Rows /\ previousHeight' = -1 /\ previousLines' = <<>>
    BY <1>2 DEF R!ForceRender, R!Rows
  <2>2. height # -1 /\ height # 0
    BY HeightRows DEF RenderInv
  <2>3. RenderTypes'
    BY <1>2, <2>1 DEF R!ForceRender, RenderInv, RenderTypes
  <2>4. NothingYet' /\ Forced'
    BY <2>1 DEF NothingYet, Forced
  <2> QED BY <2>1, <2>2, <2>3, <2>4 DEF RenderInv, R!ScreenShowsContent
<1> QED BY <1>1, <1>2

LEMMA RenderStep == RenderInv /\ [R!Next]_R!vars => RenderInv'
<1>1. ASSUME RenderInv, UNCHANGED R!vars PROVE RenderInv'
  <2>1. UNCHANGED <<previousLines, previousViewportTop, hardwareCursorRow, maxLinesRendered,
                    previousHeight, screen, cursor, origin, height, overlays, astray>>
    BY <1>1 DEF R!vars, R!believed, R!terminal
  <2> QED BY <1>1, <2>1 DEF RenderInv, RenderTypes, NothingYet, Forced, FilledInReach, R!Rows,
     R!ScreenShowsContent, R!CursorTracked, R!RowsShowLines, R!EndInSight, R!ReachInSight,
     R!OverlaysInSight, R!LineOf, R!Larger
<1> QED BY <1>1, ContentStep, ResizeStep DEF R!Next

LEMMA RenderInit == R!Init => RenderInv
<1> SUFFICES ASSUME R!Init PROVE RenderInv
  OBVIOUS
<1>1. height \in Nat \ {0} /\ height # 0 /\ R!Rows = 0..(height - 1)
  BY FrontEndsAssumption DEF R!Init, R!Rows
<1>2. RenderTypes
  <2>1. previousLines \in Seq(AllLines) /\ cursor \in R!Rows /\ origin = cursor
    BY DEF R!Init
  <2>2. origin \in Int
    BY <1>1, <2>1
  <2>3. height \in Heights /\ previousHeight \in Heights \union {0, -1}
    BY DEF R!Init
  <2>4. maxLinesRendered \in Nat /\ previousViewportTop \in Nat /\ hardwareCursorRow \in Nat
        /\ astray \in BOOLEAN
    BY DEF R!Init
  <2> QED BY <2>1, <2>2, <2>3, <2>4, Zenon DEF RenderTypes
<1>3. NothingYet /\ Forced
  BY <1>1 DEF R!Init, NothingYet, Forced, R!BlankScreen
<1> QED BY <1>1, <1>2, <1>3 DEF R!Init, RenderInv, R!ScreenShowsContent

\* However renders, resizes and overlays follow one another, what differential rendering
\* leaves on the screen is what a full redraw would leave.
THEOREM ScreenFollowsContent == Spec => []ScreenShowsContent
<1>1. RenderInv => ScreenShowsContent
  BY DEF RenderInv, ScreenShowsContent
<1> QED BY <1>1, RenderInit, RenderStep, RenderSpec, PTL DEF R!Spec
=================================================================================
