---------------------------- MODULE MCFrontEnds ----------------------------
(***************************************************************************)
(* What stands between the agent and its user, as TLC checks it: what is    *)
(* typed in a terminal, what it does to a prompt, what is drawn, or a       *)
(* program that talks to the agent's process.  They share nothing: one of   *)
(* them is explored at a time.                                             *)
(***************************************************************************)
EXTENDS Integers

CONSTANTS MaxKeys, Lines, EmptyLine, OverlayLine, Blank, Heights, MaxLines, MaxRenders,
          MaxHistory, MaxPrefix, MaxChanges,
          MaxRequests, MaxStarts, MaxDialogs, MaxWaiters, MaxStops

\* A row that was never written looks like no line: every line ends in a reset.
ASSUME FrontEndsAssumption ==
  /\ Blank \notin Lines \union {EmptyLine, OverlayLine}
  /\ Heights \subseteq Nat \ {0} /\ MaxLines \in Nat

VARIABLES part,  \* which of them is explored
          typed, wire, buffer, pasteMode, pasteBuffer, timeout, emitted, dropped, torn,
          previousLines, previousViewportTop, hardwareCursorRow, maxLinesRendered,
          previousHeight, clearOnShrink, screen, cursor, origin, height, overlays, astray,
          renders,
          state, undoStack, killRing, lastAction, history, historyIndex, changes,
          process, reading, requests, pendingRequests, eventListeners, waiters, stops, starts,
          alive, stdin, stdout, commands, sessions, session, subscriptions,
          unsubscribe, running,
          pendingExtensionRequests, dialogs, shutdownRequested, closing, stranded

inputVars == <<typed, wire, buffer, pasteMode, pasteBuffer, timeout, emitted, dropped, torn>>
renderVars ==
  <<previousLines, previousViewportTop, hardwareCursorRow, maxLinesRendered, previousHeight,
    clearOnShrink, screen, cursor, origin, height, overlays, astray, renders>>
editorVars == <<state, undoStack, killRing, lastAction, history, historyIndex, changes>>
rpcVars ==
  <<process, reading, requests, pendingRequests, eventListeners, waiters, stops, starts, alive,
    stdin, stdout, commands, sessions, session, subscriptions,
    unsubscribe, running,
    pendingExtensionRequests, dialogs, shutdownRequested, closing, stranded>>
vars == <<part, inputVars, renderVars, editorVars, rpcVars>>

Key(text) == [paste |-> FALSE, text |-> text]
Paste(text) == [paste |-> TRUE, text |-> text]
\* A letter, Escape, a mouse report that holds an escape, and a paste of what looks
\* like the beginning of a paste.
Keys ==
  { Key(<<"x">>), Key(<<"esc">>), Key(<<"esc", "[", "M", "x", "1", "esc">>),
    Paste(<<"esc", "[", "1", "S">>) }

\* What is typed, and put in, in an editor that holds two prompts and two kills.
Letters == {"a", "b"}
Blanks == {" "}
Typed == {"a", " "}
Texts == { <<<<"b">>>>, <<<<"a">>, <<"b">>>> }
KilledBefore == { << <<<<"b">>, <<"a">>>>, <<<<"a", "b">>>> >> }
PromptsBefore == { << <<<<"a">>, <<"b">>>>, <<<<"b", " ", "a">>>> >> }

I == INSTANCE StdinBuffer
E == INSTANCE Editor
R == INSTANCE TuiRender
C == INSTANCE Rpc

Init == part \in {"input", "editor", "render", "rpc"}
        /\ I!Init /\ E!Init /\ R!Init /\ C!Init
        /\ (part # "render" => height = 2 /\ ~clearOnShrink /\ cursor = 0)
Next ==
  /\ \/ part = "input" /\ I!Next /\ UNCHANGED <<editorVars, renderVars, rpcVars>>
     \/ part = "editor" /\ E!Next /\ UNCHANGED <<inputVars, renderVars, rpcVars>>
     \/ part = "render" /\ R!Next /\ UNCHANGED <<inputVars, editorVars, rpcVars>>
     \/ part = "rpc" /\ C!Next /\ UNCHANGED <<inputVars, editorVars, renderVars>>
  /\ UNCHANGED part
Spec == Init /\ [][Next]_vars

\* The properties of the modules, whose comments say what they mean.
TypesOK == I!TypeOK /\ E!TypeOK /\ R!TypeOK /\ C!TypeOK
InputArrives == I!KeysArriveWhole /\ I!InputKept
UndoLeadsBack == E!UndoLeadsBack
\* Editor's ImplementsBuffer, looked at where the editor takes a step.
ImplementsBuffer ==
  /\ E!Buffer!Init
  /\ [][part = "editor" => E!Buffer!Next \/ UNCHANGED E!Buffer!vars]_vars
ScreenShowsContent == R!ScreenShowsContent
PendingIsOpen == C!PendingIsOpen
OneSubscription == C!OneSubscription
=============================================================================
