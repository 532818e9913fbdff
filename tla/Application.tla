------------------------------ MODULE Application ------------------------------
(***************************************************************************)
(* The application: ApplicationManager::run, the frame of AppFrame, the    *)
(* window procedure that can run a frame from inside a modal loop of the   *)
(* system, and the fullscreen transition during which no frame may run.    *)
(* All of it is one thread; what happens inside what is the stack.         *)
(***************************************************************************)
EXTENDS Naturals, Sequences, SequencesExt

CONSTANTS
  ScriptFails,    \* whether a callback of the scripts may fail
  MessageBound,   \* how many messages arrive from outside
  DepthBound      \* how deep calls of the window procedure nest

ASSUME ApplicationAssumption ==
  /\ ScriptFails \in BOOLEAN /\ MessageBound \in Nat
  /\ DepthBound \in Nat \ {0, 1}      \* the loop and its frame

VARIABLES
  stack,          \* what the main thread is in, outermost first
  running,        \* the local variable of run
  quit_posted,    \* whether the queue holds a WM_QUIT
  is_updating, is_update_enabled, is_delegate_update_enabled,
  win32_window_is_sizemove,
  m_window_active_changed,       \* the bits, as a set
  m_bRenderStarted, s_restart,
  window_active, script_active,  \* has the focus; the scripts were told so
  messages                       \* how many messages have arrived

gateVars  == <<is_updating, is_update_enabled, is_delegate_update_enabled>>
focusVars == <<m_window_active_changed, window_active, script_active>>
appVars   == <<stack, running, quit_posted, gateVars, win32_window_is_sizemove,
               focusVars, m_bRenderStarted, s_restart, messages>>

Doing(what, at) == [what |-> what, at |-> at, bits |-> {}, ok |-> TRUE]
Top     == Last(stack)
Is(what, at) == Top.what = what /\ Top.at = at
Goes(at)     == stack' = [stack EXCEPT ![Len(stack)].at = at]
Entered(a)   == Len(stack) < DepthBound /\ stack' = Append(stack, a)
Within(what) == \E i \in DOMAIN stack : stack[i].what = what

------------------------------------------------------------------------------
\* ApplicationManager::run.  onBeforeUpdate waits, it dispatches nothing.
runBeforeUpdate ==
  /\ Is("loop", "before") /\ Goes("messages")
  /\ UNCHANGED <<running, quit_posted, gateVars, win32_window_is_sizemove,
                 focusVars, m_bRenderStarted, s_restart, messages>>

quitIgnored == quit_posted' = FALSE /\ UNCHANGED running               \* mutant

quitTaken == quit_posted' = FALSE /\ running' = FALSE

takeQuit ==
  /\ Is("loop", "messages") /\ quit_posted
  /\ quitTaken
  /\ UNCHANGED <<stack, gateVars, win32_window_is_sizemove, focusVars,
                 m_bRenderStarted, s_restart, messages>>

\* Mutant: run does not say that it is updating.
beginUnmarked ==
  stack' = Append(stack, Doing("frame", "start")) /\ UNCHANGED is_updating

beginUpdate ==
  /\ stack' = Append(stack, Doing("frame", "start"))
  /\ is_updating' = TRUE

\* The queue is empty: the loop ends, updates, or goes round.
noMoreMessages ==
  /\ Is("loop", "messages") /\ ~ quit_posted
  /\ CASE ~ running -> Goes("ended") /\ UNCHANGED is_updating
       [] running /\ is_update_enabled /\ ~ is_updating -> beginUpdate
       [] OTHER -> Goes("before") /\ UNCHANGED is_updating
  /\ UNCHANGED <<running, quit_posted, is_update_enabled, is_delegate_update_enabled,
                 win32_window_is_sizemove, focusVars,
                 m_bRenderStarted, s_restart, messages>>

------------------------------------------------------------------------------
\* AppFrame::onUpdate.  A callback of the scripts that fails asks for the exit,
\* and the blocks of onUpdateInternal that follow are skipped.
Steps(at, ok) ==
  stack' = [stack EXCEPT ![Len(stack)] = [Top EXCEPT !.at = at, !.ok = @ /\ ok]]

Asks(exit) == quit_posted' = (quit_posted \/ exit)

frameStart ==
  /\ Is("frame", "start")
  /\ IF s_restart
     THEN Steps("checked", FALSE) /\ UNCHANGED m_window_active_changed
     ELSE /\ stack' = [stack EXCEPT ![Len(stack)] =
                         [Top EXCEPT !.at = "lose", !.bits = m_window_active_changed]]
          /\ m_window_active_changed' = {}
  /\ Asks(s_restart)
  /\ UNCHANGED <<running, gateVars, win32_window_is_sizemove, window_active,
                 script_active, m_bRenderStarted, s_restart, messages>>

\* Whether a callback returns; without a callback nothing fails.
Returns(called) == {TRUE} \cup IF called /\ ScriptFails THEN {FALSE} ELSE {}

\* FocusLoseFunc comes first, then FocusGainFunc.
frameFocus(at, next) ==
  /\ Is("frame", at)
  /\ \E ok \in Returns(at \in Top.bits) : Steps(next, ok) /\ Asks(~ ok)
  /\ script_active' = IF at \in Top.bits THEN at = "gain" ELSE script_active
  /\ UNCHANGED <<running, gateVars, win32_window_is_sizemove, window_active,
                 m_window_active_changed, m_bRenderStarted, s_restart, messages>>

\* FrameFunc, which may also ask for the end by what it returns.
frameScript ==
  /\ Is("frame", "script")
  /\ \E ok \in Returns(Top.ok), abort \in BOOLEAN :
       /\ abort => Top.ok
       /\ Steps("checked", ok) /\ Asks(~ ok \/ abort)
  /\ UNCHANGED <<running, gateVars, win32_window_is_sizemove, focusVars,
                 m_bRenderStarted, s_restart, messages>>

frameRender ==
  /\ Is("frame", "checked")
  /\ IF Top.ok /\ ~ s_restart
     THEN Steps("render", TRUE) /\ m_bRenderStarted' = TRUE
     ELSE Steps("finish", FALSE) /\ UNCHANGED m_bRenderStarted
  /\ Asks(s_restart)
  /\ UNCHANGED <<running, gateVars, win32_window_is_sizemove, focusVars,
                 s_restart, messages>>

\* RenderFunc returns.
frameRendered ==
  /\ Is("frame", "render")
  /\ \E ok \in Returns(TRUE) : Steps("finish", ok) /\ Asks(~ ok)
  /\ m_bRenderStarted' = FALSE
  /\ UNCHANGED <<running, gateVars, win32_window_is_sizemove, focusVars,
                 s_restart, messages>>

\* The end of the frame, presented if all went well: run leaves its loop or goes
\* round, runUpdate asks for the exit or not.
frameFinish ==
  /\ Is("frame", "finish")
  /\ is_updating' = FALSE
  /\ LET outer == Front(stack) IN
     IF Last(outer).what = "loop"
     THEN /\ stack' = [outer EXCEPT ![Len(outer)].at =
                         IF Top.ok THEN "before" ELSE "ended"]
          /\ running' = (running /\ Top.ok) /\ UNCHANGED quit_posted
     ELSE stack' = outer /\ Asks(~ Top.ok) /\ UNCHANGED running
  /\ UNCHANGED <<is_update_enabled, is_delegate_update_enabled, win32_window_is_sizemove,
                 focusVars, m_bRenderStarted, s_restart, messages>>

\* A callback of the scripts is running.
InScript ==
  /\ Top.what = "frame"
  /\ \/ Top.at \in {"lose", "gain"} /\ Top.at \in Top.bits
     \/ Top.at = "script" /\ Top.ok
     \/ Top.at = "render"

RestartWithCommandLineArguments ==
  /\ InScript /\ ~ s_restart /\ s_restart' = TRUE
  /\ UNCHANGED <<stack, running, quit_posted, gateVars, win32_window_is_sizemove,
                 focusVars, m_bRenderStarted, messages>>

------------------------------------------------------------------------------
\* The window procedure: called by the message loops, by the transition, and by
\* functions of the system that scripts call.
Dispatches == Is("loop", "messages") \/ Top.what \in {"modal", "fullscreen"} \/ InScript

Arrives == Dispatches /\ messages < MessageBound /\ messages' = messages + 1

WM_ACTIVATEAPP(active) ==
  /\ Arrives /\ window_active # active /\ window_active' = active
  /\ m_window_active_changed' =
       m_window_active_changed \cup {IF active THEN "gain" ELSE "lose"}
  /\ UNCHANGED <<stack, running, quit_posted, gateVars, win32_window_is_sizemove,
                 script_active, m_bRenderStarted, s_restart>>

WM_CLOSE ==
  /\ Arrives /\ quit_posted' = TRUE
  /\ UNCHANGED <<stack, running, gateVars, win32_window_is_sizemove, focusVars,
                 m_bRenderStarted, s_restart>>

\* The user moves the window or opens its menu: DefWindowProc does not return
\* before that is over, or WM_QUIT is there.
WM_ENTERSIZEMOVE ==
  /\ Arrives /\ ~ win32_window_is_sizemove /\ Entered(Doing("modal", "messages"))
  /\ win32_window_is_sizemove' = TRUE
  /\ UNCHANGED <<running, quit_posted, gateVars, focusVars, m_bRenderStarted, s_restart>>

WM_EXITSIZEMOVE ==
  /\ Top.what = "modal" /\ stack' = Front(stack)
  /\ win32_window_is_sizemove' = FALSE
  /\ UNCHANGED <<running, quit_posted, gateVars, focusVars, m_bRenderStarted,
                 s_restart, messages>>

\* WM_PAINT comes when nothing is posted; runBeforeUpdate and runUpdate.
WM_PAINT ==
  /\ Dispatches /\ win32_window_is_sizemove /\ ~ quit_posted
  /\ Len(stack) < DepthBound
  /\ is_update_enabled /\ is_delegate_update_enabled /\ ~ is_updating
  /\ beginUpdate
  /\ UNCHANGED <<running, quit_posted, is_update_enabled, is_delegate_update_enabled,
                 win32_window_is_sizemove, focusVars,
                 m_bRenderStarted, s_restart, messages>>

\* setFullscreenState of the swap chain, on Alt+Enter or for a script.
setFullscreenState ==
  /\ Arrives
  /\ Entered([Doing("fullscreen", "messages") EXCEPT !.bits =
                (IF is_update_enabled THEN {"update"} ELSE {})
                \cup (IF is_delegate_update_enabled THEN {"delegate"} ELSE {})])
  /\ is_update_enabled' = FALSE /\ is_delegate_update_enabled' = FALSE
  /\ UNCHANGED <<running, quit_posted, is_updating, win32_window_is_sizemove, focusVars,
                 m_bRenderStarted, s_restart>>

setFullscreenStateReturns ==
  /\ Top.what = "fullscreen" /\ stack' = Front(stack)
  /\ is_update_enabled' = ("update" \in Top.bits)
  /\ is_delegate_update_enabled' = ("delegate" \in Top.bits)
  /\ UNCHANGED <<running, quit_posted, is_updating, win32_window_is_sizemove, focusVars,
                 m_bRenderStarted, s_restart, messages>>

------------------------------------------------------------------------------
Ended == Is("loop", "ended")

AppInit ==
  /\ stack = <<Doing("loop", "before")>> /\ running = TRUE /\ quit_posted = FALSE
  /\ is_updating = FALSE /\ is_update_enabled = TRUE /\ is_delegate_update_enabled = TRUE
  /\ win32_window_is_sizemove = FALSE /\ m_window_active_changed = {}
  /\ m_bRenderStarted = FALSE /\ s_restart = FALSE
  /\ window_active = TRUE /\ script_active = TRUE /\ messages = 0

\* What the program and the system do by themselves.
Proceeds ==
  \/ runBeforeUpdate \/ takeQuit \/ noMoreMessages
  \/ frameStart \/ frameFocus("lose", "gain") \/ frameFocus("gain", "script")
  \/ frameScript \/ frameRender \/ frameRendered \/ frameFinish
  \/ WM_EXITSIZEMOVE \/ WM_PAINT \/ setFullscreenStateReturns

AppNext ==
  \/ Proceeds
  \/ RestartWithCommandLineArguments
  \/ \E active \in BOOLEAN : WM_ACTIVATEAPP(active)
  \/ WM_CLOSE \/ WM_ENTERSIZEMOVE \/ setFullscreenState
  \/ Ended /\ UNCHANGED appVars

\* The main thread runs, callbacks and the transition return, and the user lets
\* go of the window in the end, although frames run meanwhile.
AppFairness == WF_appVars(Proceeds) /\ SF_appVars(WM_EXITSIZEMOVE)

AppSpec == AppInit /\ [][AppNext]_appVars /\ AppFairness

------------------------------------------------------------------------------
AppTypeOK ==
  /\ \A i \in DOMAIN stack : stack[i].what \in {"loop", "modal", "fullscreen", "frame"}
  /\ Len(stack) \in 1 .. DepthBound /\ Head(stack).what = "loop"
  /\ m_window_active_changed \subseteq {"gain", "lose"}
  /\ {running, quit_posted, is_updating, is_update_enabled, is_delegate_update_enabled,
      win32_window_is_sizemove, m_bRenderStarted, s_restart,
      window_active, script_active} \subseteq BOOLEAN

\* Frames never nest, whichever modal loop, message or callback is open, and
\* none runs inside a fullscreen transition (is_updating, setFullscreenState).
OneFrame ==
  \A i, j \in DOMAIN stack :
    i < j /\ stack[j].what = "frame" => stack[i].what \notin {"frame", "fullscreen"}

\* The flags say what the thread is in, so they are right again when it has
\* left: the next frame can run, and render functions only work inside render.
FlagsAgree ==
  /\ is_updating = Within("frame")
  /\ is_update_enabled = ~ Within("fullscreen")
  /\ is_delegate_update_enabled = is_update_enabled
  /\ win32_window_is_sizemove = Within("modal")
  /\ m_bRenderStarted =
       \E i \in DOMAIN stack : stack[i].what = "frame" /\ stack[i].at = "render"

\* Scripts that were told that the focus is lost are told when it is back: a
\* gain is never lost between the window procedure and the frame.
GainReachesScript ==
  ~ script_active => ~ window_active \/ "gain" \in m_window_active_changed
                     \/ \E i \in DOMAIN stack :
                          stack[i].at \in {"lose", "gain"} /\ "gain" \in stack[i].bits

AppInv == AppTypeOK /\ OneFrame /\ FlagsAgree /\ GainReachesScript

\* Whoever asks for the end of the application gets it: the window that is
\* closed, a callback that fails, wherever the thread is at that moment.
QuitEnds == quit_posted ~> Ended
==============================================================================
