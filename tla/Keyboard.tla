------------------------------- MODULE Keyboard -------------------------------
(***************************************************************************)
(* Platform::Keyboard and the use AppFrame makes of it.  Key messages come *)
(* while the window has the focus; both codes that a message stands for,   *)
(* the one of the key and the one of its side, are kept as held, and each  *)
(* frame gets a copy for lstg.GetKeyState.  What happens to the keys while *)
(* another window has the focus is never told, so the state is forgotten   *)
(* whenever the focus changes.                                             *)
(*                                                                         *)
(* The history of a frame (KeyDown, KeyUp, LastKeyUp) is left out but for  *)
(* the last key pressed: nothing asks for it.                              *)
(***************************************************************************)
EXTENDS Integers, Sequences

CONSTANTS
  Keys,         \* of the keyboard, out of DOMAIN VirtualKey
  QueueBound    \* bound of the model on the messages under way

VARIABLES
  held, active,       \* the user: keys held down, the window has the focus
  messages,           \* of the window, in order
  KeyState, LastKeyDown,   \* of g_Keyboard
  g_KeyboardState,    \* what scripts see
  noticed                \* history: keys whose press was handled after the last reset

keyVars == <<held, active, messages, KeyState, LastKeyDown, g_KeyboardState, noticed>>

\* wParam of the messages of a key
VirtualKey == [A |-> "A", Enter |-> "RETURN", NumEnter |-> "RETURN",
               LShift |-> "SHIFT", RShift |-> "SHIFT",
               LCtrl |-> "CONTROL", RCtrl |-> "CONTROL"]

\* Windows marks neither shift as an extended key.
IsExtendedKey(k) == k \in {"NumEnter", "RCtrl"}

ASSUME KeyboardAssumption == Keys \subseteq DOMAIN VirtualKey /\ QueueBound \in Nat \ {0}

\* The code of the side.
Translated(k) ==
  CASE VirtualKey[k] = "RETURN"  -> IF IsExtendedKey(k) THEN "NUMPADENTER" ELSE "RETURN"
    [] VirtualKey[k] = "SHIFT"   -> IF IsExtendedKey(k) THEN "RSHIFT" ELSE "LSHIFT"
    [] VirtualKey[k] = "CONTROL" -> IF IsExtendedKey(k) THEN "RCONTROL" ELSE "LCONTROL"
    [] OTHER                     -> VirtualKey[k]

NoKeys == [state |-> {}, last |-> "None"]

KeyboardInit ==
  /\ held = {} /\ active = FALSE /\ messages = <<>>
  /\ KeyState = {} /\ LastKeyDown = "None"
  /\ g_KeyboardState = NoKeys /\ noticed = {}

------------------------------------------------------------------------------
(* The user and Windows.                                                     *)

Post(kind, k) ==
  IF active THEN messages' = Append(messages, [kind |-> kind, key |-> k])
  ELSE UNCHANGED messages

unhandled == <<KeyState, LastKeyDown, g_KeyboardState>>

\* A key is pressed, or repeats itself.
Press(k) ==
  /\ Len(messages) < QueueBound
  /\ held' = held \cup {k} /\ Post("down", k)
  /\ UNCHANGED <<active, noticed, unhandled>>

\* Of two shifts, Windows does not tell that the first is released.
Release(k) ==
  /\ k \in held /\ Len(messages) < QueueBound
  /\ held' = held \ {k} /\ noticed' = noticed \ {k}
  /\ IF VirtualKey[k] = "SHIFT" /\ \E s \in held' : VirtualKey[s] = "SHIFT"
     THEN UNCHANGED messages ELSE Post("up", k)
  /\ UNCHANGED <<active, unhandled>>

SwitchWindow ==
  /\ Len(messages) < QueueBound
  /\ active' = ~ active
  /\ messages' = Append(messages, [kind |-> "activate", key |-> "None"])
  /\ UNCHANGED <<held, noticed, unhandled>>

------------------------------------------------------------------------------
(* The engine.                                                               *)

ShiftsCleared(state) == state \ {"RSHIFT", "LSHIFT"}

ResetFrameOnly ==                                                    \* mutant
  /\ LastKeyDown' = "None" /\ UNCHANGED <<KeyState, noticed>>

\* Reset
ResetKeyboard ==
  /\ KeyState' = {} /\ LastKeyDown' = "None" /\ noticed' = {}

\* onNativeWindowMessage and ProcessMessage.
ProcessMessage ==
  /\ messages # <<>> /\ messages' = Tail(messages)
  /\ LET m == Head(messages) IN
       \/ /\ m.kind = "activate" /\ ResetKeyboard
       \/ /\ m.kind = "down"
          /\ KeyState' = KeyState \cup {VirtualKey[m.key], Translated(m.key)}
          /\ LastKeyDown' = Translated(m.key)
          /\ noticed' = noticed \cup ({m.key} \cap held)
       \/ /\ m.kind = "up"
          /\ KeyState' = (IF VirtualKey[m.key] = "SHIFT" THEN ShiftsCleared(KeyState) ELSE KeyState)
                         \ {VirtualKey[m.key], Translated(m.key)}
          /\ UNCHANGED <<LastKeyDown, noticed>>
  /\ UNCHANGED <<held, active, g_KeyboardState>>

\* OpenInput, for a new window: messages of the old one are gone.
OpenInput ==
  /\ ResetKeyboard /\ messages' = <<>>
  /\ UNCHANGED <<held, active, g_KeyboardState>>

\* Once a frame.
UpdateInput ==
  /\ g_KeyboardState' = [state |-> KeyState, last |-> LastKeyDown]
  /\ LastKeyDown' = "None"
  /\ UNCHANGED <<held, active, messages, KeyState, noticed>>

\* The user interface of the debugger has the keyboard.
ResetKeyboardInput ==
  /\ g_KeyboardState' = NoKeys
  /\ UNCHANGED <<held, active, messages, KeyState, LastKeyDown, noticed>>

KeyboardNext ==
  \/ \E k \in Keys : Press(k) \/ Release(k)
  \/ SwitchWindow \/ ProcessMessage
  \/ OpenInput \/ UpdateInput \/ ResetKeyboardInput

KeyboardSpec == KeyboardInit /\ [][KeyboardNext]_keyVars

------------------------------------------------------------------------------
\* What may be shown because a key is held: one message may stand for both
\* shifts.
MayShow(k) ==
  {VirtualKey[k], Translated(k)}
    \cup (IF VirtualKey[k] = "SHIFT" THEN {"LSHIFT", "RSHIFT"} ELSE {})

\* Another key that is released takes the code away: the main enter key has no
\* code of its own.
Shares(k) == \E o \in Keys \ {k} : VirtualKey[o] = Translated(k)

\* Once all messages are handled, no key is stuck, whatever the user did with it
\* while another window had the focus, and none that was pressed in this one is
\* missing (ProcessMessage, Reset).
KeyboardInv ==
  messages = <<>> =>
    /\ \A c \in KeyState : active /\ \E k \in held : c \in MayShow(k)
    /\ \A k \in noticed : Shares(k) \/ Translated(k) \in KeyState
=============================================================================
