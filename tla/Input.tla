-------------------------------- MODULE Input --------------------------------
(***************************************************************************)
(* Keyboard input (ui/input.c): a table of callbacks by scancode, and the  *)
(* keyboard mode.  Whose function a callback is does not matter here.      *)
(*                                                                         *)
(* External: GLFW calls _key_callback from glfwPollEvents, with scancodes  *)
(* of Keys; those below the size of the table are Codes.                   *)
(***************************************************************************)
CONSTANTS
  Codes,   \* the scancodes in use that have an entry in the table
  Keys     \* the scancodes of the keys there are

ASSUME InputAssumption == Codes \subseteq Keys

VARIABLES
  callbacks,      \* the scancodes a callback is registered for
  keyboard_mode,
  calling         \* what main is in: "nothing", a "callback", or, "wild", what
                  \* stood behind the table

ivars == <<callbacks, keyboard_mode, calling>>

Modes == {"KB_MODE_RAW", "KB_MODE_TEXT"}

IInit ==
  /\ callbacks = {}
  /\ keyboard_mode = "KB_MODE_RAW"
  /\ calling = "nothing"

\* The table is cleared, of what init functions of mods registered too.
rune_input_init ==
  /\ keyboard_mode' = "KB_MODE_RAW"
  /\ callbacks' = {}
  /\ UNCHANGED calling

\* The condition is true of every mode: each is refused.
set_keyboard_mode(mode) ==
  /\ IF mode # "KB_MODE_RAW" \/ mode # "KB_MODE_TEXT" THEN UNCHANGED keyboard_mode
     ELSE keyboard_mode' = mode
  /\ UNCHANGED <<callbacks, calling>>

register_input_callback(c) ==
  /\ callbacks' = callbacks \cup {c}
  /\ UNCHANGED <<keyboard_mode, calling>>

\* What may be called for key; nothing looks whether it is in the table.
Entry(key) ==
  IF key \in callbacks THEN {"callback"}
  ELSE IF key \in Codes THEN {"nothing"} ELSE {"nothing", "wild"}

\* Called from rune_input_tick when key is pressed.
_key_callback(key) ==
  /\ calling = "nothing"
  /\ calling' \in Entry(key)
  /\ UNCHANGED <<callbacks, keyboard_mode>>

CallbackReturns ==
  /\ calling # "nothing"
  /\ calling' = "nothing"
  /\ UNCHANGED <<callbacks, keyboard_mode>>

ITypeOK ==
  /\ callbacks \subseteq Codes
  /\ keyboard_mode \in Modes
  /\ calling \in {"nothing", "callback", "wild"}
=============================================================================
