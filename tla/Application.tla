----------------------------- MODULE Application -----------------------------
(***************************************************************************)
(* An application of the engine: main starts the engine, opens a window,   *)
(* sets up input and the renderer, runs its loop, closes the renderer and  *)
(* the window and leaves by rune_exit.  Lifecycle, Input and RenderObjects *)
(* take their steps as main gets to them; workers go on meanwhile, and a   *)
(* fatal error anywhere is rune_abort, from where main is.                 *)
(*                                                                         *)
(* External: main itself, which calls in the order the headers ask for     *)
(* (init.h:28, coding-style.rst:18-30).  Drawing is FrameLoop.             *)
(***************************************************************************)
EXTENDS Lifecycle, Input, RenderObjects

VARIABLE
  place   \* how far main has come: "start", "window", "input", "loop", "done"
          \* or "fatal" when a window cannot be had

avars == <<ivars, place>>
vars == <<lvars, rvars, avars>>

Init == LInit /\ IInit /\ RInit /\ place = "start"

\* main is between rune_init and rune_exit, and nothing fatal has happened.
InApp ==
  /\ ~ Over
  /\ step[Main] = "app"
  /\ place # "fatal" /\ phase # "failed"

-----------------------------------------------------------------------------
(* main sets up and closes.                                                  *)

rune_init_window ==
  /\ InApp
  /\ place = "start"
  /\ place' \in {"window", "fatal"}
  /\ UNCHANGED <<lvars, rvars, ivars>>

InitInput ==
  /\ InApp
  /\ place = "window"
  /\ rune_input_init
  /\ place' = "input"
  /\ UNCHANGED <<lvars, rvars>>

SelectRenderer ==
  /\ InApp
  /\ place = "input"
  /\ select_render_vulkan
  /\ place' = "loop"
  /\ UNCHANGED <<lvars, ivars>>

\* The selection goes on, or the closing.
Render ==
  /\ InApp
  /\ RWork
  /\ UNCHANGED <<lvars, avars>>

Close ==
  /\ InApp
  /\ calling = "nothing"
  /\ CloseRenderer
  /\ UNCHANGED <<lvars, avars>>

rune_destroy_window ==
  /\ InApp
  /\ place = "loop" /\ phase = "closed"
  /\ place' = "done"
  /\ UNCHANGED <<lvars, rvars, ivars>>

Exit ==
  /\ place = "done"
  /\ rune_exit
  /\ UNCHANGED <<rvars, avars>>

-----------------------------------------------------------------------------
(* The loop: input.                                                          *)

InLoop == InApp /\ phase = "ready"

\* A mod's init function registers a callback, or the loop does.
Register ==
  /\ InLoop \/ (~ Over /\ step[Main] = "initing")
  /\ \E c \in Codes : register_input_callback(c)
  /\ UNCHANGED <<lvars, rvars, place>>

rune_input_tick ==
  /\ InLoop
  /\ \E key \in Keys : _key_callback(key)
  /\ UNCHANGED <<lvars, rvars, place>>

KeyDone ==
  /\ InLoop
  /\ CallbackReturns
  /\ UNCHANGED <<lvars, rvars, place>>

SetMode ==
  /\ InLoop
  /\ \E mode \in Modes : set_keyboard_mode(mode)
  /\ UNCHANGED <<lvars, rvars, place>>

Setup == rune_init_window \/ InitInput \/ SelectRenderer \/ Render
Loop == Register \/ rune_input_tick \/ KeyDone \/ SetMode
Life == LNext /\ UNCHANGED <<rvars, avars>>

Next == Setup \/ Loop \/ Close \/ rune_destroy_window \/ Exit \/ Life

Spec == Init /\ [][Next]_vars

FairSpec == Spec /\ EndingFair

-----------------------------------------------------------------------------
Places == {"start", "window", "input", "loop", "done", "fatal"}

TypeOK == LTypeOK /\ ITypeOK /\ RTypeOK /\ place \in Places
=============================================================================
