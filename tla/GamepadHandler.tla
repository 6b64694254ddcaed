---------------------------- MODULE GamepadHandler ----------------------------
(***************************************************************************)
(* gamepad_bluetooth_handle_data of pico_bluetooth.c, which compares each  *)
(* button with what it last took it for, takes the first that differs and  *)
(* returns; and the three who write the buttons and call it: the callbacks *)
(* of a guitar or, while none is connected, of a Liberlive (uni_bt_le.c),  *)
(* and the parser of MIDI bytes (main.c), in the main loop for the UART    *)
(* and on core 1 for USB.                                                  *)
(*                                                                         *)
(* finished_processing is read, cleared and set again in steps that others *)
(* can get between: a callback anywhere in the main loop, core 1 anywhere. *)
(* Buttons are written in one step.  What a button does is left to the     *)
(* other modules.  FretsToo, HandleUnlatched, TestSkipped and LeaveBusy  *)
(* are defects that the properties detect.                                 *)
(***************************************************************************)
EXTENDS Naturals, Sequences

CONSTANTS
  Contexts,   \* who calls the handler
  Buttons     \* the buttons at hand, by the names of their latches

Frets == {"green", "red", "yellow", "blue", "orange"}

\* The order in which the handler looks for a button that changed.
Order == <<"pitch", "song_key", "start", "up", "logo", "starpower", "menu", "config",
           "joystick_up", "joystick_down", "logo_knob_up", "logo_knob_down",
           "right", "left">>

ASSUME ContextsAssumption == Contexts \subseteq {"bluetooth", "uart", "usb"}
ASSUME ButtonsAssumption ==
  Buttons \subseteq Frets \cup {Order[i] : i \in 1 .. Len(Order)}

Edges == Buttons \ Frets
None  == "none"

\* What a guitar reports of a button held down: the directions of the pad are
\* masked and not shifted.  MIDI and the Liberlive write 1.
Held(b) == CASE b = "left" -> 2 [] b = "up" -> 4 [] b = "starpower" -> 8 [] OTHER -> 1
Levels  == {0, 1, 2, 4, 8}

VARIABLES
  guitar,               \* the buttons held down on the guitar that is connected
  gamepad_guitar_connected,
  but,                  \* but0 to but9, dpad_, mbut, joy_ and knob_
  latch,                \* what the handler last took them for: green to left
  finished_processing,
  ll_have_fired,        \* the paddle of the Liberlive was handled
  phase, edge, seen,    \* where each context is, the button it handles, its value
  fresh,                \* history: buttons with what was written, to them or to
                        \* their latches, and not handled
  struck                \* history: strums handled in this motion of the paddle

environment == <<guitar, gamepad_guitar_connected>>
calls       == <<phase, edge, seen, finished_processing>>
vars        == <<environment, but, latch, ll_have_fired, calls, fresh, struck>>

Released == [b \in Buttons |-> 0]

Init ==
  /\ guitar = Released /\ gamepad_guitar_connected = FALSE
  /\ but = Released /\ latch = Released
  /\ finished_processing = TRUE /\ ll_have_fired = FALSE
  /\ phase = [c \in Contexts |-> "idle"]
  /\ edge = [c \in Contexts |-> None]
  /\ seen = [c \in Contexts |-> 0]
  /\ fresh = {} /\ struck = {}

\* The main loop stands while a callback runs.
CanRun(c) == c = "uart" /\ "bluetooth" \in Contexts => phase["bluetooth"] = "idle"
CanBegin(c) == c \in Contexts /\ phase[c] = "idle" /\ CanRun(c)

-----------------------------------------------------------------------------
(* Who writes the buttons                                                  *)

\* The buttons become b and the latches l.
Write(b, l) ==
  /\ but' = b
  /\ latch' = l
  /\ fresh' = fresh \cup {<<e, b[e]>> : e \in {e \in Edges : b[e] # 0 /\ (b[e] # but[e] \/ l[e] # latch[e])}}

Put(f, S, value) == [b \in Buttons |-> IF b \in S THEN value ELSE f[b]]

Call(c) ==
  /\ phase' = [phase EXCEPT ![c] = "called"]
  /\ UNCHANGED <<edge, seen, finished_processing>>

\* A finger of the guitarist.
Touch(b) ==
  /\ gamepad_guitar_connected
  /\ guitar' = [guitar EXCEPT ![b] = IF @ = 0 THEN Held(b) ELSE 0]
  /\ UNCHANGED <<gamepad_guitar_connected, but, latch, ll_have_fired, calls, fresh, struck>>

\* What is held down on a guitar that is not connected does not matter.
DeviceConnected ==
  /\ CanBegin("bluetooth") /\ ~gamepad_guitar_connected
  /\ gamepad_guitar_connected' = TRUE
  /\ guitar' \in {g \in [Buttons -> Levels] : \A b \in Buttons : g[b] \in {0, Held(b)}}
  /\ struck' = {}
  /\ UNCHANGED <<but, latch, ll_have_fired, calls, fresh>>

DeviceDisconnected ==
  /\ CanBegin("bluetooth") /\ gamepad_guitar_connected
  /\ gamepad_guitar_connected' = FALSE
  /\ guitar' = Released
  /\ UNCHANGED <<but, latch, ll_have_fired, calls, fresh, struck>>

ControllerData ==
  /\ CanBegin("bluetooth") /\ gamepad_guitar_connected
  /\ Write(guitar, latch)
  /\ Call("bluetooth")
  /\ UNCHANGED <<environment, ll_have_fired, struck>>

\* Pads with notes 0x60 to 0x77: some are a style section or a mute with its
\* frets, the others only release the buttons.
Pad(c, pressed) ==
  LET pads == (Frets \cup {"pitch", "starpower"}) \cap Buttons IN
  /\ c # "bluetooth" /\ CanBegin(c)
  /\ pressed \subseteq pads
  /\ Write(Put(Put(but, pads, 0), pressed, 1), Put(latch, pads, 0))
  /\ \/ pressed \cap {"pitch", "starpower"} # {} /\ Call(c)
     \/ pressed = {} /\ UNCHANGED calls
  /\ UNCHANGED <<environment, ll_have_fired, struck>>

\* Transport buttons of a Launchkey, which release the frets but orange, or the
\* data button of an iRig.
ControlButton(c, b, launchkey) ==
  LET released == IF launchkey THEN Frets ELSE {} IN
  /\ c # "bluetooth" /\ CanBegin(c)
  /\ b \in {"logo", "joystick_up", "starpower"} \cap Buttons
  /\ Write(Put(Put(but, released, 0), {b} \cup (released \cap {"orange"}), 1),
           Put(latch, {b} \cup released, 0))
  /\ Call(c)
  /\ UNCHANGED <<environment, ll_have_fired, struck>>

Played == {"pitch", "logo", "starpower", "joystick_up", "joystick_down", "right", "left"}

\* Each notification of a Liberlive releases every button and presses those it
\* tells of: the frets of a chord and, with the paddle away from neutral, what it
\* plays.  The handler is called for the first of a motion of the paddle.
Paddle(pressed, away) ==
  /\ CanBegin("bluetooth") /\ ~gamepad_guitar_connected
  /\ pressed \subseteq Buttons \cap (Frets \cup Played)
  /\ \A a, b \in pressed \ Frets : a = b
  /\ pressed \cap {"joystick_up", "joystick_down"} # {} => pressed \cap Frets = {}
  /\ "starpower" \in pressed => pressed \cap Frets \subseteq {"orange"}
  /\ pressed \subseteq Frets \/ away
  /\ Write(Put(Released, pressed, 1), Put(latch, pressed, 0))
  /\ ll_have_fired' = (ll_have_fired \/ away)
  /\ \/ away /\ ~ll_have_fired /\ Call("bluetooth")
     \/ (away => ll_have_fired) /\ UNCHANGED calls
  /\ UNCHANGED <<environment, struck>>

PaddleNeutral ==
  /\ CanBegin("bluetooth") /\ ~gamepad_guitar_connected
  /\ ll_have_fired /\ ll_have_fired' = FALSE
  /\ Write(Released, Put(Put(latch, Frets, 0), {"left"}, 1))
  /\ Call("bluetooth")
  /\ struck' = {}
  /\ UNCHANGED environment

-----------------------------------------------------------------------------
(* gamepad_bluetooth_handle_data                                           *)

Goes(c, from, to) ==
  /\ phase[c] = from /\ CanRun(c)
  /\ phase' = [phase EXCEPT ![c] = to]

TestSkipped(c) ==
  /\ Goes(c, "called", "tested")
  /\ UNCHANGED <<environment, but, latch, ll_have_fired, finished_processing, edge, seen, fresh, struck>>

\* if (!finished_processing) return
Test(c) ==
  /\ Goes(c, "called", IF finished_processing THEN "tested" ELSE "idle")
  /\ UNCHANGED <<environment, but, latch, ll_have_fired, finished_processing, edge, seen, fresh, struck>>

Enter(c) ==
  /\ Goes(c, "tested", "inside")
  /\ finished_processing' = FALSE
  /\ UNCHANGED <<environment, but, latch, ll_have_fired, edge, seen, fresh, struck>>

Changed == {b \in Edges : but[b] # latch[b]}
Rank(b) == CHOOSE i \in 1 .. Len(Order) : Order[i] = b

FretsToo == {b \in Buttons : but[b] # latch[b]}
\* The button the handler takes, if one changed.
First == {b \in Changed : \A x \in Changed : Rank(b) <= Rank(x)}

\* The frets are copied; a button that changed is found, if any.
Scan(c) ==
  /\ phase[c] = "inside"
  /\ \/ \E b \in First :
          /\ Goes(c, "inside", "handling")
          /\ edge' = [edge EXCEPT ![c] = b]
          /\ seen' = [seen EXCEPT ![c] = but[b]]
     \/ First = {} /\ Goes(c, "inside", "leaving") /\ UNCHANGED <<edge, seen>>
  /\ latch' = [b \in Buttons |-> IF b \in Frets THEN but[b] ELSE latch[b]]
  /\ UNCHANGED <<environment, but, ll_have_fired, finished_processing, fresh, struck>>

Done(c) ==
  /\ Goes(c, "handling", "leaving")
  /\ edge' = [edge EXCEPT ![c] = None]
  /\ seen' = [seen EXCEPT ![c] = 0]

HandleUnlatched(c) ==
  /\ Done(c)
  /\ fresh' = fresh \ {<<edge[c], seen[c]>>}
  /\ UNCHANGED <<environment, but, latch, ll_have_fired, finished_processing, struck>>

\* The button is read again, or kept in a register, and handled as pressed or
\* released.
Handle(c) ==
  LET b == edge[c] IN
  /\ Done(c)
  /\ \E value \in {seen[c], but[b]} :
       /\ latch' = [latch EXCEPT ![b] = value]
       /\ fresh' = fresh \ {<<b, value>>}
       /\ struck' = IF value # 0 /\ b \in {"right", "left"} /\ ~gamepad_guitar_connected
                    THEN struck \cup {b} ELSE struck
  /\ UNCHANGED <<environment, but, ll_have_fired, finished_processing>>

LeaveBusy(c) ==
  /\ Goes(c, "leaving", "idle")
  /\ UNCHANGED <<environment, but, latch, ll_have_fired, finished_processing, edge, seen, fresh, struck>>

\* Every return sets finished_processing.
Leave(c) ==
  /\ Goes(c, "leaving", "idle")
  /\ finished_processing' = TRUE
  /\ UNCHANGED <<environment, but, latch, ll_have_fired, edge, seen, fresh, struck>>

HandleData(c) == Test(c) \/ Enter(c) \/ Scan(c) \/ Handle(c) \/ Leave(c)

-----------------------------------------------------------------------------
Inputs ==
  \/ \E b \in Buttons : Touch(b)
  \/ DeviceConnected \/ DeviceDisconnected \/ ControllerData
  \/ \E c \in Contexts, pressed \in SUBSET Buttons : Pad(c, pressed)
  \/ \E c \in Contexts, b \in Buttons, launchkey \in BOOLEAN : ControlButton(c, b, launchkey)
  \/ \E pressed \in SUBSET Buttons, away \in BOOLEAN : Paddle(pressed, away)
  \/ PaddleNeutral

Next == Inputs \/ \E c \in Contexts : HandleData(c)

\* A guitar keeps reporting, callbacks return, and core 1 goes on; callbacks keep
\* the main loop from running now and then, but not for ever.
Fairness ==
  /\ WF_vars(ControllerData)
  /\ \A c \in Contexts \ {"uart"} : WF_vars(HandleData(c))
  /\ "uart" \in Contexts => SF_vars(HandleData("uart"))

Spec == Init /\ [][Next]_vars /\ Fairness

-----------------------------------------------------------------------------
(* Properties                                                              *)

\* Every variable keeps its type; no context handles a fret, which is copied.
TypeOK ==
  /\ guitar \in [Buttons -> Levels]
  /\ gamepad_guitar_connected \in BOOLEAN
  /\ but \in [Buttons -> Levels] /\ latch \in [Buttons -> Levels]
  /\ finished_processing \in BOOLEAN /\ ll_have_fired \in BOOLEAN
  /\ phase \in [Contexts -> {"idle", "called", "tested", "inside", "handling", "leaving"}]
  /\ edge \in [Contexts -> Edges \cup {None}]
  /\ \A c \in Contexts : edge[c] = None => phase[c] # "handling"
  /\ seen \in [Contexts -> Levels]
  /\ fresh \subseteq Edges \X Levels /\ struck \subseteq Edges

Inside(c) == phase[c] \in {"inside", "handling", "leaving"}

\* finished_processing is tested and set without a lock (pico_bluetooth.c:517).
\* wiki/4-bluetooth-input-system.md:549 says it prevents re-entrant processing:
\* on core 0, where callbacks interrupt the main loop between any two steps, no
\* two contexts are ever inside the handler.
OneInside == \A c, d \in Contexts : Inside(c) /\ Inside(d) => c = d

Handles(c) == phase[c] = "handling" /\ phase'[c] = "leaving"
Presses(c) == Handles(c) /\ latch'[edge[c]] # 0

\* However callbacks and MIDI interleave, the press of a button is handled once
\* for each time somebody writes the button or wipes its latch.
NoPressTwice == [][\A c \in Contexts : Presses(c) => <<edge[c], latch'[edge[c]]>> \in fresh]_vars

\* Once nobody touches a button and the guitar stays connected, the handler
\* comes to take every button for what it is, whatever was discarded, left
\* pending or held over a disconnection before.
Settles ==
  /\ <>[][ControllerData \/ \E c \in Contexts : HandleData(c)]_vars
  /\ <>[]gamepad_guitar_connected
  => <>[](latch = guitar)

\* wiki/4-bluetooth-input-system.md:369 says that ll_have_fired ensures one
\* strum per paddle motion.
OneStrumPerMotion == [][\A c \in Contexts : Presses(c) => edge[c] \notin struck]_vars

=============================================================================
