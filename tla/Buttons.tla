------------------------------- MODULE Buttons -------------------------------
(***************************************************************************)
(* The five buttons of the Pi: how the lines are debounced and repeated    *)
(* (IEC_Bus::UpdateButton of src/emulation/iec_bus.h) and what the file    *)
(* browser, the emulation loop and the wait between them make of it        *)
(* (src/ui/inputmappings.cpp, EmulateCMDHD of src/main.cpp).  Each of the  *)
(* three polls the lines at a rate of its own.                             *)
(*                                                                         *)
(* The buttons are the browser's ENTER, UP, DOWN, BACK and INSERT; while a *)
(* disk is emulated they are SWAP 8, SWAP 9, WRITE PROTECT, RESET and EXIT.*)
(***************************************************************************)
EXTENDS Integers

CONSTANTS
  DEBOUNCE,       \* INPUT_BUTTON_DEBOUNCE_THRESHOLD: 20 ms
  REPEAT,         \* INPUT_BUTTON_REPEAT_THRESHOLD: 460 ms
  ClockWrap,      \* ARM_SYSTIMER_CLO starts again: 2^32 us
  Polls,          \* bound: the times between two polls
  Hands,          \* bound: the sets of buttons a user presses ...
  MaxPress        \* ... and how long, less than ClockWrap

Button == {"ENTER", "UP", "DOWN", "BACK", "INSERT"}

ASSUME ButtonAssumption ==
  /\ DEBOUNCE \in Nat /\ REPEAT \in Nat
  /\ ClockWrap \in Nat /\ MaxPress \in Nat /\ MaxPress < ClockWrap
  /\ Polls \subseteq Nat /\ Hands \subseteq SUBSET Button

VARIABLES
  hand,           \* the buttons this user presses
  reader,         \* who polls: "browse", "drive", or "clear"
  down,           \* the buttons that are down
  clock,          \* ARM_SYSTIMER_CLO at the last poll
  button,         \* InputButton and the other tables, by button
  edge,           \* insertButtonPressedPrev, enterButtonPressedPrev,
                  \* exitButtonPrev, resetButtonPrev
  flags,          \* what the last poll made the reader do
  press,          \* how long each button has been found down
  due             \* is each button's press still to do something?  Or has it done
                  \* more than was due?

fingerVars == <<hand, reader, down, clock, button, edge, flags, press, due>>

Up == [input |-> FALSE, prev |-> FALSE, pressed |-> FALSE, start |-> 0,
       repeat |-> 0, repeatPrev |-> 0, threshold |-> REPEAT]

\* The difference of two readings of the counter is unsigned.
Elapsed(now, start) == (now - start) % ClockWrap

\* A button that is down: its press begins, counts, and repeats ever faster.
Lowered(b, now) ==
  LET start == IF b.pressed THEN b.start ELSE now
      held == Elapsed(now, start)
      first == ~b.input /\ held >= DEBOUNCE
      threshold == IF first THEN DEBOUNCE + REPEAT ELSE b.threshold
      repeat == IF first THEN b.repeat + 1 ELSE b.repeat
      again == (b.input \/ first) /\ held >= threshold
  IN [input |-> b.input \/ first, prev |-> b.input, pressed |-> TRUE, start |-> start,
      repeatPrev |-> b.repeat,
      repeat |-> IF again THEN repeat + 1 ELSE repeat,
      threshold |-> IF again THEN threshold + REPEAT \div (repeat + 1) ELSE threshold]

\* pressStartTime stays; nothing reads it before the next press sets it.
UpdateButton(b, isDown, now) ==
  IF isDown THEN Lowered(b, now) ELSE [Up EXCEPT !.prev = b.input]

Released(i) == ~button'[i].input
Pressed(i) == button'[i].input /\ ~button'[i].prev
Repeating(i) == button'[i].repeat # button'[i].repeatPrev
Held(i) == button'[i].threshold >= DEBOUNCE + 2 * REPEAT

\* ReadGPIOUserInput, some time after the last one.  With nothing pressed it does
\* not matter what the counter says, and it may be about to wrap.
ReadGPIOUserInput(dt) ==
  LET now == (clock + dt) % ClockWrap
  IN /\ \A i \in down : button[i].pressed => press[i] + dt <= MaxPress
     /\ clock' = IF down = {} THEN ClockWrap - 3 ELSE now
     /\ button' = [i \in Button |-> UpdateButton(button[i], i \in down, now)]
     /\ press' = [i \in Button |->
          IF i \in down /\ button[i].pressed THEN press[i] + dt ELSE 0]
     /\ UNCHANGED <<hand, down>>

\* These do something in this poll, and these are held for others to do it.
Act(doing, holding) ==
  due' = [i \in Button |->
    LET before == IF button'[i].input /\ ~button[i].input THEN "yes" ELSE due[i]
    IN IF i \in doing THEN IF before = "yes" THEN "no" ELSE "overdrawn"
       ELSE IF i \in holding THEN "no" ELSE before]

-----------------------------------------------------------------------------

\* While INSERT or ENTER is held the others ask for a drive number or a ROM, which
\* nothing on this drive takes.
Function(others) == IF \E o \in others : Repeating(o) THEN {"FUNCTION"} ELSE {}

\* INSERT and ENTER act when they are let go.
LetGo == {i \in {"INSERT", "ENTER"} : edge[i] /\ Released(i)}

WasDown == [edge EXCEPT !["INSERT"] = ~Released("INSERT"),
                        !["ENTER"] = ~Released("ENTER")]

\* What moves the highlight or leaves the folder due at once.
Moves ==
  IF Repeating("UP") THEN {"UP"} ELSE IF Repeating("DOWN") THEN {"DOWN"}
  ELSE IF Pressed("BACK") THEN {"BACK"} ELSE {}

CheckButtonsBrowseMode ==
  \/ /\ Held("INSERT")
     /\ flags' = Function({"ENTER", "UP", "DOWN", "BACK"})
     /\ edge' = [edge EXCEPT !["INSERT"] = FALSE]
     /\ Act({}, {"INSERT"})
  \/ /\ ~Held("INSERT") /\ Held("ENTER")
     /\ flags' = Function({"UP", "DOWN", "BACK", "INSERT"})
     /\ edge' = [edge EXCEPT !["ENTER"] = FALSE]
     /\ Act({}, {"ENTER"})
  \/ /\ ~Held("INSERT") /\ ~Held("ENTER")
     /\ flags' = IF Moves # {} THEN Moves ELSE LetGo
     /\ edge' = IF Moves # {} THEN edge ELSE WasDown
     /\ Act(flags', {})

BrowserPolls(dt) ==
  /\ reader = "browse"
  /\ ReadGPIOUserInput(dt)
  /\ CheckButtonsBrowseMode
  /\ reader' = reader

\* The loop: RESET and EXIT act when they are let go.  A RESET skips the rest.
LoopPolls(dt) ==
  LET reset == edge["RESET"] /\ Released("BACK")
      exit == ~reset /\ edge["EXIT"] /\ Released("INSERT")
  IN /\ reader = "drive"
     /\ ReadGPIOUserInput(dt)
     /\ flags' = IF reset THEN {"RESET"} ELSE IF exit THEN {"EXIT"} ELSE {}
     /\ edge' = [edge EXCEPT !["RESET"] = ~Released("BACK"),
                             !["EXIT"] = IF reset THEN @ ELSE ~Released("INSERT")]
     /\ Act(IF reset THEN {"BACK"} ELSE IF exit THEN {"INSERT"} ELSE {}, {})
     /\ reader' = IF exit THEN "clear" ELSE "drive"

\* WaitForClearButtons: until neither INSERT nor ENTER is down.
WaitForClearButtons(dt) ==
  /\ reader = "clear"
  /\ ReadGPIOUserInput(dt)
  /\ flags' = {}
  /\ edge' = WasDown
  /\ Act({}, {})
  /\ reader' = IF Released("INSERT") /\ Released("ENTER") THEN "browse" ELSE "clear"

\* The lines are read once more as the emulation begins.
LoopBegins(dt) ==
  /\ ReadGPIOUserInput(dt)
  /\ flags' = {}
  /\ edge' = [edge EXCEPT !["EXIT"] = FALSE, !["RESET"] = FALSE]
  /\ Act({}, {})
  /\ reader' = "drive"

\* A finger comes down or is lifted; a contact that bounces is one as well.
Finger ==
  /\ \E i \in hand :
       down' = IF i \in down THEN down \ {i} ELSE down \union {i}
  /\ UNCHANGED <<hand, reader, clock, button, edge, flags, press, due>>

FingerInit ==
  /\ reader = "browse" /\ down = {} /\ clock = ClockWrap - 3
  /\ button = [i \in Button |-> Up]
  /\ edge = [i \in {"INSERT", "ENTER", "EXIT", "RESET"} |-> FALSE]
  /\ flags = {}
  /\ press = [i \in Button |-> 0] /\ due = [i \in Button |-> "no"]

-----------------------------------------------------------------------------
(* Properties. *)

\* A button counts as pressed exactly when its line has been found low for the
\* debounce time, whoever polled and however the counter wrapped; one step of the
\* highlight comes before it repeats; and the one press of INSERT that ended an
\* emulation, or was held for the others, does not put an image into the caddy too.
PressesAreMeant ==
  /\ \A i \in Button :
       /\ button[i].input <=> button[i].pressed /\ press[i] >= DEBOUNCE
       /\ press[i] < DEBOUNCE + REPEAT => button[i].repeat <= 1
  /\ due["INSERT"] # "overdrawn" /\ due["ENTER"] # "overdrawn"
=============================================================================
