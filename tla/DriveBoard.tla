------------------------------ MODULE DriveBoard ------------------------------
(***************************************************************************)
(* The board of the drive, class PiCMDHD: the mounted disks and the front  *)
(* panel (ConfigBlock), the memory and the parallel port the program sees  *)
(* (DriveMap), and the clock (RealTimeClock).  A reset of the drive resets *)
(* the parallel port and leaves the memory and the clock; the program      *)
(* reads the buttons of the panel through the port.                        *)
(*                                                                         *)
(* A program that runs on the drive sends SCSI commands, moves the kernel  *)
(* about in the memory, or sets and reads the clock.                       *)
(***************************************************************************)
EXTENDS ConfigBlock, DriveMap, RealTimeClock, Buttons

CONSTANTS
  Programs,         \* bound: what one program does, a member of ProgramNames
  DisksOf           \* bound: DisksOf[p]: the disks a program p is run with

ProgramNames == {"scsi", "memory", "clock", "buttons"}
ASSUME BoardAssumption == Programs \subseteq ProgramNames

VARIABLES program

boardVars == <<vars, mapVars, clockVars, fingerVars, program>>

\* The user and main.cpp; the reset is of the drive's own parts as well.
PanelAndReset ==
  /\ program # "buttons"
  /\ \/ \E d \in Disks, cs \in SUBSET Companions :
          /\ d \in DisksOf[program]
          /\ program = "scsi" \/ cs = {}
          /\ Insert(d, cs) /\ UNCHANGED mapVars
     \/ Eject /\ UNCHANGED mapVars
     \/ Reset /\ ResetU11 /\ UNCHANGED <<ram, LEDs>>
     \/ program # "clock" /\ \E b \in Pressable : Press(b) /\ UNCHANGED mapVars
     \/ SetButtons /\ UNCHANGED mapVars
  /\ UNCHANGED <<clockVars, fingerVars, program>>

\* The buttons of the panel are three of the Pi's.
PinOf == [SWAP8 |-> "ENTER", SWAP9 |-> "UP", WP |-> "DOWN"]

\* The reader does what it was asked to.
Answered == flags' = {} /\ UNCHANGED <<hand, reader, down, clock, button, edge, press, due>>

\* ENTER selects an image to mount, which may fail, or a folder.
Entered ==
  /\ flags = {"ENTER"}
  /\ \/ /\ \E d \in Disks : d \in DisksOf[program] /\ Insert(d, {})
        /\ reader' = "drive" /\ flags' = {}
        /\ UNCHANGED <<hand, down, clock, button, edge, press, due>>
     \/ Answered /\ UNCHANGED vars
     \/ /\ reader' = "clear" /\ flags' = {}
        /\ UNCHANGED <<hand, down, clock, button, edge, press, due, vars>>

\* The loop samples the buttons and passes them on.
LoopSamples(dt) ==
  /\ power = "on" /\ buttons = held /\ flags = {}
  /\ LoopPolls(dt)
  /\ held' = {b \in Buttons : button'[PinOf[b]].input}
  /\ UNCHANGED <<power, disk, companions, scanVars, forcedDeviceID, buttons,
                 virtual, countdown, inputs, panelMode, reply, resets, faults>>

\* From the browser to the drive and back.
FingersAct ==
  /\ program = "buttons"
  /\ \/ (Finger \/ \E dt \in Polls : flags # {"ENTER"} /\ BrowserPolls(dt))
          /\ UNCHANGED <<vars, mapVars>>
     \/ Entered /\ UNCHANGED mapVars
     \/ power = "inserted" /\ (\E dt \in Polls : LoopBegins(dt))
          /\ Reset /\ ResetU11 /\ UNCHANGED <<ram, LEDs>>
     \/ (\E dt \in Polls : LoopSamples(dt)) /\ UNCHANGED mapVars
     \/ SetButtons /\ UNCHANGED <<fingerVars, mapVars>>
     \/ flags = {"RESET"} /\ buttons = held /\ Reset /\ Answered
          /\ ResetU11 /\ UNCHANGED <<ram, LEDs>>
     \/ flags = {"EXIT"} /\ buttons = held /\ Eject /\ Answered /\ UNCHANGED mapVars
     \/ power = "ejected" /\ (\E dt \in Polls : WaitForClearButtons(dt))
          /\ UNCHANGED <<vars, mapVars>>
  /\ UNCHANGED <<clockVars, program>>

\* The program.
Runs ==
  \/ program = "scsi" /\ Host /\ UNCHANGED <<mapVars, clockVars>>
  \/ program = "memory" /\ power = "on" /\ MapNext
     /\ UNCHANGED <<vars, clockVars>>
  \/ program = "clock" /\ power = "on" /\ ClockNext
     /\ UNCHANGED <<vars, mapVars>>

BoardInit ==
  /\ Init /\ MapInit /\ ClockInit /\ FingerInit
  /\ program \in Programs
  /\ program = "scsi" \/ forcedDeviceID = NotForced
  /\ hand \in IF program = "buttons" THEN Hands ELSE {{}}

BoardNext ==
  \/ PanelAndReset
  \/ FingersAct
  \/ Runs /\ UNCHANGED <<fingerVars, program>>
  \/ Update /\ UNCHANGED <<mapVars, clockVars, fingerVars, program>>

BoardSpec == BoardInit /\ [][BoardNext]_boardVars

-----------------------------------------------------------------------------
(* Properties. *)

\* What the program reads back from port C drives the memory map and the SCSI
\* bus: reading the port, changing a bit and writing it leaves the other lines
\* alone, also right after a reset and with half of the port an input.
PortCIsTold == power = "on" => ReadPort("c", inputs) = i8255a_o

\* While port B is an input the program sees the buttons: those of the user,
\* and the two that are held for it, which are held exactly while the count
\* runs, whatever was ejected or reset meanwhile.
ButtonsAreRead ==
  power = "on" =>
    /\ "b" \in ctrl =>
         ReadPort("b", {}) \ ReadPort("b", inputs)
           = {ButtonLine[b] : b \in buttons \union virtual}
    /\ virtual = {} <=> countdown = 0

\* What the program reads from a port is what the port does or what is pressed,
\* and what is pressed is what the user pressed.
PortsAreTrue == PortCIsTold /\ ButtonsAreRead /\ PressesAreMeant

==============================================================================
