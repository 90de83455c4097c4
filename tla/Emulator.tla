------------------------------ MODULE Emulator ------------------------------
(***************************************************************************)
(* What core 1 does for ever: emulator() of src/main.cpp.  The user picks  *)
(* a disk image in the browser, which is module FileBrowser's; the image   *)
(* is mounted and EmulateCMDHD runs, which is module EmulationLoop's; when *)
(* it returns, the browser is entered again, and AUTOLOAD takes the user   *)
(* straight back into the next emulation.                                  *)
(*                                                                         *)
(* The browser and the loop never run at once, but every list could be on  *)
(* the screen behind every state of the loop.  A user who browses uses all *)
(* of the browser and leaves each emulation at once; one who drives uses   *)
(* all of the loop and mounts the same image again and again.              *)
(***************************************************************************)
EXTENDS EmulationLoop

CONSTANTS  \* of the browser
  Drives, Folders, Files, Up, NameOf, Rank, ImageFolder, AutoImage, Rows,
  LcdPaging, Letters, Buttons, PrefixSize, MaxPulls, MaxProtected

VARIABLES
  b, buttonFlags, emulating, pulls,   \* of the browser
  user                                \* bound: "browses" or "drives"

Browser == INSTANCE FileBrowser

browserVars == <<b, buttonFlags, emulating, pulls>>
allVars == <<vars, browserVars, user>>

-----------------------------------------------------------------------------

\* A pass of the browser's loop; when an image was picked and BeginEmulating
\* finds it, EmulateCMDHD is called.
Browse(keys, buttons, late) ==
  /\ pc = "browsing"
  /\ user = "drives" => keys \subseteq {"autoload"} /\ buttons = {} /\ ~late
  /\ Browser!Pass(keys, buttons, late)
  /\ IF Browser!Emulating' THEN Start ELSE UNCHANGED vars
  /\ UNCHANGED user

\* An action of the loop.  The user who browses leaves it when he can.
Emulate ==
  /\ Loop
  /\ user = "browses" /\ pc = "controls" => pc' = "leave"
  /\ UNCHANGED <<browserVars, user>>

\* EmulateCMDHD has returned: once the reset line and the buttons are let go,
\* the browser is drawn again.
EmulationEnds(autoload) ==
  /\ pc = "browsing"
  /\ ~line /\ held = {}
  /\ autoload = (exitReason = "EXIT_AUTOLOAD")
  /\ Browser!EmulationEnds(autoload)
  /\ Return
  /\ UNCHANGED user

\* The card or stick is pulled out and put back.  To the browser it makes no
\* difference how early during an emulation.
Media ==
  /\ user = "browses" /\ pc = "browsing"
  /\ Browser!Pull \/ Browser!PutBack
  /\ UNCHANGED <<vars, user>>

\* The computer, and the buttons of the drive.
Surroundings ==
  /\ user = "drives"
  /\ Outside
  /\ UNCHANGED <<browserVars, user>>

EmulatorInit ==
  /\ Init
  /\ Browser!Init
  /\ \/ user = "browses" /\ host = "quiet"
     \/ user = "drives" /\ host = "active" /\ b.choice.made

EmulatorNext ==
  \/ \E keys \in Browser!AtMostOne(Browser!Keys),
        buttons \in Browser!AtMostOne(Buttons), late \in BOOLEAN :
       Browse(keys, buttons, late)
  \/ Emulate
  \/ \E autoload \in BOOLEAN : EmulationEnds(autoload)
  \/ Media
  \/ Surroundings

EmulatorSpec == EmulatorInit /\ [][EmulatorNext]_allVars

\* Core 1 keeps running the loop; nobody has to mount a disk.
FairEmulatorSpec == EmulatorSpec /\ WF_allVars(Emulate)

-----------------------------------------------------------------------------
(* Properties of the browser, between and behind the emulations. *)

\* Whatever keys, buttons, removals and emulations came before, the highlight
\* is on the screen, the marks are the caddy's and the list is the open folder.
ScreenIsTrue == Browser!ScreenIsTrue

\* What EmulateCMDHD is given is the image that was picked, or highlighted, or
\* the one AutoMountImage names, and read only when it is shown as protected.
MountIsWhatWasChosen == Browser!MountIsWhatWasChosen

=============================================================================
