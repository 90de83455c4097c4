-------------------------------- MODULE Boot ---------------------------------
(***************************************************************************)
(* From the power switch to the two cores: kernel_main of src/main.cpp     *)
(* with LoadOptions, InitialiseLCD and CheckOptions, and then the drawing  *)
(* of LcdPanel for as long as the machine runs.  What options.txt says     *)
(* decides which panel there is, and what is on the card whether there is  *)
(* a ROM to run at all.                                                    *)
(***************************************************************************)
EXTENDS LcdPanel, Options, FiniteSets

CONSTANTS
  Files,        \* texts of options.txt, each a sequence of lines
  Lines,        \* what a line of one reads like, by its name
  Cards         \* what is on the card: sizes in KB of the files, by path

VARIABLES
  phase,        \* how far kernel_main is
  file,         \* options.txt, while it is read
  card,         \* the files on the card
  options,      \* what has been read
  rom           \* the boot ROM found: its name

bootVars == <<phase, file, card, options, rom>>
everything == <<allVars, bootVars>>

\* The text of a file: its lines one below the other.
TextOf(f) ==
  LET to[n \in 0 .. Len(f)] ==
        IF n = 0 THEN <<>> ELSE to[n - 1] \o Lines[f[n]].text \o <<"\n">>
  IN to[Len(f)]

-----------------------------------------------------------------------------

\* No options.txt leaves the defaults.
LoadOptions ==
  /\ phase = "power"
  /\ options' = Process(TextOf(file))
  /\ phase' = "read"
  /\ UNCHANGED <<allVars, file, card, rom>>

\* A new SSD1306: a dark frame, a shadow that differs from it everywhere, and
\* whatever the panel powers up with.  Open clears the panel, and the logo follows.
Constructed ==
  /\ frame' = [p \in Page' |-> Blank]
  /\ oldFrame' = [p \in Page' |-> Line("ff", "ff", "ff")]
  /\ ram' = [p \in Page' |-> [k \in RamColumn |-> "noise"]]
  /\ pointer' = [page |-> 0, column |-> 0]
  /\ job' = [c \in Core |-> IF c = 0
       THEN [open |-> TRUE, next |-> <<"logo">>, pages |-> Page', msgs |-> <<>>]
       ELSE NoJob]
  /\ view' = NoList /\ collided' = FALSE

\* There may be no panel.
InitialiseLCD ==
  /\ phase = "read"
  /\ phase' = IF options.i2cLcdModel = "unknown" THEN "no panel" ELSE "logo"
  /\ type' = options.i2cLcdModel
  /\ useCBMFont' = FALSE
  /\ IF options.i2cLcdModel = "unknown"
     THEN UNCHANGED <<frame, oldFrame, memory, job, view, collided>>
     ELSE Constructed
  /\ file' = <<>>
  /\ UNCHANGED <<vars, card, options, rom>>

\* The size of the file of that name, or of the one in /roms: the first that opens
\* is the one that counts.
Opened(name) ==
  CASE name \in DOMAIN card.root -> card.root[name]
    [] name \notin DOMAIN card.root /\ name \in DOMAIN card.roms -> card.roms[name]
    [] OTHER -> 0

\* In KB: the ROM, or a dump with the ROM in it twice.
SetROM(size) == size \in {16, 32}
FontSize == 4

ROMNames ==
  <<options.ROMNameCMDHD, "cmdhd-bootrom.bin", "bootromCMDHD-v2-80.bin",
    "cmd_hd_bootrom_v2.80.bin", "cmdhd.rom">>

AttemptToLoadROM(name) == name # "" /\ SetROM(Opened(name))

\* The font first, then the first ROM that will do.  Without one the machine asks
\* for it for ever.
CheckOptions ==
  /\ \/ phase = "no panel"
     \/ phase = "logo" /\ Drawn(0) /\ job[0].next = <<>>
  /\ useCBMFont' = (options.i2cLcdUseCBMChar # 0 /\ Opened(options.ROMFontName) = FontSize)
  /\ LET will == {n \in DOMAIN ROMNames : AttemptToLoadROM(ROMNames[n])} IN
       IF will = {} THEN phase' = "no rom" /\ rom' = rom
       ELSE /\ phase' = IF type = "unknown" THEN "headless" ELSE "ready"
            /\ rom' = ROMNames[LeastOf(will)]
  /\ UNCHANGED <<vars, type, frame, oldFrame, memory, job, view, collided,
                 file, card, options>>

\* The panel is set up and cleared once more before core 1 starts.
ClearInit ==
  /\ phase = "ready"
  /\ phase' = "clear"
  /\ view' = view
  /\ frame' = [p \in Page |-> Blank]
  /\ job' = [job EXCEPT ![0] = [@ EXCEPT !.pages = Page]]
  /\ pointer' = [page |-> 0, column |-> Offset]
  /\ UNCHANGED <<vars, wiring, oldFrame, ram, collided, file, card, options, rom>>

\* What this instance goes on with is a panel of `Rows' rows with its lamps on.
Suits == /\ Height(type) = Rows * (IF useCBMFont THEN 8 ELSE 16)
         /\ options.CMDHDLcdLamps # 0

StartCores ==
  /\ phase = "clear" /\ Drawn(0)
  /\ phase' = IF Suits THEN "running" ELSE "other panel"
  /\ job' = [job EXCEPT ![0] = NoJob]
  /\ options' = Defaults /\ card' = [root |-> <<>>, roms |-> <<>>] /\ rom' = ""
  /\ UNCHANGED <<vars, wiring, frame, oldFrame, memory, view, collided, file>>

\* Before it runs core 0 refreshes the panel as it does later.
BootDraws ==
  /\ phase \in {"logo", "clear"}
  /\ PlotNext(0) \/ RefreshPage(0) \/ RPI_I2CWrite(0)
  /\ UNCHANGED bootVars

\* What two drawings that have met do to each other is not followed.
Running == phase = "running" /\ ~collided /\ PanelNext /\ UNCHANGED bootVars

BootInit ==
  /\ Init
  /\ type = "unknown" /\ useCBMFont = FALSE
  /\ frame = <<>> /\ oldFrame = <<>> /\ ram = <<>> /\ pointer = <<>>
  /\ job = [c \in Core |-> NoJob]
  /\ view = NoList /\ collided = FALSE
  /\ phase = "power" /\ file \in Files /\ card \in Cards
  /\ options = Defaults /\ rom = ""

BootNext == \/ LoadOptions \/ InitialiseLCD \/ CheckOptions \/ ClearInit
            \/ StartCores \/ BootDraws \/ Running

\* The cores keep going.
BootSpec ==
  /\ BootInit /\ [][BootNext]_everything
  /\ WF_everything(Running /\ (Draws0 \/ Waits0))
  /\ WF_everything(Running /\ (Draws1 \/ Waits1))

-----------------------------------------------------------------------------
(* Properties. *)

\* What a file of the form the manual gives, with comments wherever they may stand,
\* sets is what its lines say: the last one of a name counts, and nothing else is
\* touched but what the wiring rules out.
OptionsAreRead ==
  phase = "read" =>
    LET say[n \in 0 .. Len(file)] ==
          IF n = 0 THEN Defaults
          ELSE LET line == Lines[file[n]] IN
            IF line.name = "" THEN say[n - 1]
            ELSE [say[n - 1] EXCEPT ![line.name] = line.value]
        said == say[Len(file)]
    IN options = [said EXCEPT
         !.invertIECInputs = IF said.splitIECLines = 0 THEN 0 ELSE @,
         !.i2cBusMaster = IF said.splitIECLines = 0 THEN 0 ELSE @]

\* The browser gets the screen and is done with it, unless the drawings have met:
\* then each core may clear the DONE the other is polling for.
BrowserIsShown == phase = "running" /\ core1 = "enter" ~> core1 = "browse" \/ collided

\* So does core 0 with lamps that have changed, while there is a drive to show.
LampsAreShown == core0 = "want lamps" ~> core0 = "track" \/ ~emulating \/ collided

\* Both cores get to draw, each in its turn and its place.
ScreenIsShared == LampsKeepTheirRows /\ BrowserIsShown /\ LampsAreShown
==============================================================================
