---------------------------- MODULE StatusScreen -----------------------------
(***************************************************************************)
(* The LCD two cores draw on.  Core 0 runs UpdateScreen of src/main.cpp:   *)
(* while a disk is emulated it shows the lamps of the front panel and a    *)
(* line with the track below them.  Core 1 runs emulator(): it draws the   *)
(* file browser while no disk is emulated.  The flag `emulating' tells     *)
(* core 0 whose turn it is; it is read before, not under, the spin lock    *)
(* core0RefreshingScreen, which a core takes only for some of its drawing. *)
(*                                                                         *)
(* A panel is there and CMDHDLcdLamps is on.                               *)
(***************************************************************************)
EXTENDS Integers

CONSTANTS
  Rows,       \* text rows of the panel: its height over that of a character
  Lamps       \* values of the latch behind the lamps

ASSUME ScreenAssumption == Rows \in Nat /\ Rows >= 2 /\ Lamps # {}

VARIABLES
  emulating,    \* EMULATING_CMDHD
  locked,       \* the spin lock; it has no owner
  core0, core1, \* where each core is
  leds,         \* piCMDHD.LEDs, written by core 1
  oldLamps,     \* the lamps drawn last, or "none" while oldPower is false
  on,           \* the lamps as sampled for drawing
  refresh,      \* refreshLCDStatusDisplay of this pass
  lcdTrackRow,
  lcd,          \* what each row of the panel shows ...
  shown,        \* ... and with which lamps lit
  late          \* did the emulation end during this pass of core 0?

flags == <<emulating, locked>>
sampled == <<oldLamps, on, refresh>>
panel == <<lcdTrackRow, lcd, shown>>
vars == <<flags, core0, core1, leds, sampled, panel, late>>

Row == 0 .. Rows - 1

\* Rows the lamps take: three of four or more, or two.
LampRows == IF Rows >= 4 THEN 3 ELSE 2

\* The row under the lamps, if there is one.
TrackRow == IF Rows > LampRows THEN LampRows ELSE 0

Acquire == ~locked /\ locked' = TRUE

Release == locked' = FALSE

-----------------------------------------------------------------------------
(* Core 0: UpdateScreen, UpdateLCDLamps and UpdateLCD. *)

\* Mutant of Pass: the status is shown over the browser as well.
PassAlways ==
  /\ core0 = "idle"
  /\ core0' = "lamps"
  /\ refresh' \in BOOLEAN
  /\ late' = FALSE
  /\ UNCHANGED <<flags, core1, leds, oldLamps, on, panel>>

\* A pass of the loop that finds a disk emulated; the track, the temperature,
\* the device number or the progress of a scan may have changed.
Pass ==
  /\ core0 = "idle"
  /\ emulating
  /\ core0' = "lamps"
  /\ refresh' \in BOOLEAN
  /\ late' = FALSE
  /\ UNCHANGED <<flags, core1, leds, oldLamps, on, panel>>

\* No disk is emulated any more, between the two looks at the flag.
ForgetLamps ==
  /\ core0 = "lamps"
  /\ ~emulating
  /\ oldLamps' = "none"
  /\ core0' = "track"
  /\ UNCHANGED <<flags, core1, leds, on, refresh, panel, late>>

LampsUnchanged ==
  /\ core0 = "lamps"
  /\ emulating
  /\ leds = oldLamps
  /\ core0' = "track"
  /\ UNCHANGED <<flags, core1, leds, sampled, panel, late>>

LampsChanged ==
  /\ core0 = "lamps"
  /\ emulating
  /\ leds # oldLamps
  /\ oldLamps' = leds
  /\ core0' = "sample"
  /\ UNCHANGED <<flags, core1, leds, on, refresh, panel, late>>

\* The latch is read a second time for what is drawn.
SampleLamps ==
  /\ core0 = "sample"
  /\ on' = leds
  /\ core0' = "want lamps"
  /\ UNCHANGED <<flags, core1, leds, oldLamps, refresh, panel, late>>

AcquireForLamps ==
  /\ core0 = "want lamps"
  /\ Acquire
  /\ core0' = "draw lamps"
  /\ UNCHANGED <<emulating, core1, leds, sampled, panel, late>>

DrawLamps ==
  /\ core0 = "draw lamps"
  /\ lcd' = [r \in Row |-> IF r < LampRows THEN "lamps" ELSE lcd[r]]
  /\ shown' = on
  /\ lcdTrackRow' = TrackRow
  /\ Release
  /\ core0' = "track"
  /\ UNCHANGED <<emulating, core1, leds, sampled, late>>

CheckTrack ==
  /\ core0 = "track"
  /\ core0' = IF refresh THEN "want track" ELSE "idle"
  /\ UNCHANGED <<flags, core1, leds, sampled, panel, late>>

AcquireForTrack ==
  /\ core0 = "want track"
  /\ Acquire
  /\ core0' = "draw track"
  /\ UNCHANGED <<emulating, core1, leds, sampled, panel, late>>

DrawTrack ==
  /\ core0 = "draw track"
  /\ lcd' = [lcd EXCEPT ![lcdTrackRow] = "track"]
  /\ Release
  /\ core0' = "idle"
  /\ UNCHANGED <<emulating, core1, leds, sampled, lcdTrackRow, shown, late>>

-----------------------------------------------------------------------------
(* Core 1: emulator(). *)

AcquireForBrowser ==
  /\ core1 = "enter"
  /\ Acquire
  /\ core1' = "redraw"
  /\ UNCHANGED <<emulating, core0, leds, sampled, panel, late>>

\* Mutant of Redraw: the lock is kept.
RedrawKeepsLock ==
  /\ core1 = "redraw"
  /\ lcd' = [r \in Row |-> "files"]
  /\ core1' = "browse"
  /\ UNCHANGED <<flags, core0, leds, sampled, lcdTrackRow, shown, late>>

Redraw ==
  /\ core1 = "redraw"
  /\ lcd' = [r \in Row |-> "files"]
  /\ Release
  /\ core1' = "browse"
  /\ UNCHANGED <<emulating, core0, leds, sampled, lcdTrackRow, shown, late>>

\* What the browser draws from now on, it draws without the lock: the name of
\* the ROM, its list, and the image it has mounted.
Browse ==
  /\ core1 = "browse"
  /\ core1' \in {"paint", "info"}
  /\ UNCHANGED <<flags, core0, leds, sampled, panel, late>>

Paint ==
  /\ core1 = "paint"
  /\ \E rows \in SUBSET Row :
       lcd' = [r \in Row |-> IF r \in rows THEN "files" ELSE lcd[r]]
  /\ core1' = "browse"
  /\ UNCHANGED <<flags, core0, leds, sampled, lcdTrackRow, shown, late>>

\* BeginEmulating: the name of the image, then the emulation.
BeginEmulating ==
  /\ core1 = "info"
  /\ lcd' = [r \in Row |-> "info"]
  /\ emulating' = TRUE
  /\ core1' = "emulate"
  /\ UNCHANGED <<locked, core0, leds, sampled, lcdTrackRow, shown, late>>

\* The drive's processor writes the latch.
WriteLEDs ==
  /\ core1 = "emulate"
  /\ leds' \in Lamps \ {leds}
  /\ UNCHANGED <<flags, core0, core1, sampled, panel, late>>

ExitEmulation ==
  /\ core1 = "emulate"
  /\ emulating' = FALSE
  /\ late' = (core0 # "idle")
  /\ core1' = "release"
  /\ UNCHANGED <<locked, core0, leds, sampled, panel>>

\* The lock is released though core 1 does not hold it.
ReleaseOnExit ==
  /\ core1 = "release"
  /\ Release
  /\ core1' = "enter"
  /\ UNCHANGED <<emulating, core0, leds, sampled, panel, late>>

Init ==
  /\ emulating = FALSE /\ locked = FALSE
  /\ core0 = "idle" /\ core1 = "enter"
  /\ leds \in Lamps
  /\ oldLamps = "none" /\ on = leds /\ refresh = FALSE
  /\ lcdTrackRow = 0 /\ lcd = [r \in Row |-> "files"] /\ shown = leds
  /\ late = FALSE

Core0 ==
  \/ Pass
  \/ ForgetLamps \/ LampsUnchanged \/ LampsChanged
  \/ SampleLamps \/ AcquireForLamps \/ DrawLamps
  \/ CheckTrack \/ AcquireForTrack \/ DrawTrack

\* What core 1 does whether or not the user goes on.
Core1 ==
  AcquireForBrowser \/ Redraw \/ Paint \/ BeginEmulating \/ ReleaseOnExit

Next == Core0 \/ Core1 \/ Browse \/ WriteLEDs \/ ExitEmulation

Spec == Init /\ [][Next]_vars

-----------------------------------------------------------------------------
(* Properties. *)

TypeOK ==
  /\ emulating \in BOOLEAN /\ locked \in BOOLEAN
  /\ refresh \in BOOLEAN /\ late \in BOOLEAN
  /\ core0 \in {"idle", "lamps", "sample", "want lamps", "draw lamps",
                "track", "want track", "draw track"}
  /\ core1 \in {"enter", "redraw", "browse", "paint", "info", "emulate",
                "release"}
  /\ leds \in Lamps /\ on \in Lamps /\ shown \in Lamps
  /\ oldLamps \in Lamps \union {"none"}
  /\ lcdTrackRow \in Row
  /\ lcd \in [Row -> {"files", "info", "lamps", "track"}]

Core0Draws == core0 \in {"draw lamps", "draw track"}
Core1Draws == core1 \in {"redraw", "paint", "info"}

\* "The lock comes back": it is taken only while a core is in a section, so
\* that no core waits for one nobody will release.
LockComesBack == locked => Core0Draws \/ core1 = "redraw"

\* The cores draw at the same time only in the one pass of core 0 that was under
\* way when the emulation ended: after it, the flag keeps core 0 away.
OnlyLatePassCollides == Core0Draws /\ Core1Draws => late

\* The cores share the screen by the lock and the flag together.
CoresTakeTurns == LockComesBack /\ OnlyLatePassCollides

\* The lamps "own the rows above the track line": a line is drawn over lamps only on
\* a panel that has no row for it, and there only over the first row of them, never
\* over the others.
LampsKeepTheirRows ==
  [][\A r \in Row : lcd[r] = "lamps" /\ lcd'[r] = "track"
                     => Rows = LampRows /\ r = 0]_vars

==============================================================================
