---------------------------- MODULE EmulationLoop ----------------------------
(***************************************************************************)
(* The loop core 1 runs while a disk is mounted: EmulateCMDHD of           *)
(* src/main.cpp.  Once per microsecond it runs the emulated processor,     *)
(* flushes the disk cache when the bus has been idle for long enough, and  *)
(* looks at the buttons and at the reset line of the serial bus.           *)
(*                                                                         *)
(* An iteration is two actions: Run, up to the flush, and one of those     *)
(* that follow it.  The cache is module DiskCache's; here it is dirty or   *)
(* it is not, and FatFS may have latched an error of the card in an open   *)
(* image.  The drive is ConfigBlock's; here it may have to be scanned.     *)
(***************************************************************************)
EXTENDS Integers

CONSTANTS
  FLUSH_IDLE_LOOPS,   \* 500000
  FLUSH_MAX_LOOPS,    \* 32000000
  ResetLoops,         \* 10: a reset line held longer is a reset
  MaxFaults           \* bound: number of accesses to the card that fail

ASSUME LoopAssumption ==
  /\ FLUSH_IDLE_LOOPS \in Nat \ {0}
  /\ FLUSH_MAX_LOOPS \in Nat /\ FLUSH_IDLE_LOOPS <= FLUSH_MAX_LOOPS
  /\ ResetLoops \in Nat
  /\ MaxFaults \in Nat

VARIABLES
  pc,               \* where the loop is; "browsing" when it does not run
  quietLoops,
  flushAfterLoops,
  touched,          \* accessCount # lastAccessCount
  resetButtonPrev,
  exitButtonPrev,
  exitReason,
  resetCount,
  dirty,            \* a mounted image has needSync set
  broken,           \* FIL::err of the mounted images: "no"; "image": one has it
                    \* set; "data": and has dirty chunks
  scanNeeded,       \* ConfigBlock's: the next reset reads the disk
  host,             \* "active", or "quiet": the computer leaves the drive alone
  held,             \* the buttons the user holds down
  line,             \* is the reset line of the bus asserted?
  flush,            \* what the idle flush of this iteration did on the card
  sinceBusy,        \* iterations since the drive was last busy, as far as it
                    \* matters
  lineRun,          \* samples of an asserted reset line, as far as it matters
  failing,          \* has the latest flush of this emulation failed?
  faults            \* number of accesses to the card that failed

idleVars == <<quietLoops, flushAfterLoops, touched>>
buttonVars == <<resetButtonPrev, exitButtonPrev, exitReason, resetCount>>
diskVars == <<dirty, broken, scanNeeded>>
outside == <<host, held, line>>
history == <<flush, sinceBusy, lineRun, failing, faults>>
vars == <<pc, idleVars, buttonVars, diskVars, outside, history>>

Smaller(m, n) == IF m < n THEN m ELSE n

\* One more, as far as it matters.
Counted(n) == Smaller(n + 1, FLUSH_IDLE_LOOPS)

-----------------------------------------------------------------------------
(* The first half of an iteration. *)

\* FlushAll when nothing refuses the data; with none it stays off the card.
FlushOk ==
  /\ broken # "data"
  /\ dirty' = FALSE
  /\ flushAfterLoops' = FLUSH_IDLE_LOOPS
  /\ flush' = IF dirty THEN "ok" ELSE "no"
  /\ failing' = FALSE
  /\ UNCHANGED <<broken, faults>>

\* FatFS refuses a file with an error until it is opened again.  Otherwise the
\* card fails: in an f_write or f_lseek, which sets that error, or in an f_sync.
Refused ==
  \/ broken = "data" /\ UNCHANGED <<broken, faults>>
  \/ /\ broken # "data" /\ dirty /\ faults < MaxFaults
     /\ faults' = faults + 1
     /\ broken' \in {broken, "data"}

\* FlushAll with an error: the next attempt takes twice as long, to a ceiling.
FlushFails ==
  /\ Refused
  /\ flushAfterLoops' = Smaller(2 * flushAfterLoops, FLUSH_MAX_LOOPS)
  /\ flush' = "failed"
  /\ failing' = TRUE
  /\ UNCHANGED dirty

\* The processor reads or writes the disk (access), or leaves it alone.
Accesses == {"none", "read", "write"}

\* Mutant of Busy: an asserted ATN does not count.
BusyDisk(access, atn) == touched \/ access # "none"

\* The drive is in use.
Busy(access, atn) == touched \/ access # "none" \/ atn

\* An access, of the processor or of a scan, may find the card failing, and a
\* write may go to the image that has an error.
AccessDone(access) ==
  /\ dirty' = (dirty \/ access = "write")
  /\ \/ /\ broken' \in IF broken = "image" /\ access = "write" THEN {"image", "data"}
                       ELSE {broken}
        /\ UNCHANGED faults
     \/ /\ broken # "data" /\ access # "none" /\ faults < MaxFaults
        /\ faults' = faults + 1
        /\ broken' \in IF dirty' THEN {"image", "data"} ELSE {"image"}

\* Mutant of RunBusy: the access is not noted, so it is new for ever.
RunBusyForever(access, atn) ==
  /\ Busy(access, atn)
  /\ touched' = TRUE
  /\ quietLoops' = 0
  /\ AccessDone(access)
  /\ scanNeeded' = (scanNeeded \/ access = "write")
  /\ flush' = "no"
  /\ UNCHANGED <<flushAfterLoops, failing>>

RunBusy(access, atn) ==
  /\ Busy(access, atn)
  /\ touched' = FALSE
  /\ quietLoops' = 0
  /\ AccessDone(access)
  /\ scanNeeded' = (scanNeeded \/ access = "write")
  /\ flush' = "no"
  /\ UNCHANGED <<flushAfterLoops, failing>>

RunQuiet(access, atn) ==
  /\ ~Busy(access, atn)
  /\ quietLoops + 1 < flushAfterLoops
  /\ quietLoops' = quietLoops + 1
  /\ flush' = "no"
  /\ UNCHANGED <<flushAfterLoops, touched, diskVars, failing, faults>>

RunFlush(access, atn) ==
  /\ ~Busy(access, atn)
  /\ quietLoops + 1 >= flushAfterLoops
  /\ quietLoops' = 0
  /\ FlushOk \/ FlushFails
  /\ UNCHANGED <<touched, scanNeeded>>

Run(access, atn) ==
  /\ pc = "run"
  /\ host = "quiet" => access = "none" /\ ~atn
  /\ RunBusy(access, atn) \/ RunQuiet(access, atn) \/ RunFlush(access, atn)
  /\ sinceBusy' = IF touched \/ access # "none" \/ atn THEN 0
                  ELSE Counted(sinceBusy)
  /\ pc' = "controls"
  /\ UNCHANGED <<buttonVars, outside, lineRun>>

-----------------------------------------------------------------------------
(* The second half: buttons, exit and reset. *)

\* The RESET button is let go.
ResetReleased == resetButtonPrev /\ "RESET" \notin held

\* Mutant of ButtonReset: the EXIT button is forgotten as well.
ButtonResetForgets ==
  /\ pc = "controls"
  /\ ResetReleased
  /\ resetButtonPrev' = FALSE
  /\ exitButtonPrev' = FALSE
  /\ resetCount' = 0
  /\ lineRun' = 0
  /\ pc' = "reset"
  /\ UNCHANGED <<idleVars, exitReason, diskVars, outside, flush, sinceBusy,
                 failing, faults>>

\* ... which resets the drive and skips the rest of the iteration.
ButtonReset ==
  /\ pc = "controls"
  /\ ResetReleased
  /\ resetButtonPrev' = FALSE
  /\ resetCount' = 0
  /\ lineRun' = 0
  /\ pc' = "reset"
  /\ UNCHANGED <<idleVars, exitButtonPrev, exitReason, diskVars, outside,
                 flush, sinceBusy, failing, faults>>

\* The EXIT button is let go, Escape or AutoLoad (quit) is pressed.
ExitReasonOf(quit) ==
  IF quit = "autoload" THEN "EXIT_AUTOLOAD"
  ELSE IF quit = "escape" \/ (exitButtonPrev /\ "EXIT" \notin held)
  THEN "EXIT_KEYBOARD" ELSE "EXIT_UNKNOWN"

Quits == {"none", "escape", "autoload"}

\* Mutant of LineCount: a line that was released in between counts on.
LineTotal == IF line THEN resetCount + 1 ELSE resetCount

\* Consecutive samples of an asserted reset line.
LineCount == IF line THEN resetCount + 1 ELSE 0

\* The exit, then the reset line.
Controls(quit) ==
  /\ pc = "controls"
  /\ ~ResetReleased
  /\ resetButtonPrev' = ("RESET" \in held)
  /\ exitButtonPrev' = ("EXIT" \in held)
  /\ exitReason' = ExitReasonOf(quit)
  /\ lineRun' = IF line THEN Smaller(lineRun + 1, ResetLoops + 1) ELSE 0
  /\ \/ /\ LineCount > ResetLoops
        /\ resetCount' = 0
        /\ pc' = "reset"
     \/ /\ LineCount <= ResetLoops
        /\ resetCount' = LineCount
        /\ pc' = IF exitReason' = "EXIT_UNKNOWN" THEN "run" ELSE "leave"
  /\ UNCHANGED <<idleVars, diskVars, outside, flush, sinceBusy,
                 failing, faults>>

\* PiCMDHD::Reset waits for the reset line to be released.  It flushes what it
\* can in its time, or fails to, reads the disk when a scan is due, and detaches
\* disk 0 if it is too small and there are others.
Reset ==
  /\ pc = "reset"
  /\ ~line
  /\ \/ broken # "data" /\ dirty' \in {dirty, FALSE} /\ UNCHANGED <<broken, faults>>
     \/ Refused /\ UNCHANGED dirty
     \/ dirty' \in {dirty, FALSE} /\ broken' = "no" /\ UNCHANGED faults
     \/ scanNeeded /\ AccessDone("read")
  /\ touched' = (touched \/ scanNeeded)
  /\ scanNeeded' = FALSE
  /\ flush' = "no"
  /\ pc' = IF exitReason = "EXIT_UNKNOWN" THEN "run" ELSE "leave"
  /\ UNCHANGED <<quietLoops, flushAfterLoops, buttonVars, outside, sinceBusy,
                 lineRun, failing>>

\* Eject: what cannot be flushed now is lost, and the files are closed.  The
\* loop returns, and of its locals only exitReason is left.
Leave ==
  /\ pc = "leave"
  /\ pc' = "browsing"
  /\ dirty' = FALSE /\ broken' = "no"
  /\ scanNeeded' = TRUE
  /\ quietLoops' = 0 /\ flushAfterLoops' = FLUSH_IDLE_LOOPS /\ touched' = FALSE
  /\ resetButtonPrev' = FALSE /\ exitButtonPrev' = FALSE /\ resetCount' = 0
  /\ sinceBusy' = 0 /\ lineRun' = 0
  /\ flush' = "no" /\ failing' = FALSE
  /\ UNCHANGED <<exitReason, outside, faults>>

\* emulator() has used the exitReason; it does not look at it again.
Return ==
  /\ pc = "browsing"
  /\ exitReason # "EXIT_UNKNOWN"
  /\ exitReason' = "EXIT_UNKNOWN"
  /\ UNCHANGED <<pc, idleVars, resetButtonPrev, exitButtonPrev, resetCount,
                 diskVars, outside, history>>

\* A disk is mounted, which scans it, and the loop is entered: its locals are
\* set, and the drive is reset.
Start ==
  /\ pc = "browsing"
  /\ pc' = "reset"
  /\ quietLoops' = 0
  /\ flushAfterLoops' = FLUSH_IDLE_LOOPS
  /\ touched' = TRUE
  /\ resetButtonPrev' = FALSE /\ exitButtonPrev' = FALSE
  /\ exitReason' = "EXIT_UNKNOWN" /\ resetCount' = 0
  /\ scanNeeded' = FALSE
  /\ sinceBusy' = 0 /\ lineRun' = 0
  /\ flush' = "no" /\ failing' = FALSE
  /\ UNCHANGED <<dirty, broken, outside, faults>>

-----------------------------------------------------------------------------
(* The computer and the user. *)

Outside ==
  /\ \/ /\ host' \in {"active", "quiet"} \ {host}
        /\ UNCHANGED <<held, line>>
     \/ /\ \E b \in {"RESET", "EXIT"} :
             held' = IF b \in held THEN held \ {b} ELSE held \union {b}
        /\ UNCHANGED <<host, line>>
     \/ /\ line' = ~line
        /\ UNCHANGED <<host, held>>
  /\ UNCHANGED <<pc, idleVars, buttonVars, diskVars, history>>

Init ==
  /\ pc = "browsing"
  /\ quietLoops = 0 /\ flushAfterLoops = FLUSH_IDLE_LOOPS /\ touched = FALSE
  /\ resetButtonPrev = FALSE /\ exitButtonPrev = FALSE
  /\ exitReason = "EXIT_UNKNOWN" /\ resetCount = 0
  /\ dirty = FALSE /\ broken = "no" /\ scanNeeded = TRUE
  /\ host \in {"active", "quiet"} /\ held = {} /\ line = FALSE
  /\ flush = "no" /\ sinceBusy = 0 /\ lineRun = 0
  /\ failing = FALSE
  /\ faults = 0

Loop ==
  \/ \E access \in Accesses, atn \in BOOLEAN : Run(access, atn)
  \/ ButtonReset
  \/ \E quit \in Quits : Controls(quit)
  \/ Reset
  \/ Leave

Next == Start \/ Loop \/ Return \/ Outside

Spec == Init /\ [][Next]_vars

\* Core 1 keeps running; nobody has to mount a disk.
FairSpec == Spec /\ WF_vars(Loop)

-----------------------------------------------------------------------------
(* Properties. *)

\* The delay stays under its ceiling and an idle drive never waits longer.
DelayOK ==
  /\ flushAfterLoops \in FLUSH_IDLE_LOOPS .. FLUSH_MAX_LOOPS
  /\ quietLoops \in 0 .. flushAfterLoops - 1

CountersOK ==
  /\ resetCount \in 0 .. ResetLoops
  /\ lineRun \in 0 .. ResetLoops + 1
  /\ sinceBusy \in 0 .. FLUSH_IDLE_LOOPS
  /\ faults \in 0 .. MaxFaults

FlagsOK ==
  /\ touched \in BOOLEAN
  /\ resetButtonPrev \in BOOLEAN /\ exitButtonPrev \in BOOLEAN
  /\ dirty \in BOOLEAN /\ scanNeeded \in BOOLEAN
  /\ line \in BOOLEAN /\ failing \in BOOLEAN
  /\ held \subseteq {"RESET", "EXIT"}

NamesOK ==
  /\ pc \in {"browsing", "run", "controls", "reset", "leave"}
  /\ exitReason \in {"EXIT_UNKNOWN", "EXIT_KEYBOARD", "EXIT_AUTOLOAD"}
  /\ host \in {"active", "quiet"}
  /\ flush \in {"no", "ok", "failed"}
  /\ broken \in {"no", "image", "data"}

\* Every variable has its type.
TypeOK == DelayOK /\ CountersOK /\ FlagsOK /\ NamesOK

\* The card is touched "only once nothing has touched the disk and ATN has been
\* released for a while": an idle flush has FLUSH_IDLE_LOOPS quiet iterations
\* behind it, whatever resets and failures came between.
FlushOnlyWhenIdle == flush # "no" => sinceBusy >= FLUSH_IDLE_LOOPS

\* A longer delay is the consequence of a flush that failed in this emulation,
\* not in an earlier one.
DelayIsEarned == flushAfterLoops > FLUSH_IDLE_LOOPS => failing

\* When the card is touched: never early, and late only because of a failure.
FlushesAreEarned == FlushOnlyWhenIdle /\ DelayIsEarned

\* Only a reset line that was asserted for more than ResetLoops samples in a
\* row, or the RESET button, resets the drive.
ResetIsMeant ==
  [][pc = "controls" /\ pc' = "reset" => ResetReleased \/ lineRun' > ResetLoops]_vars

\* Data the computer was told had been written reaches the card, or the disk is
\* ejected, once the computer leaves the drive alone and does not hold the reset
\* line; unless its file has met an error FatFS keeps.  Flushes that fail in
\* f_sync are retried, and those are finitely many.
DataGoesOut ==
  [](dirty /\ [](host = "quiet" /\ ~line /\ broken # "data") => <>(~dirty))

\* Behind such an error nothing gets out, but the loop goes on trying: the
\* back-off has a ceiling and is never the last attempt.
RetriesGoOn ==
  <>[](host = "quiet" /\ ~line /\ broken = "data") => []<>(flush = "failed")

\* What is acknowledged is not forgotten while the drive is left alone.
WritesGoOut == DataGoesOut /\ RetriesGoOn

\* The loop saw the EXIT button pressed; when it stays released, and the reset
\* line too, the emulation ends, also when RESET is let go at the same time.
ExitIsSeen ==
  [](exitButtonPrev /\ [](held = {} /\ ~line) => <>(pc = "browsing"))

==============================================================================
