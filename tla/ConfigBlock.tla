----------------------------- MODULE ConfigBlock -----------------------------
(***************************************************************************)
(* The drive around the SCSI target: class PiCMDHD of                      *)
(* src/emulation/picmdhd.cpp.  It mounts a disk and its companions, looks  *)
(* for the CMD configuration block on disk 0, patches the device number in *)
(* it, erases it on FORMAT UNIT, and chooses the mode to start up in from  *)
(* the front panel buttons.                                                *)
(*                                                                         *)
(* A scan for the block stops the emulated processor until it is over, so  *)
(* it is one action; any of its reads may fail.  A sector either carries   *)
(* the CMD signature, with a device number, or it does not.                *)
(***************************************************************************)
EXTENDS Integers, FiniteSets

CONSTANTS
  Stride,             \* 128: the distance of the places a scan looks at
  SmallDisk,          \* 144: a smaller disk cannot hold HDOS
  INVALID_BASELBA,
  Numbers,            \* the device numbers a configuration block may hold
  Unsigned,           \* a sector without the CMD signature
  NotForced,          \* 0: respect the number on the disk
  ForcedDeviceIDs,    \* what options.txt may force
  Sizes,              \* bound: the sectors of the images for disk 0
  Signable,           \* bound: where an image may carry a signature
  Companions,         \* the other SCSI units an image can be found for
  CompanionSectors,   \* bound: the sectors of a companion the host writes
  HoldTimes,          \* how long the SWAP buttons are held: cold, warm boot
  Pressable,          \* bound: the buttons the user presses
  MaxResets,          \* bound: number of resets while a disk is mounted
  MaxFaults           \* bound: number of card faults

Buttons == {"WP", "SWAP8", "SWAP9"}
InstallButtons == {"SWAP8", "SWAP9"}
PanelModes == {"PANEL_NONE", "PANEL_INSTALL", "PANEL_CONFIG"}
Blocks == Numbers \union {Unsigned}

ASSUME ConfigAssumption ==
  /\ Stride \in Nat \ {0} /\ SmallDisk \in Nat
  /\ Sizes \subseteq Nat /\ CompanionSectors \subseteq Nat
  /\ Signable \subseteq Nat
  /\ INVALID_BASELBA \notin Nat
  /\ Unsigned \notin Numbers
  /\ ForcedDeviceIDs \subseteq Numbers \union {NotForced}
  /\ NotForced \notin Numbers
  /\ HoldTimes \subseteq Nat \ {0}
  /\ Pressable \subseteq Buttons
  /\ IsFiniteSet(Companions)
  /\ MaxResets \in Nat \ {0} /\ MaxFaults \in Nat

VARIABLES
  power,        \* "ejected", "inserted" (not started yet) or "on"
  disk,         \* disk[0]
  companions,   \* the other attached images
  imagesize,
  baselba,
  scanNeeded,
  scanCut,      \* did a read error end the latest scan?
  forcedDeviceID,
  held,         \* the buttons the user holds down
  buttons,      \* buttonWP, buttonSwap8, buttonSwap9: those last sampled
  virtual,      \* virtualButtonMask
  countdown,    \* virtualButtonCountdown
  inputs,       \* i8255a_i[1]: the buttons HDOS sees pressed
  panelMode,
  reply,        \* what the latest SCSI command on disk 0 gave the host
  resets,       \* number of resets since the disk was mounted
  faults        \* number of card faults

scanVars == <<imagesize, baselba, scanNeeded, scanCut>>
panelVars == <<held, buttons, virtual, countdown, inputs, panelMode>>
vars == <<power, disk, companions, scanVars, forcedDeviceID, panelVars, reply,
          resets, faults>>

NoReply == [op |-> "none"]
NoDisk == [attached |-> FALSE, size |-> 0, readOnly |-> FALSE,
           block |-> [a \in Signable |-> Unsigned]]

Larger(m, n) == IF m > n THEN m ELSE n

-----------------------------------------------------------------------------
(* Looking for the configuration block. *)

\* What a sector of a disk carries; sectors beyond its end read as zeros.
Block(d, a) == IF a < d.size /\ a \in Signable THEN d.block[a] ELSE Unsigned

HasSig(d, a) == Block(d, a) # Unsigned

\* The sectors a scan reads: every Stride-th one below n.
Candidates(start, n) == {start + Stride * k : k \in 0 .. n} \intersect 0 .. n - 1

\* The candidates a scan of d reaches: no signature comes before them.
Reached(d, start, n) ==
  {a \in Candidates(start, n) :
     \A b \in Candidates(start, n) : b < a => ~HasSig(d, b)}

\* The sector the scan finds the signature in: one, or none.
Found(d, start, n) == {a \in Reached(d, start, n) : HasSig(d, a)}

\* The reads of the card the scan makes; one may fail.
CardReads(d, start, n) == {a \in Reached(d, start, n) : a < d.size}

\* The base of the CMD partition area is two sectors before the block.
BaseOf(found) ==
  IF found = {} THEN INVALID_BASELBA ELSE (CHOOSE a \in found : TRUE) - 2

Fault == faults < MaxFaults /\ faults' = faults + 1

\* FindBaseLBA on disk d, when imagesize is n.
FindBaseLBA(d, n) ==
  IF ~d.attached
  THEN baselba' = INVALID_BASELBA /\ UNCHANGED <<scanNeeded, scanCut, faults>>
  ELSE /\ scanNeeded' = FALSE
       /\ \/ /\ baselba' = BaseOf(Found(d, 2, n))
             /\ scanCut' = FALSE
             /\ UNCHANGED faults
          \/ /\ CardReads(d, 2, n) # {}
             /\ Fault
             /\ baselba' = INVALID_BASELBA
             /\ scanCut' = TRUE

-----------------------------------------------------------------------------
(* Mounting. *)

Disks ==
  UNION {[attached : {TRUE}, size : {n}, readOnly : BOOLEAN,
          block : {b \in [Signable -> Blocks] :
                     \A a \in Signable : a >= n => b[a] = Unsigned}]
         : n \in Sizes}

\* Insert: disk 0, and the companions found beside it.
Insert(d, cs) ==
  /\ power = "ejected"
  /\ power' = "inserted"
  /\ disk' = d
  /\ companions' = cs
  /\ imagesize' = d.size
  /\ FindBaseLBA(d, d.size)
  /\ resets' = 0
  /\ UNCHANGED <<forcedDeviceID, panelVars, reply>>

\* Eject, when the emulation ends.
Eject ==
  /\ power = "on"
  /\ power' = "ejected"
  /\ disk' = NoDisk
  /\ companions' = {}
  /\ imagesize' = 0
  /\ baselba' = INVALID_BASELBA
  /\ scanNeeded' = TRUE
  /\ scanCut' = FALSE
  /\ reply' = NoReply
  /\ UNCHANGED <<forcedDeviceID, panelVars, resets, faults>>

-----------------------------------------------------------------------------
(* Reset and the front panel. *)

Units == Cardinality(companions) + (IF disk.attached THEN 1 ELSE 0)

\* Disk 0 is too small for HDOS.
TooSmall == disk.attached /\ imagesize < SmallDisk

\* The mode the panel asks for when these buttons are pressed.
ModeOf(pressed, install) ==
  IF install \/ InstallButtons \subseteq pressed THEN "PANEL_INSTALL"
  ELSE IF "WP" \in pressed THEN "PANEL_CONFIG" ELSE "PANEL_NONE"

\* Reset: FlushSome first, which is module DiskCache's; then the scan, when a
\* write may have moved the block; a disk that is too small starts up in
\* installation mode, or leaves when it has company.  The loop passes the
\* buttons on before it resets; the reset that starts the emulation comes
\* before the loop, and finds the buttons of the last emulation.
Reset ==
  LET install == TooSmall /\ Units = 1
  IN  /\ power # "ejected"
      /\ resets < MaxResets
      /\ resets' = resets + 1
      /\ power' = "on"
      /\ IF scanNeeded THEN FindBaseLBA(disk, imagesize)
         ELSE UNCHANGED <<baselba, scanNeeded, scanCut, faults>>
      /\ disk' = IF TooSmall /\ ~install THEN NoDisk ELSE disk
      /\ virtual' = IF install THEN InstallButtons ELSE {}
      /\ countdown' \in IF install THEN HoldTimes ELSE {0}
      /\ buttons' = IF power = "on" THEN held ELSE buttons
      /\ panelMode' = ModeOf(buttons', install)
      /\ inputs' = buttons' \union virtual'
      /\ reply' = NoReply
      /\ UNCHANGED <<companions, imagesize, forcedDeviceID, held>>

\* The user presses a button or lets it go, also while nothing is mounted.
Press(b) ==
  /\ held' = IF b \in held THEN held \ {b} ELSE held \union {b}
  /\ UNCHANGED <<power, disk, companions, scanVars, forcedDeviceID, buttons,
                 virtual, countdown, inputs, panelMode, reply, resets, faults>>

\* The emulation loop passes the buttons on: SetSwap8Button, SetSwap9Button,
\* SetWPButton, which do nothing when nothing changed.
SetButtons ==
  /\ power = "on"
  /\ buttons # held
  /\ buttons' = held
  /\ inputs' = buttons' \union virtual
  /\ UNCHANGED <<power, disk, companions, scanVars, forcedDeviceID, held,
                 virtual, countdown, panelMode, reply, resets, faults>>

\* Mutant of Update: the buttons are never let go.
UpdateKeepsHolding ==
  /\ power = "on"
  /\ countdown > 0
  /\ countdown' = countdown - 1
  /\ UNCHANGED <<power, disk, companions, scanVars, forcedDeviceID, held,
                 buttons, virtual, inputs, panelMode, reply, resets, faults>>

\* Update, once per processor cycle.
Update ==
  /\ power = "on"
  /\ countdown > 0
  /\ countdown' = countdown - 1
  /\ virtual' = IF countdown' = 0 THEN {} ELSE virtual
  /\ inputs' = buttons \union virtual'
  /\ UNCHANGED <<power, disk, companions, scanVars, forcedDeviceID, held,
                 buttons, panelMode, reply, resets, faults>>

-----------------------------------------------------------------------------
(* The SCSI commands.  ScsiTarget checks the range before it comes here. *)

\* cmdhd_scsiread on disk 0: the block at the known base gets the forced
\* number; when it lost the signature, the base is not known any more.
Patches(a) ==
  /\ forcedDeviceID # NotForced
  /\ baselba # INVALID_BASELBA
  /\ a = baselba + 2

HostRead(a) ==
  /\ power = "on" /\ disk.attached /\ a < disk.size
  /\ LET was == Block(disk, a)
     IN  /\ reply' = [op |-> "read", address |-> a, was |-> was,
                      now |-> IF Patches(a) /\ was # Unsigned
                              THEN forcedDeviceID ELSE was]
         /\ baselba' = IF Patches(a) /\ was = Unsigned
                       THEN INVALID_BASELBA ELSE baselba
  /\ UNCHANGED <<power, disk, companions, imagesize, scanNeeded, scanCut,
                 forcedDeviceID, panelVars, resets, faults>>

\* Mutant of Wrote: only a write that makes the image larger asks for a scan.
WroteBeyond(a) ==
  /\ scanNeeded' = (scanNeeded \/ a >= imagesize)
  /\ imagesize' = Larger(imagesize, a + 1)

\* cmdhd_scsiwrite: any write, also one that fails afterwards.
Wrote(a) ==
  /\ scanNeeded' = TRUE
  /\ imagesize' = Larger(imagesize, a + 1)

\* The sector of disk 0 gets v, unless the image or the card refuses it.
Stored(a, v) ==
  /\ ~disk.readOnly
  /\ disk' = [disk EXCEPT !.block[a] = v]
  /\ UNCHANGED faults

Refused ==
  /\ \/ disk.readOnly /\ UNCHANGED faults
     \/ ~disk.readOnly /\ Fault
  /\ UNCHANGED disk

HostWrite(a, v) ==
  /\ power = "on" /\ disk.attached /\ a < disk.size
  /\ Wrote(a)
  /\ Stored(a, v) \/ Refused
  /\ reply' = NoReply
  /\ UNCHANGED <<power, companions, baselba, scanCut, forcedDeviceID,
                 panelVars, resets>>

\* A write to another unit goes through the same hook.
CompanionWrite(a) ==
  /\ power = "on" /\ companions # {}
  /\ Wrote(a)
  /\ reply' = NoReply
  /\ UNCHANGED <<power, disk, companions, baselba, scanCut, forcedDeviceID,
                 panelVars, resets, faults>>

-----------------------------------------------------------------------------
(* cmdhd_scsiformat. *)

FormatReply(ok) ==
  reply' = [op |-> "format", ok |-> ok]

\* The base on record is within the disk: start there.
BaseUsable == baselba # INVALID_BASELBA /\ baselba < imagesize

FormatStart == IF BaseUsable THEN baselba + 2 ELSE 2

\* The base on record is dropped when it is not used.
KeepUsable == baselba' = IF BaseUsable THEN baselba ELSE INVALID_BASELBA

\* Nothing to scan, or a sector that cannot be read.
FormatUnreadable ==
  /\ \/ imagesize = 0 /\ UNCHANGED <<baselba, faults>>
     \/ /\ imagesize > 0 /\ ~disk.attached
        /\ Candidates(FormatStart, imagesize) # {}
        /\ KeepUsable /\ UNCHANGED faults
     \/ /\ disk.attached
        /\ CardReads(disk, FormatStart, imagesize) # {}
        /\ KeepUsable /\ Fault
  /\ FormatReply(FALSE)
  /\ UNCHANGED <<disk, imagesize, scanNeeded>>

\* No signature up to the end.
FormatFindsNone ==
  /\ imagesize > 0
  /\ Found(disk, FormatStart, imagesize) = {}
  /\ disk.attached \/ Candidates(FormatStart, imagesize) = {}
  /\ KeepUsable
  /\ FormatReply(TRUE)
  /\ UNCHANGED <<disk, imagesize, scanNeeded, faults>>

\* Mutant of FormatErases: the result of the write is ignored.
FormatTrusts ==
  \E a \in Found(disk, FormatStart, imagesize) :
    /\ imagesize > 0 /\ disk.attached
    /\ baselba' = a - 2
    /\ Wrote(a)
    /\ Stored(a, Unsigned) \/ Refused
    /\ FormatReply(TRUE)

\* The first signature found is erased; the others stay.
FormatErases ==
  \E a \in Found(disk, FormatStart, imagesize) :
    /\ imagesize > 0 /\ disk.attached
    /\ baselba' = a - 2
    /\ Wrote(a)
    /\ \/ Stored(a, Unsigned) /\ FormatReply(TRUE)
       \/ Refused /\ FormatReply(FALSE)

Format ==
  /\ power = "on"
  /\ FormatUnreadable \/ FormatFindsNone \/ FormatErases
  /\ UNCHANGED <<power, companions, scanCut, forcedDeviceID, panelVars, resets>>

-----------------------------------------------------------------------------
(* The specification. *)

Init ==
  /\ power = "ejected"
  /\ disk = NoDisk
  /\ companions = {}
  /\ imagesize = 0
  /\ baselba = INVALID_BASELBA
  /\ scanNeeded = TRUE
  /\ scanCut = FALSE
  /\ forcedDeviceID \in ForcedDeviceIDs
  /\ held = {}
  /\ buttons = {}
  /\ virtual = {}
  /\ countdown = 0
  /\ inputs = Buttons     \* i8255a_i starts as zeros, and lines are active low
  /\ panelMode = "PANEL_NONE"
  /\ reply = NoReply
  /\ resets = 0
  /\ faults = 0

\* What the user and main.cpp do.
Panel ==
  \/ \E d \in Disks, cs \in SUBSET Companions : Insert(d, cs)
  \/ Eject
  \/ Reset
  \/ \E b \in Pressable : Press(b)
  \/ SetButtons

\* What the SCSI target calls.
Host ==
  \/ \E a \in Signable :
       \/ HostRead(a)
       \/ \E v \in Blocks : HostWrite(a, v)
  \/ \E a \in CompanionSectors : CompanionWrite(a)
  \/ Format

Next == Panel \/ Update \/ Host

Spec == Init /\ [][Next]_vars

-----------------------------------------------------------------------------
(* Properties. *)

DiskOK ==
  /\ disk.attached \in BOOLEAN /\ disk.readOnly \in BOOLEAN
  /\ disk.size \in Nat
  /\ disk.block \in [Signable -> Blocks]

\* Every variable has its type.
TypeOK ==
  /\ power \in {"ejected", "inserted", "on"}
  /\ DiskOK
  /\ companions \subseteq Companions
  /\ imagesize \in Nat
  /\ baselba \in Nat \union {INVALID_BASELBA}
  /\ scanNeeded \in BOOLEAN /\ scanCut \in BOOLEAN
  /\ forcedDeviceID \in ForcedDeviceIDs
  /\ held \subseteq Buttons /\ buttons \subseteq Buttons
  /\ virtual \subseteq Buttons /\ inputs \subseteq Buttons
  /\ countdown \in Nat
  /\ panelMode \in PanelModes
  /\ reply.op \in {"none", "read", "format"}
  /\ resets \in 0 .. MaxResets /\ faults \in 0 .. MaxFaults

\* A scan has read disk 0 to the end and nothing has written since.
Known ==
  power # "ejected" /\ disk.attached /\ ~scanNeeded /\ ~scanCut

\* baselba is where the first configuration block of the disk is.
BaseIsRight ==
  IF Found(disk, 2, disk.size) = {} THEN baselba = INVALID_BASELBA
  ELSE \E a \in Found(disk, 2, disk.size) : baselba = a - 2

\* Whatever was written, erased, reset or mounted: as long as no scan is asked
\* for, the base on record is that of the block on the disk.
BaseIsFirst == Known => BaseIsRight

\* The host that reads the configuration block of a disk nobody has written
\* sees the device number the user forces.
ForcedNumberIsSeen ==
  /\ reply.op = "read" /\ Known /\ forcedDeviceID # NotForced
  /\ reply.address \in Found(disk, 2, disk.size)
  => reply.now = forcedDeviceID

\* A disk too small for HDOS starts up in installation mode, or is out of the
\* way when there are other disks; it goes for no other reason.
SmallDiskAlone ==
  power = "on" =>
    /\ disk.attached /\ disk.size < SmallDisk =>
         companions = {} /\ panelMode = "PANEL_INSTALL"
    /\ companions = {} => disk.attached

\* The disks and the block that says which is the first are what the firmware
\* of the drive finds on the bus, whatever was mounted, written or reset.
DisksAreFound == BaseIsFirst /\ ForcedNumberIsSeen /\ SmallDiskAlone

\* The configuration blocks of a disk: the signatures where a scan looks.
Signatures(d) == {a \in Candidates(2, d.size) : HasSig(d, a)}

\* FORMAT UNIT reports success on a disk that had one configuration block, and
\* nothing has been written since the scan: the block is gone.
FormatErasesOne ==
  [][/\ Known /\ Cardinality(Signatures(disk)) <= 1
     /\ reply'.op = "format" /\ reply'.ok
     => Signatures(disk') = {}]_vars

==============================================================================
