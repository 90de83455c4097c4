--------------------------- MODULE DriveBoardProofs ---------------------------
(***************************************************************************)
(* Proofs about the board of the drive: port C that sets its map, the      *)
(* configuration block of the disk, the front panel, the buttons and the   *)
(* clock, for every disk, every mode and byte of the program, every        *)
(* date and all the times between two polls or accesses, over mounts,      *)
(* resets and SCSI commands.                                               *)
(***************************************************************************)
EXTENDS DriveBoard, FiniteSetTheorems, SequenceTheorems, WellFoundedInduction, TLAPS

\* What drives port C is what its latch and its mode say.
PortCFollows ==
  /\ DOMAIN latches = {"b", "c"}
  /\ i8255a_o = PortC(ctrl, latches["c"])

-----------------------------------------------------------------------------
(* Only the program moves the memory and the port; a reset resets the port. *)

LEMMA MapSteps ==
  ASSUME [BoardNext]_boardVars
  PROVE  \/ UNCHANGED mapVars
         \/ MapNext
         \/ ResetU11 /\ UNCHANGED <<ram, LEDs>>
<1>1. CASE PanelAndReset BY <1>1 DEF PanelAndReset
<1>2. CASE FingersAct BY <1>2 DEF FingersAct
<1>3. CASE Runs
  <2>1. CASE program = "memory" BY <1>3, <2>1 DEF Runs
  <2>2. CASE program = "scsi" /\ UNCHANGED <<mapVars, clockVars>> BY <2>2 DEF mapVars
  <2>3. CASE program = "clock" /\ UNCHANGED <<vars, mapVars>> BY <2>3 DEF mapVars
  <2> QED BY <1>3, <2>1, <2>2, <2>3 DEF Runs
<1>4. CASE Update /\ UNCHANGED <<mapVars, clockVars, fingerVars, program>>
  BY <1>4
<1>5. CASE UNCHANGED boardVars BY <1>5 DEF boardVars
<1> QED BY <1>1, <1>2, <1>3, <1>4, <1>5 DEF BoardNext

-----------------------------------------------------------------------------
(* Port C. *)

LEMMA InputsArePulled ==
  ASSUME NEW inputs_, NEW latch, Halves \subseteq inputs_
  PROVE  PortC(inputs_, latch) = PulledC
BY DEF PortC, Halves, PulledC, LinesOf, Low, High

LEMMA InitPortC == BoardInit => PortCFollows
BY DEF BoardInit, MapInit, PortCFollows, PortC, Halves, LinesOf

LEMMA NextPortC ==
  ASSUME PortCFollows, [BoardNext]_boardVars
  PROVE  PortCFollows'
<1>1. CASE UNCHANGED <<ctrl, latches, i8255a_o>>
  BY <1>1 DEF PortCFollows, PortC
<1>2. CASE ResetU11
  BY <1>2, InputsArePulled DEF ResetU11, PortCFollows, Halves
<1>3. CASE \E s \in SUBSET {"b", "l", "h"} : SetMode(s)
  BY <1>3 DEF SetMode, PortCFollows, PortC
<1>4. ASSUME NEW p \in {"b", "c"}, NEW byte \in Bytes, WritePort(p, byte)
      PROVE  PortCFollows'
  <2>1. CASE p = "c" /\ ~(Halves \subseteq ctrl)
    BY <1>4, <2>1 DEF WritePort, PortCFollows, PortC
  <2>2. CASE p = "c" /\ Halves \subseteq ctrl
    BY <1>4, <2>2, InputsArePulled DEF WritePort, PortCFollows
  <2>3. CASE p = "b"
    BY <1>4, <2>3 DEF WritePort, PortCFollows, PortC
  <2> QED BY <2>1, <2>2, <2>3
<1> QED
  BY <1>1, <1>2, <1>3, <1>4, MapSteps
  DEF MapNext, StoreU11, SetBit, WriteMemory, mapVars

\* What the program reads back from port C is what the port drives, through every
\* mode, write and reset, whichever half is an input.
THEOREM PortCIsReadBack == BoardSpec => []PortCIsTold
<1>1. PortCFollows => PortCIsTold
  BY DEF PortCFollows, PortCIsTold, ReadPort
<1> QED BY InitPortC, NextPortC, <1>1, PTL DEF BoardSpec

-----------------------------------------------------------------------------
(* Looking for the configuration block. *)

LEMMA StrideTimes ==
  ASSUME NEW k \in Nat
  PROVE  Stride * k \in Nat /\ Stride * k >= k
BY ConfigAssumption

\* How far a scan may go does not matter for a sector it passes.
LEMMA CandidatesBelow ==
  ASSUME NEW m \in Nat, NEW n \in Nat, m <= n, NEW a \in Int, a < m
  PROVE  a \in Candidates(2, n) <=> a \in Candidates(2, m)
<1>1. ASSUME a \in Candidates(2, n) PROVE a \in Candidates(2, m)
  <2>1. PICK k \in 0 .. n : a = 2 + Stride * k
    BY <1>1 DEF Candidates
  <2>2. k \in 0 .. m /\ a \in 0 .. m - 1
    BY <2>1, StrideTimes
  <2> QED BY <2>1, <2>2 DEF Candidates
<1>2. ASSUME a \in Candidates(2, m) PROVE a \in Candidates(2, n)
  BY <1>2 DEF Candidates
<1> QED BY <1>1, <1>2

\* A scan finds one sector at most.
LEMMA FoundOnce ==
  ASSUME NEW d, NEW start, NEW n \in Nat,
         NEW a \in Found(d, start, n), NEW b \in Found(d, start, n)
  PROVE  a = b
<1>1. a \in Int /\ b \in Int
  BY DEF Found, Reached, Candidates
<1> QED BY <1>1 DEF Found, Reached

\* A scan that believes the disk to be larger than it is finds the same sector.
LEMMA FoundInside ==
  ASSUME NEW d, d.size \in Nat, NEW n \in Nat, d.size <= n
  PROVE  Found(d, 2, n) = Found(d, 2, d.size)
<1>1. ASSUME NEW a, HasSig(d, a) PROVE a < d.size
  BY <1>1 DEF HasSig, Block
<1>2. \A m \in Nat : \A a \in Candidates(2, m) : a \in Int
  BY DEF Candidates
<1>3. ASSUME NEW a \in Found(d, 2, n) PROVE a \in Found(d, 2, d.size)
  <2>1. a \in Candidates(2, n) /\ HasSig(d, a) /\ a \in Int
    BY <1>2 DEF Found, Reached
  <2>2. a \in Candidates(2, d.size)
    BY <1>1, <2>1, CandidatesBelow
  <2>3. ASSUME NEW b \in Candidates(2, d.size), b < a PROVE ~HasSig(d, b)
    <3>1. b \in Int /\ b < d.size
      BY <2>3 DEF Candidates
    <3>2. b \in Candidates(2, n)
      BY <3>1, CandidatesBelow
    <3> QED BY <3>2, <2>3 DEF Found, Reached
  <2> QED BY <2>1, <2>2, <2>3 DEF Found, Reached
<1>4. ASSUME NEW a \in Found(d, 2, d.size) PROVE a \in Found(d, 2, n)
  <2>1. a \in Candidates(2, d.size) /\ HasSig(d, a) /\ a \in Int
    BY <1>2 DEF Found, Reached
  <2>2. a < d.size
    BY <2>1 DEF Candidates
  <2>3. a \in Candidates(2, n)
    BY <2>1, <2>2, CandidatesBelow
  <2>4. ASSUME NEW b \in Candidates(2, n), b < a PROVE ~HasSig(d, b)
    <3>1. b \in Int /\ b < d.size
      BY <2>4, <2>1, <2>2 DEF Candidates
    <3>2. b \in Candidates(2, d.size)
      BY <3>1, CandidatesBelow
    <3> QED BY <3>2, <2>4 DEF Found, Reached
  <2> QED BY <2>1, <2>3, <2>4 DEF Found, Reached
<1> QED BY <1>3, <1>4

-----------------------------------------------------------------------------
(* The disks. *)

\* Disk 0 is a disk, and the size the drive keeps covers it; it is just the disk's
\* as long as no other unit can be written.
DiskIsWhole ==
  /\ disk \in [attached : BOOLEAN, size : Nat, readOnly : BOOLEAN,
               block : [Signable -> Blocks]]
  /\ companions \subseteq Companions
  /\ imagesize \in Nat
  /\ baselba \in Nat \union {INVALID_BASELBA}
  /\ disk.attached => disk.size <= imagesize
  /\ disk.attached /\ companions = {} => imagesize = disk.size

\* The drive starts with a disk, and a disk begins and ends without a reply.
EmulationBegins ==
  /\ power \in {"ejected", "inserted", "on"}
  /\ power = "inserted" => disk.attached /\ imagesize = disk.size
  /\ power # "on" => reply = NoReply

\* A format that reported success has left no configuration block.
FormatTold ==
  Known /\ Cardinality(Signatures(disk)) <= 1 /\ reply.op = "format" /\ reply.ok
  => Signatures(disk) = {}

DiskInv ==
  /\ DiskIsWhole /\ EmulationBegins
  /\ BaseIsFirst /\ ForcedNumberIsSeen /\ SmallDiskAlone /\ FormatTold

\* Someone presses or lets go a button.
HeldMoves ==
  UNCHANGED <<power, disk, companions, scanVars, forcedDeviceID, buttons,
              virtual, countdown, inputs, panelMode, reply, resets, faults>>

LEMMA ConfigSteps ==
  ASSUME [BoardNext]_boardVars
  PROVE  HeldMoves \/ Next
<1>0. ASSUME UNCHANGED vars PROVE HeldMoves
  BY <1>0 DEF vars, HeldMoves, panelVars
<1>1. CASE PanelAndReset
  <2>1. ASSUME NEW b \in Pressable, Press(b) PROVE HeldMoves
    BY <2>1 DEF Press, HeldMoves
  <2> QED BY <1>1, <2>1 DEF PanelAndReset, Next, Panel
<1>2. CASE FingersAct
  <2>1. ASSUME NEW dt \in Polls, LoopSamples(dt) PROVE HeldMoves
    BY <2>1 DEF LoopSamples, HeldMoves
  <2>2. ASSUME Entered PROVE UNCHANGED vars \/ Next
    BY <2>2 DEF Entered, Next, Panel
  <2> QED BY <1>0, <1>2, <2>1, <2>2 DEF FingersAct, Next, Panel
<1>3. CASE Runs BY <1>0, <1>3 DEF Runs, Next
<1>4. CASE Update BY <1>4 DEF Next
<1>5. CASE UNCHANGED boardVars BY <1>0, <1>5 DEF boardVars
<1> QED BY <1>1, <1>2, <1>3, <1>4, <1>5 DEF BoardNext

LEMMA InitDisk == BoardInit => DiskInv
BY ConfigAssumption
DEF BoardInit, Init, DiskInv, DiskIsWhole, EmulationBegins, BaseIsFirst, Known,
    ForcedNumberIsSeen, SmallDiskAlone, FormatTold, NoDisk, NoReply, Blocks

\* Nothing the invariant is about changes.
LEMMA DiskRests ==
  ASSUME DiskInv,
         UNCHANGED <<power, disk, companions, scanVars, forcedDeviceID, panelMode,
                     reply>>
  PROVE  DiskInv'
<1>1. /\ DiskIsWhole' /\ EmulationBegins'
      /\ BaseIsFirst' /\ SmallDiskAlone'
  BY DEF DiskInv, DiskIsWhole, EmulationBegins, BaseIsFirst, BaseIsRight, Known,
         SmallDiskAlone, scanVars
<1>2. ForcedNumberIsSeen' /\ FormatTold'
  BY DEF DiskInv, ForcedNumberIsSeen, FormatTold, Known, scanVars
<1> QED BY <1>1, <1>2 DEF DiskInv

\* A scan leaves the base of the first configuration block, or fails.
LEMMA ScanFinds ==
  ASSUME NEW d, d.size \in Nat, NEW n \in Nat, d.attached => d.size <= n,
         FindBaseLBA(d, n)
  PROVE  /\ baselba' \in Nat \union {INVALID_BASELBA}
         /\ d.attached /\ ~scanCut' =>
              IF Found(d, 2, d.size) = {} THEN baselba' = INVALID_BASELBA
              ELSE \E a \in Found(d, 2, d.size) : baselba' = a - 2
<1>1. CASE ~d.attached
  BY <1>1 DEF FindBaseLBA
<1>2. CASE baselba' = INVALID_BASELBA /\ scanCut' = TRUE
  BY <1>2
<1>3. CASE d.attached /\ baselba' = BaseOf(Found(d, 2, n)) /\ scanCut' = FALSE
  <2>1. Found(d, 2, n) = Found(d, 2, d.size)
    BY <1>3, FoundInside
  <2>2. CASE Found(d, 2, d.size) = {}
    BY <1>3, <2>1, <2>2 DEF BaseOf
  <2>3. CASE Found(d, 2, d.size) # {}
    <3>1. PICK a \in Found(d, 2, d.size) : baselba' = a - 2
      BY <1>3, <2>1, <2>3 DEF BaseOf
    <3>2. a \in Nat /\ a >= 2
      <4>1. PICK k \in 0 .. d.size : a = 2 + Stride * k
        BY DEF Found, Reached, Candidates
      <4> QED BY <4>1, StrideTimes
    <3> QED BY <1>3, <2>3, <3>1, <3>2
  <2> QED BY <2>2, <2>3
<1> QED BY <1>1, <1>2, <1>3 DEF FindBaseLBA

LEMMA InsertKeepsDisk ==
  ASSUME DiskInv, NEW d \in Disks, NEW cs \in SUBSET Companions, Insert(d, cs)
  PROVE  DiskInv'
<1>1. /\ d \in [attached : BOOLEAN, size : Nat, readOnly : BOOLEAN,
                block : [Signable -> Blocks]]
      /\ d.attached = TRUE
  <2> DEFINE Written(n) == {b \in [Signable -> Blocks] :
                              \A a \in Signable : a >= n => b[a] = Unsigned}
  <2>1. PICK n \in Sizes :
          d \in [attached : {TRUE}, size : {n}, readOnly : BOOLEAN, block : Written(n)]
    BY DEF Disks
  <2>2. n \in Nat /\ Written(n) \subseteq [Signable -> Blocks]
    BY ConfigAssumption
  <2> HIDE DEF Written
  <2> QED BY <2>1, <2>2
<1>2. power = "ejected" /\ reply = NoReply /\ power' = "inserted" /\ disk' = d
      /\ companions' = cs /\ imagesize' = d.size /\ reply' = reply
      /\ FindBaseLBA(d, d.size)
  BY DEF Insert, DiskInv, EmulationBegins
<1>3. DiskIsWhole' /\ BaseIsFirst'
  BY <1>1, <1>2, ScanFinds DEF DiskIsWhole, BaseIsFirst, BaseIsRight, Known
<1>4. EmulationBegins' /\ ForcedNumberIsSeen' /\ SmallDiskAlone' /\ FormatTold'
  BY <1>1, <1>2
  DEF EmulationBegins, ForcedNumberIsSeen, SmallDiskAlone, FormatTold, NoReply
<1> QED BY <1>3, <1>4 DEF DiskInv

LEMMA EjectKeepsDisk ==
  ASSUME DiskInv, Eject
  PROVE  DiskInv'
BY ConfigAssumption
DEF Eject, DiskInv, DiskIsWhole, EmulationBegins, BaseIsFirst, Known,
    ForcedNumberIsSeen, SmallDiskAlone, FormatTold, NoDisk, NoReply, Blocks

\* One unit is attached exactly when disk 0 is and has no company.
LEMMA UnitsCounted ==
  ASSUME companions \subseteq Companions, disk.attached
  PROVE  Units = 1 <=> companions = {}
<1>1. IsFiniteSet(companions)
  BY ConfigAssumption, FS_Subset
<1> QED BY <1>1, FS_EmptySet, FS_CardinalityType DEF Units

LEMMA ResetKeepsDisk ==
  ASSUME DiskInv, Reset
  PROVE  DiskInv'
<1> DEFINE install == TooSmall /\ Units = 1
<1>1. /\ power # "ejected" /\ power' = "on"
      /\ disk' = IF TooSmall /\ ~install THEN NoDisk ELSE disk
      /\ panelMode' = ModeOf(buttons', install)
      /\ reply' = NoReply
      /\ UNCHANGED <<companions, imagesize, forcedDeviceID>>
      /\ IF scanNeeded THEN FindBaseLBA(disk, imagesize)
         ELSE UNCHANGED <<baselba, scanNeeded, scanCut>>
  BY DEF Reset
<1>2. DiskIsWhole'
  <2>1. baselba' \in Nat \union {INVALID_BASELBA}
    BY <1>1, ScanFinds DEF DiskInv, DiskIsWhole
  <2> QED BY <1>1, <2>1 DEF DiskInv, DiskIsWhole, NoDisk, Blocks
<1>3. EmulationBegins' /\ ForcedNumberIsSeen' /\ FormatTold'
  BY <1>1 DEF EmulationBegins, ForcedNumberIsSeen, FormatTold, NoReply
<1>4. BaseIsFirst'
  <2>1. CASE disk' = disk /\ scanNeeded
    BY <1>1, <2>1, ScanFinds
    DEF DiskInv, DiskIsWhole, BaseIsFirst, BaseIsRight, Known
  <2>2. CASE disk' = disk /\ ~scanNeeded
    BY <1>1, <2>2 DEF DiskInv, BaseIsFirst, BaseIsRight, Known
  <2>3. CASE disk' = NoDisk
    BY <2>3 DEF BaseIsFirst, Known, NoDisk
  <2> QED BY <1>1, <2>1, <2>2, <2>3
<1>5. SmallDiskAlone'
  <2>1. disk.attached => (Units = 1 <=> companions = {})
    BY UnitsCounted DEF DiskInv, DiskIsWhole
  <2>2. companions = {} => disk.attached
    BY <1>1 DEF DiskInv, EmulationBegins, SmallDiskAlone
  <2>3. CASE disk' = NoDisk /\ TooSmall /\ companions # {}
    BY <1>1, <2>3 DEF SmallDiskAlone, NoDisk
  <2>4. CASE disk' = disk /\ install
    BY <1>1, <2>1, <2>2, <2>4 DEF SmallDiskAlone, TooSmall, ModeOf
  <2>5. CASE disk' = disk /\ ~TooSmall
    <3>1. disk.attached => ~(imagesize < SmallDisk)
      BY <2>5 DEF TooSmall
    <3>2. disk.attached => ~(disk.size < SmallDisk)
      <4>1. CASE power = "inserted"
        BY <3>1, <4>1 DEF DiskInv, EmulationBegins
      <4>2. CASE power = "on"
        BY <3>1, <4>2 DEF DiskInv, DiskIsWhole, SmallDiskAlone
      <4> QED BY <1>1, <4>1, <4>2 DEF DiskInv, EmulationBegins
    <3> QED BY <1>1, <2>2, <2>5, <3>2 DEF SmallDiskAlone
  <2> QED BY <1>1, <2>1, <2>3, <2>4, <2>5 DEF TooSmall
<1> QED BY <1>2, <1>3, <1>4, <1>5 DEF DiskInv

\* What is known of a disk whose base is right.
LEMMA BaseOfDisk ==
  ASSUME DiskInv, Known, NEW a \in Found(disk, 2, disk.size)
  PROVE  /\ baselba = a - 2 /\ baselba # INVALID_BASELBA
         /\ a \in Nat /\ a >= 2 /\ a < disk.size
         /\ HasSig(disk, a) /\ a \in Candidates(2, disk.size)
<1>1. a \in Candidates(2, disk.size) /\ HasSig(disk, a) /\ disk.size \in Nat
  BY DEF Found, Reached, DiskInv, DiskIsWhole
<1>2. PICK k \in 0 .. disk.size : a = 2 + Stride * k
  BY <1>1 DEF Candidates
<1>3. a \in Nat /\ a >= 2 /\ a < disk.size
  BY <1>1, <1>2, StrideTimes DEF Candidates
<1>4. baselba = a - 2
  BY <1>1, FoundOnce DEF DiskInv, BaseIsFirst, BaseIsRight
<1> QED BY <1>1, <1>3, <1>4, ConfigAssumption

LEMMA HostReadKeepsDisk ==
  ASSUME DiskInv, NEW a \in Signable, HostRead(a)
  PROVE  DiskInv'
<1> DEFINE was == Block(disk, a)
<1>1. /\ power = "on" /\ disk.attached /\ a < disk.size
      /\ reply' = [op |-> "read", address |-> a, was |-> was,
                   now |-> IF Patches(a) /\ was # Unsigned
                           THEN forcedDeviceID ELSE was]
      /\ baselba' = IF Patches(a) /\ was = Unsigned
                    THEN INVALID_BASELBA ELSE baselba
      /\ UNCHANGED <<power, disk, companions, imagesize, scanNeeded, scanCut,
                     forcedDeviceID, panelMode>>
  BY DEF HostRead, panelVars
<1>2. DiskIsWhole' /\ EmulationBegins' /\ SmallDiskAlone' /\ FormatTold'
  BY <1>1
  DEF DiskInv, DiskIsWhole, EmulationBegins, SmallDiskAlone, FormatTold
<1>3. ASSUME Known PROVE baselba' = baselba
  <2>1. CASE Found(disk, 2, disk.size) = {}
    BY <1>1, <1>3, <2>1 DEF DiskInv, BaseIsFirst, BaseIsRight
  <2>2. CASE Found(disk, 2, disk.size) # {}
    <3>1. PICK b \in Found(disk, 2, disk.size) : TRUE
      BY <2>2
    <3>2. baselba = b - 2 /\ b \in Nat /\ HasSig(disk, b)
      BY <1>3, BaseOfDisk
    <3>3. a \in Nat
      BY ConfigAssumption
    <3>4. Patches(a) => a = b
      BY <3>2, <3>3 DEF Patches
    <3> QED BY <1>1, <3>2, <3>4 DEF HasSig
  <2> QED BY <2>1, <2>2
<1>4. Known' = Known
  BY <1>1 DEF Known
<1>5. BaseIsFirst'
  BY <1>1, <1>3, <1>4 DEF DiskInv, BaseIsFirst, BaseIsRight
<1>6. ForcedNumberIsSeen'
  <2> SUFFICES ASSUME Known, forcedDeviceID # NotForced,
                      a \in Found(disk, 2, disk.size)
               PROVE  reply'.now = forcedDeviceID
    BY <1>1, <1>4 DEF ForcedNumberIsSeen
  <2>1. baselba = a - 2 /\ baselba # INVALID_BASELBA /\ HasSig(disk, a) /\ a \in Nat
    BY BaseOfDisk
  <2> QED BY <1>1, <2>1 DEF Patches, HasSig
<1> QED BY <1>2, <1>5, <1>6 DEF DiskInv

LEMMA StoredOrRefused ==
  ASSUME DiskIsWhole, NEW a \in Signable, NEW v \in Blocks, Stored(a, v) \/ Refused
  PROVE  /\ disk' \in [attached : BOOLEAN, size : Nat, readOnly : BOOLEAN,
                       block : [Signable -> Blocks]]
         /\ disk'.size = disk.size /\ disk'.attached = disk.attached
BY DEF Stored, Refused, DiskIsWhole

\* Once something is written a scan is due: neither the base nor a format is
\* known to be right.
LEMMA WrittenKeepsDisk ==
  ASSUME DiskInv, power = "on", NEW a \in Nat, Wrote(a),
         (disk.attached /\ a < disk.size) \/ companions # {},
         /\ disk' \in [attached : BOOLEAN, size : Nat, readOnly : BOOLEAN,
                       block : [Signable -> Blocks]]
         /\ disk'.size = disk.size /\ disk'.attached = disk.attached,
         baselba' \in Nat \union {INVALID_BASELBA},
         reply'.op # "read",
         UNCHANGED <<power, companions, panelMode>>
  PROVE  DiskInv'
<1>1. imagesize' = Larger(imagesize, a + 1) /\ scanNeeded' = TRUE
  BY DEF Wrote
<1>2. /\ imagesize' \in Nat /\ imagesize <= imagesize'
      /\ disk.attached /\ companions = {} => imagesize' = disk.size
  BY <1>1 DEF DiskInv, DiskIsWhole, Larger
<1>3. DiskIsWhole'
  BY <1>2 DEF DiskInv, DiskIsWhole
<1>4. ~Known'
  BY <1>1 DEF Known
<1>5. BaseIsFirst' /\ ForcedNumberIsSeen' /\ FormatTold'
  BY <1>4 DEF BaseIsFirst, ForcedNumberIsSeen, FormatTold
<1>6. EmulationBegins' /\ SmallDiskAlone'
  BY DEF DiskInv, EmulationBegins, SmallDiskAlone
<1> QED BY <1>3, <1>5, <1>6 DEF DiskInv

LEMMA HostWriteKeepsDisk ==
  ASSUME DiskInv, NEW a \in Signable, NEW v \in Blocks, HostWrite(a, v)
  PROVE  DiskInv'
<1>1. /\ power = "on" /\ disk.attached /\ a < disk.size
      /\ Wrote(a) /\ (Stored(a, v) \/ Refused)
      /\ reply' = NoReply
      /\ UNCHANGED <<power, companions, baselba, panelMode>>
  BY DEF HostWrite, panelVars
<1>2. a \in Nat
  BY ConfigAssumption
<1> QED
  BY <1>1, <1>2, StoredOrRefused, WrittenKeepsDisk DEF DiskInv, DiskIsWhole, NoReply

LEMMA CompanionWriteKeepsDisk ==
  ASSUME DiskInv, NEW a \in CompanionSectors, CompanionWrite(a)
  PROVE  DiskInv'
<1>1. /\ power = "on" /\ companions # {} /\ Wrote(a) /\ reply' = NoReply
      /\ UNCHANGED <<power, disk, companions, baselba, panelMode>>
  BY DEF CompanionWrite, panelVars
<1>2. a \in Nat
  BY ConfigAssumption
<1> QED BY <1>1, <1>2, WrittenKeepsDisk DEF DiskInv, DiskIsWhole, NoReply

\* A format does not take the base on record from a disk whose base is right.
LEMMA KeepsKnownBase ==
  ASSUME DiskInv, KeepUsable
  PROVE  /\ baselba' \in Nat \union {INVALID_BASELBA}
         /\ Known => baselba' = baselba
<1>1. baselba' \in Nat \union {INVALID_BASELBA}
  BY DEF KeepUsable, DiskInv, DiskIsWhole
<1>2. ASSUME Known PROVE baselba' = baselba
  <2>1. CASE Found(disk, 2, disk.size) = {}
    BY <1>2, <2>1 DEF KeepUsable, DiskInv, BaseIsFirst, BaseIsRight
  <2>2. CASE Found(disk, 2, disk.size) # {}
    <3>1. PICK b \in Found(disk, 2, disk.size) : TRUE
      BY <2>2
    <3>2. baselba = b - 2 /\ baselba # INVALID_BASELBA /\ b \in Nat /\ b < disk.size
      BY <1>2, BaseOfDisk
    <3>3. imagesize \in Nat /\ disk.size \in Nat /\ disk.size <= imagesize
      BY <1>2 DEF DiskInv, DiskIsWhole, Known
    <3>4. b - 2 < imagesize
      BY <3>2, <3>3
    <3> QED BY <3>2, <3>4 DEF KeepUsable, BaseUsable
  <2> QED BY <2>1, <2>2
<1> QED BY <1>1, <1>2

\* A known disk with one configuration block, and no more: it is the one found.
LEMMA OneBlockIsFound ==
  ASSUME DiskInv, Known, Cardinality(Signatures(disk)) <= 1,
         NEW a \in Signatures(disk)
  PROVE  Signatures(disk) = {a} /\ a \in Found(disk, 2, disk.size)
<1>1. disk.size \in Nat /\ a \in Candidates(2, disk.size) /\ HasSig(disk, a)
  BY DEF DiskInv, DiskIsWhole, Signatures
<1>2. IsFiniteSet(Signatures(disk))
  <2>1. Signatures(disk) \subseteq 0 .. disk.size - 1
    BY DEF Signatures, Candidates
  <2>2. IsFiniteSet(0 .. disk.size - 1)
    BY <1>1, FS_Interval
  <2> QED BY <2>1, <2>2, FS_Subset
<1>3. Cardinality(Signatures(disk)) = 1
  <2>1. Cardinality(Signatures(disk)) \in Nat /\ Cardinality(Signatures(disk)) # 0
    BY <1>2, FS_CardinalityType, FS_EmptySet
  <2> QED BY <2>1
<1>4. Signatures(disk) = {a}
  BY <1>2, <1>3, FS_Singleton
<1>5. \A b \in Candidates(2, disk.size) : b < a => ~HasSig(disk, b)
  <2> SUFFICES ASSUME NEW b \in Candidates(2, disk.size), b < a, HasSig(disk, b)
               PROVE  FALSE
    OBVIOUS
  <2>1. b = a
    BY <1>4 DEF Signatures
  <2>2. a \in Int
    BY <1>1 DEF Candidates
  <2> QED BY <2>1, <2>2
<1> QED BY <1>1, <1>4, <1>5 DEF Found, Reached

LEMMA FormatStartIsNatural ==
  ASSUME DiskIsWhole
  PROVE  FormatStart \in Nat /\ FormatStart >= 2
BY DEF DiskIsWhole, FormatStart, BaseUsable

\* Where the base is used to begin with, it leads to the one block there is.
LEMMA StartsAtBlock ==
  ASSUME DiskInv, Known, BaseUsable
  PROVE  /\ FormatStart \in Found(disk, 2, disk.size)
         /\ FormatStart \in Candidates(FormatStart, imagesize)
         /\ HasSig(disk, FormatStart)
<1>1. PICK a \in Found(disk, 2, disk.size) : baselba = a - 2
  BY DEF BaseUsable, DiskInv, BaseIsFirst, BaseIsRight
<1>2. HasSig(disk, a) /\ a \in Nat /\ a < disk.size
  BY BaseOfDisk
<1>3. imagesize \in Nat /\ disk.size \in Nat /\ disk.size <= imagesize
  BY DEF DiskInv, DiskIsWhole, Known
<1>4. FormatStart = a
  BY <1>1, <1>2 DEF FormatStart
<1>5. a = a + Stride * 0 /\ 0 \in 0 .. imagesize /\ a \in 0 .. imagesize - 1
  BY <1>2, <1>3, ConfigAssumption
<1>6. a \in Candidates(a, imagesize)
  BY <1>5 DEF Candidates
<1> QED BY <1>2, <1>4, <1>6

\* A format begins at the block, or where a scan begins.
LEMMA StartsAtBlockOrFirst ==
  ASSUME DiskInv, NEW a \in Found(disk, FormatStart, imagesize), Known
  PROVE  a \in Signatures(disk)
<1>1. /\ imagesize \in Nat /\ disk.size \in Nat /\ disk.size <= imagesize
      /\ FormatStart \in Nat
  BY FormatStartIsNatural DEF DiskInv, DiskIsWhole, Known
<1>2. a \in Candidates(FormatStart, imagesize) /\ HasSig(disk, a) /\ a \in Int
      /\ a < disk.size
  BY DEF Found, Reached, Candidates, HasSig, Block
<1>3. CASE BaseUsable
  <2>1. ~(FormatStart < a)
    BY <1>3, StartsAtBlock DEF Found, Reached
  <2>2. PICK k \in 0 .. imagesize : a = FormatStart + Stride * k
    BY <1>2 DEF Candidates
  <2>3. a = FormatStart
    BY <1>1, <2>1, <2>2, StrideTimes
  <2> QED BY <1>3, <2>3, StartsAtBlock DEF Found, Reached, Signatures
<1>4. CASE ~BaseUsable
  BY <1>1, <1>2, <1>4, CandidatesBelow DEF FormatStart, Signatures
<1> QED BY <1>3, <1>4

LEMMA NoneIsThere ==
  ASSUME DiskInv, Known, Cardinality(Signatures(disk)) <= 1,
         Found(disk, FormatStart, imagesize) = {}
  PROVE  Signatures(disk) = {}
<1> SUFFICES ASSUME NEW a \in Signatures(disk) PROVE FALSE
  OBVIOUS
<1>1. Signatures(disk) = {a} /\ a \in Found(disk, 2, disk.size)
  BY OneBlockIsFound
<1>2. baselba = a - 2 /\ baselba # INVALID_BASELBA /\ a \in Nat /\ a < disk.size
  BY <1>1, BaseOfDisk
<1>3. imagesize \in Nat /\ disk.size \in Nat /\ disk.size <= imagesize
  BY DEF DiskInv, DiskIsWhole, Known
<1>4. BaseUsable
  <2>1. a - 2 < imagesize BY <1>2, <1>3
  <2> QED BY <1>2, <2>1 DEF BaseUsable
<1>5. ASSUME NEW b \in Candidates(FormatStart, imagesize) PROVE ~(b < FormatStart)
  <2>1. PICK k \in 0 .. imagesize : b = FormatStart + Stride * k
    BY <1>5 DEF Candidates
  <2>2. FormatStart \in Nat
    BY FormatStartIsNatural DEF DiskInv
  <2> QED BY <2>1, <2>2, StrideTimes
<1> QED BY <1>4, <1>5, StartsAtBlock DEF Found, Reached

\* A format that changes nothing.
LEMMA UnwrittenFormatKeepsDisk ==
  ASSUME DiskInv, power = "on", KeepUsable \/ UNCHANGED baselba,
         reply'.op = "format",
         Known /\ Cardinality(Signatures(disk)) <= 1 /\ reply'.ok
           => Signatures(disk) = {},
         UNCHANGED <<power, disk, companions, imagesize, scanNeeded, scanCut,
                     forcedDeviceID, panelMode>>
  PROVE  DiskInv'
<1>1. baselba' \in Nat \union {INVALID_BASELBA} /\ (Known => baselba' = baselba)
  BY KeepsKnownBase DEF DiskInv, DiskIsWhole
<1>2. Known' = Known /\ Signatures(disk)' = Signatures(disk)
  BY DEF Known, Signatures
<1>3. DiskIsWhole' /\ BaseIsFirst'
  BY <1>1, <1>2 DEF DiskInv, DiskIsWhole, BaseIsFirst, BaseIsRight
<1>4. EmulationBegins' /\ SmallDiskAlone' /\ ForcedNumberIsSeen'
  BY DEF DiskInv, EmulationBegins, SmallDiskAlone, ForcedNumberIsSeen
<1>5. FormatTold'
  BY <1>2 DEF FormatTold
<1> QED BY <1>3, <1>4, <1>5 DEF DiskInv

LEMMA FormatKeepsDisk ==
  ASSUME DiskInv, Format
  PROVE  DiskInv'
<1>1. /\ power = "on"
      /\ FormatUnreadable \/ FormatFindsNone \/ FormatErases
      /\ UNCHANGED <<power, companions, scanCut, forcedDeviceID, panelMode>>
  BY DEF Format, panelVars
<1>2. CASE FormatUnreadable
  <2>1. /\ reply' = [op |-> "format", ok |-> FALSE]
        /\ KeepUsable \/ UNCHANGED baselba
        /\ UNCHANGED <<disk, imagesize, scanNeeded>>
    BY <1>2 DEF FormatUnreadable, FormatReply
  <2> QED BY <1>1, <2>1, UnwrittenFormatKeepsDisk
<1>3. CASE FormatFindsNone
  <2>1. /\ reply' = [op |-> "format", ok |-> TRUE]
        /\ KeepUsable
        /\ Found(disk, FormatStart, imagesize) = {}
        /\ UNCHANGED <<disk, imagesize, scanNeeded>>
    BY <1>3 DEF FormatFindsNone, FormatReply
  <2> QED BY <1>1, <2>1, NoneIsThere, UnwrittenFormatKeepsDisk
<1>4. CASE FormatErases
  <2>1. PICK a \in Found(disk, FormatStart, imagesize) :
          /\ disk.attached /\ imagesize > 0 /\ baselba' = a - 2 /\ Wrote(a)
          /\ Stored(a, Unsigned) \/ Refused
          /\ reply'.op = "format"
    BY <1>4 DEF FormatErases, FormatReply
  <2>2. a \in Candidates(FormatStart, imagesize) /\ HasSig(disk, a)
    BY DEF Found, Reached
  <2>3. a \in Signable /\ a < disk.size
    BY <2>2 DEF HasSig, Block
  <2>4. a \in Nat /\ a >= 2
    <3>1. PICK k \in 0 .. imagesize : a = FormatStart + Stride * k
      BY <2>2 DEF Candidates
    <3>2. imagesize \in Nat /\ FormatStart \in Nat /\ FormatStart >= 2
      BY FormatStartIsNatural DEF DiskInv, DiskIsWhole
    <3> QED BY <3>1, <3>2, StrideTimes
  <2>5. Unsigned \in Blocks /\ a - 2 \in Nat
    BY <2>4 DEF Blocks
  <2> QED
    BY <1>1, <2>1, <2>3, <2>4, <2>5, StoredOrRefused, WrittenKeepsDisk DEF DiskInv
<1> QED BY <1>1, <1>2, <1>3, <1>4

LEMMA NextDisk ==
  ASSUME DiskInv, [BoardNext]_boardVars
  PROVE  DiskInv'
<1>1. CASE HeldMoves
  BY <1>1, DiskRests DEF HeldMoves, scanVars
<1>2. ASSUME NEW b \in Pressable, Press(b) PROVE DiskInv'
  BY <1>2, DiskRests DEF Press, scanVars
<1>3. CASE SetButtons
  BY <1>3, DiskRests DEF SetButtons, scanVars
<1>4. CASE Update
  BY <1>4, DiskRests DEF Update, scanVars
<1>5. CASE Panel
  BY <1>2, <1>3, <1>5, InsertKeepsDisk, EjectKeepsDisk, ResetKeepsDisk DEF Panel
<1>6. CASE Host
  BY <1>6, HostReadKeepsDisk, HostWriteKeepsDisk, CompanionWriteKeepsDisk,
     FormatKeepsDisk
  DEF Host
<1> QED BY <1>1, <1>4, <1>5, <1>6, ConfigSteps DEF Next

\* For every stride, image, companion and forced number, over any writes, formats,
\* resets, card faults and mounts: the base on record is that of the first
\* configuration block, the host sees the number forced on the drive, and a small
\* disk starts alone or goes.
THEOREM DisksStayFound == BoardSpec => []DisksAreFound
<1>1. DiskInv => DisksAreFound
  BY DEF DiskInv, DisksAreFound
<1> QED BY InitDisk, NextDisk, <1>1, PTL DEF BoardSpec

LEMMA ErasesOne ==
  ASSUME DiskInv, Format, Known, Cardinality(Signatures(disk)) <= 1, reply'.ok
  PROVE  Signatures(disk') = {}
<1>1. CASE FormatUnreadable
  BY <1>1 DEF FormatUnreadable, FormatReply
<1>2. CASE FormatFindsNone
  BY <1>2, NoneIsThere DEF FormatFindsNone
<1>3. CASE FormatErases
  <2>1. PICK a \in Found(disk, FormatStart, imagesize) : Stored(a, Unsigned)
    BY <1>3 DEF FormatErases, FormatReply
  <2>2. a \in Signatures(disk)
    BY StartsAtBlockOrFirst
  <2>3. Signatures(disk) = {a}
    BY <2>2, OneBlockIsFound
  <2>4. /\ disk'.size = disk.size /\ disk.block \in [Signable -> Blocks]
        /\ disk'.block = [disk.block EXCEPT ![a] = Unsigned]
    BY <2>1 DEF Stored, DiskInv, DiskIsWhole
  <2>5. ASSUME NEW x \in Candidates(2, disk.size), HasSig(disk', x)
        PROVE  x # a /\ HasSig(disk, x)
    BY <2>4, <2>5 DEF HasSig, Block
  <2> QED BY <2>3, <2>4, <2>5 DEF Signatures
<1> QED BY <1>1, <1>2, <1>3 DEF Format

LEMMA StepErases ==
  ASSUME DiskInv, [BoardNext]_boardVars, Known, Cardinality(Signatures(disk)) <= 1,
         reply'.op = "format", reply'.ok
  PROVE  Signatures(disk') = {}
<1>1. CASE UNCHANGED <<disk, reply>>
  BY <1>1 DEF DiskInv, FormatTold
<1>2. CASE Format
  BY <1>2, ErasesOne
<1>3. CASE HeldMoves \/ Update
  BY <1>1, <1>3 DEF HeldMoves, Update
<1>4. CASE Panel
  BY <1>1, <1>4
  DEF Panel, Insert, Eject, Reset, Press, SetButtons, NoReply, Known
<1>5. ASSUME NEW a \in Signable, NEW v \in Blocks, HostRead(a) \/ HostWrite(a, v)
      PROVE  FALSE
  BY <1>5 DEF HostRead, HostWrite, NoReply
<1>6. ASSUME NEW a \in CompanionSectors, CompanionWrite(a) PROVE FALSE
  BY <1>6 DEF CompanionWrite, NoReply
<1>7. Blocks # {}
  BY DEF Blocks
<1> QED BY <1>2, <1>3, <1>4, <1>5, <1>6, <1>7, ConfigSteps DEF Next, Host

\* FORMAT UNIT that reports success on a disk known to have one configuration block
\* leaves none, wherever it lies.
THEOREM FormatStaysTrue == BoardSpec => FormatErasesOne
<1>1. DiskInv /\ [BoardNext]_boardVars
      => [Known /\ Cardinality(Signatures(disk)) <= 1
          /\ reply'.op = "format" /\ reply'.ok
          => Signatures(disk') = {}]_vars
  BY StepErases
<1> QED
  BY InitDisk, NextDisk, <1>1, PTL DEF BoardSpec, FormatErasesOne

-----------------------------------------------------------------------------
(* The buttons the program sees. *)

\* The count that holds the buttons runs as long as they are held, and what the
\* port gets is what the user and the count hold.
PanelInv ==
  /\ held \subseteq Buttons /\ buttons \subseteq Buttons /\ virtual \subseteq Buttons
  /\ countdown \in Nat
  /\ virtual = {} <=> countdown = 0
  /\ power = "on" => inputs = buttons \union virtual

LEMMA InitPanel == BoardInit => PanelInv
BY DEF BoardInit, Init, PanelInv

LEMMA NextPanel ==
  ASSUME PanelInv, [BoardNext]_boardVars
  PROVE  PanelInv'
<1>1. CASE UNCHANGED <<held, buttons, virtual, countdown, inputs>> /\ power' # "on"
  BY <1>1 DEF PanelInv
<1>2. CASE UNCHANGED <<held, panelVars, power>>
  BY <1>2 DEF PanelInv, panelVars
<1>3. ASSUME Reset PROVE PanelInv'
  <2> DEFINE install == TooSmall /\ Units = 1
  <2>1. /\ virtual' = IF install THEN InstallButtons ELSE {}
        /\ countdown' \in IF install THEN HoldTimes ELSE {0}
        /\ buttons' = IF power = "on" THEN held ELSE buttons
        /\ inputs' = buttons' \union virtual'
        /\ held' = held
    BY <1>3 DEF Reset
  <2>2. virtual' \subseteq Buttons /\ countdown' \in Nat
        /\ (virtual' = {} <=> countdown' = 0)
    <3>1. CASE install
      BY <2>1, <3>1, ConfigAssumption DEF InstallButtons, Buttons
    <3>2. CASE ~install
      BY <2>1, <3>2
    <3> QED BY <3>1, <3>2
  <2> QED BY <2>1, <2>2 DEF PanelInv
<1>4. ASSUME Update PROVE PanelInv'
  BY <1>4 DEF Update, PanelInv
<1>5. ASSUME SetButtons PROVE PanelInv'
  BY <1>5 DEF SetButtons, PanelInv
<1>6. ASSUME NEW b \in Pressable, Press(b) PROVE PanelInv'
  <2>1. b \in Buttons
    BY ConfigAssumption
  <2> QED BY <1>6, <2>1 DEF Press, PanelInv
<1>7. ASSUME NEW d \in Disks, NEW cs \in SUBSET Companions, Insert(d, cs)
      PROVE  PanelInv'
  BY <1>1, <1>7 DEF Insert, panelVars
<1>8. ASSUME Eject PROVE PanelInv'
  BY <1>1, <1>8 DEF Eject, panelVars
<1>9. ASSUME NEW dt \in Polls, LoopSamples(dt) PROVE PanelInv'
  BY <1>9 DEF LoopSamples, PanelInv
<1>10. ASSUME Host PROVE PanelInv'
  BY <1>2, <1>10
  DEF Host, HostRead, HostWrite, CompanionWrite, Format, panelVars
<1>11. ASSUME UNCHANGED vars PROVE PanelInv'
  BY <1>2, <1>11 DEF vars, panelVars
<1>12. CASE PanelAndReset
  BY <1>12, <1>3, <1>5, <1>6, <1>7, <1>8 DEF PanelAndReset
<1>13. CASE FingersAct
  <2>1. ASSUME Entered PROVE PanelInv'
    BY <2>1, <1>7, <1>11 DEF Entered
  <2> QED BY <1>13, <2>1, <1>3, <1>5, <1>8, <1>9, <1>11 DEF FingersAct
<1>14. CASE Runs
  BY <1>10, <1>11, <1>14 DEF Runs
<1> QED BY <1>4, <1>11, <1>12, <1>13, <1>14 DEF BoardNext, boardVars

\* Port B reads as the buttons that are held.
LEMMA PortBIsRead ==
  ASSUME PanelInv, power = "on"
  PROVE  ButtonsAreRead
<1>1. inputs = buttons \union virtual /\ inputs \subseteq Buttons
  BY DEF PanelInv
<1>2. \A b \in Buttons : ButtonLine[b] \in 1 .. 5
  BY DEF Buttons, ButtonLine
<1>3. PortB({}) = 1 .. 5
  BY DEF PortB
<1>4. PortB({}) \ PortB(inputs) = {ButtonLine[b] : b \in inputs}
  BY <1>1, <1>2, <1>3 DEF PortB
<1>5. ASSUME "b" \in ctrl
      PROVE  /\ ReadPort("b", {}) = PortB({})
             /\ ReadPort("b", inputs) = PortB(inputs)
  BY <1>5 DEF ReadPort
<1> QED BY <1>1, <1>4, <1>5 DEF ButtonsAreRead, PanelInv

-----------------------------------------------------------------------------
(* Debouncing. *)

ButtonRecords ==
  [input : BOOLEAN, prev : BOOLEAN, pressed : BOOLEAN, start : Int,
   repeat : Nat, repeatPrev : Nat, threshold : Nat]

\* A button that has been down for p says so.
ButtonMeant(b, now, p) ==
  /\ b.pressed => p <= MaxPress /\ p = Elapsed(now, b.start)
  /\ b.input <=> b.pressed /\ p >= DEBOUNCE
  /\ ~b.input => b.repeat = 0
  /\ b.input => b.threshold >= DEBOUNCE + REPEAT
  /\ p < DEBOUNCE + REPEAT => b.repeat <= 1

LEMMA WrapIsPositive == ClockWrap \in Nat \ {0}
BY ButtonAssumption

LEMMA ModOfSum ==
  ASSUME NEW q \in Int, NEW w \in Nat \ {0}, NEW r \in Nat, r < w
  PROVE  (w * q + r) % w = r /\ (w * q + r) \div w = q
OBVIOUS

LEMMA ModAndDiv ==
  ASSUME NEW a \in Int, NEW w \in Nat \ {0}
  PROVE  a = w * (a \div w) + (a % w) /\ a \div w \in Int /\ a % w \in Nat /\ a % w < w
OBVIOUS

LEMMA DivIsNatural ==
  ASSUME NEW a \in Nat, NEW b \in Nat \ {0}
  PROVE  a \div b \in Nat
OBVIOUS

\* The time since the press began goes on when the counter wraps.
LEMMA ElapsedGoesOn ==
  ASSUME NEW now \in Int, NEW start \in Int, NEW dt \in Nat,
         Elapsed(now, start) + dt < ClockWrap
  PROVE  Elapsed((now + dt) % ClockWrap, start) = Elapsed(now, start) + dt
<1> DEFINE q1 == (now - start) \div ClockWrap
           q2 == (now + dt) \div ClockWrap
           p == (now - start) % ClockWrap
<1>1. now - start = ClockWrap * q1 + p /\ q1 \in Int /\ p \in Nat
  BY WrapIsPositive, ModAndDiv
<1>2. now + dt = ClockWrap * q2 + ((now + dt) % ClockWrap) /\ q2 \in Int
      /\ (now + dt) % ClockWrap \in Int
  BY WrapIsPositive, ModAndDiv
<1> HIDE DEF q1, q2, p
<1>3. ((now + dt) % ClockWrap) - start = ClockWrap * (q1 - q2) + (p + dt)
  BY <1>1, <1>2, WrapIsPositive
<1>4. p + dt \in Nat /\ p + dt < ClockWrap /\ q1 - q2 \in Int
  BY <1>1, <1>2 DEF Elapsed, p
<1>5. (ClockWrap * (q1 - q2) + (p + dt)) % ClockWrap = p + dt
  BY <1>4, WrapIsPositive, ModOfSum
<1> QED BY <1>3, <1>5 DEF Elapsed, p

\* A line found low: the press begins, goes on, or repeats.
LEMMA LoweredIsMeant ==
  ASSUME NEW b \in ButtonRecords, NEW now \in Int, NEW p \in Nat, NEW dt \in Nat,
         ButtonMeant(b, now, p), b.pressed => p + dt <= MaxPress,
         NEW then \in Int, then = (now + dt) % ClockWrap,
         NEW q \in Nat, q = IF b.pressed THEN p + dt ELSE 0
  PROVE  /\ Lowered(b, then) \in ButtonRecords
         /\ ButtonMeant(Lowered(b, then), then, q)
         /\ b.input => Lowered(b, then).input
                       /\ Lowered(b, then).threshold >= b.threshold
<1> DEFINE start == IF b.pressed THEN b.start ELSE then
           first == ~b.input /\ q >= DEBOUNCE
           threshold == IF first THEN DEBOUNCE + REPEAT ELSE b.threshold
           repeat == IF first THEN b.repeat + 1 ELSE b.repeat
           again == (b.input \/ first) /\ q >= threshold
           c == [input |-> b.input \/ first, prev |-> b.input, pressed |-> TRUE,
                 start |-> start, repeatPrev |-> b.repeat,
                 repeat |-> IF again THEN repeat + 1 ELSE repeat,
                 threshold |-> IF again THEN threshold + REPEAT \div (repeat + 1)
                               ELSE threshold]
<1>1. /\ DEBOUNCE \in Nat /\ REPEAT \in Nat /\ MaxPress \in Nat
      /\ MaxPress < ClockWrap /\ ClockWrap \in Nat \ {0}
  BY ButtonAssumption
<1>2. Elapsed(then, start) = q /\ q <= MaxPress
  <2>1. CASE b.pressed
    BY <1>1, <2>1, ElapsedGoesOn DEF ButtonMeant, ButtonRecords
  <2>2. CASE ~b.pressed
    <3>1. (ClockWrap * 0 + 0) % ClockWrap = 0
      BY <1>1, ModOfSum
    <3>2. then - then = ClockWrap * 0 + 0
      BY <1>1
    <3> QED BY <1>1, <2>2, <3>1, <3>2 DEF Elapsed
  <2> QED BY <2>1, <2>2
<1>3. Lowered(b, then) = c
  BY <1>2 DEF Lowered
<1>4. /\ b.input \in BOOLEAN /\ b.pressed \in BOOLEAN /\ b.start \in Int
      /\ b.repeat \in Nat /\ b.threshold \in Nat
  BY DEF ButtonRecords
<1>5. /\ threshold \in Nat /\ repeat \in Nat /\ start \in Int
      /\ REPEAT \div (repeat + 1) \in Nat
  <2>1. threshold \in Nat /\ repeat \in Nat /\ start \in Int
    BY <1>1, <1>4
  <2> QED BY <1>1, <2>1, DivIsNatural
<1>6. c \in ButtonRecords /\ c.threshold >= threshold
  BY <1>4, <1>5 DEF ButtonRecords
<1>7. c.input <=> q >= DEBOUNCE
  <2>1. b.input => q >= DEBOUNCE
    BY <1>1, <1>4 DEF ButtonMeant
  <2>2. c.input = (b.input \/ (~b.input /\ q >= DEBOUNCE))
    BY <1>4
  <2> HIDE DEF c
  <2> QED BY <1>4, <2>1, <2>2
<1>8. ~c.input => c.repeat = 0
  BY <1>4 DEF ButtonMeant
<1>9. c.input => c.threshold >= DEBOUNCE + REPEAT /\ threshold >= DEBOUNCE + REPEAT
  BY <1>1, <1>4, <1>5, <1>6 DEF ButtonMeant
<1>10. q < DEBOUNCE + REPEAT => c.repeat <= 1
  BY <1>1, <1>4, <1>5, <1>9 DEF ButtonMeant
<1>11. ButtonMeant(c, then, q)
  BY <1>2, <1>7, <1>8, <1>9, <1>10 DEF ButtonMeant
<1>12. b.input => c.input /\ c.threshold >= b.threshold
  BY <1>6
<1> QED BY <1>3, <1>6, <1>11, <1>12

-----------------------------------------------------------------------------
(* The readers of the buttons. *)

FingerInv ==
  /\ button \in [Button -> ButtonRecords]
  /\ press \in [Button -> Nat]
  /\ clock \in Int
  /\ edge \in [{"INSERT", "ENTER", "EXIT", "RESET"} -> BOOLEAN]
  /\ due \in [Button -> {"yes", "no", "overdrawn"}]
  /\ \A i \in Button : ButtonMeant(button[i], clock, press[i])

\* The two buttons that act when they are let go.
Late == {"INSERT", "ENTER"}

LongDown(i) == button[i].threshold >= DEBOUNCE + 2 * REPEAT

\* A press that is no longer due to do anything is a long one, which the browser
\* has seen; what was seen down in the browser or the loop is still due.
DueInv ==
  /\ \A i \in Late :
       /\ due[i] # "overdrawn"
       /\ button[i].input /\ due[i] # "yes"
            => reader = "browse" /\ LongDown(i) /\ flags # {"ENTER"}
       /\ reader = "browse" /\ edge[i] => due[i] = "yes"
  /\ edge["EXIT"] => reader = "drive" /\ due["INSERT"] = "yes"
  /\ flags = {"ENTER"} => reader = "browse"
  /\ program = "buttons" /\ power = "inserted" => reader = "drive"

LEMMA UpIsMeant ==
  ASSUME NEW now \in Int, NEW p \in BOOLEAN
  PROVE  /\ [Up EXCEPT !.prev = p] \in ButtonRecords
         /\ ButtonMeant([Up EXCEPT !.prev = p], now, 0)
         /\ [Up EXCEPT !.prev = p].input = FALSE
<1> DEFINE u == [Up EXCEPT !.prev = p]
<1>1. Up \in ButtonRecords /\ Up.input = FALSE /\ Up.pressed = FALSE /\ Up.repeat = 0
  BY ButtonAssumption DEF Up, ButtonRecords
<1>2. u \in ButtonRecords /\ u.input = FALSE /\ u.pressed = FALSE /\ u.repeat = 0
  BY <1>1 DEF ButtonRecords
<1> HIDE DEF u
<1>3. ButtonMeant(u, now, 0)
  BY <1>2 DEF ButtonMeant
<1> QED BY <1>2, <1>3 DEF u

LEMMA InitFingers == BoardInit => FingerInv /\ DueInv
<1> SUFFICES ASSUME BoardInit PROVE FingerInv /\ DueInv
  OBVIOUS
<1>1. /\ reader = "browse" /\ clock = ClockWrap - 3 /\ flags = {}
      /\ button = [i \in Button |-> Up]
      /\ edge = [i \in {"INSERT", "ENTER", "EXIT", "RESET"} |-> FALSE]
      /\ press = [i \in Button |-> 0] /\ due = [i \in Button |-> "no"]
      /\ power = "ejected"
  BY DEF BoardInit, FingerInit, Init
<1>2. clock \in Int
  BY <1>1, ButtonAssumption
<1>3. Up \in ButtonRecords /\ ButtonMeant(Up, clock, 0) /\ Up.input = FALSE
  <2>1. Up \in ButtonRecords
    BY ButtonAssumption DEF Up, ButtonRecords
  <2>2. Up.input = FALSE /\ Up.pressed = FALSE /\ Up.repeat = 0
    BY DEF Up
  <2>3. ButtonMeant(Up, clock, 0)
    BY <2>2 DEF ButtonMeant
  <2> QED BY <2>1, <2>2, <2>3
<1> QED BY <1>1, <1>2, <1>3 DEF FingerInv, DueInv, Late, Button

\* A poll debounces every button; a press that goes on gets no shorter.
LEMMA PollIsMeant ==
  ASSUME FingerInv, NEW dt \in Polls, ReadGPIOUserInput(dt)
  PROVE  /\ button' \in [Button -> ButtonRecords]
         /\ press' \in [Button -> Nat]
         /\ clock' \in Int
         /\ \A i \in Button : ButtonMeant(button'[i], clock', press'[i])
         /\ \A i \in Button : button[i].input /\ button'[i].input /\ LongDown(i)
                              => LongDown(i)'
<1> DEFINE now == (clock + dt) % ClockWrap
<1>1. /\ \A i \in down : button[i].pressed => press[i] + dt <= MaxPress
      /\ clock' = IF down = {} THEN ClockWrap - 3 ELSE now
      /\ button' = [i \in Button |-> UpdateButton(button[i], i \in down, now)]
      /\ press' = [i \in Button |->
           IF i \in down /\ button[i].pressed THEN press[i] + dt ELSE 0]
  BY DEF ReadGPIOUserInput
<1>2. dt \in Nat /\ now \in Int /\ ClockWrap \in Nat
      /\ DEBOUNCE \in Nat /\ REPEAT \in Nat
  BY ButtonAssumption, ModAndDiv, WrapIsPositive DEF FingerInv
<1>3. clock' \in Int
  BY <1>1, <1>2
<1> HIDE DEF now
<1>4. ASSUME NEW i \in Button
      PROVE  /\ button'[i] \in ButtonRecords
             /\ press'[i] \in Nat
             /\ ButtonMeant(button'[i], clock', press'[i])
             /\ button[i].input /\ button'[i].input
                  => button'[i].threshold >= button[i].threshold
  <2>1. /\ button[i] \in ButtonRecords /\ press[i] \in Nat /\ clock \in Int
        /\ ButtonMeant(button[i], clock, press[i])
    BY DEF FingerInv
  <2>2. CASE i \in down
    <3>1. clock' = now /\ button'[i] = Lowered(button[i], now)
          /\ press'[i] = IF button[i].pressed THEN press[i] + dt ELSE 0
      BY <1>1, <2>2 DEF UpdateButton
    <3>2. button[i].pressed => press[i] + dt <= MaxPress
      BY <1>1, <2>2
    <3>3. press'[i] \in Nat
      BY <1>2, <2>1, <3>1
    <3> QED BY <1>2, <2>1, <3>1, <3>2, <3>3, LoweredIsMeant DEF now
  <2>3. CASE i \notin down
    <3>1. button'[i] = [Up EXCEPT !.prev = button[i].input] /\ press'[i] = 0
      BY <1>1, <2>3 DEF UpdateButton
    <3>2. button[i].input \in BOOLEAN
      BY <2>1 DEF ButtonRecords
    <3>3. /\ [Up EXCEPT !.prev = button[i].input] \in ButtonRecords
          /\ ButtonMeant([Up EXCEPT !.prev = button[i].input], clock', 0)
          /\ [Up EXCEPT !.prev = button[i].input].input = FALSE
      BY <1>3, <3>2, UpIsMeant
    <3> QED BY <3>1, <3>3
  <2> QED BY <2>2, <2>3
<1>5. ASSUME NEW i \in Button, button[i].input, button'[i].input, LongDown(i)
      PROVE  LongDown(i)'
  <2>1. button[i].threshold \in Nat /\ button'[i].threshold \in Nat
        /\ button'[i].threshold >= button[i].threshold
    BY <1>4, <1>5 DEF FingerInv, ButtonRecords
  <2> QED BY <1>2, <1>5, <2>1 DEF LongDown
<1> QED BY <1>1, <1>3, <1>4, <1>5

\* What a poll makes of the debts.
Before(i) == IF button'[i].input /\ ~button[i].input THEN "yes" ELSE due[i]

LEMMA ActGives ==
  ASSUME FingerInv, NEW doing, NEW holding, Act(doing, holding)
  PROVE  /\ due' \in [Button -> {"yes", "no", "overdrawn"}]
         /\ \A i \in Button :
              due'[i] = IF i \in doing
                        THEN IF Before(i) = "yes" THEN "no" ELSE "overdrawn"
                        ELSE IF i \in holding THEN "no" ELSE Before(i)
BY DEF Act, Before, FingerInv

\* A button that is down and not due was so before.
LEMMA NotDueBefore ==
  ASSUME FingerInv, DueInv, NEW dt \in Polls, ReadGPIOUserInput(dt),
         NEW i \in Late, button'[i].input, Before(i) # "yes"
  PROVE  reader = "browse" /\ LongDown(i)'
<1>1. i \in Button
  BY DEF Late, Button
<1>2. button[i].input /\ due[i] # "yes"
  BY DEF Before
<1>3. reader = "browse" /\ LongDown(i)
  BY <1>2 DEF DueInv
<1> QED BY <1>1, <1>2, <1>3, PollIsMeant

LEMMA BrowserKeepsDue ==
  ASSUME FingerInv, DueInv, NEW dt \in Polls, BrowserPolls(dt),
         UNCHANGED <<power, program>>
  PROVE  DueInv' /\ edge' \in [{"INSERT", "ENTER", "EXIT", "RESET"} -> BOOLEAN]
         /\ due' \in [Button -> {"yes", "no", "overdrawn"}]
<1>1. reader = "browse" /\ reader' = "browse" /\ ReadGPIOUserInput(dt)
      /\ CheckButtonsBrowseMode
  BY DEF BrowserPolls
<1>2. /\ edge \in [{"INSERT", "ENTER", "EXIT", "RESET"} -> BOOLEAN]
      /\ button' \in [Button -> ButtonRecords]
      /\ Late \subseteq Button /\ "INSERT" \in Late /\ "ENTER" \in Late
  BY <1>1, PollIsMeant DEF FingerInv, Late, Button
<1>3. \A i \in Late : Held(i) <=> LongDown(i)'
  BY DEF Held, LongDown
<1>4. \A i \in Late : button'[i].input /\ Before(i) # "yes" => LongDown(i)'
  BY <1>1, NotDueBefore
<1>5. \A i \in Late : edge[i] => Before(i) = "yes"
  BY <1>1 DEF DueInv, Before
<1>6. \A i \in Late : due[i] # "overdrawn" /\ Before(i) # "overdrawn"
  BY DEF DueInv, Before
<1>7. ~(program' = "buttons" /\ power' = "inserted")
  BY <1>1 DEF DueInv
<1>8. ASSUME NEW s \in SUBSET Button
      PROVE  Function(s) # {"ENTER"}
  BY DEF Function
<1>8a. ~edge["EXIT"] /\ edge'["EXIT"] = edge["EXIT"]
  <2>1. edge'["EXIT"] = edge["EXIT"]
    BY <1>1, <1>2 DEF CheckButtonsBrowseMode, WasDown
  <2> QED BY <1>1, <2>1 DEF DueInv
\* What is left to show of each of the two buttons.
<1> DEFINE Kept(i) ==
      /\ due'[i] # "overdrawn"
      /\ button'[i].input /\ due'[i] # "yes" => LongDown(i)' /\ flags' # {"ENTER"}
      /\ edge'[i] => due'[i] = "yes"
<1>9. ASSUME NEW k \in Late, Held(k),
             flags' # {"ENTER"}, edge' = [edge EXCEPT ![k] = FALSE],
             Act({}, {k})
      PROVE  /\ \A i \in Late : Kept(i)
             /\ edge' \in [{"INSERT", "ENTER", "EXIT", "RESET"} -> BOOLEAN]
             /\ due' \in [Button -> {"yes", "no", "overdrawn"}]
  <2>1. /\ due' \in [Button -> {"yes", "no", "overdrawn"}]
        /\ \A i \in Button : due'[i] = IF i = k THEN "no" ELSE Before(i)
    BY <1>9, ActGives
  <2>2. k \in {"INSERT", "ENTER"}
    BY DEF Late
  <2>3. edge'[k] = FALSE /\ \A i \in Late : i # k => edge'[i] = edge[i]
    BY <1>2, <1>9, <2>2 DEF Late
  <2>4. ASSUME NEW i \in Late PROVE Kept(i)
    <3>1. CASE i = k
      BY <1>2, <1>3, <1>9, <2>1, <2>3, <3>1
    <3>2. CASE i # k
      BY <1>2, <1>4, <1>5, <1>6, <1>9, <2>1, <2>3, <3>2
    <3> QED BY <3>1, <3>2
  <2> QED BY <1>2, <1>9, <2>1, <2>2, <2>4
<1>10. CASE ~Held("INSERT") /\ ~Held("ENTER")
            /\ flags' = (IF Moves # {} THEN Moves ELSE LetGo)
            /\ edge' = (IF Moves # {} THEN edge ELSE WasDown)
            /\ Act(flags', {})
  <2>1. /\ due' \in [Button -> {"yes", "no", "overdrawn"}]
        /\ \A i \in Button :
             due'[i] = IF i \in flags'
                       THEN IF Before(i) = "yes" THEN "no" ELSE "overdrawn"
                       ELSE Before(i)
    BY <1>10, ActGives
  <2>2. \A i \in Late : ~Held(i)
    BY <1>10 DEF Late
  <2>3. \A i \in Late : button'[i].input => Before(i) = "yes"
    BY <1>3, <1>4, <2>2
  <2>4. Moves \intersect Late = {} /\ LetGo \subseteq Late
    BY DEF Moves, LetGo, Late
  <2>5. \A i \in LetGo : edge[i] /\ ~button'[i].input
    BY DEF LetGo, Released
  <2>6. WasDown = [edge EXCEPT !["INSERT"] = button'["INSERT"].input,
                               !["ENTER"] = button'["ENTER"].input]
    <3>1. button'["INSERT"].input \in BOOLEAN /\ button'["ENTER"].input \in BOOLEAN
      BY <1>2 DEF ButtonRecords
    <3> QED BY <3>1 DEF WasDown, Released
  <2>7. /\ WasDown \in [{"INSERT", "ENTER", "EXIT", "RESET"} -> BOOLEAN]
        /\ \A i \in Late : WasDown[i] = button'[i].input
    <3>1. button'["INSERT"].input \in BOOLEAN /\ button'["ENTER"].input \in BOOLEAN
      BY <1>2 DEF ButtonRecords
    <3> QED BY <1>2, <2>6, <3>1 DEF Late
  <2>8. ASSUME NEW i \in Late PROVE Kept(i)
    <3>1. CASE i \in flags'
      <4>1. edge[i] /\ ~button'[i].input /\ Moves = {}
        BY <1>10, <2>4, <2>5, <3>1
      <4> QED BY <1>2, <1>5, <1>10, <2>1, <2>7, <3>1, <4>1
    <3>2. CASE i \notin flags'
      BY <1>2, <1>5, <1>6, <1>10, <2>1, <2>3, <2>7, <3>2
    <3> QED BY <3>1, <3>2
  <2> QED BY <1>1, <1>2, <1>7, <1>8a, <1>10, <2>1, <2>7, <2>8 DEF DueInv
<1>11. CASE Held("INSERT")
            /\ flags' = Function({"ENTER", "UP", "DOWN", "BACK"})
            /\ edge' = [edge EXCEPT !["INSERT"] = FALSE]
            /\ Act({}, {"INSERT"})
  <2>1. flags' # {"ENTER"}
    BY <1>11, <1>8 DEF Button
  <2> QED BY <1>1, <1>2, <1>7, <1>8a, <1>9, <1>11, <2>1 DEF DueInv
<1>12. CASE Held("ENTER")
            /\ flags' = Function({"UP", "DOWN", "BACK", "INSERT"})
            /\ edge' = [edge EXCEPT !["ENTER"] = FALSE]
            /\ Act({}, {"ENTER"})
  <2>1. flags' # {"ENTER"}
    BY <1>12, <1>8 DEF Button
  <2> QED BY <1>1, <1>2, <1>7, <1>8a, <1>9, <1>12, <2>1 DEF DueInv
<1> QED BY <1>1, <1>10, <1>11, <1>12 DEF CheckButtonsBrowseMode

\* Away from the browser, what is found down is due.
LEMMA DueAway ==
  ASSUME FingerInv, DueInv, NEW dt \in Polls, ReadGPIOUserInput(dt),
         reader # "browse", NEW i \in Late
  PROVE  /\ Before(i) # "overdrawn"
         /\ button'[i].input => Before(i) = "yes"
BY NotDueBefore DEF DueInv, Before

LEMMA LoopKeepsDue ==
  ASSUME FingerInv, DueInv, NEW dt \in Polls, LoopPolls(dt),
         power = "on", UNCHANGED <<power, program>>
  PROVE  /\ DueInv'
         /\ edge' \in [{"INSERT", "ENTER", "EXIT", "RESET"} -> BOOLEAN]
         /\ due' \in [Button -> {"yes", "no", "overdrawn"}]
<1> DEFINE reset == edge["RESET"] /\ Released("BACK")
           exit == ~reset /\ edge["EXIT"] /\ Released("INSERT")
           doing == IF reset THEN {"BACK"} ELSE IF exit THEN {"INSERT"} ELSE {}
<1>1. /\ reader = "drive" /\ ReadGPIOUserInput(dt)
      /\ flags' = IF reset THEN {"RESET"} ELSE IF exit THEN {"EXIT"} ELSE {}
      /\ edge' = [edge EXCEPT !["RESET"] = ~Released("BACK"),
                              !["EXIT"] = IF reset THEN @ ELSE ~Released("INSERT")]
      /\ Act(doing, {})
      /\ reader' = IF exit THEN "clear" ELSE "drive"
  BY DEF LoopPolls
<1>2. /\ edge \in [{"INSERT", "ENTER", "EXIT", "RESET"} -> BOOLEAN]
      /\ button' \in [Button -> ButtonRecords]
      /\ Late \subseteq Button /\ "INSERT" \in Late
      /\ "INSERT" \in Button /\ "BACK" \in Button
  BY <1>1, PollIsMeant DEF FingerInv, Late, Button
<1>3. \A i \in Late : Before(i) # "overdrawn"
                      /\ (button'[i].input => Before(i) = "yes")
  BY <1>1, DueAway
<1>4. edge["EXIT"] => Before("INSERT") = "yes"
  BY DEF DueInv, Before
<1>5. button'["BACK"].input \in BOOLEAN /\ button'["INSERT"].input \in BOOLEAN
      /\ Released("BACK") = ~button'["BACK"].input
      /\ Released("INSERT") = ~button'["INSERT"].input
  BY <1>2 DEF ButtonRecords, Released
<1>6. /\ due' \in [Button -> {"yes", "no", "overdrawn"}]
      /\ \A i \in Button :
           due'[i] = IF i \in doing
                     THEN IF Before(i) = "yes" THEN "no" ELSE "overdrawn"
                     ELSE Before(i)
  BY <1>1, ActGives
<1>7. /\ edge' \in [{"INSERT", "ENTER", "EXIT", "RESET"} -> BOOLEAN]
      /\ edge'["EXIT"] = IF reset THEN edge["EXIT"] ELSE button'["INSERT"].input
  BY <1>1, <1>2, <1>5
<1>8. ASSUME NEW i \in Late
      PROVE  due'[i] # "overdrawn" /\ (button'[i].input => due'[i] = "yes")
  <2>1. CASE i \in doing
    <3>1. exit /\ i = "INSERT"
      BY <2>1 DEF Late
    <3> QED BY <1>2, <1>4, <1>5, <1>6, <3>1
  <2>2. CASE i \notin doing
    BY <1>2, <1>3, <1>6, <2>2
  <2> QED BY <2>1, <2>2
<1>9. edge'["EXIT"] => reader' = "drive" /\ due'["INSERT"] = "yes"
  <2>1. CASE reset
    BY <1>1, <1>2, <1>4, <1>6, <1>7, <2>1
  <2>2. CASE ~reset
    BY <1>1, <1>2, <1>5, <1>7, <1>8, <2>2
  <2> QED BY <2>1, <2>2
<1>10. reader' # "browse" /\ flags' # {"ENTER"}
       /\ ~(program' = "buttons" /\ power' = "inserted")
  BY <1>1
<1> HIDE DEF reset, exit, doing
<1> QED BY <1>6, <1>7, <1>8, <1>9, <1>10 DEF DueInv

\* The wait for the buttons to be let go, and the poll that begins an emulation:
\* nothing is done.
LEMMA QuietKeepsDue ==
  ASSUME FingerInv, DueInv, NEW dt \in Polls, ReadGPIOUserInput(dt),
         reader # "browse", flags' = {}, Act({}, {}), edge' = WasDown \/ reader' = "drive",
         edge' \in [{"INSERT", "ENTER", "EXIT", "RESET"} -> BOOLEAN], ~edge'["EXIT"],
         reader' = "browse" => Released("INSERT") /\ Released("ENTER"),
         power' # "inserted"
  PROVE  DueInv' /\ due' \in [Button -> {"yes", "no", "overdrawn"}]
<1>1. /\ due' \in [Button -> {"yes", "no", "overdrawn"}]
      /\ \A i \in Button : due'[i] = Before(i)
  BY ActGives
<1>2. \A i \in Late : due'[i] # "overdrawn" /\ (button'[i].input => due'[i] = "yes")
  BY <1>1, DueAway DEF Late, Button
<1>3. ASSUME NEW i \in Late, reader' = "browse"
      PROVE  ~edge'[i]
  <2>1. edge' = WasDown /\ Released("INSERT") /\ Released("ENTER")
    BY <1>3
  <2>2. edge \in [{"INSERT", "ENTER", "EXIT", "RESET"} -> BOOLEAN]
    BY DEF FingerInv
  <2> QED BY <2>1, <2>2 DEF WasDown, Late
<1> QED BY <1>1, <1>2, <1>3 DEF DueInv

\* What the browser and the loop do with the flags leaves the buttons alone.
LEMMA AnswerKeepsDue ==
  ASSUME DueInv, UNCHANGED <<button, edge, due, program>>, flags' = {},
         reader' = reader \/ (reader = "browse" /\ flags = {"ENTER"}),
         program' = "buttons" /\ power' = "inserted"
           => reader' = "drive" \/ (reader' = reader /\ power = "inserted")
  PROVE  DueInv'
<1>1. \A i \in Late : LongDown(i)' = LongDown(i)
  BY DEF LongDown
<1>2. ASSUME NEW i \in Late
      PROVE  /\ due'[i] # "overdrawn"
             /\ button'[i].input /\ due'[i] # "yes"
                  => reader' = "browse" /\ LongDown(i)' /\ flags' # {"ENTER"}
             /\ reader' = "browse" /\ edge'[i] => due'[i] = "yes"
  BY <1>1 DEF DueInv
<1>3. edge'["EXIT"] => reader' = "drive" /\ due'["INSERT"] = "yes"
  BY DEF DueInv
<1> QED BY <1>2, <1>3 DEF DueInv

\* What the panel, the user and the program do away from the buttons.
LEMMA OthersKeepDue ==
  ASSUME DueInv, UNCHANGED <<fingerVars, program>>,
         program = "buttons" /\ power' = "inserted" => power = "inserted"
  PROVE  DueInv'
<1>1. \A i \in Late : LongDown(i)' = LongDown(i)
  BY DEF LongDown, fingerVars
<1> QED BY <1>1 DEF DueInv, fingerVars

\* A poll, of whichever reader.
LEMMA PollsKeepFingers ==
  ASSUME FingerInv, NEW dt \in Polls, ReadGPIOUserInput(dt),
         edge' \in [{"INSERT", "ENTER", "EXIT", "RESET"} -> BOOLEAN],
         due' \in [Button -> {"yes", "no", "overdrawn"}]
  PROVE  FingerInv'
BY PollIsMeant DEF FingerInv

LEMMA RestKeepsFingers ==
  ASSUME FingerInv, UNCHANGED <<clock, button, edge, press, due>>
  PROVE  FingerInv'
BY DEF FingerInv

LEMMA NextFingers ==
  ASSUME FingerInv, DueInv, [BoardNext]_boardVars
  PROVE  FingerInv' /\ DueInv'
<1>1. ASSUME UNCHANGED <<fingerVars, program>>,
             program = "buttons" /\ power' = "inserted" => power = "inserted"
      PROVE  FingerInv' /\ DueInv'
  BY <1>1, OthersKeepDue, RestKeepsFingers DEF fingerVars
<1>2. CASE PanelAndReset
  BY <1>1, <1>2 DEF PanelAndReset
<1>3. CASE FingersAct
  <2>1. program = "buttons" /\ program' = "buttons"
    BY <1>3 DEF FingersAct
  <2>2. ASSUME Finger, UNCHANGED vars PROVE FingerInv' /\ DueInv'
    <3>1. \A i \in Late : LongDown(i)' = LongDown(i)
      BY <2>2 DEF LongDown, Finger
    <3>2. UNCHANGED <<reader, edge, due, flags, button, press, clock, power>>
      BY <2>2 DEF Finger, vars
    <3>3. DueInv'
      BY <2>1, <3>1, <3>2 DEF DueInv
    <3> QED BY <3>2, <3>3, RestKeepsFingers
  <2>3. ASSUME NEW dt \in Polls, BrowserPolls(dt), UNCHANGED vars
        PROVE  FingerInv' /\ DueInv'
    <3>1. UNCHANGED <<power, program>> /\ ReadGPIOUserInput(dt)
      BY <2>1, <2>3 DEF vars, BrowserPolls
    <3> QED BY <2>3, <3>1, BrowserKeepsDue, PollsKeepFingers
  <2>4. CASE Entered
    <3>1. CASE \E d \in Disks : d \in DisksOf[program] /\ Insert(d, {})
               /\ reader' = "drive" /\ flags' = {}
               /\ UNCHANGED <<hand, down, clock, button, edge, press, due>>
      <4>1. reader = "browse" /\ flags = {"ENTER"}
        BY <2>4 DEF Entered, DueInv
      <4>2. ~edge["EXIT"]
        BY <4>1 DEF DueInv
      <4>3. \A i \in Late : due[i] # "overdrawn" /\ (button[i].input => due[i] = "yes")
        BY <4>1 DEF DueInv
      <4>4. DueInv'
        BY <3>1, <4>2, <4>3 DEF DueInv
      <4> QED BY <3>1, <4>4, RestKeepsFingers
    <3>2. CASE Answered /\ UNCHANGED vars
      BY <2>1, <3>2, AnswerKeepsDue, RestKeepsFingers DEF Answered, vars
    <3>3. CASE reader' = "clear" /\ flags' = {}
               /\ UNCHANGED <<hand, down, clock, button, edge, press, due, vars>>
      <4>1. reader = "browse" /\ flags = {"ENTER"}
        BY <2>4 DEF Entered, DueInv
      <4>2. ~edge["EXIT"] /\ power # "inserted" /\ power' = power
        BY <2>1, <3>3, <4>1 DEF DueInv, vars
      <4>3. \A i \in Late : due[i] # "overdrawn" /\ (button[i].input => due[i] = "yes")
        BY <4>1 DEF DueInv
      <4>4. DueInv'
        BY <3>3, <4>2, <4>3 DEF DueInv
      <4> QED BY <3>3, <4>4, RestKeepsFingers
    <3> QED BY <2>4, <3>1, <3>2, <3>3 DEF Entered
  <2>5. ASSUME power = "inserted", NEW dt \in Polls, LoopBegins(dt), Reset
        PROVE  FingerInv' /\ DueInv'
    <3>1. /\ ReadGPIOUserInput(dt) /\ flags' = {} /\ Act({}, {}) /\ reader' = "drive"
          /\ edge' = [edge EXCEPT !["EXIT"] = FALSE, !["RESET"] = FALSE]
      BY <2>5 DEF LoopBegins
    <3>2. power' = "on" /\ reader = "drive"
      BY <2>1, <2>5 DEF Reset, DueInv
    <3>3. edge' \in [{"INSERT", "ENTER", "EXIT", "RESET"} -> BOOLEAN] /\ ~edge'["EXIT"]
      BY <3>1 DEF FingerInv
    <3>4. DueInv' /\ due' \in [Button -> {"yes", "no", "overdrawn"}]
      BY <3>1, <3>2, <3>3, QuietKeepsDue
    <3> QED BY <3>1, <3>3, <3>4, PollsKeepFingers
  <2>6. ASSUME NEW dt \in Polls, LoopSamples(dt) PROVE FingerInv' /\ DueInv'
    <3>1. /\ power = "on" /\ LoopPolls(dt) /\ ReadGPIOUserInput(dt)
          /\ UNCHANGED <<power, program>>
      BY <2>1, <2>6 DEF LoopSamples, LoopPolls
    <3> QED BY <3>1, LoopKeepsDue, PollsKeepFingers
  <2>7. ASSUME SetButtons, UNCHANGED fingerVars PROVE FingerInv' /\ DueInv'
    BY <1>1, <2>1, <2>7 DEF SetButtons
  <2>8. ASSUME Reset \/ Eject, Answered PROVE FingerInv' /\ DueInv'
    <3>1. power' # "inserted"
      BY <2>8 DEF Reset, Eject
    <3> QED BY <2>1, <2>8, <3>1, AnswerKeepsDue, RestKeepsFingers DEF Answered
  <2>9. ASSUME power = "ejected", NEW dt \in Polls, WaitForClearButtons(dt),
               UNCHANGED vars
        PROVE  FingerInv' /\ DueInv'
    <3>1. /\ reader = "clear" /\ ReadGPIOUserInput(dt) /\ flags' = {}
          /\ edge' = WasDown /\ Act({}, {})
          /\ reader' = IF Released("INSERT") /\ Released("ENTER") THEN "browse"
                       ELSE "clear"
      BY <2>9 DEF WaitForClearButtons
    <3>2. power' # "inserted"
      BY <2>9 DEF vars
    <3>3. /\ edge \in [{"INSERT", "ENTER", "EXIT", "RESET"} -> BOOLEAN]
          /\ ~edge["EXIT"]
          /\ button' \in [Button -> ButtonRecords]
          /\ "INSERT" \in Button /\ "ENTER" \in Button
      BY <3>1, PollIsMeant DEF FingerInv, DueInv, Button
    <3>4. edge' \in [{"INSERT", "ENTER", "EXIT", "RESET"} -> BOOLEAN] /\ ~edge'["EXIT"]
      <4>1. (~Released("INSERT")) \in BOOLEAN /\ (~Released("ENTER")) \in BOOLEAN
        BY <3>3 DEF Released, ButtonRecords
      <4> QED BY <3>1, <3>3, <4>1 DEF WasDown
    <3>5. DueInv' /\ due' \in [Button -> {"yes", "no", "overdrawn"}]
      BY <3>1, <3>2, <3>4, QuietKeepsDue
    <3> QED BY <3>1, <3>4, <3>5, PollsKeepFingers
  <2> QED
    BY <1>3, <2>2, <2>3, <2>4, <2>5, <2>6, <2>7, <2>8, <2>9 DEF FingersAct
<1>4. CASE Runs /\ UNCHANGED <<fingerVars, program>>
  <2>1. program # "buttons"
    BY <1>4 DEF Runs
  <2> QED BY <1>1, <1>4, <2>1
<1>5. CASE Update /\ UNCHANGED <<mapVars, clockVars, fingerVars, program>>
  BY <1>1, <1>5 DEF Update
<1>6. CASE UNCHANGED boardVars
  BY <1>1, <1>6 DEF boardVars, vars
<1> QED BY <1>2, <1>3, <1>4, <1>5, <1>6 DEF BoardNext

LEMMA FingersMean ==
  ASSUME FingerInv, DueInv
  PROVE  PressesAreMeant
<1>1. \A i \in Button : ButtonMeant(button[i], clock, press[i])
  BY DEF FingerInv
<1>2. due["INSERT"] # "overdrawn" /\ due["ENTER"] # "overdrawn"
  BY DEF DueInv, Late
<1> QED BY <1>1, <1>2 DEF PressesAreMeant, ButtonMeant

\* However long the buttons are down and bounce, whoever polls them and however
\* often, with whatever the counter reads, and over every mount, reset and exit:
\* the program reads what the port drives and the buttons that are held; a button
\* counts as pressed when it has been down for the debounce time; and one press
\* of INSERT or ENTER does one thing.
THEOREM PortsStayTrue == BoardSpec => []PortsAreTrue
<1>1. BoardInit => PortCFollows /\ PanelInv /\ FingerInv /\ DueInv
  BY InitPortC, InitPanel, InitFingers
<1>2. PortCFollows /\ PanelInv /\ FingerInv /\ DueInv /\ [BoardNext]_boardVars
      => (PortCFollows /\ PanelInv /\ FingerInv /\ DueInv)'
  BY NextPortC, NextPanel, NextFingers
<1>3. PortCFollows => PortCIsTold
  BY DEF PortCFollows, PortCIsTold, ReadPort
<1>4. PanelInv => ButtonsAreRead
  <2>1. CASE power = "on" BY <2>1, PortBIsRead
  <2>2. CASE power # "on" BY <2>2 DEF ButtonsAreRead
  <2> QED BY <2>1, <2>2
<1>5. PortCFollows /\ PanelInv /\ FingerInv /\ DueInv => PortsAreTrue
  BY <1>3, <1>4, FingersMean DEF PortsAreTrue
<1> QED BY <1>1, <1>2, <1>5, PTL DEF BoardSpec

-----------------------------------------------------------------------------
(* Numbers. *)

\* Every set of numbers has a least one.
LEMMA LeastOf ==
  ASSUME NEW S \in SUBSET Nat, S # {}
  PROVE  \E n \in S : \A m \in S : n <= m
<1>1. PICK n \in S : \A m \in S : <<m, n>> \notin OpToRel(<, Nat)
  BY NatLessThanWellFounded, WFMin
<1>2. ASSUME NEW m \in S PROVE n <= m
  <2>1. m \in Nat /\ n \in Nat BY <1>1
  <2>2. m < n => <<m, n>> \in OpToRel(<, Nat) BY <2>1 DEF OpToRel
  <2>3. ~(m < n) BY <1>1, <2>2
  <2> QED BY <2>1, <2>3
<1> QED BY <1>2

\* What holds of 0 and of the next number holds of all.
LEMMA EveryNumber ==
  ASSUME NEW S \in SUBSET Nat, 0 \in S, \A n \in S : n + 1 \in S
  PROVE  S = Nat
<1> DEFINE T == Nat \ S
<1>1. ASSUME T # {} PROVE FALSE
  <2>1. PICK n \in T : \A m \in T : n <= m BY <1>1, LeastOf
  <2>2. n \in Nat /\ n # 0 BY <2>1
  <2>3. n - 1 \in Nat /\ n - 1 < n BY <2>2
  <2>4. n - 1 \notin T BY <2>1, <2>2, <2>3
  <2>5. n - 1 \in S BY <2>3, <2>4
  <2>6. (n - 1) + 1 \in S BY <2>5
  <2> QED BY <2>1, <2>2, <2>6
<1> QED BY <1>1

\* One day after the other.
DaysFrom(c, n, f) == f = [k \in 0 .. n |-> IF k = 0 THEN c ELSE NextDay(f[k - 1])]

LEMMA DaysGoOn ==
  ASSUME NEW c, NEW n \in Nat
  PROVE  \E f : DaysFrom(c, n, f)
<1> DEFINE S == {m \in Nat : \E f : DaysFrom(c, m, f)}
<1>1. 0 \in S
  <2> DEFINE f == [k \in 0 .. 0 |-> c]
  <2>1. f = [k \in 0 .. 0 |-> IF k = 0 THEN c ELSE NextDay(f[k - 1])] OBVIOUS
  <2> QED BY <2>1 DEF DaysFrom
<1>2. ASSUME NEW m \in S PROVE m + 1 \in S
  <2>1. PICK f : DaysFrom(c, m, f) BY <1>2
  <2> DEFINE g == [k \in 0 .. m + 1 |-> IF k = m + 1 THEN NextDay(f[m]) ELSE f[k]]
  <2>2. ASSUME NEW k \in 0 .. m + 1 PROVE g[k] = IF k = 0 THEN c ELSE NextDay(g[k - 1])
    <3>1. CASE k = m + 1 
      <4>1. k - 1 = m /\ k # 0 /\ m \in 0 .. m + 1 /\ m # m + 1 BY <3>1
      <4>2. g[m] = f[m] BY <4>1
      <4> QED BY <3>1, <4>1, <4>2
    <3>2. CASE k # m + 1
      <4>1. k \in 0 .. m BY <3>2
      <4>2. f[k] = IF k = 0 THEN c ELSE NextDay(f[k - 1]) BY <2>1, <4>1 DEF DaysFrom
      <4>3. k # 0 => k - 1 \in 0 .. m + 1 /\ k - 1 # m + 1 BY <4>1
      <4>4. k # 0 => g[k - 1] = f[k - 1] BY <4>3
      <4>5. g[k] = f[k] BY <3>2
      <4> QED BY <4>2, <4>4, <4>5
    <3> QED BY <3>1, <3>2
  <2>3. DaysFrom(c, m + 1, g)
    <3> HIDE DEF g
    <3>1. g = [k \in 0 .. m + 1 |-> g[k]] BY DEF g
    <3>2. [k \in 0 .. m + 1 |-> g[k]]
            = [k \in 0 .. m + 1 |-> IF k = 0 THEN c ELSE NextDay(g[k - 1])]
      BY <2>2
    <3> QED BY <3>1, <3>2 DEF DaysFrom
  <2> QED BY <2>3
<1>3. S = Nat
  <2> HIDE DEF S
  <2> QED BY <1>1, <1>2, EveryNumber DEF S
<1> QED BY <1>3

LEMMA DaysLaterIs ==
  ASSUME NEW c, NEW n \in Nat
  PROVE  \E f : DaysFrom(c, n, f) /\ DaysLater(c, n) = f[n]
<1> DEFINE g == CHOOSE f : f = [k \in 0 .. n |-> IF k = 0 THEN c ELSE NextDay(f[k - 1])]
<1>1. DaysLater(c, n) = g[n] BY DEF DaysLater
<1>2. \E f : f = [k \in 0 .. n |-> IF k = 0 THEN c ELSE NextDay(f[k - 1])]
  BY DaysGoOn DEF DaysFrom
<1>3. g = [k \in 0 .. n |-> IF k = 0 THEN c ELSE NextDay(g[k - 1])] BY <1>2
<1> HIDE DEF g
<1> QED BY <1>1, <1>3 DEF DaysFrom

-----------------------------------------------------------------------------
(* The calendar. *)

\* What microsAccumulated is between two accesses.
Fractions == 0 .. Second - 1

LEMMA FractionsAre ==
  /\ 0 \in Fractions
  /\ \A f \in Fractions : f \in Nat /\ f < Wrap
  /\ \A n \in Int : n % Second \in Fractions
<1>1. Second \in Nat \ {0} /\ Wrap \in Nat /\ Second <= Wrap BY ClockAssumption
<1>2. ASSUME NEW n \in Int PROVE n % Second \in Fractions
  <2>1. n % Second \in Nat /\ n % Second < Second BY <1>1, ModAndDiv
  <2> QED BY <1>1, <2>1 DEF Fractions
<1> QED BY <1>1, <1>2 DEF Fractions

Calendars ==
  [seconds : 0 .. 59, minutes : 0 .. 59, hours : 0 .. 23, day : 1 .. 39, month : 1 .. 12,
   year : 0 .. 99, weekday : 0 .. 6, hour24 : BOOLEAN, stop : BOOLEAN, micros : Fractions]

IsDay(c) == c.day <= DaysIn(c.month, c.year)
DayOf(c) == DaysBefore(c.year, c.month, c.day)

\* A clock with one of its registers changed.
LEMMA RegistersChange ==
  ASSUME NEW c \in Calendars
  PROVE  /\ \A v \in 0 .. 59 : /\ [c EXCEPT !.seconds = v] \in Calendars
                               /\ [c EXCEPT !.minutes = v] \in Calendars
         /\ \A v \in 0 .. 23 : [c EXCEPT !.hours = v] \in Calendars
         /\ \A v \in 1 .. 39 : [c EXCEPT !.day = v] \in Calendars
         /\ \A v \in 1 .. 12 : [c EXCEPT !.month = v] \in Calendars
         /\ \A v \in 0 .. 99 : [c EXCEPT !.year = v] \in Calendars
         /\ \A v \in 0 .. 6 : [c EXCEPT !.weekday = v] \in Calendars
         /\ \A v \in BOOLEAN : /\ [c EXCEPT !.hour24 = v] \in Calendars
                               /\ [c EXCEPT !.stop = v] \in Calendars
         /\ \A v \in Fractions : [c EXCEPT !.micros = v] \in Calendars
<1>1. \A v \in 0 .. 59 : /\ [c EXCEPT !.seconds = v] \in Calendars
                         /\ [c EXCEPT !.minutes = v] \in Calendars
  BY DEF Calendars
<1>2. \A v \in 0 .. 23 : [c EXCEPT !.hours = v] \in Calendars BY DEF Calendars
<1>3. \A v \in 1 .. 39 : [c EXCEPT !.day = v] \in Calendars BY DEF Calendars
<1>4. \A v \in 1 .. 12 : [c EXCEPT !.month = v] \in Calendars BY DEF Calendars
<1>5. \A v \in 0 .. 99 : [c EXCEPT !.year = v] \in Calendars BY DEF Calendars
<1>6. \A v \in 0 .. 6 : [c EXCEPT !.weekday = v] \in Calendars BY DEF Calendars
<1>7. \A v \in BOOLEAN : /\ [c EXCEPT !.hour24 = v] \in Calendars
                         /\ [c EXCEPT !.stop = v] \in Calendars
  BY DEF Calendars
<1>8. \A v \in Fractions : [c EXCEPT !.micros = v] \in Calendars BY DEF Calendars
<1> QED BY <1>1, <1>2, <1>3, <1>4, <1>5, <1>6, <1>7, <1>8

\* The days of the months, and those before them.
LEMMA MonthsFollow ==
  ASSUME NEW m \in 1 .. 12, NEW y \in 0 .. 99
  PROVE  /\ DaysIn(m, y) \in 28 .. 31
         /\ daysUpTo[m] \in 0 .. 334
         /\ \A d \in Int : /\ DaysBefore(y, m, d) = DaysBefore(y, m, 1) + d - 1
                           /\ DaysBefore(y, m, d) \in Int
         /\ m # 12 => DaysBefore(y, m + 1, 1) = DaysBefore(y, m, 1) + DaysIn(m, y)
         /\ m = 12 => DaysBefore(y + 1, 1, 1) = DaysBefore(y, 12, 1) + DaysIn(12, y)
<1>1. m \in {1, 2, 3, 4, 5, 6, 7, 8, 9, 10, 11, 12} OBVIOUS
<1>2. DaysIn(m, y) \in 28 .. 31 BY <1>1 DEF DaysIn, daysInMonth
<1>3. daysUpTo[m] \in 0 .. 334 BY <1>1 DEF daysUpTo
<1>4. ASSUME NEW d \in Int
      PROVE  DaysBefore(y, m, d) = DaysBefore(y, m, 1) + d - 1 /\ DaysBefore(y, m, d) \in Int
  <2>1. PICK leap \in 0 .. 1 : leap = IF m > 2 /\ y % 4 = 0 THEN 1 ELSE 0 OBVIOUS
  <2>2. PICK b : b = y * 365 + (y + 3) \div 4 + daysUpTo[m] + leap OBVIOUS
  <2>3. b \in Int BY <1>3, <2>2
  <2>4. DaysBefore(y, m, d) = b + d - 1 /\ DaysBefore(y, m, 1) = b + 1 - 1
    BY <2>1, <2>2 DEF DaysBefore
  <2> QED BY <2>3, <2>4
<1>5. CASE m # 12
  <2>1. daysUpTo[m + 1] = daysUpTo[m] + daysInMonth[m] BY <1>1, <1>5 DEF daysUpTo, daysInMonth
  <2>2. daysInMonth[2] = 28 /\ daysInMonth[m] \in Int BY <1>1 DEF daysInMonth
  <2>3. PICK before \in Int : before = y * 365 + (y + 3) \div 4 OBVIOUS
  <2>4. PICK leap \in 0 .. 1 : leap = IF y % 4 = 0 THEN 1 ELSE 0 OBVIOUS
  <2>5. DaysBefore(y, m, 1) = before + daysUpTo[m] + (IF m > 2 THEN leap ELSE 0)
    BY <1>3, <2>3, <2>4 DEF DaysBefore
  <2>6. DaysBefore(y, m + 1, 1)
          = before + daysUpTo[m] + daysInMonth[m] + (IF m + 1 > 2 THEN leap ELSE 0)
    <3>1. PICK more \in 0 .. 1 : more = IF m + 1 > 2 /\ y % 4 = 0 THEN 1 ELSE 0 OBVIOUS
    <3>2. more = IF m + 1 > 2 THEN leap ELSE 0 BY <2>4, <3>1
    <3>3. DaysBefore(y, m + 1, 1) = before + daysUpTo[m + 1] + more + 1 - 1
      BY <2>3, <3>1 DEF DaysBefore
    <3> QED BY <1>3, <2>1, <2>2, <3>2, <3>3
  <2>7. DaysIn(m, y) = daysInMonth[m] + (IF m = 2 THEN leap ELSE 0)
    BY <2>2, <2>4 DEF DaysIn
  <2>8. PICK u \in Int : u = daysUpTo[m] BY <1>3
  <2>9. PICK n \in Int : n = daysInMonth[m] BY <2>2
  <2>10. DaysBefore(y, m + 1, 1) = DaysBefore(y, m, 1) + DaysIn(m, y)
    BY <2>5, <2>6, <2>7, <2>8, <2>9
  <2> QED BY <1>2, <1>3, <1>4, <1>5, <2>10
<1>6. CASE m = 12
  <2>1. daysUpTo[12] = 334 /\ daysUpTo[1] = 0 /\ daysInMonth[12] = 31
    BY DEF daysUpTo, daysInMonth
  <2>2. (y + 3) \div 4 + (IF y % 4 = 0 THEN 1 ELSE 0) = (y + 4) \div 4 OBVIOUS
  <2> QED BY <1>2, <1>3, <1>4, <1>6, <2>1, <2>2 DEF DaysBefore, DaysIn
<1> QED BY <1>2, <1>3, <1>4, <1>5, <1>6

\* The years of the century.
LEMMA YearsFollow ==
  ASSUME NEW y \in 0 .. 99, NEW m \in 1 .. 12
  PROVE  /\ DaysBefore(y, m, 1) \in Nat /\ DaysBefore(y, m, 1) + DaysIn(m, y) <= CenturyDays
         /\ DaysBefore(99, 12, 1) + DaysIn(12, 99) = CenturyDays
         /\ DaysBefore(0, 1, 1) = 0
<1>1. m \in {1, 2, 3, 4, 5, 6, 7, 8, 9, 10, 11, 12} OBVIOUS
<1>2. daysUpTo[12] = 334 /\ daysUpTo[1] = 0 /\ daysInMonth[12] = 31 BY DEF daysUpTo, daysInMonth
<1>3. daysUpTo[m] \in Nat /\ DaysIn(m, y) \in Nat BY <1>1 DEF daysUpTo, DaysIn, daysInMonth
<1>4. daysUpTo[m] + DaysIn(m, y) + (IF m > 2 /\ y % 4 = 0 THEN 1 ELSE 0) <= 366
  BY <1>1 DEF daysUpTo, DaysIn, daysInMonth
<1>5. daysUpTo[m] + DaysIn(m, y) + (IF m > 2 /\ y % 4 = 0 THEN 1 ELSE 0) <= 365 \/ y % 4 = 0
  BY <1>1 DEF daysUpTo, DaysIn, daysInMonth
<1>6. (y + 3) \div 4 \in Nat /\ (y + 3) \div 4 <= 25 /\ (y % 4 = 0 => (y + 3) \div 4 <= 24)
  OBVIOUS
<1>7. DaysBefore(y, m, 1) \in Nat /\ DaysBefore(y, m, 1) + DaysIn(m, y) <= CenturyDays
  <2>1. PICK leap \in 0 .. 1 : leap = IF m > 2 /\ y % 4 = 0 THEN 1 ELSE 0 OBVIOUS
  <2>2. PICK q : q = (y + 3) \div 4 OBVIOUS
  <2>3. DaysBefore(y, m, 1) = y * 365 + q + daysUpTo[m] + leap
    BY <1>3, <1>6, <2>1, <2>2 DEF DaysBefore
  <2>4. daysUpTo[m] + DaysIn(m, y) + leap + q <= 390 BY <1>3, <1>4, <1>5, <1>6, <2>1, <2>2
  <2>5. q \in Nat BY <1>6, <2>2
  <2> QED BY <1>3, <2>1, <2>3, <2>4, <2>5 DEF CenturyDays
<1>8. DaysBefore(99, 12, 1) + DaysIn(12, 99) = CenturyDays
  <2>1. (99 + 3) \div 4 = 25 /\ 99 % 4 = 3 OBVIOUS
  <2> QED BY <1>2, <2>1 DEF DaysBefore, DaysIn, CenturyDays
<1>9. DaysBefore(0, 1, 1) = 0
  <2>1. (0 + 3) \div 4 = 0 OBVIOUS
  <2> QED BY <1>2, <2>1 DEF DaysBefore
<1> QED BY <1>7, <1>8, <1>9

LEMMA CenturyIsLong == CenturyDays \in Nat /\ CenturyDays > 31
BY DEF CenturyDays

\* The next day is the next in the count of the century.
LEMMA NextDayCounts ==
  ASSUME NEW c \in Calendars, NEW d, d = NextDay(c)
  PROVE  /\ d \in Calendars /\ d.micros = c.micros /\ d.stop = c.stop
         /\ d.weekday = (c.weekday + 1) % 7
         /\ IsDay(c) => IsDay(d) /\ DayOf(d) = (DayOf(c) + 1) % CenturyDays
<1>1. /\ c.day \in 1 .. 39 /\ c.month \in 1 .. 12 /\ c.year \in 0 .. 99 /\ c.weekday \in 0 .. 6
  BY DEF Calendars
<1>2. PICK ends \in BOOLEAN : ends <=> c.day >= DaysIn(c.month, c.year) OBVIOUS
<1>3. PICK day : day = IF ends THEN 1 ELSE c.day + 1 OBVIOUS
<1>4. PICK month : month = IF ends /\ c.month = 12 THEN 1
                           ELSE IF ends THEN c.month + 1 ELSE c.month
  OBVIOUS
<1>5. PICK year : year = IF ends /\ c.month = 12 THEN (c.year + 1) % 100 ELSE c.year OBVIOUS
<1>6. PICK wd : wd = (c.weekday + 1) % 7 OBVIOUS
<1>7. d = [c EXCEPT !.weekday = wd, !.day = day, !.month = month, !.year = year]
  BY <1>2, <1>3, <1>4, <1>5, <1>6, Zenon DEF NextDay
<1>8. DaysIn(c.month, c.year) \in 28 .. 31 BY <1>1, MonthsFollow, Zenon
<1>9. day \in 1 .. 39 /\ month \in 1 .. 12 /\ year \in 0 .. 99 /\ wd \in 0 .. 6
  BY <1>1, <1>2, <1>3, <1>4, <1>5, <1>6, <1>8
<1>10. d \in Calendars
  <2>1. PICK e \in Calendars : e = [c EXCEPT !.weekday = wd] BY <1>9, RegistersChange, Zenon
  <2>2. PICK f \in Calendars : f = [e EXCEPT !.day = day] BY <1>9, RegistersChange, Zenon
  <2>3. PICK g \in Calendars : g = [f EXCEPT !.month = month] BY <1>9, RegistersChange, Zenon
  <2>4. d = [g EXCEPT !.year = year] BY <1>7, <2>1, <2>2, <2>3
  <2> QED BY <1>9, <2>4, RegistersChange, Zenon
<1>11. /\ d.day = day
       /\ d.month = month
       /\ d.year = year
       /\ d.weekday = wd
       /\ d.micros = c.micros
       /\ d.stop = c.stop
  BY <1>7 DEF Calendars
<1>12. ASSUME IsDay(c) PROVE IsDay(d) /\ DayOf(d) = (DayOf(c) + 1) % CenturyDays
  <2>1. c.day <= DaysIn(c.month, c.year) BY <1>12 DEF IsDay
  <2>2. DayOf(c) = DaysBefore(c.year, c.month, 1) + c.day - 1
    <3>1. c.day \in Int BY <1>1
    <3> QED BY <1>1, <3>1, MonthsFollow, Zenon DEF DayOf
  <2>3. DayOf(d) = DaysBefore(year, month, 1) + day - 1
    <3>1. day \in Int BY <1>9
    <3> QED BY <1>9, <1>11, <3>1, MonthsFollow, Zenon DEF DayOf
  <2>4. /\ DaysBefore(c.year, c.month, 1) \in Nat
        /\ DaysBefore(c.year, c.month, 1) + DaysIn(c.month, c.year) <= CenturyDays
    BY <1>1, YearsFollow
  <2>5. /\ DaysBefore(year, month, 1) \in Nat
        /\ DaysBefore(year, month, 1) + DaysIn(month, year) <= CenturyDays
        /\ DaysIn(month, year) \in 28 .. 31
    BY <1>9, MonthsFollow, YearsFollow, Zenon
  <2>6. CASE ~ends
    <3>1. month = c.month /\ year = c.year /\ day = c.day + 1 /\ day <= DaysIn(month, year)
      BY <1>1, <1>2, <1>3, <1>4, <1>5, <1>8, <2>6
    <3>2. DayOf(d) = DayOf(c) + 1 BY <1>1, <2>2, <2>3, <2>4, <3>1
    <3>3. DayOf(d) \in Nat /\ DayOf(d) < CenturyDays
      BY <1>9, <2>3, <2>5, <3>1, CenturyIsLong
    <3> QED BY <1>11, <3>1, <3>2, <3>3, CenturyIsLong DEF IsDay
  <2>7. CASE ends
    <3>1. c.day = DaysIn(c.month, c.year) /\ day = 1 BY <1>1, <1>2, <1>3, <1>8, <2>1, <2>7
    <3>2. IsDay(d) BY <1>9, <1>11, <2>5, <3>1 DEF IsDay
    <3>3. /\ DayOf(c) + 1 = DaysBefore(c.year, c.month, 1) + DaysIn(c.month, c.year)
          /\ DayOf(d) = DaysBefore(year, month, 1)
      BY <1>8, <2>2, <2>3, <2>4, <2>5, <3>1
    <3>4. DayOf(d) \in Nat /\ DayOf(d) < CenturyDays BY <2>5, <3>3, CenturyIsLong
    <3>5. CASE c.month # 12
      <4>1. month = c.month + 1 /\ year = c.year BY <1>4, <1>5, <2>7, <3>5
      <4>2. DayOf(d) = DayOf(c) + 1 BY <1>1, <3>3, <3>5, <4>1, MonthsFollow, Zenon
      <4> QED BY <3>2, <3>4, <4>2, CenturyIsLong
    <3>6. CASE c.month = 12 /\ c.year # 99
      <4>1. month = 1 /\ year = c.year + 1 BY <1>1, <1>4, <1>5, <2>7, <3>6
      <4>2. DayOf(d) = DayOf(c) + 1 BY <1>1, <3>3, <3>6, <4>1, MonthsFollow, Zenon
      <4> QED BY <3>2, <3>4, <4>2, CenturyIsLong
    <3>7. CASE c.month = 12 /\ c.year = 99
      <4>1. month = 1 /\ year = 0 BY <1>1, <1>4, <1>5, <2>7, <3>7
      <4>2. DayOf(d) = 0 /\ DayOf(c) + 1 = CenturyDays BY <1>1, <3>3, <3>7, <4>1, YearsFollow
      <4> QED BY <3>2, <4>2, CenturyIsLong
    <3> QED BY <3>5, <3>6, <3>7
  <2> QED BY <2>6, <2>7
<1> QED BY <1>6, <1>10, <1>11, <1>12

\* What is counted from a to b, in whole and parts of w.
LEMMA GoesOn ==
  ASSUME NEW w \in Nat \ {0}, NEW a \in Nat, NEW n \in Nat
  PROVE  /\ ((a % w) + n) % w = (a + n) % w
         /\ ((a % w) + n) \div w = (a + n) \div w - a \div w
<1>1. PICK q : q = a \div w OBVIOUS
<1>2. PICK r : r = a % w OBVIOUS
<1>3. a = w * q + r /\ q \in Int /\ r \in Nat BY <1>1, <1>2, ModAndDiv
<1>4. PICK p : p = (r + n) \div w OBVIOUS
<1>5. PICK t : t = (r + n) % w OBVIOUS
<1>6. r + n = w * p + t /\ p \in Int /\ t \in Nat /\ t < w BY <1>3, <1>4, <1>5, ModAndDiv
<1>7. a + n = w * (q + p) + t BY <1>3, <1>6
<1>8. (a + n) % w = t /\ (a + n) \div w = q + p BY <1>3, <1>6, <1>7, ModOfSum
<1>9. (a + n) \div w - a \div w = p BY <1>1, <1>3, <1>6, <1>8
<1> QED BY <1>2, <1>4, <1>5, <1>8, <1>9

\* A day after another.
LEMMA DaysCount ==
  ASSUME NEW c \in Calendars, NEW n \in Nat, NEW d, d = DaysLater(c, n)
  PROVE  /\ d \in Calendars /\ d.micros = c.micros /\ d.stop = c.stop
         /\ d.weekday = (c.weekday + n) % 7
         /\ IsDay(c) => IsDay(d) /\ DayOf(d) = (DayOf(c) + n) % CenturyDays
<1>1. PICK f : DaysFrom(c, n, f) /\ d = f[n] BY DaysLaterIs
<1> DEFINE Counted(k) ==
      /\ f[k] \in Calendars /\ f[k].micros = c.micros /\ f[k].stop = c.stop
      /\ f[k].weekday = (c.weekday + k) % 7
      /\ IsDay(c) => IsDay(f[k]) /\ DayOf(f[k]) = (DayOf(c) + k) % CenturyDays
    S == {k \in Nat : k <= n => Counted(k)}
<1>2. c.weekday \in 0 .. 6 /\ c.day \in 1 .. 39 /\ c.month \in 1 .. 12 /\ c.year \in 0 .. 99
  BY DEF Calendars
<1>3. DayOf(c) \in Int /\ (IsDay(c) => DayOf(c) \in Nat /\ DayOf(c) < CenturyDays)
  <2>1. DayOf(c) = DaysBefore(c.year, c.month, 1) + c.day - 1
    <3>1. c.day \in Int BY <1>2
    <3> QED BY <1>2, <3>1, MonthsFollow, Zenon DEF DayOf
  <2>2. /\ DaysBefore(c.year, c.month, 1) \in Nat
        /\ DaysBefore(c.year, c.month, 1) + DaysIn(c.month, c.year) <= CenturyDays
        /\ DaysIn(c.month, c.year) \in 28 .. 31
    BY <1>2, MonthsFollow, YearsFollow, Zenon
  <2> QED BY <1>2, <2>1, <2>2, CenturyIsLong DEF IsDay
<1>4. 0 \in S
  <2>1. f[0] = c BY <1>1 DEF DaysFrom
  <2>2. c.weekday = (c.weekday + 0) % 7 BY <1>2
  <2>3. IsDay(c) => DayOf(c) = (DayOf(c) + 0) % CenturyDays BY <1>3, CenturyIsLong
  <2> QED BY <2>1, <2>2, <2>3
<1>5. ASSUME NEW k \in S PROVE k + 1 \in S
  <2> SUFFICES ASSUME k + 1 <= n PROVE Counted(k + 1) OBVIOUS
  <2>1. Counted(k) BY <1>5
  <2>2. f[k + 1] = NextDay(f[k])
    <3>1. k + 1 \in 0 .. n /\ k + 1 # 0 /\ (k + 1) - 1 = k OBVIOUS
    <3> QED BY <1>1, <3>1 DEF DaysFrom
  <2>3. PICK a : a = f[k] OBVIOUS
  <2>4. PICK z : z = f[k + 1] OBVIOUS
  <2>5. a \in Calendars /\ z = NextDay(a) BY <2>1, <2>2, <2>3, <2>4
  <2>6. /\ z \in Calendars /\ z.micros = a.micros /\ z.stop = a.stop
        /\ z.weekday = (a.weekday + 1) % 7
        /\ IsDay(a) => IsDay(z) /\ DayOf(z) = (DayOf(a) + 1) % CenturyDays
    BY <2>5, NextDayCounts
  <2>7. z.weekday = (c.weekday + (k + 1)) % 7
    <3>1. a.weekday = (c.weekday + k) % 7 BY <2>1, <2>3
    <3>2. (((c.weekday + k) % 7) + 1) % 7 = (c.weekday + k + 1) % 7
      <4>1. c.weekday + k \in Nat BY <1>2
      <4> QED BY <4>1, GoesOn
    <3> QED BY <1>2, <2>6, <3>1, <3>2
  <2>8. IsDay(c) => IsDay(z) /\ DayOf(z) = (DayOf(c) + (k + 1)) % CenturyDays
    <3> SUFFICES ASSUME IsDay(c) PROVE IsDay(z) /\ DayOf(z) = (DayOf(c) + (k + 1)) % CenturyDays
      OBVIOUS
    <3>1. IsDay(a) /\ DayOf(a) = (DayOf(c) + k) % CenturyDays BY <2>1, <2>3
    <3>2. DayOf(c) + k \in Nat BY <1>3
    <3>3. (((DayOf(c) + k) % CenturyDays) + 1) % CenturyDays = (DayOf(c) + k + 1) % CenturyDays
      BY <3>2, CenturyIsLong, GoesOn
    <3>4. DayOf(c) + k + 1 = DayOf(c) + (k + 1) BY <1>3
    <3> QED BY <2>6, <3>1, <3>3, <3>4
  <2> QED BY <2>1, <2>3, <2>4, <2>6, <2>7, <2>8
<1>6. n \in S
  <2> HIDE DEF S
  <2>1. S \subseteq Nat BY DEF S
  <2> QED BY <1>4, <1>5, <2>1, EveryNumber
<1> QED BY <1>1, <1>6

SecondOf(c) == SecondOfDay(c.hours, c.minutes, c.seconds)

LEMMA DayIsLong == DaySeconds \in Nat \ {0}
BY DEF DaySeconds

\* Hours, minutes and seconds of what is left of the days.
LEMMA PartsOfDay ==
  ASSUME NEW t \in Nat
  PROVE  /\ SecondOfDay((t \div 3600) % 24, (t \div 60) % 60, t % 60) = t % DaySeconds
         /\ (t \div 3600) % 24 \in 0 .. 23 /\ (t \div 60) % 60 \in 0 .. 59 /\ t % 60 \in 0 .. 59
<1>1. PICK m : m = t \div 60 OBVIOUS
<1>2. PICK s : s = t % 60 OBVIOUS
<1>3. t = 60 * m + s /\ m \in Int /\ s \in Nat /\ s < 60 BY <1>1, <1>2, ModAndDiv
<1>4. PICK h : h = m \div 60 OBVIOUS
<1>5. PICK mm : mm = m % 60 OBVIOUS
<1>6. m = 60 * h + mm /\ h \in Int /\ mm \in Nat /\ mm < 60 BY <1>3, <1>4, <1>5, ModAndDiv
<1>7. t \div 3600 = h
  <2>1. t = 3600 * h + (60 * mm + s) /\ 60 * mm + s \in Nat /\ 60 * mm + s < 3600 BY <1>3, <1>6
  <2> QED BY <1>6, <2>1, ModOfSum
<1>8. PICK d : d = h \div 24 OBVIOUS
<1>9. PICK hh : hh = h % 24 OBVIOUS
<1>10. h = 24 * d + hh /\ d \in Int /\ hh \in Nat /\ hh < 24 BY <1>6, <1>8, <1>9, ModAndDiv
<1>11. t % DaySeconds = (hh * 60 + mm) * 60 + s
  <2>1. PICK r : r = (hh * 60 + mm) * 60 + s OBVIOUS
  <2>2. r \in Nat /\ r < DaySeconds /\ t = DaySeconds * d + r
    BY <1>3, <1>6, <1>10, <2>1 DEF DaySeconds
  <2> QED BY <1>10, <2>1, <2>2, DayIsLong, ModOfSum, Zenon
<1> QED BY <1>1, <1>2, <1>3, <1>5, <1>6, <1>7, <1>9, <1>10, <1>11 DEF SecondOfDay

LEMMA SecondIsNatural ==
  ASSUME NEW h \in 0 .. 23, NEW m \in 0 .. 59, NEW s \in 0 .. 59
  PROVE  SecondOfDay(h, m, s) \in Nat
BY DEF SecondOfDay

\* The clock d is what c is when total seconds have gone by since midnight.
CarriedTo(c, d, total) ==
  /\ total \in Nat
  /\ d \in Calendars /\ d.micros = c.micros /\ d.stop = c.stop
  /\ SecondOf(d) = total % DaySeconds
  /\ d.weekday = (c.weekday + total \div DaySeconds) % 7
  /\ IsDay(c) => IsDay(d) /\ DayOf(d) = (DayOf(c) + total \div DaySeconds) % CenturyDays

LEMMA SecondsCarry ==
  ASSUME NEW c \in Calendars, NEW n \in Nat
  PROVE  CarriedTo(c, Incremented(c, n), SecondOf(c) + n)
<1>1. PICK d : d = Incremented(c, n) OBVIOUS
<1>2. PICK total : total = SecondOf(c) + n OBVIOUS
<1>3. total \in Nat
  <2>1. c.hours \in 0 .. 23 /\ c.minutes \in 0 .. 59 /\ c.seconds \in 0 .. 59 BY DEF Calendars
  <2>2. SecondOf(c) \in Nat BY <2>1, SecondIsNatural, Zenon DEF SecondOf
  <2> QED BY <1>2, <2>2
<1>4. PICK days \in Nat : days = total \div DaySeconds BY <1>3, DayIsLong, DivIsNatural
<1>5. PICK e : e = DaysLater(c, days) OBVIOUS
<1>6. /\ e \in Calendars /\ e.micros = c.micros /\ e.stop = c.stop
      /\ e.weekday = (c.weekday + days) % 7
      /\ IsDay(c) => IsDay(e) /\ DayOf(e) = (DayOf(c) + days) % CenturyDays
  BY <1>5, DaysCount
<1>7. PICK s : s = total % 60 OBVIOUS
<1>8. PICK m : m = (total \div 60) % 60 OBVIOUS
<1>9. PICK h : h = (total \div 3600) % 24 OBVIOUS
<1>10. h \in 0 .. 23 /\ m \in 0 .. 59 /\ s \in 0 .. 59 BY <1>3, <1>7, <1>8, <1>9, PartsOfDay
<1>11. d = [e EXCEPT !.seconds = s, !.minutes = m, !.hours = h]
  BY <1>1, <1>2, <1>4, <1>5, <1>7, <1>8, <1>9 DEF Incremented, SecondOf
<1>12. d \in Calendars
  <2>1. e \in Calendars BY <1>6
  <2>2. PICK f \in Calendars : f = [e EXCEPT !.seconds = s] BY <2>1, <1>10, RegistersChange, Zenon
  <2>3. PICK g \in Calendars : g = [f EXCEPT !.minutes = m] BY <1>10, RegistersChange, Zenon
  <2>4. d = [g EXCEPT !.hours = h] BY <1>11, <2>2, <2>3
  <2> QED BY <1>10, <2>4, RegistersChange, Zenon
<1>13. /\ d.seconds = s /\ d.minutes = m /\ d.hours = h /\ d.micros = e.micros
       /\ d.stop = e.stop
       /\ d.weekday = e.weekday /\ d.day = e.day /\ d.month = e.month /\ d.year = e.year
  BY <1>6, <1>11 DEF Calendars
<1>14. SecondOf(d) = total % DaySeconds
  <2>1. SecondOfDay(h, m, s) = total % DaySeconds
    <3>1. SecondOfDay((total \div 3600) % 24, (total \div 60) % 60, total % 60)
            = total % DaySeconds
      BY <1>3, PartsOfDay
    <3> QED BY <1>7, <1>8, <1>9, <3>1
  <2> QED BY <1>13, <2>1 DEF SecondOf
<1>15. (IsDay(d) <=> IsDay(e)) /\ DayOf(d) = DayOf(e) BY <1>13 DEF IsDay, DayOf
<1>16. CarriedTo(c, d, total) BY <1>3, <1>4, <1>6, <1>12, <1>13, <1>14, <1>15 DEF CarriedTo
<1> QED BY <1>1, <1>2, <1>16

-----------------------------------------------------------------------------
(* The clock runs. *)

\* The clock c shows what it was set to, d, and e after it.
TimeIs(d, c, e) ==
  LET total == SecondOf(d) + e \div Second IN
  /\ c.micros = e % Second /\ ~c.stop
  /\ SecondOf(c) = total % DaySeconds
  /\ c.weekday = (d.weekday + total \div DaySeconds) % 7
  /\ IsDay(c) /\ DayOf(c) = (DayOf(d) + total \div DaySeconds) % CenturyDays

LEMMA DateIsDay ==
  ASSUME NEW d, IsDate(d)
  PROVE  SecondOf(d) \in Nat /\ d.weekday \in Nat /\ DayOf(d) \in Nat /\ DayOf(d) < CenturyDays
<1>1. /\ d.year \in 0 .. 99 /\ d.month \in 1 .. 12 /\ d.day \in 1 .. DaysIn(d.month, d.year)
      /\ d.weekday \in 0 .. 6 /\ d.hours \in 0 .. 23 /\ d.minutes \in 0 .. 59
      /\ d.seconds \in 0 .. 59
  BY DEF IsDate
<1>2. SecondOf(d) \in Nat BY <1>1, SecondIsNatural, Zenon DEF SecondOf
<1>3. DaysBefore(d.year, d.month, 1) \in Nat
      /\ DaysBefore(d.year, d.month, 1) + DaysIn(d.month, d.year) <= CenturyDays
      /\ DaysIn(d.month, d.year) \in 28 .. 31
  BY <1>1, MonthsFollow, YearsFollow, Zenon
<1>4. d.day \in Int /\ d.day >= 1 /\ d.day <= DaysIn(d.month, d.year) BY <1>1, <1>3
<1>5. DayOf(d) = DaysBefore(d.year, d.month, 1) + d.day - 1
  BY <1>1, <1>4, MonthsFollow, Zenon DEF DayOf
<1> QED BY <1>1, <1>2, <1>3, <1>4, <1>5, CenturyIsLong

LEMMA TickStays ==
  ASSUME rtc \in Calendars, idle \in Nat
  PROVE  Tick \in Calendars /\ Tick.stop = rtc.stop /\ (rtc.stop => Tick = rtc)
<1>1. CASE rtc.stop BY <1>1 DEF Tick
<1>2. CASE ~rtc.stop
  <2>1. PICK total : total = (rtc.micros + (idle % Wrap)) % Wrap OBVIOUS
  <2>2. total \in Nat /\ total % Second \in Fractions /\ total \div Second \in Nat
    <3>1. PICK f \in Nat : f = rtc.micros BY FractionsAre DEF Calendars
    <3>2. Wrap \in Nat \ {0} /\ Second \in Nat \ {0} BY ClockAssumption
    <3>3. PICK i \in Nat : i = idle % Wrap BY <3>2, ModAndDiv
    <3>4. total = (f + i) % Wrap BY <2>1, <3>1, <3>3
    <3>5. total \in Nat BY <3>2, <3>4, ModAndDiv
    <3>6. total % Second \in Fractions
      <4>1. total \in Int BY <3>5
      <4> QED BY <4>1, FractionsAre, Zenon
    <3>7. total \div Second \in Nat BY <3>2, <3>5, DivIsNatural, Zenon
    <3> QED BY <3>5, <3>6, <3>7
  <2>3. PICK c \in Calendars : c = [rtc EXCEPT !.micros = total % Second]
    BY <2>2, RegistersChange, Zenon
  <2>4. PICK d : d = Incremented(c, total \div Second) OBVIOUS
  <2>5. Tick = d BY <1>2, <2>1, <2>3, <2>4 DEF Tick
  <2>6. d \in Calendars /\ d.stop = c.stop
    <3>1. PICK n \in Nat : n = total \div Second BY <2>2
    <3>2. PICK sum : sum = SecondOf(c) + n OBVIOUS
    <3>3. d = Incremented(c, n) BY <2>4, <3>1
    <3>4. CarriedTo(c, d, sum) BY <3>2, <3>3, SecondsCarry
    <3> QED BY <3>4 DEF CarriedTo
  <2>7. c.stop = rtc.stop BY <2>3 DEF Calendars
  <2> QED BY <1>2, <2>5, <2>6, <2>7
<1> QED BY <1>1, <1>2

LEMMA TickKeepsTime ==
  ASSUME rtc \in Calendars, IsDate(date), age \in Nat, idle \in Nat, idle <= age,
         rtc.micros + idle < Wrap, TimeIs(date, rtc, age - idle)
  PROVE  TimeIs(date, Tick, age)
<1>1. PICK e \in Nat : e = age - idle OBVIOUS
<1>2. PICK total : total = (rtc.micros + (idle % Wrap)) % Wrap OBVIOUS
<1>3. PICK n : n = total \div Second OBVIOUS
<1>4. PICK c : c = [rtc EXCEPT !.micros = total % Second] OBVIOUS
<1>5. PICK d : d = Incremented(c, n) OBVIOUS
<1>6. PICK t : t = SecondOf(date) + e \div Second OBVIOUS
<1>7. /\ rtc.micros = e % Second /\ ~rtc.stop
      /\ SecondOf(rtc) = t % DaySeconds
      /\ rtc.weekday = (date.weekday + t \div DaySeconds) % 7
      /\ IsDay(rtc) /\ DayOf(rtc) = (DayOf(date) + t \div DaySeconds) % CenturyDays
  BY <1>1, <1>6 DEF TimeIs
<1>8. Second \in Nat \ {0} /\ Wrap \in Nat \ {0} BY ClockAssumption
<1>9. total = rtc.micros + idle
  <2>1. PICK f \in Nat : f = rtc.micros BY FractionsAre DEF Calendars
  <2>2. idle % Wrap = idle BY <1>8, <2>1
  <2>3. (f + idle) % Wrap = f + idle BY <1>8, <2>1
  <2> QED BY <1>2, <2>1, <2>2, <2>3
<1>10. e + idle = age BY <1>1
<1>11. total = (e % Second) + idle /\ total \in Nat
  <2>1. total = (e % Second) + idle BY <1>7, <1>9
  <2>2. e % Second \in Nat BY <1>8, ModAndDiv
  <2> QED BY <2>1, <2>2
<1>12. total % Second = age % Second /\ n = age \div Second - e \div Second
  <2>1. /\ ((e % Second) + idle) % Second = (e + idle) % Second
        /\ ((e % Second) + idle) \div Second = (e + idle) \div Second - e \div Second
    BY <1>8, GoesOn
  <2> QED BY <1>3, <1>10, <1>11, <2>1
<1>13. n \in Nat BY <1>3, <1>8, <1>11, DivIsNatural
<1>14. age % Second \in Fractions BY FractionsAre
<1>15. SecondOf(date) \in Nat /\ date.weekday \in Nat /\ DayOf(date) \in Nat BY DateIsDay
<1>16. t \in Nat /\ SecondOf(date) + age \div Second = t + n
  <2>1. PICK f \in Nat : f = e \div Second BY <1>8, DivIsNatural
  <2>2. PICK g \in Nat : g = age \div Second BY <1>8, DivIsNatural
  <2>3. n = g - f BY <1>12, <2>1, <2>2
  <2> QED BY <1>6, <1>15, <2>1, <2>2, <2>3
<1>17. c \in Calendars
  <2>1. PICK f \in Fractions : f = age % Second BY <1>14
  <2>2. c = [rtc EXCEPT !.micros = f] BY <1>4, <1>12, <2>1
  <2> QED BY <2>2, RegistersChange, Zenon
<1>18. /\ c.micros = age % Second /\ c.stop = rtc.stop /\ SecondOf(c) = SecondOf(rtc)
       /\ c.weekday = rtc.weekday
       /\ c.day = rtc.day /\ c.month = rtc.month /\ c.year = rtc.year
  <2>1. /\ c.micros = age % Second /\ c.stop = rtc.stop /\ c.weekday = rtc.weekday
        /\ c.day = rtc.day /\ c.month = rtc.month /\ c.year = rtc.year
        /\ c.hours = rtc.hours /\ c.minutes = rtc.minutes /\ c.seconds = rtc.seconds
    BY <1>4, <1>12 DEF Calendars
  <2> QED BY <2>1 DEF SecondOf
<1>19. (IsDay(c) <=> IsDay(rtc)) /\ DayOf(c) = DayOf(rtc) BY <1>18 DEF IsDay, DayOf
<1>20. PICK sum : sum = SecondOf(c) + n OBVIOUS
<1>21. /\ sum \in Nat /\ d \in Calendars /\ d.micros = c.micros /\ d.stop = c.stop
       /\ SecondOf(d) = sum % DaySeconds
       /\ d.weekday = (c.weekday + sum \div DaySeconds) % 7
       /\ IsDay(c) => IsDay(d) /\ DayOf(d) = (DayOf(c) + sum \div DaySeconds) % CenturyDays
  <2>1. CarriedTo(c, d, sum) BY <1>5, <1>13, <1>17, <1>20, SecondsCarry
  <2> QED BY <2>1 DEF CarriedTo
<1>22. sum = (t % DaySeconds) + n BY <1>7, <1>18, <1>20
<1>23. /\ sum % DaySeconds = (t + n) % DaySeconds
       /\ sum \div DaySeconds = (t + n) \div DaySeconds - t \div DaySeconds
  BY <1>13, <1>16, <1>22, DayIsLong, GoesOn
<1>24. PICK k \in Nat : k = sum \div DaySeconds
  <2>1. sum \in Nat BY <1>21
  <2> QED BY <2>1, DayIsLong, DivIsNatural
<1>25. PICK p \in Nat : p = t \div DaySeconds BY <1>16, DayIsLong, DivIsNatural
<1>26. PICK q \in Nat : q = (t + n) \div DaySeconds BY <1>13, <1>16, DayIsLong, DivIsNatural
<1>27. q = p + k BY <1>23, <1>24, <1>25, <1>26
<1>28. d.weekday = (date.weekday + q) % 7
  <2>1. d.weekday = (((date.weekday + p) % 7) + k) % 7 BY <1>7, <1>18, <1>21, <1>24, <1>25
  <2>2. date.weekday + p \in Nat /\ date.weekday + p + k = date.weekday + q BY <1>15, <1>27
  <2>3. (((date.weekday + p) % 7) + k) % 7 = (date.weekday + p + k) % 7 BY <2>2, GoesOn
  <2> QED BY <2>1, <2>2, <2>3
<1>29. IsDay(d) /\ DayOf(d) = (DayOf(date) + q) % CenturyDays
  <2>1. DayOf(d) = (((DayOf(date) + p) % CenturyDays) + k) % CenturyDays
    BY <1>7, <1>19, <1>21, <1>24, <1>25
  <2>2. DayOf(date) + p \in Nat /\ DayOf(date) + p + k = DayOf(date) + q BY <1>15, <1>27
  <2>3. (((DayOf(date) + p) % CenturyDays) + k) % CenturyDays
          = (DayOf(date) + p + k) % CenturyDays
    BY <2>2, CenturyIsLong, GoesOn
  <2> QED BY <1>7, <1>19, <1>21, <2>1, <2>2, <2>3
<1>30. Tick = d BY <1>2, <1>3, <1>4, <1>5, <1>7 DEF Tick
<1> QED BY <1>7, <1>16, <1>18, <1>21, <1>23, <1>26, <1>28, <1>29, <1>30 DEF TimeIs

-----------------------------------------------------------------------------
(* A program sets the clock, digit by digit. *)

LEMMA OnesMeet ==
  ASSUME NEW n \in 0 .. 99, NEW v \in 0 .. 99, n \div 10 = v \div 10
  PROVE  Ones(n, v % 10) = v
BY DEF Ones, AtMost

LEMMA TensMeet ==
  ASSUME NEW n \in 0 .. 99, NEW t \in 0 .. 9
  PROVE  Tens(n, t) \in 0 .. 99 /\ Tens(n, t) \div 10 = t
BY DEF Tens

\* What is written to the pairs of registers.
LEMMA SixtiesAreSet ==
  ASSUME NEW n \in 0 .. 59, NEW v \in 0 .. 59
  PROVE  /\ AtMost(Tens(n, (v \div 10) % 8), 59) \in 0 .. 59
         /\ AtMost(Tens(n, (v \div 10) % 8), 59) \div 10 = v \div 10
         /\ n \div 10 = v \div 10 => AtMost(Ones(n, v % 10), 59) = v
<1>1. PICK t \in 0 .. 5 : t = v \div 10 /\ t % 8 = t OBVIOUS
<1>2. Tens(n, t) \in 0 .. 59 /\ Tens(n, t) \div 10 = t BY DEF Tens
<1>3. AtMost(Tens(n, t), 59) = Tens(n, t) BY <1>2 DEF AtMost
<1>4. n \div 10 = v \div 10 => Ones(n, v % 10) = v BY OnesMeet
<1>5. n \div 10 = v \div 10 => AtMost(Ones(n, v % 10), 59) = v BY <1>4 DEF AtMost
<1> QED BY <1>1, <1>2, <1>3, <1>5

LEMMA YearsAreSet ==
  ASSUME NEW n \in 0 .. 99, NEW v \in 0 .. 99
  PROVE  /\ Tens(n, AtMost(v \div 10, 9)) \in 0 .. 99
         /\ Tens(n, AtMost(v \div 10, 9)) \div 10 = v \div 10
<1>1. PICK t \in 0 .. 9 : t = v \div 10 OBVIOUS
<1>2. AtMost(t, 9) = t BY DEF AtMost
<1> QED BY <1>1, <1>2, TensMeet, Zenon

LEMMA MonthsAreSet ==
  ASSUME NEW n \in 1 .. 12, NEW v \in 1 .. 12
  PROVE  /\ Within(Tens(n, (v \div 10) % 2), 1, 12) \in 1 .. 12
         /\ Within(Tens(n, (v \div 10) % 2), 1, 12) \div 10 = v \div 10
         /\ n \div 10 = v \div 10 => Within(Ones(n, v % 10), 1, 12) = v
<1>1. PICK t \in 0 .. 1 : t = v \div 10 /\ t % 2 = t OBVIOUS
<1>2. Within(Tens(n, t), 1, 12) \in 1 .. 12 /\ Within(Tens(n, t), 1, 12) \div 10 = t
  BY DEF Within, AtMost, Tens
<1>3. n \div 10 = v \div 10 => Ones(n, v % 10) = v BY OnesMeet
<1>4. n \div 10 = v \div 10 => Within(Ones(n, v % 10), 1, 12) = v BY <1>3 DEF Within, AtMost
<1> QED BY <1>1, <1>2, <1>4

LEMMA DaysAreSet ==
  ASSUME NEW n \in 1 .. 39, NEW v \in 1 .. 39
  PROVE  /\ Within(Tens(n, (v \div 10) % 4), 1, 39) \in 1 .. 39
         /\ Within(Tens(n, (v \div 10) % 4), 1, 39) \div 10 = v \div 10
         /\ n \div 10 = v \div 10 => Within(Ones(n, v % 10), 1, 39) = v
<1>1. PICK t \in 0 .. 3 : t = v \div 10 /\ t % 4 = t OBVIOUS
<1>2. Within(Tens(n, t), 1, 39) \in 1 .. 39 /\ Within(Tens(n, t), 1, 39) \div 10 = t
  BY DEF Within, AtMost, Tens
<1>3. n \div 10 = v \div 10 => Ones(n, v % 10) = v BY OnesMeet
<1>4. n \div 10 = v \div 10 => Within(Ones(n, v % 10), 1, 39) = v BY <1>3 DEF Within, AtMost
<1> QED BY <1>1, <1>2, <1>4

LEMMA HoursAreSet ==
  ASSUME NEW n \in 0 .. 23, NEW v \in 0 .. 23
  PROVE  /\ 8 + v \div 10 >= 8
         /\ AtMost(Tens(n, (8 + v \div 10) % 4), 23) \in 0 .. 23
         /\ AtMost(Tens(n, (8 + v \div 10) % 4), 23) \div 10 = v \div 10
         /\ n \div 10 = v \div 10 => AtMost(Ones(n, v % 10), 23) = v
<1>1. PICK t \in 0 .. 2 : t = v \div 10 /\ (8 + t) % 4 = t OBVIOUS
<1>2. AtMost(Tens(n, t), 23) \in 0 .. 23 /\ AtMost(Tens(n, t), 23) \div 10 = t
  BY DEF AtMost, Tens
<1>3. n \div 10 = v \div 10 => Ones(n, v % 10) = v BY OnesMeet
<1>4. n \div 10 = v \div 10 => AtMost(Ones(n, v % 10), 23) = v BY <1>3 DEF AtMost
<1> QED BY <1>1, <1>2, <1>4

\* The first k writes have been done, of d into c.
SetUpTo(k, d, c) ==
  /\ k >= 1 => c.hour24 /\ c.stop
  /\ k >= 2 => c.weekday = d.weekday
  /\ k >= 3 => c.year \div 10 = d.year \div 10
  /\ k >= 4 => c.year = d.year
  /\ k >= 5 => c.month \div 10 = d.month \div 10
  /\ k >= 6 => c.month = d.month
  /\ k >= 7 => c.day \div 10 = d.day \div 10
  /\ k >= 8 => c.day = d.day
  /\ k >= 9 => c.hours \div 10 = d.hours \div 10
  /\ k >= 10 => c.hours = d.hours
  /\ k >= 11 => c.minutes \div 10 = d.minutes \div 10
  /\ k >= 12 => c.minutes = d.minutes
  /\ k >= 13 => c.seconds \div 10 = d.seconds \div 10 /\ c.micros = 0
  /\ k >= 14 => c.seconds = d.seconds

\* The writes left after k.
LeftOf(k, d) == [j \in 1 .. 15 - k |-> Setting(d)[j + k]]

DateFields(d) ==
  /\ d.year \in 0 .. 99 /\ d.month \in 1 .. 12 /\ d.day \in 1 .. 39 /\ d.weekday \in 0 .. 6
  /\ d.hours \in 0 .. 23 /\ d.minutes \in 0 .. 59 /\ d.seconds \in 0 .. 59

LEMMA DatesHaveFields ==
  ASSUME NEW d, IsDate(d)
  PROVE  DateFields(d)
<1>1. d.year \in 0 .. 99 /\ d.month \in 1 .. 12 BY DEF IsDate
<1>2. DaysIn(d.month, d.year) \in 28 .. 31 BY <1>1, MonthsFollow, Zenon
<1> QED BY <1>1, <1>2 DEF IsDate, DateFields

\* The next write does its part and leaves the others alone.
LEMMA WriteSets ==
  ASSUME NEW d, DateFields(d), NEW c \in Calendars, NEW k \in 0 .. 13, SetUpTo(k, d, c)
  PROVE  LET e == Register(c, Setting(d)[k + 1][1], Setting(d)[k + 1][2])
         IN  e \in Calendars /\ SetUpTo(k + 1, d, e)
<1>1. PICK e : e = Register(c, Setting(d)[k + 1][1], Setting(d)[k + 1][2]) OBVIOUS
<1> SUFFICES e \in Calendars /\ SetUpTo(k + 1, d, e) BY <1>1
<1>2. /\ d.year \in 0 .. 99 /\ d.month \in 1 .. 12 /\ d.day \in 1 .. 39 /\ d.weekday \in 0 .. 6
      /\ d.hours \in 0 .. 23 /\ d.minutes \in 0 .. 59 /\ d.seconds \in 0 .. 59
  BY DEF DateFields
<1>3. /\ c.year \in 0 .. 99 /\ c.month \in 1 .. 12 /\ c.day \in 1 .. 39
      /\ c.hours \in 0 .. 23 /\ c.minutes \in 0 .. 59 /\ c.seconds \in 0 .. 59
  BY DEF Calendars
<1>4. CASE k = 0
  <2>1. e = Register(c, 15, 6) BY <1>1, <1>4 DEF Setting
  <2>2. 6 % 8 >= 4 /\ 6 % 4 >= 2 OBVIOUS
  <2>3. (6 % 8 >= 4) = TRUE /\ (6 % 4 >= 2) = TRUE BY <2>2, Zenon
  <2>4. e = [c EXCEPT !.hour24 = (6 % 8 >= 4), !.stop = (6 % 4 >= 2)] BY <2>1 DEF Register
  <2>5. e = [c EXCEPT !.hour24 = TRUE, !.stop = TRUE] BY <2>3, <2>4, Zenon
  <2>6. PICK f \in Calendars : f = [c EXCEPT !.hour24 = TRUE] BY RegistersChange, Zenon
  <2>7. e = [f EXCEPT !.stop = TRUE] BY <2>5, <2>6
  <2>8. e \in Calendars BY <2>7, RegistersChange, Zenon
  <2>9. e.hour24 /\ e.stop BY <2>5 DEF Calendars
  <2> QED BY <1>4, <2>8, <2>9 DEF SetUpTo
<1>5. CASE k = 1
  <2>1. e = Register(c, 12, d.weekday) BY <1>1, <1>5 DEF Setting
  <2>2. c.hour24 BY <1>5 DEF SetUpTo
  <2>3. PICK v \in 0 .. 6 : v = AtMost(d.weekday, 6) /\ v = d.weekday
    BY <1>2 DEF AtMost
  <2>4. e = [c EXCEPT !.weekday = v] BY <2>1, <2>2, <2>3 DEF Register
  <2>5. e \in Calendars BY <2>4, RegistersChange, Zenon
  <2>6. /\ e.weekday = v
        /\ e.hour24 = c.hour24 /\ e.stop = c.stop /\ e.year = c.year /\ e.month = c.month
        /\ e.day = c.day /\ e.hours = c.hours /\ e.minutes = c.minutes
        /\ e.seconds = c.seconds /\ e.micros = c.micros
    BY <2>4 DEF Calendars
  <2> QED BY <1>5, <2>2, <2>3, <2>5, <2>6 DEF SetUpTo
<1>6. CASE k = 2
  <2>1. e = Register(c, 11, d.year \div 10) BY <1>1, <1>6 DEF Setting
  <2>2. c.hour24 BY <1>6 DEF SetUpTo
  <2>3. c.year \in 0 .. 99 /\ d.year \in 0 .. 99 BY <1>2, <1>3
  <2>4. /\ Tens(c.year, AtMost(d.year \div 10, 9)) \in 0 .. 99
        /\ Tens(c.year, AtMost(d.year \div 10, 9)) \div 10 = d.year \div 10
    BY <2>3, YearsAreSet, Zenon
  <2>5. PICK v \in 0 .. 99 : v = Tens(c.year, AtMost(d.year \div 10, 9))
             /\ v \div 10 = d.year \div 10
    BY <2>4
  <2>6. e = [c EXCEPT !.year = v] BY <2>1, <2>2, <2>5 DEF Register
  <2>7. e \in Calendars BY <2>6, RegistersChange, Zenon
  <2>8. /\ e.year = v
        /\ e.hour24 = c.hour24 /\ e.stop = c.stop /\ e.weekday = c.weekday
        /\ e.month = c.month /\ e.day = c.day /\ e.hours = c.hours /\ e.minutes = c.minutes
        /\ e.seconds = c.seconds /\ e.micros = c.micros
    BY <2>6 DEF Calendars
  <2> QED BY <1>6, <2>2, <2>5, <2>7, <2>8 DEF SetUpTo
<1>7. CASE k = 3
  <2>1. e = Register(c, 10, d.year % 10) BY <1>1, <1>7 DEF Setting
  <2>2. c.hour24 /\ c.year \div 10 = d.year \div 10 BY <1>7 DEF SetUpTo
  <2>3. c.year \in 0 .. 99 /\ d.year \in 0 .. 99 BY <1>2, <1>3
  <2>4. Ones(c.year, d.year % 10) = d.year BY <2>3, <2>2, OnesMeet
  <2>5. PICK v \in 0 .. 99 : v = Ones(c.year, d.year % 10) /\ v = d.year BY <2>3, <2>4
  <2>6. e = [c EXCEPT !.year = v] BY <2>1, <2>2, <2>5 DEF Register
  <2>7. e \in Calendars BY <2>6, RegistersChange
  <2>8. /\ e.year = v
        /\ e.hour24 = c.hour24 /\ e.stop = c.stop /\ e.weekday = c.weekday
        /\ e.month = c.month /\ e.day = c.day /\ e.hours = c.hours /\ e.minutes = c.minutes
        /\ e.seconds = c.seconds /\ e.micros = c.micros
    BY <2>6 DEF Calendars
  <2> QED BY <1>7, <2>2, <2>5, <2>7, <2>8 DEF SetUpTo
<1>8. CASE k = 4
  <2>1. e = Register(c, 9, d.month \div 10) BY <1>1, <1>8 DEF Setting
  <2>2. c.hour24 BY <1>8 DEF SetUpTo
  <2>3. c.month \in 1 .. 12 /\ d.month \in 1 .. 12 BY <1>2, <1>3
  <2>4. /\ Within(Tens(c.month, (d.month \div 10) % 2), 1, 12) \in 1 .. 12
        /\ Within(Tens(c.month, (d.month \div 10) % 2), 1, 12) \div 10 = d.month \div 10
    BY <2>3, MonthsAreSet
  <2>5. PICK v \in 1 .. 12 : v = Within(Tens(c.month, (d.month \div 10) % 2), 1, 12)
             /\ v \div 10 = d.month \div 10
    BY <2>4
  <2>6. e = [c EXCEPT !.month = v] BY <2>1, <2>2, <2>5 DEF Register
  <2>7. e \in Calendars BY <2>6, RegistersChange, Zenon
  <2>8. /\ e.month = v
        /\ e.hour24 = c.hour24 /\ e.stop = c.stop /\ e.weekday = c.weekday
        /\ e.year = c.year /\ e.day = c.day /\ e.hours = c.hours /\ e.minutes = c.minutes
        /\ e.seconds = c.seconds /\ e.micros = c.micros
    BY <2>6 DEF Calendars
  <2> QED BY <1>8, <2>2, <2>5, <2>7, <2>8 DEF SetUpTo
<1>9. CASE k = 5
  <2>1. e = Register(c, 8, d.month % 10) BY <1>1, <1>9 DEF Setting
  <2>2. c.hour24 /\ c.month \div 10 = d.month \div 10 BY <1>9 DEF SetUpTo
  <2>3. c.month \in 1 .. 12 /\ d.month \in 1 .. 12 BY <1>2, <1>3
  <2>4. Within(Ones(c.month, d.month % 10), 1, 12) = d.month BY <2>3, <2>2, MonthsAreSet
  <2>5. PICK v \in 1 .. 12 : v = Within(Ones(c.month, d.month % 10), 1, 12) /\ v = d.month
    BY <2>3, <2>4
  <2>6. e = [c EXCEPT !.month = v] BY <2>1, <2>2, <2>5 DEF Register
  <2>7. e \in Calendars BY <2>6, RegistersChange
  <2>8. /\ e.month = v
        /\ e.hour24 = c.hour24 /\ e.stop = c.stop /\ e.weekday = c.weekday
        /\ e.year = c.year /\ e.day = c.day /\ e.hours = c.hours /\ e.minutes = c.minutes
        /\ e.seconds = c.seconds /\ e.micros = c.micros
    BY <2>6 DEF Calendars
  <2> QED BY <1>9, <2>2, <2>5, <2>7, <2>8 DEF SetUpTo
<1>10. CASE k = 6
  <2>1. e = Register(c, 7, d.day \div 10) BY <1>1, <1>10 DEF Setting
  <2>2. c.hour24 BY <1>10 DEF SetUpTo
  <2>3. c.day \in 1 .. 39 /\ d.day \in 1 .. 39 BY <1>2, <1>3
  <2>4. /\ Within(Tens(c.day, (d.day \div 10) % 4), 1, 39) \in 1 .. 39
        /\ Within(Tens(c.day, (d.day \div 10) % 4), 1, 39) \div 10 = d.day \div 10
    BY <2>3, DaysAreSet, Zenon
  <2>5. PICK v \in 1 .. 39 : v = Within(Tens(c.day, (d.day \div 10) % 4), 1, 39)
             /\ v \div 10 = d.day \div 10
    BY <2>4
  <2>6. e = [c EXCEPT !.day = v] BY <2>1, <2>2, <2>5 DEF Register
  <2>7. e \in Calendars BY <2>6, RegistersChange, Zenon
  <2>8. /\ e.day = v
        /\ e.hour24 = c.hour24 /\ e.stop = c.stop /\ e.weekday = c.weekday
        /\ e.year = c.year /\ e.month = c.month /\ e.hours = c.hours
        /\ e.minutes = c.minutes /\ e.seconds = c.seconds /\ e.micros = c.micros
    BY <2>6 DEF Calendars
  <2> QED BY <1>10, <2>2, <2>5, <2>7, <2>8 DEF SetUpTo
<1>11. CASE k = 7
  <2>1. e = Register(c, 6, d.day % 10) BY <1>1, <1>11 DEF Setting
  <2>2. c.hour24 /\ c.day \div 10 = d.day \div 10 BY <1>11 DEF SetUpTo
  <2>3. c.day \in 1 .. 39 /\ d.day \in 1 .. 39 BY <1>2, <1>3
  <2>4. Within(Ones(c.day, d.day % 10), 1, 39) = d.day BY <2>3, <2>2, DaysAreSet, Zenon
  <2>5. PICK v \in 1 .. 39 : v = Within(Ones(c.day, d.day % 10), 1, 39) /\ v = d.day
    BY <2>3, <2>4
  <2>6. e = [c EXCEPT !.day = v] BY <2>1, <2>2, <2>5 DEF Register
  <2>7. e \in Calendars BY <2>6, RegistersChange
  <2>8. /\ e.day = v
        /\ e.hour24 = c.hour24 /\ e.stop = c.stop /\ e.weekday = c.weekday
        /\ e.year = c.year /\ e.month = c.month /\ e.hours = c.hours
        /\ e.minutes = c.minutes /\ e.seconds = c.seconds /\ e.micros = c.micros
    BY <2>6 DEF Calendars
  <2> QED BY <1>11, <2>2, <2>5, <2>7, <2>8 DEF SetUpTo
<1>12. CASE k = 8
  <2>1. e = Register(c, 5, 8 + (d.hours \div 10)) BY <1>1, <1>12 DEF Setting
  <2>2. c.hour24 BY <1>12 DEF SetUpTo
  <2>3. c.hours \in 0 .. 23 /\ d.hours \in 0 .. 23 BY <1>2, <1>3
  <2>4. /\ AtMost(Tens(c.hours, (8 + d.hours \div 10) % 4), 23) \in 0 .. 23
        /\ AtMost(Tens(c.hours, (8 + d.hours \div 10) % 4), 23) \div 10 = d.hours \div 10
    BY <2>3, HoursAreSet
  <2>5. PICK v \in 0 .. 23 : v = AtMost(Tens(c.hours, (8 + d.hours \div 10) % 4), 23)
             /\ v \div 10 = d.hours \div 10
    BY <2>4
  <2>6. e = [c EXCEPT !.hour24 = TRUE, !.hours = v]
    <3>1. PICK t : t = 8 + (d.hours \div 10) OBVIOUS
    <3>2. t >= 8 BY <2>3, <3>1, HoursAreSet
    <3>3. e = TenHours(c, t) BY <2>1, <3>1 DEF Register
    <3>4. v = AtMost(Tens(c.hours, t % 4), 23) BY <2>5, <3>1
    <3> QED BY <3>2, <3>3, <3>4 DEF TenHours
  <2>7. PICK x \in Calendars : x = [c EXCEPT !.hour24 = TRUE] BY RegistersChange, Zenon
  <2>8. e = [x EXCEPT !.hours = v] BY <2>6, <2>7
  <2>9. e \in Calendars BY <2>8, RegistersChange, Zenon
  <2>10. /\ e.hours = v /\ e.hour24
        /\ e.stop = c.stop /\ e.weekday = c.weekday /\ e.year = c.year /\ e.month = c.month
        /\ e.day = c.day /\ e.minutes = c.minutes /\ e.seconds = c.seconds
        /\ e.micros = c.micros
    BY <2>6 DEF Calendars
  <2> QED BY <1>12, <2>2, <2>5, <2>9, <2>10 DEF SetUpTo
<1>13. CASE k = 9
  <2>1. e = Register(c, 4, d.hours % 10) BY <1>1, <1>13 DEF Setting
  <2>2. c.hour24 /\ c.hours \div 10 = d.hours \div 10 BY <1>13 DEF SetUpTo
  <2>3. c.hours \in 0 .. 23 /\ d.hours \in 0 .. 23 BY <1>2, <1>3
  <2>4. AtMost(Ones(c.hours, d.hours % 10), 23) = d.hours BY <2>3, <2>2, HoursAreSet
  <2>5. PICK v \in 0 .. 23 : v = AtMost(Ones(c.hours, d.hours % 10), 23) /\ v = d.hours
    BY <2>3, <2>4
  <2>6. e = [c EXCEPT !.hours = v] BY <2>1, <2>2, <2>5 DEF Register, OneHours
  <2>7. e \in Calendars BY <2>6, RegistersChange, Zenon
  <2>8. /\ e.hours = v
        /\ e.hour24 = c.hour24 /\ e.stop = c.stop /\ e.weekday = c.weekday
        /\ e.year = c.year /\ e.month = c.month /\ e.day = c.day /\ e.minutes = c.minutes
        /\ e.seconds = c.seconds /\ e.micros = c.micros
    BY <2>6 DEF Calendars
  <2> QED BY <1>13, <2>2, <2>5, <2>7, <2>8 DEF SetUpTo
<1>14. CASE k = 10
  <2>1. e = Register(c, 3, d.minutes \div 10) BY <1>1, <1>14 DEF Setting
  <2>2. c.hour24 BY <1>14 DEF SetUpTo
  <2>3. c.minutes \in 0 .. 59 /\ d.minutes \in 0 .. 59 BY <1>2, <1>3
  <2>4. /\ AtMost(Tens(c.minutes, (d.minutes \div 10) % 8), 59) \in 0 .. 59
        /\ AtMost(Tens(c.minutes, (d.minutes \div 10) % 8), 59) \div 10 = d.minutes \div 10
    BY <2>3, SixtiesAreSet, Zenon
  <2>5. PICK v \in 0 .. 59 : v = AtMost(Tens(c.minutes, (d.minutes \div 10) % 8), 59)
             /\ v \div 10 = d.minutes \div 10
    BY <2>4
  <2>6. e = [c EXCEPT !.minutes = v] BY <2>1, <2>2, <2>5 DEF Register
  <2>7. e \in Calendars BY <2>6, RegistersChange, Zenon
  <2>8. /\ e.minutes = v
        /\ e.hour24 = c.hour24 /\ e.stop = c.stop /\ e.weekday = c.weekday
        /\ e.year = c.year /\ e.month = c.month /\ e.day = c.day /\ e.hours = c.hours
        /\ e.seconds = c.seconds /\ e.micros = c.micros
    BY <2>6 DEF Calendars
  <2> QED BY <1>14, <2>2, <2>5, <2>7, <2>8 DEF SetUpTo
<1>15. CASE k = 11
  <2>1. e = Register(c, 2, d.minutes % 10) BY <1>1, <1>15 DEF Setting
  <2>2. c.hour24 /\ c.minutes \div 10 = d.minutes \div 10 BY <1>15 DEF SetUpTo
  <2>3. c.minutes \in 0 .. 59 /\ d.minutes \in 0 .. 59 BY <1>2, <1>3
  <2>4. AtMost(Ones(c.minutes, d.minutes % 10), 59) = d.minutes BY <2>3, <2>2, SixtiesAreSet, Zenon
  <2>5. PICK v \in 0 .. 59 : v = AtMost(Ones(c.minutes, d.minutes % 10), 59) /\ v = d.minutes
    BY <2>3, <2>4
  <2>6. e = [c EXCEPT !.minutes = v] BY <2>1, <2>2, <2>5 DEF Register
  <2>7. e \in Calendars BY <2>6, RegistersChange
  <2>8. /\ e.minutes = v
        /\ e.hour24 = c.hour24 /\ e.stop = c.stop /\ e.weekday = c.weekday
        /\ e.year = c.year /\ e.month = c.month /\ e.day = c.day /\ e.hours = c.hours
        /\ e.seconds = c.seconds /\ e.micros = c.micros
    BY <2>6 DEF Calendars
  <2> QED BY <1>15, <2>2, <2>5, <2>7, <2>8 DEF SetUpTo
<1>16. CASE k = 12
  <2>1. e = Register(c, 1, d.seconds \div 10) BY <1>1, <1>16 DEF Setting
  <2>2. c.hour24 BY <1>16 DEF SetUpTo
  <2>3. c.seconds \in 0 .. 59 /\ d.seconds \in 0 .. 59 BY <1>2, <1>3
  <2>4. /\ AtMost(Tens(c.seconds, (d.seconds \div 10) % 8), 59) \in 0 .. 59
        /\ AtMost(Tens(c.seconds, (d.seconds \div 10) % 8), 59) \div 10 = d.seconds \div 10
    BY <2>3, SixtiesAreSet, Zenon
  <2>5. PICK v \in 0 .. 59 : v = AtMost(Tens(c.seconds, (d.seconds \div 10) % 8), 59)
             /\ v \div 10 = d.seconds \div 10
    BY <2>4
  <2>6. e = [c EXCEPT !.seconds = v, !.micros = 0] BY <2>1, <2>5 DEF Register
  <2>7. PICK x \in Calendars : x = [c EXCEPT !.seconds = v] BY RegistersChange, Zenon
  <2>8. e = [x EXCEPT !.micros = 0] BY <2>6, <2>7
  <2>9. e \in Calendars
    <3>1. PICK z \in Fractions : z = 0 BY FractionsAre, Zenon
    <3>2. e = [x EXCEPT !.micros = z] BY <2>8, <3>1
    <3> QED BY <3>2, RegistersChange, Zenon
  <2>10. /\ e.seconds = v /\ e.micros = 0
        /\ e.hour24 = c.hour24 /\ e.stop = c.stop /\ e.weekday = c.weekday
        /\ e.year = c.year /\ e.month = c.month /\ e.day = c.day /\ e.hours = c.hours
        /\ e.minutes = c.minutes
    BY <2>6 DEF Calendars
  <2> QED BY <1>16, <2>2, <2>5, <2>9, <2>10 DEF SetUpTo
<1>17. CASE k = 13
  <2>1. e = Register(c, 0, d.seconds % 10) BY <1>1, <1>17 DEF Setting
  <2>2. c.hour24 /\ c.seconds \div 10 = d.seconds \div 10 BY <1>17 DEF SetUpTo
  <2>3. c.seconds \in 0 .. 59 /\ d.seconds \in 0 .. 59 BY <1>2, <1>3
  <2>4. AtMost(Ones(c.seconds, d.seconds % 10), 59) = d.seconds BY <2>3, <2>2, SixtiesAreSet, Zenon
  <2>5. PICK v \in 0 .. 59 : v = AtMost(Ones(c.seconds, d.seconds % 10), 59) /\ v = d.seconds
    BY <2>3, <2>4
  <2>6. e = [c EXCEPT !.seconds = v, !.micros = 0] BY <2>1, <2>5 DEF Register
  <2>7. PICK x \in Calendars : x = [c EXCEPT !.seconds = v] BY RegistersChange
  <2>8. e = [x EXCEPT !.micros = 0] BY <2>6, <2>7
  <2>9. e \in Calendars
    <3>1. PICK z \in Fractions : z = 0 BY FractionsAre, Zenon
    <3>2. e = [x EXCEPT !.micros = z] BY <2>8, <3>1
    <3> QED BY <3>2, RegistersChange, Zenon
  <2>10. /\ e.seconds = v /\ e.micros = 0
        /\ e.hour24 = c.hour24 /\ e.stop = c.stop /\ e.weekday = c.weekday
        /\ e.year = c.year /\ e.month = c.month /\ e.day = c.day /\ e.hours = c.hours
        /\ e.minutes = c.minutes
    BY <2>6 DEF Calendars
  <2> QED BY <1>17, <2>2, <2>5, <2>9, <2>10 DEF SetUpTo
<1> QED
  BY <1>4, <1>5, <1>6, <1>7, <1>8, <1>9, <1>10, <1>11, <1>12, <1>13, <1>14, <1>15, <1>16, <1>17

\* The last write starts the clock.
LEMMA LastWriteStarts ==
  ASSUME NEW d, IsDate(d), NEW c \in Calendars, SetUpTo(14, d, c)
  PROVE  LET e == Register(c, Setting(d)[15][1], Setting(d)[15][2])
         IN  e \in Calendars /\ TimeIs(d, e, 0)
<1>1. PICK e : e = Register(c, 15, 4) OBVIOUS
<1>2. Setting(d)[15] = <<15, 4>> BY DEF Setting
<1> SUFFICES e \in Calendars /\ TimeIs(d, e, 0)
  <2>1. Setting(d)[15][1] = 15 /\ Setting(d)[15][2] = 4 BY <1>2
  <2> QED BY <1>1, <2>1
<1>3. e = [c EXCEPT !.hour24 = TRUE, !.stop = FALSE]
  <2>1. (4 % 8 >= 4) = TRUE OBVIOUS
  <2>2. (4 % 4 >= 2) = FALSE OBVIOUS
  <2>3. e = [c EXCEPT !.hour24 = (4 % 8 >= 4), !.stop = (4 % 4 >= 2)] BY <1>1 DEF Register
  <2> QED BY <2>1, <2>2, <2>3, Zenon
<1>4. e \in Calendars
  <2>1. PICK f \in Calendars : f = [c EXCEPT !.hour24 = TRUE] BY RegistersChange, Zenon
  <2>2. e = [f EXCEPT !.stop = FALSE] BY <1>3, <2>1
  <2> QED BY <2>2, RegistersChange, Zenon
<1>5. /\ e.seconds = d.seconds /\ e.minutes = d.minutes /\ e.hours = d.hours /\ e.day = d.day
      /\ e.month = d.month /\ e.year = d.year /\ e.weekday = d.weekday /\ e.micros = 0
      /\ ~e.stop
  <2>1. /\ c.seconds = d.seconds /\ c.minutes = d.minutes /\ c.hours = d.hours /\ c.day = d.day
        /\ c.month = d.month /\ c.year = d.year /\ c.weekday = d.weekday /\ c.micros = 0
    BY DEF SetUpTo
  <2> QED BY <1>3, <2>1 DEF Calendars
<1>6. SecondOf(e) = SecondOf(d) /\ DayOf(e) = DayOf(d) BY <1>5 DEF SecondOf, DayOf
<1>7. IsDay(e)
  <2>1. d.day \in 1 .. DaysIn(d.month, d.year) /\ d.month \in 1 .. 12 /\ d.year \in 0 .. 99
    BY DEF IsDate
  <2>2. DaysIn(d.month, d.year) \in 28 .. 31 BY <2>1, MonthsFollow, Zenon
  <2> QED BY <1>5, <2>1, <2>2 DEF IsDay
<1>8. SecondOf(d) \in Nat /\ SecondOf(d) < DaySeconds /\ d.weekday \in 0 .. 6
  <2>1. PICK h \in 0 .. 23, m \in 0 .. 59, s \in 0 .. 59 : h = d.hours /\ m = d.minutes
             /\ s = d.seconds
    BY Zenon DEF IsDate
  <2>2. SecondOf(d) = (h * 60 + m) * 60 + s BY <2>1 DEF SecondOf, SecondOfDay
  <2>3. h * 60 + m < 24 * 60 OBVIOUS
  <2>4. (h * 60 + m) * 60 + s < (24 * 60) * 60 BY <2>3
  <2>5. d.weekday \in 0 .. 6 BY DEF IsDate
  <2> QED BY <2>2, <2>4, <2>5 DEF DaySeconds
<1>9. DayOf(d) \in Nat /\ DayOf(d) < CenturyDays BY DateIsDay
<1>10. 0 % Second = 0 /\ 0 \div Second = 0 BY ClockAssumption
<1>11. SecondOf(d) % DaySeconds = SecondOf(d) /\ SecondOf(d) \div DaySeconds = 0
  <2>1. PICK s \in Nat : s = SecondOf(d) /\ s < DaySeconds BY <1>8
  <2>2. PICK w \in Nat \ {0} : w = DaySeconds BY DayIsLong
  <2>3. w * 0 + s = s BY <2>2
  <2>4. (w * 0 + s) % w = s /\ (w * 0 + s) \div w = 0 BY <2>1, <2>2, ModOfSum
  <2> QED BY <2>1, <2>2, <2>3, <2>4
<1>12. (DayOf(d) + 0) % CenturyDays = DayOf(d)
  <2>1. PICK s \in Nat : s = DayOf(d) /\ s < CenturyDays BY <1>9
  <2>2. PICK w \in Nat \ {0} : w = CenturyDays BY CenturyIsLong
  <2>3. w * 0 + s = s + 0 BY <2>1, <2>2
  <2>4. (w * 0 + s) % w = s BY <2>1, <2>2, ModOfSum
  <2> QED BY <2>1, <2>2, <2>3, <2>4
<1>13. (d.weekday + 0) % 7 = d.weekday BY <1>8
<1>14. SecondOf(d) + 0 \div Second = SecondOf(d) BY <1>8, <1>10
<1>15. TimeIs(d, e, 0)
  <2>1. PICK t : t = SecondOf(d) + 0 \div Second OBVIOUS
  <2>2. t % DaySeconds = SecondOf(d) /\ t \div DaySeconds = 0 BY <1>11, <1>14, <2>1
  <2>3. /\ e.micros = 0 % Second /\ ~e.stop /\ SecondOf(e) = t % DaySeconds
        /\ e.weekday = (d.weekday + t \div DaySeconds) % 7
        /\ IsDay(e) /\ DayOf(e) = (DayOf(d) + t \div DaySeconds) % CenturyDays
    BY <1>5, <1>6, <1>7, <1>10, <1>12, <1>13, <2>2
  <2> QED BY <2>1, <2>3 DEF TimeIs
<1> QED BY <1>4, <1>15

-----------------------------------------------------------------------------
(* The invariant of the clock. *)

ClockInv ==
  /\ rtc \in Calendars /\ IsDate(date)
  /\ age \in Nat /\ idle \in Nat /\ idle <= age
  /\ wrapped \in BOOLEAN /\ (~wrapped => rtc.micros + idle < Wrap)
  /\ \/ writes = <<>> /\ (~wrapped => TimeIs(date, rtc, age - idle))
     \/ \E k \in 0 .. 14 : writes = LeftOf(k, date) /\ SetUpTo(k, date, rtc)

LEMMA ResetIsDate ==
  /\ IsDate(ResetClock) /\ ResetClock \in Calendars
  /\ SetUpTo(14, ResetClock, [ResetClock EXCEPT !.stop = TRUE])
<1>1. DaysIn(1, 26) = 31 BY DEF DaysIn, daysInMonth
<1>2. IsDate(ResetClock) BY <1>1 DEF IsDate, ResetClock
<1>3. ResetClock \in Calendars BY FractionsAre DEF ResetClock, Calendars
<1>4. SetUpTo(14, ResetClock, [ResetClock EXCEPT !.stop = TRUE]) BY DEF SetUpTo, ResetClock
<1> QED BY <1>2, <1>3, <1>4

LEMMA ClockBegins == ClockInit => ClockInv
<1> SUFFICES ASSUME ClockInit PROVE ClockInv OBVIOUS
<1>1. PICK r : r = ResetClock OBVIOUS
<1>2. rtc = r /\ date = r /\ writes = <<>> /\ age = 0 /\ idle = 0 /\ wrapped = FALSE
  BY <1>1 DEF ClockInit
<1>3. IsDate(r) /\ r \in Calendars BY <1>1, ResetIsDate
<1>4. TimeIs(r, r, 0)
  <2>1. PICK c : c = [r EXCEPT !.stop = TRUE] BY Zenon
  <2>2. c \in Calendars /\ SetUpTo(14, r, c)
    BY <1>1, <1>3, <2>1, ResetIsDate, RegistersChange, Zenon
  <2>3. PICK e : e = Register(c, 15, 4) OBVIOUS
  <2>4. Setting(r)[15][1] = 15 /\ Setting(r)[15][2] = 4 BY DEF Setting
  <2>5. TimeIs(r, e, 0) BY <1>3, <2>2, <2>3, <2>4, LastWriteStarts
  <2>6. e = r
    <3>1. (4 % 8 >= 4) = TRUE OBVIOUS
    <3>2. (4 % 4 >= 2) = FALSE OBVIOUS
    <3>3. e = [c EXCEPT !.hour24 = (4 % 8 >= 4), !.stop = (4 % 4 >= 2)] BY <2>3 DEF Register
    <3>4. e = [c EXCEPT !.hour24 = TRUE, !.stop = FALSE] BY <3>1, <3>2, <3>3, Zenon
    <3>5. PICK f \in Calendars : f = [c EXCEPT !.hour24 = TRUE] BY <2>2, RegistersChange, Zenon
    <3>6. e = [f EXCEPT !.stop = FALSE] BY <3>4, <3>5
    <3>7. r.hour24 = TRUE /\ r.stop = FALSE BY <1>1 DEF ResetClock
    <3>8. f = c BY <1>3, <2>1, <3>5, <3>7 DEF Calendars
    <3> QED BY <1>3, <2>1, <3>6, <3>7, <3>8 DEF Calendars
  <2> QED BY <2>5, <2>6
<1>5. r.micros \in Nat /\ r.micros < Wrap BY <1>3, FractionsAre DEF Calendars
<1>6. age \in Nat /\ idle \in Nat /\ idle <= age /\ age - idle = 0 BY <1>2
<1>7. wrapped \in BOOLEAN /\ ~wrapped BY <1>2, Zenon
<1>8. rtc.micros + idle < Wrap BY <1>2, <1>5
<1>9. TimeIs(date, rtc, age - idle) BY <1>2, <1>4, <1>6
<1> QED BY <1>2, <1>3, <1>6, <1>7, <1>8, <1>9 DEF ClockInv

LEMMA ClockGoesOn ==
  ASSUME ClockInv, ClockNext \/ UNCHANGED clockVars
  PROVE  ClockInv'
<1>1. /\ rtc \in Calendars /\ IsDate(date)
      /\ age \in Nat /\ idle \in Nat /\ idle <= age
      /\ wrapped \in BOOLEAN /\ (~wrapped => rtc.micros + idle < Wrap)
  BY DEF ClockInv
<1>2. Tick \in Calendars /\ Tick.stop = rtc.stop /\ (rtc.stop => Tick = rtc) BY <1>1, TickStays
<1>3. writes = <<>> /\ ~wrapped => TimeIs(date, Tick, age)
  <2> SUFFICES ASSUME writes = <<>>, ~wrapped PROVE TimeIs(date, Tick, age) OBVIOUS
  <2>1. \A k \in 0 .. 14 : LeftOf(k, date) # <<>>
    <3> SUFFICES ASSUME NEW k \in 0 .. 14 PROVE LeftOf(k, date) # <<>> OBVIOUS
    <3>1. 1 \in DOMAIN LeftOf(k, date) BY DEF LeftOf
    <3> QED BY <3>1
  <2>2. TimeIs(date, rtc, age - idle) BY <2>1 DEF ClockInv
  <2> QED BY <1>1, <2>2, TickKeepsTime
<1>4. ASSUME rtc' \in Calendars, ~wrapped => TimeIs(date, rtc', age), writes = <<>>, idle' = 0,
             UNCHANGED <<writes, date, age, wrapped>>
      PROVE  ClockInv'
  <2>1. age - 0 = age BY <1>1
  <2>2. PICK f \in Nat : f = rtc'.micros /\ f < Wrap BY <1>4, FractionsAre DEF Calendars
  <2>3. rtc'.micros + 0 < Wrap BY <2>2
  <2> QED BY <1>1, <1>4, <2>1, <2>3 DEF ClockInv
<1>5. CASE ReadClock BY <1>2, <1>3, <1>4, <1>5 DEF ReadClock, Accessed
<1>6. CASE SwitchHours
  <2>1. PICK data \in {0, 4} : data = IF rtc.hour24 THEN 0 ELSE 4 OBVIOUS
  <2>2. PICK c : c = Tick OBVIOUS
  <2>3. PICK h \in BOOLEAN : rtc' = [c EXCEPT !.hour24 = h, !.stop = FALSE]
    <3>1. rtc' = [c EXCEPT !.hour24 = (data % 8 >= 4), !.stop = (data % 4 >= 2)]
      BY <1>6, <2>1, <2>2 DEF SwitchHours, Register
    <3>2. (data % 4 >= 2) = FALSE OBVIOUS
    <3>3. (data % 8 >= 4) \in BOOLEAN OBVIOUS
    <3> QED BY <3>1, <3>2, <3>3, Zenon
  <2>4. rtc' \in Calendars
    <3>1. PICK f \in Calendars : f = [c EXCEPT !.hour24 = h] BY <1>2, <2>2, RegistersChange, Zenon
    <3>2. rtc' = [f EXCEPT !.stop = FALSE] BY <2>3, <3>1
    <3> QED BY <3>2, RegistersChange, Zenon
  <2>5. ~wrapped => TimeIs(date, rtc', age)
    <3> SUFFICES ASSUME ~wrapped PROVE TimeIs(date, rtc', age) OBVIOUS
    <3>1. PICK e : e = rtc' OBVIOUS
    <3>2. c \in Calendars /\ TimeIs(date, c, age) BY <1>2, <1>3, <1>6, <2>2 DEF SwitchHours
    <3>3. /\ e.micros = c.micros /\ ~e.stop /\ e.hours = c.hours /\ e.minutes = c.minutes
          /\ e.seconds = c.seconds
          /\ e.weekday = c.weekday /\ e.day = c.day /\ e.month = c.month /\ e.year = c.year
      BY <2>3, <3>1, <3>2 DEF Calendars
    <3>4. SecondOf(e) = SecondOf(c) /\ DayOf(e) = DayOf(c) /\ (IsDay(e) <=> IsDay(c))
      BY <3>3 DEF SecondOf, DayOf, IsDay
    <3> QED BY <3>1, <3>2, <3>3, <3>4 DEF TimeIs
  <2> QED BY <1>4, <1>6, <2>4, <2>5 DEF SwitchHours, Accessed
<1>7. ASSUME NEW d \in Dates, SetClock(d) PROVE ClockInv'
  <2>1. writes' = LeftOf(0, d)
    <3>1. writes' = Setting(d) BY <1>7 DEF SetClock
    <3>2. Setting(d) = [j \in 1 .. 15 |-> Setting(d)[j]] BY DEF Setting
    <3>3. [j \in 1 .. 15 |-> Setting(d)[j]] = LeftOf(0, d) BY DEF LeftOf
    <3> QED BY <3>1, <3>2, <3>3
  <2>2. SetUpTo(0, d, rtc) BY DEF SetUpTo
  <2>3. IsDate(d) /\ date' = d /\ UNCHANGED <<rtc, age, idle, wrapped>>
    BY <1>7, DatesAssumption DEF SetClock
  <2>4. \E k \in 0 .. 14 : writes' = LeftOf(k, date') /\ SetUpTo(k, date', rtc')
    BY <2>1, <2>2, <2>3
  <2> QED BY <1>1, <2>3, <2>4 DEF ClockInv
<1>8. CASE WriteClock
  <2>1. PICK k \in 0 .. 14 : writes = LeftOf(k, date) /\ SetUpTo(k, date, rtc)
    BY <1>8 DEF WriteClock, ClockInv
  <2>2. writes[1] = Setting(date)[k + 1] BY <2>1 DEF LeftOf
  <2>3. PICK c : c = Tick OBVIOUS
  <2>4. rtc' = Register(c, Setting(date)[k + 1][1], Setting(date)[k + 1][2])
    BY <1>8, <2>2, <2>3 DEF WriteClock
  <2>5. c \in Calendars /\ SetUpTo(k, date, c)
    <3>1. CASE k = 0 BY <1>2, <2>3, <3>1 DEF SetUpTo
    <3>2. CASE k # 0
      <4>1. rtc.stop BY <2>1, <3>2 DEF SetUpTo
      <4> QED BY <1>2, <2>1, <2>3, <4>1
    <3> QED BY <3>1, <3>2
  <2>6. date' = date /\ age' = 0 /\ idle' = 0 /\ wrapped' = FALSE
    BY <1>8 DEF WriteClock, Accessed
  <2>7. /\ IsDate(date') /\ age' \in Nat /\ idle' \in Nat /\ idle' <= age' /\ age' - idle' = 0
        /\ wrapped' \in BOOLEAN
    <3>1. age' \in Nat /\ idle' \in Nat /\ idle' <= age' /\ age' - idle' = 0 BY <2>6
    <3>2. wrapped' \in BOOLEAN BY <2>6, Zenon
    <3> QED BY <1>1, <2>6, <3>1, <3>2
  <2>8. writes' = LeftOf(k + 1, date)
    <3>1. Len(writes) = 15 - k /\ \A j \in 1 .. 15 - k : writes[j] = Setting(date)[j + k]
      BY <2>1 DEF LeftOf
    <3>2. writes' = [j \in 1 .. 15 - (k + 1) |-> writes[j + 1]]
      <4>1. PICK S : S = {Setting(date)[j] : j \in 1 .. 15} OBVIOUS
      <4>2. writes = [j \in 1 .. 15 - k |-> Setting(date)[j + k]] BY <2>1 DEF LeftOf
      <4>3. \A j \in 1 .. 15 - k : Setting(date)[j + k] \in S BY <4>1
      <4>4. writes \in [1 .. 15 - k -> S] BY <4>2, <4>3
      <4>5. 15 - k \in Nat OBVIOUS
      <4>6. writes \in Seq(S) BY <4>4, <4>5
      <4>7. writes # <<>> /\ writes' = Tail(writes) BY <1>8 DEF WriteClock
      <4>8. PICK w \in Seq(S) : w = writes' BY <4>6, <4>7, HeadTailProperties
      <4>9. Len(w) = 15 - (k + 1) /\ \A j \in 1 .. Len(w) : w[j] = writes[j + 1]
        BY <3>1, <4>6, <4>7, <4>8, HeadTailProperties
      <4>10. w = [j \in 1 .. Len(w) |-> w[j]] OBVIOUS
      <4> QED BY <4>8, <4>9, <4>10
    <3>3. \A j \in 1 .. 15 - (k + 1) : writes[j + 1] = Setting(date)[j + (k + 1)] BY <3>1
    <3> QED BY <3>2, <3>3 DEF LeftOf
  <2>9. CASE k # 14
    <3>1. k \in 0 .. 13 /\ k + 1 \in 0 .. 14 BY <2>9
    <3>2. rtc' \in Calendars /\ SetUpTo(k + 1, date, rtc')
      BY <1>1, <2>4, <2>5, <3>1, WriteSets, DatesHaveFields
    <3>3. rtc'.micros + idle' < Wrap BY <2>6, <3>2, FractionsAre DEF Calendars
    <3>4. \E m \in 0 .. 14 : writes' = LeftOf(m, date') /\ SetUpTo(m, date', rtc')
      BY <2>6, <2>8, <3>1, <3>2
    <3> QED BY <1>1, <2>7, <3>2, <3>3, <3>4 DEF ClockInv
  <2>10. CASE k = 14
    <3>1. rtc' \in Calendars /\ TimeIs(date, rtc', 0)
      BY <1>1, <2>4, <2>5, <2>10, LastWriteStarts
    <3>2. writes' = <<>> BY <2>8, <2>10 DEF LeftOf
    <3>3. ~wrapped' => TimeIs(date', rtc', age' - idle') BY <2>6, <2>7, <3>1
    <3>4. rtc'.micros + idle' < Wrap BY <2>6, <3>1, FractionsAre DEF Calendars
    <3> QED BY <1>1, <2>7, <3>1, <3>2, <3>3, <3>4 DEF ClockInv
  <2> QED BY <2>9, <2>10
<1>9. ASSUME NEW d \in Passes, Pass(d) PROVE ClockInv'
  <2>1. d \in Nat BY ClockAssumption
  <2>2. /\ age' = age + d
        /\ idle' = idle + d
        /\ wrapped' = (wrapped \/ rtc.micros + idle' >= Wrap)
        /\ UNCHANGED <<rtc, writes, date>>
    BY <1>9 DEF Pass
  <2>3. age' \in Nat /\ idle' \in Nat /\ idle' <= age' /\ age' - idle' = age - idle
    BY <1>1, <2>1, <2>2
  <2>4. wrapped' \in BOOLEAN /\ (~wrapped' => ~wrapped) BY <2>2, Zenon
  <2>5. ~wrapped' => rtc'.micros + idle' < Wrap
    <3>1. ~wrapped' => ~(rtc.micros + idle' >= Wrap) BY <2>2, Zenon
    <3>2. rtc.micros \in Nat /\ Wrap \in Nat BY <1>1, ClockAssumption, FractionsAre DEF Calendars
    <3> QED BY <2>2, <2>3, <3>1, <3>2
  <2>6. CASE writes = <<>> /\ (~wrapped => TimeIs(date, rtc, age - idle))
    BY <1>1, <2>2, <2>3, <2>4, <2>5, <2>6 DEF ClockInv
  <2>7. CASE \E k \in 0 .. 14 : writes = LeftOf(k, date) /\ SetUpTo(k, date, rtc)
    BY <1>1, <2>2, <2>3, <2>4, <2>5, <2>7 DEF ClockInv
  <2> QED BY <2>6, <2>7 DEF ClockInv
<1>10. CASE UNCHANGED clockVars BY <1>10 DEF ClockInv, clockVars
<1> QED BY <1>5, <1>6, <1>7, <1>8, <1>9, <1>10 DEF ClockNext

-----------------------------------------------------------------------------
(* What a program reads. *)

\* The digits of a number, put together again.
LEMMA DigitsAre ==
  ASSUME NEW n \in 0 .. 99
  PROVE  10 * (n \div 10) + (n % 10) = n
OBVIOUS

\* The hour is told in both modes.
LEMMA HourIsTold ==
  ASSUME rtc \in Calendars
  PROVE  ShownHour = rtc.hours
<1>1. PICK h \in 0 .. 23 : h = rtc.hours BY DEF Calendars
<1>2. rtc.hour24 \in BOOLEAN /\ rtc.stop \in BOOLEAN BY DEF Calendars
<1>3. Shown(rtc, 15) = (IF rtc.hour24 THEN 4 ELSE 0) + (IF rtc.stop THEN 2 ELSE 0) BY DEF Shown
<1>4. CASE rtc.hour24
  <2>1. Shown(rtc, 15) % 8 >= 4 BY <1>3, <1>4
  <2>2. Shown(rtc, 4) = h % 10 BY <1>1, <1>4 DEF Shown
  <2>3. Shown(rtc, 5) = h \div 10 BY <1>1, <1>4 DEF Shown
  <2>4. 10 * (h \div 10) + (h % 10) = h BY DigitsAre
  <2>5. ShownHour = 10 * Shown(rtc, 5) + Shown(rtc, 4) BY <2>1 DEF ShownHour
  <2> QED BY <1>1, <2>2, <2>3, <2>4, <2>5
<1>5. CASE ~rtc.hour24
  <2>1. ~(Shown(rtc, 15) % 8 >= 4) BY <1>3, <1>5
  <2>2. PICK x : x = Hour12(h) OBVIOUS
  <2>3. x \in 1 .. 12 /\ (x % 12) + (IF h >= 12 THEN 12 ELSE 0) = h BY <2>2 DEF Hour12
  <2>4. PICK ones : ones = Shown(rtc, 4) OBVIOUS
  <2>5. PICK tens : tens = Shown(rtc, 5) OBVIOUS
  <2>6. ones = x % 10 BY <1>1, <1>5, <2>2, <2>4 DEF Shown
  <2>7. tens = (x \div 10) + (IF h >= 12 THEN 4 ELSE 0) BY <1>1, <1>5, <2>2, <2>5 DEF Shown
  <2>8. tens % 4 = x \div 10 /\ (tens >= 4 <=> h >= 12) BY <2>3, <2>7
  <2>9. 10 * (tens % 4) + ones = x BY <2>3, <2>6, <2>8
  <2>10. ShownHour = HourOfDay(10 * (tens % 4) + ones, tens >= 4)
    BY <2>1, <2>4, <2>5 DEF ShownHour
  <2>11. ShownHour = (x % 12) + (IF tens >= 4 THEN 12 ELSE 0) BY <2>9, <2>10 DEF HourOfDay
  <2> QED BY <1>1, <2>3, <2>8, <2>11
<1> QED BY <1>4, <1>5

\* The registers tell what the calendar holds.
LEMMA CalendarIsTold ==
  ASSUME rtc \in Calendars
  PROVE  /\ ShownSecond = SecondOf(rtc)
         /\ DaysBefore(ShownPair(10), ShownPair(8), ShownPair(6)) = DayOf(rtc)
         /\ Shown(rtc, 12) = rtc.weekday
<1>1. /\ rtc.seconds \in 0 .. 59 /\ rtc.minutes \in 0 .. 59 /\ rtc.day \in 1 .. 39
      /\ rtc.month \in 1 .. 12 /\ rtc.year \in 0 .. 99
  BY DEF Calendars
<1>2. ShownPair(0) = rtc.seconds
  <2>1. Shown(rtc, 1) = rtc.seconds \div 10 /\ Shown(rtc, 0) = rtc.seconds % 10 BY DEF Shown
  <2> QED BY <1>1, <2>1, DigitsAre DEF ShownPair
<1>3. ShownPair(2) = rtc.minutes
  <2>1. Shown(rtc, 3) = rtc.minutes \div 10 /\ Shown(rtc, 2) = rtc.minutes % 10 BY DEF Shown
  <2> QED BY <1>1, <2>1, DigitsAre DEF ShownPair
<1>4. ShownPair(6) = rtc.day
  <2>1. Shown(rtc, 7) = rtc.day \div 10 /\ Shown(rtc, 6) = rtc.day % 10 BY DEF Shown
  <2> QED BY <1>1, <2>1, DigitsAre DEF ShownPair
<1>5. ShownPair(8) = rtc.month
  <2>1. Shown(rtc, 9) = rtc.month \div 10 /\ Shown(rtc, 8) = rtc.month % 10 BY DEF Shown
  <2> QED BY <1>1, <2>1, DigitsAre DEF ShownPair
<1>6. ShownPair(10) = rtc.year
  <2>1. Shown(rtc, 11) = rtc.year \div 10 /\ Shown(rtc, 10) = rtc.year % 10 BY DEF Shown
  <2> QED BY <1>1, <2>1, DigitsAre DEF ShownPair
<1>7. ShownHour = rtc.hours BY HourIsTold
<1>8. Shown(rtc, 12) = rtc.weekday BY DEF Shown
<1> QED BY <1>2, <1>3, <1>4, <1>5, <1>6, <1>7, <1>8 DEF ShownSecond, SecondOf, DayOf

LEMMA ClockIsTold == ClockInv => ClockKeepsTime
<1> SUFFICES ASSUME ClockInv, writes = <<>>, idle = 0, ~wrapped
             PROVE  LET start == SecondOfDay(date.hours, date.minutes, date.seconds)
                        run == start + age \div Second
                        days == DaysBefore(date.year, date.month, date.day) + run \div DaySeconds
                    IN  /\ ShownSecond = run % DaySeconds
                        /\ DaysBefore(ShownPair(10), ShownPair(8), ShownPair(6))
                             = days % CenturyDays
                        /\ Shown(rtc, 12) = (date.weekday + run \div DaySeconds) % 7
  BY DEF ClockKeepsTime
<1>1. \A k \in 0 .. 14 : LeftOf(k, date) # <<>>
  <2> SUFFICES ASSUME NEW k \in 0 .. 14 PROVE LeftOf(k, date) # <<>> OBVIOUS
  <2>1. 1 \in DOMAIN LeftOf(k, date) BY DEF LeftOf
  <2> QED BY <2>1
<1>2. TimeIs(date, rtc, age - idle) BY <1>1 DEF ClockInv
<1>3. age - idle = age /\ rtc \in Calendars BY DEF ClockInv
<1>4. TimeIs(date, rtc, age) BY <1>2, <1>3
<1>5. PICK run : run = SecondOf(date) + age \div Second OBVIOUS
<1>6. /\ SecondOf(rtc) = run % DaySeconds
      /\ rtc.weekday = (date.weekday + run \div DaySeconds) % 7
      /\ DayOf(rtc) = (DayOf(date) + run \div DaySeconds) % CenturyDays
  BY <1>4, <1>5 DEF TimeIs
<1> QED BY <1>3, <1>5, <1>6, CalendarIsTold DEF SecondOf, DayOf

\* Only the program of the clock, and time, move the clock.
LEMMA ClockSteps ==
  ASSUME [BoardNext]_boardVars
  PROVE  ClockNext \/ UNCHANGED clockVars
<1>1. CASE PanelAndReset BY <1>1 DEF PanelAndReset
<1>2. CASE FingersAct BY <1>2 DEF FingersAct
<1>3. CASE Runs BY <1>3 DEF Runs
<1>4. CASE Update /\ UNCHANGED <<mapVars, clockVars, fingerVars, program>>
  BY <1>4
<1>5. CASE UNCHANGED boardVars BY <1>5 DEF boardVars
<1> QED BY <1>1, <1>2, <1>3, <1>4, <1>5 DEF BoardNext

\* Whatever date and time the clock is set to, however long it then runs and
\* however often it is read, in both modes and over mounts and resets of the
\* drive: a program that reads it sees the time it was set to and what has gone
\* by, if neither counter of 32 bits came round between two accesses.
THEOREM ClockStaysTrue == BoardSpec => []ClockKeepsTime
<1>1. BoardInit => ClockInv BY ClockBegins DEF BoardInit
<1>2. ClockInv /\ [BoardNext]_boardVars => ClockInv' BY ClockSteps, ClockGoesOn
<1> QED BY <1>1, <1>2, ClockIsTold, PTL DEF BoardSpec

=============================================================================
