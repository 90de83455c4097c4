----------------------------- MODULE ScsiTarget -----------------------------
(***************************************************************************)
(* The SCSI target of PiCMD: scsi_process_noack and scsi_process_ack of    *)
(* src/emulation/scsi.cpp on their scsi_context_t, the record ctx here.    *)
(*                                                                         *)
(* The initiator is the CMD HD's ROM.  It drives RST and SEL, and every    *)
(* access of the VIA's port A is an ACK: one byte out of it in the COMMAND *)
(* and DATAOUT phases, one byte to it in DATAIN and STATUS.  An ACK runs   *)
(* scsi_process_ack to its end, one action here.  The bytes of a CDB are   *)
(* collected one ACK at a time and read at the last of them, so its fields *)
(* are chosen there.  Data bytes have no value, but for the headers of     *)
(* FORMAT UNIT and REASSIGN BLOCKS.                                        *)
(*                                                                         *)
(* Below the target, disk keeps what the target can tell of an image: is   *)
(* it attached, has it data that is not on the card, is a write error      *)
(* latched.  Module DiskCache has the rest.                                *)
(***************************************************************************)
EXTENDS Integers

CONSTANTS
  Targets,          \* the SCSI ids an initiator selects, within 0 .. 6
  Luns,
  Size,             \* Size[<<t, l>>]: sectors of the image, 0 for no image
  ShortCdb,         \* 6 bytes
  LongCdb,          \* 10 bytes
  CmdBufBytes,      \* 256: cmd_buf, and the cmd_size of no command
  BufBytes,         \* 512: data_buf, and a sector
  SenseBytes,       \* 18
  DefaultSense,     \* 4: the sense bytes for an allocation length of 0
  CapacityBytes,    \* 8
  HeaderBytes,      \* 4: the header of a FORMAT UNIT or REASSIGN BLOCKS list
  AllBlocks,        \* 256: what a length of 0 means to the short commands
  Opcodes,          \* bound: the commands the initiator sends
  Links,            \* bound: the LINK bits it sends
  Addresses,        \* bound: the logical block addresses it sends
  Lengths           \* bound: the lengths it sends

NoTarget == 255

ShortCommands == {"TEST_UNIT_READY", "REZERO_UNIT", "REQUEST_SENSE",
  "FORMAT_UNIT", "REASSIGN_BLOCKS", "READ_6", "WRITE_6", "INQUIRY",
  "MODE_SENSE", "START_STOP", "SEND_DIAGNOSTIC"}
LongCommands == {"READ_CAPACITY", "READ_10", "WRITE_10", "MODE_SENSE_10",
  "WRITE_VERIFY", "VERIFY"}
Unknown == "unknown"
Commands == ShortCommands \union LongCommands \union {Unknown}
Reads == {"READ_6", "READ_10"}
Writes == {"WRITE_6", "WRITE_10", "WRITE_VERIFY"}

Units == Targets \X Luns

ASSUME UnitsAssumption ==
  /\ Targets \subseteq 0 .. 6
  /\ Luns \subseteq 0 .. 7
  /\ 0 \in Luns
  /\ Size \in [Units -> Nat]

ASSUME BytesAssumption ==
  /\ ShortCdb \in Nat /\ LongCdb \in Nat /\ CmdBufBytes \in Nat
  /\ 1 < ShortCdb /\ ShortCdb < LongCdb /\ LongCdb < CmdBufBytes
  /\ BufBytes \in Nat /\ LongCdb <= BufBytes
  /\ HeaderBytes \in 1 .. BufBytes - 1
  /\ SenseBytes \in 1 .. BufBytes
  /\ DefaultSense \in 1 .. SenseBytes
  /\ CapacityBytes \in 1 .. BufBytes
  /\ AllBlocks \in Nat \ {0}

\* A length of one byte, and the 255 the code cuts others to, fit data_buf.
ASSUME InputsAssumption ==
  /\ Opcodes \subseteq Commands
  /\ Links \subseteq BOOLEAN
  /\ Addresses \subseteq Nat
  /\ Lengths \subseteq 0 .. BufBytes

VARIABLES
  ctx,              \* scsi_context_t
  disk              \* disk[<<t, l>>]: the image in context->file[]

vars == <<ctx, disk>>

States == {"BUSFREE", "COMMAND", "DATAOUT", "DATAIN", "STATUS"}
SenseKeys == {"NOSENSE", "NOTREADY", "MEDIUMERROR", "ILLEGALREQUEST"}
SenseCodes == {"none", "WRITEFAULT", "UNRECOVEREDREADERROR",
  "MEDIUMNOTPRESENT", "LOGICALBLOCKADDRESSOUTOFRANGE", "INVALIDFIELDINCDB",
  "INVALIDFIELDINPARAMETERLIST"}

\* cd, msg and MESSAGEIN are left out: nothing reads the first two, and
\* scsi_reset has cleared msg_after_status.
Contexts ==
  [state : States, sel : BOOLEAN, bsyo : BOOLEAN, req : BOOLEAN, io : BOOLEAN,
   target : Targets \union {NoTarget}, lun : Luns,
   seq : 0 .. BufBytes, cmd_size : {ShortCdb, LongCdb, CmdBufBytes},
   data_max : 0 .. BufBytes,
   command : Commands, address : Nat, blocks : Nat, link : BOOLEAN,
   status : {"GOOD", "CHECKCONDITION"},
   sensekey : SenseKeys, asc : SenseCodes]

-----------------------------------------------------------------------------
(* The images                                                              *)

Unit(c) == <<c.target, c.lun>>

\* scsi_imagecheck
Present(c) == Unit(c) \in Units /\ disk[Unit(c)].attached

\* scsi_getmaxsize
MaxSize(c) == IF Present(c) THEN Size[Unit(c)] ELSE 0

\* scsi_take_deferred_write_error, in two parts: the question and its effect.
Deferred(c) == Present(c) /\ disk[Unit(c)].latched
TakeWriteError(c) == disk' = [disk EXCEPT ![Unit(c)].latched = FALSE]

\* WriteSector: the data is in the cache, or written through.
WriteSector(c) ==
  \E dirty \in {TRUE, disk[Unit(c)].dirty} :
    disk' = [disk EXCEPT ![Unit(c)].dirty = dirty]

\* A flush on the way of anything else: FlushAll of the idle loop, FlushSome
\* of a reset, or an eviction.  It writes all of an image's data, or fails.
FlushSucceeds(u) ==
  /\ disk[u].dirty
  /\ disk' = [disk EXCEPT ![u].dirty = FALSE]
  /\ UNCHANGED ctx

FlushFails(u) ==
  /\ disk[u].dirty
  /\ disk' = [disk EXCEPT ![u].latched = TRUE]
  /\ UNCHANGED ctx

\* A reset of the drive takes disk 0 away when it is too small to boot and
\* there are others, whatever phase the bus is in: nothing in Reset touches
\* ctx.  What Detach cannot write is lost, and latched.
RemoveDisk0 ==
  LET u == <<0, 0>> IN
  /\ u \in Units /\ disk[u].attached
  /\ \E v \in Units \ {u} : disk[v].attached
  /\ \E lost \in {FALSE, disk[u].dirty} :
       disk' = [disk EXCEPT ![u] = [attached |-> FALSE, dirty |-> FALSE,
                                    latched |-> @.latched \/ lost]]
  /\ UNCHANGED ctx

-----------------------------------------------------------------------------
(* The bus lines: scsi_process_noack                                       *)

\* RST
Reset ==
  /\ ctx' = [ctx EXCEPT !.state = "BUSFREE", !.cmd_size = CmdBufBytes,
                        !.target = NoTarget, !.bsyo = FALSE, !.req = FALSE,
                        !.io = FALSE, !.seq = 0, !.link = FALSE]
  /\ UNCHANGED disk

\* SEL with one id on the data bus: the target answers with BSY.
Select(t) ==
  /\ ctx.state = "BUSFREE" /\ ~ctx.bsyo
  /\ ctx' = [ctx EXCEPT !.sel = TRUE, !.target = t, !.bsyo = TRUE,
                        !.req = FALSE, !.seq = 0]
  /\ UNCHANGED disk

\* SEL with no id, or with several, gets no answer.
SelectNobody ==
  /\ ctx.state = "BUSFREE" /\ ~ctx.bsyo
  /\ ctx' = [ctx EXCEPT !.sel = TRUE, !.target = NoTarget,
                        !.cmd_size = CmdBufBytes]
  /\ UNCHANGED disk

\* SEL in the middle of a command does nothing, but it may stay asserted.
RaiseSel ==
  /\ ctx.state # "BUSFREE" /\ ~ctx.sel
  /\ ctx' = [ctx EXCEPT !.sel = TRUE]
  /\ UNCHANGED disk

\* SEL drops, and a target that was selected asks for a command.
DropSel ==
  /\ ctx.sel
  /\ ctx' = IF ctx.state = "BUSFREE" /\ ctx.bsyo
            THEN [ctx EXCEPT !.sel = FALSE, !.state = "COMMAND",
                             !.cmd_size = CmdBufBytes, !.req = TRUE]
            ELSE [ctx EXCEPT !.sel = FALSE]
  /\ UNCHANGED disk

-----------------------------------------------------------------------------
(* How an ACK ends: the last sections of scsi_process_ack                  *)

\* The STATUS section puts the status byte on the bus.
Good(c) == [c EXCEPT !.state = "STATUS", !.io = TRUE, !.status = "GOOD"]

Check(c, key, code) ==
  [c EXCEPT !.state = "STATUS", !.io = TRUE, !.status = "CHECKCONDITION",
            !.sensekey = key, !.asc = code]

NotReady(c) == Check(c, "NOTREADY", "MEDIUMNOTPRESENT")
OutOfRange(c) == Check(c, "ILLEGALREQUEST", "LOGICALBLOCKADDRESSOUTOFRANGE")
WriteFault(c) == Check(c, "MEDIUMERROR", "WRITEFAULT")
ReadError(c) == Check(c, "MEDIUMERROR", "UNRECOVEREDREADERROR")
BadCdb(c) == Check(c, "ILLEGALREQUEST", "INVALIDFIELDINCDB")
BadList(c) == Check(c, "ILLEGALREQUEST", "INVALIDFIELDINPARAMETERLIST")

\* The DATAIN section at the start of a reply: its first byte, if it has any.
DataIn(c, bytes) ==
  IF bytes = 0
  THEN Good([c EXCEPT !.data_max = 0, !.seq = 0])
  ELSE [c EXCEPT !.state = "DATAIN", !.io = TRUE, !.seq = 1,
                 !.data_max = bytes]

DataOut(c, bytes) ==
  [c EXCEPT !.state = "DATAOUT", !.seq = 0, !.data_max = bytes]

-----------------------------------------------------------------------------
(* ACK in the COMMAND phase                                                *)

\* Mutant of Opcode: a byte that is no command is read as one.
OpcodeUnchecked(c, op) ==
  [c EXCEPT !.command = op, !.seq = 1, !.io = FALSE, !.state = "COMMAND",
            !.cmd_size = IF op \in ShortCommands THEN ShortCdb
                         ELSE IF op = Unknown THEN CmdBufBytes ELSE LongCdb]

\* Byte 0 decides the length of the CDB.  A byte that is no command leaves
\* asc, link and cmd_size as they were.
Opcode(c, op) ==
  LET read == [c EXCEPT !.command = op, !.seq = 1, !.io = FALSE] IN
  IF op = Unknown
  THEN [read EXCEPT !.state = "STATUS", !.io = TRUE,
                    !.status = "CHECKCONDITION",
                    !.sensekey = "ILLEGALREQUEST"]
  ELSE [read EXCEPT !.state = "COMMAND",
                    !.cmd_size = IF op \in ShortCommands
                                 THEN ShortCdb ELSE LongCdb]

AckOpcode(op) ==
  /\ ctx.state = "COMMAND" /\ ctx.seq = 0
  /\ ctx' = Opcode(ctx, op)
  /\ UNCHANGED disk

AckCdbByte ==
  /\ ctx.state = "COMMAND" /\ ctx.seq > 0
  /\ ctx.seq + 1 < ctx.cmd_size
  /\ ctx' = [ctx EXCEPT !.seq = @ + 1]
  /\ UNCHANGED disk

\* The last byte of the CDB of one of these commands is there.
LastByteOf(commands) ==
  /\ ctx.state = "COMMAND" /\ ctx.seq > 0
  /\ ctx.seq + 1 >= ctx.cmd_size
  /\ ctx.command \in commands

\* ctx with the fields that all CDBs but one have.
Cdb(lun, link) ==
  [ctx EXCEPT !.seq = @ + 1, !.lun = lun, !.link = link]

\* Mutant of TestUnitReady: the error is taken for a question already answered.
TestUnitReadyTakes(c) ==
  /\ LastByteOf({"TEST_UNIT_READY"})
  /\ ctx' = IF Present(c) THEN Good(c) ELSE NotReady(c)
  /\ IF Deferred(c) THEN TakeWriteError(c) ELSE UNCHANGED disk

TestUnitReady(c) ==
  /\ LastByteOf({"TEST_UNIT_READY"})
  /\ IF Deferred(c)
     THEN ctx' = WriteFault(c) /\ TakeWriteError(c)
     ELSE /\ ctx' = IF Present(c) THEN Good(c) ELSE NotReady(c)
          /\ UNCHANGED disk

SenseLength(length) ==
  IF length = 0 THEN DefaultSense
  ELSE IF length > SenseBytes THEN SenseBytes ELSE length

\* Sense is consumed by sending it.
RequestSense(c) ==
  /\ LastByteOf({"REQUEST_SENSE"})
  /\ \E length \in Lengths :
       ctx' = [DataIn(c, SenseLength(length)) EXCEPT
                 !.status = "GOOD", !.sensekey = "NOSENSE", !.asc = "none"]
  /\ UNCHANGED disk

\* The only command that leaves lun and link alone.
ReassignBlocks ==
  /\ LastByteOf({"REASSIGN_BLOCKS"})
  /\ ctx' = DataOut(ctx, HeaderBytes)
  /\ UNCHANGED disk

\* blocks of a READ or WRITE
Blocks(length) ==
  IF length = 0 /\ ctx.command \in ShortCommands THEN AllBlocks ELSE length

Transfer(c, address, length) ==
  [c EXCEPT !.address = address, !.blocks = Blocks(length),
            !.data_max = IF Blocks(length) = 0 THEN @ ELSE BufBytes]

\* The first failure of these is the one the initiator hears of.
Read(c) ==
  /\ LastByteOf(Reads)
  /\ \E address \in Addresses, length \in Lengths :
       LET d == Transfer(c, address, length) IN
       IF d.blocks # 0 /\ Present(d) /\ address < MaxSize(d) /\ Deferred(d)
       THEN ctx' = WriteFault(d) /\ TakeWriteError(d)
       ELSE /\ \/ d.blocks = 0 /\ ctx' = Good(d)
               \/ d.blocks # 0 /\ ~Present(d) /\ ctx' = NotReady(d)
               \/ d.blocks # 0 /\ Present(d) /\ address >= MaxSize(d)
                    /\ ctx' = OutOfRange(d)
               \/ d.blocks # 0 /\ Present(d) /\ address < MaxSize(d)
                    /\ ctx' \in {DataIn(d, BufBytes), ReadError(d)}
            /\ UNCHANGED disk

Write(c) ==
  /\ LastByteOf(Writes)
  /\ \E address \in Addresses, length \in Lengths :
       LET d == Transfer(c, address, length) IN
       ctx' = IF d.blocks = 0 THEN Good(d)
              ELSE IF ~Present(d) THEN NotReady(d)
              ELSE IF address >= MaxSize(d) THEN OutOfRange(d)
              ELSE DataOut(d, BufBytes)
  /\ UNCHANGED disk

Inquiry(c) ==
  /\ LastByteOf({"INQUIRY"})
  /\ \E length \in Lengths : ctx' = DataIn(c, length)
  /\ UNCHANGED disk

ReadCapacity(c) ==
  /\ LastByteOf({"READ_CAPACITY"})
  /\ ctx' = IF Present(c) THEN DataIn(c, CapacityBytes)
            ELSE NotReady([c EXCEPT !.data_max = CapacityBytes])
  /\ UNCHANGED disk

\* There is only the page the CMD tools look at.
ModeSense(c) ==
  /\ LastByteOf({"MODE_SENSE", "MODE_SENSE_10"})
  /\ \E length \in Lengths :
       ctx' \in {DataIn(c, length),
                 BadCdb([c EXCEPT !.data_max = length, !.seq = 0])}
  /\ UNCHANGED disk

\* user_format: on unit <<0, 0>> it may move address and write a sector, on
\* the others it does nothing, successfully.
Format(c) ==
  IF Unit(c) # <<0, 0>>
  THEN ctx' = Good(c) /\ UNCHANGED disk
  ELSE \E address \in {c.address} \union Addresses :
         LET d == [c EXCEPT !.address = address] IN
         \/ ctx' \in {Good(d), WriteFault(d)} /\ UNCHANGED disk
         \/ Present(d) /\ WriteSector(d) /\ ctx' = Good(d)

\* FMTDATA announces a defect list; without it a list format is an error.
FormatUnit(c) ==
  /\ LastByteOf({"FORMAT_UNIT"})
  /\ \/ Format(c)
     \/ ctx' \in {DataOut(c, HeaderBytes), BadList(c)} /\ UNCHANGED disk

DoNothing(c) ==
  /\ LastByteOf({"REZERO_UNIT", "START_STOP", "SEND_DIAGNOSTIC"})
  /\ ctx' = Good(c)
  /\ UNCHANGED disk

\* Mutant of VerifyBlocks: no Sync first.
VerifyUnsynced(d) ==
  ctx' \in {Good(d), ReadError(d)} /\ UNCHANGED disk

\* Sync, then ReadSectorPhysical of every block.  A Sync that fails latches
\* the error it returns.
VerifyBlocks(d) ==
  \/ /\ disk' = [disk EXCEPT ![Unit(d)].dirty = FALSE]
     /\ ctx' \in {Good(d)} \union
                 (IF d.blocks = 0 THEN {} ELSE {ReadError(d)})
  \/ /\ disk[Unit(d)].dirty
     /\ disk' = [disk EXCEPT ![Unit(d)].latched = TRUE]
     /\ ctx' = WriteFault(d)

Verify(c) ==
  /\ LastByteOf({"VERIFY"})
  /\ \E address \in Addresses, length \in Lengths, bytchk \in BOOLEAN :
       LET d == [c EXCEPT !.address = address, !.blocks = length]
           fits == length = 0 \/ address + length <= MaxSize(d)
       IN \/ ~Present(d) /\ ctx' = NotReady(d) /\ UNCHANGED disk
          \/ /\ Present(d) /\ ~fits
             /\ ctx' = OutOfRange(d) /\ UNCHANGED disk
          \/ /\ Present(d) /\ fits /\ Deferred(d)
             /\ ctx' = WriteFault(d) /\ TakeWriteError(d)
          \/ /\ Present(d) /\ fits /\ ~Deferred(d) /\ bytchk
             /\ ctx' = BadCdb(d) /\ UNCHANGED disk
          \/ /\ Present(d) /\ fits /\ ~Deferred(d) /\ ~bytchk
             /\ VerifyBlocks(d)

AckCommand ==
  \/ \E op \in Opcodes : AckOpcode(op)
  \/ AckCdbByte
  \/ ReassignBlocks
  \/ \E lun \in Luns, link \in Links :
       LET c == Cdb(lun, link) IN
       \/ TestUnitReady(c) \/ RequestSense(c) \/ Read(c) \/ Write(c)
       \/ Inquiry(c) \/ ReadCapacity(c) \/ ModeSense(c) \/ FormatUnit(c)
       \/ DoNothing(c) \/ Verify(c)

-----------------------------------------------------------------------------
(* ACK in the DATAOUT phase                                                *)

\* The byte is stored at data_buf[seq].
Stored == [ctx EXCEPT !.seq = @ + 1, !.io = FALSE]

LastDataOf(commands) ==
  /\ ctx.state = "DATAOUT"
  /\ ctx.seq + 1 >= ctx.data_max
  /\ ctx.command \in commands

AckDataOutByte ==
  /\ ctx.state = "DATAOUT"
  /\ ctx.seq + 1 < ctx.data_max
  /\ ctx' = Stored
  /\ UNCHANGED disk

\* Mutant of NextBlock: the address stays.
SameBlock(c) == [c EXCEPT !.seq = 0, !.blocks = @ - 1]

\* On to the next sector of a WRITE or a READ.
NextBlock(c) ==
  [c EXCEPT !.seq = 0, !.blocks = @ - 1, !.address = @ + 1]

AfterWrite(c) ==
  IF c.blocks = 0 THEN Good(c)
  ELSE IF c.address >= MaxSize(c) THEN OutOfRange(c)
  ELSE c

\* A sector is complete.  It is in the cache before a deferred error is
\* looked for, and a write that fails leaves that error for later.
WriteBlock ==
  /\ LastDataOf(Writes)
  /\ \/ ctx' = WriteFault(Stored) /\ UNCHANGED disk
     \/ /\ Present(ctx) /\ Deferred(ctx)
        /\ \E dirty \in {TRUE, disk[Unit(ctx)].dirty} :
             disk' = [disk EXCEPT ![Unit(ctx)].dirty = dirty,
                                  ![Unit(ctx)].latched = FALSE]
        /\ ctx' = WriteFault(Stored)
     \/ /\ Present(ctx) /\ ~Deferred(ctx)
        /\ WriteSector(ctx)
        /\ ctx' = AfterWrite(NextBlock(Stored))

\* The header of a FORMAT UNIT list has to be zero.
FormatList ==
  /\ LastDataOf({"FORMAT_UNIT"})
  /\ \/ Format(Stored)
     \/ ctx' = BadList(Stored) /\ UNCHANGED disk

\* Mutant of ReassignList: the length is put into seq.
ReassignIntoSeq(c, length) ==
  IF length = 0 THEN Good(c)
  ELSE [c EXCEPT !.seq = IF length > BufBytes THEN BufBytes ELSE length]

\* The header of a REASSIGN BLOCKS list has the length of the rest.
ReassignList(c, length) ==
  IF length + HeaderBytes > BufBytes THEN BadList(c)
  ELSE IF length = 0 THEN Good([c EXCEPT !.data_max = HeaderBytes])
  ELSE [c EXCEPT !.data_max = length + HeaderBytes]

AckReassignData ==
  /\ LastDataOf({"REASSIGN_BLOCKS"})
  /\ IF ctx.seq + 1 = HeaderBytes
     THEN \E length \in Lengths : ctx' = ReassignList(Stored, length)
     ELSE ctx' = Good(Stored)
  /\ UNCHANGED disk

AckDataOut == AckDataOutByte \/ WriteBlock \/ FormatList \/ AckReassignData

-----------------------------------------------------------------------------
(* ACK in the DATAIN and STATUS phases                                     *)

AckDataInByte ==
  /\ ctx.state = "DATAIN" /\ ctx.seq < ctx.data_max
  /\ ctx' = [ctx EXCEPT !.seq = @ + 1]
  /\ UNCHANGED disk

ReadBlock ==
  /\ ctx.state = "DATAIN" /\ ctx.seq >= ctx.data_max
  /\ ctx.command \in Reads
  /\ LET c == NextBlock(ctx) IN
     \/ c.blocks = 0 /\ ctx' = Good(c)
     \/ c.blocks # 0 /\ c.address >= MaxSize(c) /\ ctx' = OutOfRange(c)
     \/ c.blocks # 0 /\ c.address < MaxSize(c)
          /\ ctx' \in {DataIn(c, BufBytes), ReadError(c)}
  /\ UNCHANGED disk

AckDataInEnd ==
  /\ ctx.state = "DATAIN" /\ ctx.seq >= ctx.data_max
  /\ ctx.command \notin Reads
  /\ ctx' = Good(ctx)
  /\ UNCHANGED disk

BusFree(c) ==
  [c EXCEPT !.state = "BUSFREE", !.req = FALSE, !.io = FALSE, !.bsyo = FALSE]

\* The status byte, status << 1, as an opcode.
StatusByte == IF ctx.status = "GOOD" THEN "TEST_UNIT_READY" ELSE Unknown

\* After the status of a linked command the same ACK goes on into COMMAND,
\* with the status byte, still on the bus, as its byte 0.
AckStatus ==
  /\ ctx.state = "STATUS"
  /\ ctx' = IF ctx.link THEN Opcode(ctx, StatusByte) ELSE BusFree(ctx)
  /\ UNCHANGED disk

Ack == AckCommand \/ AckDataOut \/ AckDataInByte \/ ReadBlock
         \/ AckDataInEnd \/ AckStatus

-----------------------------------------------------------------------------
Init ==
  /\ ctx = [state |-> "BUSFREE", sel |-> FALSE, bsyo |-> FALSE, req |-> FALSE,
            io |-> FALSE, target |-> NoTarget, lun |-> 0, seq |-> 0,
            cmd_size |-> CmdBufBytes, data_max |-> 0,
            command |-> "TEST_UNIT_READY", address |-> 0, blocks |-> 0,
            link |-> FALSE, status |-> "GOOD", sensekey |-> "NOSENSE",
            asc |-> "none"]
  /\ disk = [u \in Units |-> [attached |-> Size[u] # 0, dirty |-> FALSE,
                              latched |-> FALSE]]

BusLines ==
  \/ Reset \/ SelectNobody \/ RaiseSel \/ DropSel
  \/ \E t \in Targets : Select(t)

Images ==
  \/ \E u \in Units : FlushSucceeds(u) \/ FlushFails(u)
  \/ RemoveDisk0

Next == BusLines \/ Ack \/ Images

Spec == Init /\ [][Next]_vars

\* The initiator does not stop in the middle of a command.
FairSpec == Spec /\ WF_vars(Ack)

-----------------------------------------------------------------------------
(* Properties                                                              *)

TypeOK ==
  /\ ctx \in Contexts
  /\ disk \in [Units -> [attached : BOOLEAN, dirty : BOOLEAN,
                         latched : BOOLEAN]]

\* The lines agree with the phase.  io is the one that matters most: while it
\* is set scsi_set_bus refuses the initiator's byte, so that an io left over
\* would hide the id of the next selection.  A LINK left over would turn the
\* end of an unlinked command into the start of another one.
LinesFollowPhase ==
  /\ ctx.io <=> ctx.state \in {"DATAIN", "STATUS"}
  /\ ctx.req <=> ctx.state # "BUSFREE"
  /\ ctx.state # "BUSFREE" => ctx.bsyo
  /\ ctx.bsyo => ctx.target \in Targets
  /\ ctx.state = "BUSFREE" => ~ctx.link

\* The next ACK stores or fetches its byte inside data_buf or cmd_buf, and not
\* beyond what the command announced: REASSIGN BLOCKS once wrote past the end.
InsideBuffers ==
  /\ ctx.state = "DATAOUT" => ctx.seq < ctx.data_max
  /\ ctx.state = "DATAIN" => 0 < ctx.seq /\ ctx.seq <= ctx.data_max
  /\ ctx.state = "COMMAND" => ctx.seq < ctx.cmd_size
  /\ ctx.data_max <= BufBytes

Writing(c) == c.state = "DATAOUT" /\ c.command \in Writes
Reading(c) == c.state = "DATAIN" /\ c.command \in Reads
Moving(c) == Writing(c) \/ Reading(c)

\* Every sector a transfer asks for is on the disk, also the later ones of a
\* transfer that started in range.
TransferInRange == Moving(ctx) => ctx.address < Size[Unit(ctx)]

\* No byte of a command or of data leaves its buffer, and no sector its disk.
InBounds == InsideBuffers /\ TransferInRange

\* A transfer neither skips nor repeats a sector, and is GOOD only when none is
\* left.
BlocksMove ==
  [][Moving(ctx) =>
       /\ Moving(ctx') => ctx'.address + ctx'.blocks = ctx.address + ctx.blocks
       /\ ctx'.state = "STATUS" /\ ctx'.status = "GOOD" => ctx'.blocks = 0]_ctx

\* A latched write error leaves its image only as the CHECK CONDITION of a
\* command to that image: no command takes it and reports something else.
ErrorIsTold ==
  [][\A u \in Units :
       disk[u].latched /\ ~disk'[u].latched =>
         /\ u = Unit(ctx') /\ ctx'.state = "STATUS"
         /\ ctx'.status = "CHECKCONDITION"
         /\ ctx'.sensekey = "MEDIUMERROR" /\ ctx'.asc = "WRITEFAULT"]_vars

\* The last byte of the CDB of one of these commands has just been read.
Answers(commands) ==
  /\ ctx.state = "COMMAND" /\ ctx.seq > 0
  /\ ctx'.seq = 0 \/ ctx'.state # "COMMAND"
  /\ ctx'.state # "BUSFREE"
  /\ ctx.command \in commands

\* A VERIFY that answers GOOD has looked at a card that holds all the writes
\* of the image, not at the cache.
VerifyMeansOnCard ==
  [][Answers({"VERIFY"}) /\ ctx'.status = "GOOD" =>
       ~disk'[Unit(ctx')].dirty]_vars

\* An initiator that keeps taking and giving bytes gets its bus back, whatever
\* it asks for and whatever fails, as long as it links no command: the status
\* of a linked command that fails is an unknown opcode, which fails again.
CommandsEnd ==
  [](ctx.state # "BUSFREE" /\ []~ctx.link => <>(ctx.state = "BUSFREE"))

=============================================================================
