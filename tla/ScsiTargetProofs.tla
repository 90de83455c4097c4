-------------------------- MODULE ScsiTargetProofs --------------------------
(***************************************************************************)
(* What TLAPS proves of ScsiTarget, for every set of images, every buffer  *)
(* and CDB size, and every input of the initiator.                         *)
(*                                                                         *)
(* The invariants of the module are not inductive on their own: blocks has *)
(* to be positive while a transfer runs, or counting it down would leave   *)
(* Nat, and cmd_size has to be that of a command once byte 0 is read, or   *)
(* seq would leave the buffers.  ContextOK adds both.                      *)
(***************************************************************************)
EXTENDS ScsiTarget, TLAPS

Disks == [attached : BOOLEAN, dirty : BOOLEAN, latched : BOOLEAN]

\* Of a context that answers a selection, in any phase.
Selected(c) ==
  /\ c \in Contexts
  /\ c.req /\ c.bsyo
  /\ c.target \in Targets

\* The sector of a transfer is on the disk, and one of those still to come.
OnDisk(c) == c.address < Size[Unit(c)] /\ c.blocks > 0

ContextOK(c) ==
  /\ c \in Contexts
  /\ c.io <=> c.state \in {"DATAIN", "STATUS"}
  /\ c.req <=> c.state # "BUSFREE"
  /\ c.state # "BUSFREE" => c.bsyo
  /\ c.bsyo => c.target \in Targets
  /\ c.state = "BUSFREE" => ~c.link
  /\ c.state = "BUSFREE" /\ c.bsyo => c.seq = 0
  /\ c.state = "DATAOUT" => c.seq < c.data_max
  /\ c.state = "DATAIN" => 0 < c.seq /\ c.seq <= c.data_max
  /\ c.state = "COMMAND" => /\ c.seq < c.cmd_size
                            /\ c.seq > 0 => c.cmd_size # CmdBufBytes
  /\ Moving(c) => OnDisk(c)

DiskOK == disk \in [Units -> Disks]

IInv == ContextOK(ctx) /\ DiskOK

USE DEF Disks

-----------------------------------------------------------------------------
(* The endings of an ACK                                                   *)

\* The first indices of the buffers.
LEMMA Indices ==
  /\ 0 \in 0 .. BufBytes /\ 1 \in 0 .. BufBytes
  /\ 1 < ShortCdb /\ 1 < LongCdb
  /\ ShortCdb # CmdBufBytes /\ LongCdb # CmdBufBytes
BY BytesAssumption

\* Any context a selected target works on may end with a status.
LEMMA GoodOK ==
  ASSUME NEW c, Selected(c)
  PROVE  ContextOK(Good(c))
BY DEF Selected, ContextOK, Good, Contexts, States, Moving, Reading, Writing

LEMMA CheckOK ==
  ASSUME NEW c, Selected(c), NEW key \in SenseKeys, NEW code \in SenseCodes
  PROVE  ContextOK(Check(c, key, code))
BY DEF Selected, ContextOK, Check, Contexts, States, Moving, Reading, Writing

\* The CHECK CONDITIONs of the commands are such endings.
LEMMA ChecksOK ==
  ASSUME NEW c, Selected(c)
  PROVE  /\ ContextOK(NotReady(c)) /\ ContextOK(OutOfRange(c))
         /\ ContextOK(WriteFault(c)) /\ ContextOK(ReadError(c))
         /\ ContextOK(BadCdb(c)) /\ ContextOK(BadList(c))
BY CheckOK DEF NotReady, OutOfRange, WriteFault, ReadError, BadCdb, BadList,
     SenseKeys, SenseCodes

\* A reply fits data_buf, and that of a READ is a sector of the disk.
LEMMA DataInOK ==
  ASSUME NEW c, Selected(c), NEW bytes \in 0 .. BufBytes,
         c.command \in Reads => OnDisk(c)
  PROVE  ContextOK(DataIn(c, bytes))
<1>1. CASE bytes = 0
  <2> DEFINE d == [c EXCEPT !.data_max = 0, !.seq = 0]
  <2>1. Selected(d)
    BY Indices DEF Selected, Contexts
  <2> QED BY <1>1, <2>1, GoodOK DEF DataIn
<1>2. CASE bytes # 0
  <2> DEFINE d == DataIn(c, bytes)
  <2>1. d = [c EXCEPT !.state = "DATAIN", !.io = TRUE, !.seq = 1,
                      !.data_max = bytes]
    BY <1>2 DEF DataIn
  <2>2. d \in Contexts
    BY ZenonT(60), <1>2, <2>1, Indices DEF Selected, Contexts, States
  <2>3. Moving(d) => OnDisk(d)
    BY <2>1 DEF Selected, Contexts, Moving, Reading, Writing, OnDisk, Unit
  <2> QED BY <1>2, <2>1, <2>2, <2>3 DEF Selected, Contexts, ContextOK
<1> QED BY <1>1, <1>2

\* So does the data a command waits for.
LEMMA DataOutOK ==
  ASSUME NEW c, Selected(c), ~c.io, NEW bytes \in 1 .. BufBytes,
         c.command \in Writes => OnDisk(c)
  PROVE  ContextOK(DataOut(c, bytes))
<1> DEFINE d == DataOut(c, bytes)
<1>1. d = [c EXCEPT !.state = "DATAOUT", !.seq = 0, !.data_max = bytes]
  BY DEF DataOut
<1>2. d \in Contexts
  <2>1. bytes \in 0 .. BufBytes
    BY BytesAssumption
  <2> QED BY ZenonT(60), <1>1, <2>1, Indices DEF Selected, Contexts, States
<1>3. Moving(d) => OnDisk(d)
  BY <1>1 DEF Selected, Contexts, Moving, Reading, Writing, OnDisk, Unit
<1> QED BY <1>1, <1>2, <1>3 DEF Selected, Contexts, ContextOK

\* Byte 0 of a CDB, from the initiator or left on the bus by a linked command.
LEMMA OpcodeOK ==
  ASSUME NEW c, Selected(c), NEW op \in Commands
  PROVE  ContextOK(Opcode(c, op))
<1> DEFINE d == Opcode(c, op)
<1>1. CASE op = Unknown
  <2>1. d = [c EXCEPT !.command = op, !.seq = 1, !.io = TRUE,
                      !.state = "STATUS", !.status = "CHECKCONDITION",
                      !.sensekey = "ILLEGALREQUEST"]
    BY <1>1 DEF Opcode, Selected, Contexts
  <2> HIDE DEF d
  <2>2. d \in Contexts
    <3>1. "STATUS" \in States /\ "ILLEGALREQUEST" \in SenseKeys
      BY DEF States, SenseKeys
    <3>2. c \in Contexts /\ 1 \in 0 .. BufBytes
      BY Indices DEF Selected
    <3> HIDE DEF States, SenseKeys
    <3> QED BY <2>1, <3>1, <3>2 DEF Contexts
  <2>3. /\ d.state = "STATUS" /\ d.io
        /\ d.req = c.req /\ d.bsyo = c.bsyo /\ d.target = c.target
    BY <2>1 DEF Selected, Contexts
  <2>4. ContextOK(d)
    BY <2>2, <2>3 DEF Selected, ContextOK, Moving, Reading, Writing
  <2> QED BY <2>4 DEF d
<1>2. CASE op # Unknown
  <2>1. d = [c EXCEPT !.command = op, !.seq = 1, !.io = FALSE,
                      !.state = "COMMAND",
                      !.cmd_size = IF op \in ShortCommands
                                   THEN ShortCdb ELSE LongCdb]
    BY <1>2 DEF Opcode, Selected, Contexts
  <2> DEFINE size == IF op \in ShortCommands THEN ShortCdb ELSE LongCdb
  <2>2. /\ size \in {ShortCdb, LongCdb, CmdBufBytes}
        /\ 1 < size /\ size # CmdBufBytes
    BY Indices
  <2>3. d \in Contexts
    BY ZenonT(60), <2>1, <2>2, Indices DEF Selected, Contexts, States
  <2>4. /\ d.state = "COMMAND" /\ ~d.io /\ d.seq = 1 /\ d.cmd_size = size
        /\ d.req = c.req /\ d.bsyo = c.bsyo /\ d.target = c.target
    BY <2>1 DEF Selected, Contexts
  <2> HIDE DEF d, size
  <2>5. ContextOK(d)
    BY <2>2, <2>3, <2>4 DEF Selected, ContextOK, Moving, Reading, Writing
  <2> QED BY <2>5 DEF d
<1> QED BY <1>1, <1>2

-----------------------------------------------------------------------------
(* The contexts that commands work on                                      *)

\* What a step has to establish.
LEMMA NextState ==
  ASSUME ContextOK(ctx'), disk' \in [Units -> Disks]
  PROVE  IInv'
BY DEF IInv, DiskOK, ContextOK, Contexts, Moving, Reading, Writing, OnDisk,
       Unit

\* Outside BUSFREE a target is selected.
LEMMA SelectedOK ==
  ASSUME IInv, ctx.state # "BUSFREE"
  PROVE  Selected(ctx)
BY DEF IInv, ContextOK, Selected

LEMMA CdbOK ==
  ASSUME IInv, NEW commands, LastByteOf(commands),
         NEW lun \in Luns, NEW link \in Links
  PROVE  /\ Selected(Cdb(lun, link)) /\ ~Cdb(lun, link).io
         /\ Cdb(lun, link).command = ctx.command
<1>1. Selected(ctx) /\ ~ctx.io
  BY SelectedOK DEF IInv, ContextOK, LastByteOf
<1>2. ctx.seq + 1 \in 0 .. BufBytes
  <2>1. /\ ctx.cmd_size \in {ShortCdb, LongCdb}
        /\ ctx.seq < ctx.cmd_size /\ ctx.seq \in Nat
    BY DEF IInv, ContextOK, Contexts, LastByteOf
  <2> QED BY <2>1, BytesAssumption
<1>3. link \in BOOLEAN
  BY InputsAssumption
<1> QED BY <1>1, <1>2, <1>3 DEF Selected, Contexts, Cdb

LEMMA TransferOK ==
  ASSUME NEW c, Selected(c), NEW address \in Addresses,
         NEW length \in Lengths
  PROVE  LET d == Transfer(c, address, length)
         IN /\ Selected(d) /\ d.io = c.io /\ d.command = c.command
            /\ d.address = address /\ d.blocks \in Nat /\ Unit(d) = Unit(c)
<1>1. address \in Nat /\ Blocks(length) \in Nat /\ BufBytes \in 0 .. BufBytes
  BY InputsAssumption, BytesAssumption DEF Blocks
<1> QED BY <1>1 DEF Selected, Contexts, Transfer, Unit

\* A selected target with an image is one of Units.
LEMMA TakeOK ==
  ASSUME NEW c, DiskOK, Present(c), TakeWriteError(c)
  PROVE  disk' \in [Units -> Disks]
BY DEF DiskOK, TakeWriteError, Present

LEMMA WriteSectorOK ==
  ASSUME NEW c, DiskOK, Present(c), WriteSector(c)
  PROVE  disk' \in [Units -> Disks]
BY DEF DiskOK, WriteSector, Present

LEMMA SizeOK ==
  ASSUME NEW c, NEW address \in Nat
  PROVE  address < MaxSize(c) => address < Size[Unit(c)]
BY DEF MaxSize

-----------------------------------------------------------------------------
(* The commands: each ends in one of the endings above                     *)

LEMMA TestUnitReadyOK ==
  ASSUME IInv, NEW c, Selected(c), TestUnitReady(c)
  PROVE  IInv'
<1>1. CASE Deferred(c)
  <2>1. ctx' = WriteFault(c) /\ TakeWriteError(c) /\ Present(c)
    BY <1>1 DEF TestUnitReady, Deferred
  <2> QED BY <2>1, ChecksOK, TakeOK, NextState DEF IInv
<1>2. CASE ~Deferred(c)
  BY <1>2, GoodOK, ChecksOK, NextState DEF TestUnitReady, IInv, DiskOK
<1> QED BY <1>1, <1>2

\* Sending the sense clears it, which no part of ContextOK looks at.
LEMMA RequestSenseOK ==
  ASSUME IInv, NEW c, Selected(c), c.command = ctx.command, RequestSense(c)
  PROVE  IInv'
<1>1. PICK length \in Lengths :
        ctx' = [DataIn(c, SenseLength(length)) EXCEPT
                  !.status = "GOOD", !.sensekey = "NOSENSE", !.asc = "none"]
  BY DEF RequestSense
<1> DEFINE d == DataIn(c, SenseLength(length))
<1>2. SenseLength(length) \in 0 .. BufBytes
  BY BytesAssumption, InputsAssumption DEF SenseLength
<1>3. ContextOK(d)
  BY <1>2, DataInOK DEF RequestSense, LastByteOf, Reads
<1> HIDE DEF d
<1>4. /\ "NOSENSE" \in SenseKeys /\ "none" \in SenseCodes
      /\ "GOOD" \in {"GOOD", "CHECKCONDITION"}
  BY DEF SenseKeys, SenseCodes
<1>5. ContextOK(ctx')
  <2>1. ctx' = [d EXCEPT !.status = "GOOD", !.sensekey = "NOSENSE",
                         !.asc = "none"]
    BY <1>1 DEF d
  <2>2. ctx' \in Contexts
    BY <1>3, <1>4, <2>1 DEF ContextOK, Contexts
  <2>3. Moving(ctx') => OnDisk(ctx')
    BY <1>3, <2>1 DEF ContextOK, Contexts, Moving, Reading, Writing, OnDisk,
                      Unit
  <2> QED BY <1>3, <2>1, <2>2, <2>3 DEF ContextOK, Contexts
<1> QED BY <1>5, NextState DEF RequestSense, IInv, DiskOK

LEMMA ReadOK ==
  ASSUME IInv, NEW c, Selected(c), Read(c)
  PROVE  IInv'
<1>1. PICK address \in Addresses, length \in Lengths :
        LET d == Transfer(c, address, length) IN
        IF d.blocks # 0 /\ Present(d) /\ address < MaxSize(d) /\ Deferred(d)
        THEN ctx' = WriteFault(d) /\ TakeWriteError(d)
        ELSE /\ \/ d.blocks = 0 /\ ctx' = Good(d)
                \/ d.blocks # 0 /\ ~Present(d) /\ ctx' = NotReady(d)
                \/ d.blocks # 0 /\ Present(d) /\ address >= MaxSize(d)
                     /\ ctx' = OutOfRange(d)
                \/ d.blocks # 0 /\ Present(d) /\ address < MaxSize(d)
                     /\ ctx' \in {DataIn(d, BufBytes), ReadError(d)}
             /\ UNCHANGED disk
  BY DEF Read
<1> DEFINE d == Transfer(c, address, length)
<1>2. /\ Selected(d) /\ d.address = address /\ d.blocks \in Nat
      /\ address \in Nat /\ BufBytes \in 0 .. BufBytes
  BY TransferOK, InputsAssumption, BytesAssumption
<1> HIDE DEF d
<1>3. CASE ctx' = WriteFault(d) /\ TakeWriteError(d) /\ Present(d)
  BY <1>2, <1>3, ChecksOK, TakeOK, NextState DEF IInv
<1>4. CASE /\ ctx' \in {Good(d), NotReady(d), OutOfRange(d), ReadError(d)}
           /\ UNCHANGED disk
  BY <1>2, <1>4, GoodOK, ChecksOK, NextState DEF IInv, DiskOK
<1>5. CASE /\ d.blocks # 0 /\ address < MaxSize(d)
           /\ ctx' = DataIn(d, BufBytes) /\ UNCHANGED disk
  <2>1. OnDisk(d)
    BY <1>2, <1>5, SizeOK DEF OnDisk
  <2> QED BY <1>2, <1>5, <2>1, DataInOK, NextState DEF IInv, DiskOK
<1> QED BY <1>1, <1>3, <1>4, <1>5 DEF d

LEMMA WriteOK ==
  ASSUME IInv, NEW c, Selected(c), ~c.io, Write(c)
  PROVE  IInv'
<1>1. PICK address \in Addresses, length \in Lengths :
        LET d == Transfer(c, address, length) IN
        ctx' = IF d.blocks = 0 THEN Good(d)
               ELSE IF ~Present(d) THEN NotReady(d)
               ELSE IF address >= MaxSize(d) THEN OutOfRange(d)
               ELSE DataOut(d, BufBytes)
  BY DEF Write
<1> DEFINE d == Transfer(c, address, length)
<1>2. /\ Selected(d) /\ d.address = address /\ d.blocks \in Nat /\ ~d.io
      /\ address \in Nat /\ BufBytes \in 1 .. BufBytes
      /\ MaxSize(d) \in Nat
  <2>1. Selected(d) /\ d.address = address /\ d.blocks \in Nat /\ ~d.io
    BY TransferOK
  <2> HIDE DEF d
  <2>2. MaxSize(d) \in Nat
    BY UnitsAssumption DEF MaxSize, Present
  <2> QED BY <2>1, <2>2, InputsAssumption, BytesAssumption
<1> HIDE DEF d
<1>3. CASE ctx' \in {Good(d), NotReady(d), OutOfRange(d)}
  BY <1>2, <1>3, GoodOK, ChecksOK, NextState DEF Write, IInv, DiskOK
<1>4. CASE d.blocks # 0 /\ address < MaxSize(d) /\ ctx' = DataOut(d, BufBytes)
  <2>1. OnDisk(d)
    BY <1>2, <1>4, SizeOK DEF OnDisk
  <2> QED BY <1>2, <1>4, <2>1, DataOutOK, NextState DEF Write, IInv, DiskOK
<1> QED BY <1>1, <1>2, <1>3, <1>4 DEF d

LEMMA InquiryOK ==
  ASSUME IInv, NEW c, Selected(c), c.command = ctx.command, Inquiry(c)
  PROVE  IInv'
<1>1. PICK length \in Lengths : ctx' = DataIn(c, length)
  BY DEF Inquiry
<1>2. length \in 0 .. BufBytes /\ c.command \notin Reads
  BY InputsAssumption DEF Inquiry, LastByteOf, Reads
<1> QED BY <1>1, <1>2, DataInOK, NextState DEF Inquiry, IInv, DiskOK

LEMMA ReadCapacityOK ==
  ASSUME IInv, NEW c, Selected(c), c.command = ctx.command, ReadCapacity(c)
  PROVE  IInv'
<1>1. /\ CapacityBytes \in 0 .. BufBytes /\ c.command \notin Reads
      /\ disk' \in [Units -> Disks]
  BY BytesAssumption DEF ReadCapacity, LastByteOf, Reads, IInv, DiskOK
<1>2. CASE Present(c)
  BY <1>1, <1>2, DataInOK, NextState DEF ReadCapacity
<1>3. CASE ~Present(c)
  <2> DEFINE d == [c EXCEPT !.data_max = CapacityBytes]
  <2>1. Selected(d)
    BY <1>1 DEF Selected, Contexts
  <2>2. ctx' = NotReady(d)
    BY <1>3 DEF ReadCapacity
  <2> QED BY <1>1, <2>1, <2>2, ChecksOK, NextState
<1> QED BY <1>2, <1>3

LEMMA ModeSenseOK ==
  ASSUME IInv, NEW c, Selected(c), c.command = ctx.command, ModeSense(c)
  PROVE  IInv'
<1>1. PICK length \in Lengths :
        ctx' \in {DataIn(c, length),
                  BadCdb([c EXCEPT !.data_max = length, !.seq = 0])}
  BY DEF ModeSense
<1>2. /\ length \in 0 .. BufBytes /\ c.command \notin Reads
      /\ disk' \in [Units -> Disks]
  BY InputsAssumption DEF ModeSense, LastByteOf, Reads, IInv, DiskOK
<1>3. CASE ctx' = DataIn(c, length)
  BY <1>2, <1>3, DataInOK, NextState
<1>4. CASE ctx' = BadCdb([c EXCEPT !.data_max = length, !.seq = 0])
  <2>1. Selected([c EXCEPT !.data_max = length, !.seq = 0])
    BY <1>2, Indices DEF Selected, Contexts
  <2> QED BY <1>2, <1>4, <2>1, ChecksOK, NextState
<1> QED BY <1>1, <1>3, <1>4

LEMMA FormatOK ==
  ASSUME IInv, NEW c, Selected(c), Format(c)
  PROVE  IInv'
<1>1. CASE Unit(c) # <<0, 0>>
  BY <1>1, GoodOK, NextState DEF Format, IInv, DiskOK
<1>2. CASE Unit(c) = <<0, 0>>
  <2>1. PICK address \in {c.address} \union Addresses :
          LET d == [c EXCEPT !.address = address] IN
          \/ ctx' \in {Good(d), WriteFault(d)} /\ UNCHANGED disk
          \/ Present(d) /\ WriteSector(d) /\ ctx' = Good(d)
    BY <1>2 DEF Format
  <2> DEFINE d == [c EXCEPT !.address = address]
  <2>2. Selected(d)
    BY InputsAssumption DEF Selected, Contexts
  <2> HIDE DEF d
  <2>3. CASE ctx' \in {Good(d), WriteFault(d)} /\ UNCHANGED disk
    BY <2>2, <2>3, GoodOK, ChecksOK, NextState DEF IInv, DiskOK
  <2>4. CASE Present(d) /\ WriteSector(d) /\ ctx' = Good(d)
    BY <2>2, <2>4, GoodOK, WriteSectorOK, NextState DEF IInv
  <2> QED BY <2>1, <2>3, <2>4 DEF d
<1> QED BY <1>1, <1>2

LEMMA FormatUnitOK ==
  ASSUME IInv, NEW c, Selected(c), ~c.io, c.command = ctx.command,
         FormatUnit(c)
  PROVE  IInv'
<1>1. HeaderBytes \in 1 .. BufBytes /\ c.command \notin Writes
  BY BytesAssumption DEF FormatUnit, LastByteOf, Writes
<1>2. CASE Format(c)
  BY <1>2, FormatOK
<1>3. CASE ctx' \in {DataOut(c, HeaderBytes), BadList(c)} /\ UNCHANGED disk
  BY <1>1, <1>3, DataOutOK, ChecksOK, NextState DEF IInv, DiskOK
<1> QED BY <1>2, <1>3 DEF FormatUnit

LEMMA ReassignBlocksOK ==
  ASSUME IInv, ReassignBlocks
  PROVE  IInv'
<1>1. HeaderBytes \in 1 .. BufBytes /\ ctx.command \notin Writes
  BY BytesAssumption DEF ReassignBlocks, LastByteOf, Writes
<1>2. Selected(ctx) /\ ~ctx.io
  BY SelectedOK DEF ReassignBlocks, LastByteOf, IInv, ContextOK
<1> QED BY <1>1, <1>2, DataOutOK, NextState DEF ReassignBlocks, IInv, DiskOK

LEMMA DoNothingOK ==
  ASSUME IInv, NEW c, Selected(c), DoNothing(c)
  PROVE  IInv'
BY GoodOK, NextState DEF DoNothing, IInv, DiskOK

LEMMA VerifyOK ==
  ASSUME IInv, NEW c, Selected(c), Verify(c)
  PROVE  IInv'
<1>1. PICK address \in Addresses, length \in Lengths, bytchk \in BOOLEAN :
        LET d == [c EXCEPT !.address = address, !.blocks = length]
            fits == length = 0 \/ address + length <= MaxSize(d)
        IN \/ ~Present(d) /\ ctx' = NotReady(d) /\ UNCHANGED disk
           \/ /\ Present(d) /\ ~fits
              /\ ctx' = OutOfRange(d) /\ UNCHANGED disk
           \/ /\ Present(d) /\ fits /\ Deferred(d)
              /\ ctx' = WriteFault(d) /\ TakeWriteError(d)
           \/ /\ Present(d) /\ fits /\ ~Deferred(d) /\ bytchk
              /\ ctx' = BadCdb(d) /\ UNCHANGED disk
           \/ /\ Present(d) /\ fits /\ ~Deferred(d) /\ ~bytchk
              /\ VerifyBlocks(d)
  BY DEF Verify
<1> DEFINE d == [c EXCEPT !.address = address, !.blocks = length]
<1>2. Selected(d)
  <2>1. address \in Nat /\ length \in Nat
    BY InputsAssumption
  <2> QED BY <2>1 DEF Selected, Contexts
<1> HIDE DEF d
<1>3. CASE /\ ctx' \in {NotReady(d), OutOfRange(d), BadCdb(d)}
           /\ UNCHANGED disk
  BY <1>2, <1>3, ChecksOK, NextState DEF IInv, DiskOK
<1>4. CASE Present(d) /\ ctx' = WriteFault(d) /\ TakeWriteError(d)
  BY <1>2, <1>4, ChecksOK, TakeOK, NextState DEF IInv
<1>5. CASE Present(d) /\ VerifyBlocks(d)
  <2>1. ctx' \in {Good(d), ReadError(d), WriteFault(d)}
    BY <1>5 DEF VerifyBlocks
  <2>2. disk' \in [Units -> Disks]
    BY <1>5 DEF VerifyBlocks, Present, IInv, DiskOK
  <2> QED BY <1>2, <2>1, <2>2, GoodOK, ChecksOK, NextState
<1> QED
  <2> DEFINE fits == length = 0 \/ address + length <= MaxSize(d)
  <2>1. \/ ~Present(d) /\ ctx' = NotReady(d) /\ UNCHANGED disk
        \/ /\ Present(d) /\ ~fits
           /\ ctx' = OutOfRange(d) /\ UNCHANGED disk
        \/ /\ Present(d) /\ fits /\ Deferred(d)
           /\ ctx' = WriteFault(d) /\ TakeWriteError(d)
        \/ /\ Present(d) /\ fits /\ ~Deferred(d) /\ bytchk
           /\ ctx' = BadCdb(d) /\ UNCHANGED disk
        \/ /\ Present(d) /\ fits /\ ~Deferred(d) /\ ~bytchk
           /\ VerifyBlocks(d)
    BY <1>1 DEF d
  <2> HIDE DEF fits
  <2> QED BY <2>1, <1>3, <1>4, <1>5

LEMMA AckCommandOK ==
  ASSUME IInv, AckCommand
  PROVE  IInv'
<1>1. CASE \E op \in Opcodes : AckOpcode(op)
  <2>1. PICK op \in Commands : AckOpcode(op)
    BY <1>1, InputsAssumption
  <2>2. Selected(ctx)
    BY <2>1, SelectedOK DEF AckOpcode
  <2> QED BY <2>1, <2>2, OpcodeOK, NextState DEF AckOpcode, IInv, DiskOK
<1>2. CASE AckCdbByte
  <2>1. /\ ctx' = [ctx EXCEPT !.seq = @ + 1]
        /\ ctx.seq + 1 \in 0 .. BufBytes
    <3>1. ctx.seq \in Nat /\ ctx.cmd_size \in {ShortCdb, LongCdb}
      BY <1>2 DEF AckCdbByte, IInv, ContextOK, Contexts
    <3> QED BY <1>2, <3>1, BytesAssumption DEF AckCdbByte
  <2>2. ctx' \in Contexts
    BY <2>1 DEF IInv, ContextOK, Contexts
  <2>3. ContextOK(ctx')
    BY <1>2, <2>1, <2>2
       DEF AckCdbByte, IInv, ContextOK, Contexts, Moving, Reading, Writing
  <2> QED BY <1>2, <2>3, NextState DEF AckCdbByte, IInv, DiskOK
<1>3. CASE ReassignBlocks
  BY <1>3, ReassignBlocksOK
<1>4. CASE \E lun \in Luns, link \in Links :
             LET c == Cdb(lun, link) IN
             \/ TestUnitReady(c) \/ RequestSense(c) \/ Read(c) \/ Write(c)
             \/ Inquiry(c) \/ ReadCapacity(c) \/ ModeSense(c)
             \/ FormatUnit(c) \/ DoNothing(c) \/ Verify(c)
  <2>1. PICK lun \in Luns, link \in Links :
             LET c == Cdb(lun, link) IN
             \/ TestUnitReady(c) \/ RequestSense(c) \/ Read(c) \/ Write(c)
             \/ Inquiry(c) \/ ReadCapacity(c) \/ ModeSense(c)
             \/ FormatUnit(c) \/ DoNothing(c) \/ Verify(c)
    BY <1>4
  <2> DEFINE c == Cdb(lun, link)
  <2>2. PICK commands : LastByteOf(commands)
    BY <2>1 DEF TestUnitReady, RequestSense, Read, Write, Inquiry,
                ReadCapacity, ModeSense, FormatUnit, DoNothing, Verify
  <2>3. Selected(c) /\ ~c.io /\ c.command = ctx.command
    BY <2>2, CdbOK
  <2> HIDE DEF c
  <2>4. \/ TestUnitReady(c) \/ RequestSense(c) \/ Read(c) \/ Write(c)
        \/ Inquiry(c) \/ ReadCapacity(c) \/ ModeSense(c)
        \/ FormatUnit(c) \/ DoNothing(c) \/ Verify(c)
    BY <2>1 DEF c
  <2> QED
    BY <2>3, <2>4, TestUnitReadyOK, RequestSenseOK, ReadOK, WriteOK,
       InquiryOK, ReadCapacityOK, ModeSenseOK, FormatUnitOK, DoNothingOK,
       VerifyOK
<1> QED BY <1>1, <1>2, <1>3, <1>4 DEF AckCommand

-----------------------------------------------------------------------------
(* The data and status phases                                              *)

LEMMA StoredOK ==
  ASSUME IInv, ctx.state = "DATAOUT"
  PROVE  /\ Selected(Stored) /\ ~Stored.io /\ Stored.seq = ctx.seq + 1
         /\ \A field \in {"state", "command", "address", "blocks", "target",
                          "lun", "data_max"} : Stored[field] = ctx[field]
<1>1. Selected(ctx)
  BY SelectedOK
<1>2. ctx.seq + 1 \in 0 .. BufBytes
  BY BytesAssumption DEF IInv, ContextOK, Contexts
<1>3. \A field \in {"state", "command", "address", "blocks", "target",
                    "lun", "data_max"} : Stored[field] = ctx[field]
  BY <1>1 DEF Stored, Selected, Contexts
<1> QED BY <1>1, <1>2, <1>3 DEF Selected, Contexts, Stored

\* Counting a transfer down stays in the types because OnDisk holds.
LEMMA NextBlockOK ==
  ASSUME NEW c, Selected(c), OnDisk(c)
  PROVE  /\ Selected(NextBlock(c)) /\ NextBlock(c).io = c.io
         /\ NextBlock(c).seq = 0 /\ NextBlock(c).state = c.state
         /\ NextBlock(c).command = c.command
         /\ NextBlock(c).data_max = c.data_max
         /\ NextBlock(c).address \in Nat /\ NextBlock(c).blocks \in Nat
<1>1. c.blocks - 1 \in Nat /\ c.address + 1 \in Nat
  BY DEF Selected, Contexts, OnDisk
<1> QED BY <1>1, Indices DEF Selected, Contexts, NextBlock

LEMMA AckDataOutOK ==
  ASSUME IInv, AckDataOut
  PROVE  IInv'
<1>1. ctx.state = "DATAOUT"
  BY DEF AckDataOut, AckDataOutByte, WriteBlock, FormatList, AckReassignData,
         LastDataOf
<1>2. /\ Selected(Stored) /\ ~Stored.io /\ Stored.seq = ctx.seq + 1
      /\ Stored.state = "DATAOUT" /\ Stored.command = ctx.command
      /\ Stored.address = ctx.address /\ Stored.blocks = ctx.blocks
      /\ Stored.data_max = ctx.data_max /\ Unit(Stored) = Unit(ctx)
  BY <1>1, StoredOK DEF Unit
<1>3. Moving(ctx) => OnDisk(ctx)
  BY DEF IInv, ContextOK
<1>4. CASE AckDataOutByte
  <2>1. ContextOK(Stored)
    BY <1>1, <1>2, <1>3, <1>4
       DEF AckDataOutByte, Selected, ContextOK, Moving, Reading, Writing,
           OnDisk
  <2> QED BY <1>4, <2>1, NextState DEF AckDataOutByte, IInv, DiskOK
<1>5. CASE WriteBlock
  <2>1. OnDisk(Stored)
    BY <1>1, <1>2, <1>3, <1>5
       DEF WriteBlock, LastDataOf, Moving, Writing, OnDisk
  <2>2. CASE ctx' = WriteFault(Stored) /\ UNCHANGED disk
    BY <1>2, <2>2, ChecksOK, NextState DEF IInv, DiskOK
  <2>3. CASE /\ Present(ctx)
             /\ \E dirty \in {TRUE, disk[Unit(ctx)].dirty} :
                  disk' = [disk EXCEPT ![Unit(ctx)].dirty = dirty,
                                       ![Unit(ctx)].latched = FALSE]
             /\ ctx' = WriteFault(Stored)
    <3>1. disk' \in [Units -> Disks]
      BY ZenonT(60), <2>3 DEF Present, IInv, DiskOK
    <3> QED BY <1>2, <2>3, <3>1, ChecksOK, NextState
  <2>4. CASE /\ Present(ctx) /\ WriteSector(ctx)
             /\ ctx' = AfterWrite(NextBlock(Stored))
    <3> DEFINE c == NextBlock(Stored)
    <3>1. /\ Selected(c) /\ ~c.io /\ c.seq = 0 /\ c.state = "DATAOUT"
          /\ c.command = ctx.command /\ c.data_max = ctx.data_max
          /\ c.address \in Nat /\ c.blocks \in Nat
      BY <1>2, <2>1, NextBlockOK
    <3>2. disk' \in [Units -> Disks]
      BY <2>4, WriteSectorOK DEF IInv
    <3>3. ctx.data_max > 0
      BY <1>1 DEF IInv, ContextOK, Contexts
    <3> HIDE DEF c
    <3>4. CASE c.blocks = 0
      BY <2>4, <3>1, <3>2, <3>4, GoodOK, NextState DEF AfterWrite, c
    <3>5. CASE c.blocks # 0 /\ c.address >= MaxSize(c)
      BY <2>4, <3>1, <3>2, <3>5, ChecksOK, NextState DEF AfterWrite, c
    <3>6. CASE c.blocks # 0 /\ ~(c.address >= MaxSize(c))
      <4>1. MaxSize(c) \in Nat
        BY UnitsAssumption DEF MaxSize, Present
      <4>2. OnDisk(c)
        BY <3>1, <3>6, <4>1, SizeOK DEF OnDisk
      <4>3. ContextOK(c)
        BY <3>1, <3>3, <4>2 DEF Selected, ContextOK, Moving
      <4> QED BY <2>4, <3>2, <3>6, <4>3, NextState DEF AfterWrite, c
    <3> QED BY <3>4, <3>5, <3>6
  <2> QED BY <1>5, <2>2, <2>3, <2>4 DEF WriteBlock
<1>6. CASE FormatList
  <2>1. CASE Format(Stored)
    BY <1>2, <2>1, FormatOK
  <2>2. CASE ctx' = BadList(Stored) /\ UNCHANGED disk
    BY <1>2, <2>2, ChecksOK, NextState DEF IInv, DiskOK
  <2> QED BY <1>6, <2>1, <2>2 DEF FormatList
<1>7. CASE AckReassignData
  <2>1. disk' \in [Units -> Disks]
    BY <1>7 DEF AckReassignData, IInv, DiskOK
  <2>2. CASE ctx' = Good(Stored)
    BY <1>2, <2>1, <2>2, GoodOK, NextState
  <2>3. CASE /\ ctx.seq + 1 = HeaderBytes
             /\ \E length \in Lengths : ctx' = ReassignList(Stored, length)
    <3>1. PICK length \in Lengths : ctx' = ReassignList(Stored, length)
      BY <2>3
    <3>2. CASE length + HeaderBytes > BufBytes
      BY <1>2, <2>1, <3>1, <3>2, ChecksOK, NextState DEF ReassignList
    <3>3. CASE length + HeaderBytes <= BufBytes /\ length = 0
      <4>1. HeaderBytes \in 0 .. BufBytes
        BY BytesAssumption
      <4>2. Selected([Stored EXCEPT !.data_max = HeaderBytes])
        BY <1>2, <4>1 DEF Selected, Contexts
      <4>3. ctx' = Good([Stored EXCEPT !.data_max = HeaderBytes])
        BY <3>1, <3>3, BytesAssumption DEF ReassignList
      <4> QED BY <2>1, <4>2, <4>3, GoodOK, NextState
    <3>4. CASE length + HeaderBytes <= BufBytes /\ length # 0
      <4>1. /\ length + HeaderBytes \in 0 .. BufBytes
            /\ HeaderBytes < length + HeaderBytes
        BY <3>4, InputsAssumption, BytesAssumption
      <4> DEFINE d == [Stored EXCEPT !.data_max = length + HeaderBytes]
      <4>2. d \in Contexts /\ ctx' = d
        BY <1>2, <3>1, <3>4, <4>1, BytesAssumption
           DEF Selected, Contexts, ReassignList
      <4>3. /\ d.state = "DATAOUT" /\ ~d.io /\ d.seq = HeaderBytes
            /\ d.data_max = length + HeaderBytes
            /\ d.command = ctx.command /\ d.req /\ d.bsyo
            /\ d.target \in Targets
        BY <1>2, <2>3 DEF Selected, Contexts
      <4>4. ~Moving(d)
        BY <1>7, <4>3 DEF AckReassignData, LastDataOf, Moving, Writing,
                          Reading, Writes
      <4> HIDE DEF d
      <4>5. ContextOK(d)
        BY <4>1, <4>2, <4>3, <4>4 DEF ContextOK
      <4> QED BY <2>1, <4>2, <4>5, NextState
    <3> QED BY <3>2, <3>3, <3>4, InputsAssumption, BytesAssumption
  <2> QED BY <1>7, <2>2, <2>3 DEF AckReassignData
<1> QED BY <1>4, <1>5, <1>6, <1>7 DEF AckDataOut

LEMMA AckDataInByteOK ==
  ASSUME IInv, AckDataInByte
  PROVE  IInv'
<1>1. ctx.seq + 1 \in 0 .. BufBytes
  BY BytesAssumption DEF AckDataInByte, IInv, ContextOK, Contexts
<1>2. ctx' = [ctx EXCEPT !.seq = @ + 1] /\ ctx.state = "DATAIN"
  BY DEF AckDataInByte
<1>3. ctx' \in Contexts
  BY <1>1, <1>2 DEF IInv, ContextOK, Contexts
<1>4. ContextOK(ctx')
  BY <1>1, <1>2, <1>3
     DEF AckDataInByte, IInv, ContextOK, Contexts, Moving, Reading, Writing,
         OnDisk, Unit
<1> QED BY <1>4, NextState DEF AckDataInByte, IInv, DiskOK

LEMMA ReadBlockOK ==
  ASSUME IInv, ReadBlock
  PROVE  IInv'
<1> DEFINE c == NextBlock(ctx)
<1>1. Selected(ctx) /\ OnDisk(ctx)
  BY SelectedOK DEF ReadBlock, IInv, ContextOK, Moving, Reading
<1>2. /\ Selected(c) /\ c.address \in Nat /\ c.blocks \in Nat
      /\ BufBytes \in 0 .. BufBytes
  BY <1>1, NextBlockOK, BytesAssumption
<1>3. /\ \/ c.blocks = 0 /\ ctx' = Good(c)
         \/ c.blocks # 0 /\ c.address >= MaxSize(c) /\ ctx' = OutOfRange(c)
         \/ c.blocks # 0 /\ c.address < MaxSize(c)
              /\ ctx' \in {DataIn(c, BufBytes), ReadError(c)}
      /\ UNCHANGED disk
  BY DEF ReadBlock
<1> HIDE DEF c
<1>4. CASE ctx' \in {Good(c), OutOfRange(c), ReadError(c)}
  BY <1>2, <1>3, <1>4, GoodOK, ChecksOK, NextState DEF IInv, DiskOK
<1>5. CASE /\ c.blocks # 0 /\ c.address < MaxSize(c)
           /\ ctx' = DataIn(c, BufBytes)
  <2>1. OnDisk(c)
    BY <1>2, <1>5, SizeOK DEF OnDisk
  <2> QED BY <1>2, <1>3, <1>5, <2>1, DataInOK, NextState DEF IInv, DiskOK
<1> QED BY <1>3, <1>4, <1>5

LEMMA AckDataInEndOK ==
  ASSUME IInv, AckDataInEnd
  PROVE  IInv'
<1>1. Selected(ctx)
  BY SelectedOK DEF AckDataInEnd
<1> QED BY <1>1, GoodOK, NextState DEF AckDataInEnd, IInv, DiskOK

LEMMA AckStatusOK ==
  ASSUME IInv, AckStatus
  PROVE  IInv'
<1>1. Selected(ctx) /\ StatusByte \in Commands
  BY SelectedOK
     DEF AckStatus, StatusByte, Commands, ShortCommands, Unknown
<1>2. CASE ctx.link
  BY <1>1, <1>2, OpcodeOK, NextState DEF AckStatus, IInv, DiskOK
<1>3. CASE ~ctx.link
  <2>1. ctx' = BusFree(ctx)
    BY <1>3 DEF AckStatus
  <2>2. ContextOK(ctx')
    BY <1>1, <1>3, <2>1
       DEF BusFree, Selected, ContextOK, Contexts, States, Moving, Reading,
           Writing
  <2> QED BY <2>2, NextState DEF AckStatus, IInv, DiskOK
<1> QED BY <1>2, <1>3

-----------------------------------------------------------------------------
(* The bus lines and the images                                            *)

LEMMA BusLinesOK ==
  ASSUME IInv, BusLines
  PROVE  IInv'
<1>1. disk' \in [Units -> Disks]
  BY DEF BusLines, Reset, Select, SelectNobody, RaiseSel, DropSel, IInv,
         DiskOK
<1>2. ctx \in Contexts /\ ContextOK(ctx)
  BY DEF IInv, ContextOK
<1>3. CASE Reset
  <2>1. /\ ctx' \in Contexts
        /\ ctx'.state = "BUSFREE" /\ ~ctx'.io /\ ~ctx'.req /\ ~ctx'.bsyo
        /\ ~ctx'.link
    <3>1. /\ "BUSFREE" \in States
          /\ NoTarget \in Targets \union {NoTarget}
          /\ CmdBufBytes \in {ShortCdb, LongCdb, CmdBufBytes}
      BY DEF States
    <3> QED BY <1>2, <1>3, <3>1, Indices DEF Reset, Contexts
  <2>2. ContextOK(ctx')
    BY <2>1 DEF ContextOK, Moving, Reading, Writing
  <2> QED BY <1>1, <2>2, NextState
<1>4. CASE \E t \in Targets : Select(t)
  <2>1. /\ ctx' \in Contexts /\ ctx'.target \in Targets
        /\ ctx'.state = "BUSFREE" /\ ~ctx'.io /\ ~ctx'.req /\ ~ctx'.link
        /\ ctx'.seq = 0
    <3>1. PICK t \in Targets : Select(t)
      BY <1>4
    <3>2. ctx.state = "BUSFREE" /\ ~ctx.io /\ ~ctx.link
      BY <1>2, <3>1 DEF Select, ContextOK
    <3>3. t \in Targets \union {NoTarget}
      OBVIOUS
    <3> QED BY <1>2, <3>1, <3>2, <3>3, Indices DEF Select, Contexts
  <2>2. ContextOK(ctx')
    BY <2>1 DEF ContextOK, Moving, Reading, Writing
  <2> QED BY <1>1, <2>2, NextState
<1>5. CASE SelectNobody
  <2>1. /\ ctx' \in Contexts /\ ~ctx'.bsyo
        /\ ctx'.state = "BUSFREE" /\ ~ctx'.io /\ ~ctx'.req /\ ~ctx'.link
    <3>1. /\ NoTarget \in Targets \union {NoTarget}
          /\ CmdBufBytes \in {ShortCdb, LongCdb, CmdBufBytes}
      OBVIOUS
    <3>2. ctx.state = "BUSFREE" /\ ~ctx.io /\ ~ctx.req /\ ~ctx.link
      BY <1>2, <1>5 DEF SelectNobody, ContextOK
    <3> QED BY <1>2, <1>5, <3>1, <3>2 DEF SelectNobody, Contexts
  <2>2. ContextOK(ctx')
    BY <2>1 DEF ContextOK, Moving, Reading, Writing
  <2> QED BY <1>1, <2>2, NextState
<1>6. CASE RaiseSel
  <2>1. ContextOK(ctx')
    BY <1>2, <1>6 DEF RaiseSel, ContextOK, Contexts, Moving, Reading,
                      Writing, OnDisk, Unit
  <2> QED BY <1>1, <2>1, NextState
<1>7. CASE DropSel
  <2>1. CASE ctx.state = "BUSFREE" /\ ctx.bsyo
    <3>1. ctx' = [ctx EXCEPT !.sel = FALSE, !.state = "COMMAND",
                             !.cmd_size = CmdBufBytes, !.req = TRUE]
      BY <1>7, <2>1 DEF DropSel
    <3>2. ctx' \in Contexts
      BY <1>2, <3>1 DEF Contexts, States
    <3>3. ctx.seq = 0
      BY <1>2, <2>1 DEF ContextOK
    <3>4. ContextOK(ctx')
      BY <1>2, <2>1, <3>1, <3>2, <3>3, BytesAssumption
         DEF ContextOK, Contexts, Moving, Reading, Writing
    <3> QED BY <1>1, <3>4, NextState
  <2>2. CASE ~(ctx.state = "BUSFREE" /\ ctx.bsyo)
    <3>1. ctx' = [ctx EXCEPT !.sel = FALSE]
      BY <1>7, <2>2 DEF DropSel
    <3>2. ContextOK(ctx')
      BY <1>2, <3>1 DEF ContextOK, Contexts, Moving, Reading, Writing,
                        OnDisk, Unit
    <3> QED BY <1>1, <3>2, NextState
  <2> QED BY <2>1, <2>2
<1> QED BY <1>3, <1>4, <1>5, <1>6, <1>7 DEF BusLines

LEMMA ImagesOK ==
  ASSUME IInv, Images
  PROVE  IInv'
<1>1. ctx' = ctx
  BY DEF Images, FlushSucceeds, FlushFails, RemoveDisk0
<1>2. disk' \in [Units -> Disks]
  <2>1. CASE \E u \in Units : FlushSucceeds(u) \/ FlushFails(u)
    BY <2>1 DEF FlushSucceeds, FlushFails, IInv, DiskOK
  <2>2. CASE RemoveDisk0
    <3>1. disk[<<0, 0>>] \in Disks /\ <<0, 0>> \in Units
      BY <2>2 DEF RemoveDisk0, IInv, DiskOK
    <3> QED BY <2>2, <3>1 DEF RemoveDisk0, IInv, DiskOK
  <2> QED BY <2>1, <2>2 DEF Images
<1> QED BY <1>1, <1>2, NextState DEF IInv

-----------------------------------------------------------------------------
(* The invariants                                                          *)

LEMMA InitOK == Init => IInv
<1> SUFFICES ASSUME Init PROVE IInv
  OBVIOUS
<1>1. /\ ctx.state = "BUSFREE" /\ ~ctx.io /\ ~ctx.req /\ ~ctx.bsyo
      /\ ~ctx.link
  BY DEF Init
<1>2. ctx \in Contexts
  <2>1. /\ "BUSFREE" \in States /\ "NOSENSE" \in SenseKeys
        /\ "none" \in SenseCodes /\ "TEST_UNIT_READY" \in Commands
        /\ NoTarget \in Targets \union {NoTarget}
        /\ CmdBufBytes \in {ShortCdb, LongCdb, CmdBufBytes}
    BY DEF States, SenseKeys, SenseCodes, Commands, ShortCommands
  <2> QED BY <2>1, Indices, UnitsAssumption DEF Init, Contexts
<1>3. DiskOK
  BY UnitsAssumption DEF Init, DiskOK
<1> QED BY <1>1, <1>2, <1>3
        DEF IInv, ContextOK, Moving, Reading, Writing

\* IInv is inductive: one lemma for each group of actions.
THEOREM Inductive == Spec => []IInv
<1>1. IInv /\ [Next]_vars => IInv'
  <2> SUFFICES ASSUME IInv, [Next]_vars PROVE IInv'
    OBVIOUS
  <2>1. CASE Next
    BY <2>1, BusLinesOK, ImagesOK, AckCommandOK, AckDataOutOK,
       AckDataInByteOK, ReadBlockOK, AckDataInEndOK, AckStatusOK
       DEF Next, Ack
  <2>2. CASE UNCHANGED vars
    BY <2>2, NextState DEF vars, IInv, DiskOK
  <2> QED BY <2>1, <2>2
<1> QED BY <1>1, InitOK, PTL DEF Spec

\* Every field of the context and of the images keeps its type: no count wraps
\* and no index leaves its buffer, for any sizes.
THEOREM TypeCorrect == Spec => []TypeOK
<1>1. IInv => TypeOK
  BY DEF IInv, ContextOK, DiskOK, TypeOK
<1> QED BY <1>1, Inductive, PTL

\* The bus lines always agree with the phase, after any RST and any SEL.
THEOREM LinesCorrect == Spec => []LinesFollowPhase
<1>1. IInv => LinesFollowPhase
  BY DEF IInv, ContextOK, LinesFollowPhase
<1> QED BY <1>1, Inductive, PTL

\* No ACK of any initiator stores or fetches a byte outside its buffer, and
\* transfers of any length stay on the disk.
THEOREM NothingStrays == Spec => []InBounds
<1>1. IInv => InsideBuffers
  BY BytesAssumption DEF IInv, ContextOK, Contexts, InsideBuffers
<1>2. IInv => TransferInRange
  BY DEF IInv, ContextOK, OnDisk, TransferInRange
<1>3. IInv => InBounds
  BY <1>1, <1>2 DEF InBounds
<1> QED BY <1>3, Inductive, PTL

-----------------------------------------------------------------------------
(* No latched error is dropped                                             *)

\* What ErrorIsTold says of a step.
Told ==
  \A u \in Units :
    disk[u].latched /\ ~disk'[u].latched =>
      /\ u = Unit(ctx') /\ ctx'.state = "STATUS"
      /\ ctx'.status = "CHECKCONDITION"
      /\ ctx'.sensekey = "MEDIUMERROR" /\ ctx'.asc = "WRITEFAULT"

\* The one way to take an error, and the answer that goes with it.
LEMMA TakingTells ==
  ASSUME DiskOK, NEW c \in Contexts, Present(c), ctx' = WriteFault(c),
         NEW dirty,
         disk' = [disk EXCEPT ![Unit(c)].dirty = dirty,
                              ![Unit(c)].latched = FALSE]
  PROVE  Told
<1>1. /\ Unit(ctx') = Unit(c) /\ ctx'.state = "STATUS"
      /\ ctx'.status = "CHECKCONDITION"
      /\ ctx'.sensekey = "MEDIUMERROR" /\ ctx'.asc = "WRITEFAULT"
  BY DEF WriteFault, Check, Contexts, Unit
<1>2. \A u \in Units : u # Unit(c) => disk'[u] = disk[u]
  BY DEF DiskOK, Present
<1> QED BY <1>1, <1>2 DEF Told

LEMMA TakeTells ==
  ASSUME DiskOK, NEW c \in Contexts, Present(c), ctx' = WriteFault(c),
         TakeWriteError(c)
  PROVE  Told
<1>1. disk' = [disk EXCEPT ![Unit(c)].dirty = disk[Unit(c)].dirty,
                           ![Unit(c)].latched = FALSE]
  BY DEF DiskOK, Present, TakeWriteError
<1> QED BY <1>1, TakingTells

LEMMA SameTells == UNCHANGED disk => Told
BY DEF Told

LEMMA WriteSectorTells ==
  ASSUME DiskOK, NEW c, WriteSector(c)
  PROVE  Told
BY DEF DiskOK, WriteSector, Told

LEMMA FormatTells ==
  ASSUME DiskOK, NEW c, Format(c)
  PROVE  Told
<1>1. UNCHANGED disk \/ \E d : WriteSector(d)
  BY DEF Format
<1> QED BY <1>1, SameTells, WriteSectorTells

LEMMA ReadTells ==
  ASSUME IInv, NEW c, Selected(c), Read(c)
  PROVE  Told
<1>1. PICK address \in Addresses, length \in Lengths :
        LET d == Transfer(c, address, length) IN
        \/ Present(d) /\ ctx' = WriteFault(d) /\ TakeWriteError(d)
        \/ UNCHANGED disk
  BY DEF Read
<1> DEFINE d == Transfer(c, address, length)
<1>2. d \in Contexts
  BY TransferOK DEF Selected
<1> HIDE DEF d
<1>3. \/ Present(d) /\ ctx' = WriteFault(d) /\ TakeWriteError(d)
      \/ UNCHANGED disk
  BY <1>1 DEF d
<1> QED BY <1>2, <1>3, TakeTells, SameTells DEF IInv

LEMMA VerifyTells ==
  ASSUME IInv, NEW c, Selected(c), Verify(c)
  PROVE  Told
<1>1. PICK address \in Addresses, length \in Lengths :
        LET d == [c EXCEPT !.address = address, !.blocks = length] IN
        \/ UNCHANGED disk
        \/ Present(d) /\ ctx' = WriteFault(d) /\ TakeWriteError(d)
        \/ Present(d) /\ VerifyBlocks(d)
  BY ZenonT(30) DEF Verify, Deferred
<1> DEFINE d == [c EXCEPT !.address = address, !.blocks = length]
<1>2. d \in Contexts
  <2>1. address \in Nat /\ length \in Nat
    BY InputsAssumption
  <2> QED BY <2>1 DEF Selected, Contexts
<1> HIDE DEF d
<1>3. \/ UNCHANGED disk
      \/ Present(d) /\ ctx' = WriteFault(d) /\ TakeWriteError(d)
      \/ Present(d) /\ VerifyBlocks(d)
  BY <1>1 DEF d
<1>4. CASE VerifyBlocks(d) /\ Present(d)
  BY <1>4 DEF VerifyBlocks, Present, Told, IInv, DiskOK
<1> QED BY <1>2, <1>3, <1>4, TakeTells, SameTells DEF IInv

LEMMA AckCommandTells ==
  ASSUME IInv, AckCommand
  PROVE  Told
<1>1. CASE (\E op \in Opcodes : AckOpcode(op)) \/ AckCdbByte \/ ReassignBlocks
  BY <1>1, SameTells DEF AckOpcode, AckCdbByte, ReassignBlocks
<1>2. CASE \E lun \in Luns, link \in Links :
             LET c == Cdb(lun, link) IN
             \/ TestUnitReady(c) \/ RequestSense(c) \/ Read(c) \/ Write(c)
             \/ Inquiry(c) \/ ReadCapacity(c) \/ ModeSense(c)
             \/ FormatUnit(c) \/ DoNothing(c) \/ Verify(c)
  <2>1. PICK lun \in Luns, link \in Links :
             LET c == Cdb(lun, link) IN
             \/ TestUnitReady(c) \/ RequestSense(c) \/ Read(c) \/ Write(c)
             \/ Inquiry(c) \/ ReadCapacity(c) \/ ModeSense(c)
             \/ FormatUnit(c) \/ DoNothing(c) \/ Verify(c)
    BY <1>2
  <2> DEFINE c == Cdb(lun, link)
  <2>2. PICK commands : LastByteOf(commands)
    BY <2>1 DEF TestUnitReady, RequestSense, Read, Write, Inquiry,
                ReadCapacity, ModeSense, FormatUnit, DoNothing, Verify
  <2>3. Selected(c) /\ c \in Contexts
    BY <2>2, CdbOK DEF Selected
  <2> HIDE DEF c
  <2>4. CASE TestUnitReady(c)
    BY <2>3, <2>4, TakeTells, SameTells DEF TestUnitReady, Deferred, IInv
  <2>5. CASE Read(c)
    BY <2>3, <2>5, ReadTells
  <2>6. CASE FormatUnit(c)
    BY <2>6, FormatTells, SameTells DEF FormatUnit, IInv
  <2>7. CASE Verify(c)
    BY <2>3, <2>7, VerifyTells
  <2>8. CASE \/ RequestSense(c) \/ Write(c) \/ Inquiry(c) \/ ReadCapacity(c)
             \/ ModeSense(c) \/ DoNothing(c)
    BY <2>8, SameTells DEF RequestSense, Write, Inquiry, ReadCapacity,
                           ModeSense, DoNothing
  <2> QED BY <2>1, <2>4, <2>5, <2>6, <2>7, <2>8 DEF c
<1> QED BY <1>1, <1>2 DEF AckCommand

LEMMA AckDataOutTells ==
  ASSUME IInv, AckDataOut
  PROVE  Told
<1>1. CASE WriteBlock
  <2>1. Stored \in Contexts /\ Unit(Stored) = Unit(ctx)
    BY <1>1, StoredOK DEF WriteBlock, LastDataOf, Selected, Unit
  <2>2. CASE UNCHANGED disk \/ WriteSector(ctx)
    BY <2>2, SameTells, WriteSectorTells DEF IInv
  <2>3. CASE /\ Present(ctx) /\ ctx' = WriteFault(Stored)
             /\ \E dirty \in {TRUE, disk[Unit(ctx)].dirty} :
                  disk' = [disk EXCEPT ![Unit(ctx)].dirty = dirty,
                                       ![Unit(ctx)].latched = FALSE]
    BY <2>1, <2>3, TakingTells DEF IInv, Present
  <2> QED BY <1>1, <2>2, <2>3 DEF WriteBlock
<1>2. CASE FormatList
  BY <1>2, FormatTells, SameTells DEF FormatList, IInv
<1>3. CASE AckDataOutByte \/ AckReassignData
  BY <1>3, SameTells DEF AckDataOutByte, AckReassignData
<1> QED BY <1>1, <1>2, <1>3 DEF AckDataOut

LEMMA ImagesTell ==
  ASSUME IInv, Images
  PROVE  Told
BY SMTT(30) DEF Images, FlushSucceeds, FlushFails, RemoveDisk0, Told, IInv, DiskOK

\* A write error that was latched for an image is never dropped: it leaves the
\* latch only as the CHECK CONDITION of a command to that image.
THEOREM ErrorsAreTold == Spec => ErrorIsTold
<1>1. IInv /\ [Next]_vars => [Told]_vars
  <2> SUFFICES ASSUME IInv, Next PROVE Told
    OBVIOUS
  <2>1. CASE \/ BusLines \/ AckDataInByte \/ ReadBlock \/ AckDataInEnd
             \/ AckStatus
    BY <2>1, SameTells
       DEF BusLines, Reset, Select, SelectNobody, RaiseSel, DropSel,
           AckDataInByte, ReadBlock, AckDataInEnd, AckStatus
  <2> QED BY <2>1, AckCommandTells, AckDataOutTells, ImagesTell DEF Next, Ack
<1> QED BY <1>1, Inductive, PTL DEF Spec, ErrorIsTold, Told

-----------------------------------------------------------------------------
(* Transfers count right                                                   *)

\* What BlocksMove says of a step.
Counted ==
  Moving(ctx) =>
    /\ Moving(ctx') => ctx'.address + ctx'.blocks = ctx.address + ctx.blocks
    /\ ctx'.state = "STATUS" /\ ctx'.status = "GOOD" => ctx'.blocks = 0

LEMMA ChecksSay ==
  ASSUME NEW c \in Contexts,
         ctx' \in {NotReady(c), OutOfRange(c), WriteFault(c), ReadError(c),
                   BadCdb(c), BadList(c)}
  PROVE  ctx'.state = "STATUS" /\ ctx'.status = "CHECKCONDITION"
BY DEF NotReady, OutOfRange, WriteFault, ReadError, BadCdb, BadList, Check,
       Contexts

\* An answer that is not GOOD ends a transfer, whatever is left of it.
LEMMA CheckCounts ==
  ASSUME NEW c \in Contexts,
         ctx' \in {NotReady(c), OutOfRange(c), WriteFault(c), ReadError(c),
                   BadCdb(c), BadList(c)}
  PROVE  Counted
BY ChecksSay DEF Counted, Moving, Reading, Writing

\* A step that leaves the count, the address and the phase alone.
LEMMA SameCounts ==
  ASSUME ctx'.address = ctx.address, ctx'.blocks = ctx.blocks,
         ctx'.state = ctx.state
  PROVE  Counted
BY DEF Counted, Moving, Reading, Writing

\* The next block is counted off, and the last one leaves none.
LEMMA NextCounts ==
  ASSUME NEW c \in Contexts, Selected(c), OnDisk(c),
         c.address = ctx.address, c.blocks = ctx.blocks,
         NEW d, d.address = NextBlock(c).address,
         d.blocks = NextBlock(c).blocks, ctx' = d,
         d.state = "STATUS" => d.blocks = 0 \/ d.status = "CHECKCONDITION"
  PROVE  Counted
<1>1. d.address + d.blocks = ctx.address + ctx.blocks
  BY DEF NextBlock, Contexts, OnDisk
<1> QED BY <1>1 DEF Counted

LEMMA AckDataOutCounts ==
  ASSUME IInv, AckDataOut
  PROVE  Counted
<1>1. ctx.state = "DATAOUT"
  BY DEF AckDataOut, AckDataOutByte, WriteBlock, FormatList, AckReassignData,
         LastDataOf
<1>2. /\ Selected(Stored) /\ Stored \in Contexts /\ Stored.state = "DATAOUT"
      /\ Stored.address = ctx.address /\ Stored.blocks = ctx.blocks
      /\ Unit(Stored) = Unit(ctx)
  BY <1>1, StoredOK DEF Unit, Selected
<1>3. CASE AckDataOutByte
  BY <1>1, <1>2, <1>3, SameCounts DEF AckDataOutByte
<1>4. CASE WriteBlock
  <2>1. OnDisk(Stored)
    BY <1>1, <1>2, <1>4
       DEF WriteBlock, LastDataOf, IInv, ContextOK, Moving, Writing, OnDisk
  <2> DEFINE c == NextBlock(Stored)
  <2>2. c \in Contexts /\ c.state = "DATAOUT"
    BY <1>2, <2>1, NextBlockOK DEF Selected
  <2>3. CASE ctx' = WriteFault(Stored)
    BY <1>2, <2>3, CheckCounts
  <2>4. CASE ctx' = AfterWrite(c)
    <3> HIDE DEF c
    <3>1. CASE c.blocks = 0
      <4>1. /\ ctx'.address = c.address /\ ctx'.blocks = c.blocks
        BY <2>2, <2>4, <3>1 DEF AfterWrite, Good, Contexts
      <4> QED BY <1>2, <2>1, <3>1, <4>1, NextCounts DEF c
    <3>2. CASE c.blocks # 0 /\ c.address >= MaxSize(c)
      BY <2>2, <2>4, <3>2, CheckCounts DEF AfterWrite
    <3>3. CASE ctx' = c
      BY <1>2, <2>1, <2>2, <3>3, NextCounts DEF c
    <3> QED BY <2>4, <3>1, <3>2, <3>3 DEF AfterWrite
  <2> QED BY <1>4, <2>3, <2>4 DEF WriteBlock
<1>5. CASE FormatList \/ AckReassignData
  BY <1>1, <1>5
     DEF FormatList, AckReassignData, LastDataOf, Writes, Counted, Moving,
         Reading, Writing
<1> QED BY <1>3, <1>4, <1>5 DEF AckDataOut

LEMMA ReadBlockCounts ==
  ASSUME IInv, ReadBlock
  PROVE  Counted
<1> DEFINE c == NextBlock(ctx)
<1>1. Selected(ctx) /\ ctx \in Contexts /\ OnDisk(ctx)
  BY SelectedOK DEF ReadBlock, IInv, ContextOK, Moving, Reading
<1>2. c \in Contexts
  BY <1>1, NextBlockOK DEF Selected
<1>3. \/ c.blocks = 0 /\ ctx' = Good(c)
      \/ ctx' \in {OutOfRange(c), ReadError(c)}
      \/ ctx' = DataIn(c, BufBytes)
  BY DEF ReadBlock
<1>4. CASE c.blocks = 0 /\ ctx' = Good(c)
  <2>1. ctx'.address = c.address /\ ctx'.blocks = c.blocks
    BY <1>2, <1>4 DEF Good, Contexts
  <2> QED BY <1>1, <1>4, <2>1, NextCounts
<1>5. CASE ctx' \in {OutOfRange(c), ReadError(c)}
  BY <1>2, <1>5, CheckCounts
<1>6. CASE ctx' = DataIn(c, BufBytes)
  <2>1. /\ ctx'.address = c.address /\ ctx'.blocks = c.blocks
        /\ ctx'.state = "DATAIN"
    BY <1>2, <1>6, BytesAssumption DEF DataIn, Contexts
  <2> QED BY <1>1, <2>1, NextCounts
<1> QED BY <1>3, <1>4, <1>5, <1>6

LEMMA BusLinesCount ==
  ASSUME IInv, BusLines
  PROVE  Counted
<1>1. CASE Reset
  BY <1>1 DEF Reset, Counted, Moving, Reading, Writing, IInv, ContextOK,
              Contexts
<1>2. CASE SelectNobody \/ \E t \in Targets : Select(t)
  BY <1>2 DEF SelectNobody, Select, Counted, Moving, Reading, Writing
<1>3. CASE RaiseSel
  BY <1>3, SameCounts DEF RaiseSel, IInv, ContextOK, Contexts
<1>4. CASE DropSel
  <2>1. CASE ctx.state = "BUSFREE"
    BY <2>1 DEF Counted, Moving, Reading, Writing
  <2>2. CASE ctx.state # "BUSFREE"
    BY <1>4, <2>2, SameCounts DEF DropSel, IInv, ContextOK, Contexts
  <2> QED BY <2>1, <2>2
<1> QED BY <1>1, <1>2, <1>3, <1>4 DEF BusLines

LEMMA CommandPhase ==
  ASSUME AckCommand
  PROVE  ctx.state = "COMMAND"
<1>1. ASSUME NEW c, \/ TestUnitReady(c) \/ RequestSense(c) \/ Read(c)
                    \/ Write(c) \/ Inquiry(c) \/ ReadCapacity(c)
                    \/ ModeSense(c) \/ FormatUnit(c) \/ DoNothing(c)
                    \/ Verify(c)
      PROVE  ctx.state = "COMMAND"
  <2>1. PICK commands : LastByteOf(commands)
    BY <1>1 DEF TestUnitReady, RequestSense, Read, Write, Inquiry,
                ReadCapacity, ModeSense, FormatUnit, DoNothing, Verify
  <2> QED BY <2>1 DEF LastByteOf
<1>2. CASE (\E op \in Opcodes : AckOpcode(op)) \/ AckCdbByte \/ ReassignBlocks
  BY <1>2 DEF AckOpcode, AckCdbByte, ReassignBlocks, LastByteOf
<1> QED BY <1>1, <1>2 DEF AckCommand

\* Of every transfer, whatever its length, its errors and the lines: each block
\* is counted once, the address goes with it, and GOOD comes with the last.
THEOREM TransfersCountRight == Spec => BlocksMove
<1>1. IInv /\ [Next]_vars => [Counted]_ctx
  <2> SUFFICES ASSUME IInv, Next PROVE Counted \/ UNCHANGED ctx
    BY DEF vars
  <2>1. CASE AckCommand \/ AckStatus
    <3>1. ctx.state \in {"COMMAND", "STATUS"}
      BY <2>1, CommandPhase DEF AckStatus
    <3> QED BY <3>1 DEF Counted, Moving, Reading, Writing
  <2>2. CASE AckDataInByte
    BY <2>2, SameCounts DEF AckDataInByte, IInv, ContextOK, Contexts
  <2>3. CASE AckDataInEnd
    BY <2>3 DEF AckDataInEnd, Counted, Moving, Reading, Writing
  <2>4. CASE Images
    BY <2>4 DEF Images, FlushSucceeds, FlushFails, RemoveDisk0
  <2> QED BY <2>1, <2>2, <2>3, <2>4, AckDataOutCounts, ReadBlockCounts,
             BusLinesCount DEF Next, Ack
<1> QED BY <1>1, Inductive, PTL DEF Spec, BlocksMove, Counted

-----------------------------------------------------------------------------
(* VERIFY looks at the card                                                *)

\* What VerifyMeansOnCard says of a step.
Looked ==
  Answers({"VERIFY"}) /\ ctx'.status = "GOOD" => ~disk'[Unit(ctx')].dirty

LEMMA VerifyLooks ==
  ASSUME IInv, NEW c, Selected(c), Verify(c)
  PROVE  Looked
<1>1. PICK address \in Addresses, length \in Lengths :
        LET d == [c EXCEPT !.address = address, !.blocks = length] IN
        \/ ctx' \in {NotReady(d), OutOfRange(d), WriteFault(d), BadCdb(d)}
        \/ Present(d) /\ VerifyBlocks(d)
  BY ZenonT(30) DEF Verify
<1> DEFINE d == [c EXCEPT !.address = address, !.blocks = length]
<1>2. d \in Contexts
  <2>1. address \in Nat /\ length \in Nat
    BY InputsAssumption
  <2> QED BY <2>1 DEF Selected, Contexts
<1> HIDE DEF d
<1>3. \/ ctx' \in {NotReady(d), OutOfRange(d), WriteFault(d), BadCdb(d)}
      \/ Present(d) /\ VerifyBlocks(d)
  BY <1>1 DEF d
<1>4. CASE ctx' \in {NotReady(d), OutOfRange(d), WriteFault(d), BadCdb(d),
                     ReadError(d)}
  <2>1. ctx'.status = "CHECKCONDITION"
    BY <1>2, <1>4, ChecksSay
  <2> QED BY <2>1 DEF Looked
<1>5. CASE /\ Present(d) /\ ctx' = Good(d)
           /\ disk' = [disk EXCEPT ![Unit(d)].dirty = FALSE]
  <2>1. Unit(ctx') = Unit(d)
    BY <1>2, <1>5 DEF Good, Contexts, Unit
  <2> QED BY <1>5, <2>1 DEF Present, Looked, IInv, DiskOK
<1> QED BY <1>3, <1>4, <1>5 DEF VerifyBlocks

LEMMA AckCommandLooks ==
  ASSUME IInv, AckCommand
  PROVE  Looked
<1>1. CASE \E op \in Opcodes : AckOpcode(op)
  BY <1>1 DEF AckOpcode, Looked, Answers, IInv, ContextOK, Contexts
<1>2. CASE AckCdbByte
  BY <1>2 DEF AckCdbByte, Looked, Answers, IInv, ContextOK, Contexts
<1>3. CASE ctx.command # "VERIFY"
  BY <1>3 DEF Looked, Answers
<1>4. CASE \E lun \in Luns, link \in Links : Verify(Cdb(lun, link))
  <2>1. PICK lun \in Luns, link \in Links : Verify(Cdb(lun, link))
    BY <1>4
  <2>2. Selected(Cdb(lun, link))
    BY <2>1, CdbOK DEF Verify
  <2> QED BY <2>1, <2>2, VerifyLooks
<1> QED
  <2>1. ASSUME NEW c, \/ TestUnitReady(c) \/ RequestSense(c) \/ Read(c)
                      \/ Write(c) \/ Inquiry(c) \/ ReadCapacity(c)
                      \/ ModeSense(c) \/ FormatUnit(c) \/ DoNothing(c)
        PROVE  ctx.command # "VERIFY"
    <3>1. CASE TestUnitReady(c) \/ RequestSense(c)
      BY <3>1 DEF TestUnitReady, RequestSense, LastByteOf
    <3>2. CASE Read(c) \/ Write(c)
      BY <3>2 DEF Read, Write, Reads, Writes, LastByteOf
    <3>3. CASE Inquiry(c) \/ ReadCapacity(c) \/ ModeSense(c)
      BY <3>3 DEF Inquiry, ReadCapacity, ModeSense, LastByteOf
    <3>4. CASE FormatUnit(c) \/ DoNothing(c)
      BY <3>4 DEF FormatUnit, DoNothing, LastByteOf
    <3> QED BY <2>1, <3>1, <3>2, <3>3, <3>4
  <2>2. CASE ReassignBlocks
    BY <1>3, <2>2 DEF ReassignBlocks, LastByteOf
  <2> QED BY <1>1, <1>2, <1>3, <1>4, <2>1, <2>2 DEF AckCommand

\* For every image, address and length: when VERIFY answers GOOD, nothing the
\* host wrote to that image is in the cache only.
THEOREM VerifyLooksAtTheCard == Spec => VerifyMeansOnCard
<1>1. IInv /\ [Next]_vars => [Looked]_vars
  <2> SUFFICES ASSUME IInv, Next PROVE Looked
    OBVIOUS
  <2>1. CASE AckCommand
    BY <2>1, AckCommandLooks
  <2>2. CASE AckDataOut \/ AckDataInByte \/ ReadBlock \/ AckDataInEnd
               \/ AckStatus
    BY <2>2 DEF AckDataOut, AckDataOutByte, WriteBlock, FormatList,
                AckReassignData, LastDataOf, AckDataInByte, ReadBlock,
                AckDataInEnd, AckStatus, Looked, Answers
  <2>3. CASE BusLines
    <3>1. CASE Reset
      BY <3>1 DEF Reset, Looked, Answers, IInv, ContextOK, Contexts
    <3>2. CASE SelectNobody \/ \E t \in Targets : Select(t)
      BY <3>2 DEF SelectNobody, Select, Looked, Answers
    <3>3. CASE ctx.state # "BUSFREE" /\ (RaiseSel \/ DropSel)
      BY <3>3 DEF RaiseSel, DropSel, Looked, Answers, IInv, ContextOK, Contexts
    <3>4. CASE ctx.state = "BUSFREE"
      BY <3>4 DEF Looked, Answers
    <3> QED BY <2>3, <3>1, <3>2, <3>3, <3>4 DEF BusLines
  <2>4. CASE Images
    BY <2>4 DEF Images, FlushSucceeds, FlushFails, RemoveDisk0, Looked,
                Answers, IInv, ContextOK, Contexts
  <2> QED BY <2>1, <2>2, <2>3, <2>4 DEF Next, Ack
<1> QED BY <1>1, Inductive, PTL DEF Spec, VerifyMeansOnCard, Looked

=============================================================================
