------------------------------- MODULE DriveMap -------------------------------
(***************************************************************************)
(* What the processor of the drive changes at its addresses: PiCMDHD::Read *)
(* and PiCMDHD::Write of src/emulation/picmdhd.cpp, for the memory, the    *)
(* latch U20 and the parallel port U11 (src/emulation/i8255a.cpp).  The    *)
(* VIAs are those of Via6522 and ScsiTarget, the clock is RealTimeClock.   *)
(*                                                                         *)
(* Port C of U11 switches the memory and drives three lines of the SCSI    *)
(* bus; port B reads the buttons.  Port A is connected to nothing and left *)
(* out.  A port is the set of its lines that are high.  A read of these    *)
(* parts changes nothing; ReadPort is what one of a port gives, the bytes  *)
(* read from the memory and the ROM, which PC0 shows over it, are left out.*)
(***************************************************************************)
EXTENDS Integers

CONSTANTS
  Addresses,        \* bound: the addresses of memory the program accesses
  Bytes             \* bound: the bytes it writes, sets of bits

Bits == 0 .. 7
ASSUME MapAssumption ==
  /\ \A a \in Addresses : a \in Nat /\ a < 65536
  /\ Bytes \subseteq SUBSET Bits

VARIABLES
  ram,              \* ram[]: the cells the accesses reach
  LEDs,             \* U20
  ctrl,             \* i8255a.ctrl: which ports are inputs
  latches,          \* i8255a.data[]
  i8255a_o          \* i8255a_o[2]: the lines of port C

mapVars == <<ram, LEDs, ctrl, latches, i8255a_o>>

K(n) == n * 4096
Low == 0 .. 3
High == 4 .. 7

\* Nothing drives port C from outside: the pull-ups and pull-downs, 0xe3.
PulledC == {0, 1, 5, 6, 7}

\* The lines of port B the buttons pull down; PB0, PB6 and PB7 read as 0.
ButtonLine == [WP |-> 3, SWAP8 |-> 1, SWAP9 |-> 2]
PortB(pressed) == (1 .. 5) \ {ButtonLine[b] : b \in pressed}

-----------------------------------------------------------------------------
(* U11.  Ports "b", and "l" and "h", the two halves of port C. *)

Halves == {"l", "h"}
LinesOf(half) == IF half = "l" THEN Low ELSE High

\* Port C: each half is its latch or what comes from outside.
PortC(inputs, latch) ==
  UNION {(IF h \in inputs THEN PulledC ELSE latch) \intersect LinesOf(h) :
           h \in Halves}

\* i8255a_reset: all ports are inputs, and their lines are passed on.
ResetU11 ==
  /\ ctrl' = {"b", "l", "h"}
  /\ latches' = [p \in {"b", "c"} |-> {}]
  /\ i8255a_o' = PulledC

\* A control word: the latches stay, and the lines follow at once.
SetMode(inputs) ==
  /\ ctrl' = inputs
  /\ i8255a_o' = PortC(inputs, latches["c"])
  /\ UNCHANGED latches

\* A control word without the mode bit, to set one bit of port C, is ignored.
SetBit == UNCHANGED <<ctrl, latches, i8255a_o>>

\* A port is written; only port C drives something.
WritePort(p, byte) ==
  /\ latches' = [latches EXCEPT ![p] = byte]
  /\ i8255a_o' = IF p = "c" /\ ~(Halves \subseteq ctrl) THEN PortC(ctrl, byte)
                 ELSE i8255a_o
  /\ UNCHANGED ctrl

\* What a read of a port gives when these buttons are pressed.
ReadPort(p, pressed) ==
  CASE p = "b" -> IF "b" \in ctrl THEN PortB(pressed) ELSE latches["b"]
    [] p = "c" -> PortC(ctrl, latches["c"])

-----------------------------------------------------------------------------
(* The memory. *)

RamMapped == 1 \in i8255a_o
WriteEnabled == 5 \in LEDs

Page(a) == a \div 256

Window(a) == K(4) <= a /\ a < K(8)

\* The cell of the memory behind an address; the window at 0x4000 shows the
\* memory under the ROM when PC1 is low.
CellOf(a) ==
  IF Window(a) THEN (a % K(4)) + (IF RamMapped THEN K(4) ELSE K(12)) ELSE a

\* Is the memory at this address open to writes?
Writable(a) == a < K(8) \/ Page(a) \in {142, 143} \/ WriteEnabled

\* A write to page 0x8f goes to U20 as well.
WriteMemory(a, byte) ==
  /\ ram' = IF Writable(a) THEN [ram EXCEPT ![CellOf(a)] = byte] ELSE ram
  /\ LEDs' = IF Page(a) = 143 THEN byte ELSE LEDs
  /\ UNCHANGED <<ctrl, latches, i8255a_o>>

\* The program accesses U11.
StoreU11 ==
  /\ \/ \E inputs \in SUBSET {"b", "l", "h"} : SetMode(inputs)
     \/ SetBit
     \/ \E p \in {"b", "c"}, byte \in Bytes : WritePort(p, byte)
  /\ UNCHANGED <<ram, LEDs>>

MapNext ==
  \/ \E a \in Addresses, byte \in Bytes : WriteMemory(a, byte)
  \/ StoreU11

\* What an access can reach.
Cells == Addresses \union {K(12) + (a % K(4)) : a \in {x \in Addresses : Window(x)}}

MapInit ==
  /\ ram = [c \in Cells |-> {}]
  /\ LEDs = {}
  /\ ctrl = {} /\ latches = [p \in {"b", "c"} |-> {}]
  /\ i8255a_o = {}

==============================================================================
