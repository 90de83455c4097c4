------------------------------ MODULE DriveBus ------------------------------
(***************************************************************************)
(* The CMD HD on the serial bus: the VIA U10 (Via6522), the lines it       *)
(* senses and drives (src/src/emulation/iec_bus.cpp, iec_bus.h), the part  *)
(* of PiCMDHD that ties them together and the pass of EmulateCMDHD that    *)
(* runs them, against a computer that moves the lines whenever it likes.   *)
(*                                                                         *)
(* A line is in a set when somebody pulls it low.  "pins" is what the      *)
(* drive's GPIOs pull, "host" what the computer pulls, "iec" the state of  *)
(* class IEC_Bus.  The two GPIO writes of one refresh are two steps: the   *)
(* computer can look between them.  "program" is the part of U10 the       *)
(* firmware uses in a behaviour; it is chosen once.                        *)
(***************************************************************************)
EXTENDS Via6522, FiniteSets

CONSTANTS Programs,    \* subset of {"atn", "lines", "t1", "t2", "receive", "send"}
          ResetLoops   \* passes with RESET low before the drive resets (10 in the code)

ASSUME BusAssumption ==
  /\ Programs \subseteq {"atn", "lines", "t1", "t2", "receive", "send"}
  /\ ResetLoops \in Nat

VARIABLES program,
          starting, \* is EmulateCMDHD on its way to its first pass?
          v,        \* the VIA U10
          iec,      \* class IEC_Bus
          pins,     \* lines the drive pulls
          host,     \* lines the computer pulls
          pc, ret,  \* where the loop is, and where it goes on after a refresh
          half,     \* which of the two processor cycles of a pass
          outward,  \* direction of the fast serial buffer
          resets,   \* passes RESET has been low
          left,     \* (history) cycles to the timer's next time out, 0: none
          peer      \* (history) fast serial byte of the computer

vars == <<program, starting, v, iec, pins, host, pc, ret, half, outward, resets, left, peer>>

Lines == {"ATN", "DATA", "CLOCK", "SRQ"}
Wire == pins \cup host

\* Port B of U10 once the firmware has set it up.
Outs == {"DATAOUT", "CLOCKOUT", "ATNA", "DIR"}
Bytes == [1 .. Width -> BOOLEAN]

----------------------------------------------------------------------------
(* class IEC_Bus                                                           *)

NoBus == [atna |-> FALSE, data |-> FALSE, gate |-> FALSE, clock |-> FALSE, srq |-> FALSE,
          atn |-> FALSE, atnWas |-> FALSE, sensed |-> {}, resetting |-> FALSE,
          asserted |-> {}, released |-> {}]

Pulled(b) == (IF b.gate \/ b.data THEN {"DATA"} ELSE {}) \cup (IF b.clock THEN {"CLOCK"} ELSE {})

\* The acknowledge gate: the CMD HD ANDs where the 1541 XORs.
Gate(atna, atn) == atna /\ atn

\* What the port callback makes of port B.
PortB_OnPortOut(b, p) ==
  LET status == p.out \cap p.dir
      atna == "ATNA" \in status
  IN [b EXCEPT !.atna = atna,
               !.atn = "ATNOUT" \in p.dir /\ "ATNOUT" \notin status,
               !.gate = Gate(atna, "ATN" \in b.sensed),
               !.data = "DATAOUT" \in status \/ "DATAOUT" \notin p.dir,
               !.clock = "CLOCKOUT" \in status \/ "CLOCKOUT" \notin p.dir]

\* The sample of all lines: what the drive pulls itself counts as low.
SensedLines(b, gate) ==
  Wire \cup (IF b.atn THEN {"ATN"} ELSE {}) \cup (IF gate \/ b.data THEN {"DATA"} ELSE {})
       \cup (IF b.clock THEN {"CLOCK"} ELSE {}) \cup (IF b.srq THEN {"SRQ"} ELSE {})

Inputs(s) == (IF "ATN" \in s THEN {"PB7"} ELSE {}) \cup (IF "DATA" \in s THEN {"DATAIN"} ELSE {})
             \cup (IF "CLOCK" \in s THEN {"CLOCKIN"} ELSE {})
WithInputs(w, pinsOf, s) == [w EXCEPT !.b.in = (@ \ pinsOf) \cup (Inputs(s) \cap pinsOf)]

ReadEmulationModeCMDHD(b) ==
  LET atn == b.atn \/ "ATN" \in Wire
      edge == atn # ("ATN" \in b.sensed)
      gate == (IF edge /\ "ATNA" \in v.b.dir THEN Gate(b.atna, atn) ELSE b.gate)
              /\ "ATNA" \in v.b.dir
      s == SensedLines(b, gate) \cap Lines
      w == WithInputs(v, {"DATAIN", "CLOCKIN"} \cup (IF edge THEN {"PB7"} ELSE {}), s)
  IN [bus |-> [b EXCEPT !.gate = gate, !.sensed = s, !.resetting = "RESET" \in host],
      via |-> IF edge THEN InputCA1(w, ~atn) ELSE w]

\* The sample right before the processor reads port B: DATA and CLOCK only.
SampleIECInsNow ==
  LET s == SensedLines(iec, iec.gate)
  IN [bus |-> [iec EXCEPT !.sensed = (@ \ {"DATA", "CLOCK"}) \cup (s \cap {"DATA", "CLOCK"})],
      via |-> WithInputs(v, {"DATAIN", "CLOCKIN"}, s)]

\* Mutant of ReleaseFirst: always the order that is right for one line.
NeverReleaseFirst(b) == FALSE

\* One line newly pulled, the other newly let go: let go first.
ReleaseFirst(b) == /\ Pulled(b) \ b.asserted # {}
                   /\ ({"DATA", "CLOCK"} \ Pulled(b)) \ b.released # {}

\* RefreshIECOutsNow, its first and its second write; with the second one
\* the old levels are noted and ATN is refreshed if it changed.
FirstWrite ==
  /\ pc = "first"
  /\ pins' = IF ReleaseFirst(iec) THEN pins \ ({"DATA", "CLOCK"} \ Pulled(iec))
             ELSE pins \cup Pulled(iec)
  /\ pc' = "second"
  /\ UNCHANGED <<program, starting, v, iec, host, ret, half, outward, resets, left, peer>>

\* A periodic refresh (every one but the port callback's) goes on with SRQ.
Periodic == ret # "execute" /\ ret # "serial"

SecondWrite ==
  /\ pc = "second"
  /\ LET lines == (pins \ {"DATA", "CLOCK"}) \cup Pulled(iec)
         atn == IF iec.atn = iec.atnWas THEN lines \cap {"ATN"}
                ELSE IF iec.atn THEN {"ATN"} ELSE {}
         srq == IF ~Periodic THEN lines \cap {"SRQ"} ELSE IF iec.srq THEN {"SRQ"} ELSE {}
     IN /\ pins' = (lines \ {"ATN", "SRQ"}) \cup atn \cup srq
  /\ iec' = [iec EXCEPT !.atnWas = iec.atn, !.asserted = Pulled(iec),
                        !.released = {"DATA", "CLOCK"} \ Pulled(iec)]
  /\ pc' = ret
  /\ UNCHANGED <<program, starting, v, host, ret, half, outward, resets, left, peer>>

----------------------------------------------------------------------------
(* The drive's pass: sense, two processor cycles, refresh, poll            *)

Refresh(back) == pc' = "first" /\ ret' = back

\* A chip whose port callback is due has it run, and the lines refreshed;
\* otherwise the pass goes on.
Callback(w, b, next) ==
  /\ v' = [w EXCEPT !.told = FALSE]
  /\ IF w.told
     THEN /\ iec' = PortB_OnPortOut(b, w.b)
          /\ outward' = ("DIR" \in w.b.out \cap w.b.dir)
          /\ Refresh(next)
     ELSE iec' = b /\ pc' = next /\ UNCHANGED <<outward, ret>>

Read ==
  /\ pc = "read"
  /\ LET r == ReadEmulationModeCMDHD(iec) IN iec' = r.bus /\ v' = r.via
  /\ peer' = [peer EXCEPT !.seen = TRUE]
  /\ pc' = "cpu" /\ half' = 0
  /\ UNCHANGED <<program, starting, pins, host, ret, outward, resets, left>>

\* A processor cycle without a register access.
CpuIdle ==
  /\ pc = "cpu"
  /\ pc' = "execute"
  /\ UNCHANGED <<program, starting, v, iec, pins, host, ret, half, outward, resets, left, peer>>

\* A write to U10 that makes a chip w.
CpuWrite(w) ==
  /\ pc = "cpu"
  /\ Callback(w, iec, "execute")
  /\ UNCHANGED <<program, starting, pins, host, half, resets>>

WriteORB ==
  /\ \E s \in IF program = "atn" THEN {{}, {"ATNA"}, {"ATNA", "ATNOUT"}}
              ELSE SUBSET {"DATAOUT", "CLOCKOUT"} :
       CpuWrite(WritePortB(v, s))
  /\ program \in {"atn", "lines"}
  /\ UNCHANGED <<left, peer>>

WriteDDRB ==
  /\ \E s \in IF program = "atn" THEN {Outs, Outs \ {"ATNA"}, Outs \cup {"ATNOUT"}}
              ELSE {Outs, Outs \ {"CLOCKOUT"}} :
       CpuWrite(SetDirection(v, s))
  /\ program \in {"atn", "lines"}
  /\ UNCHANGED <<left, peer>>

\* Reading port B samples DATA and CLOCK first.
ReadORB ==
  /\ pc = "cpu" /\ program \in {"atn", "lines"}
  /\ LET r == SampleIECInsNow IN iec' = r.bus /\ v' = ReadPortB(r.via).via
  /\ pc' = "execute"
  /\ UNCHANGED <<program, starting, pins, host, ret, half, outward, resets, left, peer>>

\* The answer to the ATN interrupt, with and without the handshake.
ReadORA ==
  /\ program = "atn"
  /\ \E handshake \in BOOLEAN : CpuWrite(ReadPortA(v, handshake).via)
  /\ UNCHANGED <<left, peer>>

AccessIER ==
  /\ program \in {"t1", "receive"}
  /\ \E f \in IF program = "t1" THEN {"T1"} ELSE {"SR"}, set \in BOOLEAN :
       CpuWrite(WriteIER(v, {f}, set))
  /\ UNCHANGED <<left, peer>>

\* The control lines: their modes, and port A with its handshake.
AccessControl ==
  /\ program = "lines"
  /\ \/ \E m0, m1 \in BOOLEAN :
          CpuWrite(WriteFCR(v, [NoControl EXCEPT !.ca2 = [out |-> TRUE, m1 |-> m1, m0 |-> m0],
                                                 !.cb2 = [out |-> m1, m1 |-> m1, m0 |-> m0]]))
     \/ CpuWrite(WritePortA(v, {}, TRUE))
  /\ UNCHANGED <<left, peer>>

\* Flags are cleared by the firmware without bit 7.
AccessIFR ==
  /\ program = "t1"
  /\ CpuWrite(WriteIFR(v, {"T1"}, FALSE))
  /\ UNCHANGED <<left, peer>>

AccessT1 ==
  /\ program = "t1"
  /\ \/ \E h \in {0, 1} : CpuWrite(WriteT1CH(v, h)) /\ left' = Word(h, Low(v.t1.latch)) + 2
     \/ /\ \/ \E l \in {0, Base - 1} : CpuWrite(WriteT1LL(v, l))
           \/ \E h \in {0, 1} : CpuWrite(WriteT1LH(v, h))
           \/ CpuWrite(ReadT1CL(v))
           \/ \E free, pb7 \in BOOLEAN :
                CpuWrite(WriteACR(v, [NoAuxiliary EXCEPT !.free = free, !.pb7 = pb7]))
        /\ UNCHANGED left
  /\ UNCHANGED peer

\* Pulse counting and the shift modes change what timer 2 counts.
Unforeseen == 2 * Base * Base

AccessT2 ==
  /\ program = "t2"
  /\ \/ /\ \E h \in {0, 1} : CpuWrite(WriteT2CH(v, h))
        /\ left' = IF v.acr.pb6 \/ v.t2.pb6Was \/ ShiftByT2(v) THEN Unforeseen
                   ELSE LET n == v'.t2.count IN (IF n = 0 THEN Base * Base ELSE n) + 1
     \/ /\ \/ \E l \in {0, Base - 1} : CpuWrite(WriteT2LL(v, l))
           \/ CpuWrite(ReadT2CL(v))
        /\ UNCHANGED left
     \/ /\ \E x \in {NoAuxiliary, [NoAuxiliary EXCEPT !.pb6 = TRUE], [NoAuxiliary EXCEPT !.shift = 5]} :
             CpuWrite(WriteACR(v, x))
        /\ left' = Unforeseen
  /\ UNCHANGED peer

\* The shift register: read when a byte is there, written to send one.
ReadSR ==
  /\ program = "receive" /\ "SR" \in v.ifr
  /\ CpuWrite(AccessSR(v))
  /\ peer' = [peer EXCEPT !.bit = 0]
  /\ UNCHANGED left

SendSR ==
  /\ program = "send" /\ peer.byte = <<>> /\ outward
  /\ \E s \in Bytes :
       /\ CpuWrite(WriteSR(v, s))
       /\ peer' = [peer EXCEPT !.byte = s]
  /\ UNCHANGED left

\* Cycles to the next time out of timer 1 after one more cycle: a time out
\* takes a cycle to reload, then the latch counts down to nought and below.
DueT1 ==
  IF ~v.t1.ticking THEN 0 ELSE IF left = 0 THEN v.t1.latch + 1 ELSE left - 1
DueT2 == IF left \in {0, Unforeseen} THEN left ELSE left - 1

\* Update: U10's cycle.
Run ==
  /\ pc = "execute"
  /\ Callback(Execute(v), iec, "serial")
  /\ left' = IF program = "t1" THEN DueT1 ELSE DueT2
  /\ UNCHANGED <<program, starting, pins, host, half, resets, peer>>

\* Mutant of FastSerial: the data is taken after the inverter.
FastSerialInverted ==
  IF outward
  THEN [bus |-> [iec EXCEPT !.data = ~v.data, !.srq = v.clock], via |-> v]
  ELSE [bus |-> iec,
        via |-> InputCB1(InputCB2(v, "DATA" \in iec.sensed), "SRQ" \in iec.sensed)]

\* Update: the fast serial buffer between U10's shifter and DATA and SRQ.
FastSerial ==
  IF outward
  THEN [bus |-> [iec EXCEPT !.data = ~v.data, !.srq = v.clock], via |-> v]
  ELSE [bus |-> iec,
        via |-> InputCB1(InputCB2(v, "DATA" \notin iec.sensed), "SRQ" \in iec.sensed)]

Serial ==
  /\ pc = "serial"
  /\ iec' = FastSerial.bus /\ v' = FastSerial.via
  /\ IF half = 0 THEN half' = 1 /\ pc' = "cpu" /\ UNCHANGED ret
     ELSE half' = 0 /\ Refresh("poll")
  /\ UNCHANGED <<program, starting, pins, host, outward, resets, left, peer>>

----------------------------------------------------------------------------
(* Card accesses, reset and the way out                                    *)

\* Mutant of Hook: the card is waited for and nothing else.
HookIdle == pc' = pc /\ UNCHANGED <<v, iec, ret>>

\* What the card driver calls while it waits: a sample and a refresh.
Hook ==
  /\ LET r == ReadEmulationModeCMDHD(iec) IN iec' = r.bus /\ v' = r.via
  /\ Refresh(pc)

\* A SCSI command of the processor that needs the card.
CardAccess ==
  /\ pc = "cpu" /\ program = "atn"
  /\ pc' = "card"
  /\ UNCHANGED <<program, starting, v, iec, pins, host, ret, half, outward, resets, left, peer>>

Waiting == {"card", "resetflush", "scan", "eject"}

CardBusy ==
  /\ pc \in Waiting
  /\ Hook
  /\ UNCHANGED <<program, starting, pins, host, half, outward, resets, left, peer>>

CardDone ==
  /\ pc \in Waiting
  /\ pc' = CASE pc = "card" -> "execute" [] pc = "resetflush" -> "restart"
              [] pc = "scan" -> "busreset" [] pc = "eject" -> "leave"
  /\ UNCHANGED <<program, starting, v, iec, pins, host, ret, half, outward, resets, left, peer>>

Poll ==
  /\ pc = "poll"
  /\ resets' = IF iec.resetting THEN resets + 1 ELSE 0
  /\ pc' = IF resets' > ResetLoops THEN "waitreset" ELSE "read"
  /\ UNCHANGED <<program, starting, v, iec, pins, host, ret, half, outward, left, peer>>

\* The front panel: its RESET button resets the drive at once, the exit
\* button writes the cache back and leaves.
Panel ==
  /\ pc = "poll" /\ program = "atn"
  /\ pc' \in {"resetflush", "eject"}
  /\ resets' = 0
  /\ UNCHANGED <<program, starting, v, iec, pins, host, ret, half, outward, left, peer>>

WaitUntilReset ==
  /\ pc = "waitreset" /\ "RESET" \notin host
  /\ pc' = "resetflush" /\ resets' = 0
  /\ UNCHANGED <<program, starting, v, iec, pins, host, ret, half, outward, left, peer>>

\* The chips are reset.  The search for the configuration block, if something has
\* been written since the last one, reads the card, and so does giving up a small disk.
Restart ==
  /\ pc = "restart"
  /\ v' = ViaReset(v)
  /\ outward' = FALSE
  /\ pc' \in {"scan", "busreset"}
  /\ UNCHANGED <<program, starting, iec, pins, host, ret, half, resets, left, peer>>

Cleared(b) == [NoBus EXCEPT !.atnWas = b.atnWas, !.asserted = b.asserted, !.released = b.released]

\* IEC_Bus::Reset, at the end of the drive's reset and on the way to the
\* browser: it too waits for the computer to let go of RESET.
BusReset ==
  /\ pc \in {"busreset", "leave"} /\ "RESET" \notin host
  /\ iec' = Cleared(iec)
  /\ Refresh(IF pc = "busreset" THEN "resume" ELSE "letsrq")
  /\ UNCHANGED <<program, starting, v, pins, host, half, outward, resets, left, peer>>

Resumed(w) == InputCA1([w EXCEPT !.b.in = @ \cup {"DATAOUT", "CLOCKOUT", "ATNA"}], TRUE)

\* SRQ is let go (with inputs that are not inverted) and the lines refreshed.
LetSRQBePulledHigh(back) == iec' = [iec EXCEPT !.srq = FALSE] /\ Refresh(back)

\* The end of a reset; a drive that starts goes on to its first pass.
Resume ==
  /\ pc = "resume"
  /\ v' = Resumed(v)
  /\ IF starting THEN LetSRQBePulledHigh("read") ELSE pc' = "read" /\ UNCHANGED <<iec, ret>>
  /\ starting' = FALSE
  /\ UNCHANGED <<program, pins, host, half, outward, resets, left, peer>>

\* The way to the browser ends.
Browse ==
  /\ pc = "letsrq"
  /\ LetSRQBePulledHigh("browse")
  /\ UNCHANGED <<program, starting, v, pins, host, half, outward, resets, left, peer>>

\* An image is chosen: the drive starts with a reset.
Mount ==
  /\ pc = "browse"
  /\ pc' = "resetflush"
  /\ starting' = TRUE
  /\ iec' = [iec EXCEPT !.sensed = Wire \cap Lines]
  /\ UNCHANGED <<program, v, pins, host, ret, half, outward, resets, left, peer>>

----------------------------------------------------------------------------
(* The computer                                                            *)

Movable == CASE program = "atn" -> {"ATN", "RESET"}
             [] program = "lines" -> {"DATA", "CLOCK"}
             [] OTHER -> {}

HostMoves ==
  /\ \E l \in Movable : host' = IF l \in host THEN host \ {l} ELSE host \cup {l}
  /\ UNCHANGED <<program, starting, v, iec, pins, pc, ret, half, outward, resets, left, peer>>

\* A fast serial byte towards the drive: data with SRQ pulled, then SRQ let
\* go, each for at least one sample; the next byte when this one was taken.
HostBegins ==
  /\ program = "receive" /\ peer.bit = 0 /\ peer.seen
  /\ \E s \in Bytes :
       /\ host' = {"SRQ"} \cup (IF s[1] THEN {} ELSE {"DATA"})
       /\ peer' = [peer EXCEPT !.byte = s, !.bit = 1, !.seen = FALSE]
  /\ UNCHANGED <<program, starting, v, iec, pins, pc, ret, half, outward, resets, left>>

HostShifts ==
  /\ program = "receive" /\ peer.bit > 0 /\ peer.seen
  /\ \/ "SRQ" \in host /\ host' = host \ {"SRQ"} /\ peer' = [peer EXCEPT !.seen = FALSE]
     \/ /\ "SRQ" \notin host /\ peer.bit < Width
        /\ host' = {"SRQ"} \cup (IF peer.byte[peer.bit + 1] THEN {} ELSE {"DATA"})
        /\ peer' = [peer EXCEPT !.bit = @ + 1, !.seen = FALSE]
  /\ UNCHANGED <<program, starting, v, iec, pins, pc, ret, half, outward, resets, left>>

----------------------------------------------------------------------------
\* U10 as the firmware has set it up for each program.
Configured(p) ==
  LET w == InputCA1(PowerUp, TRUE)
      shift == IF p = "receive" THEN 3 ELSE IF p = "send" THEN 6 ELSE 0
  IN [w EXCEPT !.b.dir = Outs \cup (IF p = "t1" THEN {"PB7"} ELSE {}),
               !.b.out = IF p = "send" THEN {"DIR"} ELSE {},
               !.acr.shift = shift]

Init ==
  /\ program \in Programs /\ starting = FALSE
  /\ v = Configured(program)
  /\ iec = [PortB_OnPortOut(NoBus, v.b) EXCEPT !.released = {"DATA", "CLOCK"}]
  /\ pins = {} /\ host = {}
  /\ pc = "read" /\ ret = "read" /\ half = 0
  /\ outward = (program = "send")
  /\ resets = 0 /\ left = 0
  /\ peer = [byte |-> <<>>, bit |-> 0, seen |-> FALSE]

Cpu == CpuIdle \/ WriteORB \/ WriteDDRB \/ ReadORB \/ ReadORA \/ AccessControl \/ AccessIER \/ AccessIFR
       \/ AccessT1 \/ AccessT2 \/ ReadSR \/ SendSR \/ CardAccess
Drive == Read \/ Cpu \/ Run \/ Serial \/ FirstWrite \/ SecondWrite \/ CardBusy \/ Poll \/ Panel
         \/ WaitUntilReset \/ Restart \/ BusReset \/ Resume \/ Browse \/ Mount
Host == HostMoves \/ HostBegins \/ HostShifts

Next == Drive \/ CardDone \/ Host

Spec == Init /\ [][Next]_vars

\* The drive keeps running: its loop never blocks, and while the card is busy
\* the hook runs.  How long the card stays busy is not assumed.  (Stated for
\* the program that is asked to answer the computer.)
FairSpec == Spec /\ WF_vars(program = "atn" /\ Drive)

----------------------------------------------------------------------------
\* Whatever the moment the computer looks, it sees DATA and CLOCK as they
\* were or as they become, and between the two GPIO writes of a refresh that
\* exchanges them neither pulled: never a pair the drive did not mean
\* (iec_bus.h:519-541).
NoFalseSymbol ==
  pins \cap {"DATA", "CLOCK"} \in
    {iec.asserted, Pulled(iec)}
    \cup (IF pc = "second" /\ Cardinality(iec.asserted) = 1 /\ Cardinality(Pulled(iec)) = 1
          THEN {{}} ELSE {})

\* A computer that asserts ATN and keeps it gets its answer on DATA while the
\* drive has the acknowledge on, even when the card is busy for ever
\* (main.cpp:880-910); unless RESET is held, which is waited for.
AtnAnswered ==
  ("ATN" \in host /\ iec.atna) ~> ("DATA" \in pins \/ "ATN" \notin host \/ ~iec.atna \/ "RESET" \in host)

\* The ATN interrupt comes with the assertion the drive has sensed, at once
\* and once: not again from the extra samples of DATA and CLOCK, and not too
\* late after a reset (iec_bus.h:567-581, picmdhd.cpp:557-559).
AtnIsToldOnce ==
  [][LET told == "CA1" \notin v.ifr /\ "CA1" \in v'.ifr
         falls == "ATN" \notin iec.sensed /\ "ATN" \in iec'.sensed
     IN /\ told => falls
        /\ falls /\ pc \in {"read", "card"} => "CA1" \in v'.ifr]_vars

\* ATN is answered on the bus and told the firmware.
AtnIsServed == AtnAnswered /\ AtnIsToldOnce

\* After a reset and in the browser the drive pulls nothing.
LeavesTheBus == pc \in {"resume", "letsrq", "browse"} => pins = {}

\* What the computer sees of the drive is what the drive means.
SymbolsAreMeant == NoFalseSymbol /\ LeavesTheBus

\* An enabled flag interrupts the processor, in whatever order flags and
\* enables came (m6522.h:343-362).
InterruptsAreSeen == v.ier \cap v.ifr # {} => v.line

\* A fast serial byte of the computer is in the shift register when its flag
\* is up, every bit in its place.
ByteReceived == program = "receive" /\ "SR" \in v.ifr => v.sr = peer.byte

\* What comes from the computer is told the firmware.
FlagsAreTrue == InterruptsAreSeen /\ ByteReceived

\* Timer 1 raises its flag N + 2 cycles after a write of N and, free running,
\* every latch + 2 cycles from then on, and at no other time.
T1OnTime ==
  [][program = "t1" /\ pc = "execute" =>
       LET due == v.t1.ticking /\ left' = 0 /\ IF v.acr.free THEN v.t1.irqs ELSE ~v.t1.fired
       IN "T1" \in v'.ifr <=> "T1" \in v.ifr \/ due]_vars

\* Timer 2 raises its flag N + 1 cycles after a write of N and not again
\* until the next write, whatever is read, latched or cleared meanwhile.
T2OnTime ==
  [][program = "t2" /\ pc = "execute" /\ left # Unforeseen =>
       ("T2" \in v'.ifr <=> "T2" \in v.ifr \/ (left > 0 /\ left' = 0))]_vars

\* Both timers keep the times the firmware measures the bus with.
TimersAreOnTime == T1OnTime /\ T2OnTime
=============================================================================
