------------------------------ MODULE Via6522 ------------------------------
(***************************************************************************)
(* One 6522 VIA of the CMD HD (src/src/emulation/m6522.cpp): the flags and *)
(* their interrupt line, two timers, the shift register, the ports and     *)
(* their control lines.  The chip is a value: every operation of the class *)
(* is an operator from a chip to a chip, and DriveBus puts one such chip,  *)
(* U10, on the serial bus.                                                 *)
(*                                                                         *)
(* A timer byte is a number below Base (256 in the code), the 8 bits of    *)
(* the shift register are a sequence of Width Booleans, a port is three    *)
(* sets of pin names.  "told" says that a port B callback is due: the      *)
(* callback itself belongs to the machine the chip is part of.             *)
(***************************************************************************)
EXTENDS Naturals, Sequences

CONSTANTS Base,   \* values of a byte of a timer
          Width   \* bits of the shift register

ASSUME ViaAssumption == Base \in Nat \ (0 .. 3) /\ Width \in Nat \ {0}

Flags == {"CA1", "CA2", "CB1", "CB2", "SR", "T1", "T2"}
Counts == 0 .. Base * Base - 1
Low(c) == c % Base
High(c) == c \div Base
Word(h, l) == h * Base + l
Down(c) == IF c = 0 THEN Base * Base - 1 ELSE c - 1

\* Peripheral control: the active edge of CA1, whose bit CB1 is given too
\* (FCR_CB1 = FCR_CA1), and for CA2 and CB2 direction, edge or mode bits.
\* Auxiliary control: latches, shift mode, pulse counting, free run, PB7.
Input == [out |-> FALSE, m1 |-> FALSE, m0 |-> FALSE]
NoControl == [rise |-> FALSE, ca2 |-> Input, cb2 |-> Input]
NoAuxiliary == [latchA |-> FALSE, latchB |-> FALSE, pb6 |-> FALSE, free |-> FALSE,
                pb7 |-> FALSE, shift |-> 0]
NoPort == [out |-> {}, in |-> {}, dir |-> {}]

----------------------------------------------------------------------------
(* Flags and the interrupt line.  "irq" is bit 7 of the flag register,     *)
(* "line" what the chip does to the processor.                             *)

OutputIRQ(v) ==
  IF v.ier \cap v.ifr # {}
  THEN IF v.irq THEN v ELSE [v EXCEPT !.irq = TRUE, !.line = TRUE]
  ELSE IF v.irq THEN [v EXCEPT !.irq = FALSE, !.line = FALSE] ELSE v

SetInterrupt(v, f) ==
  IF f \in v.ifr THEN v ELSE OutputIRQ([v EXCEPT !.ifr = @ \cup {f}])

ClearInterrupt(v, fs) ==
  IF v.ifr \cap fs = {} THEN v ELSE OutputIRQ([v EXCEPT !.ifr = @ \ fs])

\* A write to the flag register.  With bit 7 in it the summary bit goes with
\* the flags, and OutputIRQ no longer sees that the line is asserted.
WriteIFR(v, fs, bit7) ==
  IF v.ifr \cap fs = {} /\ ~(bit7 /\ v.irq) THEN v
  ELSE OutputIRQ([v EXCEPT !.ifr = @ \ fs, !.irq = @ /\ ~bit7])

WriteIER(v, fs, set) == OutputIRQ([v EXCEPT !.ier = IF set THEN @ \cup fs ELSE @ \ fs])

----------------------------------------------------------------------------
(* Ports and control lines                                                 *)

Pins(p) == (p.in \ p.dir) \cup (p.out \cap p.dir)
SetOutput(v, s) == [v EXCEPT !.b.out = s, !.told = TRUE]
SetDirection(v, s) == [v EXCEPT !.b.dir = s, !.told = TRUE]

\* PB7 as the output of timer 1, where the direction register lets it out.
Pb7(v, high) ==
  IF "PB7" \notin v.b.dir THEN v
  ELSE SetOutput(v, IF high THEN v.b.out \cup {"PB7"} ELSE v.b.out \ {"PB7"})

InputCA1(v, x) ==
  LET hit == v.ca1 # x /\ v.fcr.rise = x
      handshake == v.fcr.ca2.out /\ ~v.fcr.ca2.m1 /\ ~v.fcr.cb2.m0
      w == IF hit THEN SetInterrupt([v EXCEPT !.latchedA = Pins(v.a),
                                              !.ca2 = @ /\ ~handshake], "CA1") ELSE v
  IN [w EXCEPT !.ca1 = x]

InputCB1(v, x) ==
  LET hit == v.cb1 # x /\ v.fcr.rise = x
      handshake == v.fcr.cb2.out /\ ~v.fcr.cb2.m1 /\ ~v.fcr.cb2.m0
      w == IF hit THEN SetInterrupt([v EXCEPT !.latchedB = Pins(v.b),
                                              !.cb2 = @ /\ ~handshake], "CB1") ELSE v
  IN [w EXCEPT !.cb1 = x]

InputCA2(v, x) ==
  IF v.fcr.ca2.out THEN v
  ELSE [(IF v.ca2 # x /\ v.fcr.ca2.m1 = x THEN SetInterrupt(v, "CA2") ELSE v) EXCEPT !.ca2 = x]

InputCB2(v, x) ==
  IF v.fcr.cb2.out THEN v
  ELSE [(IF v.cb2 # x /\ v.fcr.cb2.m1 = x THEN SetInterrupt(v, "CB2") ELSE v) EXCEPT !.cb2 = x]

ReadPortB(v) ==
  [value |-> LET seen == IF v.acr.latchB /\ "CB1" \in v.ifr THEN v.latchedB ELSE Pins(v.b)
             IN IF ~v.acr.pb7 THEN seen
                ELSE IF v.t1.pb7 THEN seen \cup {"PB7"} ELSE seen \ {"PB7"},
   via |-> ClearInterrupt(v, {"CB1", "CB2"})]

WritePortB(v, s) ==
  LET w == ClearInterrupt(v, {"CB1", "CB2"})
  IN SetOutput([w EXCEPT !.cb2 = @ /\ ~(w.fcr.cb2.out /\ w.fcr.cb2.m1)], s)

ReadPortA(v, handshake) ==
  [value |-> IF v.acr.latchA /\ "CA1" \in v.ifr THEN v.latchedA ELSE Pins(v.a),
   via |-> IF handshake THEN ClearInterrupt(v, {"CA1", "CA2"}) ELSE v]

WritePortA(v, s, handshake) ==
  LET w == IF handshake THEN ClearInterrupt(v, {"CA1", "CA2"}) ELSE v
  IN [w EXCEPT !.a.out = s,
               !.ca2 = @ /\ ~(handshake /\ w.fcr.ca2.out /\ w.fcr.ca2.m1)]

\* What a write of the control register makes of an output line: low at once
\* in pulse mode, high only in the mode with both bits set.
Level(c, old) == IF c.out THEN c.m1 /\ c.m0 ELSE old
Pulses(c, old) == IF c.out THEN c.m0 /\ ~c.m1 ELSE old
WriteFCR(v, c) ==
  [v EXCEPT !.fcr = c,
            !.ca2 = Level(c.ca2, @), !.pulseA = Pulses(c.ca2, @),
            !.cb2 = Level(c.cb2, @), !.pulseB = Pulses(c.cb2, @)]

----------------------------------------------------------------------------
(* Timer 1                                                                 *)

WriteT1CH(v, h) ==
  LET n == Word(h, Low(v.t1.latch))
      w == ClearInterrupt([v EXCEPT
             !.t1.latch = n, !.t1.count = n, !.t1.ticking = TRUE, !.t1.reload = TRUE,
             !.t1.irqs = TRUE, !.t1.timedOut = n = 0, !.t1.pb7 = TRUE,
             !.t1.fired = @ /\ v.acr.free], {"T1"})
  IN IF v.acr.pb7 THEN Pb7(w, FALSE) ELSE w

WriteT1LL(v, l) == [v EXCEPT !.t1.latch = Word(High(@), l)]

\* Without the timer's interrupt enabled this also switches the interrupts of
\* free running off, until the counter is written again.
WriteT1LH(v, h) ==
  ClearInterrupt([v EXCEPT !.t1.latch = Word(h, Low(@)), !.t1.irqs = @ /\ "T1" \in v.ier], {"T1"})

ReadT1CL(v) == ClearInterrupt(v, {"T1"})

FreeRun(v) ==
  LET w == IF v.t1.irqs THEN SetInterrupt(v, "T1") ELSE v
      x == [w EXCEPT !.t1.pb7 = ~@]
  IN IF v.t1.latch <= 1 THEN w ELSE IF v.acr.pb7 THEN Pb7(x, x.t1.pb7) ELSE x

OneShot(v) ==
  LET w == SetInterrupt([v EXCEPT !.t1.fired = TRUE], "T1")
  IN IF v.t1.fired THEN v
     ELSE IF v.acr.pb7 THEN [Pb7(w, TRUE) EXCEPT !.t1.pb7 = FALSE] ELSE w

\* One cycle of timer 1.
TickT1(v) ==
  LET w == [v EXCEPT !.t1.count = Down(@), !.t1.timedOut = v.t1.count = 0]
      x == IF v.t1.timedOut THEN [v EXCEPT !.t1.count = v.t1.latch, !.t1.timedOut = FALSE]
           ELSE IF ~v.t1.ticking \/ v.t1.reload THEN v
           ELSE IF v.t1.count # 0 THEN w
           ELSE IF v.acr.free THEN FreeRun(w) ELSE OneShot(w)
  IN [x EXCEPT !.t1.reload = FALSE]

----------------------------------------------------------------------------
(* Timer 2.  Its pulse counting never counts: the code compares the old    *)
(* level of PB6, which is 0 or 0x40, with 1.                               *)

ShiftByT2(v) == v.acr.shift \in {1, 5}
Clock(v) == [v EXCEPT !.rising = v.clock, !.clock = ~@]

WriteT2CH(v, h) ==
  ClearInterrupt([v EXCEPT !.t2.count = Word(h, v.t2.latch), !.t2.reload = TRUE,
                           !.t2.passes = 0, !.t2.timedOut = FALSE,
                           !.t2.counting = TRUE, !.t2.fired = FALSE], {"T2"})

\* Mutant of WriteT2LL: the latch is the counter's low byte.
WriteT2LLThrough(v, l) == [v EXCEPT !.t2.latch = l, !.t2.count = Word(High(@), l)]
WriteT2LL(v, l) == [v EXCEPT !.t2.latch = l]
ReadT2CL(v) == ClearInterrupt(v, {"T2"})

\* The cycle after a time out: the low byte is loaded from the latch.
ReloadT2(v) ==
  LET w == IF ShiftByT2(v) THEN Clock(v) ELSE v
      n == IF v.t2.latch = Base - 1 THEN Down(v.t2.count) ELSE v.t2.count
      m == IF v.t2.passes > 1 /\ High(n) = 0 THEN Word(Base - 1, (v.t2.latch + 2) % Base)
           ELSE Word(High(n), v.t2.latch)
  IN IF v.t2.timedOut THEN [w EXCEPT !.t2.timedOut = FALSE, !.t2.count = m] ELSE v

\* One count; in the shift modes the low byte alone is a prescaler from its
\* second pass on.
CountT2(v) ==
  LET n == Down(v.t2.count)
      pass == Low(n) = Base - 2
      passes == IF pass /\ v.t2.passes < 3 THEN v.t2.passes + 1 ELSE v.t2.passes
      w == [v EXCEPT !.t2.count = n, !.t2.timedOut = n = 0, !.t2.passes = passes]
  IN IF pass /\ ShiftByT2(v) /\ passes > 1
     THEN [Clock(w) EXCEPT !.t2.count = Word(High(n), v.t2.latch), !.t2.timedOut = FALSE]
     ELSE w

TickT2(v) ==
  LET a == ReloadT2(v)
      n == Down(a.t2.count)
      b == IF ~a.t2.counting THEN a
           ELSE IF a.acr.pb6 # a.t2.pb6Was
           THEN IF a.acr.pb6 THEN [a EXCEPT !.t2.fired = FALSE, !.t2.count = n, !.t2.timedOut = n = 0]
                ELSE LET c == [a EXCEPT !.t2.fired = FALSE]
                     IN IF a.t2.count = 0 THEN SetInterrupt(c, "T2") ELSE c
           ELSE IF a.t2.reload THEN [a EXCEPT !.t2.reload = FALSE]
           ELSE IF a.acr.pb6 THEN a ELSE CountT2(a)
      d == IF b.t2.counting /\ b.t2.timedOut /\ ~b.t2.fired
           THEN SetInterrupt([b EXCEPT !.t2.fired = TRUE], "T2") ELSE b
  IN [d EXCEPT !.t2.pb6Was = v.acr.pb6]

----------------------------------------------------------------------------
(* Shift register                                                          *)

Counted(v) ==
  LET w == [v EXCEPT !.bits = @ + 1] IN IF w.bits = Width THEN SetInterrupt(w, "SR") ELSE w
ShiftIn(v) == Counted([v EXCEPT !.sr = Append(Tail(@), v.cb2)])
Rotate(v) == [v EXCEPT !.sr = Append(Tail(@), Head(@)), !.data = Head(v.sr)]
ShiftOut(v) == Counted(Rotate(v))

\* Modes 1 and 5 shift in the cycle after a rising edge of timer 2's clock,
\* modes 2 and 6 with the system clock, modes 3 and 7 after a falling CB1;
\* mode 4 waits for a clock that only modes 1 and 5 make.
TickSR(v, rose) ==
  LET toggled == [v EXCEPT !.clock = ~@]
      open == v.bits # Width
      fell == v.cb1Was /\ ~v.cb1
      w == CASE v.acr.shift = 1 /\ v.t2.passes > 2 /\ rose /\ open -> ShiftIn(v)
             [] v.acr.shift = 2 /\ open -> ShiftIn(toggled)
             [] v.acr.shift = 3 /\ fell /\ open -> ShiftIn(v)
             [] v.acr.shift = 4 /\ rose -> Rotate(v)
             [] v.acr.shift = 5 /\ v.t2.passes > 2 /\ rose /\ open -> ShiftOut(v)
             [] v.acr.shift = 6 /\ open -> IF toggled.clock THEN toggled ELSE ShiftOut(toggled)
             [] v.acr.shift = 7 /\ fell /\ open -> ShiftOut(toggled)
             [] OTHER -> v
  IN [w EXCEPT !.cb1Was = v.cb1]

\* An access of the register starts a new byte only if the last was complete.
AccessSR(v) ==
  ClearInterrupt([v EXCEPT !.bits = IF "SR" \in v.ifr THEN 0 ELSE @], {"SR"})
WriteSR(v, s) == [AccessSR(v) EXCEPT !.sr = s, !.clock = TRUE, !.rising = FALSE]

----------------------------------------------------------------------------
(* One cycle, the auxiliary register, reset                                *)

Execute(v) ==
  LET a == [v EXCEPT !.ca2 = @ /\ ~v.pulseA, !.cb2 = @ /\ ~v.pulseB]
      b == TickT1(a)
  IN TickSR(TickT2([b EXCEPT !.rising = FALSE]), b.rising)

WriteACR(v, x) ==
  LET w == [v EXCEPT !.acr = x] IN IF x.pb7 THEN Pb7(w, v.t1.pb7) ELSE w

\* What reset does not touch: both ports' outputs and directions, the
\* free-run interrupt switch of timer 1 and the level of the line.
ViaReset(v) ==
  OutputIRQ(InputCB2(InputCA2([v EXCEPT
    !.fcr = NoControl, !.acr = [NoAuxiliary EXCEPT !.latchB = v.acr.latchB],
    !.latchedA = {}, !.latchedB = {}, !.ca1 = FALSE, !.cb1 = FALSE, !.cb1Was = FALSE,
    !.ca2 = FALSE, !.cb2 = FALSE, !.pulseA = FALSE, !.pulseB = FALSE,
    !.t1 = [count |-> Base * Base - 1, latch |-> Base * Base - 1, ticking |-> FALSE,
            reload |-> FALSE, irqs |-> v.t1.irqs, timedOut |-> FALSE, pb7 |-> TRUE, fired |-> FALSE],
    !.t2 = [count |-> Base * Base - 1, latch |-> 0, reload |-> FALSE, counting |-> FALSE,
            passes |-> 0, pb6Was |-> FALSE, timedOut |-> FALSE, fired |-> FALSE],
    !.ifr = {}, !.ier = {}, !.irq = FALSE,
    !.sr = [i \in 1 .. Width |-> FALSE], !.bits = 0,
    !.clock = TRUE, !.rising = FALSE, !.data = TRUE], TRUE), TRUE))

\* The chip as the machine comes up.
PowerUp ==
  ViaReset([fcr |-> NoControl, acr |-> NoAuxiliary, ifr |-> {}, ier |-> {}, irq |-> FALSE,
            line |-> FALSE, a |-> NoPort, b |-> NoPort, told |-> FALSE,
            latchedA |-> {}, latchedB |-> {}, ca1 |-> FALSE, ca2 |-> FALSE, cb1 |-> FALSE,
            cb1Was |-> FALSE, cb2 |-> FALSE, pulseA |-> FALSE, pulseB |-> FALSE,
            t1 |-> [irqs |-> FALSE], t2 |-> {}, sr |-> <<>>, bits |-> 0,
            clock |-> TRUE, rising |-> FALSE, data |-> TRUE])
=============================================================================
