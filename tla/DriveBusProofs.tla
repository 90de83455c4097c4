---------------------------- MODULE DriveBusProofs ----------------------------
(***************************************************************************)
(* Proofs about the drive on the serial bus: the VIA 6522 U10, the lines,  *)
(* the passes of the loop and the computer, for every base of a timer      *)
(* byte, every width of the shift register, every number of reset waits    *)
(* and every set of programs.                                              *)
(*                                                                         *)
(* The chip comes first, an operation at a time: what it keeps of the      *)
(* chip's types and of its interrupt line (Good), and what a cycle or an   *)
(* access may change of the timers, the shift register and CA1 (T1Ticks,   *)
(* T2Ticks, SRStep, Quiet and their like). Then the machine. Its inductive *)
(* invariant is Common: the types, what only the computer that asks for    *)
(* the drive can do (Calm), what is on the lines at every point of a       *)
(* refresh (BusInv) and when CA1 is the last sample of ATN (AtnInv). Timed *)
(* says when each timer is due; Receiving and Arriving follow the bits of  *)
(* a byte from the computer through the sample into the shift register.    *)
(***************************************************************************)
EXTENDS DriveBus, SequenceTheorems, FiniteSetTheorems, TLAPS

-----------------------------------------------------------------------------
(* The chip: its types, its flags and its interrupt line *)

Pin == Outs \cup {"ATNOUT", "DATAIN", "CLOCKIN", "PB7"}
Mode == [out : BOOLEAN, m1 : BOOLEAN, m0 : BOOLEAN]
Control == [rise : BOOLEAN, ca2 : Mode, cb2 : Mode]
Auxiliary == [latchA : BOOLEAN, latchB : BOOLEAN, pb6 : BOOLEAN, free : BOOLEAN,
              pb7 : BOOLEAN, shift : 0 .. 7]
Port == [out : SUBSET Pin, in : SUBSET Pin, dir : SUBSET Pin]
Timer1 == [count : Counts, latch : Counts, ticking : BOOLEAN, reload : BOOLEAN, irqs : BOOLEAN,
           timedOut : BOOLEAN, pb7 : BOOLEAN, fired : BOOLEAN]
Timer2 == [count : Counts, latch : 0 .. Base - 1, reload : BOOLEAN, counting : BOOLEAN,
           passes : 0 .. 3, pb6Was : BOOLEAN, timedOut : BOOLEAN, fired : BOOLEAN]
Via == [fcr : Control, acr : Auxiliary, ifr : SUBSET Flags, ier : SUBSET Flags, irq : BOOLEAN,
        line : BOOLEAN, a : Port, b : Port, told : BOOLEAN, latchedA : SUBSET Pin,
        latchedB : SUBSET Pin, ca1 : BOOLEAN, ca2 : BOOLEAN, cb1 : BOOLEAN, cb1Was : BOOLEAN,
        cb2 : BOOLEAN, pulseA : BOOLEAN, pulseB : BOOLEAN, t1 : Timer1, t2 : Timer2,
        sr : Bytes, bits : 0 .. Width, clock : BOOLEAN, rising : BOOLEAN, data : BOOLEAN]

\* An enabled flag that is up is in the summary bit, and the summary bit is on
\* the line to the processor.
Sound(w) == /\ w.ier \cap w.ifr # {} => w.irq
            /\ w.irq => w.line

\* What the flags do to the line: w with flags fs, and the summary bit and the
\* line as they must be.
Raised(w, x, fs) ==
  \E irq, line \in BOOLEAN :
    /\ x = [w EXCEPT !.ifr = fs, !.irq = irq, !.line = line]
    /\ w.ier \cap fs # {} => irq
    /\ irq => line

\* OutputIRQ brings the summary bit and the line in step with the flags.
LEMMA OutputIRQKeeps ==
  ASSUME NEW w \in Via, NEW fs \in SUBSET Flags, w.irq => w.line
  PROVE  Raised(w, OutputIRQ([w EXCEPT !.ifr = fs]), fs)
<1> DEFINE x == [w EXCEPT !.ifr = fs]
<1>1. x \in Via /\ x.ifr = fs /\ x.ier = w.ier /\ x.irq = w.irq /\ x.line = w.line
  BY DEF Via
<1>2. CASE x.ier \cap x.ifr # {} /\ ~x.irq
  <2>1. OutputIRQ(x) = [w EXCEPT !.ifr = fs, !.irq = TRUE, !.line = TRUE]
    BY <1>2 DEF OutputIRQ, Via
  <2> QED BY <2>1 DEF Raised
<1>3. CASE x.ier \cap x.ifr = {} /\ x.irq
  <2>1. OutputIRQ(x) = [w EXCEPT !.ifr = fs, !.irq = FALSE, !.line = FALSE]
    BY <1>3 DEF OutputIRQ, Via
  <2> QED BY <1>1, <1>3, <2>1 DEF Raised
<1>4. CASE (x.ier \cap x.ifr # {}) = x.irq
  <2>1. OutputIRQ(x) = [w EXCEPT !.ifr = fs, !.irq = w.irq, !.line = w.line]
    BY <1>4 DEF OutputIRQ, Via
  <2> QED BY <1>1, <1>4, <2>1 DEF Raised, Via
<1> QED BY <1>1, <1>2, <1>3, <1>4 DEF Via

LEMMA RaisedKeeps ==
  ASSUME NEW w \in Via, NEW fs \in SUBSET Flags, NEW x, Raised(w, x, fs)
  PROVE  x \in Via /\ Sound(x)
BY DEF Raised, Sound, Via

\* So do the two that change a flag.
LEMMA SetInterruptKeeps ==
  ASSUME NEW w \in Via, Sound(w), NEW f \in Flags
  PROVE  Raised(w, SetInterrupt(w, f), w.ifr \cup {f})
<1>1. CASE f \in w.ifr
  <2>1. SetInterrupt(w, f) = [w EXCEPT !.ifr = w.ifr \cup {f}, !.irq = w.irq, !.line = w.line]
    BY <1>1 DEF SetInterrupt, Via
  <2>2. w.irq \in BOOLEAN /\ w.line \in BOOLEAN
    BY DEF Via
  <2>3. (w.ier \cap (w.ifr \cup {f}) # {} => w.irq) /\ (w.irq => w.line)
    <3>1. w.ifr \cup {f} = w.ifr
      BY <1>1
    <3> QED BY <3>1 DEF Sound
  <2> QED BY <2>1, <2>2, <2>3 DEF Raised
<1>2. CASE f \notin w.ifr
  <2>1. SetInterrupt(w, f) = OutputIRQ([w EXCEPT !.ifr = w.ifr \cup {f}])
    BY <1>2 DEF SetInterrupt
  <2> QED BY <2>1, OutputIRQKeeps DEF Via, Sound
<1> QED BY <1>1, <1>2

LEMMA ClearInterruptKeeps ==
  ASSUME NEW w \in Via, Sound(w), NEW fs \in SUBSET Flags
  PROVE  Raised(w, ClearInterrupt(w, fs), w.ifr \ fs)
<1>1. CASE w.ifr \cap fs = {}
  <2>1. ClearInterrupt(w, fs) = [w EXCEPT !.ifr = w.ifr \ fs, !.irq = w.irq, !.line = w.line]
    BY <1>1 DEF ClearInterrupt, Via
  <2> QED BY <1>1, <2>1 DEF Raised, Via, Sound
<1>2. CASE w.ifr \cap fs # {}
  <2>1. ClearInterrupt(w, fs) = OutputIRQ([w EXCEPT !.ifr = w.ifr \ fs])
    BY <1>2 DEF ClearInterrupt
  <2> QED BY <2>1, OutputIRQKeeps DEF Via, Sound
<1> QED BY <1>1, <1>2

\* A chip of its type whose enabled flags reach the processor.
Good(w) == w \in Via /\ Sound(w)

\* A good chip stays good whatever is done to its flags and enables.
LEMMA RaisedIsGood ==
  ASSUME NEW w \in Via, NEW fs \in SUBSET Flags, NEW x, Raised(w, x, fs)
  PROVE  Good(x)
BY RaisedKeeps DEF Good

LEMMA SetIsGood == ASSUME NEW w, Good(w), NEW f \in Flags PROVE Good(SetInterrupt(w, f))
BY SetInterruptKeeps, RaisedIsGood DEF Good, Via

LEMMA ClearIsGood == ASSUME NEW w, Good(w), NEW fs \in SUBSET Flags PROVE Good(ClearInterrupt(w, fs))
<1>1. w.ifr \ fs \in SUBSET Flags
  BY DEF Good, Via
<1> QED BY <1>1, ClearInterruptKeeps, RaisedIsGood DEF Good

LEMMA WriteIERIsGood ==
  ASSUME NEW w, Good(w), NEW fs \in SUBSET Flags, NEW set \in BOOLEAN
  PROVE  Good(WriteIER(w, fs, set))
<1> DEFINE x == [w EXCEPT !.ier = IF set THEN @ \cup fs ELSE @ \ fs]
<1>1. x \in Via /\ x.ifr \in SUBSET Flags /\ (x.irq => x.line) /\ x = [x EXCEPT !.ifr = x.ifr]
  BY DEF Good, Via, Sound
<1> HIDE DEF x
<1>2. Raised(x, OutputIRQ(x), x.ifr)
  BY <1>1, OutputIRQKeeps
<1> QED BY <1>1, <1>2, RaisedIsGood DEF WriteIER, x

LEMMA WriteIFRIsGood ==
  ASSUME NEW w, Good(w), NEW fs \in SUBSET Flags, NEW bit7 \in BOOLEAN
  PROVE  Good(WriteIFR(w, fs, bit7))
<1> DEFINE x == [w EXCEPT !.irq = @ /\ ~bit7]
           gs == w.ifr \ fs
<1>1. x \in Via /\ gs \in SUBSET Flags /\ (x.irq => x.line)
  BY DEF Good, Via, Sound
<1>2. [w EXCEPT !.ifr = @ \ fs, !.irq = @ /\ ~bit7] = [x EXCEPT !.ifr = gs]
  BY DEF Good, Via
<1> HIDE DEF x, gs
<1>3. Good(OutputIRQ([x EXCEPT !.ifr = gs]))
  BY <1>1, OutputIRQKeeps, RaisedIsGood
<1> QED BY <1>2, <1>3 DEF WriteIFR

----------------------------------------------------------------------------
(* Ports and control lines *)

\* The inputs and the ports keep the chip good.
LEMMA PinsArePins == ASSUME NEW p \in Port PROVE Pins(p) \in SUBSET Pin
BY DEF Pins, Port

LEMMA InputCA1IsGood == ASSUME NEW w, Good(w), NEW x \in BOOLEAN PROVE Good(InputCA1(w, x))
<1> DEFINE handshake == w.fcr.ca2.out /\ ~w.fcr.ca2.m1 /\ ~w.fcr.cb2.m0
           y == [w EXCEPT !.latchedA = Pins(w.a), !.ca2 = @ /\ ~handshake]
           z == IF w.ca1 # x /\ w.fcr.rise = x THEN SetInterrupt(y, "CA1") ELSE w
<1>1. Good(y)
  BY PinsArePins DEF Good, Via, Sound
<1> HIDE DEF y
<1>2. Good(z)
  BY <1>1, SetIsGood DEF Flags
<1> HIDE DEF z
<1>3. Good([z EXCEPT !.ca1 = x])
  BY <1>2 DEF Good, Via, Sound
<1> QED BY <1>3 DEF InputCA1, y, z

LEMMA InputCB1IsGood == ASSUME NEW w, Good(w), NEW x \in BOOLEAN PROVE Good(InputCB1(w, x))
<1> DEFINE handshake == w.fcr.cb2.out /\ ~w.fcr.cb2.m1 /\ ~w.fcr.cb2.m0
           y == [w EXCEPT !.latchedB = Pins(w.b), !.cb2 = @ /\ ~handshake]
           z == IF w.cb1 # x /\ w.fcr.rise = x THEN SetInterrupt(y, "CB1") ELSE w
<1>1. Good(y)
  BY PinsArePins DEF Good, Via, Sound
<1> HIDE DEF y
<1>2. Good(z)
  BY <1>1, SetIsGood DEF Flags
<1> HIDE DEF z
<1>3. Good([z EXCEPT !.cb1 = x])
  BY <1>2 DEF Good, Via, Sound
<1> QED BY <1>3 DEF InputCB1, y, z

LEMMA InputC2AreGood ==
  ASSUME NEW w, Good(w), NEW x \in BOOLEAN
  PROVE  Good(InputCA2(w, x)) /\ Good(InputCB2(w, x))
<1> DEFINE y(f) == IF w.ca2 # x /\ w.fcr.ca2.m1 = x THEN SetInterrupt(w, "CA2") ELSE w
           z == IF w.cb2 # x /\ w.fcr.cb2.m1 = x THEN SetInterrupt(w, "CB2") ELSE w
<1>1. Good(y("CA2")) /\ Good(z)
  BY SetIsGood DEF Flags
<1>2. Good([y("CA2") EXCEPT !.ca2 = x])
  <2> HIDE DEF y
  <2> QED BY <1>1 DEF Good, Via, Sound
<1>3. Good([z EXCEPT !.cb2 = x])
  <2> HIDE DEF z
  <2> QED BY <1>1 DEF Good, Via, Sound
<1> QED BY <1>2, <1>3 DEF InputCA2, InputCB2

LEMMA WithInputsIsGood ==
  ASSUME NEW w, Good(w), NEW ps \in SUBSET Pin, NEW s
  PROVE  Good(WithInputs(w, ps, s))
<1>1. Inputs(s) \in SUBSET Pin
  BY DEF Inputs, Pin, Outs
<1> QED BY <1>1 DEF Good, Via, Sound, WithInputs, Port

LEMMA SetOutputIsGood ==
  ASSUME NEW w, Good(w), NEW s \in SUBSET Pin
  PROVE  Good(SetOutput(w, s)) /\ Good(SetDirection(w, s))
BY DEF Good, Via, Sound, SetOutput, SetDirection, Port

LEMMA Pb7IsGood == ASSUME NEW w, Good(w), NEW high \in BOOLEAN PROVE Good(Pb7(w, high))
<1>1. w.b.out \cup {"PB7"} \in SUBSET Pin /\ w.b.out \ {"PB7"} \in SUBSET Pin
  BY DEF Good, Via, Port, Pin
<1> QED BY <1>1, SetOutputIsGood DEF Pb7

LEMMA PortsAreGood ==
  ASSUME NEW w, Good(w), NEW s \in SUBSET Pin, NEW handshake \in BOOLEAN
  PROVE  /\ Good(ReadPortB(w).via) /\ Good(WritePortB(w, s))
         /\ Good(ReadPortA(w, handshake).via) /\ Good(WritePortA(w, s, handshake))
<1>1. Good(ReadPortB(w).via) /\ Good(ReadPortA(w, handshake).via)
  BY ClearIsGood DEF ReadPortB, ReadPortA, Flags
<1>2. Good(WritePortB(w, s))
  <2> DEFINE x == ClearInterrupt(w, {"CB1", "CB2"})
  <2>1. Good(x)
    BY ClearIsGood DEF Flags
  <2> HIDE DEF x
  <2>2. Good([x EXCEPT !.cb2 = @ /\ ~(x.fcr.cb2.out /\ x.fcr.cb2.m1)])
    BY <2>1 DEF Good, Via, Sound
  <2> QED BY <2>2, SetOutputIsGood DEF WritePortB, x
<1>3. Good(WritePortA(w, s, handshake))
  <2> DEFINE x == IF handshake THEN ClearInterrupt(w, {"CA1", "CA2"}) ELSE w
  <2>1. Good(x)
    BY ClearIsGood DEF Flags
  <2> HIDE DEF x
  <2>2. Good([x EXCEPT !.a.out = s, !.ca2 = @ /\ ~(handshake /\ x.fcr.ca2.out /\ x.fcr.ca2.m1)])
    BY <2>1 DEF Good, Via, Sound, Port
  <2> QED BY <2>2 DEF WritePortA, x
<1> QED BY <1>1, <1>2, <1>3

LEMMA WriteFCRIsGood == ASSUME NEW w, Good(w), NEW c \in Control PROVE Good(WriteFCR(w, c))
<1>1. \A m \in Mode, old \in BOOLEAN : Level(m, old) \in BOOLEAN /\ Pulses(m, old) \in BOOLEAN
  BY DEF Level, Pulses, Mode
<1>2. c.ca2 \in Mode /\ c.cb2 \in Mode
  BY DEF Control
<1>3. PICK l2 \in BOOLEAN, p2 \in BOOLEAN, l4 \in BOOLEAN, p4 \in BOOLEAN :
        /\ l2 = Level(c.ca2, w.ca2) /\ p2 = Pulses(c.ca2, w.pulseA)
        /\ l4 = Level(c.cb2, w.cb2) /\ p4 = Pulses(c.cb2, w.pulseB)
  BY <1>1, <1>2 DEF Good, Via
<1> DEFINE x == [w EXCEPT !.fcr = c, !.ca2 = l2, !.pulseA = p2]
           y == [x EXCEPT !.cb2 = l4, !.pulseB = p4]
<1>4. WriteFCR(w, c) = y
  BY <1>3 DEF WriteFCR, Good, Via
<1>5. Good(x)
  BY DEF Good, Via, Sound
<1> HIDE DEF x
<1>6. Good(y)
  BY <1>5 DEF Good, Via, Sound
<1> QED BY <1>4, <1>6

----------------------------------------------------------------------------
(* Timers *)

LEMMA WordIsCount ==
  ASSUME NEW h \in 0 .. Base - 1, NEW l \in 0 .. Base - 1 PROVE Word(h, l) \in Counts
<1>1. Base \in Nat /\ Base >= 4
  BY ViaAssumption
<1>2. h * Base <= (Base - 1) * Base /\ h * Base \in Nat
  BY <1>1
<1>3. (Base - 1) * Base = Base * Base - Base /\ Base * Base \in Nat
  BY <1>1
<1> QED BY <1>1, <1>2, <1>3 DEF Word, Counts

LEMMA BytesOfCount ==
  ASSUME NEW c \in Counts
  PROVE  /\ Low(c) \in 0 .. Base - 1 /\ High(c) \in 0 .. Base - 1
         /\ c = Word(High(c), Low(c)) /\ Down(c) \in Counts
<1>1. Base \in Nat /\ Base >= 4 /\ Base * Base \in Nat /\ Base * Base >= 4
  BY ViaAssumption
<1>2. c \in Nat /\ c < Base * Base
  BY <1>1 DEF Counts
<1>3. c \div Base \in Nat /\ c % Base \in 0 .. Base - 1 /\ c = (Base * (c \div Base)) + (c % Base)
  BY <1>1, <1>2
<1>4. c \div Base < Base
  BY <1>1, <1>2, <1>3
<1> QED BY <1>1, <1>2, <1>3, <1>4 DEF Low, High, Word, Down, Counts

\* What a step of one part of the chip leaves to the others: all but the flag
\* f and the fields of timer 1, of timer 2 and of the shift register.
Beside(w, x, f) ==
  /\ x.fcr = w.fcr /\ x.acr = w.acr /\ x.ier = w.ier /\ x.ifr \ {f} = w.ifr \ {f}
  /\ x.a = w.a /\ x.b.dir = w.b.dir /\ x.b.in = w.b.in
  /\ x.ca1 = w.ca1 /\ x.ca2 = w.ca2 /\ x.cb1 = w.cb1 /\ x.cb2 = w.cb2
  /\ x.pulseA = w.pulseA /\ x.pulseB = w.pulseB

\* The groups of fields a step may leave alone.
Ports(w, x) == x.b = w.b /\ x.told = w.told
Shifter(w, x) == x.sr = w.sr /\ x.bits = w.bits /\ x.data = w.data /\ x.cb1Was = w.cb1Was
Clocks(w, x) == x.clock = w.clock /\ x.rising = w.rising

LEMMA SetBeside ==
  ASSUME NEW w, Good(w), NEW f \in Flags
  PROVE  LET x == SetInterrupt(w, f)
         IN /\ Beside(w, x, f) /\ Ports(w, x) /\ Shifter(w, x) /\ Clocks(w, x)
            /\ x.t1 = w.t1 /\ x.t2 = w.t2 /\ x.ifr = w.ifr \cup {f}
<1>1. Raised(w, SetInterrupt(w, f), w.ifr \cup {f})
  BY SetInterruptKeeps DEF Good
<1> QED BY <1>1 DEF Raised, Beside, Ports, Shifter, Clocks, Good, Via

\* A step that touches timer 1, its flag and PB7 alone.
T1Step(w, x) ==
  Good(x) /\ Beside(w, x, "T1") /\ Shifter(w, x) /\ Clocks(w, x) /\ x.t2 = w.t2
  /\ (~w.acr.pb7 => Ports(w, x))

LEMMA T1StepsCompose ==
  ASSUME NEW w, NEW x, NEW y, T1Step(w, x), T1Step(x, y) PROVE T1Step(w, y)
BY DEF T1Step, Beside, Ports, Shifter, Clocks

LEMMA T1SetIsStep == ASSUME NEW w, Good(w) PROVE T1Step(w, SetInterrupt(w, "T1"))
BY SetBeside, SetIsGood DEF T1Step, Flags

LEMMA T1FieldIsStep ==
  ASSUME NEW w, Good(w), NEW t \in Timer1 PROVE T1Step(w, [w EXCEPT !.t1 = t])
BY DEF T1Step, Good, Via, Sound, Beside, Ports, Shifter, Clocks

LEMMA Pb7IsStep ==
  ASSUME NEW w, Good(w), w.acr.pb7, NEW high \in BOOLEAN
  PROVE  T1Step(w, Pb7(w, high)) /\ Pb7(w, high).t1 = w.t1 /\ Pb7(w, high).ifr = w.ifr
<1>1. Good(Pb7(w, high))
  BY Pb7IsGood
<1>2. CASE "PB7" \notin w.b.dir
  BY <1>1, <1>2 DEF Pb7, T1Step, Beside, Ports, Shifter, Clocks
<1>3. CASE "PB7" \in w.b.dir
  <2>1. PICK s \in SUBSET Pin : Pb7(w, high) = SetOutput(w, s)
    <3>1. w.b.out \cup {"PB7"} \in SUBSET Pin /\ w.b.out \ {"PB7"} \in SUBSET Pin
      BY DEF Good, Via, Port, Pin
    <3> QED BY <1>3, <3>1 DEF Pb7
  <2> QED BY <1>1, <2>1 DEF SetOutput, T1Step, Beside, Shifter, Clocks, Good, Via, Port
<1> QED BY <1>2, <1>3

\* Does this cycle of timer 1 time out, and does that raise the flag?
TimesOut1(w) == ~w.t1.timedOut /\ w.t1.ticking /\ ~w.t1.reload /\ w.t1.count = 0
\* Timer 1's flag comes with the time out: every time, or the first time only.
Raises1(w) == TimesOut1(w) /\ IF w.acr.free THEN w.t1.irqs ELSE ~w.t1.fired

\* A cycle of timer 1.
T1Ticks(w, x) ==
  /\ "T1" \in x.ifr <=> "T1" \in w.ifr \/ Raises1(w)
  /\ x.t1.latch = w.t1.latch /\ x.t1.ticking = w.t1.ticking /\ x.t1.irqs = w.t1.irqs
  /\ ~x.t1.reload
  /\ x.t1.timedOut = TimesOut1(w)
  /\ x.t1.count = IF w.t1.timedOut THEN w.t1.latch
                  ELSE IF w.t1.ticking /\ ~w.t1.reload THEN Down(w.t1.count) ELSE w.t1.count

\* The two ways timer 1 counts, and both together.
LEMMA FreeRunIsStep ==
  ASSUME NEW w, Good(w)
  PROVE  LET x == FreeRun(w)
         IN /\ T1Step(w, x)
            /\ "T1" \in x.ifr <=> "T1" \in w.ifr \/ w.t1.irqs
            /\ x.t1.latch = w.t1.latch /\ x.t1.ticking = w.t1.ticking /\ x.t1.irqs = w.t1.irqs
            /\ x.t1.count = w.t1.count /\ x.t1.timedOut = w.t1.timedOut
<1> DEFINE y == IF w.t1.irqs THEN SetInterrupt(w, "T1") ELSE w
           t == [y.t1 EXCEPT !.pb7 = ~@]
           z == [y EXCEPT !.t1 = t]
<1>1. /\ T1Step(w, y) /\ Good(y) /\ y.t1 = w.t1 /\ y.acr = w.acr
      /\ "T1" \in y.ifr <=> "T1" \in w.ifr \/ w.t1.irqs
  <2>1. CASE w.t1.irqs
    BY <2>1, T1SetIsStep, SetBeside DEF T1Step, Beside, Flags
  <2>2. CASE ~w.t1.irqs
    BY <2>2 DEF T1Step, Beside, Ports, Shifter, Clocks
  <2> QED BY <2>1, <2>2
<1> HIDE DEF y
<1>2. t \in Timer1 /\ t.pb7 \in BOOLEAN
  BY <1>1 DEF Good, Via, Timer1
<1>3. /\ t.latch = y.t1.latch /\ t.ticking = y.t1.ticking /\ t.irqs = y.t1.irqs
      /\ t.count = y.t1.count /\ t.timedOut = y.t1.timedOut
  BY <1>1 DEF Good, Via, Timer1
<1> HIDE DEF t
<1>4. T1Step(y, z) /\ Good(z) /\ z.t1 = t /\ z.ifr = y.ifr /\ z.acr = y.acr
  BY <1>1, <1>2, T1FieldIsStep DEF T1Step, Good, Via
<1>5. z = [y EXCEPT !.t1.pb7 = ~@]
  BY <1>1 DEF t, Good, Via
<1> HIDE DEF z
<1>6. CASE w.t1.latch <= 1
  BY <1>1, <1>6 DEF FreeRun, y
<1>7. CASE ~(w.t1.latch <= 1) /\ w.acr.pb7
  <2>1. FreeRun(w) = Pb7(z, t.pb7)
    BY <1>4, <1>5, <1>7 DEF FreeRun, y
  <2>2. T1Step(z, Pb7(z, t.pb7)) /\ Pb7(z, t.pb7).t1 = z.t1 /\ Pb7(z, t.pb7).ifr = z.ifr
    BY <1>1, <1>2, <1>4, <1>7, Pb7IsStep
  <2>3. T1Step(w, Pb7(z, t.pb7))
    BY <1>1, <1>4, <2>2, T1StepsCompose
  <2> QED BY <1>1, <1>3, <1>4, <2>1, <2>2, <2>3
<1>8. CASE ~(w.t1.latch <= 1) /\ ~w.acr.pb7
  <2>1. FreeRun(w) = z
    BY <1>5, <1>8 DEF FreeRun, y
  <2>2. T1Step(w, z)
    BY <1>1, <1>4, T1StepsCompose
  <2> QED BY <1>1, <1>3, <1>4, <2>1, <2>2
<1> QED BY <1>6, <1>7, <1>8

LEMMA OneShotIsStep ==
  ASSUME NEW w, Good(w)
  PROVE  LET x == OneShot(w)
         IN /\ T1Step(w, x)
            /\ "T1" \in x.ifr <=> "T1" \in w.ifr \/ ~w.t1.fired
            /\ x.t1.latch = w.t1.latch /\ x.t1.ticking = w.t1.ticking /\ x.t1.irqs = w.t1.irqs
            /\ x.t1.count = w.t1.count /\ x.t1.timedOut = w.t1.timedOut
<1> DEFINE t == [w.t1 EXCEPT !.fired = TRUE]
           y == [w EXCEPT !.t1 = t]
           z == SetInterrupt(y, "T1")
           p == Pb7(z, TRUE)
           s == [z.t1 EXCEPT !.pb7 = FALSE]
<1>1. /\ t \in Timer1 /\ t.latch = w.t1.latch /\ t.ticking = w.t1.ticking
      /\ t.irqs = w.t1.irqs /\ t.count = w.t1.count /\ t.timedOut = w.t1.timedOut
  BY DEF Good, Via, Timer1
<1>2. y = [w EXCEPT !.t1.fired = TRUE]
  BY DEF Good, Via
<1> HIDE DEF t
<1>3. T1Step(w, y) /\ Good(y) /\ y.t1 = t /\ y.ifr = w.ifr /\ y.acr = w.acr
  BY <1>1, T1FieldIsStep DEF T1Step, Good, Via
<1> HIDE DEF y
<1>4. T1Step(y, z) /\ Good(z) /\ z.t1 = t /\ z.ifr = y.ifr \cup {"T1"} /\ z.acr = y.acr
  BY <1>3, T1SetIsStep, SetBeside DEF T1Step, Beside, Flags
<1> HIDE DEF z
<1>5. T1Step(w, z)
  BY <1>3, <1>4, T1StepsCompose
<1>6. CASE w.t1.fired
  BY <1>6 DEF OneShot, T1Step, Beside, Ports, Shifter, Clocks
<1>7. CASE ~w.t1.fired /\ ~w.acr.pb7
  <2>1. OneShot(w) = z
    BY <1>2, <1>7 DEF OneShot, z
  <2> QED BY <1>1, <1>3, <1>4, <1>5, <1>7, <2>1
<1>8. CASE ~w.t1.fired /\ w.acr.pb7
  <2>1. T1Step(z, p) /\ Good(p) /\ p.t1 = t /\ p.ifr = z.ifr
    BY <1>3, <1>4, <1>8, Pb7IsStep DEF T1Step
  <2> HIDE DEF p
  <2>2. /\ s \in Timer1 /\ s.latch = w.t1.latch /\ s.ticking = w.t1.ticking
        /\ s.irqs = w.t1.irqs /\ s.count = w.t1.count /\ s.timedOut = w.t1.timedOut
    BY <1>1, <1>4 DEF Timer1
  <2>3. OneShot(w) = [p EXCEPT !.t1 = s]
    BY <1>2, <1>4, <1>8, <2>1 DEF OneShot, z, p, Good, Via
  <2> HIDE DEF s
  <2>4. T1Step(p, [p EXCEPT !.t1 = s]) /\ [p EXCEPT !.t1 = s].t1 = s /\ [p EXCEPT !.t1 = s].ifr = p.ifr
    BY <2>1, <2>2, T1FieldIsStep DEF Good, Via
  <2>5. T1Step(w, [p EXCEPT !.t1 = s])
    BY <1>5, <2>1, <2>4, T1StepsCompose
  <2> QED BY <1>3, <1>4, <1>8, <2>1, <2>2, <2>3, <2>4, <2>5
<1> QED BY <1>6, <1>7, <1>8

LEMMA TickT1IsStep ==
  ASSUME NEW w, Good(w)
  PROVE  T1Step(w, TickT1(w)) /\ T1Ticks(w, TickT1(w))
<1> DEFINE t == [w.t1 EXCEPT !.count = Down(@), !.timedOut = w.t1.count = 0]
           r == [w.t1 EXCEPT !.count = w.t1.latch, !.timedOut = FALSE]
           y == [w EXCEPT !.t1 = t]
           last == [w EXCEPT !.t1 = r]
           x == IF w.t1.timedOut THEN last
                ELSE IF ~w.t1.ticking \/ w.t1.reload THEN w
                ELSE IF w.t1.count # 0 THEN y
                ELSE IF w.acr.free THEN FreeRun(y) ELSE OneShot(y)
           s == [x.t1 EXCEPT !.reload = FALSE]
           z == [x EXCEPT !.t1 = s]
<1>1. w.t1 \in Timer1 /\ Down(w.t1.count) \in Counts
  BY BytesOfCount DEF Good, Via, Timer1
<1>2. /\ t \in Timer1 /\ t.latch = w.t1.latch /\ t.ticking = w.t1.ticking /\ t.irqs = w.t1.irqs
      /\ t.fired = w.t1.fired /\ t.count = Down(w.t1.count) /\ t.timedOut = (w.t1.count = 0)
  BY <1>1 DEF Timer1
<1>3. /\ r \in Timer1 /\ r.latch = w.t1.latch /\ r.ticking = w.t1.ticking /\ r.irqs = w.t1.irqs
      /\ r.count = w.t1.latch /\ r.timedOut = FALSE
  BY <1>1 DEF Timer1
<1>4. y = [w EXCEPT !.t1.count = Down(@), !.t1.timedOut = w.t1.count = 0]
  BY DEF Good, Via, Timer1
<1>5. last = [w EXCEPT !.t1.count = w.t1.latch, !.t1.timedOut = FALSE]
  BY DEF Good, Via, Timer1
<1> HIDE DEF t, r
<1>6. T1Step(w, y) /\ Good(y) /\ y.t1 = t /\ y.ifr = w.ifr /\ y.acr = w.acr
  BY <1>2, T1FieldIsStep DEF T1Step, Good, Via
<1>7. T1Step(w, last) /\ Good(last) /\ last.t1 = r /\ last.ifr = w.ifr
  BY <1>3, T1FieldIsStep DEF T1Step, Good, Via
<1> HIDE DEF y, last
<1>8. TickT1(w) = [x EXCEPT !.t1.reload = FALSE]
  BY <1>4, <1>5 DEF TickT1
<1>9. /\ T1Step(w, x)
      /\ "T1" \in x.ifr <=> "T1" \in w.ifr \/ Raises1(w)
      /\ x.t1.latch = w.t1.latch /\ x.t1.ticking = w.t1.ticking /\ x.t1.irqs = w.t1.irqs
      /\ x.t1.timedOut = TimesOut1(w)
      /\ x.t1.count = IF w.t1.timedOut THEN w.t1.latch
                      ELSE IF w.t1.ticking /\ ~w.t1.reload THEN Down(w.t1.count) ELSE w.t1.count
  <2>1. CASE w.t1.timedOut
    BY <1>3, <1>7, <2>1 DEF TimesOut1, Raises1
  <2>2. CASE ~w.t1.timedOut /\ (~w.t1.ticking \/ w.t1.reload)
    BY <1>1, <2>2 DEF TimesOut1, Raises1, T1Step, Beside, Ports, Shifter, Clocks, Timer1
  <2>3. CASE ~w.t1.timedOut /\ w.t1.ticking /\ ~w.t1.reload /\ w.t1.count # 0
    BY <1>2, <1>6, <2>3 DEF TimesOut1, Raises1
  <2>4. CASE TimesOut1(w) /\ w.acr.free
    <3>1. x = FreeRun(y)
      BY <2>4 DEF TimesOut1
    <3>2. T1Step(w, x)
      BY <1>6, <3>1, FreeRunIsStep, T1StepsCompose
    <3> HIDE DEF x
    <3> QED BY <1>2, <1>6, <2>4, <3>1, <3>2, FreeRunIsStep DEF TimesOut1, Raises1
  <2>5. CASE TimesOut1(w) /\ ~w.acr.free
    <3>1. x = OneShot(y)
      BY <2>5 DEF TimesOut1
    <3>2. T1Step(w, x)
      BY <1>6, <3>1, OneShotIsStep, T1StepsCompose
    <3> HIDE DEF x
    <3> QED BY <1>2, <1>6, <2>5, <3>1, <3>2, OneShotIsStep DEF TimesOut1, Raises1
  <2> QED BY <1>1, <2>1, <2>2, <2>3, <2>4, <2>5 DEF TimesOut1, Timer1
<1> HIDE DEF x
<1>10. Good(x) /\ x.t1 \in Timer1
  BY <1>9 DEF T1Step, Good, Via
<1>11. /\ s \in Timer1 /\ s.latch = x.t1.latch /\ s.ticking = x.t1.ticking /\ s.irqs = x.t1.irqs
       /\ s.count = x.t1.count /\ s.timedOut = x.t1.timedOut /\ ~s.reload
  BY <1>10 DEF Timer1
<1>12. z = [x EXCEPT !.t1.reload = FALSE]
  BY <1>10 DEF Good, Via
<1> HIDE DEF s
<1>13. T1Step(x, z) /\ z.t1 = s /\ z.ifr = x.ifr
  BY <1>10, <1>11, T1FieldIsStep DEF Good, Via
<1>14. T1Step(w, z)
  BY <1>9, <1>13, T1StepsCompose
<1> QED BY <1>8, <1>9, <1>11, <1>12, <1>13, <1>14 DEF T1Ticks

\* A step that touches timer 2, its flag and the clock it gives the shift
\* register alone.
T2Step(w, x) ==
  Good(x) /\ Beside(w, x, "T2") /\ Ports(w, x) /\ Shifter(w, x) /\ x.t1 = w.t1

LEMMA T2StepsCompose ==
  ASSUME NEW w, NEW x, NEW y, T2Step(w, x), T2Step(x, y) PROVE T2Step(w, y)
BY DEF T2Step, Beside, Ports, Shifter

LEMMA T2SetIsStep ==
  ASSUME NEW w, Good(w)
  PROVE  LET x == SetInterrupt(w, "T2")
         IN T2Step(w, x) /\ x.t2 = w.t2 /\ x.ifr = w.ifr \cup {"T2"}
BY SetBeside, SetIsGood DEF T2Step, Flags

LEMMA T2FieldIsStep ==
  ASSUME NEW w, Good(w), NEW t \in Timer2
  PROVE  LET x == [w EXCEPT !.t2 = t]
         IN T2Step(w, x) /\ x.t2 = t /\ x.ifr = w.ifr
BY DEF T2Step, Good, Via, Sound, Beside, Ports, Shifter

LEMMA ClockIsStep ==
  ASSUME NEW w, Good(w)
  PROVE  T2Step(w, Clock(w)) /\ Clock(w).t2 = w.t2 /\ Clock(w).ifr = w.ifr
BY DEF Clock, T2Step, Good, Via, Sound, Beside, Ports, Shifter

\* What is said of a step that may only reload timer 2 or clock the shift register.
Preloads(w, x) ==
  /\ T2Step(w, x) /\ x.ifr = w.ifr
  /\ x.t2.counting = w.t2.counting /\ x.t2.fired = w.t2.fired
  /\ x.t2.pb6Was = w.t2.pb6Was /\ x.t2.reload = w.t2.reload

LEMMA ReloadT2IsStep ==
  ASSUME NEW w, Good(w)
  PROVE  Preloads(w, ReloadT2(w)) /\ (~w.t2.timedOut => ReloadT2(w) = w) /\ ~ReloadT2(w).t2.timedOut
<1> DEFINE y == IF ShiftByT2(w) THEN Clock(w) ELSE w
           n == IF w.t2.latch = Base - 1 THEN Down(w.t2.count) ELSE w.t2.count
           m == IF w.t2.passes > 1 /\ High(n) = 0 THEN Word(Base - 1, (w.t2.latch + 2) % Base)
                ELSE Word(High(n), w.t2.latch)
           t == [w.t2 EXCEPT !.timedOut = FALSE, !.count = m]
           x == [y EXCEPT !.t2 = t]
<1>1. w.t2 \in Timer2 /\ w.t2.latch \in 0 .. Base - 1 /\ Base \in Nat /\ Base >= 4
  BY ViaAssumption DEF Good, Via, Timer2
<1>2. n \in Counts
  BY <1>1, BytesOfCount DEF Timer2
<1>3. m \in Counts
  <2>1. (w.t2.latch + 2) % Base \in 0 .. Base - 1 /\ Base - 1 \in 0 .. Base - 1
    BY <1>1
  <2>2. High(n) \in 0 .. Base - 1
    BY <1>2, BytesOfCount
  <2> QED BY <1>1, <2>1, <2>2, WordIsCount
<1>4. ReloadT2(w) = IF w.t2.timedOut THEN [y EXCEPT !.t2.timedOut = FALSE, !.t2.count = m] ELSE w
  BY DEF ReloadT2
<1> HIDE DEF m
<1>5. /\ t \in Timer2 /\ t.counting = w.t2.counting /\ t.fired = w.t2.fired
      /\ t.pb6Was = w.t2.pb6Was /\ t.reload = w.t2.reload /\ ~t.timedOut
  BY <1>1, <1>3 DEF Timer2
<1>6. T2Step(w, y) /\ Good(y) /\ y.t2 = w.t2 /\ y.ifr = w.ifr
  BY ClockIsStep DEF T2Step, Beside, Ports, Shifter
<1> HIDE DEF y
<1>7. x = [y EXCEPT !.t2.timedOut = FALSE, !.t2.count = m]
  BY <1>1, <1>6 DEF Good, Via
<1> HIDE DEF t
<1>8. T2Step(y, x) /\ x.t2 = t /\ x.ifr = w.ifr
  BY <1>5, <1>6, T2FieldIsStep
<1>9. T2Step(w, x)
  BY <1>6, <1>8, T2StepsCompose
<1> HIDE DEF x
<1>10. CASE w.t2.timedOut
  BY <1>4, <1>5, <1>7, <1>8, <1>9, <1>10 DEF Preloads
<1>11. CASE ~w.t2.timedOut
  BY <1>4, <1>11 DEF Preloads, T2Step, Beside, Ports, Shifter
<1> QED BY <1>10, <1>11

LEMMA CountT2IsStep ==
  ASSUME NEW w, Good(w)
  PROVE  LET x == CountT2(w)
         IN /\ Preloads(w, x)
            /\ ~ShiftByT2(w) => /\ x.t2.count = Down(w.t2.count)
                                /\ x.t2.timedOut = (Down(w.t2.count) = 0)
<1> DEFINE n == Down(w.t2.count)
           pass == Low(n) = Base - 2
           passes == IF pass /\ w.t2.passes < 3 THEN w.t2.passes + 1 ELSE w.t2.passes
           t == [w.t2 EXCEPT !.count = n, !.timedOut = n = 0, !.passes = passes]
           y == [w EXCEPT !.t2 = t]
           c == Clock(y)
           s == [t EXCEPT !.count = Word(High(n), w.t2.latch), !.timedOut = FALSE]
<1>1. w.t2 \in Timer2 /\ w.t2.latch \in 0 .. Base - 1 /\ w.t2.passes \in 0 .. 3
  BY DEF Good, Via, Timer2
<1>2. n \in Counts /\ High(n) \in 0 .. Base - 1
  BY <1>1, BytesOfCount DEF Timer2
<1>3. passes \in 0 .. 3 /\ Word(High(n), w.t2.latch) \in Counts
  BY <1>1, <1>2, WordIsCount
<1>4. y = [w EXCEPT !.t2.count = n, !.t2.timedOut = n = 0, !.t2.passes = passes]
  BY <1>1 DEF Good, Via, Timer2
<1>5. CountT2(w) = IF pass /\ ShiftByT2(w) /\ passes > 1
                   THEN [c EXCEPT !.t2.count = Word(High(n), w.t2.latch), !.t2.timedOut = FALSE]
                   ELSE y
  <2> HIDE DEF y
  <2> QED BY <1>4 DEF CountT2
<1> HIDE DEF pass, passes, n
<1>6. /\ t \in Timer2 /\ t.counting = w.t2.counting /\ t.fired = w.t2.fired
      /\ t.pb6Was = w.t2.pb6Was /\ t.reload = w.t2.reload
      /\ t.count = n /\ t.timedOut = (n = 0)
  BY <1>1, <1>2, <1>3 DEF Timer2
<1> HIDE DEF t
<1>7. /\ s \in Timer2 /\ s.counting = w.t2.counting /\ s.fired = w.t2.fired
      /\ s.pb6Was = w.t2.pb6Was /\ s.reload = w.t2.reload
  BY <1>3, <1>6 DEF Timer2
<1>8. T2Step(w, y) /\ Good(y) /\ y.t2 = t /\ y.ifr = w.ifr
  BY <1>6, T2FieldIsStep DEF T2Step
<1> HIDE DEF y
<1>9. T2Step(w, c) /\ Good(c) /\ c.t2 = t /\ c.ifr = w.ifr
  BY <1>8, ClockIsStep, T2StepsCompose DEF T2Step
<1> HIDE DEF c
<1>10. [c EXCEPT !.t2 = s] =
         [c EXCEPT !.t2.count = Word(High(n), w.t2.latch), !.t2.timedOut = FALSE]
  BY <1>6, <1>9 DEF Good, Via
<1> HIDE DEF s
<1>11. LET x == [c EXCEPT !.t2 = s] IN T2Step(w, x) /\ x.t2 = s /\ x.ifr = w.ifr
  BY <1>7, <1>9, T2FieldIsStep, T2StepsCompose
<1>12. CASE pass /\ ShiftByT2(w) /\ passes > 1
  BY <1>5, <1>7, <1>10, <1>11, <1>12 DEF Preloads
<1>13. CASE ~(pass /\ ShiftByT2(w) /\ passes > 1)
  BY <1>5, <1>6, <1>8, <1>13 DEF Preloads, n
<1> QED BY <1>12, <1>13

\* Nothing but the clock makes timer 2 count, and every count is one down.
Plain(w) == ~w.acr.pb6 /\ ~w.t2.pb6Was /\ ~ShiftByT2(w)
\* Timer 2 reaches zero in this cycle.
TimesOut2(w) == w.t2.counting /\ ~w.t2.reload /\ Down(w.t2.count) = 0

\* A cycle of timer 2.
T2Ticks(w, x) ==
  /\ x.t2.counting = w.t2.counting /\ x.t2.pb6Was = w.acr.pb6
  /\ Plain(w) /\ (w.t2.fired \/ ~w.t2.counting)
       => ("T2" \in x.ifr <=> "T2" \in w.ifr) /\ x.t2.fired = w.t2.fired
  /\ Plain(w) /\ w.t2.counting /\ ~w.t2.fired /\ ~w.t2.timedOut
       => /\ "T2" \in x.ifr <=> "T2" \in w.ifr \/ TimesOut2(w)
          /\ x.t2.fired = TimesOut2(w)
          /\ ~TimesOut2(w) => ~x.t2.timedOut
          /\ ~x.t2.reload
          /\ x.t2.count = IF w.t2.reload THEN w.t2.count ELSE Down(w.t2.count)

LEMMA T2SameIsStep == ASSUME NEW w, Good(w) PROVE T2Step(w, w)
BY DEF T2Step, Beside, Ports, Shifter

\* What happens to a chip with a set of fields of timer 2 changed.
LEMMA T2Changed ==
  ASSUME NEW w, NEW a, Good(w), T2Step(w, a), NEW t \in Timer2
  PROVE  LET x == [a EXCEPT !.t2 = t]
         IN T2Step(w, x) /\ Good(x) /\ x.t2 = t /\ x.ifr = a.ifr
BY T2FieldIsStep, T2StepsCompose DEF T2Step

\* The end of timer 2's cycle, by the pulses on PB6 or by the clock.
LEMMA PulseIsStep ==
  ASSUME NEW w, NEW a, Good(w), Preloads(w, a), NEW n \in Counts
  PROVE  LET x == IF a.acr.pb6 THEN [a EXCEPT !.t2.fired = FALSE, !.t2.count = n, !.t2.timedOut = n = 0]
                  ELSE LET c == [a EXCEPT !.t2.fired = FALSE]
                       IN IF a.t2.count = 0 THEN SetInterrupt(c, "T2") ELSE c
         IN T2Step(w, x) /\ x.t2.counting = w.t2.counting
<1> DEFINE t == [a.t2 EXCEPT !.fired = FALSE, !.count = n, !.timedOut = n = 0]
           f == [a.t2 EXCEPT !.fired = FALSE]
           c == [a EXCEPT !.t2 = f]
<1>1. T2Step(w, a) /\ Good(a) /\ a \in Via /\ a.t2 \in Timer2 /\ a.t2.counting = w.t2.counting
  BY DEF Preloads, T2Step, Good, Via
<1>2. t \in Timer2 /\ t.counting = a.t2.counting /\ f \in Timer2 /\ f.counting = a.t2.counting
  BY <1>1 DEF Timer2
<1>3. /\ [a EXCEPT !.t2 = t] = [a EXCEPT !.t2.fired = FALSE, !.t2.count = n, !.t2.timedOut = n = 0]
      /\ c = [a EXCEPT !.t2.fired = FALSE]
  BY <1>1 DEF Via
<1> HIDE DEF t, f
<1>4. T2Step(w, [a EXCEPT !.t2 = t]) /\ [a EXCEPT !.t2 = t].t2 = t
  BY <1>1, <1>2, T2Changed
<1>5. T2Step(w, c) /\ Good(c) /\ c.t2 = f
  BY <1>1, <1>2, T2Changed
<1> HIDE DEF c
<1>6. T2Step(w, SetInterrupt(c, "T2")) /\ SetInterrupt(c, "T2").t2 = f
  BY <1>5, T2SetIsStep, T2StepsCompose
<1> QED BY <1>1, <1>2, <1>3, <1>4, <1>5, <1>6

LEMMA TickT2IsStep ==
  ASSUME NEW w, Good(w)
  PROVE  T2Step(w, TickT2(w)) /\ T2Ticks(w, TickT2(w))
<1> DEFINE a == ReloadT2(w)
           n == Down(a.t2.count)
           r == [a.t2 EXCEPT !.reload = FALSE]
           loaded == [a EXCEPT !.t2 = r]
           pulse == IF a.acr.pb6 THEN [a EXCEPT !.t2.fired = FALSE, !.t2.count = n, !.t2.timedOut = n = 0]
                    ELSE LET c == [a EXCEPT !.t2.fired = FALSE]
                         IN IF a.t2.count = 0 THEN SetInterrupt(c, "T2") ELSE c
           b == IF ~a.t2.counting THEN a
                ELSE IF a.acr.pb6 # a.t2.pb6Was THEN pulse
                ELSE IF a.t2.reload THEN loaded
                ELSE IF a.acr.pb6 THEN a ELSE CountT2(a)
           f == [b.t2 EXCEPT !.fired = TRUE]
           fired == [b EXCEPT !.t2 = f]
           d == IF b.t2.counting /\ b.t2.timedOut /\ ~b.t2.fired THEN SetInterrupt(fired, "T2") ELSE b
           s == [d.t2 EXCEPT !.pb6Was = w.acr.pb6]
           x == [d EXCEPT !.t2 = s]
<1>1. Preloads(w, a) /\ (~w.t2.timedOut => a = w) /\ ~a.t2.timedOut
  BY ReloadT2IsStep
<1> HIDE DEF a
<1>2. T2Step(w, a) /\ Good(a) /\ a \in Via /\ a.t2 \in Timer2 /\ a.acr = w.acr /\ a.ifr = w.ifr
  BY <1>1 DEF Preloads, T2Step, Good, Via, Beside
<1>3. n \in Counts
  BY <1>2, BytesOfCount DEF Timer2
<1> HIDE DEF n
<1>4. /\ r \in Timer2 /\ r.counting = a.t2.counting /\ r.fired = a.t2.fired
      /\ r.timedOut = FALSE /\ r.count = a.t2.count /\ ~r.reload
  BY <1>1, <1>2 DEF Timer2
<1>5. loaded = [a EXCEPT !.t2.reload = FALSE]
  BY <1>2 DEF Via
<1> HIDE DEF r
<1>6. T2Step(w, loaded) /\ loaded.t2 = r /\ loaded.ifr = a.ifr
  BY <1>2, <1>4, T2Changed
<1>7. T2Step(w, pulse) /\ pulse.t2.counting = w.t2.counting
  BY <1>1, <1>3, PulseIsStep
<1> HIDE DEF pulse, loaded
<1>8. /\ T2Step(w, b) /\ b.t2.counting = w.t2.counting
      /\ Plain(w) => /\ b.ifr = w.ifr /\ b.t2.fired = w.t2.fired
                     /\ w.t2.counting /\ ~w.t2.timedOut =>
                          /\ b.t2.timedOut = TimesOut2(w) /\ ~b.t2.reload
                          /\ b.t2.count = IF w.t2.reload THEN w.t2.count ELSE Down(w.t2.count)
  <2>1. CASE ~a.t2.counting
    BY <1>1, <1>2, <2>1 DEF Preloads
  <2>2. CASE a.t2.counting /\ a.acr.pb6 # a.t2.pb6Was
    BY <1>1, <1>2, <1>7, <2>2 DEF Preloads, Plain, Timer2, Good, Via, Auxiliary
  <2>3. CASE a.t2.counting /\ a.acr.pb6 = a.t2.pb6Was /\ a.t2.reload
    BY <1>1, <1>2, <1>4, <1>6, <2>3 DEF Preloads, TimesOut2
  <2>4. CASE a.t2.counting /\ a.acr.pb6 = a.t2.pb6Was /\ ~a.t2.reload /\ a.acr.pb6
    BY <1>1, <1>2, <2>4 DEF Preloads, Plain
  <2>5. CASE a.t2.counting /\ a.acr.pb6 = a.t2.pb6Was /\ ~a.t2.reload /\ ~a.acr.pb6
    <3>1. b = CountT2(a)
      BY <2>5
    <3>2. /\ Preloads(a, b)
          /\ ~ShiftByT2(a) => b.t2.count = Down(a.t2.count) /\ b.t2.timedOut = (Down(a.t2.count) = 0)
      BY <1>2, <3>1, CountT2IsStep
    <3>3. T2Step(w, b)
      BY <1>2, <3>2, T2StepsCompose DEF Preloads
    <3>4. ShiftByT2(a) = ShiftByT2(w)
      BY <1>2 DEF ShiftByT2
    <3> HIDE DEF b
    <3> QED BY <1>1, <1>2, <2>5, <3>2, <3>3, <3>4 DEF Preloads, Plain, TimesOut2
  <2> QED BY <2>1, <2>2, <2>3, <2>4, <2>5
<1> HIDE DEF b
<1>9. Good(b) /\ b \in Via /\ b.t2 \in Timer2
  BY <1>8 DEF T2Step, Good, Via
<1>10. /\ f \in Timer2 /\ f.counting = b.t2.counting /\ f.fired /\ f.timedOut = b.t2.timedOut
       /\ f.count = b.t2.count /\ f.reload = b.t2.reload
  BY <1>9 DEF Timer2
<1>11. fired = [b EXCEPT !.t2.fired = TRUE]
  BY <1>9 DEF Via
<1> HIDE DEF f
<1>12. T2Step(w, fired) /\ Good(fired) /\ fired.t2 = f /\ fired.ifr = b.ifr
  BY <1>8, <1>10, T2Changed
<1> HIDE DEF fired
<1>13. LET y == SetInterrupt(fired, "T2")
       IN T2Step(w, y) /\ y.t2 = f /\ y.ifr = b.ifr \cup {"T2"}
  BY <1>12, T2SetIsStep, T2StepsCompose
<1>14. T2Step(w, d) /\ d.t2 \in Timer2 /\ d.t2.counting = w.t2.counting
  BY <1>8, <1>9, <1>10, <1>13
<1>15. TickT2(w) = [d EXCEPT !.t2.pb6Was = w.acr.pb6]
  BY <1>5, <1>11 DEF TickT2, a, b, n, pulse
<1>16. /\ "T2" \in d.ifr <=> "T2" \in b.ifr \/ (b.t2.counting /\ b.t2.timedOut /\ ~b.t2.fired)
       /\ d.t2.fired = (b.t2.fired \/ (b.t2.counting /\ b.t2.timedOut))
       /\ d.t2.timedOut = b.t2.timedOut /\ d.t2.reload = b.t2.reload /\ d.t2.count = b.t2.count
  BY <1>9, <1>10, <1>13 DEF Timer2
<1> HIDE DEF d
<1>17. Good(d) /\ d \in Via /\ w.acr.pb6 \in BOOLEAN
  BY <1>14 DEF T2Step, Good, Via, Auxiliary
<1>18. /\ s \in Timer2 /\ s.counting = w.t2.counting /\ s.fired = d.t2.fired /\ s.count = d.t2.count
       /\ s.timedOut = d.t2.timedOut /\ s.reload = d.t2.reload /\ s.pb6Was = w.acr.pb6
  BY <1>14, <1>17 DEF Timer2
<1>19. x = TickT2(w)
  BY <1>15, <1>17 DEF Via
<1> HIDE DEF s
<1>20. T2Step(w, x) /\ x.t2 = s /\ x.ifr = d.ifr
  BY <1>14, <1>18, T2Changed
<1> HIDE DEF x
<1>21. w.t2.fired \in BOOLEAN /\ w.t2.counting \in BOOLEAN /\ w.t2.timedOut \in BOOLEAN
  BY DEF Good, Via, Timer2
<1>22. T2Ticks(w, x)
  BY <1>8, <1>16, <1>18, <1>20, <1>21 DEF T2Ticks, TimesOut2
<1> QED BY <1>19, <1>20, <1>22

----------------------------------------------------------------------------
(* Shift register *)

\* The register after one bit has come in at its low end.
Shifted(s, x) == [i \in 1 .. Width |-> IF i = Width THEN x ELSE s[i + 1]]

LEMMA ShiftedIsByte ==
  ASSUME NEW s \in Bytes, NEW x \in BOOLEAN
  PROVE  Append(Tail(s), x) = Shifted(s, x) /\ Shifted(s, x) \in Bytes
<1>1. Width \in Nat /\ Width >= 1
  BY ViaAssumption
<1>2. s \in Seq(BOOLEAN) /\ Len(s) = Width
  BY <1>1 DEF Bytes
<1>3. Tail(s) \in Seq(BOOLEAN) /\ Len(Tail(s)) = Width - 1 /\ \A i \in 1 .. Width - 1 : Tail(s)[i] = s[i + 1]
  BY <1>1, <1>2
<1>4. /\ Append(Tail(s), x) \in Seq(BOOLEAN) /\ Len(Append(Tail(s), x)) = Width
      /\ \A i \in 1 .. Width : Append(Tail(s), x)[i] = IF i = Width THEN x ELSE s[i + 1]
  BY <1>1, <1>3
<1>5. Append(Tail(s), x) \in Bytes
  BY <1>1, <1>4, LenProperties DEF Bytes
<1> QED BY <1>1, <1>4, <1>5 DEF Shifted, Bytes

\* A step that touches the shift register, its flag, its clock and CB2 alone.
SRStep(w, x) ==
  Good(x) /\ Beside(w, x, "SR") /\ Ports(w, x) /\ x.t1 = w.t1 /\ x.t2 = w.t2

LEMMA SRStepsCompose ==
  ASSUME NEW w, NEW x, NEW y, SRStep(w, x), SRStep(x, y) PROVE SRStep(w, y)
BY DEF SRStep, Beside, Ports

\* A bit more in the register, the flag with the last.
LEMMA CountedIsStep ==
  ASSUME NEW w, Good(w), w.bits # Width
  PROVE  LET x == Counted(w)
         IN /\ SRStep(w, x) /\ x.sr = w.sr /\ x.bits = w.bits + 1 /\ x.cb1Was = w.cb1Was
            /\ "SR" \in x.ifr <=> "SR" \in w.ifr \/ w.bits + 1 = Width
<1> DEFINE y == [w EXCEPT !.bits = w.bits + 1]
<1>1. w.bits + 1 \in 0 .. Width
  BY ViaAssumption DEF Good, Via
<1>2. /\ SRStep(w, y) /\ Good(y) /\ y.bits = w.bits + 1 /\ y.sr = w.sr /\ y.ifr = w.ifr
      /\ y.cb1Was = w.cb1Was
  BY <1>1 DEF SRStep, Good, Via, Sound, Beside, Ports
<1> HIDE DEF y
<1>3. LET x == SetInterrupt(y, "SR")
      IN SRStep(y, x) /\ x.sr = y.sr /\ x.bits = y.bits /\ x.ifr = y.ifr \cup {"SR"}
         /\ x.cb1Was = y.cb1Was
  BY <1>2, SetBeside, SetIsGood DEF SRStep, Flags, Shifter
<1>4. Counted(w) = IF y.bits = Width THEN SetInterrupt(y, "SR") ELSE y
  BY DEF Counted, y
<1>5. CASE y.bits = Width
  BY <1>2, <1>3, <1>4, <1>5, SRStepsCompose
<1>6. CASE y.bits # Width
  BY <1>2, <1>4, <1>6
<1> QED BY <1>5, <1>6

LEMMA ShiftsAreSteps ==
  ASSUME NEW w, Good(w)
  PROVE  /\ SRStep(w, Rotate(w))
         /\ w.bits # Width =>
              /\ SRStep(w, ShiftOut(w))
              /\ LET x == ShiftIn(w)
                 IN /\ SRStep(w, x) /\ x.sr = Shifted(w.sr, w.cb2) /\ x.bits = w.bits + 1
                    /\ "SR" \in x.ifr <=> "SR" \in w.ifr \/ w.bits + 1 = Width
<1> DEFINE r == [w EXCEPT !.sr = Append(Tail(@), Head(@)), !.data = Head(w.sr)]
           y == [w EXCEPT !.sr = Append(Tail(@), w.cb2)]
<1>1. w.sr \in Bytes /\ w.cb2 \in BOOLEAN /\ Head(w.sr) \in BOOLEAN
  BY ViaAssumption DEF Good, Via, Bytes
<1>2. PICK s \in Bytes : s = Append(Tail(w.sr), Head(w.sr))
  BY <1>1, ShiftedIsByte
<1>3. Append(Tail(w.sr), w.cb2) = Shifted(w.sr, w.cb2) /\ Shifted(w.sr, w.cb2) \in Bytes
  BY <1>1, ShiftedIsByte
<1>4. PICK u \in Bytes : u = Shifted(w.sr, w.cb2)
  BY <1>3
<1>5. r = [w EXCEPT !.sr = s, !.data = Head(w.sr)] /\ y = [w EXCEPT !.sr = u]
  BY <1>2, <1>3, <1>4 DEF Good, Via
<1>6. SRStep(w, r) /\ Good(r) /\ r.bits = w.bits
  <2> HIDE DEF r
  <2> QED BY <1>1, <1>5 DEF SRStep, Good, Via, Sound, Beside, Ports
<1>7. SRStep(w, y) /\ Good(y) /\ y.bits = w.bits /\ y.ifr = w.ifr /\ y.sr = u
  <2> HIDE DEF y
  <2> QED BY <1>1, <1>5 DEF SRStep, Good, Via, Sound, Beside, Ports
<1>8. Rotate(w) = r /\ ShiftOut(w) = Counted(r) /\ ShiftIn(w) = Counted(y)
  BY DEF Rotate, ShiftOut, ShiftIn
<1> HIDE DEF r, y
<1>9. w.bits # Width => SRStep(w, Counted(r))
  BY <1>6, CountedIsStep, SRStepsCompose
<1>10. w.bits # Width => SRStep(w, Counted(y))
  BY <1>7, CountedIsStep, SRStepsCompose
<1> QED BY <1>4, <1>6, <1>7, <1>8, <1>9, <1>10, CountedIsStep

\* What mode 3 does in a cycle: a falling CB1 shifts a bit in.
Falls(w) == w.cb1Was /\ ~w.cb1

\* A falling edge of CB1 takes CB2 in, and the flag comes with the last bit.
ShiftsInExternally(w, x) ==
  /\ x.cb1Was = w.cb1
  /\ w.acr.shift = 3 /\ Falls(w) /\ w.bits # Width
       => /\ x.sr = Shifted(w.sr, w.cb2) /\ x.bits = w.bits + 1
          /\ "SR" \in x.ifr <=> "SR" \in w.ifr \/ w.bits + 1 = Width
  /\ w.acr.shift = 3 /\ ~(Falls(w) /\ w.bits # Width)
       => x.sr = w.sr /\ x.bits = w.bits /\ ("SR" \in x.ifr <=> "SR" \in w.ifr)

LEMMA TickSRIsStep ==
  ASSUME NEW w, Good(w), NEW rose \in BOOLEAN
  PROVE  SRStep(w, TickSR(w, rose)) /\ ShiftsInExternally(w, TickSR(w, rose))
<1> DEFINE toggled == [w EXCEPT !.clock = ~@]
           open == w.bits # Width
           x == CASE w.acr.shift = 1 /\ w.t2.passes > 2 /\ rose /\ open -> ShiftIn(w)
                  [] w.acr.shift = 2 /\ open -> ShiftIn(toggled)
                  [] w.acr.shift = 3 /\ Falls(w) /\ open -> ShiftIn(w)
                  [] w.acr.shift = 4 /\ rose -> Rotate(w)
                  [] w.acr.shift = 5 /\ w.t2.passes > 2 /\ rose /\ open -> ShiftOut(w)
                  [] w.acr.shift = 6 /\ open -> IF toggled.clock THEN toggled ELSE ShiftOut(toggled)
                  [] w.acr.shift = 7 /\ Falls(w) /\ open -> ShiftOut(toggled)
                  [] OTHER -> w
           y == [x EXCEPT !.cb1Was = w.cb1]
<1>1. TickSR(w, rose) = y
  BY DEF TickSR, Falls
<1>2. SRStep(w, toggled) /\ Good(toggled) /\ toggled.bits = w.bits
  BY DEF SRStep, Good, Via, Sound, Beside, Ports
<1>3. SRStep(w, w)
  BY DEF SRStep, Beside, Ports
<1>4. SRStep(w, Rotate(w)) /\ (open => SRStep(w, ShiftOut(w)) /\ SRStep(w, ShiftIn(w)))
  BY ShiftsAreSteps
<1>5. open => SRStep(w, ShiftOut(toggled)) /\ SRStep(w, ShiftIn(toggled))
  <2> HIDE DEF toggled
  <2> QED BY <1>2, ShiftsAreSteps, SRStepsCompose
<1> HIDE DEF toggled
<1>6. SRStep(w, x)
  BY <1>2, <1>3, <1>4, <1>5
<1>7. /\ w.acr.shift = 3 /\ Falls(w) /\ open => x = ShiftIn(w)
      /\ w.acr.shift = 3 /\ ~(Falls(w) /\ open) => x = w
  OBVIOUS
<1> HIDE DEF x
<1>8. w.cb1 \in BOOLEAN /\ Good(x)
  BY <1>6 DEF Good, Via, SRStep
<1>9. SRStep(x, y) /\ y.cb1Was = w.cb1 /\ y.sr = x.sr /\ y.bits = x.bits /\ y.ifr = x.ifr
  BY <1>8 DEF SRStep, Good, Via, Sound, Beside, Ports
<1>10. SRStep(w, y)
  BY <1>6, <1>9, SRStepsCompose
<1>11. ShiftsInExternally(w, y)
  BY <1>7, <1>9, ShiftsAreSteps DEF ShiftsInExternally
<1> QED BY <1>1, <1>10, <1>11

----------------------------------------------------------------------------
(* A cycle of the chip *)

\* What a cycle does to the chip w, as far as the properties ask.
Cycle(w, x) ==
  /\ Good(x)
  /\ x.fcr = w.fcr /\ x.acr = w.acr /\ x.ier = w.ier /\ x.a = w.a /\ x.b.dir = w.b.dir
  /\ x.b.in = w.b.in /\ x.ca1 = w.ca1 /\ x.cb1 = w.cb1
  /\ x.pulseA = w.pulseA /\ x.pulseB = w.pulseB
  /\ x.cb2 = (w.cb2 /\ ~w.pulseB)
  /\ \A f \in Flags \ {"T1", "T2", "SR"} : f \in x.ifr <=> f \in w.ifr
  /\ ~w.acr.pb7 => Ports(w, x)
  /\ T1Ticks(w, x)
  /\ T2Ticks(w, x)
  /\ ~w.pulseB => ShiftsInExternally(w, x)

\* A cycle of the chip is its three parts, one after the other.
LEMMA ExecuteIsCycle == ASSUME NEW w, Good(w) PROVE Cycle(w, Execute(w))
<1> DEFINE a == [w EXCEPT !.ca2 = @ /\ ~w.pulseA, !.cb2 = @ /\ ~w.pulseB]
           b == TickT1(a)
           c == [b EXCEPT !.rising = FALSE]
           d == TickT2(c)
           x == TickSR(d, b.rising)
<1>0. PICK ca2 \in BOOLEAN, cb2 \in BOOLEAN :
        ca2 = (w.ca2 /\ ~w.pulseA) /\ cb2 = (w.cb2 /\ ~w.pulseB)
  OBVIOUS
<1>1. /\ Good(a) /\ a.cb2 = (w.cb2 /\ ~w.pulseB)
      /\ Ports(w, a) /\ Shifter(w, a) /\ a.t1 = w.t1 /\ a.t2 = w.t2 /\ a.ifr = w.ifr
      /\ a.fcr = w.fcr /\ a.acr = w.acr /\ a.ier = w.ier /\ a.a = w.a /\ a.b = w.b
      /\ a.ca1 = w.ca1 /\ a.cb1 = w.cb1 /\ a.pulseA = w.pulseA /\ a.pulseB = w.pulseB
  <2>1. a = [w EXCEPT !.ca2 = ca2, !.cb2 = cb2]
    BY <1>0
  <2> HIDE DEF a
  <2>2. Good(a)
    BY <2>1 DEF Good, Via, Sound
  <2> QED BY <1>0, <2>1, <2>2 DEF Good, Via, Ports, Shifter
<1> HIDE DEF a
<1>2. T1Step(a, b) /\ T1Ticks(a, b) /\ Good(b)
  BY <1>1, TickT1IsStep DEF T1Step
<1> HIDE DEF b
<1>3. /\ Good(c) /\ Beside(b, c, "T2") /\ Ports(b, c) /\ Shifter(b, c) /\ c.t1 = b.t1
      /\ c.t2 = b.t2 /\ c.ifr = b.ifr /\ b.rising \in BOOLEAN
  BY <1>2 DEF Good, Via, Sound, Beside, Ports, Shifter
<1> HIDE DEF c
<1>4. T2Step(c, d) /\ T2Ticks(c, d) /\ Good(d)
  BY <1>3, TickT2IsStep DEF T2Step
<1> HIDE DEF d
<1>5. SRStep(d, x) /\ ShiftsInExternally(d, x)
  BY <1>3, <1>4, TickSRIsStep
<1> HIDE DEF x
<1>6. Execute(w) = x
  BY DEF Execute, a, b, c, d, x
<1>7. /\ Good(x)
      /\ x.fcr = w.fcr /\ x.acr = w.acr /\ x.ier = w.ier /\ x.a = w.a /\ x.b.dir = w.b.dir
      /\ x.b.in = w.b.in /\ x.ca1 = w.ca1 /\ x.cb1 = w.cb1
      /\ x.pulseA = w.pulseA /\ x.pulseB = w.pulseB /\ x.cb2 = (w.cb2 /\ ~w.pulseB)
  BY <1>1, <1>2, <1>3, <1>4, <1>5 DEF T1Step, T2Step, SRStep, Beside
<1>8. \A f \in Flags \ {"T1", "T2", "SR"} : f \in x.ifr <=> f \in w.ifr
  BY <1>1, <1>2, <1>3, <1>4, <1>5 DEF T1Step, T2Step, SRStep, Beside
<1>9. ~w.acr.pb7 => Ports(w, x)
  BY <1>1, <1>2, <1>3, <1>4, <1>5 DEF T1Step, T2Step, SRStep, Ports
<1>10. T1Ticks(w, x)
  <2>1. x.t1 = b.t1 /\ ("T1" \in x.ifr <=> "T1" \in b.ifr)
    BY <1>3, <1>4, <1>5 DEF T2Step, SRStep, Beside
  <2>2. a.t1 = w.t1 /\ a.acr = w.acr /\ a.ifr = w.ifr
    BY <1>1
  <2> QED BY <1>2, <2>1, <2>2 DEF T1Ticks, TimesOut1, Raises1
<1>11. T2Ticks(w, x)
  <2>1. x.t2 = d.t2 /\ ("T2" \in x.ifr <=> "T2" \in d.ifr)
    BY <1>5 DEF SRStep, Beside
  <2>2. c.t2 = w.t2 /\ c.acr = w.acr /\ ("T2" \in c.ifr <=> "T2" \in w.ifr)
    BY <1>1, <1>2, <1>3 DEF T1Step, Beside
  <2> QED BY <1>4, <2>1, <2>2 DEF T2Ticks, TimesOut2, Plain, ShiftByT2
<1>12. ~w.pulseB => ShiftsInExternally(w, x)
  <2> SUFFICES ASSUME ~w.pulseB PROVE ShiftsInExternally(w, x)
    OBVIOUS
  <2>1. /\ d.sr = w.sr /\ d.bits = w.bits /\ d.cb1Was = w.cb1Was /\ d.cb1 = w.cb1
        /\ d.acr = w.acr /\ ("SR" \in d.ifr <=> "SR" \in w.ifr)
    BY <1>1, <1>2, <1>3, <1>4 DEF T1Step, T2Step, Beside, Shifter
  <2>2. d.cb2 = w.cb2
    <3>1. d.cb2 = (w.cb2 /\ ~w.pulseB) /\ w.cb2 \in BOOLEAN
      BY <1>1, <1>2, <1>3, <1>4 DEF T1Step, T2Step, Beside, Good, Via
    <3> QED BY <3>1
  <2> QED BY <1>5, <2>1, <2>2 DEF ShiftsInExternally, Falls
<1> QED BY <1>6, <1>7, <1>8, <1>9, <1>10, <1>11, <1>12 DEF Cycle

----------------------------------------------------------------------------
(* The firmware's accesses *)

\* CA1 is left alone: its level, its edge, and its flag but for clearing it.
Quiet(w, x) ==
  /\ x.ca1 = w.ca1 /\ x.fcr.rise = w.fcr.rise
  /\ "CA1" \in x.ifr => "CA1" \in w.ifr

\* The timers and the shift register leave CA1 alone.
LEMMA StepsAreQuiet ==
  ASSUME NEW w, NEW x, T1Step(w, x) \/ T2Step(w, x) \/ SRStep(w, x) PROVE Quiet(w, x)
BY DEF T1Step, T2Step, SRStep, Beside, Quiet

LEMMA ClearBeside ==
  ASSUME NEW w, Good(w), NEW fs \in SUBSET Flags
  PROVE  \E irq, line \in BOOLEAN :
           ClearInterrupt(w, fs) = [w EXCEPT !.ifr = w.ifr \ fs, !.irq = irq, !.line = line]
<1>1. Raised(w, ClearInterrupt(w, fs), w.ifr \ fs)
  BY ClearInterruptKeeps DEF Good
<1> QED BY <1>1 DEF Raised

LEMMA ClearIsStep ==
  ASSUME NEW w, Good(w)
  PROVE  /\ LET x == ClearInterrupt(w, {"T1"})
            IN T1Step(w, x) /\ x.t1 = w.t1 /\ x.ifr = w.ifr \ {"T1"} /\ x.acr = w.acr
         /\ LET x == ClearInterrupt(w, {"T2"})
            IN T2Step(w, x) /\ x.t2 = w.t2 /\ x.ifr = w.ifr \ {"T2"} /\ x.acr = w.acr
         /\ LET x == ClearInterrupt(w, {"SR"})
            IN /\ SRStep(w, x) /\ x.sr = w.sr /\ x.bits = w.bits /\ x.ifr = w.ifr \ {"SR"}
               /\ x.cb1Was = w.cb1Was /\ x.acr = w.acr
<1>1. ASSUME NEW f \in Flags
      PROVE  LET x == ClearInterrupt(w, {f})
             IN /\ Good(x) /\ Beside(w, x, f) /\ Ports(w, x) /\ Shifter(w, x) /\ Clocks(w, x)
                /\ x.t1 = w.t1 /\ x.t2 = w.t2 /\ x.ifr = w.ifr \ {f}
  <2> DEFINE x == ClearInterrupt(w, {f})
  <2>1. {f} \in SUBSET Flags
    OBVIOUS
  <2>2. PICK irq \in BOOLEAN, line \in BOOLEAN :
          x = [w EXCEPT !.ifr = w.ifr \ {f}, !.irq = irq, !.line = line]
    BY <2>1, ClearBeside
  <2>3. Good(x)
    BY <2>1, ClearIsGood
  <2> HIDE DEF x
  <2>4. Beside(w, x, f) /\ Ports(w, x) /\ x.ifr = w.ifr \ {f}
    BY <2>2 DEF Beside, Ports, Good, Via
  <2>5. Shifter(w, x) /\ Clocks(w, x) /\ x.t1 = w.t1 /\ x.t2 = w.t2
    BY <2>2 DEF Shifter, Clocks, Good, Via
  <2> QED BY <2>3, <2>4, <2>5 DEF x
<1> QED BY <1>1 DEF T1Step, T2Step, SRStep, Flags, Shifter, Beside

LEMMA PortsAreQuiet ==
  ASSUME NEW w, Good(w), NEW s \in SUBSET Pin, NEW handshake \in BOOLEAN
  PROVE  /\ Quiet(w, ReadPortB(w).via) /\ Quiet(w, WritePortB(w, s)) /\ Quiet(w, SetDirection(w, s))
         /\ Quiet(w, ReadPortA(w, handshake).via) /\ Quiet(w, WritePortA(w, s, handshake))
<1>1. \A fs \in SUBSET Flags : Quiet(w, ClearInterrupt(w, fs)) /\ Good(ClearInterrupt(w, fs))
  <2> SUFFICES ASSUME NEW fs \in SUBSET Flags
               PROVE  Quiet(w, ClearInterrupt(w, fs)) /\ Good(ClearInterrupt(w, fs))
    OBVIOUS
  <2>1. PICK irq \in BOOLEAN, line \in BOOLEAN :
          ClearInterrupt(w, fs) = [w EXCEPT !.ifr = w.ifr \ fs, !.irq = irq, !.line = line]
    BY ClearBeside
  <2> QED BY <2>1, ClearIsGood DEF Good, Via, Quiet
<1>2. Quiet(w, w)
  BY DEF Quiet
<1>3. {"CB1", "CB2"} \in SUBSET Flags /\ {"CA1", "CA2"} \in SUBSET Flags
  BY DEF Flags
<1>4. Quiet(w, ReadPortB(w).via) /\ Quiet(w, ReadPortA(w, handshake).via)
  BY <1>1, <1>2, <1>3 DEF ReadPortB, ReadPortA
<1>5. Quiet(w, WritePortB(w, s)) /\ Quiet(w, SetDirection(w, s))
  <2> DEFINE x == ClearInterrupt(w, {"CB1", "CB2"})
  <2>1. Quiet(w, x) /\ Good(x)
    BY <1>1, <1>3
  <2> HIDE DEF x
  <2>2. WritePortB(w, s) = SetOutput([x EXCEPT !.cb2 = @ /\ ~(x.fcr.cb2.out /\ x.fcr.cb2.m1)], s)
    BY DEF WritePortB, x
  <2> QED BY <2>1, <2>2 DEF SetOutput, SetDirection, Quiet, Good, Via
<1>6. Quiet(w, WritePortA(w, s, handshake))
  <2> DEFINE x == IF handshake THEN ClearInterrupt(w, {"CA1", "CA2"}) ELSE w
  <2>1. Quiet(w, x) /\ Good(x)
    BY <1>1, <1>2, <1>3
  <2> HIDE DEF x
  <2>2. WritePortA(w, s, handshake) =
          [x EXCEPT !.a.out = s, !.ca2 = @ /\ ~(handshake /\ x.fcr.ca2.out /\ x.fcr.ca2.m1)]
    BY DEF WritePortA, x
  <2> QED BY <2>1, <2>2 DEF Quiet, Good, Via
<1> QED BY <1>4, <1>5, <1>6

\* A store to timer 1 starts it.
LEMMA WriteT1CHIsStep ==
  ASSUME NEW w, Good(w), NEW h \in 0 .. Base - 1
  PROVE  LET x == WriteT1CH(w, h)
             n == Word(h, Low(w.t1.latch))
         IN /\ T1Step(w, x) /\ n \in Counts
            /\ x.t1.count = n /\ x.t1.latch = n /\ x.t1.ticking /\ x.t1.reload
            /\ x.t1.timedOut = (n = 0)
<1> DEFINE n == Word(h, Low(w.t1.latch))
           t == [w.t1 EXCEPT !.latch = n, !.count = n, !.ticking = TRUE, !.reload = TRUE,
                             !.irqs = TRUE, !.timedOut = n = 0, !.pb7 = TRUE, !.fired = @ /\ w.acr.free]
           y == [w EXCEPT !.t1 = t]
           z == ClearInterrupt(y, {"T1"})
<1>1. n \in Counts
  BY BytesOfCount, WordIsCount DEF Good, Via, Timer1
<1>2. y = [w EXCEPT
             !.t1.latch = n, !.t1.count = n, !.t1.ticking = TRUE, !.t1.reload = TRUE,
             !.t1.irqs = TRUE, !.t1.timedOut = n = 0, !.t1.pb7 = TRUE,
             !.t1.fired = @ /\ w.acr.free]
  <2> DEFINE u == [w.t1 EXCEPT !.latch = n, !.count = n, !.ticking = TRUE, !.reload = TRUE]
             q == [w EXCEPT !.t1 = u]
  <2>1. q = [w EXCEPT !.t1.latch = n, !.t1.count = n, !.t1.ticking = TRUE, !.t1.reload = TRUE]
    BY DEF n, Good, Via, Timer1
  <2>2. t = [u EXCEPT !.irqs = TRUE, !.timedOut = n = 0, !.pb7 = TRUE,
                      !.fired = w.t1.fired /\ w.acr.free]
    BY DEF n, Good, Via, Timer1
  <2> HIDE DEF n, u, t
  <2>3. y = [q EXCEPT !.t1.irqs = TRUE, !.t1.timedOut = n = 0, !.t1.pb7 = TRUE,
                      !.t1.fired = w.t1.fired /\ w.acr.free]
    BY <2>2 DEF Good, Via
  <2> QED BY <2>1, <2>3
<1>3. WriteT1CH(w, h) = IF w.acr.pb7 THEN Pb7(z, FALSE) ELSE z
  <2> HIDE DEF y
  <2> QED BY <1>2 DEF WriteT1CH
<1> HIDE DEF n
<1>4. /\ t \in Timer1 /\ t.count = n /\ t.latch = n /\ t.ticking /\ t.reload
      /\ t.timedOut = (n = 0)
  <2>1. w.t1 \in Timer1 /\ w.acr.free \in BOOLEAN
    BY DEF Good, Via, Auxiliary
  <2> HIDE DEF y, z
  <2> QED BY <1>1, <2>1 DEF Timer1
<1> HIDE DEF t
<1>5. T1Step(w, y) /\ Good(y) /\ y.t1 = t /\ y.acr = w.acr
  BY <1>4, T1FieldIsStep DEF T1Step, Good, Via
<1> HIDE DEF y
<1>6. T1Step(w, z) /\ Good(z) /\ z.t1 = t /\ z.acr = w.acr
  BY <1>5, ClearIsStep, T1StepsCompose DEF T1Step
<1> HIDE DEF z
<1>7. w.acr.pb7 => T1Step(w, Pb7(z, FALSE)) /\ Pb7(z, FALSE).t1 = t
  BY <1>6, Pb7IsStep, T1StepsCompose
<1> QED BY <1>1, <1>3, <1>4, <1>6, <1>7 DEF n

\* The other accesses to timer 1 leave its count as it is.
T1Counts(w, x) ==
  /\ T1Step(w, x)
  /\ x.t1.count = w.t1.count /\ x.t1.timedOut = w.t1.timedOut /\ x.t1.ticking = w.t1.ticking
  /\ x.t1.reload = w.t1.reload /\ x.t1.latch \in Counts

\* The accesses to the latches and to the low counter of timer 1 leave it counting.
LEMMA AccessesCount ==
  ASSUME NEW w, Good(w), NEW l \in 0 .. Base - 1
  PROVE  T1Counts(w, WriteT1LL(w, l)) /\ T1Counts(w, WriteT1LH(w, l)) /\ T1Counts(w, ReadT1CL(w))
<1> DEFINE low == Word(High(w.t1.latch), l)
           high == Word(l, Low(w.t1.latch))
           a == [w.t1 EXCEPT !.latch = low]
           b == [w.t1 EXCEPT !.latch = high, !.irqs = @ /\ "T1" \in w.ier]
           y == [w EXCEPT !.t1 = b]
<1>1. w.t1 \in Timer1 /\ low \in Counts /\ high \in Counts
  BY BytesOfCount, WordIsCount DEF Good, Via, Timer1
<1>2. /\ WriteT1LL(w, l) = [w EXCEPT !.t1 = a]
      /\ y = [w EXCEPT !.t1.latch = high, !.t1.irqs = @ /\ "T1" \in w.ier]
  <2> HIDE DEF low, high
  <2>1. WriteT1LL(w, l) = [w EXCEPT !.t1.latch = low]
    BY DEF WriteT1LL, low
  <2> QED BY <1>1, <2>1 DEF Good, Via, Timer1
<1>3. WriteT1LH(w, l) = ClearInterrupt(y, {"T1"})
  <2> HIDE DEF y
  <2> QED BY <1>2 DEF WriteT1LH
<1> HIDE DEF low, high
<1>4. /\ a \in Timer1 /\ a.count = w.t1.count /\ a.timedOut = w.t1.timedOut
      /\ a.ticking = w.t1.ticking /\ a.reload = w.t1.reload
      /\ b \in Timer1 /\ b.count = w.t1.count /\ b.timedOut = w.t1.timedOut
      /\ b.ticking = w.t1.ticking /\ b.reload = w.t1.reload
  BY <1>1 DEF Timer1
<1> HIDE DEF a, b
<1>5. /\ T1Step(w, [w EXCEPT !.t1 = a]) /\ [w EXCEPT !.t1 = a].t1 = a
      /\ T1Step(w, y) /\ Good(y) /\ y.t1 = b
  BY <1>4, T1FieldIsStep DEF T1Step, Good, Via
<1> HIDE DEF y
<1>6. LET x == ClearInterrupt(y, {"T1"}) IN T1Step(w, x) /\ x.t1 = b
  BY <1>5, ClearIsStep, T1StepsCompose
<1>7. LET x == ClearInterrupt(w, {"T1"}) IN T1Step(w, x) /\ x.t1 = w.t1
  BY ClearIsStep
<1> QED BY <1>1, <1>2, <1>3, <1>4, <1>5, <1>6, <1>7 DEF T1Counts, ReadT1CL, Timer1

LEMMA WriteACRIsGood ==
  ASSUME NEW w, Good(w), NEW r \in Auxiliary
  PROVE  LET x == WriteACR(w, r)
         IN /\ Good(x) /\ Quiet(w, x) /\ x.acr = r /\ x.t1 = w.t1 /\ x.t2 = w.t2 /\ x.ifr = w.ifr
            /\ x.ier = w.ier
<1> DEFINE y == [w EXCEPT !.acr = r]
<1>1. /\ Good(y) /\ y.acr = r /\ y.t1 = w.t1 /\ y.t2 = w.t2 /\ y.ifr = w.ifr /\ y.ier = w.ier
      /\ y.fcr = w.fcr /\ y.ca1 = w.ca1 /\ w.t1.pb7 \in BOOLEAN
  BY DEF Good, Via, Sound, Timer1
<1>2. WriteACR(w, r) = IF r.pb7 THEN Pb7(y, w.t1.pb7) ELSE y
  BY DEF WriteACR
<1> HIDE DEF y
<1>3. CASE r.pb7
  <2> DEFINE x == Pb7(y, w.t1.pb7)
  <2>1. T1Step(y, x) /\ x.t1 = y.t1 /\ x.ifr = y.ifr
    BY <1>1, <1>3, Pb7IsStep
  <2> QED BY <1>1, <1>2, <1>3, <2>1 DEF T1Step, Beside, Quiet
<1>4. CASE ~r.pb7
  BY <1>1, <1>2, <1>4 DEF Quiet
<1> QED BY <1>3, <1>4

\* A store to timer 2 starts it.
LEMMA WriteT2CHIsStep ==
  ASSUME NEW w, Good(w), NEW h \in 0 .. Base - 1
  PROVE  LET x == WriteT2CH(w, h)
         IN /\ T2Step(w, x) /\ x.t2.count \in Counts /\ x.t2.counting /\ x.t2.reload
            /\ ~x.t2.fired /\ ~x.t2.timedOut /\ x.t2.pb6Was = w.t2.pb6Was
<1> DEFINE n == Word(h, w.t2.latch)
           t == [w.t2 EXCEPT !.count = n, !.reload = TRUE, !.passes = 0, !.timedOut = FALSE,
                             !.counting = TRUE, !.fired = FALSE]
           u == [w.t2 EXCEPT !.count = n, !.reload = TRUE, !.passes = 0]
           q == [w EXCEPT !.t2 = u]
           y == [w EXCEPT !.t2 = t]
<1>1. w.t2 \in Timer2 /\ n \in Counts
  BY WordIsCount DEF Good, Via, Timer2
<1>2. y = [w EXCEPT !.t2.count = n, !.t2.reload = TRUE, !.t2.passes = 0, !.t2.timedOut = FALSE,
                    !.t2.counting = TRUE, !.t2.fired = FALSE]
  <2> HIDE DEF n
  <2>1. q = [w EXCEPT !.t2.count = n, !.t2.reload = TRUE, !.t2.passes = 0]
    BY <1>1 DEF Good, Via, Timer2
  <2>2. t = [u EXCEPT !.timedOut = FALSE, !.counting = TRUE, !.fired = FALSE]
    BY <1>1 DEF Timer2
  <2> HIDE DEF u, t
  <2>3. y = [q EXCEPT !.t2.timedOut = FALSE, !.t2.counting = TRUE, !.t2.fired = FALSE]
    BY <2>2 DEF Good, Via
  <2> QED BY <2>1, <2>3
<1>3. WriteT2CH(w, h) = ClearInterrupt(y, {"T2"})
  <2> HIDE DEF y
  <2> QED BY <1>2 DEF WriteT2CH
<1> HIDE DEF n
<1>4. /\ t \in Timer2 /\ t.count \in Counts /\ t.counting /\ t.reload /\ ~t.fired /\ ~t.timedOut
      /\ t.pb6Was = w.t2.pb6Was
  <2>1. PICK p \in 0 .. 3 : p = 0
    OBVIOUS
  <2>2. t = [u EXCEPT !.timedOut = FALSE, !.counting = TRUE, !.fired = FALSE]
    BY <1>1 DEF Timer2
  <2>3. u = [w.t2 EXCEPT !.count = n, !.reload = TRUE, !.passes = p]
    BY <2>1
  <2> HIDE DEF t, u
  <2>4. u \in Timer2
    BY <1>1, <2>3 DEF Timer2
  <2>5. u.count = n /\ u.reload /\ u.pb6Was = w.t2.pb6Was
    BY <1>1, <2>3 DEF Timer2
  <2> QED BY <1>1, <2>2, <2>4, <2>5 DEF Timer2
<1> HIDE DEF t
<1>5. T2Step(w, y) /\ Good(y) /\ y.t2 = t
  BY <1>4, T2FieldIsStep DEF T2Step
<1> HIDE DEF y
<1>6. LET x == ClearInterrupt(y, {"T2"}) IN T2Step(w, x) /\ x.t2 = t
  BY <1>5, ClearIsStep, T2StepsCompose
<1> QED BY <1>3, <1>4, <1>6

\* The other accesses to timer 2 leave all but its latch and its flag.
T2Counts(w, x) ==
  /\ T2Step(w, x)
  /\ x.t2.count = w.t2.count /\ x.t2.timedOut = w.t2.timedOut /\ x.t2.counting = w.t2.counting
  /\ x.t2.fired = w.t2.fired /\ x.t2.reload = w.t2.reload /\ x.t2.pb6Was = w.t2.pb6Was

\* And so do those of timer 2.
LEMMA AccessesCount2 ==
  ASSUME NEW w, Good(w), NEW l \in 0 .. Base - 1
  PROVE  T2Counts(w, WriteT2LL(w, l)) /\ T2Counts(w, ReadT2CL(w))
<1> DEFINE t == [w.t2 EXCEPT !.latch = l]
<1>1. /\ t \in Timer2 /\ t.count = w.t2.count /\ t.timedOut = w.t2.timedOut
      /\ t.counting = w.t2.counting /\ t.fired = w.t2.fired /\ t.reload = w.t2.reload
      /\ t.pb6Was = w.t2.pb6Was
  BY DEF Good, Via, Timer2
<1>2. WriteT2LL(w, l) = [w EXCEPT !.t2 = t]
  BY DEF WriteT2LL, Good, Via
<1> HIDE DEF t
<1>3. LET x == [w EXCEPT !.t2 = t] IN T2Step(w, x) /\ x.t2 = t
  BY <1>1, T2FieldIsStep
<1>4. LET x == ClearInterrupt(w, {"T2"}) IN T2Step(w, x) /\ x.t2 = w.t2
  BY ClearIsStep
<1> QED BY <1>1, <1>2, <1>3, <1>4 DEF T2Counts, ReadT2CL

\* What a program of the chip may see of a write to the interrupt enables, of
\* one to the flags and of an access of the shift register.
Leaves(w, x) ==
  /\ x.fcr = w.fcr /\ x.acr = w.acr /\ x.pulseB = w.pulseB /\ x.b = w.b /\ x.told = w.told
  /\ x.ca1 = w.ca1 /\ x.cb1 = w.cb1 /\ x.cb1Was = w.cb1Was /\ x.cb2 = w.cb2
  /\ x.t1 = w.t1 /\ x.t2 = w.t2

\* The accesses that leave the timers and the shift register alone.
LEMMA WriteIERLeaves ==
  ASSUME NEW w, Good(w), NEW fs \in SUBSET Flags, NEW set \in BOOLEAN
  PROVE  LET x == WriteIER(w, fs, set)
         IN Leaves(w, x) /\ x.ifr = w.ifr /\ x.sr = w.sr /\ x.bits = w.bits
<1> DEFINE e == IF set THEN w.ier \cup fs ELSE w.ier \ fs
           y == [w EXCEPT !.ier = e]
           x == OutputIRQ(y)
<1>1. e \in SUBSET Flags
  BY DEF Good, Via
<1> HIDE DEF e
<1>2. /\ y \in Via /\ y.ifr = w.ifr /\ y.ifr \in SUBSET Flags /\ (y.irq => y.line)
      /\ y = [y EXCEPT !.ifr = y.ifr]
      /\ Leaves(w, y) /\ y.sr = w.sr /\ y.bits = w.bits
  BY <1>1 DEF Good, Via, Sound, Leaves
<1> HIDE DEF y
<1>3. Raised(y, x, y.ifr)
  BY <1>2, OutputIRQKeeps
<1>4. PICK irq \in BOOLEAN, line \in BOOLEAN : x = [y EXCEPT !.ifr = y.ifr, !.irq = irq, !.line = line]
  BY <1>3 DEF Raised
<1> HIDE DEF x
<1>5. Leaves(y, x) /\ x.ifr = y.ifr /\ x.sr = y.sr /\ x.bits = y.bits
  BY <1>2, <1>4 DEF Via, Leaves
<1>6. WriteIER(w, fs, set) = x
  BY DEF WriteIER, x, y, e
<1> QED BY <1>2, <1>5, <1>6 DEF Leaves

LEMMA WriteIFRLeaves ==
  ASSUME NEW w, Good(w), NEW fs \in SUBSET Flags
  PROVE  LET x == WriteIFR(w, fs, FALSE)
         IN Leaves(w, x) /\ x.ifr = w.ifr \ fs
<1> DEFINE y == [w EXCEPT !.ifr = @ \ fs, !.irq = @ /\ ~FALSE]
           z == [w EXCEPT !.ifr = w.ifr \ fs]
           x == OutputIRQ(z)
<1>1. y = z /\ w.ifr \ fs \in SUBSET Flags /\ w \in Via /\ (w.irq => w.line)
  BY DEF Good, Via, Sound
<1>2. Raised(w, x, w.ifr \ fs)
  BY <1>1, OutputIRQKeeps
<1>3. PICK irq \in BOOLEAN, line \in BOOLEAN : x = [w EXCEPT !.ifr = w.ifr \ fs, !.irq = irq, !.line = line]
  BY <1>2 DEF Raised
<1>4. WriteIFR(w, fs, FALSE) = IF w.ifr \cap fs = {} THEN w ELSE x
  <2> HIDE DEF z
  <2> QED BY <1>1 DEF WriteIFR
<1> HIDE DEF x
<1>5. Leaves(w, x) /\ x.ifr = w.ifr \ fs
  BY <1>1, <1>3 DEF Via, Leaves
<1>6. Leaves(w, w)
  BY DEF Leaves
<1> QED BY <1>4, <1>5, <1>6

LEMMA AccessSRIsStep ==
  ASSUME NEW w, Good(w)
  PROVE  LET x == AccessSR(w)
         IN /\ SRStep(w, x) /\ x.sr = w.sr /\ x.cb1Was = w.cb1Was /\ "SR" \notin x.ifr
            /\ x.bits = IF "SR" \in w.ifr THEN 0 ELSE w.bits
<1> DEFINE n == IF "SR" \in w.ifr THEN 0 ELSE w.bits
           y == [w EXCEPT !.bits = n]
<1>1. n \in 0 .. Width
  BY ViaAssumption DEF Good, Via
<1>2. AccessSR(w) = ClearInterrupt(y, {"SR"})
  BY DEF AccessSR
<1> HIDE DEF n
<1>3. /\ SRStep(w, y) /\ Good(y) /\ y.bits = n /\ y.sr = w.sr /\ y.ifr = w.ifr
      /\ y.cb1Was = w.cb1Was
  BY <1>1 DEF SRStep, Good, Via, Sound, Beside, Ports
<1> HIDE DEF y
<1>4. LET x == ClearInterrupt(y, {"SR"})
      IN SRStep(w, x) /\ x.sr = y.sr /\ x.bits = y.bits /\ x.ifr = y.ifr \ {"SR"} /\ x.cb1Was = y.cb1Was
  BY <1>3, ClearIsStep, SRStepsCompose
<1> QED BY <1>2, <1>3, <1>4 DEF n

LEMMA WriteSRIsStep ==
  ASSUME NEW w, Good(w), NEW s \in Bytes PROVE SRStep(w, WriteSR(w, s))
<1> DEFINE y == AccessSR(w)
           x == [y EXCEPT !.sr = s, !.clock = TRUE, !.rising = FALSE]
<1>1. SRStep(w, y) /\ Good(y)
  BY AccessSRIsStep DEF SRStep
<1>2. WriteSR(w, s) = x
  BY DEF WriteSR
<1> HIDE DEF y
<1>3. SRStep(y, x)
  BY <1>1 DEF SRStep, Good, Via, Sound, Beside, Ports
<1> QED BY <1>1, <1>2, <1>3, SRStepsCompose

LEMMA WriteFCRIsQuiet ==
  ASSUME NEW w, Good(w), NEW c \in Control, c.rise = w.fcr.rise PROVE Quiet(w, WriteFCR(w, c))
BY DEF WriteFCR, Quiet, Good, Via

----------------------------------------------------------------------------
(* What the bus does to the chip *)

LEMMA WithInputsLeaves ==
  ASSUME NEW w, Good(w), NEW ps \in SUBSET Pin, NEW s
  PROVE  LET x == WithInputs(w, ps, s)
         IN /\ Good(x) /\ x = [w EXCEPT !.b = x.b] /\ x.b.out = w.b.out /\ x.b.dir = w.b.dir
<1>1. Good(WithInputs(w, ps, s))
  BY WithInputsIsGood
<1> QED BY <1>1 DEF WithInputs, Good, Via, Port

\* The flag of CA1 comes with the edge the control register names.
LEMMA InputCA1Tells ==
  ASSUME NEW w, Good(w), NEW b \in BOOLEAN
  PROVE  LET x == InputCA1(w, b)
         IN /\ Good(x) /\ x.ca1 = b
            /\ "CA1" \in x.ifr <=> "CA1" \in w.ifr \/ (w.ca1 # b /\ w.fcr.rise = b)
            /\ \A f \in Flags \ {"CA1"} : f \in x.ifr <=> f \in w.ifr
            /\ x.fcr = w.fcr /\ x.told = w.told /\ x.acr = w.acr /\ x.t1 = w.t1 /\ x.t2 = w.t2
            /\ x.b = w.b /\ x.sr = w.sr /\ x.bits = w.bits /\ x.cb1 = w.cb1 /\ x.cb1Was = w.cb1Was
            /\ x.pulseB = w.pulseB
<1> DEFINE x == InputCA1(w, b)
           handshake == w.fcr.ca2.out /\ ~w.fcr.ca2.m1 /\ ~w.fcr.cb2.m0
           hit == w.ca1 # b /\ w.fcr.rise = b
           y == [w EXCEPT !.latchedA = Pins(w.a), !.ca2 = @ /\ ~handshake]
           z == SetInterrupt(y, "CA1")
<1>1. Good(x)
  BY InputCA1IsGood
<1>2. x = [(IF hit THEN z ELSE w) EXCEPT !.ca1 = b]
  BY DEF InputCA1
<1>3. /\ Good(y) /\ y.ifr = w.ifr /\ y.fcr = w.fcr /\ y.told = w.told /\ y.acr = w.acr
      /\ y.t1 = w.t1 /\ y.t2 = w.t2 /\ y.b = w.b /\ y.sr = w.sr /\ y.bits = w.bits
      /\ y.cb1 = w.cb1 /\ y.cb1Was = w.cb1Was /\ y.pulseB = w.pulseB
  BY PinsArePins DEF Good, Via, Sound
<1> HIDE DEF y, x
<1>4. /\ Good(z) /\ z.ifr = y.ifr \cup {"CA1"} /\ z.fcr = y.fcr /\ z.told = y.told /\ z.acr = y.acr
      /\ z.t1 = y.t1 /\ z.t2 = y.t2 /\ z.b = y.b /\ z.sr = y.sr /\ z.bits = y.bits
      /\ z.cb1 = y.cb1 /\ z.cb1Was = y.cb1Was /\ z.pulseB = y.pulseB
  BY <1>3, SetBeside, SetIsGood DEF Flags, Beside, Ports, Shifter
<1> HIDE DEF z
<1>5. CASE hit
  <2>1. x = [z EXCEPT !.ca1 = b]
    BY <1>2, <1>5
  <2> QED BY <1>1, <1>3, <1>4, <1>5, <2>1 DEF Good, Via, x
<1>6. CASE ~hit
  <2>1. x = [w EXCEPT !.ca1 = b]
    BY <1>2, <1>6
  <2> QED BY <1>1, <1>6, <2>1 DEF Good, Via, x
<1> QED BY <1>5, <1>6

\* The fast serial lines of the computer: nothing but CB1, CB2 and port B's
\* latch, and CB1 and CB2 as they are where CB2 is an input.
SerialTold(w, x, d, s) ==
  /\ x.ca1 = w.ca1
  /\ \A f \in Flags \ {"CB1", "CB2"} : f \in x.ifr <=> f \in w.ifr
  /\ x.fcr = w.fcr /\ x.told = w.told /\ x.acr = w.acr /\ x.t1 = w.t1 /\ x.t2 = w.t2
  /\ x.b = w.b /\ x.sr = w.sr /\ x.bits = w.bits /\ x.cb1 = s /\ x.cb1Was = w.cb1Was
  /\ x.pulseB = w.pulseB
  /\ ~w.fcr.cb2.out => x.cb2 = d

\* What DATA and SRQ change in the chip when the loop passes them on.
LEMMA SerialInTells ==
  ASSUME NEW w, Good(w), NEW d \in BOOLEAN, NEW s \in BOOLEAN
  PROVE  LET x == InputCB1(InputCB2(w, d), s)
         IN Good(x) /\ SerialTold(w, x, d, s)
<1> DEFINE p == IF w.cb2 # d /\ w.fcr.cb2.m1 = d THEN SetInterrupt(w, "CB2") ELSE w
           q == InputCB2(w, d)
           handshake == q.fcr.cb2.out /\ ~q.fcr.cb2.m1 /\ ~q.fcr.cb2.m0
           hit == q.cb1 # s /\ q.fcr.rise = s
           y == [q EXCEPT !.latchedB = Pins(q.b), !.cb2 = @ /\ ~handshake]
           z == SetInterrupt(y, "CB1")
           x == InputCB1(q, s)
<1>1. q = IF w.fcr.cb2.out THEN w ELSE [p EXCEPT !.cb2 = d]
  BY DEF InputCB2
<1>2. /\ Good(p) /\ \A f \in Flags \ {"CB1", "CB2"} : f \in p.ifr <=> f \in w.ifr
      /\ p.ca1 = w.ca1 /\ p.fcr = w.fcr /\ p.told = w.told /\ p.acr = w.acr /\ p.t1 = w.t1
      /\ p.t2 = w.t2 /\ p.b = w.b /\ p.sr = w.sr /\ p.bits = w.bits /\ p.cb1 = w.cb1
      /\ p.cb1Was = w.cb1Was /\ p.pulseB = w.pulseB
  <2> DEFINE r == SetInterrupt(w, "CB2")
  <2>1. /\ Good(r) /\ r.ifr = w.ifr \cup {"CB2"}
        /\ r.ca1 = w.ca1 /\ r.fcr = w.fcr /\ r.told = w.told /\ r.acr = w.acr /\ r.t1 = w.t1
        /\ r.t2 = w.t2 /\ r.b = w.b /\ r.sr = w.sr /\ r.bits = w.bits /\ r.cb1 = w.cb1
        /\ r.cb1Was = w.cb1Was /\ r.pulseB = w.pulseB
    BY SetBeside, SetIsGood DEF Flags, Beside, Ports, Shifter
  <2>2. p = IF w.cb2 # d /\ w.fcr.cb2.m1 = d THEN r ELSE w
    OBVIOUS
  <2> HIDE DEF p, r
  <2> QED BY <2>1, <2>2
<1> HIDE DEF p, q
<1>3. /\ Good(q) /\ \A f \in Flags \ {"CB1", "CB2"} : f \in q.ifr <=> f \in w.ifr
      /\ q.ca1 = w.ca1 /\ q.fcr = w.fcr /\ q.told = w.told /\ q.acr = w.acr /\ q.t1 = w.t1
      /\ q.t2 = w.t2 /\ q.b = w.b /\ q.sr = w.sr /\ q.bits = w.bits /\ q.cb1 = w.cb1
      /\ q.cb1Was = w.cb1Was /\ q.pulseB = w.pulseB
      /\ ~w.fcr.cb2.out => q.cb2 = d
  <2>1. CASE w.fcr.cb2.out
    BY <1>1, <2>1
  <2>2. CASE ~w.fcr.cb2.out
    BY <1>1, <1>2, <2>2 DEF Good, Via, Sound
  <2> QED BY <2>1, <2>2
<1>4. PICK c \in BOOLEAN : c = (q.cb2 /\ ~handshake) /\ (~w.fcr.cb2.out => c = d)
  BY <1>3 DEF Good, Via
<1>5. y = [q EXCEPT !.latchedB = Pins(q.b), !.cb2 = c]
  BY <1>3, <1>4 DEF Good, Via
<1>6. x = [(IF hit THEN z ELSE q) EXCEPT !.cb1 = s]
  BY DEF InputCB1
<1>7. Good(x)
  BY <1>3, InputCB1IsGood
<1> HIDE DEF x, y
<1>8. /\ Good(y) /\ y.ifr = q.ifr /\ y.ca1 = q.ca1 /\ y.fcr = q.fcr /\ y.told = q.told
      /\ y.acr = q.acr /\ y.t1 = q.t1 /\ y.t2 = q.t2 /\ y.b = q.b /\ y.sr = q.sr
      /\ y.bits = q.bits /\ y.cb1Was = q.cb1Was /\ y.pulseB = q.pulseB /\ y.cb2 = c
  BY <1>3, <1>5, PinsArePins DEF Good, Via, Sound
<1>9. /\ Good(z) /\ z.ifr = y.ifr \cup {"CB1"} /\ z.ca1 = y.ca1 /\ z.fcr = y.fcr /\ z.told = y.told
      /\ z.acr = y.acr /\ z.t1 = y.t1 /\ z.t2 = y.t2 /\ z.b = y.b /\ z.sr = y.sr
      /\ z.bits = y.bits /\ z.cb1Was = y.cb1Was /\ z.pulseB = y.pulseB /\ z.cb2 = y.cb2
  BY <1>8, SetBeside, SetIsGood DEF Flags, Beside, Ports, Shifter
<1> HIDE DEF z
<1>10. CASE hit
  <2>1. x = [z EXCEPT !.cb1 = s]
    BY <1>6, <1>10
  <2>2. \A f \in Flags \ {"CB1", "CB2"} : f \in x.ifr <=> f \in w.ifr
    BY <1>3, <1>8, <1>9, <2>1 DEF Good, Via
  <2>3. /\ x.ca1 = w.ca1 /\ x.fcr = w.fcr /\ x.told = w.told /\ x.acr = w.acr /\ x.t1 = w.t1
        /\ x.t2 = w.t2 /\ x.b = w.b /\ x.sr = w.sr /\ x.bits = w.bits /\ x.cb1 = s
        /\ x.cb1Was = w.cb1Was /\ x.pulseB = w.pulseB /\ x.cb2 = c
    BY <1>3, <1>8, <1>9, <2>1 DEF Good, Via
  <2> QED BY <1>4, <1>7, <2>2, <2>3 DEF x, q, SerialTold
<1>11. CASE ~hit
  <2>1. x = [q EXCEPT !.cb1 = s]
    BY <1>6, <1>11
  <2>2. \A f \in Flags \ {"CB1", "CB2"} : f \in x.ifr <=> f \in w.ifr
    BY <1>3, <2>1 DEF Good, Via
  <2>3. /\ x.ca1 = w.ca1 /\ x.fcr = w.fcr /\ x.told = w.told /\ x.acr = w.acr /\ x.t1 = w.t1
        /\ x.t2 = w.t2 /\ x.b = w.b /\ x.sr = w.sr /\ x.bits = w.bits /\ x.cb1 = s
        /\ x.cb1Was = w.cb1Was /\ x.pulseB = w.pulseB /\ x.cb2 = q.cb2
    BY <1>3, <2>1 DEF Good, Via
  <2> QED BY <1>3, <1>7, <2>2, <2>3 DEF x, q, SerialTold
<1> QED BY <1>10, <1>11

----------------------------------------------------------------------------
(* Reset *)

\* Chips with whatever is in the timers and the shift register.
ChipOf(S1, S2, S) ==
  [fcr : Control, acr : Auxiliary, ifr : SUBSET Flags, ier : SUBSET Flags, irq : BOOLEAN,
   line : BOOLEAN, a : Port, b : Port, told : BOOLEAN, latchedA : SUBSET Pin,
   latchedB : SUBSET Pin, ca1 : BOOLEAN, ca2 : BOOLEAN, cb1 : BOOLEAN, cb1Was : BOOLEAN,
   cb2 : BOOLEAN, pulseA : BOOLEAN, pulseB : BOOLEAN, t1 : S1, t2 : S2,
   sr : S, bits : 0 .. Width, clock : BOOLEAN, rising : BOOLEAN, data : BOOLEAN]

\* What a reset leaves.
Fresh(w, x) ==
  /\ Good(x) /\ x.told = w.told /\ x.b = w.b /\ x.fcr = NoControl
  /\ x.acr = [NoAuxiliary EXCEPT !.latchB = w.acr.latchB]
  /\ ~x.ca1 /\ ~x.cb1 /\ ~x.cb1Was /\ ~x.pulseB /\ x.ifr = {} /\ x.bits = 0
  /\ ~x.t1.ticking /\ ~x.t1.reload /\ ~x.t1.timedOut
  /\ ~x.t2.counting /\ ~x.t2.fired /\ ~x.t2.pb6Was

\* What M6522::Reset leaves.
LEMMA ResetIsFresh ==
  ASSUME NEW S1, NEW S2, NEW S, NEW w \in ChipOf(S1, S2, S), NEW irqs \in BOOLEAN, w.t1.irqs = irqs
  PROVE  Fresh(w, ViaReset(w))
<1> DEFINE t1 == [count |-> Base * Base - 1, latch |-> Base * Base - 1, ticking |-> FALSE,
                  reload |-> FALSE, irqs |-> w.t1.irqs, timedOut |-> FALSE, pb7 |-> TRUE,
                  fired |-> FALSE]
           t2 == [count |-> Base * Base - 1, latch |-> 0, reload |-> FALSE, counting |-> FALSE,
                  passes |-> 0, pb6Was |-> FALSE, timedOut |-> FALSE, fired |-> FALSE]
           acr == [NoAuxiliary EXCEPT !.latchB = w.acr.latchB]
           sr == [i \in 1 .. Width |-> FALSE]
           r1 == [w EXCEPT !.fcr = NoControl, !.acr = acr, !.latchedA = {}, !.latchedB = {}]
           r2 == [r1 EXCEPT !.ca1 = FALSE, !.cb1 = FALSE, !.cb1Was = FALSE]
           r3 == [r2 EXCEPT !.ca2 = FALSE, !.cb2 = FALSE, !.pulseA = FALSE, !.pulseB = FALSE]
           r4 == [r3 EXCEPT !.t1 = t1, !.t2 = t2]
           r5 == [r4 EXCEPT !.ifr = {}, !.ier = {}, !.irq = FALSE]
           r6 == [r5 EXCEPT !.sr = sr, !.bits = 0]
           r7 == [r6 EXCEPT !.clock = TRUE, !.rising = FALSE, !.data = TRUE]
           x == [r7 EXCEPT !.ca2 = TRUE]
           y == [x EXCEPT !.cb2 = TRUE]
<1>1. ViaReset(w) = OutputIRQ(InputCB2(InputCA2(r7, TRUE), TRUE))
  BY DEF ViaReset
<1>2. Base * Base - 1 \in Counts /\ 0 \in 0 .. Base - 1 /\ 0 \in 0 .. 3 /\ 0 \in 0 .. Width
  <2>1. Base \in Nat /\ Base >= 4 /\ Base * Base \in Nat /\ Base * Base >= 4 /\ Width \in Nat
    BY ViaAssumption
  <2> QED BY <2>1 DEF Counts
<1>3. /\ t1 \in Timer1 /\ ~t1.ticking /\ ~t1.reload /\ ~t1.timedOut
  BY <1>2 DEF Timer1
<1>4. /\ t2 \in Timer2 /\ ~t2.counting /\ ~t2.fired /\ ~t2.pb6Was
  BY <1>2 DEF Timer2
<1>5. acr \in Auxiliary /\ NoControl \in Control /\ sr \in Bytes
  <2>1. w.acr.latchB \in BOOLEAN
    BY DEF ChipOf, Auxiliary
  <2>2. acr \in Auxiliary
    <3>1. NoAuxiliary \in Auxiliary
      BY DEF Auxiliary, NoAuxiliary
    <3> QED BY <2>1, <3>1 DEF Auxiliary
  <2>3. NoControl \in Control
    BY DEF Control, NoControl, Input, Mode
  <2>4. sr \in Bytes
    BY DEF Bytes
  <2> QED BY <2>2, <2>3, <2>4
<1> HIDE DEF t1, t2, acr, sr
<1>6. r1 \in ChipOf(S1, S2, S) /\ r1.fcr = NoControl /\ r1.acr = acr /\ r1.told = w.told /\ r1.b = w.b
  BY <1>5 DEF ChipOf
<1> HIDE DEF r1
<1>7. /\ r2 \in ChipOf(S1, S2, S) /\ ~r2.ca1 /\ ~r2.cb1 /\ ~r2.cb1Was
      /\ r2.fcr = NoControl /\ r2.acr = acr /\ r2.told = w.told /\ r2.b = w.b
  BY <1>6 DEF ChipOf
<1> HIDE DEF r2
<1>8. /\ r3 \in ChipOf(S1, S2, S) /\ ~r3.ca1 /\ ~r3.cb1 /\ ~r3.cb1Was /\ ~r3.pulseB
      /\ r3.fcr = NoControl /\ r3.acr = acr /\ r3.told = w.told /\ r3.b = w.b
  BY <1>7 DEF ChipOf
<1> HIDE DEF r3
<1>9. /\ r4 \in ChipOf(Timer1, Timer2, S) /\ ~r4.ca1 /\ ~r4.cb1 /\ ~r4.cb1Was /\ ~r4.pulseB
      /\ r4.fcr = NoControl /\ r4.acr = acr /\ r4.told = w.told /\ r4.b = w.b
      /\ r4.t1 = t1 /\ r4.t2 = t2
  BY <1>3, <1>4, <1>8 DEF ChipOf
<1> HIDE DEF r4
<1>10. /\ r5 \in ChipOf(Timer1, Timer2, S) /\ ~r5.ca1 /\ ~r5.cb1 /\ ~r5.cb1Was /\ ~r5.pulseB
       /\ r5.fcr = NoControl /\ r5.acr = acr /\ r5.told = w.told /\ r5.b = w.b
       /\ r5.t1 = t1 /\ r5.t2 = t2 /\ r5.ifr = {} /\ r5.ier = {} /\ ~r5.irq
  BY <1>9 DEF ChipOf
<1> HIDE DEF r5
<1>11. /\ r6 \in Via /\ ~r6.ca1 /\ ~r6.cb1 /\ ~r6.cb1Was /\ ~r6.pulseB
       /\ r6.fcr = NoControl /\ r6.acr = acr /\ r6.told = w.told /\ r6.b = w.b
       /\ r6.t1 = t1 /\ r6.t2 = t2 /\ r6.ifr = {} /\ r6.ier = {} /\ ~r6.irq /\ r6.bits = 0
  BY <1>2, <1>5, <1>10 DEF ChipOf, Via
<1> HIDE DEF r6
<1>12. /\ r7 \in Via /\ ~r7.ca1 /\ ~r7.cb1 /\ ~r7.cb1Was /\ ~r7.pulseB
       /\ r7.fcr = NoControl /\ r7.acr = acr /\ r7.told = w.told /\ r7.b = w.b
       /\ r7.t1 = t1 /\ r7.t2 = t2 /\ r7.ifr = {} /\ r7.ier = {} /\ ~r7.irq /\ r7.bits = 0
  BY <1>11 DEF Via
<1> HIDE DEF r7
<1>13. /\ x \in Via /\ ~x.ca1 /\ ~x.cb1 /\ ~x.cb1Was /\ ~x.pulseB
       /\ x.fcr = NoControl /\ x.acr = acr /\ x.told = w.told /\ x.b = w.b
       /\ x.t1 = t1 /\ x.t2 = t2 /\ x.ifr = {} /\ x.ier = {} /\ ~x.irq /\ x.bits = 0
  BY <1>12 DEF Via
<1>14. InputCA2(r7, TRUE) = x
  <2>1. r7.fcr.ca2.out = FALSE /\ r7.fcr.ca2.m1 = FALSE
    BY <1>12 DEF NoControl, Input
  <2> QED BY <2>1 DEF InputCA2
<1> HIDE DEF x
<1>15. /\ y \in Via /\ ~y.ca1 /\ ~y.cb1 /\ ~y.cb1Was /\ ~y.pulseB
       /\ y.fcr = NoControl /\ y.acr = acr /\ y.told = w.told /\ y.b = w.b
       /\ y.t1 = t1 /\ y.t2 = t2 /\ y.ifr = {} /\ y.ier = {} /\ ~y.irq /\ y.bits = 0
  BY <1>13 DEF Via
<1>16. InputCB2(x, TRUE) = y
  <2>1. x.fcr.cb2.out = FALSE /\ x.fcr.cb2.m1 = FALSE
    BY <1>13 DEF NoControl, Input
  <2> QED BY <2>1 DEF InputCB2
<1> HIDE DEF y
<1>17. OutputIRQ(y) = y
  BY <1>15 DEF OutputIRQ
<1>18. Good(y)
  BY <1>15 DEF Good, Sound
<1>19. ViaReset(w) = y
  BY <1>1, <1>14, <1>16, <1>17
<1> QED BY <1>3, <1>4, <1>15, <1>18, <1>19 DEF Fresh, acr

\* The chip as the firmware has set it up.
LEMMA ConfiguredIsGood ==
  ASSUME NEW p
  PROVE  LET x == Configured(p)
         IN /\ Good(x) /\ ~x.told /\ x.fcr = NoControl /\ x.ca1 /\ ~x.cb1 /\ ~x.cb1Was /\ ~x.pulseB
            /\ x.ifr = {} /\ x.bits = 0
            /\ ~x.t1.ticking /\ ~x.t1.reload /\ ~x.t1.timedOut
            /\ ~x.t2.counting /\ ~x.t2.fired /\ ~x.t2.pb6Was
            /\ ~x.acr.pb6 /\ ~x.acr.pb7
            /\ x.acr.shift = IF p = "receive" THEN 3 ELSE IF p = "send" THEN 6 ELSE 0
            /\ x.b.dir = Outs \cup (IF p = "t1" THEN {"PB7"} ELSE {})
            /\ x.b.out = IF p = "send" THEN {"DIR"} ELSE {}
<1> DEFINE raw == [fcr |-> NoControl, acr |-> NoAuxiliary, ifr |-> {}, ier |-> {}, irq |-> FALSE,
            line |-> FALSE, a |-> NoPort, b |-> NoPort, told |-> FALSE,
            latchedA |-> {}, latchedB |-> {}, ca1 |-> FALSE, ca2 |-> FALSE, cb1 |-> FALSE,
            cb1Was |-> FALSE, cb2 |-> FALSE, pulseA |-> FALSE, pulseB |-> FALSE,
            t1 |-> [irqs |-> FALSE], t2 |-> {}, sr |-> <<>>, bits |-> 0,
            clock |-> TRUE, rising |-> FALSE, data |-> TRUE]
           w == InputCA1(PowerUp, TRUE)
           shift == IF p = "receive" THEN 3 ELSE IF p = "send" THEN 6 ELSE 0
           dir == Outs \cup (IF p = "t1" THEN {"PB7"} ELSE {})
           out == IF p = "send" THEN {"DIR"} ELSE {}
           port == [w.b EXCEPT !.dir = dir, !.out = out]
           acr == [w.acr EXCEPT !.shift = shift]
           x == [w EXCEPT !.b = port, !.acr = acr]
<1>1. /\ NoControl \in Control /\ NoAuxiliary \in Auxiliary /\ NoPort \in Port /\ 0 \in 0 .. Width
      /\ ~NoAuxiliary.latchB /\ NoControl.rise = FALSE
  BY ViaAssumption DEF Control, NoControl, Input, Mode, Auxiliary, NoAuxiliary, Port, NoPort
<1>2. raw \in ChipOf({[irqs |-> FALSE]}, {{}}, {<<>>})
  <2> HIDE DEF x
  <2> QED BY <1>1 DEF ChipOf
<1>3. raw.t1.irqs = FALSE /\ ~raw.told /\ raw.acr = NoAuxiliary
  OBVIOUS
<1>4. PowerUp = ViaReset(raw)
  BY DEF PowerUp
<1> HIDE DEF raw
<1>5. Fresh(raw, PowerUp)
  BY <1>2, <1>3, <1>4, ResetIsFresh
<1>6. /\ Good(PowerUp) /\ ~PowerUp.told /\ PowerUp.fcr = NoControl /\ ~PowerUp.cb1 /\ ~PowerUp.cb1Was
      /\ ~PowerUp.pulseB /\ PowerUp.ifr = {} /\ PowerUp.bits = 0
      /\ ~PowerUp.t1.ticking /\ ~PowerUp.t1.reload /\ ~PowerUp.t1.timedOut
      /\ ~PowerUp.t2.counting /\ ~PowerUp.t2.fired /\ ~PowerUp.t2.pb6Was
      /\ PowerUp.acr = NoAuxiliary
  BY <1>1, <1>3, <1>5 DEF Fresh, NoAuxiliary
<1>7. /\ Good(w) /\ ~w.told /\ w.fcr = NoControl /\ w.ca1 /\ ~w.cb1 /\ ~w.cb1Was
      /\ ~w.pulseB /\ w.bits = 0
      /\ ~w.t1.ticking /\ ~w.t1.reload /\ ~w.t1.timedOut
      /\ ~w.t2.counting /\ ~w.t2.fired /\ ~w.t2.pb6Was /\ w.acr = NoAuxiliary
  BY <1>6, InputCA1Tells
<1>8. w.ifr = {}
  <2>1. \A f \in Flags \ {"CA1"} : f \notin w.ifr
    BY <1>6, InputCA1Tells
  <2>2. "CA1" \in w.ifr <=> "CA1" \in PowerUp.ifr \/ (PowerUp.ca1 # TRUE /\ PowerUp.fcr.rise = TRUE)
    <3> HIDE DEF w
    <3> QED BY <1>6, InputCA1Tells DEF w
  <2>3. PowerUp.fcr.rise = FALSE
    BY <1>1, <1>6
  <2> QED BY <1>6, <1>7, <2>1, <2>2, <2>3 DEF Good, Via
<1> HIDE DEF w
<1>9. shift \in 0 .. 7 /\ dir \in SUBSET Pin /\ out \in SUBSET Pin
  BY DEF Pin, Outs
<1>10. Configured(p) = x
  <2>1. Configured(p) = [w EXCEPT !.b.dir = dir, !.b.out = out, !.acr.shift = shift]
    BY DEF Configured, w
  <2> HIDE DEF dir, out, shift
  <2> QED BY <1>7, <2>1 DEF Good, Via
<1> HIDE DEF dir, out, shift
<1>11. port \in Port /\ port.dir = dir /\ port.out = out
  BY <1>7, <1>9 DEF Good, Via, Port
<1>12. acr \in Auxiliary /\ acr.shift = shift /\ ~acr.pb6 /\ ~acr.pb7
  BY <1>1, <1>7, <1>9 DEF Auxiliary, NoAuxiliary
<1> HIDE DEF port, acr
<1>13. /\ Good(x) /\ ~x.told /\ x.fcr = NoControl /\ x.ca1 /\ ~x.cb1 /\ ~x.cb1Was
       /\ ~x.pulseB /\ x.bits = 0 /\ x.t1 = w.t1 /\ x.t2 = w.t2 /\ x.ifr = {}
       /\ x.b = port /\ x.acr = acr
  BY <1>7, <1>8, <1>11, <1>12 DEF Good, Via, Sound
<1> QED BY <1>7, <1>10, <1>11, <1>12, <1>13 DEF dir, out, shift

----------------------------------------------------------------------------
(* The machine: its types *)

DC == {"DATA", "CLOCK"}
Refreshing == {"first", "second"}
Running == {"read", "cpu", "execute", "serial", "poll"}
Places == Running \cup Refreshing
            \cup {"card", "waitreset", "resetflush", "restart", "scan", "busreset", "resume", "eject", "leave",
                  "letsrq", "browse"}
Bus == [atna : BOOLEAN, data : BOOLEAN, gate : BOOLEAN, clock : BOOLEAN, srq : BOOLEAN,
        atn : BOOLEAN, atnWas : BOOLEAN, sensed : SUBSET Lines, resetting : BOOLEAN,
        asserted : SUBSET DC, released : SUBSET DC]
Peer == [byte : Bytes \cup {<<>>}, bit : 0 .. Width, seen : BOOLEAN]

\* The chip between two steps.
Settled == Good(v) /\ v.told = FALSE /\ v.fcr.rise = FALSE

TypeOK ==
  /\ program \in Programs /\ Settled /\ iec \in Bus
  /\ pins \in SUBSET Lines /\ host \in SUBSET (Lines \cup {"RESET"})
  /\ pc \in Places /\ ret \in Places /\ half \in {0, 1} /\ outward \in BOOLEAN
  /\ resets \in Nat /\ left \in Nat /\ peer \in Peer

\* What the constants' assumption says of a byte and a word of a timer.
LEMMA Bounds == /\ Base \in Nat /\ Base >= 4 /\ Width \in Nat /\ Width >= 1
                /\ Base * Base \in Nat /\ Base * Base >= 16
BY ViaAssumption

----------------------------------------------------------------------------
(* The steps' parts *)

\* Two chips that differ in nothing but the callback that is due.
Alike(w, x) ==
  /\ x.fcr = w.fcr /\ x.acr = w.acr /\ x.ifr = w.ifr /\ x.ier = w.ier /\ x.a = w.a /\ x.b = w.b
  /\ x.pulseA = w.pulseA /\ x.pulseB = w.pulseB /\ x.ca1 = w.ca1 /\ x.cb1 = w.cb1 /\ x.cb1Was = w.cb1Was /\ x.cb2 = w.cb2
  /\ x.t1 = w.t1 /\ x.t2 = w.t2 /\ x.sr = w.sr /\ x.bits = w.bits

\* What is left of the bus's state by a port callback.
SameLines(b, c) ==
  /\ c.sensed = b.sensed /\ c.asserted = b.asserted /\ c.released = b.released
  /\ c.atnWas = b.atnWas /\ c.resetting = b.resetting

\* A membership has a truth value, which a field can be set to.
LEMMA MemberIsBoolean == ASSUME NEW e, NEW S PROVE \E x \in BOOLEAN : x = (e \in S)
<1>1. CASE e \in S
  <2>1. TRUE = (e \in S)
    BY <1>1
  <2> QED BY <2>1
<1>2. CASE e \notin S
  <2>1. FALSE = (e \in S)
    BY <1>2
  <2> QED BY <2>1
<1> QED BY <1>1, <1>2

\* The port's callback keeps the samples and what was last meant.
LEMMA PortOutKeeps ==
  ASSUME NEW b \in Bus, NEW p PROVE PortB_OnPortOut(b, p) \in Bus /\ SameLines(b, PortB_OnPortOut(b, p))
<1> DEFINE status == p.out \cap p.dir
<1>1. PICK atna \in BOOLEAN, atn \in BOOLEAN, gate \in BOOLEAN, data \in BOOLEAN, clock \in BOOLEAN :
        /\ atna = ("ATNA" \in status)
        /\ atn = ("ATNOUT" \in p.dir /\ "ATNOUT" \notin status)
        /\ gate = Gate(atna, "ATN" \in b.sensed)
        /\ data = ("DATAOUT" \in status \/ "DATAOUT" \notin p.dir)
        /\ clock = ("CLOCKOUT" \in status \/ "CLOCKOUT" \notin p.dir)
  <2>1. PICK atna \in BOOLEAN : atna = ("ATNA" \in status)
    BY MemberIsBoolean
  <2> QED BY <2>1 DEF Gate
<1> DEFINE c == [b EXCEPT !.atna = atna, !.atn = atn, !.gate = gate]
           d == [c EXCEPT !.data = data, !.clock = clock]
<1>2. PortB_OnPortOut(b, p) = d
  BY <1>1 DEF PortB_OnPortOut
<1>3. c \in Bus /\ SameLines(b, c)
  BY DEF Bus, SameLines
<1> HIDE DEF c
<1>4. d \in Bus /\ SameLines(b, d)
  BY <1>3 DEF Bus, SameLines
<1> QED BY <1>2, <1>4

\* A chip w and a bus b after the callback.
Called(w, b, next) ==
  /\ Good(v') /\ v'.told = FALSE /\ Alike(w, v')
  /\ iec' \in Bus /\ SameLines(b, iec')
  /\ outward' \in BOOLEAN
  /\ (pc' = "first" /\ ret' = next) \/ (pc' = next /\ ret' = ret)
  /\ ~w.told => iec' = b /\ pc' = next /\ outward' = outward /\ ret' = ret

\* So does the call of it that the chip has left due.
LEMMA CallbackKeeps ==
  ASSUME NEW w, Good(w), NEW b \in Bus, NEW next, outward \in BOOLEAN, Callback(w, b, next)
  PROVE  Called(w, b, next)
<1>1. v' = [w EXCEPT !.told = FALSE]
  BY DEF Callback
<1>2. Good(v') /\ v'.told = FALSE /\ Alike(w, v')
  BY <1>1 DEF Good, Via, Sound, Alike
<1>3. SameLines(b, b)
  BY DEF SameLines
<1>4. CASE w.told
  BY <1>2, <1>4, PortOutKeeps DEF Callback, Refresh, Called
<1>5. CASE ~w.told
  BY <1>2, <1>3, <1>5 DEF Callback, Called
<1> QED BY <1>4, <1>5

\* A sample is of the lines, with ATN where somebody pulls it.
LEMMA LinesAreSensed ==
  ASSUME NEW b \in Bus, NEW gate \in BOOLEAN, pins \in SUBSET Lines, host \in SUBSET (Lines \cup {"RESET"})
  PROVE  /\ SensedLines(b, gate) \cap Lines \in SUBSET Lines
         /\ "ATN" \in SensedLines(b, gate) <=> b.atn \/ "ATN" \in Wire
BY DEF SensedLines, Lines, Wire

\* The sample of all lines, and CA1 with the edge of ATN.
LEMMA ReadKeeps ==
  ASSUME TypeOK
  PROVE  LET r == ReadEmulationModeCMDHD(iec)
             atn == "ATN" \in r.bus.sensed
         IN /\ r.bus \in Bus /\ r.bus.asserted = iec.asserted /\ r.bus.released = iec.released
            /\ r.bus.atnWas = iec.atnWas /\ r.bus.atn = iec.atn /\ r.bus.srq = iec.srq
            /\ r.bus.data = iec.data /\ r.bus.clock = iec.clock
            /\ r.bus.resetting = ("RESET" \in host)
            /\ atn = (iec.atn \/ "ATN" \in Wire)
            /\ Good(r.via) /\ r.via.told = FALSE /\ r.via.fcr = v.fcr
            /\ r.via.acr = v.acr /\ r.via.t1 = v.t1 /\ r.via.t2 = v.t2 /\ r.via.sr = v.sr
            /\ r.via.bits = v.bits /\ r.via.cb1 = v.cb1 /\ r.via.cb1Was = v.cb1Was
            /\ r.via.pulseB = v.pulseB /\ r.via.b.out = v.b.out /\ r.via.b.dir = v.b.dir
            /\ \A f \in Flags \ {"CA1"} : f \in r.via.ifr <=> f \in v.ifr
            /\ r.via.ca1 = IF atn # ("ATN" \in iec.sensed) THEN ~atn ELSE v.ca1
            /\ "CA1" \in r.via.ifr
                 <=> "CA1" \in v.ifr \/ (atn /\ "ATN" \notin iec.sensed /\ v.ca1)
            /\ r.bus.sensed = SensedLines(iec, r.bus.gate) \cap Lines
            /\ r.bus.gate = ((IF atn # ("ATN" \in iec.sensed) /\ "ATNA" \in v.b.dir
                              THEN Gate(iec.atna, atn) ELSE iec.gate) /\ "ATNA" \in v.b.dir)
<1> DEFINE r == ReadEmulationModeCMDHD(iec)
           wires == (iec.atn \/ "ATN" \in Wire)
<1>0. PICK atn \in BOOLEAN : atn = wires
  OBVIOUS
<1> DEFINE edge == atn # ("ATN" \in iec.sensed)
           g == ((IF edge /\ "ATNA" \in v.b.dir THEN Gate(iec.atna, atn) ELSE iec.gate)
                  /\ "ATNA" \in v.b.dir)
<1>1. iec \in Bus /\ Good(v) /\ v.told = FALSE /\ v.fcr.rise = FALSE
  BY DEF TypeOK, Settled
<1>2. PICK gate \in BOOLEAN : gate = g
  BY <1>1 DEF Gate, Bus
<1>2a. PICK reset \in BOOLEAN : reset = ("RESET" \in host)
  BY MemberIsBoolean
<1>2b. PICK level \in BOOLEAN : level = ~atn
  OBVIOUS
<1> DEFINE s == SensedLines(iec, gate) \cap Lines
           ps == {"DATAIN", "CLOCKIN"} \cup (IF edge THEN {"PB7"} ELSE {})
           w == WithInputs(v, ps, s)
           c == [iec EXCEPT !.gate = gate, !.sensed = s, !.resetting = reset]
           x == InputCA1(w, level)
<1>3. s \in SUBSET Lines /\ ("ATN" \in s) = atn
  BY <1>0, <1>1, LinesAreSensed DEF TypeOK, Lines
<1>4. r = [bus |-> c, via |-> IF edge THEN x ELSE w]
  BY <1>0, <1>2, <1>2a, <1>2b DEF ReadEmulationModeCMDHD
<1>5. ps \in SUBSET Pin
  BY DEF Pin
<1> HIDE DEF r, s, ps
<1>6. /\ c \in Bus /\ c.gate = gate /\ c.sensed = s /\ c.resetting = reset
      /\ c.asserted = iec.asserted /\ c.released = iec.released
      /\ c.atnWas = iec.atnWas /\ c.atn = iec.atn /\ c.srq = iec.srq
      /\ c.data = iec.data /\ c.clock = iec.clock
  BY <1>1, <1>3 DEF Bus
<1> HIDE DEF c
<1>7. Good(w) /\ w = [v EXCEPT !.b = w.b] /\ w.b.out = v.b.out /\ w.b.dir = v.b.dir
  BY <1>1, <1>5, WithInputsLeaves
<1> HIDE DEF w
<1>8. /\ w.told = FALSE /\ w.fcr = v.fcr /\ w.acr = v.acr /\ w.t1 = v.t1 /\ w.t2 = v.t2 /\ w.sr = v.sr
      /\ w.bits = v.bits /\ w.cb1 = v.cb1 /\ w.cb1Was = v.cb1Was /\ w.pulseB = v.pulseB
      /\ w.ifr = v.ifr /\ w.ca1 = v.ca1
  BY <1>1, <1>7 DEF Good, Via
<1>9. /\ Good(x) /\ x.told = FALSE /\ x.fcr = v.fcr
      /\ x.acr = v.acr /\ x.t1 = v.t1 /\ x.t2 = v.t2 /\ x.sr = v.sr
      /\ x.bits = v.bits /\ x.cb1 = v.cb1 /\ x.cb1Was = v.cb1Was
      /\ x.pulseB = v.pulseB /\ x.b.out = v.b.out /\ x.b.dir = v.b.dir /\ x.ca1 = level
      /\ \A f \in Flags \ {"CA1"} : f \in x.ifr <=> f \in v.ifr
  <2>1. PICK k : k = w
    OBVIOUS
  <2>2. Good(k)
    BY <1>7, <2>1
  <2>3. InputCA1(w, level) = InputCA1(k, level)
    BY <2>1
  <2>4. /\ Good(x) /\ x.told = k.told /\ x.fcr = k.fcr
        /\ x.acr = k.acr /\ x.t1 = k.t1 /\ x.t2 = k.t2 /\ x.sr = k.sr
        /\ x.bits = k.bits /\ x.cb1 = k.cb1 /\ x.cb1Was = k.cb1Was
        /\ x.pulseB = k.pulseB /\ x.b = k.b /\ x.ca1 = level
        /\ \A f \in Flags \ {"CA1"} : f \in x.ifr <=> f \in k.ifr
    BY <2>2, <2>3, InputCA1Tells
  <2> HIDE DEF x
  <2> QED BY <1>7, <1>8, <2>1, <2>4
<1>10. "CA1" \in x.ifr <=> "CA1" \in v.ifr \/ (v.ca1 # level /\ FALSE = level)
  <2>1. PICK k : k = w
    OBVIOUS
  <2>2. Good(k) /\ k.fcr.rise = FALSE
    BY <1>1, <1>7, <1>8, <2>1
  <2>3. InputCA1(w, level) = InputCA1(k, level)
    BY <2>1
  <2>4. "CA1" \in x.ifr <=> "CA1" \in k.ifr \/ (k.ca1 # level /\ k.fcr.rise = level)
    BY <2>2, <2>3, InputCA1Tells
  <2> HIDE DEF x
  <2>5. k.fcr.rise = level <=> FALSE = level
    BY <2>2
  <2> QED BY <1>8, <2>1, <2>4, <2>5
<1>11. v.ca1 \in BOOLEAN
  BY <1>1 DEF Good, Via
<1> HIDE DEF x
<1>12. /\ r.bus = c /\ r.via = IF edge THEN x ELSE w
  BY <1>4
<1>13. CASE edge
  BY <1>0, <1>2, <1>2a, <1>2b, <1>3, <1>6, <1>9, <1>10, <1>11, <1>12, <1>13 DEF r, s
<1>14. CASE ~edge
  BY <1>0, <1>2, <1>2a, <1>3, <1>6, <1>7, <1>8, <1>11, <1>12, <1>14 DEF r, s
<1> QED BY <1>13, <1>14

\* The chip stays good and CA1 is left alone.
Fine(w, x) == Good(x) /\ Quiet(w, x)

\* The auxiliary registers the firmware writes.
LEMMA SetUpsAreAuxiliary ==
  /\ NoAuxiliary \in Auxiliary
  /\ \A free, pb7 \in BOOLEAN : [NoAuxiliary EXCEPT !.free = free, !.pb7 = pb7] \in Auxiliary
  /\ [NoAuxiliary EXCEPT !.pb6 = TRUE] \in Auxiliary
  /\ [NoAuxiliary EXCEPT !.shift = 5] \in Auxiliary
<1>1. NoAuxiliary \in Auxiliary
  BY DEF Auxiliary, NoAuxiliary
<1>2. ASSUME NEW free \in BOOLEAN, NEW pb7 \in BOOLEAN
      PROVE  [NoAuxiliary EXCEPT !.free = free, !.pb7 = pb7] \in Auxiliary
  BY <1>1 DEF Auxiliary
<1>3. \A pb6 \in BOOLEAN : [NoAuxiliary EXCEPT !.pb6 = pb6] \in Auxiliary
  BY <1>1 DEF Auxiliary
<1>4. [NoAuxiliary EXCEPT !.pb6 = TRUE] \in Auxiliary
  <2>1. TRUE \in BOOLEAN
    OBVIOUS
  <2> QED BY <1>3, <2>1
<1>5. \A shift \in 0 .. 7 : [NoAuxiliary EXCEPT !.shift = shift] \in Auxiliary
  BY <1>1 DEF Auxiliary
<1>6. [NoAuxiliary EXCEPT !.shift = 5] \in Auxiliary
  <2>1. 5 \in 0 .. 7
    OBVIOUS
  <2> QED BY <1>5, <2>1
<1> QED BY <1>1, <1>2, <1>4, <1>6

LEMMA OperationsAreFine ==
  ASSUME NEW k, Good(k)
  PROVE  /\ \A s \in SUBSET Pin : Fine(k, WritePortB(k, s)) /\ Fine(k, SetDirection(k, s))
         /\ \A s \in SUBSET Pin, h \in BOOLEAN :
              Fine(k, ReadPortA(k, h).via) /\ Fine(k, WritePortA(k, s, h))
         /\ Fine(k, ReadPortB(k).via)
         /\ \A c \in Control : c.rise = k.fcr.rise => Fine(k, WriteFCR(k, c))
         /\ \A fs \in SUBSET Flags, set \in BOOLEAN :
              Fine(k, WriteIER(k, fs, set)) /\ Fine(k, WriteIFR(k, fs, FALSE))
         /\ \A l \in 0 .. Base - 1 :
              /\ Fine(k, WriteT1CH(k, l)) /\ Fine(k, WriteT1LL(k, l)) /\ Fine(k, WriteT1LH(k, l))
              /\ Fine(k, WriteT2CH(k, l)) /\ Fine(k, WriteT2LL(k, l))
         /\ Fine(k, ReadT1CL(k)) /\ Fine(k, ReadT2CL(k))
         /\ \A r \in Auxiliary : Fine(k, WriteACR(k, r))
         /\ Fine(k, AccessSR(k)) /\ \A s \in Bytes : Fine(k, WriteSR(k, s))
<1>1. \A s \in SUBSET Pin : Fine(k, WritePortB(k, s)) /\ Fine(k, SetDirection(k, s))
  BY PortsAreGood, PortsAreQuiet, SetOutputIsGood DEF Fine
<1>2. \A s \in SUBSET Pin, h \in BOOLEAN :
        Fine(k, ReadPortA(k, h).via) /\ Fine(k, WritePortA(k, s, h)) /\ Fine(k, ReadPortB(k).via)
  BY PortsAreGood, PortsAreQuiet DEF Fine
<1>3. \A c \in Control : c.rise = k.fcr.rise => Fine(k, WriteFCR(k, c))
  BY WriteFCRIsGood, WriteFCRIsQuiet DEF Fine
<1>4. ASSUME NEW fs \in SUBSET Flags, NEW set \in BOOLEAN
      PROVE  Fine(k, WriteIER(k, fs, set)) /\ Fine(k, WriteIFR(k, fs, FALSE))
  <2>1. Good(WriteIER(k, fs, set)) /\ Good(WriteIFR(k, fs, FALSE))
    BY WriteIERIsGood, WriteIFRIsGood
  <2>2. Quiet(k, WriteIER(k, fs, set))
    BY WriteIERLeaves DEF Leaves, Quiet
  <2>3. Quiet(k, WriteIFR(k, fs, FALSE))
    <3>1. WriteIFR(k, fs, FALSE).ifr = k.ifr \ fs /\ Leaves(k, WriteIFR(k, fs, FALSE))
      BY WriteIFRLeaves
    <3> QED BY <3>1 DEF Leaves, Quiet
  <2> QED BY <2>1, <2>2, <2>3 DEF Fine
<1>5. \A x : T1Step(k, x) \/ T2Step(k, x) \/ SRStep(k, x) => Fine(k, x)
  BY StepsAreQuiet DEF T1Step, T2Step, SRStep, Fine
<1>6. 0 \in 0 .. Base - 1
  BY ViaAssumption
<1>7. ASSUME NEW l \in 0 .. Base - 1
      PROVE  /\ Fine(k, WriteT1CH(k, l)) /\ Fine(k, WriteT1LL(k, l)) /\ Fine(k, WriteT1LH(k, l))
             /\ Fine(k, WriteT2CH(k, l)) /\ Fine(k, WriteT2LL(k, l))
             /\ Fine(k, ReadT1CL(k)) /\ Fine(k, ReadT2CL(k))
  <2>1. T1Step(k, WriteT1CH(k, l)) /\ T2Step(k, WriteT2CH(k, l))
    BY WriteT1CHIsStep, WriteT2CHIsStep
  <2>2. /\ T1Step(k, WriteT1LL(k, l)) /\ T1Step(k, WriteT1LH(k, l)) /\ T1Step(k, ReadT1CL(k))
        /\ T2Step(k, WriteT2LL(k, l)) /\ T2Step(k, ReadT2CL(k))
    BY AccessesCount, AccessesCount2 DEF T1Counts, T2Counts
  <2> QED BY <1>5, <2>1, <2>2
<1>8. \A r \in Auxiliary : Fine(k, WriteACR(k, r))
  BY WriteACRIsGood DEF Fine
<1>9. Fine(k, AccessSR(k)) /\ \A s \in Bytes : Fine(k, WriteSR(k, s))
  BY <1>5, AccessSRIsStep, WriteSRIsStep
<1>10. Fine(k, ReadPortB(k).via)
  <2>1. {} \in SUBSET Pin /\ TRUE \in BOOLEAN
    OBVIOUS
  <2> QED BY <1>2, <2>1
<1> QED BY <1>1, <1>2, <1>3, <1>4, <1>6, <1>7, <1>8, <1>9, <1>10

\* The processor's writes.
Access == WriteORB \/ WriteDDRB \/ ReadORA \/ AccessControl \/ AccessIER \/ AccessIFR
          \/ AccessT1 \/ AccessT2 \/ ReadSR \/ SendSR

\* An access is one of the chip's operations and the callback it leaves due.
LEMMA AccessIsWrite ==
  ASSUME TypeOK, Access
  PROVE  \E w : Good(w) /\ Quiet(v, w) /\ CpuWrite(w)
<1> PICK k : k = v
  OBVIOUS
<1>1. Good(k) /\ k.fcr.rise = FALSE
  BY DEF TypeOK, Settled
<1>2. \A w : Fine(k, w) /\ CpuWrite(w) => \E x : Good(x) /\ Quiet(v, x) /\ CpuWrite(x)
  BY DEF Fine, Quiet
<1>3. CASE WriteORB
  <2>1. PICK s : CpuWrite(WritePortB(v, s)) /\ s \in SUBSET Pin
    BY <1>3 DEF WriteORB, Pin, Outs
  <2>2. WritePortB(v, s) = WritePortB(k, s)
    OBVIOUS
  <2> QED BY <1>1, <1>2, <2>1, <2>2, OperationsAreFine
<1>4. CASE WriteDDRB
  <2>1. PICK s : CpuWrite(SetDirection(v, s)) /\ s \in SUBSET Pin
    BY <1>4 DEF WriteDDRB, Pin
  <2>2. SetDirection(v, s) = SetDirection(k, s)
    OBVIOUS
  <2> QED BY <1>1, <1>2, <2>1, <2>2, OperationsAreFine
<1>5. CASE ReadORA
  <2>1. PICK h \in BOOLEAN : CpuWrite(ReadPortA(v, h).via)
    BY <1>5 DEF ReadORA
  <2>2. ReadPortA(v, h) = ReadPortA(k, h)
    OBVIOUS
  <2>3. {} \in SUBSET Pin
    OBVIOUS
  <2> QED BY <1>1, <1>2, <2>1, <2>2, <2>3, OperationsAreFine
<1>6. CASE AccessControl
  <2>1. CASE CpuWrite(WritePortA(v, {}, TRUE))
    <3>1. WritePortA(v, {}, TRUE) = WritePortA(k, {}, TRUE)
      OBVIOUS
    <3>2. {} \in SUBSET Pin
      OBVIOUS
    <3> QED BY <1>1, <1>2, <2>1, <3>1, <3>2, OperationsAreFine
  <2>2. CASE ~CpuWrite(WritePortA(v, {}, TRUE))
    <3>1. PICK m0 \in BOOLEAN, m1 \in BOOLEAN :
            CpuWrite(WriteFCR(v, [NoControl EXCEPT !.ca2 = [out |-> TRUE, m1 |-> m1, m0 |-> m0],
                                                   !.cb2 = [out |-> m1, m1 |-> m1, m0 |-> m0]]))
      BY <1>6, <2>2 DEF AccessControl
    <3> DEFINE c == [NoControl EXCEPT !.ca2 = [out |-> TRUE, m1 |-> m1, m0 |-> m0],
                                      !.cb2 = [out |-> m1, m1 |-> m1, m0 |-> m0]]
    <3>2. c \in Control /\ c.rise = FALSE
      BY DEF NoControl, Control, Mode, Input
    <3> HIDE DEF c
    <3>3. WriteFCR(v, c) = WriteFCR(k, c)
      OBVIOUS
    <3>4. Fine(k, WriteFCR(k, c))
      BY <1>1, <3>2, OperationsAreFine
    <3> QED BY <1>2, <3>1, <3>3, <3>4 DEF c
  <2> QED BY <2>1, <2>2
<1>7. CASE AccessIER
  <2>1. PICK f \in {"T1", "SR"}, set \in BOOLEAN : CpuWrite(WriteIER(v, {f}, set))
    BY <1>7 DEF AccessIER
  <2>2. {f} \in SUBSET Flags
    BY DEF Flags
  <2>3. WriteIER(v, {f}, set) = WriteIER(k, {f}, set)
    OBVIOUS
  <2>4. Fine(k, WriteIER(k, {f}, set))
    BY <1>1, <2>2, OperationsAreFine
  <2> QED BY <1>2, <2>1, <2>3, <2>4
<1>8. CASE AccessIFR
  <2>1. CpuWrite(WriteIFR(v, {"T1"}, FALSE)) /\ {"T1"} \in SUBSET Flags /\ TRUE \in BOOLEAN
    BY <1>8 DEF AccessIFR, Flags
  <2>2. WriteIFR(v, {"T1"}, FALSE) = WriteIFR(k, {"T1"}, FALSE)
    OBVIOUS
  <2>3. Fine(k, WriteIFR(k, {"T1"}, FALSE))
    BY <1>1, <2>1, OperationsAreFine
  <2> QED BY <1>2, <2>1, <2>2, <2>3
<1>9. \A l \in {0, 1, Base - 1} : l \in 0 .. Base - 1
  BY Bounds
<1>10. CASE AccessT1
  <2>1. CASE \E l \in {0, 1, Base - 1} :
               CpuWrite(WriteT1CH(v, l)) \/ CpuWrite(WriteT1LL(v, l)) \/ CpuWrite(WriteT1LH(v, l))
    <3>1. PICK l \in 0 .. Base - 1 :
            CpuWrite(WriteT1CH(v, l)) \/ CpuWrite(WriteT1LL(v, l)) \/ CpuWrite(WriteT1LH(v, l))
      BY <1>9, <2>1
    <3>2. /\ WriteT1CH(v, l) = WriteT1CH(k, l) /\ WriteT1LL(v, l) = WriteT1LL(k, l)
          /\ WriteT1LH(v, l) = WriteT1LH(k, l)
      OBVIOUS
    <3>3. Fine(k, WriteT1CH(k, l)) /\ Fine(k, WriteT1LL(k, l)) /\ Fine(k, WriteT1LH(k, l))
      BY <1>1, OperationsAreFine
    <3> QED BY <1>2, <3>1, <3>2, <3>3
  <2>2. CASE CpuWrite(ReadT1CL(v))
    <3>1. ReadT1CL(v) = ReadT1CL(k)
      OBVIOUS
    <3> QED BY <1>1, <1>2, <2>2, <3>1, OperationsAreFine
  <2>3. CASE \E free, pb7 \in BOOLEAN :
               CpuWrite(WriteACR(v, [NoAuxiliary EXCEPT !.free = free, !.pb7 = pb7]))
    <3>1. PICK free \in BOOLEAN, pb7 \in BOOLEAN :
            CpuWrite(WriteACR(v, [NoAuxiliary EXCEPT !.free = free, !.pb7 = pb7]))
      BY <2>3
    <3> DEFINE r == [NoAuxiliary EXCEPT !.free = free, !.pb7 = pb7]
    <3>2. r \in Auxiliary
      BY SetUpsAreAuxiliary
    <3> HIDE DEF r
    <3>3. WriteACR(v, r) = WriteACR(k, r)
      OBVIOUS
    <3>4. Fine(k, WriteACR(k, r))
      BY <1>1, <3>2, OperationsAreFine
    <3> QED BY <1>2, <3>1, <3>3, <3>4 DEF r
  <2> QED BY <1>10, <2>1, <2>2, <2>3 DEF AccessT1
<1>11. CASE AccessT2
  <2>1. CASE \E l \in {0, 1, Base - 1} : CpuWrite(WriteT2CH(v, l)) \/ CpuWrite(WriteT2LL(v, l))
    <3>1. PICK l \in 0 .. Base - 1 : CpuWrite(WriteT2CH(v, l)) \/ CpuWrite(WriteT2LL(v, l))
      BY <1>9, <2>1
    <3>2. WriteT2CH(v, l) = WriteT2CH(k, l) /\ WriteT2LL(v, l) = WriteT2LL(k, l)
      OBVIOUS
    <3>3. Fine(k, WriteT2CH(k, l)) /\ Fine(k, WriteT2LL(k, l))
      BY <1>1, OperationsAreFine
    <3> QED BY <1>2, <3>1, <3>2, <3>3
  <2>2. CASE CpuWrite(ReadT2CL(v))
    <3>1. ReadT2CL(v) = ReadT2CL(k)
      OBVIOUS
    <3> QED BY <1>1, <1>2, <2>2, <3>1, OperationsAreFine
  <2>3. CASE \E x \in {NoAuxiliary, [NoAuxiliary EXCEPT !.pb6 = TRUE], [NoAuxiliary EXCEPT !.shift = 5]} :
               CpuWrite(WriteACR(v, x))
    <3>1. PICK r \in {NoAuxiliary, [NoAuxiliary EXCEPT !.pb6 = TRUE], [NoAuxiliary EXCEPT !.shift = 5]} :
            CpuWrite(WriteACR(v, r))
      BY <2>3
    <3>2. r \in Auxiliary
      BY SetUpsAreAuxiliary
    <3>3. WriteACR(v, r) = WriteACR(k, r)
      OBVIOUS
    <3>4. Fine(k, WriteACR(k, r))
      BY <1>1, <3>2, OperationsAreFine
    <3> QED BY <1>2, <3>1, <3>3, <3>4
  <2> QED BY <1>11, <2>1, <2>2, <2>3 DEF AccessT2
<1>12. CASE ReadSR
  <2>1. AccessSR(v) = AccessSR(k)
    OBVIOUS
  <2> QED BY <1>1, <1>2, <1>12, <2>1, OperationsAreFine DEF ReadSR
<1>13. CASE SendSR
  <2>1. PICK s \in Bytes : CpuWrite(WriteSR(v, s))
    BY <1>13 DEF SendSR
  <2>2. WriteSR(v, s) = WriteSR(k, s)
    OBVIOUS
  <2> QED BY <1>1, <1>2, <2>1, <2>2, OperationsAreFine
<1> QED BY <1>3, <1>4, <1>5, <1>6, <1>7, <1>8, <1>10, <1>11, <1>12, <1>13 DEF Access

----------------------------------------------------------------------------
(* Types *)

\* A write of the processor, and the callback after it.
LEMMA WriteKeepsTypes ==
  ASSUME TypeOK, Access
  PROVE  /\ Settled' /\ iec' \in Bus /\ SameLines(iec, iec') /\ outward' \in BOOLEAN
         /\ pc = "cpu" /\ pc' \in {"first", "execute"} /\ ret' \in {"execute", ret}
         /\ pc' = "first" => ret' = "execute"
         /\ v'.ca1 = v.ca1 /\ ("CA1" \in v'.ifr => "CA1" \in v.ifr)
         /\ UNCHANGED <<program, pins, host, half, resets>>
<1>1. PICK w : Good(w) /\ Quiet(v, w) /\ CpuWrite(w)
  BY AccessIsWrite
<1>2. PICK b : b = iec
  OBVIOUS
<1>3. b \in Bus /\ outward \in BOOLEAN /\ v.fcr.rise = FALSE
  BY <1>2 DEF TypeOK, Settled
<1>3a. Callback(w, b, "execute")
  BY <1>1, <1>2 DEF CpuWrite
<1>3b. Called(w, b, "execute")
  BY <1>1, <1>3, <1>3a, CallbackKeeps
<1>4. /\ Good(v') /\ v'.told = FALSE /\ Alike(w, v')
      /\ iec' \in Bus /\ SameLines(b, iec')
      /\ outward' \in BOOLEAN
      /\ (pc' = "first" /\ ret' = "execute") \/ (pc' = "execute" /\ ret' = ret)
  BY <1>3b DEF Called
<1>5. w.fcr.rise = FALSE /\ w.ca1 = v.ca1 /\ ("CA1" \in w.ifr => "CA1" \in v.ifr)
  BY <1>1, <1>3 DEF Quiet
<1>6. v'.fcr.rise = FALSE /\ v'.ca1 = v.ca1 /\ ("CA1" \in v'.ifr => "CA1" \in v.ifr)
  BY <1>4, <1>5 DEF Alike
<1>7. pc = "cpu" /\ UNCHANGED <<program, pins, host, half, resets>>
  BY <1>1 DEF CpuWrite
<1> QED BY <1>2, <1>4, <1>6, <1>7 DEF Settled

\* What an access does to the due times and to the byte that is sent.
LEMMA AccessKeepsLeft == ASSUME TypeOK, Access PROVE left' \in Nat /\ peer' \in Peer
<1>1. Settled' /\ left \in Nat /\ peer \in Peer /\ Good(v)
  BY WriteKeepsTypes DEF TypeOK, Settled
<1>2. \A c \in Counts : c \in Nat
  BY Bounds DEF Counts
<1>3. CASE AccessT1
  <2>1. \A h \in {0, 1} : Word(h, Low(v.t1.latch)) \in Counts
    <3>1. v.t1.latch \in Counts
      BY <1>1 DEF Good, Via, Timer1
    <3>2. Low(v.t1.latch) \in 0 .. Base - 1 /\ \A h \in {0, 1} : h \in 0 .. Base - 1
      BY <3>1, BytesOfCount, Bounds
    <3> QED BY <3>2, WordIsCount
  <2>2. left' = left \/ \E h \in {0, 1} : left' = Word(h, Low(v.t1.latch)) + 2
    BY <1>3 DEF AccessT1
  <2>3. peer' = peer
    BY <1>3 DEF AccessT1
  <2>4. \A n \in Nat : n + 2 \in Nat
    OBVIOUS
  <2> QED BY <1>1, <1>2, <2>1, <2>2, <2>3, <2>4
<1>4. CASE AccessT2
  <2>1. v'.t2.count \in Nat
    BY <1>1, <1>2 DEF Settled, Good, Via, Timer2
  <2> QED BY <1>1, <1>4, <2>1, Bounds DEF AccessT2, Unforeseen
<1>5. CASE ReadSR
  BY <1>1, <1>5, Bounds DEF ReadSR, Peer
<1>6. CASE SendSR
  BY <1>1, <1>6 DEF SendSR, Peer
<1>7. CASE UNCHANGED <<left, peer>>
  BY <1>1, <1>7
<1> QED BY <1>3, <1>4, <1>5, <1>6, <1>7
        DEF Access, WriteORB, WriteDDRB, ReadORA, AccessControl, AccessIER, AccessIFR

\* The sample before a read of port B, and the read.
LEMMA ReadORBKeeps ==
  ASSUME TypeOK, ReadORB
  PROVE  /\ Settled' /\ iec' \in Bus
         /\ iec'.asserted = iec.asserted /\ iec'.released = iec.released /\ iec'.atnWas = iec.atnWas
         /\ iec'.resetting = iec.resetting /\ ("ATN" \in iec'.sensed <=> "ATN" \in iec.sensed)
         /\ v'.ca1 = v.ca1 /\ ("CA1" \in v'.ifr => "CA1" \in v.ifr)
<1> PICK k : k = v
  OBVIOUS
<1> PICK b : b = iec
  OBVIOUS
<1>1. Good(k) /\ k.told = FALSE /\ k.fcr.rise = FALSE /\ b \in Bus
  BY DEF TypeOK, Settled
<1>2. PICK s : s = SensedLines(iec, iec.gate)
  OBVIOUS
<1> DEFINE t == (b.sensed \ DC) \cup (s \cap DC)
           c == [b EXCEPT !.sensed = t]
           w == WithInputs(k, {"DATAIN", "CLOCKIN"}, s)
           x == ReadPortB(w).via
<1>3. iec' = c /\ v' = x
  BY <1>2 DEF ReadORB, SampleIECInsNow, DC
<1>4. t \in SUBSET Lines /\ ("ATN" \in t <=> "ATN" \in b.sensed)
  BY <1>1 DEF Bus, DC, Lines
<1> HIDE DEF t
<1>5. /\ c \in Bus /\ c.sensed = t /\ c.asserted = b.asserted /\ c.released = b.released
      /\ c.atnWas = b.atnWas /\ c.resetting = b.resetting
  BY <1>1, <1>4 DEF Bus
<1> HIDE DEF c
<1>6. {"DATAIN", "CLOCKIN"} \in SUBSET Pin
  BY DEF Pin
<1>7. Good(w) /\ w = [k EXCEPT !.b = w.b]
  BY <1>1, <1>6, WithInputsLeaves
<1> HIDE DEF w
<1>8. w.told = FALSE /\ w.fcr = k.fcr /\ w.ca1 = k.ca1 /\ w.ifr = k.ifr
  BY <1>1, <1>7 DEF Good, Via
<1>9. PICK fs \in SUBSET Flags : fs = {"CB1", "CB2"}
  BY DEF Flags
<1>10. PICK m : m = w
  OBVIOUS
<1>11. Good(m) /\ x = ClearInterrupt(m, fs)
  BY <1>7, <1>9, <1>10 DEF ReadPortB
<1> HIDE DEF x
<1>12. PICK irq \in BOOLEAN, line \in BOOLEAN :
         ClearInterrupt(m, fs) = [m EXCEPT !.ifr = m.ifr \ fs, !.irq = irq, !.line = line]
  BY <1>11, ClearBeside
<1>13. Good(x)
  BY <1>11, ClearIsGood
<1>14. x.told = m.told /\ x.fcr = m.fcr /\ x.ca1 = m.ca1 /\ x.ifr = m.ifr \ fs
  BY <1>11, <1>12 DEF Good, Via
<1> QED BY <1>1, <1>3, <1>4, <1>5, <1>8, <1>10, <1>13, <1>14 DEF Settled

\* The fast serial buffer.
LEMMA SerialKeeps ==
  ASSUME TypeOK, Serial
  PROVE  /\ Settled' /\ iec' \in Bus /\ SameLines(iec, iec') /\ iec'.atn = iec.atn
         /\ v'.ca1 = v.ca1 /\ v'.t1 = v.t1 /\ v'.t2 = v.t2 /\ v'.acr = v.acr
         /\ \A f \in Flags \ {"CB1", "CB2"} : f \in v'.ifr <=> f \in v.ifr
         /\ ~outward => /\ iec' = iec /\ v'.fcr = v.fcr /\ v'.b = v.b /\ v'.sr = v.sr /\ v'.bits = v.bits
                        /\ v'.cb1Was = v.cb1Was /\ v'.pulseB = v.pulseB
                        /\ v'.cb1 = ("SRQ" \in iec.sensed)
                        /\ ~v.fcr.cb2.out => v'.cb2 = ("DATA" \notin iec.sensed)
<1> PICK k : k = v
  OBVIOUS
<1> PICK b : b = iec
  OBVIOUS
<1>1. Good(k) /\ k.told = FALSE /\ k.fcr.rise = FALSE /\ b \in Bus /\ outward \in BOOLEAN
  BY DEF TypeOK, Settled
<1>2. CASE outward
  <2>1. iec' = [b EXCEPT !.data = ~k.data, !.srq = k.clock] /\ v' = k
    BY <1>2 DEF Serial, FastSerial
  <2>2. PICK d \in BOOLEAN, c \in BOOLEAN : d = (~k.data) /\ c = k.clock
    BY <1>1 DEF Good, Via
  <2>3. iec' = [b EXCEPT !.data = d, !.srq = c]
    BY <2>1, <2>2
  <2>4. iec' \in Bus /\ SameLines(b, iec') /\ iec'.atn = b.atn
    BY <1>1, <2>3 DEF Bus, SameLines
  <2> QED BY <1>1, <1>2, <2>1, <2>4 DEF Settled
<1>3. CASE ~outward
  <2>1. PICK d \in BOOLEAN : d = ("DATA" \notin iec.sensed)
    <3>1. PICK e \in BOOLEAN : e = ("DATA" \in iec.sensed)
      BY MemberIsBoolean
    <3> QED BY <3>1
  <2>2. PICK s \in BOOLEAN : s = ("SRQ" \in iec.sensed)
    BY MemberIsBoolean
  <2>3. iec' = b /\ v' = InputCB1(InputCB2(k, d), s)
    BY <1>3, <2>1, <2>2 DEF Serial, FastSerial
  <2>4. SameLines(b, b)
    BY DEF SameLines
  <2> DEFINE x == InputCB1(InputCB2(k, d), s)
  <2>5. Good(x) /\ SerialTold(k, x, d, s)
    BY <1>1, SerialInTells
  <2> HIDE DEF x
  <2>6. v' = x /\ Good(v')
    BY <2>3, <2>5 DEF x
  <2>7. Settled'
    BY <1>1, <2>5, <2>6 DEF Settled, SerialTold
  <2> QED BY <1>1, <1>3, <2>1, <2>2, <2>3, <2>4, <2>5, <2>6, <2>7 DEF SerialTold
<1> QED BY <1>1, <1>2, <1>3

\* A cycle of the chip, and the callback after it.
LEMMA RunKeeps ==
  ASSUME TypeOK, Run
  PROVE  /\ Settled' /\ Cycle(v, v') /\ iec' \in Bus /\ SameLines(iec, iec') /\ outward' \in BOOLEAN
         /\ pc' \in {"first", "serial"} /\ ret' \in {"serial", ret} /\ (pc' = "first" => ret' = "serial")
         /\ ~v.acr.pb7 => iec' = iec /\ pc' = "serial" /\ outward' = outward /\ ret' = ret
<1> PICK k : k = v
  OBVIOUS
<1> PICK b : b = iec
  OBVIOUS
<1>1. Good(k) /\ k.told = FALSE /\ k.fcr.rise = FALSE /\ b \in Bus /\ outward \in BOOLEAN
  BY DEF TypeOK, Settled
<1>2. PICK x : x = Execute(k)
  OBVIOUS
<1>3. Cycle(k, x) /\ Good(x)
  BY <1>1, <1>2, ExecuteIsCycle DEF Cycle
<1>4. Callback(x, b, "serial")
  BY <1>2 DEF Run
<1>5. Called(x, b, "serial")
  BY <1>1, <1>3, <1>4, CallbackKeeps
<1>6. Good(v') /\ v'.told = FALSE /\ Alike(x, v')
  BY <1>5 DEF Called
<1>7. v'.fcr.rise = FALSE
  BY <1>1, <1>3, <1>6 DEF Cycle, Alike
<1>8. Cycle(k, v')
  <2>1. Good(v')
    BY <1>6
  <2>2. /\ v'.fcr = k.fcr /\ v'.acr = k.acr /\ v'.ier = k.ier /\ v'.a = k.a /\ v'.b.dir = k.b.dir
        /\ v'.b.in = k.b.in /\ v'.ca1 = k.ca1 /\ v'.cb1 = k.cb1
        /\ v'.pulseA = k.pulseA /\ v'.pulseB = k.pulseB
        /\ v'.cb2 = (k.cb2 /\ ~k.pulseB)
        /\ \A f \in Flags \ {"T1", "T2", "SR"} : f \in v'.ifr <=> f \in k.ifr
    BY <1>3, <1>6 DEF Cycle, Alike
  <2>3. ~k.acr.pb7 => Ports(k, v')
    BY <1>1, <1>3, <1>6 DEF Cycle, Alike, Ports
  <2>4. T1Ticks(k, v')
    BY <1>3, <1>6 DEF Cycle, Alike, T1Ticks
  <2>5. T2Ticks(k, v')
    BY <1>3, <1>6 DEF Cycle, Alike, T2Ticks
  <2>6. ~k.pulseB => ShiftsInExternally(k, v')
    BY <1>3, <1>6 DEF Cycle, Alike, ShiftsInExternally
  <2> QED BY <2>1, <2>2, <2>3, <2>4, <2>5, <2>6 DEF Cycle
<1>9. ~k.acr.pb7 => ~x.told
  BY <1>1, <1>3 DEF Cycle, Ports
<1>10. /\ iec' \in Bus /\ SameLines(b, iec') /\ outward' \in BOOLEAN
       /\ (pc' = "first" /\ ret' = "serial") \/ (pc' = "serial" /\ ret' = ret)
       /\ ~x.told => iec' = b /\ pc' = "serial" /\ outward' = outward /\ ret' = ret
  BY <1>5 DEF Called
<1> QED BY <1>6, <1>7, <1>8, <1>9, <1>10 DEF Settled

\* The reset of the drive and its return from the browser.
LEMMA RestartKeeps ==
  ASSUME TypeOK, Restart
  PROVE  Settled' /\ v'.ifr = {}
<1> PICK k : k = v
  OBVIOUS
<1>1. Good(k) /\ k.told = FALSE
  BY DEF TypeOK, Settled
<1>2. k \in ChipOf(Timer1, Timer2, Bytes) /\ k.t1.irqs \in BOOLEAN
  BY <1>1 DEF Good, Via, ChipOf, Timer1
<1>3. Fresh(k, ViaReset(k))
  <2>1. PICK irqs \in BOOLEAN : k.t1.irqs = irqs
    BY <1>2
  <2> QED BY <1>2, <2>1, ResetIsFresh
<1>4. v' = ViaReset(k)
  BY DEF Restart
<1>5. NoControl.rise = FALSE
  BY DEF NoControl
<1> QED BY <1>1, <1>3, <1>4, <1>5 DEF Fresh, Settled

LEMMA ResumeKeeps ==
  ASSUME TypeOK, Resume
  PROVE  Settled' /\ v'.ca1 = TRUE /\ ("CA1" \in v'.ifr => "CA1" \in v.ifr)
<1> PICK k : k = v
  OBVIOUS
<1>1. Good(k) /\ k.told = FALSE /\ k.fcr.rise = FALSE
  BY DEF TypeOK, Settled
<1> DEFINE ps == k.b.in \cup {"DATAOUT", "CLOCKOUT", "ATNA"}
           w == [k EXCEPT !.b.in = ps]
<1>2. ps \in SUBSET Pin
  BY <1>1 DEF Good, Via, Port, Pin, Outs
<1>3. v' = InputCA1(w, TRUE)
  BY DEF Resume, Resumed
<1> HIDE DEF ps
<1>4. Good(w) /\ w.told = FALSE /\ w.fcr.rise = FALSE /\ w.ifr = k.ifr
  BY <1>1, <1>2 DEF Good, Via, Sound, Port
<1>5. PICK m, y : m = w /\ y = InputCA1(m, TRUE)
  OBVIOUS
<1> HIDE DEF w
<1>6. Good(m) /\ m.told = FALSE /\ m.fcr.rise = FALSE /\ m.ifr = k.ifr /\ v' = y
  BY <1>3, <1>4, <1>5
<1>7. /\ Good(y) /\ y.ca1 = TRUE /\ y.told = m.told /\ y.fcr = m.fcr
      /\ "CA1" \in y.ifr <=> "CA1" \in m.ifr \/ (m.ca1 # TRUE /\ m.fcr.rise = TRUE)
  BY <1>5, <1>6, InputCA1Tells
<1> QED BY <1>6, <1>7 DEF Settled

----------------------------------------------------------------------------
(* The bus *)

\* Only the computer that asks for the drive pulls RESET.
Calm ==
  program # "atn" =>
    "RESET" \notin host /\ iec.resetting = FALSE /\ pc \in Running \cup Refreshing /\ ret \in Running

\* Where the drive has let go of the bus.
Left == {"resume", "letsrq", "browse"}

\* What the drive pulls is what it last meant, between the writes of a refresh
\* what is common to both or what is in either.
BusInv ==
  /\ iec.released = DC \ iec.asserted
  /\ pc # "second" => pins \cap DC = iec.asserted
  /\ pc = "second" => pins \cap DC = IF ReleaseFirst(iec) THEN iec.asserted \cap Pulled(iec)
                                     ELSE iec.asserted \cup Pulled(iec)
  /\ "ATN" \in pins <=> iec.atnWas = TRUE
  /\ pc \in Left \/ (pc \in Refreshing /\ ret \in Left)
       => Pulled(iec) = {} /\ iec.atn = FALSE /\ iec.srq = FALSE
  /\ pc \in Left => pins = {}

\* CA1 has the level of the last sample while the drive runs.
Listening == Running \cup {"card", "waitreset"}
AtnInv ==
  /\ pc \in Listening \/ (pc \in Refreshing /\ ret \in Listening) => v.ca1 = ("ATN" \notin iec.sensed)
  /\ pc = "resume" \/ (pc \in Refreshing /\ ret = "resume") => "ATN" \notin iec.sensed

Common == TypeOK /\ Calm /\ BusInv /\ AtnInv

\* A step that leaves the pins alone.
LEMMA PinsKept ==
  ASSUME BusInv, pins' = pins, pc \notin {"second"}, pc' \notin {"second"} \cup Left,
         iec'.asserted = iec.asserted, iec'.released = iec.released, iec'.atnWas = iec.atnWas,
         pc' = "first" /\ ret' \in Left
           => Pulled(iec)' = {} /\ iec'.atn = FALSE /\ iec'.srq = FALSE
  PROVE  BusInv'
BY DEF BusInv, Refreshing

\* Common is inductive: at first, and by every group of actions.
LEMMA CommonAtFirst == ASSUME Init PROVE Common
<1> PICK p : p = program
  OBVIOUS
<1> PICK k : k = v
  OBVIOUS
<1> DEFINE c == PortB_OnPortOut(NoBus, k.b)
           b == [c EXCEPT !.released = DC]
<1>1. v = Configured(p) /\ iec = b
  BY DEF Init, DC
<1>2. k = Configured(p)
  BY <1>1
<1>3. Good(k) /\ ~k.told /\ k.fcr = NoControl /\ k.ca1
  BY <1>2, ConfiguredIsGood
<1>4. k.told = FALSE /\ k.ca1 = TRUE /\ k.fcr.rise = FALSE
  BY <1>3 DEF NoControl, Good, Via
<1>5. NoBus \in Bus /\ NoBus.sensed = {} /\ NoBus.asserted = {} /\ NoBus.atnWas = FALSE /\ NoBus.resetting = FALSE
  BY DEF NoBus, Bus
<1>6. c \in Bus /\ SameLines(NoBus, c)
  BY <1>5, PortOutKeeps
<1> HIDE DEF c
<1>7. /\ b \in Bus /\ b.sensed = {} /\ b.asserted = {} /\ b.atnWas = FALSE /\ b.resetting = FALSE
      /\ b.released = DC
  BY <1>5, <1>6 DEF Bus, SameLines
<1> HIDE DEF b
<1>8. /\ pins = {} /\ host = {} /\ pc = "read" /\ ret = "read" /\ half = 0
      /\ outward = (program = "send") /\ resets = 0 /\ left = 0 /\ program \in Programs
      /\ peer = [byte |-> <<>>, bit |-> 0, seen |-> FALSE]
  BY DEF Init
<1>9. TypeOK
  <2>1. peer \in Peer
    BY <1>8, Bounds DEF Peer
  <2>2. outward \in BOOLEAN
    BY <1>8
  <2> QED BY <1>1, <1>3, <1>4, <1>7, <1>8, <2>1, <2>2 DEF TypeOK, Settled, Places, Running
<1>10. Calm
  BY <1>1, <1>7, <1>8 DEF Calm, Running
<1>11. BusInv
  BY <1>1, <1>7, <1>8 DEF BusInv, Refreshing, Left
<1>12. AtnInv
  BY <1>1, <1>4, <1>7, <1>8 DEF AtnInv, Refreshing
<1> QED BY <1>9, <1>10, <1>11, <1>12 DEF Common

LEMMA SensingKeepsCommon == ASSUME Common, Read \/ CardBusy PROVE Common'
<1> DEFINE r == ReadEmulationModeCMDHD(iec)
           atn == "ATN" \in r.bus.sensed
<1>1. iec' = r.bus /\ v' = r.via
  BY DEF Read, CardBusy, Hook
<1>2. /\ TypeOK /\ Calm /\ BusInv /\ AtnInv
  BY DEF Common
<1>3. /\ r.bus \in Bus /\ r.bus.asserted = iec.asserted /\ r.bus.released = iec.released
      /\ r.bus.atnWas = iec.atnWas /\ r.bus.resetting = ("RESET" \in host)
      /\ Good(r.via) /\ r.via.told = FALSE /\ r.via.fcr = v.fcr
      /\ r.via.ca1 = IF atn # ("ATN" \in iec.sensed) THEN ~atn ELSE v.ca1
  BY <1>2, ReadKeeps
<1>4. v' \in Via /\ v.fcr.rise = FALSE /\ v.ca1 \in BOOLEAN
  BY <1>1, <1>2, <1>3 DEF TypeOK, Settled, Good, Via
<1> HIDE DEF r
<1>5. /\ pc \in {"read", "card", "resetflush", "scan", "eject"}
      /\ (pc = "read" /\ pc' = "cpu") \/ (pc' = "first" /\ ret' = pc)
      /\ ret' \in {ret, pc} /\ half' \in {0, half}
      /\ peer' \in {peer, [peer EXCEPT !.seen = TRUE]}
      /\ UNCHANGED <<program, pins, host, outward, resets, left>>
  BY DEF Read, CardBusy, Hook, Waiting, Refresh
<1>6. TypeOK'
  <2>1. peer' \in Peer
    BY <1>2, <1>5 DEF TypeOK, Peer
  <2> QED BY <1>1, <1>2, <1>3, <1>4, <1>5, <2>1 DEF TypeOK, Settled, Places, Running, Refreshing
<1>7. Calm'
  <2>1. "RESET" \notin host => iec'.resetting = FALSE
    <3>1. PICK e \in BOOLEAN : e = ("RESET" \in host)
      BY MemberIsBoolean
    <3>2. iec'.resetting = e
      BY <1>1, <1>3, <3>1
    <3> QED BY <3>1, <3>2
  <2> QED BY <1>2, <1>5, <2>1 DEF Calm, Running, Refreshing
<1>8. BusInv'
  BY <1>1, <1>2, <1>3, <1>5, PinsKept DEF Left
<1>9. AtnInv'
  <2>1. v'.ca1 = IF atn # ("ATN" \in iec.sensed) THEN ~atn ELSE v.ca1
    BY <1>1, <1>3
  <2>2. pc \in Listening => v.ca1 = ("ATN" \notin iec.sensed)
    BY <1>2 DEF AtnInv
  <2>3. pc' \in Listening \/ (pc' \in Refreshing /\ ret' \in Listening) => pc \in Listening
    BY <1>5 DEF Listening, Running, Refreshing
  <2>4. pc' # "resume" /\ ~(pc' \in Refreshing /\ ret' = "resume")
    BY <1>5 DEF Refreshing
  <2> QED BY <1>1, <2>1, <2>2, <2>3, <2>4 DEF AtnInv
<1> QED BY <1>6, <1>7, <1>8, <1>9 DEF Common

LEMMA ChipKeepsCommon == ASSUME Common, Access \/ ReadORB \/ Run \/ Serial PROVE Common'
<1>1. /\ TypeOK /\ Calm /\ BusInv /\ AtnInv
  BY DEF Common
<1>2. /\ Settled' /\ iec' \in Bus /\ outward' \in BOOLEAN /\ v'.ca1 = v.ca1
      /\ iec'.asserted = iec.asserted /\ iec'.released = iec.released /\ iec'.atnWas = iec.atnWas
      /\ iec'.resetting = iec.resetting /\ ("ATN" \in iec'.sensed <=> "ATN" \in iec.sensed)
      /\ left' \in Nat /\ peer' \in Peer /\ half' \in {0, 1}
      /\ UNCHANGED <<program, pins, host, resets>>
      /\ pc \in {"cpu", "execute", "serial"}
      /\ pc' \in {"cpu", "execute", "serial"} \/ (pc' = "first" /\ ret' \in {"execute", "serial", "poll"})
      /\ ret' \in {ret, "execute", "serial", "poll"}
  <2>1. CASE Access
    <3>1. half' \in {0, 1}
      BY <1>1, <2>1, WriteKeepsTypes DEF TypeOK
    <3> QED BY <1>1, <2>1, <3>1, WriteKeepsTypes, AccessKeepsLeft DEF SameLines
  <2>2. CASE ReadORB
    BY <1>1, <2>2, ReadORBKeeps DEF ReadORB, TypeOK
  <2>3. CASE Run
    <3>1. left' \in Nat
      <4>1. left \in Nat /\ v.t1.latch \in Nat
        BY <1>1, Bounds DEF TypeOK, Settled, Good, Via, Timer1, Counts
      <4>2. left' = DueT1 \/ left' = DueT2
        BY <2>3 DEF Run
      <4> QED BY <4>1, <4>2 DEF DueT1, DueT2
    <3>2. /\ peer' = peer /\ half' = half /\ UNCHANGED <<program, pins, host, resets>>
          /\ pc = "execute"
      BY <2>3 DEF Run
    <3>3. v'.ca1 = v.ca1
      BY <1>1, <2>3, RunKeeps DEF Cycle
    <3> QED BY <1>1, <2>3, <3>1, <3>2, <3>3, RunKeeps DEF SameLines, TypeOK
  <2>4. CASE Serial
    <3>1. /\ UNCHANGED <<program, pins, host, outward, resets, left, peer>> /\ pc = "serial"
          /\ half' \in {0, 1}
          /\ (pc' = "cpu" /\ ret' = ret) \/ (pc' = "first" /\ ret' = "poll")
      BY <2>4 DEF Serial, Refresh
    <3> QED BY <1>1, <2>4, <3>1, SerialKeeps DEF SameLines, TypeOK
  <2> QED BY <2>1, <2>2, <2>3, <2>4
<1>3. TypeOK'
  BY <1>1, <1>2 DEF TypeOK, Places, Running, Refreshing
<1>4. Calm'
  BY <1>1, <1>2 DEF Calm, Running, Refreshing
<1>5. BusInv'
  <2>1. ret' \notin Left \/ pc' # "first"
    BY <1>2 DEF Left
  <2> QED BY <1>1, <1>2, <2>1, PinsKept DEF Left
<1>6. AtnInv'
  BY <1>1, <1>2 DEF AtnInv, Listening, Running, Refreshing
<1> QED BY <1>3, <1>4, <1>5, <1>6 DEF Common

\* The loop's own steps, which touch neither the chip nor the bus's state.
LEMMA LoopKeepsCommon ==
  ASSUME Common, CpuIdle \/ CardAccess \/ CardDone \/ Poll \/ Panel \/ WaitUntilReset \/ Host \/ UNCHANGED vars
  PROVE  Common'
<1>1. /\ TypeOK /\ Calm /\ BusInv /\ AtnInv
  BY DEF Common
<1>2. UNCHANGED <<program, v, iec, pins, ret, half, outward, left>>
  BY DEF CpuIdle, CardAccess, CardDone, Poll, Panel, WaitUntilReset, Host, HostMoves, HostBegins,
         HostShifts, vars
<1>3. /\ pc' \in Places
      /\ pc' = pc \/ (pc \notin Refreshing \cup Left /\ pc' \notin Refreshing \cup Left)
      /\ program # "atn" => pc' \in Running \cup Refreshing
      /\ pc' \in Listening => pc \in Listening
  <2>1. CASE Host \/ UNCHANGED vars
    BY <1>1, <2>1 DEF Host, HostMoves, HostBegins, HostShifts, vars, Calm, TypeOK
  <2>2. CASE CpuIdle \/ CardAccess \/ CardDone \/ Panel \/ WaitUntilReset
    BY <1>1, <2>2 DEF CpuIdle, CardAccess, CardDone, Panel, WaitUntilReset, Calm, TypeOK, Waiting,
                      Places, Running, Refreshing, Listening, Left
  <2>3. CASE Poll
    <3>1. program # "atn" => resets' = 0
      BY <1>1, <2>3 DEF Poll, Calm
    <3>2. program # "atn" => pc' = "read"
      BY <2>3, <3>1, BusAssumption DEF Poll
    <3> QED BY <2>3, <3>2 DEF Poll, Places, Running, Refreshing, Listening, Left
  <2> QED BY <2>1, <2>2, <2>3
<1>4. resets' \in Nat
  <2>1. resets' \in {resets, resets + 1, 0}
    BY DEF CpuIdle, CardAccess, CardDone, Poll, Panel, WaitUntilReset, Host, HostMoves,
           HostBegins, HostShifts, vars
  <2> QED BY <1>1, <2>1 DEF TypeOK
<1>5. /\ host' \in SUBSET (Lines \cup {"RESET"}) /\ peer' \in Peer
      /\ program # "atn" => "RESET" \notin host'
  <2>1. CASE HostMoves
    BY <1>1, <2>1 DEF HostMoves, Movable, TypeOK, Calm, Lines
  <2>2. CASE HostBegins
    <3>1. 1 \in 0 .. Width
      BY Bounds
    <3> QED BY <1>1, <2>2, <3>1 DEF HostBegins, TypeOK, Lines, Peer
  <2>3. CASE HostShifts
    <3>1. peer \in Peer /\ host \in SUBSET (Lines \cup {"RESET"})
      BY <1>1 DEF TypeOK
    <3>2. peer.bit < Width => peer.bit + 1 \in 0 .. Width
      BY <3>1, Bounds DEF Peer
    <3>3. peer' \in Peer
      BY <2>3, <3>1, <3>2 DEF HostShifts, Peer
    <3>4. host' \in SUBSET (Lines \cup {"RESET"}) /\ (program # "atn" => "RESET" \notin host')
      BY <1>1, <2>3, <3>1 DEF HostShifts, Lines, Calm
    <3> QED BY <3>3, <3>4
  <2>4. CASE UNCHANGED <<host, peer>>
    BY <1>1, <2>4 DEF TypeOK, Calm
  <2> QED BY <2>1, <2>2, <2>3, <2>4 DEF CpuIdle, CardAccess, CardDone, Poll, Panel, WaitUntilReset, Host, vars
<1>6. TypeOK'
  BY <1>1, <1>2, <1>3, <1>4, <1>5 DEF TypeOK, Settled
<1>7. Calm'
  BY <1>1, <1>2, <1>3, <1>5 DEF Calm
<1>8. BusInv'
  BY <1>1, <1>2, <1>3 DEF BusInv, Refreshing, Pulled, ReleaseFirst
<1>9. AtnInv'
  BY <1>1, <1>2, <1>3 DEF AtnInv, Refreshing, Left
<1> QED BY <1>6, <1>7, <1>8, <1>9 DEF Common

\* The two writes of a refresh.
LEMMA WritesKeepCommon == ASSUME Common, FirstWrite \/ SecondWrite PROVE Common'
<1>1. /\ TypeOK /\ Calm /\ BusInv /\ AtnInv /\ iec \in Bus /\ pins \in SUBSET Lines
  BY DEF Common, TypeOK
<1>2. /\ UNCHANGED <<program, v, host, ret, half, outward, resets, left, peer>>
      /\ pc \in Refreshing
  BY DEF FirstWrite, SecondWrite, Refreshing
<1> DEFINE P == Pulled(iec)
<1>3. P \in SUBSET DC
  BY DEF Pulled, DC
<1>4. CASE FirstWrite
  <2>1. /\ iec' = iec /\ pc = "first" /\ pc' = "second"
        /\ pins' = IF ReleaseFirst(iec) THEN pins \ (DC \ P) ELSE pins \cup P
    BY <1>4 DEF FirstWrite, DC
  <2>2. Pulled(iec)' = P /\ ReleaseFirst(iec)' = ReleaseFirst(iec)
    BY <2>1 DEF Pulled, ReleaseFirst
  <2> HIDE DEF P
  <2>3. pins' \in SUBSET Lines /\ ("ATN" \in pins' <=> "ATN" \in pins)
    BY <1>1, <1>3, <2>1 DEF DC, Lines
  <2>4. pins' \cap DC = IF ReleaseFirst(iec) THEN iec.asserted \cap P ELSE iec.asserted \cup P
    BY <1>1, <1>3, <2>1 DEF BusInv
  <2>5. TypeOK' /\ Calm'
    BY <1>1, <1>2, <2>1, <2>3 DEF TypeOK, Calm, Settled, Places, Refreshing
  <2>6. BusInv'
    BY <1>1, <2>1, <2>2, <2>3, <2>4, <1>2 DEF BusInv, Refreshing, Left, P
  <2>7. AtnInv'
    BY <1>1, <1>2, <2>1 DEF AtnInv, Refreshing, Listening, Running
  <2> QED BY <2>5, <2>6, <2>7 DEF Common
<1>5. CASE SecondWrite
  <2> DEFINE lines == (pins \ DC) \cup P
             atn == IF iec.atn = iec.atnWas THEN lines \cap {"ATN"} ELSE IF iec.atn THEN {"ATN"} ELSE {}
             srq == IF ~Periodic THEN lines \cap {"SRQ"} ELSE IF iec.srq THEN {"SRQ"} ELSE {}
  <2>1. /\ pins' = (lines \ {"ATN", "SRQ"}) \cup atn \cup srq
        /\ iec' = [iec EXCEPT !.atnWas = iec.atn, !.asserted = P, !.released = DC \ P]
        /\ pc = "second" /\ pc' = ret
    BY <1>5 DEF SecondWrite, DC
  <2> HIDE DEF P
  <2>2. /\ iec' \in Bus /\ iec'.asserted = P /\ iec'.released = DC \ P /\ iec'.atnWas = iec.atn
        /\ iec'.data = iec.data /\ iec'.gate = iec.gate /\ iec'.clock = iec.clock
        /\ iec'.atn = iec.atn /\ iec'.srq = iec.srq /\ iec'.sensed = iec.sensed
        /\ iec'.resetting = iec.resetting
    BY <1>1, <1>3, <2>1 DEF Bus
  <2>3. atn \in SUBSET {"ATN"} /\ srq \in SUBSET {"SRQ"} /\ ("ATN" \in atn <=> iec.atn = TRUE)
    <3>1. iec.atn \in BOOLEAN /\ iec.atnWas \in BOOLEAN
      BY <1>1 DEF Bus
    <3>2. "ATN" \in lines <=> iec.atnWas = TRUE
      BY <1>1, <1>3 DEF BusInv, DC
    <3> QED BY <3>1, <3>2
  <2>4. /\ pins' \in SUBSET Lines /\ pins' \cap DC = P /\ ("ATN" \in pins' <=> iec'.atnWas = TRUE)
    <3>1. lines \in SUBSET Lines /\ lines \cap DC = P
      BY <1>1, <1>3 DEF Lines, DC
    <3> HIDE DEF lines, atn, srq
    <3> QED BY <2>1, <2>2, <2>3, <3>1 DEF Lines, DC
  <2>5. ret \in Left => pins' = {}
    <3>1. SUFFICES ASSUME ret \in Left PROVE pins' = {}
      OBVIOUS
    <3>2. P = {} /\ iec.atn = FALSE /\ iec.srq = FALSE
      BY <1>1, <2>1, <3>1 DEF BusInv, Refreshing, P
    <3>3. srq = {} /\ atn = {}
      <4>1. Periodic
        BY <3>1 DEF Periodic, Left
      <4>2. "ATN" \notin atn
        BY <2>3, <3>2
      <4> HIDE DEF atn
      <4> QED BY <2>3, <3>2, <4>1, <4>2
    <3> HIDE DEF atn, srq
    <3> QED BY <1>1, <2>1, <3>2, <3>3 DEF Lines, DC
  <2>6. TypeOK'
    BY <1>1, <1>2, <2>1, <2>2, <2>4 DEF TypeOK, Settled
  <2>7. Calm'
    BY <1>1, <1>2, <2>1, <2>2 DEF Calm
  <2>8. BusInv'
    <3>1. Pulled(iec)' = P
      BY <2>2 DEF Pulled, P
    <3>2. pc' = ret /\ ret' = ret
      BY <1>2, <2>1
    <3>3. ret \in Left => P = {} /\ iec.atn = FALSE /\ iec.srq = FALSE
      BY <1>1, <2>1 DEF BusInv, Refreshing, P
    <3> QED BY <2>2, <2>4, <2>5, <3>1, <3>2, <3>3 DEF BusInv, Refreshing, Left
  <2>9. AtnInv'
    BY <1>1, <1>2, <2>1, <2>2 DEF AtnInv, Refreshing, Listening, Running
  <2> QED BY <2>6, <2>7, <2>8, <2>9 DEF Common
<1> QED BY <1>4, <1>5

\* The way through a reset and to the browser and back.
LEMMA ResetsKeepCommon == ASSUME Common, Restart \/ BusReset \/ Resume \/ Browse \/ Mount PROVE Common'
<1>1. /\ TypeOK /\ Calm /\ BusInv /\ AtnInv /\ iec \in Bus /\ pins \in SUBSET Lines
  BY DEF Common, TypeOK
<1>2. CASE Restart
  <2>1. Settled' /\ pc = "restart" /\ pc' \in {"scan", "busreset"} /\ outward' = FALSE
        /\ UNCHANGED <<program, iec, pins, host, ret, half, resets, left, peer>>
    BY <1>1, <1>2, RestartKeeps DEF Restart
  <2>2. TypeOK' /\ Calm'
    BY <1>1, <2>1 DEF TypeOK, Calm, Places, Running, Refreshing
  <2>3. BusInv' /\ AtnInv'
    BY <1>1, <2>1 DEF BusInv, AtnInv, Running, Refreshing, Listening, Left
  <2> QED BY <2>2, <2>3 DEF Common
<1>3. CASE BusReset
  <2> PICK b : b = iec
    OBVIOUS
  <2> DEFINE c == [NoBus EXCEPT !.atnWas = b.atnWas, !.asserted = b.asserted, !.released = b.released]
  <2>1. /\ pc \in {"busreset", "leave"} /\ pc' = "first"
        /\ (pc = "busreset" /\ ret' = "resume") \/ (pc = "leave" /\ ret' = "letsrq")
        /\ iec' = c /\ UNCHANGED <<program, v, pins, host, half, outward, resets, left, peer>>
    BY <1>3 DEF BusReset, Cleared, Refresh
  <2>2. /\ c \in Bus /\ c.asserted = b.asserted /\ c.released = b.released /\ c.atnWas = b.atnWas
        /\ c.data = FALSE /\ c.gate = FALSE /\ c.clock = FALSE /\ c.atn = FALSE /\ c.srq = FALSE
        /\ c.sensed = {} /\ c.resetting = FALSE
    <3>1. b \in Bus
      BY <1>1
    <3> QED BY <3>1 DEF NoBus, Bus
  <2> HIDE DEF c
  <2>3. TypeOK' /\ Calm'
    BY <1>1, <2>1, <2>2 DEF TypeOK, Settled, Calm, Places, Running, Refreshing
  <2>4. Pulled(iec)' = {}
    BY <2>1, <2>2 DEF Pulled
  <2>5. BusInv'
    BY <1>1, <2>1, <2>2, <2>4, PinsKept DEF Left
  <2>6. AtnInv'
    BY <1>1, <2>1, <2>2 DEF AtnInv, Listening, Running, Refreshing
  <2> QED BY <2>3, <2>5, <2>6 DEF Common
<1>4. CASE Resume \/ Browse
  <2> PICK b : b = iec
    OBVIOUS
  <2> DEFINE c == [b EXCEPT !.srq = FALSE]
  <2>1. b \in Bus /\ BusInv
    BY <1>1
  <2>2. /\ c \in Bus /\ c.asserted = b.asserted /\ c.released = b.released /\ c.atnWas = b.atnWas
        /\ c.data = b.data /\ c.gate = b.gate /\ c.clock = b.clock /\ c.atn = b.atn /\ c.srq = FALSE
        /\ c.sensed = b.sensed /\ c.resetting = b.resetting
    BY <2>1 DEF Bus
  <2>3. Pulled(c) = Pulled(b)
    BY <2>2 DEF Pulled
  <2> HIDE DEF c
  <2>4. /\ UNCHANGED <<program, pins, host, half, outward, resets, left, peer>>
        /\ pc \in {"resume", "letsrq"} /\ pins = {} /\ Pulled(b) = {} /\ b.atn = FALSE /\ b.srq = FALSE
    BY <1>1, <1>4 DEF Resume, Browse, BusInv, Left
  <2>5. \/ /\ pc = "resume"
           /\ iec' \in {b, c}
           /\ (pc' = "first" /\ ret' = "read") \/ (pc' = "read" /\ ret' = ret)
        \/ pc = "letsrq" /\ iec' = c /\ pc' = "first" /\ ret' = "browse" /\ v' = v
    BY <1>4 DEF Resume, Browse, LetSRQBePulledHigh, Refresh, c
  <2>6. Settled' /\ (pc = "resume" => v'.ca1 = TRUE)
    BY <1>1, <1>4, <2>5, ResumeKeeps DEF TypeOK, Settled, Browse
  <2>7. /\ iec' \in Bus /\ iec'.asserted = iec.asserted /\ iec'.released = iec.released
        /\ iec'.atnWas = iec.atnWas /\ iec'.atn = FALSE /\ iec'.srq = FALSE
        /\ iec'.sensed = iec.sensed /\ iec'.resetting = iec.resetting /\ Pulled(iec)' = {}
    BY <2>1, <2>2, <2>3, <2>4, <2>5
  <2>8. TypeOK' /\ Calm'
    BY <1>1, <2>4, <2>5, <2>6, <2>7 DEF TypeOK, Calm, Places, Running, Refreshing
  <2>9. BusInv'
    BY <1>1, <2>4, <2>5, <2>7, PinsKept DEF Left
  <2>10. AtnInv'
    BY <1>1, <2>4, <2>5, <2>6, <2>7 DEF AtnInv, Running, Refreshing, Listening
  <2> QED BY <2>8, <2>9, <2>10 DEF Common
<1>5. CASE Mount
  <2> DEFINE s == Wire \cap Lines
  <2>1. /\ pc = "browse" /\ pc' = "resetflush" /\ iec' = [iec EXCEPT !.sensed = s]
        /\ UNCHANGED <<program, v, pins, host, ret, half, outward, resets, left, peer>>
    BY <1>5 DEF Mount
  <2>2. s \in SUBSET Lines
    OBVIOUS
  <2> HIDE DEF s
  <2>3. /\ iec' \in Bus /\ iec'.asserted = iec.asserted /\ iec'.released = iec.released
        /\ iec'.atnWas = iec.atnWas /\ iec'.resetting = iec.resetting
    BY <1>1, <2>1, <2>2 DEF Bus
  <2>4. TypeOK' /\ Calm'
    BY <1>1, <2>1, <2>3 DEF TypeOK, Settled, Calm, Places, Running, Refreshing
  <2>5. BusInv' /\ AtnInv'
    BY <1>1, <2>1, <2>3 DEF BusInv, AtnInv, Running, Refreshing, Listening, Left
  <2> QED BY <2>4, <2>5 DEF Common
<1> QED BY <1>2, <1>3, <1>4, <1>5

LEMMA CommonStep == ASSUME Common, [Next]_vars PROVE Common'
BY SensingKeepsCommon, ChipKeepsCommon, LoopKeepsCommon, WritesKeepCommon, ResetsKeepCommon
   DEF Next, Drive, Cpu, Access

LEMMA CommonAlways == Spec => []Common
BY CommonAtFirst, CommonStep, PTL DEF Spec

\* What no other type says.
StartingOK == starting \in BOOLEAN

LEMMA StartingStep == ASSUME StartingOK, [Next]_vars PROVE StartingOK'
<1> USE DEF StartingOK
<1>1. ASSUME Cpu PROVE starting' = starting
  BY <1>1 DEF Cpu, CpuIdle, WriteORB, WriteDDRB, ReadORB, ReadORA, AccessControl, AccessIER, AccessIFR,
     AccessT1, AccessT2, ReadSR, SendSR, CardAccess, CpuWrite
<1>2. ASSUME CardDone \/ Host PROVE starting' = starting
  BY <1>2 DEF CardDone, Host, HostMoves, HostBegins, HostShifts
<1>3. ASSUME Drive, ~Cpu PROVE starting' \in BOOLEAN
  BY <1>3 DEF Drive, Read, Run, Serial, FirstWrite, SecondWrite, CardBusy, Poll, Panel, WaitUntilReset,
     Restart, BusReset, Resume, Browse, Mount
<1>4. ASSUME UNCHANGED vars PROVE starting' = starting
  BY <1>4 DEF vars
<1> QED BY <1>1, <1>2, <1>3, <1>4 DEF Next

\* The machine keeps its types, the chip among them: its fields, its flags and
\* its interrupt line, and no port callback is left due between two steps.
THEOREM TypeCorrect == Spec => []TypeOK /\ []StartingOK
<1>1. Common => TypeOK
  BY DEF Common
<1>2. Init => StartingOK
  BY DEF Init, StartingOK
<1> QED BY <1>1, <1>2, CommonAlways, StartingStep, PTL DEF Spec

\* Two sets of at most two lines: a computer that looks between the two writes
\* sees neither pulled only where one line gives way to the other.
LEMMA BetweenTheWrites ==
  ASSUME NEW b \in Bus, b.released = DC \ b.asserted
  PROVE  LET p == Pulled(b)
             seen == IF ReleaseFirst(b) THEN b.asserted \cap p ELSE b.asserted \cup p
         IN \/ seen \in {b.asserted, p}
            \/ seen = {} /\ Cardinality(b.asserted) = 1 /\ Cardinality(p) = 1
<1> DEFINE p == Pulled(b)
<1>1. p \in SUBSET DC /\ b.asserted \in SUBSET DC
  BY DEF Pulled, DC, Bus
<1>2. Cardinality({"DATA"}) = 1 /\ Cardinality({"CLOCK"}) = 1
  BY FS_Singleton
<1>3. ReleaseFirst(b) <=> p \ b.asserted # {} /\ (DC \ p) \ (DC \ b.asserted) # {}
  BY DEF ReleaseFirst, DC
<1> HIDE DEF p
<1>4. CASE ReleaseFirst(b)
  <2>1. \/ b.asserted = {"DATA"} /\ p = {"CLOCK"}
        \/ b.asserted = {"CLOCK"} /\ p = {"DATA"}
    BY <1>1, <1>3, <1>4 DEF DC
  <2> QED BY <1>2, <1>4, <2>1 DEF p
<1>5. CASE ~ReleaseFirst(b)
  <2>1. p \subseteq b.asserted \/ b.asserted \subseteq p
    BY <1>1, <1>3, <1>5
  <2> QED BY <1>5, <2>1 DEF p
<1> QED BY <1>4, <1>5

\* Whatever the moment the computer looks at DATA and CLOCK, it sees what the
\* drive means or meant (RefreshIECOutsNow), and a drive that is being reset or
\* left for the browser pulls nothing.
THEOREM SymbolsHold == Spec => []SymbolsAreMeant
<1>1. Common => SymbolsAreMeant
  <2>1. SUFFICES ASSUME Common PROVE SymbolsAreMeant
    OBVIOUS
  <2>2. iec \in Bus /\ BusInv
    BY <2>1 DEF Common, TypeOK
  <2> PICK b : b = iec
    OBVIOUS
  <2>3. b \in Bus /\ b.released = DC \ b.asserted
    BY <2>2 DEF BusInv
  <2>4. NoFalseSymbol
    <3>1. CASE pc = "second"
      <4>1. pins \cap DC = IF ReleaseFirst(b) THEN b.asserted \cap Pulled(b) ELSE b.asserted \cup Pulled(b)
        BY <2>2, <3>1 DEF BusInv
      <4> QED BY <2>3, <3>1, <4>1, BetweenTheWrites DEF NoFalseSymbol, DC
    <3>2. CASE pc # "second"
      BY <2>2, <3>2 DEF BusInv, NoFalseSymbol, DC
    <3> QED BY <3>1, <3>2
  <2>5. LeavesTheBus
    BY <2>2 DEF BusInv, LeavesTheBus, Left
  <2> QED BY <2>4, <2>5 DEF SymbolsAreMeant
<1> QED BY <1>1, CommonAlways, PTL

----------------------------------------------------------------------------
(* ATN *)

\* A sample tells the chip of ATN exactly when it falls.
LEMMA SensingTells ==
  ASSUME Common, Read \/ CardBusy
  PROVE  LET told == "CA1" \notin v.ifr /\ "CA1" \in v'.ifr
             falls == "ATN" \notin iec.sensed /\ "ATN" \in iec'.sensed
         IN /\ told => falls
            /\ falls /\ pc \in {"read", "card"} => "CA1" \in v'.ifr
<1> DEFINE r == ReadEmulationModeCMDHD(iec)
<1>1. iec' = r.bus /\ v' = r.via
  BY DEF Read, CardBusy, Hook
<1>2. TypeOK /\ AtnInv
  BY DEF Common
<1>3. "CA1" \in r.via.ifr
        <=> "CA1" \in v.ifr \/ ("ATN" \in r.bus.sensed /\ "ATN" \notin iec.sensed /\ v.ca1)
  BY <1>2, ReadKeeps
<1>4. pc \in {"read", "card"} => v.ca1 = ("ATN" \notin iec.sensed)
  BY <1>2 DEF AtnInv, Listening, Running
<1> HIDE DEF r
<1> QED BY <1>1, <1>3, <1>4

\* The chip's flag of ATN comes with the fall of ATN, while the processor runs
\* and while a card access keeps it waiting, at once and once
\* (ReadEmulationModeCMDHD), and with nothing else: not with the chip's own
\* cycle, with a register access, with the fast serial lines or with a reset.
THEOREM AtnIsTold == Spec => AtnIsToldOnce
<1> DEFINE told == "CA1" \notin v.ifr /\ "CA1" \in v'.ifr
           falls == "ATN" \notin iec.sensed /\ "ATN" \in iec'.sensed
           A == /\ told => falls
                /\ falls /\ pc \in {"read", "card"} => "CA1" \in v'.ifr
<1>1. ASSUME Common, Next PROVE A
  <2>1. CASE Read \/ CardBusy
    BY <1>1, <2>1, SensingTells
  <2>2. CASE Access \/ ReadORB \/ Run \/ Serial
    <3>1. TypeOK
      BY <1>1 DEF Common
    <3>2. CASE Access
      BY <3>1, <3>2, WriteKeepsTypes DEF SameLines
    <3>3. CASE ReadORB
      BY <3>1, <3>3, ReadORBKeeps DEF ReadORB
    <3>4. CASE Run
      BY <3>1, <3>4, RunKeeps DEF Run, SameLines, Cycle, Flags
    <3>5. CASE Serial
      BY <3>1, <3>5, SerialKeeps DEF Serial, SameLines, Flags
    <3> QED BY <2>2, <3>2, <3>3, <3>4, <3>5
  <2>3. CASE CpuIdle \/ CardAccess \/ CardDone \/ Poll \/ Panel \/ WaitUntilReset \/ Host
    BY <2>3 DEF CpuIdle, CardAccess, CardDone, Poll, Panel, WaitUntilReset, Host, HostMoves,
                HostBegins, HostShifts
  <2>4. CASE FirstWrite \/ SecondWrite
    <3>1. v' = v
      BY <2>4 DEF FirstWrite, SecondWrite
    <3>2. pc \notin {"read", "card"}
      BY <2>4 DEF FirstWrite, SecondWrite
    <3> QED BY <3>1, <3>2
  <2>5. CASE Restart \/ BusReset \/ Resume \/ Browse \/ Mount
    <3>1. TypeOK
      BY <1>1 DEF Common
    <3>2. pc \notin {"read", "card"}
      BY <2>5 DEF Restart, BusReset, Resume, Browse, Mount
    <3>3. "CA1" \in v'.ifr => "CA1" \in v.ifr
      <4>1. CASE Restart
        BY <3>1, <4>1, RestartKeeps
      <4>2. CASE Resume
        BY <3>1, <4>2, ResumeKeeps
      <4>3. CASE BusReset \/ Browse \/ Mount
        BY <4>3 DEF BusReset, Browse, Mount
      <4> QED BY <2>5, <4>1, <4>2, <4>3
    <3> QED BY <3>2, <3>3
  <2> QED BY <1>1, <2>1, <2>2, <2>3, <2>4, <2>5 DEF Next, Drive, Cpu, Access
<1>2. ASSUME Common, [Next]_vars PROVE [A]_vars
  BY <1>1, <1>2
<1>3. Spec => [][A]_vars
  BY <1>2, CommonAlways, PTL DEF Spec
<1> QED BY <1>3 DEF AtnIsToldOnce

----------------------------------------------------------------------------
(* The timers *)

\* When timer 1's next time out is, in the states between two cycles.
T1Inv ==
  program = "t1" =>
    /\ ~v.t1.ticking => left = 0
    /\ v.t1.ticking => left = IF v.t1.timedOut THEN IF v.t1.reload THEN 2 ELSE 0
                              ELSE v.t1.count + (IF v.t1.reload THEN 2 ELSE 1)
    /\ v.t1.timedOut /\ v.t1.reload => v.t1.latch = 0 /\ v.t1.count = 0
    /\ v.t1.reload => pc = "execute" \/ (pc \in Refreshing /\ ret = "execute")

\* When timer 2's is, where nothing but the clock makes it count.
Due2(w) == (IF w.t2.count = 0 THEN Base * Base ELSE w.t2.count) + (IF w.t2.reload THEN 1 ELSE 0)
T2Inv ==
  program = "t2" /\ left # Unforeseen =>
    /\ Plain(v)
    /\ v.t2.counting /\ ~v.t2.fired => ~v.t2.timedOut /\ left = Due2(v)
    /\ ~v.t2.counting \/ v.t2.fired => left = 0

Timed == T1Inv /\ T2Inv

\* What the two actions say of a step.
T1Told == LET due == v.t1.ticking /\ left' = 0 /\ IF v.acr.free THEN v.t1.irqs ELSE ~v.t1.fired
          IN "T1" \in v'.ifr <=> "T1" \in v.ifr \/ due
T2Told == "T2" \in v'.ifr <=> "T2" \in v.ifr \/ (left > 0 /\ left' = 0)

\* The machine of a program that has no business with ATN or the lines does
\* nothing but run.
LEMMA OtherSteps ==
  ASSUME Common, Next, program \in {"t1", "t2"}, ~Run, ~Access
  PROVE  /\ v'.t1 = v.t1 /\ v'.t2 = v.t2 /\ v'.acr = v.acr /\ left' = left /\ program' = program
         /\ pc # "execute"
         /\ (pc \in Refreshing /\ ret' = ret /\ pc' \in {"second", ret}) \/ pc \in {"read", "cpu", "serial", "poll"}
<1>1. TypeOK /\ Calm
  BY DEF Common
<1>2. Read \/ CpuIdle \/ Serial \/ FirstWrite \/ SecondWrite \/ Poll
  <2>1. ~Host
    BY DEF Host, HostMoves, HostBegins, HostShifts, Movable
  <2>2. ~(CardBusy \/ CardDone \/ Panel \/ WaitUntilReset \/ Restart \/ BusReset \/ Resume \/ Browse
          \/ Mount \/ CardAccess \/ ReadORB)
    BY <1>1 DEF Calm, Running, Refreshing, CardBusy, CardDone, Waiting, Panel, WaitUntilReset, Restart,
                BusReset, Resume, Browse, Mount, CardAccess, ReadORB
  <2> QED BY <2>1, <2>2 DEF Next, Drive, Cpu, Access
<1>3. CASE Read
  BY <1>1, <1>3, ReadKeeps DEF Read
<1>4. CASE Serial
  BY <1>1, <1>4, SerialKeeps DEF Serial
<1>5. CASE CpuIdle \/ FirstWrite \/ SecondWrite \/ Poll
  BY <1>5 DEF CpuIdle, FirstWrite, SecondWrite, Poll, Refreshing
<1> QED BY <1>2, <1>3, <1>4, <1>5

\* A cycle of timer 1.
LEMMA RunKeepsT1 ==
  ASSUME Common, T1Inv, program = "t1", Run PROVE T1Inv' /\ T1Told
<1>1. TypeOK /\ Good(v)
  BY DEF Common, TypeOK, Settled
<1>2. PICK c \in Nat, l \in Nat, ticking \in BOOLEAN, reload \in BOOLEAN, out \in BOOLEAN :
        /\ c = v.t1.count /\ l = v.t1.latch /\ ticking = v.t1.ticking /\ reload = v.t1.reload
        /\ out = v.t1.timedOut
  BY <1>1, Bounds DEF Good, Via, Timer1, Counts
<1>3. PICK n \in Nat : n = left
  BY <1>1 DEF TypeOK
<1>4. /\ ~ticking => n = 0
      /\ ticking => n = IF out THEN IF reload THEN 2 ELSE 0 ELSE c + (IF reload THEN 2 ELSE 1)
      /\ out /\ reload => l = 0 /\ c = 0
  BY <1>2, <1>3 DEF T1Inv
<1>5. T1Ticks(v, v')
  BY <1>1, RunKeeps DEF Cycle
<1>6. PICK again \in BOOLEAN : again = (~out /\ ticking /\ ~reload /\ c = 0)
  OBVIOUS
<1>7. /\ v'.t1.ticking = ticking /\ ~v'.t1.reload /\ v'.t1.timedOut = again
      /\ v'.t1.count = IF out THEN l ELSE IF ticking /\ ~reload THEN Down(c) ELSE c
  BY <1>2, <1>5, <1>6 DEF T1Ticks, TimesOut1
<1>8. left' = IF ~ticking THEN 0 ELSE IF n = 0 THEN l + 1 ELSE n - 1
  BY <1>2, <1>3 DEF Run, DueT1
<1>9. program' = program
  BY DEF Run
<1>10. ASSUME ticking
       PROVE  /\ left' = IF again THEN 0 ELSE v'.t1.count + 1
              /\ left' = 0 <=> again
  <2>1. /\ n = IF out THEN IF reload THEN 2 ELSE 0 ELSE c + (IF reload THEN 2 ELSE 1)
        /\ left' = IF n = 0 THEN l + 1 ELSE n - 1
    BY <1>4, <1>8, <1>10
  <2>2. CASE out
    <3>1. ~again /\ v'.t1.count = l
      BY <1>6, <1>7, <2>2
    <3>2. left' = l + 1
      BY <1>4, <2>1, <2>2
    <3> QED BY <3>1, <3>2
  <2>3. CASE ~out /\ reload
    <3>1. ~again /\ v'.t1.count = c
      BY <1>6, <1>7, <2>3
    <3>2. left' = c + 1
      BY <2>1, <2>3
    <3> QED BY <3>1, <3>2
  <2>4. CASE ~out /\ ~reload
    <3>1. again <=> c = 0
      BY <1>6, <1>10, <2>4
    <3>2. v'.t1.count = Down(c)
      BY <1>7, <1>10, <2>4
    <3>3. left' = c
      BY <2>1, <2>4
    <3> QED BY <3>1, <3>2, <3>3 DEF Down
  <2> QED BY <2>2, <2>3, <2>4
<1>12. T1Inv'
  BY <1>7, <1>8, <1>9, <1>10 DEF T1Inv
<1>13. T1Told
  BY <1>2, <1>5, <1>6, <1>10 DEF T1Ticks, Raises1, TimesOut1, T1Told
<1> QED BY <1>12, <1>13

\* A cycle of timer 2.
LEMMA RunKeepsT2 ==
  ASSUME Common, T2Inv, program = "t2", left # Unforeseen, Run PROVE T2Inv' /\ T2Told
<1>1. TypeOK /\ Good(v)
  BY DEF Common, TypeOK, Settled
<1>2. PICK c \in Nat, counting \in BOOLEAN, reload \in BOOLEAN, out \in BOOLEAN, fired \in BOOLEAN :
        /\ c = v.t2.count /\ counting = v.t2.counting /\ reload = v.t2.reload
        /\ out = v.t2.timedOut /\ fired = v.t2.fired
  BY <1>1, Bounds DEF Good, Via, Timer2, Counts
<1>3. PICK n \in Nat : n = left
  BY <1>1 DEF TypeOK
<1>4. /\ Plain(v)
      /\ counting /\ ~fired => ~out /\ n = (IF c = 0 THEN Base * Base ELSE c) + (IF reload THEN 1 ELSE 0)
      /\ ~counting \/ fired => n = 0
  BY <1>2, <1>3 DEF T2Inv, Due2
<1>5. T2Ticks(v, v') /\ v'.acr = v.acr
  BY <1>1, RunKeeps DEF Cycle
<1>6. PICK again \in BOOLEAN : again = (counting /\ ~reload /\ Down(c) = 0)
  OBVIOUS
<1>7. left' = IF n = 0 THEN 0 ELSE n - 1
  BY <1>3 DEF Run, DueT2
<1>8. Plain(v')
  BY <1>4, <1>5 DEF Plain, T2Ticks, ShiftByT2
<1>9. v'.t2.counting = counting /\ program' = program
  BY <1>2, <1>5 DEF T2Ticks, Run
<1>10. CASE counting /\ ~fired
  <2>1. /\ "T2" \in v'.ifr <=> "T2" \in v.ifr \/ again
        /\ v'.t2.fired = again /\ (~again => ~v'.t2.timedOut) /\ ~v'.t2.reload
        /\ v'.t2.count = IF reload THEN c ELSE Down(c)
    BY <1>2, <1>4, <1>5, <1>6, <1>10 DEF T2Ticks, TimesOut2
  <2>2. PICK q \in Nat : q = Base * Base /\ q >= 16
    BY Bounds
  <2>3. again => n = 1 /\ left' = 0
    BY <1>4, <1>6, <1>7, <1>10, <2>2 DEF Down
  <2>4. ASSUME ~again PROVE left' > 0 /\ left' = IF v'.t2.count = 0 THEN q ELSE v'.t2.count
    <3>1. n = (IF c = 0 THEN q ELSE c) + (IF reload THEN 1 ELSE 0)
      BY <1>4, <1>10, <2>2
    <3>2. CASE reload
      <4>1. v'.t2.count = c /\ n = (IF c = 0 THEN q ELSE c) + 1
        BY <2>1, <3>1, <3>2
      <4> QED BY <1>7, <2>2, <4>1
    <3>3. CASE ~reload
      <4>1. v'.t2.count = Down(c) /\ Down(c) # 0
        BY <1>6, <1>10, <2>1, <2>4, <3>3
      <4>2. Down(c) = (IF c = 0 THEN q - 1 ELSE c - 1) /\ q >= 16
        BY <2>2 DEF Down
      <4>3. n = IF c = 0 THEN q ELSE c
        BY <3>1, <3>3
      <4> QED BY <1>7, <4>1, <4>2, <4>3
    <3> QED BY <3>2, <3>3
  <2>5. T2Told
    BY <1>3, <2>1, <2>3, <2>4 DEF T2Told
  <2>6. ~again => left' = Due2(v')
    <3>1. left' \in Nat
      BY <1>7
    <3>2. ~again => left' = (IF v'.t2.count = 0 THEN Base * Base ELSE v'.t2.count)
      BY <2>2, <2>4
    <3>3. ~again => (IF v'.t2.count = 0 THEN Base * Base ELSE v'.t2.count) + 0
                      = (IF v'.t2.count = 0 THEN Base * Base ELSE v'.t2.count)
      BY <3>1, <3>2
    <3> QED BY <2>1, <3>2, <3>3 DEF Due2
  <2>7. T2Inv'
    BY <1>8, <1>9, <1>10, <2>1, <2>3, <2>6 DEF T2Inv, Due2, Plain, ShiftByT2
  <2> QED BY <2>5, <2>7
<1>11. CASE ~counting \/ fired
  <2>1. ("T2" \in v'.ifr <=> "T2" \in v.ifr) /\ v'.t2.fired = fired
    BY <1>2, <1>4, <1>5, <1>11 DEF T2Ticks
  <2>2. n = 0 /\ left' = 0
    BY <1>4, <1>7, <1>11
  <2>3. T2Told
    BY <1>3, <2>1, <2>2 DEF T2Told
  <2>4. T2Inv'
    BY <1>8, <1>9, <1>11, <2>1, <2>2 DEF T2Inv, Due2, Plain, ShiftByT2
  <2> QED BY <2>3, <2>4
<1> QED BY <1>10, <1>11

\* A write of the processor: the chip it makes, and its cycle next.
LEMMA WriteTells ==
  ASSUME TypeOK, NEW w, Good(w), CpuWrite(w)
  PROVE  Alike(w, v') /\ (pc' = "execute" \/ (pc' = "first" /\ ret' = "execute")) /\ program' = program
<1> PICK b : b = iec
  OBVIOUS
<1>1. b \in Bus /\ outward \in BOOLEAN /\ Callback(w, b, "execute") /\ program' = program
  BY DEF TypeOK, CpuWrite
<1>2. Called(w, b, "execute")
  BY <1>1, CallbackKeeps
<1> QED BY <1>1, <1>2 DEF Called

\* An access of the firmware sets the time out by what it writes.
LEMMA AccessKeepsT1 == ASSUME Common, T1Inv, program = "t1", Access PROVE T1Inv'
<1> PICK k : k = v
  OBVIOUS
<1>1. TypeOK /\ Good(k)
  BY DEF Common, TypeOK, Settled
<1>2. AccessIER \/ AccessIFR \/ AccessT1
  BY DEF Access, WriteORB, WriteDDRB, ReadORA, AccessControl, AccessT2, ReadSR, SendSR
<1>3. pc = "cpu" /\ program' = program /\ (pc' = "execute" \/ (pc' = "first" /\ ret' = "execute"))
  BY <1>1, WriteKeepsTypes DEF Access
<1>4. ~k.t1.reload
  BY <1>3 DEF T1Inv, Refreshing
<1>5. ASSUME NEW w, Good(w), CpuWrite(w), left' = left,
             w.t1.count = k.t1.count, w.t1.timedOut = k.t1.timedOut, w.t1.ticking = k.t1.ticking,
             w.t1.reload = k.t1.reload
      PROVE  T1Inv'
  <2>1. Alike(w, v')
    BY <1>1, <1>5, WriteTells
  <2>2. /\ v'.t1.count = k.t1.count /\ v'.t1.timedOut = k.t1.timedOut
        /\ v'.t1.ticking = k.t1.ticking /\ v'.t1.reload = k.t1.reload
    BY <1>5, <2>1 DEF Alike
  <2> QED BY <1>3, <1>4, <1>5, <2>2 DEF T1Inv, Refreshing
<1>6. CASE AccessIER
  <2>1. PICK set \in BOOLEAN : CpuWrite(WriteIER(k, {"T1"}, set)) /\ left' = left
    BY <1>6 DEF AccessIER
  <2>2. {"T1"} \in SUBSET Flags
    BY DEF Flags
  <2>3. Good(WriteIER(k, {"T1"}, set)) /\ Leaves(k, WriteIER(k, {"T1"}, set))
    BY <1>1, <2>2, WriteIERIsGood, WriteIERLeaves
  <2> QED BY <1>5, <2>1, <2>3 DEF Leaves
<1>7. CASE AccessIFR
  <2>1. CpuWrite(WriteIFR(k, {"T1"}, FALSE)) /\ left' = left /\ {"T1"} \in SUBSET Flags
    BY <1>7 DEF AccessIFR, Flags
  <2>2. Good(WriteIFR(k, {"T1"}, FALSE)) /\ Leaves(k, WriteIFR(k, {"T1"}, FALSE))
    BY <1>1, <2>1, WriteIFRIsGood, WriteIFRLeaves
  <2> QED BY <1>5, <2>1, <2>2 DEF Leaves
<1>8. \A l \in {0, 1, Base - 1} : l \in 0 .. Base - 1
  BY Bounds
<1>9. CASE \E h \in {0, 1} : CpuWrite(WriteT1CH(k, h)) /\ left' = Word(h, Low(k.t1.latch)) + 2
  <2>1. PICK h \in {0, 1} : CpuWrite(WriteT1CH(k, h)) /\ left' = Word(h, Low(k.t1.latch)) + 2
    BY <1>9
  <2>2. PICK w : w = WriteT1CH(k, h)
    OBVIOUS
  <2>3. PICK n : n = Word(h, Low(k.t1.latch))
    OBVIOUS
  <2>4. h \in 0 .. Base - 1
    BY <1>8
  <2>5. /\ Good(w) /\ n \in Counts /\ w.t1.count = n /\ w.t1.latch = n
        /\ w.t1.ticking /\ w.t1.reload /\ w.t1.timedOut = (n = 0)
    BY <1>1, <2>2, <2>3, <2>4, WriteT1CHIsStep DEF T1Step
  <2>6. Alike(w, v')
    BY <1>1, <2>1, <2>2, <2>5, WriteTells
  <2>7. /\ v'.t1.count = n /\ v'.t1.latch = n /\ v'.t1.ticking /\ v'.t1.reload
        /\ v'.t1.timedOut = (n = 0)
    BY <2>5, <2>6 DEF Alike
  <2>8. n \in Nat
    BY <2>5, Bounds DEF Counts
  <2>9. left' = n + 2
    BY <2>1, <2>3
  <2>10. PICK none \in BOOLEAN : none = (n = 0) /\ v'.t1.timedOut = none
    BY <2>7
  <2>11. CASE none
    <3>1. /\ v'.t1.count = 0 /\ v'.t1.latch = 0 /\ v'.t1.ticking /\ v'.t1.reload /\ v'.t1.timedOut
          /\ left' = 2
      <4>1. n = 0 /\ v'.t1.timedOut
        BY <2>10, <2>11
      <4> QED BY <2>7, <2>9, <4>1
    <3> QED BY <1>3, <3>1 DEF T1Inv, Refreshing
  <2>12. CASE ~none
    <3>1. v'.t1.count = n /\ v'.t1.ticking /\ v'.t1.reload /\ ~v'.t1.timedOut
      BY <2>7, <2>10, <2>12
    <3> QED BY <1>3, <2>9, <3>1 DEF T1Inv, Refreshing
  <2> QED BY <2>11, <2>12
<1>10. CASE AccessT1 /\ ~\E h \in {0, 1} : CpuWrite(WriteT1CH(k, h)) /\ left' = Word(h, Low(k.t1.latch)) + 2
  <2>1. left' = left
    BY <1>10 DEF AccessT1
  <2>2. CASE \E l \in {0, 1, Base - 1} : CpuWrite(WriteT1LL(k, l)) \/ CpuWrite(WriteT1LH(k, l))
    <3>1. PICK l \in 0 .. Base - 1 : CpuWrite(WriteT1LL(k, l)) \/ CpuWrite(WriteT1LH(k, l))
      BY <1>8, <2>2
    <3>2. T1Counts(k, WriteT1LL(k, l)) /\ T1Counts(k, WriteT1LH(k, l))
      BY <1>1, AccessesCount
    <3> QED BY <1>5, <2>1, <3>1, <3>2 DEF T1Counts, T1Step
  <2>3. CASE CpuWrite(ReadT1CL(k))
    <3>1. 0 \in 0 .. Base - 1
      BY <1>8
    <3>2. T1Counts(k, ReadT1CL(k))
      BY <1>1, <3>1, AccessesCount
    <3> QED BY <1>5, <2>1, <2>3, <3>2 DEF T1Counts, T1Step
  <2>4. CASE \E free, pb7 \in BOOLEAN :
               CpuWrite(WriteACR(k, [NoAuxiliary EXCEPT !.free = free, !.pb7 = pb7]))
    <3>1. PICK r \in Auxiliary : CpuWrite(WriteACR(k, r))
      BY <2>4, SetUpsAreAuxiliary
    <3>2. Good(WriteACR(k, r)) /\ WriteACR(k, r).t1 = k.t1
      BY <1>1, WriteACRIsGood
    <3> QED BY <1>5, <2>1, <3>1, <3>2
  <2> QED BY <1>10, <2>2, <2>3, <2>4 DEF AccessT1
<1> QED BY <1>2, <1>6, <1>7, <1>9, <1>10

LEMMA AccessKeepsT2 == ASSUME Common, T2Inv, program = "t2", Access PROVE T2Inv'
<1> PICK k : k = v
  OBVIOUS
<1>1. TypeOK /\ Good(k)
  BY DEF Common, TypeOK, Settled
<1>2. AccessT2
  BY DEF Access, WriteORB, WriteDDRB, ReadORA, AccessControl, AccessIER, AccessIFR, AccessT1, ReadSR, SendSR
<1>3. \A l \in {0, 1, Base - 1} : l \in 0 .. Base - 1
  BY Bounds
<1> DEFINE due == IF k.acr.pb6 \/ k.t2.pb6Was \/ ShiftByT2(k) THEN Unforeseen
                  ELSE LET n == v'.t2.count IN (IF n = 0 THEN Base * Base ELSE n) + 1
           Stores == \E h \in {0, 1} : CpuWrite(WriteT2CH(k, h)) /\ left' = due
           Looks == (\E l \in {0, Base - 1} : CpuWrite(WriteT2LL(k, l))) \/ CpuWrite(ReadT2CL(k))
<1>4. CASE Stores
  <2>1. PICK h \in {0, 1} : CpuWrite(WriteT2CH(k, h)) /\ left' = due
    BY <1>4
  <2>2. PICK w : w = WriteT2CH(k, h)
    OBVIOUS
  <2>3. h \in 0 .. Base - 1
    BY <1>3
  <2>4. /\ T2Step(k, w) /\ Good(w) /\ w.t2.counting /\ w.t2.reload /\ ~w.t2.fired /\ ~w.t2.timedOut
        /\ w.t2.pb6Was = k.t2.pb6Was
    BY <1>1, <2>2, <2>3, WriteT2CHIsStep DEF T2Step
  <2>5. Alike(w, v') /\ program' = program
    BY <1>1, <2>1, <2>2, <2>4, WriteTells
  <2>6. /\ v'.acr = k.acr /\ v'.t2.counting /\ v'.t2.reload /\ ~v'.t2.fired /\ ~v'.t2.timedOut
        /\ v'.t2.pb6Was = k.t2.pb6Was
    BY <2>4, <2>5 DEF Alike, T2Step, Beside
  <2>7. left' # Unforeseen => Plain(k) /\ left' = (IF v'.t2.count = 0 THEN Base * Base ELSE v'.t2.count) + 1
    BY <2>1 DEF Plain
  <2>8. left' # Unforeseen => Plain(v') /\ left' = Due2(v')
    BY <2>6, <2>7 DEF Plain, ShiftByT2, Due2
  <2> QED BY <2>5, <2>6, <2>8 DEF T2Inv, Due2, Plain, ShiftByT2, Unforeseen
<1>5. CASE Looks /\ left' = left
  <2>1. PICK w : T2Counts(k, w) /\ CpuWrite(w)
    <3>1. CASE \E l \in {0, Base - 1} : CpuWrite(WriteT2LL(k, l))
      BY <1>1, <1>3, <3>1, AccessesCount2
    <3>2. CASE CpuWrite(ReadT2CL(k))
      <4>1. 0 \in 0 .. Base - 1
        BY <1>3
      <4> QED BY <1>1, <3>2, <4>1, AccessesCount2
    <3> QED BY <1>5, <3>1, <3>2
  <2>2. Good(w) /\ w.acr = k.acr
    BY <2>1 DEF T2Counts, T2Step, Beside
  <2>3. Alike(w, v') /\ program' = program
    BY <1>1, <2>1, <2>2, WriteTells
  <2>4. /\ v'.acr = k.acr /\ v'.t2.count = k.t2.count /\ v'.t2.timedOut = k.t2.timedOut
        /\ v'.t2.counting = k.t2.counting /\ v'.t2.fired = k.t2.fired /\ v'.t2.reload = k.t2.reload
        /\ v'.t2.pb6Was = k.t2.pb6Was
    BY <2>1, <2>2, <2>3 DEF Alike, T2Counts
  <2> QED BY <1>5, <2>3, <2>4 DEF T2Inv, Due2, Plain, ShiftByT2, Unforeseen
<1>6. CASE left' = Unforeseen
  BY <1>6 DEF T2Inv, Unforeseen
<1>7. Stores \/ (Looks /\ left' = left) \/ left' = Unforeseen
  BY <1>2 DEF AccessT2
<1> QED BY <1>4, <1>5, <1>6, <1>7

LEMMA ProgramStays == ASSUME Common, [Next]_vars PROVE program' = program
<1>1. ASSUME Access PROVE program' = program
  <2>1. TypeOK
    BY DEF Common
  <2> QED BY <1>1, <2>1, WriteKeepsTypes
<1>2. ASSUME Next, ~Access PROVE program' = program
  BY <1>2 DEF Next, Drive, Cpu, Access, Read, CpuIdle, ReadORB, CardAccess, Run, Serial, FirstWrite,
              SecondWrite, CardBusy, Poll, Panel, WaitUntilReset, Restart, BusReset, Resume, Browse, Mount,
              CardDone, Host, HostMoves, HostBegins, HostShifts
<1> QED BY <1>1, <1>2 DEF vars

\* Timed is inductive.
LEMMA TimedStep == ASSUME Common, Timed, [Next]_vars PROVE Timed'
<1>1. T1Inv /\ T2Inv
  BY DEF Timed
<1>2. CASE program \notin {"t1", "t2"}
  BY <1>2, ProgramStays DEF Timed, T1Inv, T2Inv
<1>3. CASE program \in {"t1", "t2"} /\ UNCHANGED vars
  BY <1>1, <1>3 DEF Timed, T1Inv, T2Inv, vars, Plain, ShiftByT2, Due2, Unforeseen
<1>4. CASE program \in {"t1", "t2"} /\ Access
  <2>1. program' = program
    BY <1>4, ProgramStays
  <2>2. program = "t1" => T1Inv'
    BY <1>1, <1>4, AccessKeepsT1
  <2>3. program = "t2" => T2Inv'
    BY <1>1, <1>4, AccessKeepsT2
  <2> QED BY <1>4, <2>1, <2>2, <2>3 DEF Timed, T1Inv, T2Inv
<1>5. CASE program \in {"t1", "t2"} /\ Run
  <2>1. program' = program /\ left' = IF program = "t1" THEN DueT1 ELSE DueT2
    BY <1>5 DEF Run
  <2>2. program = "t1" => T1Inv'
    BY <1>1, <1>5, RunKeepsT1
  <2>3. program = "t2" /\ left # Unforeseen => T2Inv'
    BY <1>1, <1>5, RunKeepsT2
  <2>4. program = "t2" /\ left = Unforeseen => left' = Unforeseen
    BY <2>1 DEF DueT2
  <2>5. program = "t2" => T2Inv'
    BY <2>3, <2>4 DEF T2Inv, Unforeseen
  <2> QED BY <1>5, <2>1, <2>2, <2>5 DEF Timed, T1Inv, T2Inv
<1>6. CASE program \in {"t1", "t2"} /\ Next /\ ~Run /\ ~Access
  <2>1. /\ v'.t1 = v.t1 /\ v'.t2 = v.t2 /\ v'.acr = v.acr /\ left' = left /\ program' = program
        /\ pc # "execute"
        /\ (pc \in Refreshing /\ ret' = ret /\ pc' \in {"second", ret}) \/ pc \in {"read", "cpu", "serial", "poll"}
    BY <1>6, OtherSteps
  <2>2. T1Inv'
    BY <1>1, <2>1 DEF T1Inv, Refreshing
  <2>3. T2Inv'
    BY <1>1, <2>1 DEF T2Inv, Plain, ShiftByT2, Due2, Unforeseen
  <2> QED BY <2>2, <2>3 DEF Timed
<1> QED BY <1>2, <1>3, <1>4, <1>5, <1>6

LEMMA TimedAtFirst == ASSUME Init PROVE Timed
<1> PICK k, p : k = v /\ p = program
  OBVIOUS
<1>1. k = Configured(p) /\ left = 0
  BY DEF Init
<1>2. /\ ~k.t1.ticking /\ ~k.t1.reload /\ ~k.t2.counting /\ ~k.t2.fired /\ ~k.t2.pb6Was /\ ~k.acr.pb6
      /\ k.acr.shift = IF p = "receive" THEN 3 ELSE IF p = "send" THEN 6 ELSE 0
  BY <1>1, ConfiguredIsGood
<1> QED BY <1>1, <1>2 DEF Timed, T1Inv, T2Inv, Plain, ShiftByT2

\* Timer 1 raises its flag N + 2 cycles after a write of N and, free running,
\* every latch + 2 cycles from then on; timer 2 raises its own N + 1 cycles
\* after a write of N and once; neither at any other time, whatever else the
\* firmware reads, latches, enables or clears (M6522::Execute).
THEOREM TimersHold == Spec => TimersAreOnTime
<1>1. Spec => []Timed
  BY TimedAtFirst, TimedStep, CommonAlways, PTL DEF Spec
<1> DEFINE A == program = "t1" /\ pc = "execute" => T1Told
           B == program = "t2" /\ pc = "execute" /\ left # Unforeseen => T2Told
<1>2. ASSUME Common, Timed, [Next]_vars PROVE [A]_vars /\ [B]_vars
  <2>1. CASE UNCHANGED vars
    BY <2>1
  <2>2. CASE Next /\ program \in {"t1", "t2"} /\ pc = "execute"
    <3>1. ~Access
      <4>1. TypeOK
        BY <1>2 DEF Common
      <4> QED BY <2>2, <4>1, WriteKeepsTypes
    <3>2. Run
      BY <1>2, <2>2, <3>1, OtherSteps
    <3>3. program = "t1" => T1Told
      BY <1>2, <3>2, RunKeepsT1 DEF Timed
    <3>4. program = "t2" /\ left # Unforeseen => T2Told
      BY <1>2, <3>2, RunKeepsT2 DEF Timed
    <3> QED BY <3>3, <3>4
  <2>3. CASE Next /\ ~(program \in {"t1", "t2"} /\ pc = "execute")
    BY <2>3
  <2> QED BY <1>2, <2>1, <2>2, <2>3
<1> HIDE DEF A, B
<1>3. Spec => [][A]_vars /\ [][B]_vars
  BY <1>1, <1>2, CommonAlways, PTL DEF Spec
<1> QED BY <1>3 DEF TimersAreOnTime, T1OnTime, T2OnTime, A, B, T1Told, T2Told

----------------------------------------------------------------------------
(* The byte the computer sends *)

\* While the drive receives, nothing but the computer's DATA and SRQ moves.
Receiving ==
  program = "receive" =>
    /\ v.acr.shift = 3 /\ v.acr.pb7 = FALSE /\ v.fcr.cb2.out = FALSE /\ v.pulseB = FALSE
    /\ iec.atn = FALSE /\ iec.data = FALSE /\ iec.clock = FALSE /\ iec.gate = FALSE /\ iec.srq = FALSE
    /\ outward = FALSE /\ pins = {} /\ host \in SUBSET {"SRQ", "DATA"}
    /\ iec.sensed \in SUBSET {"SRQ", "DATA"}
    /\ (pc \in Refreshing => ret = "poll")

\* The chip's part in what is said below.
Same(w, x) ==
  /\ x.cb1 = w.cb1 /\ x.cb1Was = w.cb1Was /\ x.sr = w.sr
  /\ x.bits = w.bits /\ ("SR" \in x.ifr <=> "SR" \in w.ifr)

\* What of the bus and of the chip's modes is constant for this program.
Modes(w, x) ==
  /\ x.acr = w.acr /\ x.fcr = w.fcr /\ x.pulseB = w.pulseB

\* The actions there are while the drive receives.
LEMMA ReceivingSteps ==
  ASSUME Common, Next, program = "receive"
  PROVE  \/ Read \/ CpuIdle \/ AccessIER \/ ReadSR \/ Run \/ Serial \/ FirstWrite \/ SecondWrite
         \/ Poll \/ HostBegins \/ HostShifts
<1>1. Calm
  BY DEF Common
<1>2. ~HostMoves
  BY DEF HostMoves, Movable
<1>3. ~(CardBusy \/ CardDone \/ Panel \/ WaitUntilReset \/ Restart \/ BusReset \/ Resume \/ Browse
        \/ Mount \/ CardAccess)
  BY <1>1 DEF Calm, Running, Refreshing, CardBusy, CardDone, Waiting, Panel, WaitUntilReset, Restart,
              BusReset, Resume, Browse, Mount, CardAccess
<1>4. ~(ReadORB \/ WriteORB \/ WriteDDRB \/ ReadORA \/ AccessControl \/ AccessIFR \/ AccessT1
        \/ AccessT2 \/ SendSR)
  BY DEF ReadORB, WriteORB, WriteDDRB, ReadORA, AccessControl, AccessIFR, AccessT1, AccessT2, SendSR
<1> QED BY <1>2, <1>3, <1>4 DEF Next, Drive, Cpu, Host

\* A write of the processor that leaves the ports alone has no callback.
LEMMA WriteGoesOn ==
  ASSUME TypeOK, NEW w, Good(w), CpuWrite(w), w.told = FALSE
  PROVE  /\ Alike(w, v') /\ iec' = iec /\ outward' = outward /\ ret' = ret
         /\ pc = "cpu" /\ pc' = "execute" /\ UNCHANGED <<program, pins, host, half>>
<1> PICK b : b = iec
  OBVIOUS
<1>1. b \in Bus /\ outward \in BOOLEAN /\ Callback(w, b, "execute")
  BY DEF TypeOK, CpuWrite
<1>2. Called(w, b, "execute")
  BY <1>1, CallbackKeeps
<1> QED BY <1>2 DEF Called, CpuWrite

\* The accesses of the receiving program.
LEMMA AccessesReceive ==
  ASSUME TypeOK, AccessIER \/ ReadSR, program = "receive"
  PROVE  /\ Modes(v, v') /\ iec' = iec /\ outward' = outward /\ ret' = ret
         /\ pc = "cpu" /\ pc' = "execute" /\ UNCHANGED <<program, pins, host, half>>
         /\ v'.cb2 = v.cb2
         /\ \/ Same(v, v') /\ peer' = peer
            \/ /\ "SR" \in v.ifr /\ "SR" \notin v'.ifr /\ v'.bits = 0
               /\ v'.cb1 = v.cb1 /\ v'.cb1Was = v.cb1Was /\ peer' = [peer EXCEPT !.bit = 0]
<1> PICK k : k = v
  OBVIOUS
<1>1. Good(k) /\ k.told = FALSE
  BY DEF TypeOK, Settled
<1>2. CASE AccessIER
  <2>1. PICK set \in BOOLEAN : CpuWrite(WriteIER(k, {"SR"}, set)) /\ peer' = peer
    BY <1>2 DEF AccessIER
  <2>2. PICK w : w = WriteIER(k, {"SR"}, set)
    OBVIOUS
  <2>3. {"SR"} \in SUBSET Flags
    BY DEF Flags
  <2>4. Good(w) /\ Leaves(k, w) /\ w.ifr = k.ifr /\ w.sr = k.sr /\ w.bits = k.bits
    BY <1>1, <2>2, <2>3, WriteIERIsGood, WriteIERLeaves
  <2>5. w.told = FALSE
    BY <1>1, <2>4 DEF Leaves
  <2>6. /\ Alike(w, v') /\ iec' = iec /\ outward' = outward /\ ret' = ret
        /\ pc = "cpu" /\ pc' = "execute" /\ UNCHANGED <<program, pins, host, half>>
    BY <2>1, <2>2, <2>4, <2>5, WriteGoesOn
  <2>7. Modes(k, v') /\ Same(k, v') /\ v'.cb2 = k.cb2
    BY <2>4, <2>6 DEF Alike, Leaves, Modes, Same
  <2> QED BY <2>1, <2>6, <2>7
<1>3. CASE ReadSR
  <2>1. "SR" \in k.ifr /\ CpuWrite(AccessSR(k)) /\ peer' = [peer EXCEPT !.bit = 0]
    BY <1>3 DEF ReadSR
  <2>2. PICK w : w = AccessSR(k)
    OBVIOUS
  <2>3. SRStep(k, w) /\ "SR" \notin w.ifr /\ w.bits = 0 /\ w.cb1Was = k.cb1Was
    BY <1>1, <2>1, <2>2, AccessSRIsStep
  <2>4. /\ Good(w) /\ w.told = FALSE /\ w.cb1 = k.cb1 /\ w.cb2 = k.cb2 /\ Modes(k, w)
    BY <1>1, <2>3 DEF SRStep, Beside, Ports, Modes
  <2>5. /\ Alike(w, v') /\ iec' = iec /\ outward' = outward /\ ret' = ret
        /\ pc = "cpu" /\ pc' = "execute" /\ UNCHANGED <<program, pins, host, half>>
    BY <2>1, <2>2, <2>4, WriteGoesOn
  <2>6. /\ Modes(k, v') /\ v'.cb1 = k.cb1 /\ v'.cb1Was = k.cb1Was /\ v'.cb2 = k.cb2
        /\ v'.bits = 0 /\ "SR" \notin v'.ifr
    BY <2>3, <2>4, <2>5 DEF Alike, Modes
  <2> QED BY <1>3, <2>1, <2>5, <2>6
<1> QED BY <1>2, <1>3

\* A sample is what the computer pulls.
LEMMA ReadReceives ==
  ASSUME Common, Receiving, program = "receive", Read
  PROVE  /\ iec'.sensed = host /\ iec'.gate = FALSE
         /\ iec'.atn = iec.atn /\ iec'.data = iec.data /\ iec'.clock = iec.clock /\ iec'.srq = iec.srq
         /\ Modes(v, v') /\ Same(v, v')
<1> DEFINE r == ReadEmulationModeCMDHD(iec)
<1>1. TypeOK /\ iec' = r.bus /\ v' = r.via
  BY DEF Common, Read
<1>2. /\ r.bus.atn = iec.atn /\ r.bus.srq = iec.srq /\ r.bus.data = iec.data /\ r.bus.clock = iec.clock
      /\ ("ATN" \in r.bus.sensed) = (iec.atn \/ "ATN" \in Wire)
      /\ r.via.acr = v.acr /\ r.via.fcr = v.fcr /\ r.via.pulseB = v.pulseB
      /\ r.via.sr = v.sr /\ r.via.bits = v.bits /\ r.via.cb1 = v.cb1 /\ r.via.cb1Was = v.cb1Was
      /\ \A f \in Flags \ {"CA1"} : f \in r.via.ifr <=> f \in v.ifr
      /\ r.bus.sensed = SensedLines(iec, r.bus.gate) \cap Lines
      /\ r.bus.gate = ((IF ("ATN" \in r.bus.sensed) # ("ATN" \in iec.sensed) /\ "ATNA" \in v.b.dir
                        THEN Gate(iec.atna, "ATN" \in r.bus.sensed) ELSE iec.gate) /\ "ATNA" \in v.b.dir)
  BY <1>1, ReadKeeps
<1> HIDE DEF r
<1>3. /\ iec.atn = FALSE /\ iec.data = FALSE /\ iec.clock = FALSE /\ iec.gate = FALSE /\ iec.srq = FALSE
      /\ pins = {} /\ host \in SUBSET {"SRQ", "DATA"} /\ "ATN" \notin iec.sensed
  BY DEF Receiving
<1>4. Wire = host
  BY <1>3 DEF Wire
<1>5. "ATN" \notin r.bus.sensed
  BY <1>2, <1>3, <1>4
<1>6. r.bus.gate = FALSE
  <2>1. PICK x \in BOOLEAN : x = ("ATN" \in r.bus.sensed)
    BY MemberIsBoolean
  <2>2. PICK y \in BOOLEAN : y = ("ATN" \in iec.sensed)
    BY MemberIsBoolean
  <2>3. x = FALSE /\ y = FALSE
    BY <1>3, <1>5, <2>1, <2>2
  <2>4. r.bus.gate = ((IF x # y /\ "ATNA" \in v.b.dir THEN Gate(iec.atna, "ATN" \in r.bus.sensed)
                       ELSE iec.gate) /\ "ATNA" \in v.b.dir)
    BY <1>2, <2>1, <2>2
  <2>5. r.bus.gate = (iec.gate /\ "ATNA" \in v.b.dir)
    BY <2>3, <2>4
  <2> QED BY <1>3, <2>5
<1>7. r.bus.sensed = host
  BY <1>2, <1>3, <1>4, <1>6 DEF SensedLines, Lines
<1>8. Modes(v, v') /\ Same(v, v')
  BY <1>1, <1>2 DEF Modes, Same, Flags
<1> QED BY <1>1, <1>2, <1>6, <1>7, <1>8

\* A cycle of the chip.
LEMMA RunReceives ==
  ASSUME Common, Receiving, program = "receive", Run
  PROVE  /\ Modes(v, v') /\ iec' = iec /\ outward' = outward /\ ret' = ret
         /\ pc = "execute" /\ pc' = "serial" /\ UNCHANGED <<program, pins, host, half, peer>>
         /\ v'.cb1 = v.cb1 /\ v'.cb1Was = v.cb1
         /\ Falls(v) /\ v.bits # Width
              => /\ v'.sr = Shifted(v.sr, v.cb2) /\ v'.bits = v.bits + 1
                 /\ "SR" \in v'.ifr <=> "SR" \in v.ifr \/ v.bits + 1 = Width
         /\ ~(Falls(v) /\ v.bits # Width)
              => v'.sr = v.sr /\ v'.bits = v.bits /\ ("SR" \in v'.ifr <=> "SR" \in v.ifr)
<1>1. TypeOK /\ v.acr.shift = 3 /\ v.acr.pb7 = FALSE /\ v.pulseB = FALSE
  BY DEF Common, Receiving
<1>2. Cycle(v, v') /\ iec' = iec /\ pc' = "serial" /\ outward' = outward /\ ret' = ret
  BY <1>1, RunKeeps
<1>3. pc = "execute" /\ UNCHANGED <<program, pins, host, half, peer>>
  BY DEF Run
<1>4. ShiftsInExternally(v, v') /\ Modes(v, v') /\ v'.cb1 = v.cb1
  BY <1>1, <1>2 DEF Cycle, Modes
<1> QED BY <1>1, <1>2, <1>3, <1>4 DEF ShiftsInExternally

\* The computer's data and its clock on CB2 and CB1.
LEMMA SerialReceives ==
  ASSUME Common, Receiving, program = "receive", Serial
  PROVE  /\ Modes(v, v') /\ iec' = iec /\ UNCHANGED <<program, outward, pins, host, peer>>
         /\ pc = "serial"
         /\ (half = 0 /\ half' = 1 /\ pc' = "cpu" /\ ret' = ret)
              \/ (half # 0 /\ half' = 0 /\ pc' = "first" /\ ret' = "poll")
         /\ v'.sr = v.sr /\ v'.bits = v.bits /\ v'.cb1Was = v.cb1Was
         /\ ("SR" \in v'.ifr <=> "SR" \in v.ifr)
         /\ v'.cb1 = ("SRQ" \in iec.sensed) /\ v'.cb2 = ("DATA" \notin iec.sensed)
<1>1. TypeOK /\ outward = FALSE /\ v.fcr.cb2.out = FALSE
  BY DEF Common, Receiving
<1>2. /\ iec' = iec /\ v'.fcr = v.fcr /\ v'.sr = v.sr /\ v'.bits = v.bits
      /\ v'.cb1Was = v.cb1Was /\ v'.pulseB = v.pulseB
      /\ v'.cb1 = ("SRQ" \in iec.sensed) /\ v'.cb2 = ("DATA" \notin iec.sensed)
  BY <1>1, SerialKeeps
<1>3. v'.acr = v.acr /\ ("SR" \in v'.ifr <=> "SR" \in v.ifr)
  BY <1>1, SerialKeeps DEF Flags
<1>4. /\ UNCHANGED <<program, outward, pins, host, peer>> /\ pc = "serial"
      /\ (half = 0 /\ half' = 1 /\ pc' = "cpu" /\ ret' = ret)
           \/ (half # 0 /\ half' = 0 /\ pc' = "first" /\ ret' = "poll")
  BY DEF Serial, Refresh
<1> QED BY <1>2, <1>3, <1>4 DEF Modes

\* The steps that leave the chip, the computer and the sample alone.
LEMMA RestReceives ==
  ASSUME Common, Receiving, program = "receive", CpuIdle \/ FirstWrite \/ SecondWrite \/ Poll
  PROVE  /\ v' = v /\ iec'.sensed = iec.sensed /\ UNCHANGED <<program, host, half, outward, peer, ret>>
         /\ iec'.gate = iec.gate /\ iec'.data = iec.data /\ iec'.clock = iec.clock
         /\ iec'.atn = iec.atn /\ iec'.srq = iec.srq /\ pins' = {}
         /\ (pc = "cpu" /\ pc' = "execute") \/ (pc = "first" /\ pc' = "second")
              \/ (pc = "second" /\ pc' = "poll") \/ (pc = "poll" /\ pc' = "read")
<1>1. /\ TypeOK /\ Calm /\ Pulled(iec) = {} /\ pins = {}
      /\ iec.atn = FALSE /\ iec.srq = FALSE /\ (pc \in Refreshing => ret = "poll")
  BY DEF Common, Receiving, Pulled
<1>2. CASE CpuIdle
  BY <1>1, <1>2 DEF CpuIdle
<1>3. CASE FirstWrite
  BY <1>1, <1>3 DEF FirstWrite
<1>4. CASE Poll
  <2>1. resets' = 0
    BY <1>1, <1>4 DEF Poll, Calm
  <2> QED BY <1>1, <1>4, <2>1, BusAssumption DEF Poll
<1>5. CASE SecondWrite
  <2> PICK b : b = iec
    OBVIOUS
  <2>1. iec' = [b EXCEPT !.atnWas = b.atn, !.asserted = Pulled(b), !.released = {"DATA", "CLOCK"} \ Pulled(b)]
    BY <1>5 DEF SecondWrite
  <2>2. b \in Bus
    BY <1>1 DEF TypeOK
  <2>3. /\ iec'.sensed = b.sensed /\ iec'.gate = b.gate /\ iec'.data = b.data /\ iec'.clock = b.clock
        /\ iec'.atn = b.atn /\ iec'.srq = b.srq
    BY <2>1, <2>2 DEF Bus
  <2>4. pins' = {}
    BY <1>1, <1>5 DEF SecondWrite
  <2> QED BY <1>1, <1>5, <2>3, <2>4 DEF SecondWrite, Refreshing
<1> QED BY <1>2, <1>3, <1>4, <1>5

LEMMA HostReceives ==
  ASSUME program = "receive", HostBegins \/ HostShifts
  PROVE  UNCHANGED <<program, v, iec, pins, pc, ret, half, outward>> /\ host' \in SUBSET (host \cup {"SRQ", "DATA"})
BY DEF HostBegins, HostShifts

\* Receiving is inductive.
LEMMA ReceivingStep == ASSUME Common, Receiving, [Next]_vars PROVE Receiving'
<1>1. CASE program # "receive"
  BY <1>1, ProgramStays DEF Receiving
<1>2. CASE program = "receive" /\ UNCHANGED vars
  BY <1>2 DEF Receiving, vars
<1>3. CASE program = "receive" /\ Next
  <2>1. CASE Read
    <3>1. UNCHANGED <<program, pins, host, ret, outward>> /\ pc' = "cpu"
      BY <2>1 DEF Read
    <3> QED BY <1>3, <2>1, <3>1, ReadReceives DEF Receiving, Modes, Refreshing
  <2>2. CASE AccessIER \/ ReadSR
    <3>1. TypeOK
      BY DEF Common
    <3> QED BY <1>3, <2>2, <3>1, AccessesReceive DEF Receiving, Modes, Refreshing
  <2>3. CASE Run
    BY <1>3, <2>3, RunReceives DEF Receiving, Modes, Refreshing
  <2>4. CASE Serial
    BY <1>3, <2>4, SerialReceives DEF Receiving, Modes, Refreshing
  <2>5. CASE CpuIdle \/ FirstWrite \/ SecondWrite \/ Poll
    BY <1>3, <2>5, RestReceives DEF Receiving, Refreshing
  <2>6. CASE HostBegins \/ HostShifts
    BY <1>3, <2>6, HostReceives DEF Receiving, Refreshing
  <2> QED BY <1>3, <2>1, <2>2, <2>3, <2>4, <2>5, <2>6, ReceivingSteps
<1> QED BY <1>1, <1>2, <1>3

LEMMA ReceivingAtFirst == ASSUME Init PROVE Receiving
<1> PICK k, p : k = v /\ p = program
  OBVIOUS
<1> DEFINE c == PortB_OnPortOut(NoBus, k.b)
<1>1. k = Configured(p) /\ iec = [c EXCEPT !.released = DC]
  BY DEF Init, DC
<1>2. SUFFICES ASSUME p = "receive" PROVE Receiving
  BY DEF Receiving
<1>3. /\ k.fcr = NoControl /\ ~k.pulseB /\ ~k.acr.pb7 /\ k.acr.shift = 3 /\ k.b.dir = Outs /\ k.b.out = {}
      /\ Good(k)
  <2>1. /\ k.b.dir = Outs \cup (IF p = "t1" THEN {"PB7"} ELSE {})
        /\ k.fcr = NoControl /\ ~k.pulseB /\ ~k.acr.pb7 /\ Good(k)
    BY <1>1, ConfiguredIsGood
  <2>2. k.acr.shift = 3 /\ k.b.out = {}
    BY <1>1, <1>2, ConfiguredIsGood
  <2>3. k.b.dir = Outs
    BY <1>2, <2>1
  <2> QED BY <2>1, <2>2, <2>3
<1>4. k.pulseB = FALSE /\ k.acr.pb7 = FALSE /\ k.fcr.cb2.out = FALSE
  BY <1>3 DEF Good, Via, Auxiliary, NoControl, Input
<1>5. /\ NoBus \in Bus /\ NoBus.sensed = {} /\ NoBus.srq = FALSE
  BY DEF NoBus, Bus
<1>6. /\ c.atn = FALSE /\ c.data = FALSE /\ c.clock = FALSE /\ c.gate = FALSE /\ c.srq = FALSE
      /\ c.sensed = {} /\ c \in Bus
  <2>1. c \in Bus /\ c.sensed = {}
    BY <1>5, PortOutKeeps DEF SameLines
  <2>2. "DATAOUT" \in Outs /\ "CLOCKOUT" \in Outs /\ "ATNOUT" \notin Outs
    BY DEF Outs
  <2> QED BY <1>3, <1>5, <2>1, <2>2 DEF PortB_OnPortOut, Gate, Bus
<1> HIDE DEF c
<1>7. /\ iec.atn = FALSE /\ iec.data = FALSE /\ iec.clock = FALSE /\ iec.gate = FALSE /\ iec.srq = FALSE
      /\ iec.sensed = {}
  BY <1>1, <1>6 DEF Bus
<1>8. pins = {} /\ host = {} /\ pc = "read" /\ outward = FALSE
  BY <1>2 DEF Init
<1> QED BY <1>3, <1>4, <1>7, <1>8 DEF Receiving, Refreshing

\* How many bits of the byte the samples have seen whole, and is the last of
\* them still to be shifted in?
Taken(h, p) ==
  IF p.bit = 0 THEN 0 ELSE IF "SRQ" \in h \/ ~p.seen THEN p.bit - 1 ELSE p.bit
Pending(s, w) == (w.cb1Was \/ w.cb1) /\ "SRQ" \notin s

\* The computer that pulls h, where the last sample is s and p is its byte.
Computer(h, s, p) ==
  /\ p.seen \/ p.bit = 0 => h = s
  /\ p.bit = 0 => "SRQ" \notin h
  /\ p.bit > 0 => p.byte \in Bytes /\ (p.byte[p.bit] <=> "DATA" \notin h)
  /\ ~p.seen /\ p.bit > 0 => ("SRQ" \in h <=> "SRQ" \notin s)
  /\ "SRQ" \notin s /\ Taken(h, p) >= 1 => (p.byte[Taken(h, p)] <=> "DATA" \notin s)

\* The shift register has the bits that are taken, in their places.
Register(h, s, p, w) ==
  /\ Pending(s, w) => Taken(h, p) >= 1
  /\ w.bits = IF Pending(s, w) THEN Taken(h, p) - 1 ELSE Taken(h, p)
  /\ \A j \in 1 .. w.bits : w.sr[(Width - w.bits) + j] = p.byte[j]
  /\ "SR" \in w.ifr => w.bits = Width

\* CB1 and CB2 at each point of a pass.
Levels ==
  /\ half = 0 /\ pc \in {"cpu", "execute", "serial"} => v.cb1Was = v.cb1
  /\ half # 0 /\ pc \in {"cpu", "execute"} => v.cb1 = ("SRQ" \in iec.sensed) /\ v.cb2 = ("DATA" \notin iec.sensed)
  /\ (half # 0 /\ pc = "serial") \/ pc \in Refreshing \cup {"poll", "read"}
       => v.cb1 = ("SRQ" \in iec.sensed) /\ v.cb1Was = v.cb1

\* What is said of a byte on its way, in the program that receives one.
Arriving ==
  program = "receive" => Computer(host, iec.sensed, peer) /\ Register(host, iec.sensed, peer, v) /\ Levels

Wires == SUBSET {"SRQ", "DATA"}

\* A sample: what the computer did is seen.
LEMMA Sample ==
  ASSUME NEW h \in Wires, NEW s \in Wires, NEW p \in Peer, NEW w, NEW x,
         Computer(h, s, p), Register(h, s, p, w), w.cb1 = ("SRQ" \in s), w.cb1Was = w.cb1, Same(w, x)
  PROVE  LET q == [p EXCEPT !.seen = TRUE] IN Computer(h, h, q) /\ Register(h, h, q, x)
<1> DEFINE q == [p EXCEPT !.seen = TRUE]
<1>1. q.bit = p.bit /\ q.byte = p.byte /\ q.seen = TRUE /\ p.bit \in Nat /\ p.seen \in BOOLEAN
  BY Bounds DEF Peer
<1>2. ~Pending(s, w)
  BY DEF Pending
<1>3. x.bits = Taken(h, p) /\ w.bits = Taken(h, p)
  BY <1>2 DEF Register, Same
<1> HIDE DEF q
<1>4. Computer(h, h, q)
  BY <1>1 DEF Computer, Taken
<1>5. Pending(h, x) => p.bit > 0 /\ ~p.seen /\ "SRQ" \notin h
  <2>1. SUFFICES ASSUME Pending(h, x) PROVE p.bit > 0 /\ ~p.seen /\ "SRQ" \notin h
    OBVIOUS
  <2>2. "SRQ" \notin h /\ "SRQ" \in s
    BY <2>1 DEF Pending, Same
  <2> QED BY <1>1, <2>2 DEF Computer
<1>6. ~Pending(h, x) => p.bit = 0 \/ p.seen \/ "SRQ" \in h
  <2>1. SUFFICES ASSUME p.bit > 0, ~p.seen, "SRQ" \notin h PROVE Pending(h, x)
    BY <1>1
  <2>2. "SRQ" \in s
    BY <2>1 DEF Computer
  <2> QED BY <2>1, <2>2 DEF Pending, Same
<1>7. Taken(h, p) = IF Pending(h, x) THEN Taken(h, q) - 1 ELSE Taken(h, q)
  <2>1. CASE Pending(h, x)
    BY <1>1, <1>5, <2>1 DEF Taken
  <2>2. CASE ~Pending(h, x)
    BY <1>1, <1>6, <2>2 DEF Taken
  <2> QED BY <2>1, <2>2
<1>8. Pending(h, x) => Taken(h, q) >= 1
  BY <1>1, <1>5 DEF Taken
<1>9. /\ \A j \in 1 .. x.bits : x.sr[(Width - x.bits) + j] = q.byte[j]
      /\ "SR" \in x.ifr => x.bits = Width
  BY <1>1 DEF Register, Same
<1> QED BY <1>3, <1>4, <1>7, <1>8, <1>9 DEF Register, q

\* A bit comes into the register.
LEMMA ShiftArrives ==
  ASSUME NEW h \in Wires, NEW s \in Wires, NEW p \in Peer, NEW w, Good(w), NEW x, Good(x),
         Computer(h, s, p), Register(h, s, p, w), Pending(s, w),
         w.cb2 = ("DATA" \notin s), x.cb1 = w.cb1, x.cb1Was = w.cb1, w.cb1 = FALSE,
         w.bits # Width => /\ x.sr = Shifted(w.sr, w.cb2) /\ x.bits = w.bits + 1
                           /\ "SR" \in x.ifr <=> "SR" \in w.ifr \/ w.bits + 1 = Width
  PROVE  w.bits # Width /\ Register(h, s, p, x)
<1>1. /\ p.bit \in 0 .. Width /\ Taken(h, p) \in 0 .. Width /\ Taken(h, p) >= 1 /\ p.bit > 0
      /\ w.bits = Taken(h, p) - 1 /\ w.bits \in Nat /\ Width \in Nat
  BY Bounds DEF Register, Peer, Taken
<1>2. w.bits # Width
  BY <1>1
<1>3. ~Pending(s, x)
  BY DEF Pending
<1>4. x.bits = Taken(h, p) /\ x.sr = Shifted(w.sr, w.cb2) /\ w.bits + 1 = x.bits
  BY <1>1, <1>2
<1>5. "SR" \in x.ifr => x.bits = Width
  BY <1>2, <1>4 DEF Register
<1>6. p.byte \in Bytes /\ "SRQ" \notin s
  BY <1>1 DEF Computer, Pending
<1>7. p.byte[x.bits] = w.cb2
  <2>1. p.byte[x.bits] \in BOOLEAN
    BY <1>1, <1>4, <1>6 DEF Bytes
  <2>2. p.byte[x.bits] <=> "DATA" \notin s
    BY <1>1, <1>4, <1>6 DEF Computer
  <2>3. w.cb2 \in BOOLEAN
    BY DEF Good, Via
  <2> QED BY <2>1, <2>2, <2>3
<1>8. ASSUME NEW j \in 1 .. x.bits PROVE x.sr[(Width - x.bits) + j] = p.byte[j]
  <2> DEFINE i == (Width - x.bits) + j
  <2>1. i \in 1 .. Width /\ (i = Width <=> j = x.bits)
    BY <1>1, <1>4
  <2>2. x.sr[i] = IF i = Width THEN w.cb2 ELSE w.sr[i + 1]
    BY <1>4, <2>1 DEF Shifted
  <2>3. CASE j = x.bits
    BY <1>7, <2>1, <2>2, <2>3
  <2>4. CASE j # x.bits
    <3>1. j \in 1 .. w.bits /\ i + 1 = (Width - w.bits) + j
      BY <1>1, <1>4, <2>4
    <3>2. w.sr[(Width - w.bits) + j] = p.byte[j]
      BY <3>1 DEF Register
    <3> QED BY <2>1, <2>2, <2>4, <3>1, <3>2
  <2> QED BY <2>3, <2>4
<1> QED BY <1>1, <1>2, <1>3, <1>4, <1>5, <1>8 DEF Register

\* The chip's levels move and what is pending stays pending.
LEMMA RegisterStays ==
  ASSUME NEW h, NEW s, NEW p, NEW w, NEW x, Register(h, s, p, w), x.sr = w.sr, x.bits = w.bits,
         "SR" \in x.ifr => "SR" \in w.ifr, Pending(s, x) <=> Pending(s, w)
  PROVE  Register(h, s, p, x)
BY DEF Register

\* The computer begins a byte, or goes on with the one it has begun.
LEMMA HostArrives ==
  ASSUME NEW h \in Wires, NEW s \in Wires, NEW p \in Peer, NEW w, Good(w),
         Computer(h, s, p), Register(h, s, p, w), w.cb1 \in BOOLEAN, p.seen = TRUE
  PROVE  /\ \A y \in Bytes :
              p.bit = 0 =>
                LET g == {"SRQ"} \cup (IF y[1] THEN {} ELSE {"DATA"})
                    q == [p EXCEPT !.byte = y, !.bit = 1, !.seen = FALSE]
                IN Computer(g, s, q) /\ Register(g, s, q, w)
         /\ p.bit > 0 /\ "SRQ" \in h =>
              LET g == h \ {"SRQ"}
                  q == [p EXCEPT !.seen = FALSE]
              IN Computer(g, s, q) /\ Register(g, s, q, w)
         /\ p.bit > 0 /\ "SRQ" \notin h /\ p.bit < Width =>
              LET g == {"SRQ"} \cup (IF p.byte[p.bit + 1] THEN {} ELSE {"DATA"})
                  q == [p EXCEPT !.bit = @ + 1, !.seen = FALSE]
              IN Computer(g, s, q) /\ Register(g, s, q, w)
<1>1. /\ p.bit \in 0 .. Width /\ h = s /\ Width \in Nat /\ Width >= 1
      /\ w.bits \in Nat
  BY Bounds DEF Computer, Peer, Good, Via
<1>2. ASSUME NEW y \in Bytes, p.bit = 0
      PROVE  LET g == {"SRQ"} \cup (IF y[1] THEN {} ELSE {"DATA"})
                 q == [p EXCEPT !.byte = y, !.bit = 1, !.seen = FALSE]
             IN Computer(g, s, q) /\ Register(g, s, q, w)
  <2> DEFINE g == {"SRQ"} \cup (IF y[1] THEN {} ELSE {"DATA"})
             q == [p EXCEPT !.byte = y, !.bit = 1, !.seen = FALSE]
  <2>1. q.byte = y /\ q.bit = 1 /\ q.seen = FALSE
    BY DEF Peer
  <2>2. "SRQ" \in g /\ ("DATA" \notin g <=> y[1]) /\ "SRQ" \notin s
    BY <1>1, <1>2 DEF Computer
  <2> HIDE DEF g, q
  <2>3. Taken(g, q) = 0 /\ Taken(h, p) = 0
    BY <1>2, <2>1, <2>2 DEF Taken
  <2>4. w.bits = 0 /\ ~Pending(s, w) /\ "SR" \notin w.ifr
    BY <1>1, <2>3 DEF Register
  <2>5. Computer(g, s, q)
    BY <2>1, <2>2, <2>3 DEF Computer
  <2>6. Register(g, s, q, w)
    BY <2>3, <2>4 DEF Register
  <2> QED BY <2>5, <2>6 DEF g, q
<1>3. ASSUME p.bit > 0, "SRQ" \in h
      PROVE  LET g == h \ {"SRQ"}
                 q == [p EXCEPT !.seen = FALSE]
             IN Computer(g, s, q) /\ Register(g, s, q, w)
  <2> DEFINE g == h \ {"SRQ"}
             q == [p EXCEPT !.seen = FALSE]
  <2>1. q.byte = p.byte /\ q.bit = p.bit /\ q.seen = FALSE
    BY DEF Peer
  <2>2. "SRQ" \notin g /\ ("DATA" \in g <=> "DATA" \in h) /\ "SRQ" \in s
    BY <1>1, <1>3
  <2> HIDE DEF g, q
  <2>3. Taken(g, q) = p.bit - 1 /\ Taken(h, p) = p.bit - 1
    BY <1>1, <1>3, <2>1, <2>2 DEF Taken
  <2>4. Computer(g, s, q)
    BY <1>3, <2>1, <2>2 DEF Computer
  <2>5. Register(g, s, q, w)
    BY <2>1, <2>3 DEF Register
  <2> QED BY <2>4, <2>5 DEF g, q
<1>4. ASSUME p.bit > 0, "SRQ" \notin h, p.bit < Width
      PROVE  LET g == {"SRQ"} \cup (IF p.byte[p.bit + 1] THEN {} ELSE {"DATA"})
                 q == [p EXCEPT !.bit = @ + 1, !.seen = FALSE]
             IN Computer(g, s, q) /\ Register(g, s, q, w)
  <2> DEFINE g == {"SRQ"} \cup (IF p.byte[p.bit + 1] THEN {} ELSE {"DATA"})
             q == [p EXCEPT !.bit = @ + 1, !.seen = FALSE]
  <2>1. q.byte = p.byte /\ q.bit = p.bit + 1 /\ q.seen = FALSE
    BY DEF Peer
  <2>2. "SRQ" \in g /\ ("DATA" \notin g <=> p.byte[p.bit + 1]) /\ "SRQ" \notin s
    BY <1>1, <1>4
  <2> HIDE DEF g, q
  <2>3. Taken(g, q) = p.bit /\ Taken(h, p) = p.bit
    BY <1>1, <1>4, <2>1, <2>2 DEF Taken
  <2>4. p.byte \in Bytes /\ q.bit > 0
    BY <1>1, <1>4, <2>1 DEF Computer
  <2>5. Computer(g, s, q)
    BY <2>1, <2>2, <2>3, <2>4 DEF Computer
  <2>6. Register(g, s, q, w)
    BY <2>1, <2>3 DEF Register
  <2> QED BY <2>5, <2>6 DEF g, q
<1> QED BY <1>2, <1>3, <1>4

\* The byte is taken: it was there whole, and the computer waits.
LEMMA TakingArrives ==
  ASSUME NEW h \in Wires, NEW s \in Wires, NEW p \in Peer, NEW w, Good(w), NEW x,
         Computer(h, s, p), Register(h, s, p, w), "SR" \in w.ifr,
         "SR" \notin x.ifr, x.bits = 0, x.cb1 = w.cb1, x.cb1Was = w.cb1Was
  PROVE  LET q == [p EXCEPT !.bit = 0] IN Computer(h, s, q) /\ Register(h, s, q, x)
<1> DEFINE q == [p EXCEPT !.bit = 0]
<1>1. /\ p.bit \in 0 .. Width /\ Width \in Nat /\ Width >= 1 /\ p.seen \in BOOLEAN
      /\ q.bit = 0 /\ q.byte = p.byte /\ q.seen = p.seen
  BY Bounds DEF Peer
<1> HIDE DEF q
<1>2. w.bits = Width /\ Taken(h, p) \in 0 .. p.bit
  BY <1>1 DEF Register, Taken
<1>3. ~Pending(s, w) /\ Taken(h, p) = Width
  BY <1>1, <1>2 DEF Register
<1>4. p.bit > 0 /\ "SRQ" \notin h /\ p.seen = TRUE
  BY <1>1, <1>2, <1>3 DEF Taken
<1>5. h = s
  BY <1>4 DEF Computer
<1>6. Taken(h, q) = 0 /\ ~Pending(s, x)
  BY <1>1, <1>3 DEF Taken, Pending
<1>7. Computer(h, s, q)
  BY <1>1, <1>4, <1>5, <1>6 DEF Computer
<1>8. Register(h, s, q, x)
  BY <1>6 DEF Register
<1> QED BY <1>7, <1>8 DEF q

\* Arriving is inductive.
LEMMA ArrivingStep == ASSUME Common, Receiving, Arriving, Next PROVE Arriving'
<1>1. CASE program # "receive"
  <2>1. program' = program
    BY ProgramStays
  <2> QED BY <1>1, <2>1 DEF Arriving
<1>2. CASE program = "receive"
  <2> PICK h, s, p, k : h = host /\ s = iec.sensed /\ p = peer /\ k = v
    OBVIOUS
  <2>1. /\ h \in Wires /\ s \in Wires /\ p \in Peer /\ Good(k) /\ half \in {0, 1}
        /\ Computer(h, s, p) /\ Register(h, s, p, k) /\ Levels
    BY <1>2 DEF Common, TypeOK, Settled, Receiving, Arriving, Wires
  <2>2. k.cb1 \in BOOLEAN /\ k.cb1Was \in BOOLEAN
    BY <2>1 DEF Good, Via
  <2>3. CASE Read
    <3>1. pc = "read" /\ pc' = "cpu" /\ half' = 0 /\ host' = h /\ peer' = [p EXCEPT !.seen = TRUE]
      BY <2>3 DEF Read
    <3>2. iec'.sensed = h /\ Same(k, v')
      BY <1>2, <2>3, ReadReceives
    <3>3. k.cb1 = ("SRQ" \in s) /\ k.cb1Was = k.cb1
      BY <2>1, <3>1 DEF Levels
    <3> PICK x : x = v'
      OBVIOUS
    <3>4. Computer(h, h, [p EXCEPT !.seen = TRUE]) /\ Register(h, h, [p EXCEPT !.seen = TRUE], x)
      BY <2>1, <3>2, <3>3, Sample
    <3>5. Levels'
      BY <3>1, <3>2, <3>3 DEF Levels, Same, Refreshing
    <3> QED BY <3>1, <3>2, <3>4, <3>5 DEF Arriving
  <2>4. CASE AccessIER \/ ReadSR
    <3>1. TypeOK
      BY DEF Common
    <3>2. /\ iec' = iec /\ host' = h /\ half' = half /\ pc = "cpu" /\ pc' = "execute" /\ v'.cb2 = k.cb2
          /\ \/ Same(k, v') /\ peer' = p
             \/ /\ "SR" \in k.ifr /\ "SR" \notin v'.ifr /\ v'.bits = 0
                /\ v'.cb1 = k.cb1 /\ v'.cb1Was = k.cb1Was /\ peer' = [p EXCEPT !.bit = 0]
      BY <1>2, <2>4, <3>1, AccessesReceive
    <3> PICK x : x = v'
      OBVIOUS
    <3>3. x.cb1 = k.cb1 /\ x.cb1Was = k.cb1Was /\ x.cb2 = k.cb2
      BY <3>2 DEF Same
    <3>4. Levels'
      BY <2>1, <3>2, <3>3 DEF Levels, Refreshing
    <3>5. CASE Same(k, x) /\ peer' = p
      <4>1. Register(h, s, p, x)
        BY <2>1, <3>5, RegisterStays DEF Same, Pending
      <4> QED BY <2>1, <3>2, <3>4, <3>5, <4>1 DEF Arriving
    <3>6. CASE ~(Same(k, x) /\ peer' = p)
      <4>1. /\ "SR" \in k.ifr /\ "SR" \notin x.ifr /\ x.bits = 0
            /\ x.cb1 = k.cb1 /\ x.cb1Was = k.cb1Was /\ peer' = [p EXCEPT !.bit = 0]
        BY <3>2, <3>6
      <4>2. Computer(h, s, [p EXCEPT !.bit = 0]) /\ Register(h, s, [p EXCEPT !.bit = 0], x)
        BY <2>1, <4>1, TakingArrives
      <4> QED BY <3>2, <3>4, <4>1, <4>2 DEF Arriving
    <3> QED BY <3>5, <3>6
  <2>5. CASE Run
    <3>1. /\ iec' = iec /\ host' = h /\ half' = half /\ peer' = p /\ pc = "execute" /\ pc' = "serial"
          /\ v'.cb1 = k.cb1 /\ v'.cb1Was = k.cb1
          /\ Falls(k) /\ k.bits # Width
               => /\ v'.sr = Shifted(k.sr, k.cb2) /\ v'.bits = k.bits + 1
                  /\ "SR" \in v'.ifr <=> "SR" \in k.ifr \/ k.bits + 1 = Width
          /\ ~(Falls(k) /\ k.bits # Width)
               => v'.sr = k.sr /\ v'.bits = k.bits /\ ("SR" \in v'.ifr <=> "SR" \in k.ifr)
      BY <1>2, <2>5, RunReceives
    <3>2. Good(v')
      <4>1. TypeOK
        BY DEF Common
      <4> QED BY <2>5, <4>1, RunKeeps DEF Cycle
    <3> PICK x : x = v'
      OBVIOUS
    <3>3. Levels'
      BY <2>1, <3>1 DEF Levels, Refreshing
    <3>4. half = 0 => ~Falls(k)
      BY <2>1, <3>1 DEF Levels, Falls
    <3>5. half # 0 => k.cb1 = ("SRQ" \in s) /\ k.cb2 = ("DATA" \notin s)
      BY <2>1, <3>1 DEF Levels
    <3>6. Register(h, s, p, x)
      <4>1. CASE Falls(k)
        <5>1. /\ k.cb1 = ("SRQ" \in s) /\ k.cb2 = ("DATA" \notin s) /\ Pending(s, k) /\ k.cb1 = FALSE
          BY <2>2, <3>4, <3>5, <4>1 DEF Falls, Pending
        <5>2. Good(x) /\ x.cb1 = k.cb1 /\ x.cb1Was = k.cb1
          BY <3>1, <3>2
        <5> QED BY <2>1, <3>1, <4>1, <5>1, <5>2, ShiftArrives
      <4>2. CASE ~Falls(k)
        <5>1. x.sr = k.sr /\ x.bits = k.bits /\ ("SR" \in x.ifr <=> "SR" \in k.ifr)
          BY <3>1, <4>2
        <5>2. Pending(s, x) <=> Pending(s, k)
          BY <2>2, <3>1, <4>2 DEF Pending, Falls
        <5> QED BY <2>1, <5>1, <5>2, RegisterStays
      <4> QED BY <4>1, <4>2
    <3> QED BY <2>1, <3>1, <3>3, <3>6 DEF Arriving
  <2>6. CASE Serial
    <3>1. /\ iec' = iec /\ host' = h /\ peer' = p /\ pc = "serial"
          /\ (half = 0 /\ half' = 1 /\ pc' = "cpu") \/ (half # 0 /\ half' = 0 /\ pc' = "first")
          /\ v'.sr = k.sr /\ v'.bits = k.bits /\ v'.cb1Was = k.cb1Was
          /\ ("SR" \in v'.ifr <=> "SR" \in k.ifr)
          /\ v'.cb1 = ("SRQ" \in s) /\ v'.cb2 = ("DATA" \notin s)
      BY <1>2, <2>6, SerialReceives
    <3> PICK x : x = v'
      OBVIOUS
    <3>2. k.cb1Was = k.cb1 /\ (half # 0 => k.cb1 = ("SRQ" \in s))
      BY <2>1, <3>1 DEF Levels
    <3>3. Levels'
      BY <2>1, <3>1, <3>2 DEF Levels, Refreshing
    <3>4. Pending(s, x) <=> Pending(s, k)
      BY <3>1, <3>2 DEF Pending
    <3>5. Register(h, s, p, x)
      BY <2>1, <3>1, <3>4, RegisterStays
    <3> QED BY <2>1, <3>1, <3>3, <3>5 DEF Arriving
  <2>7. CASE CpuIdle \/ FirstWrite \/ SecondWrite \/ Poll
    <3>1. /\ v' = v /\ iec'.sensed = iec.sensed /\ UNCHANGED <<program, host, half, peer>>
          /\ (pc = "cpu" /\ pc' = "execute") \/ (pc = "first" /\ pc' = "second")
               \/ (pc = "second" /\ pc' = "poll") \/ (pc = "poll" /\ pc' = "read")
      BY <1>2, <2>7, RestReceives
    <3>2. Levels'
      BY <2>1, <3>1 DEF Levels, Refreshing
    <3> QED BY <2>1, <3>1, <3>2 DEF Arriving
  <2>8. CASE HostBegins \/ HostShifts
    <3>1. UNCHANGED <<program, v, iec, pc, half>>
      BY <1>2, <2>8, HostReceives
    <3>2. p.seen = TRUE
      BY <2>1, <2>8 DEF HostBegins, HostShifts, Peer
    <3>3. Levels'
      BY <2>1, <3>1 DEF Levels
    <3>4. CASE HostBegins
      <4>1. PICK y \in Bytes :
              /\ p.bit = 0 /\ host' = {"SRQ"} \cup (IF y[1] THEN {} ELSE {"DATA"})
              /\ peer' = [p EXCEPT !.byte = y, !.bit = 1, !.seen = FALSE]
        BY <3>4 DEF HostBegins
      <4> QED BY <2>1, <2>2, <3>1, <3>2, <3>3, <4>1, HostArrives DEF Arriving
    <3>5. CASE HostShifts /\ "SRQ" \in h
      <4>1. p.bit > 0 /\ host' = h \ {"SRQ"} /\ peer' = [p EXCEPT !.seen = FALSE]
        BY <3>5 DEF HostShifts
      <4> QED BY <2>1, <2>2, <3>1, <3>2, <3>3, <3>5, <4>1, HostArrives DEF Arriving
    <3>6. CASE HostShifts /\ "SRQ" \notin h
      <4>1. /\ p.bit > 0 /\ p.bit < Width
            /\ host' = {"SRQ"} \cup (IF p.byte[p.bit + 1] THEN {} ELSE {"DATA"})
            /\ peer' = [p EXCEPT !.bit = @ + 1, !.seen = FALSE]
        BY <3>6 DEF HostShifts
      <4> QED BY <2>1, <2>2, <3>1, <3>2, <3>3, <3>6, <4>1, HostArrives DEF Arriving
    <3> QED BY <2>8, <3>4, <3>5, <3>6
  <2> QED BY <1>2, <2>3, <2>4, <2>5, <2>6, <2>7, <2>8, ReceivingSteps
<1> QED BY <1>1, <1>2

\* Two bytes with the same bits are the same.
LEMMA BytesAgree ==
    ASSUME NEW a \in Bytes, NEW b \in Bytes, \A j \in 1 .. Width : a[j] = b[j]
    PROVE  a = b
<1>1. a = [j \in 1 .. Width |-> a[j]] /\ b = [j \in 1 .. Width |-> b[j]]
  BY DEF Bytes
<1>2. [j \in 1 .. Width |-> a[j]] = [j \in 1 .. Width |-> b[j]]
  OBVIOUS
<1> QED BY ONLY <1>1, <1>2

LEMMA ArrivingAtFirst == ASSUME Init PROVE Arriving
<1> PICK k, p : k = v /\ p = program
  OBVIOUS
<1>1. k = Configured(p)
  BY DEF Init
<1>2. /\ k.cb1 = FALSE /\ k.cb1Was = FALSE /\ k.ifr = {} /\ k.bits = 0
  <2>1. ~k.cb1 /\ ~k.cb1Was /\ k.ifr = {} /\ k.bits = 0 /\ Good(k)
    BY <1>1, ConfiguredIsGood
  <2> QED BY <2>1 DEF Good, Via
<1>3. /\ peer.bit = 0 /\ peer.seen = FALSE /\ host = {} /\ pc = "read" /\ half = 0
  BY DEF Init
<1>4. iec.sensed = {}
  <2> DEFINE c == PortB_OnPortOut(NoBus, k.b)
  <2>1. iec = [c EXCEPT !.released = {"DATA", "CLOCK"}]
    BY DEF Init
  <2>2. NoBus \in Bus /\ NoBus.sensed = {}
    BY DEF NoBus, Bus
  <2>3. c \in Bus /\ c.sensed = {}
    BY <2>2, PortOutKeeps DEF SameLines
  <2> HIDE DEF c
  <2> QED BY <2>1, <2>3 DEF Bus
<1>5. Taken(host, peer) = 0 /\ ~Pending(iec.sensed, v)
  BY <1>2, <1>3 DEF Taken, Pending
<1>6. Computer(host, iec.sensed, peer)
  BY <1>3, <1>4, <1>5 DEF Computer
<1>7. Register(host, iec.sensed, peer, v)
  BY <1>2, <1>5 DEF Register
<1>8. Levels
  <2>1. PICK e \in BOOLEAN : e = ("SRQ" \in iec.sensed)
    BY MemberIsBoolean
  <2>2. ~e
    <3>1. "SRQ" \notin iec.sensed
      BY <1>4
    <3> QED BY <2>1, <3>1
  <2>3. e = FALSE
    BY <2>1, <2>2
  <2>4. k.cb1 = e
    BY <1>2, <2>3
  <2> QED BY <1>2, <1>3, <2>1, <2>4 DEF Levels, Refreshing
<1> QED BY <1>6, <1>7, <1>8 DEF Arriving

\* An enabled flag interrupts the processor (OutputIRQ), in whatever order the
\* flags and their enables come, and when the shift register's flag is up the
\* computer's byte is in the register, every bit in its place: the samples of
\* a pass, its two processor cycles and the refresh lose and double none.
THEOREM FlagsHold == Spec => []FlagsAreTrue
<1>1. Common /\ Receiving /\ Arriving => FlagsAreTrue
  <2>1. SUFFICES ASSUME Common, Receiving, Arriving PROVE FlagsAreTrue
    OBVIOUS
  <2>2. Good(v) /\ peer \in Peer
    BY <2>1 DEF Common, TypeOK, Settled
  <2>3. InterruptsAreSeen
    BY <2>2 DEF Good, Sound, InterruptsAreSeen
  <2>4. ASSUME program = "receive", "SR" \in v.ifr PROVE v.sr = peer.byte
    <3>1. Computer(host, iec.sensed, peer) /\ Register(host, iec.sensed, peer, v)
      BY <2>1, <2>4 DEF Arriving
    <3>2. v.bits = Width /\ peer.bit \in 0 .. Width /\ Width \in Nat /\ Width >= 1
      BY <2>2, <2>4, <3>1, Bounds DEF Register, Peer
    <3>3. peer.bit > 0
      BY <3>1, <3>2 DEF Register, Taken
    <3>4. v.sr \in Bytes /\ peer.byte \in Bytes
      BY <2>2, <3>1, <3>3 DEF Computer, Good, Via
    <3>5. \A j \in 1 .. Width : v.sr[j] = peer.byte[j]
      <4>1. \A j \in 1 .. Width : (Width - Width) + j = j
        BY <3>2
      <4> QED BY <3>1, <3>2, <4>1 DEF Register
    <3>6. PICK a, b : a = v.sr /\ b = peer.byte
      OBVIOUS
    <3>7. a \in Bytes /\ b \in Bytes /\ \A j \in 1 .. Width : a[j] = b[j]
      BY <3>4, <3>5, <3>6
    <3>8. a = b
      BY <3>7, BytesAgree
    <3> QED BY <3>6, <3>8
  <2>5. ByteReceived
    BY <2>4 DEF ByteReceived
  <2> QED BY <2>3, <2>5 DEF FlagsAreTrue
<1>2. Arriving /\ UNCHANGED vars => Arriving'
  BY DEF Arriving, vars, Levels
<1>3. Spec => []Receiving
  BY ReceivingAtFirst, ReceivingStep, CommonAlways, PTL DEF Spec
<1>4. Spec => []Arriving
  BY <1>2, <1>3, ArrivingAtFirst, ArrivingStep, CommonAlways, PTL DEF Spec
<1> QED BY <1>1, <1>3, <1>4, CommonAlways, PTL

=============================================================================
