------------------------------ MODULE Processor ------------------------------
(***************************************************************************)
(* The R65C02 of the drive: src/emulation/m65c02.h and m65c02.cpp, one bus *)
(* access per cycle, and the interrupt line the two VIAs share             *)
(* (PiCMDHD::Update).                                                      *)
(*                                                                         *)
(* An address mode is the sequence of its cycles.  cpu.todo holds those    *)
(* that are left of the running instruction; when none is, the next cycle  *)
(* fetches an opcode.  A cycle is an operator from the processor's state   *)
(* to the next one.                                                        *)
(***************************************************************************)
EXTENDS Integers, Sequences, TLC, Bitwise

CONSTANTS
  Starts,           \* bound: the states of the processor a run starts with,
                    \* the VIAs that will interrupt and the number of resets
  Filler,           \* bound: what the rest of the memory reads as
  Acknowledge       \* VIA -> the register whose access ends its interrupt

Vias == {"via9", "via10"}

ASSUME ProcessorAssumption ==
  /\ Filler \in 0 .. 255
  /\ Acknowledge \in [Vias -> 0 .. 65535]

VARIABLES
  cpu,              \* class M65C02, and the memory it is connected to
  requests,         \* the VIAs whose interrupt output is asserted
  interrupts,       \* bound: the VIAs that interrupt once more
  resets,           \* bound: how many resets are still to come
  before,           \* the processor when it fetched the running instruction
  interrupted       \* the processor when it took the interrupt, or <<>>

vars == <<cpu, requests, interrupts, resets, before, interrupted>>

Byte(n) == n % 256
Word(n) == n % 65536

-----------------------------------------------------------------------------
(* The bus. *)

At(s, address) == IF address \in DOMAIN s.mem THEN s.mem[address] ELSE Filler

\* A read whose value nobody uses.
Peek(s, address) == [s EXCEPT !.bus = address]

Poke(s, address, byte) ==
  [s EXCEPT !.mem = [a \in {address} \union DOMAIN @ |->
                       IF a = address THEN byte ELSE @[a]],
            !.bus = address]

Top(s) == 256 + s.sp

Push(s, byte) == [Poke(s, Top(s), byte) EXCEPT !.sp = Byte(@ - 1)]

\* The stack pointer moves before the byte is read.
Popped(s) == LET t == [s EXCEPT !.sp = Byte(@ + 1)] IN [t EXCEPT !.bus = Top(t)]

-----------------------------------------------------------------------------
(* The flags, in the order of their bits. *)

Flags == <<"C", "Z", "I", "D", "B", "U", "V", "N">>

StatusByte(p) ==
  LET sum[k \in 0 .. 8] ==
        IF k = 0 THEN 0
        ELSE sum[k - 1] + (IF Flags[k] \in p THEN 2 ^ (k - 1) ELSE 0)
  IN  sum[8]

StatusOf(byte) == {Flags[k] : k \in {j \in 1 .. 8 : (byte \div 2 ^ (j - 1)) % 2 = 1}}

Set(p, flag, on) == IF on THEN p \union {flag} ELSE p \ {flag}

NZ(p, n) == Set(Set(p, "Z", Byte(n) = 0), "N", Byte(n) >= 128)

Carry(s) == IF "C" \in s.p THEN 1 ELSE 0

Sign(n) == Byte(n) \div 128

\* Both operands have the sign the result has not.
Overflow(p, result, m, n) ==
  Set(p, "V", Sign(result) # Sign(m) /\ Sign(result) # Sign(n))

-----------------------------------------------------------------------------
(* The opcode functions. *)

\* Mutant of AddDecimal: no correction of the lower digit.
AddDecimalBinary(s) ==
  LET r == s.a + s.value + Carry(s)
  IN  [s EXCEPT !.a = Byte(IF r > 153 THEN r + 96 ELSE r),
                !.p = NZ(Set(@, "C", r > 153), r), !.extra = TRUE]

\* ADC in decimal mode.  The flags are those of the adjusted result.
AddDecimal(s) ==
  LET digits == (s.a % 16) + (s.value % 16) + Carry(s)
      low == IF digits > 9 THEN digits + 6 ELSE digits
      r == (low % 16) + 16 * ((s.a \div 16) + (s.value \div 16))
             + (IF low > 15 THEN 16 ELSE 0)
      adjusted == IF r % 512 >= 160 THEN r + 96 ELSE r
  IN  [s EXCEPT !.a = Byte(adjusted), !.extra = TRUE,
                !.p = NZ(Set(Overflow(@, r, s.a, s.value), "C", adjusted > 255),
                         adjusted)]

Add(s) ==
  LET r == s.a + s.value + Carry(s)
  IN  [s EXCEPT !.a = Byte(r),
                !.p = NZ(Set(Overflow(@, r, s.a, s.value), "C", r > 255), r)]

ADC(s) == IF "D" \in s.p THEN AddDecimal(s) ELSE Add(s)

\* The digits of SBC in decimal mode, in 16 bits.
DecimalDifference(s) ==
  LET low == (s.a % 16) - (s.value % 16) - (1 - Carry(s))
      high == 16 * ((s.a \div 16) - (s.value \div 16))
      t == Word(IF low < 0 THEN ((low - 6) % 16) + high - 16 ELSE low + high)
  IN  IF (t \div 256) % 2 = 1 THEN Word(t - 96) ELSE t

SBC(s) ==
  LET r == s.a - s.value - (1 - Carry(s))
      decimal == "D" \in s.p
      shown == IF decimal THEN DecimalDifference(s) ELSE Word(r)
  IN  [s EXCEPT !.a = Byte(shown), !.extra = decimal,
                !.p = NZ(Set(Overflow(@, r, s.a, 255 - s.value), "C", r >= 0),
                         shown)]

\* The result goes to memory, or to A in the one byte instructions.
WriteValue(s, byte) ==
  IF s.mode = "sb" THEN [s EXCEPT !.a = Byte(byte)] ELSE Poke(s, s.ea, Byte(byte))

\* A result that sets N and Z, and the carry.
Shifted(s, n, carry) ==
  [WriteValue(s, n) EXCEPT !.p = Set(NZ(@, n), "C", carry)]

Counted(s, n) == [WriteValue(s, n) EXCEPT !.p = NZ(@, n)]

Bit(s) == 2 ^ ((s.opcode \div 16) % 8)
BitSet(s) == (s.value \div Bit(s)) % 2 = 1

Compare(s, r) ==
  [s EXCEPT !.p = Set(NZ(@, r - s.value), "C", r >= s.value)]

Load(s, register, n) == [s EXCEPT ![register] = n, !.p = NZ(@, n)]

\* A branch reads its operand whether it is taken or not; the first sum stays
\* in the page, and the next cycle makes it right.
Branch(s, taken) ==
  LET offset == At(s, s.pc)
      next == Word(s.pc + 1)
      t == [Peek(s, s.pc) EXCEPT !.pc = next,
              !.ea = IF offset >= 128 THEN offset + 65280 ELSE offset]
  IN  IF taken
      THEN [t EXCEPT !.ia = next, !.todo = <<"rel2">>,
              !.pc = (next - Byte(next)) + Byte(next + offset)]
      ELSE t

Flag(s, flag, on) == Branch(s, (flag \in s.p) = on)

Execute(s) ==
  LET f == s.function
      n == s.value
  IN  CASE f = "ADC" -> ADC(s)
        [] f = "SBC" -> SBC(s)
        [] f = "AND" -> Load(s, "a", s.a & n)
        [] f = "ORA" -> Load(s, "a", s.a | n)
        [] f = "EOR" -> Load(s, "a", s.a ^^ n)
        [] f = "LDA" -> Load(s, "a", n)
        [] f = "LDX" -> Load(s, "x", n)
        [] f = "LDY" -> Load(s, "y", n)
        [] f = "TAX" -> Load(s, "x", s.a)
        [] f = "TAY" -> Load(s, "y", s.a)
        [] f = "TXA" -> Load(s, "a", s.x)
        [] f = "TYA" -> Load(s, "a", s.y)
        [] f = "TSX" -> Load(s, "x", s.sp)
        [] f = "INX" -> Load(s, "x", Byte(s.x + 1))
        [] f = "INY" -> Load(s, "y", Byte(s.y + 1))
        [] f = "DEX" -> Load(s, "x", Byte(s.x - 1))
        [] f = "DEY" -> Load(s, "y", Byte(s.y - 1))
        [] f = "TXS" -> [s EXCEPT !.sp = s.x]
        [] f = "STA" -> WriteValue(s, s.a)
        [] f = "STX" -> WriteValue(s, s.x)
        [] f = "STY" -> WriteValue(s, s.y)
        [] f = "STZ" -> WriteValue(s, 0)
        [] f = "ASL" -> Shifted(s, 2 * n, n >= 128)
        [] f = "ROL" -> Shifted(s, 2 * n + Carry(s), n >= 128)
        [] f = "LSR" -> Shifted(s, n \div 2, n % 2 = 1)
        [] f = "ROR" -> Shifted(s, (n \div 2) + 128 * Carry(s), n % 2 = 1)
        [] f = "INC" -> Counted(s, n + 1)
        [] f = "DEC" -> Counted(s, n - 1)
        [] f = "TRB" -> [WriteValue(s, n - (n & s.a))
                           EXCEPT !.p = Set(@, "Z", (s.a & n) = 0)]
        [] f = "TSB" -> [WriteValue(s, n | s.a)
                           EXCEPT !.p = Set(@, "Z", (s.a & n) = 0)]
        [] f = "RMB" -> WriteValue(s, IF BitSet(s) THEN n - Bit(s) ELSE n)
        [] f = "SMB" -> WriteValue(s, IF BitSet(s) THEN n ELSE n + Bit(s))
        [] f = "CMP" -> Compare(s, s.a)
        [] f = "CPX" -> Compare(s, s.x)
        [] f = "CPY" -> Compare(s, s.y)
        [] f = "BIT" -> [s EXCEPT !.p = Set(Set(Set(@, "Z", (s.a & n) = 0),
                           "V", (n \div 64) % 2 = 1), "N", n >= 128)]
        [] f = "BITimm" -> [s EXCEPT !.p = Set(@, "Z", (s.a & n) = 0)]
        [] f = "CLC" -> [s EXCEPT !.p = @ \ {"C"}]
        [] f = "SEC" -> [s EXCEPT !.p = @ \union {"C"}]
        [] f = "CLD" -> [s EXCEPT !.p = @ \ {"D"}]
        [] f = "SED" -> [s EXCEPT !.p = @ \union {"D"}]
        [] f = "CLV" -> [s EXCEPT !.p = @ \ {"V"}]
        [] f = "CLI" -> [s EXCEPT !.p = @ \ {"I"}, !.masked = TRUE]
        [] f = "SEI" -> [s EXCEPT !.p = @ \union {"I"}]
        [] f = "PHA" -> Push(s, s.a)
        [] f = "PHX" -> Push(s, s.x)
        [] f = "PHY" -> Push(s, s.y)
        [] f = "PHP" -> Push(s, StatusByte(s.p \union {"U", "B"}))
        [] f = "PLA" -> LET t == Popped(s) IN Load(t, "a", At(t, Top(t)))
        [] f = "PLX" -> LET t == Popped(s) IN Load(t, "x", At(t, Top(t)))
        [] f = "PLY" -> LET t == Popped(s) IN Load(t, "y", At(t, Top(t)))
        [] f = "PLP" -> LET t == Popped(s)
                        IN  [t EXCEPT !.p = StatusOf(At(t, Top(t))) \union {"U"}]
        [] f = "BPL" -> Flag(s, "N", FALSE)
        [] f = "BMI" -> Flag(s, "N", TRUE)
        [] f = "BVC" -> Flag(s, "V", FALSE)
        [] f = "BVS" -> Flag(s, "V", TRUE)
        [] f = "BCC" -> Flag(s, "C", FALSE)
        [] f = "BCS" -> Flag(s, "C", TRUE)
        [] f = "BNE" -> Flag(s, "Z", FALSE)
        [] f = "BEQ" -> Flag(s, "Z", TRUE)
        [] f = "BRA" -> Branch(s, TRUE)
        [] f = "BBR" -> Branch(s, ~BitSet(s))
        [] f = "BBS" -> Branch(s, BitSet(s))
        [] f = "JMP" -> [s EXCEPT !.pc = s.ea]
        [] OTHER -> s               \* NOP, and JSR, RTS, RTI, BRK

\* ExecuteOpcode: in decimal mode ADC and SBC take one more cycle.
OneMore(s) == IF s.extra THEN [s EXCEPT !.extra = FALSE, !.todo = <<"pc">>] ELSE s
ExecuteOpcode(s) == OneMore(Execute(s))

-----------------------------------------------------------------------------
(* The address modes: what every cycle after the fetch does. *)

Modes ==
  [fetch |-> <<>>, sb |-> <<"one">>, imm |-> <<"imm">>, rel |-> <<"branch">>,
   zp_r |-> <<"lo", "read">>, zp_w |-> <<"lo", "exec">>,
   zp_rmw |-> <<"lo", "value", "again", "exec">>,
   abs_r |-> <<"lo", "hi", "read">>, abs_w |-> <<"lo", "hi", "exec">>,
   abs_rmw |-> <<"lo", "hi", "value", "again", "exec">>,
   idx_r |-> <<"ia", "atia", "iax", "iahi", "read">>,
   idx_w |-> <<"ia", "atia", "iax", "iahi", "exec">>,
   izp_r |-> <<"ia", "ialo", "iahi", "read">>,
   izp_w |-> <<"ia", "ialo", "iahi", "exec">>,
   absx_r |-> <<"lo", "hi", "crossx", "read">>,
   absx_w |-> <<"lo", "hi", "plusx", "exec">>,
   absy_r |-> <<"lo", "hi", "crossy", "read">>,
   absy_w |-> <<"lo", "hi", "plusy", "exec">>,
   zpx_r |-> <<"lo", "again", "zpx">>, zpx_w |-> <<"lo", "again", "zpxexec">>,
   zpy_r |-> <<"lo", "again", "zpy">>, zpy_w |-> <<"lo", "again", "zpyexec">>,
   zpx_rmw |-> <<"lo", "again", "zpxvalue", "again", "exec">>,
   idy_r |-> <<"ia", "ialo", "iahi", "crossy", "read">>,
   idy_w |-> <<"ia", "ialo", "iahi", "plusy", "exec">>,
   absx_rmwc |-> <<"lo", "hi", "crossrmw", "value", "again", "exec">>,
   absx_rmw7 |-> <<"lo", "hi", "plusx", "value", "again", "exec">>,
   ph |-> <<"pc", "exec">>, pl |-> <<"pc", "sp", "exec">>,
   jsr |-> <<"lo", "sp", "pushhi", "pushlo", "call">>,
   rti |-> <<"next", "sp", "pullp", "pulllo", "pullhi">>,
   rts |-> <<"next", "sp", "pulllo", "pullhi", "next">>,
   jmpabs |-> <<"lo", "jmphi">>,
   jmpind |-> <<"ia", "iahi16", "back", "ialo", "jmp">>,
   jmpiax |-> <<"ia", "iahi16", "backx", "ialo", "jmp">>,
   nop5c |-> <<"lo", "next", "odd", "ffff", "ffff", "ffff", "ffff">>,
   zpbit |-> <<"lo", "value", "again", "branch">>,
   brk |-> <<"next", "pushhi", "pushlo", "pushb", "vector", "vectorhi">>]

IRQCycles == <<"pc", "pushhi", "pushlo", "pushirq", "vector", "vectorhi">>
ResetCycles == <<"pc", "drop", "drop", "dropclear", "reset", "resethi">>

Fetched(s, field) == [Peek(s, s.pc) EXCEPT ![field] = At(s, s.pc), !.pc = Word(@ + 1)]
FetchedHigh(s, field) ==
  [Peek(s, s.pc) EXCEPT ![field] = @ + 256 * At(s, s.pc), !.pc = Word(@ + 1)]
Read(s) == [Peek(s, s.ea) EXCEPT !.value = At(s, s.ea)]
Indexed(s, index) == [s EXCEPT !.ea = Byte(@ + index)]

\* Over the end of a page the last byte of the instruction is read again.
Crossing(s, index, whenNot) ==
  LET t == [s EXCEPT !.ea = Word(@ + index)]
  IN  IF s.ea \div 256 # t.ea \div 256 THEN Peek(t, Word(s.pc - 1)) ELSE whenNot

CrossingRead(s, index) ==
  Crossing(s, index, ExecuteOpcode(Read([s EXCEPT !.ea = Word(@ + index), !.todo = <<>>])))

Vector(s, address) == [Peek(s, address) EXCEPT !.ea = At(s, address)]
Jump(s, address) == [Peek(s, address) EXCEPT !.pc = s.ea + 256 * At(s, address)]
Interrupted(s) == [s EXCEPT !.p = (@ \union {"I"}) \ {"D"}]
Drop(s) == [Peek(s, Top(s)) EXCEPT !.sp = Byte(@ - 1)]

\* The cycles that end with the opcode's function.
Last == {"one", "imm", "exec", "branch", "read", "zpx", "zpy", "zpxexec", "zpyexec", "jmphi", "jmp"}

LastCycle(s, c) ==
  CASE c = "one" -> [Peek(s, s.pc) EXCEPT !.value = s.a]
    [] c = "imm" -> Fetched(s, "value")
    [] c \in {"exec", "branch"} -> s
    [] c = "read" -> Read(s)
    [] c = "zpx" -> Read(Indexed(s, s.x))
    [] c = "zpy" -> Read(Indexed(s, s.y))
    [] c = "zpxexec" -> Indexed(s, s.x)
    [] c = "zpyexec" -> Indexed(s, s.y)
    [] c = "jmphi" -> FetchedHigh(s, "ea")
    [] c = "jmp" -> [Peek(s, s.ia) EXCEPT !.ea = @ + 256 * At(s, s.ia)]

Cycle(s, c) ==
  CASE c \in Last -> ExecuteOpcode(LastCycle(s, c))
    [] c \in {"crossx", "crossy"} -> CrossingRead(s, IF c = "crossx" THEN s.x ELSE s.y)
    [] c = "lo" -> Fetched(s, "ea")
    [] c = "hi" -> FetchedHigh(s, "ea")
    [] c = "value" -> Read(s)
    [] c = "again" -> Peek(s, s.ea)
    [] c = "zpxvalue" -> Read(Indexed(s, s.x))
    [] c = "ia" -> Fetched(s, "ia")
    [] c = "iahi16" -> FetchedHigh(s, "ia")
    [] c = "atia" -> Peek(s, s.ia)
    [] c = "iax" -> LET p == Byte(s.ia + s.x)
                    IN  [Peek(s, p) EXCEPT !.ea = At(s, p), !.ia = p + 1]
    [] c = "ialo" -> [Peek(s, s.ia) EXCEPT !.ea = At(s, s.ia), !.ia = Word(@ + 1)]
    [] c = "iahi" -> [Peek(s, Byte(s.ia)) EXCEPT !.ea = @ + 256 * At(s, Byte(s.ia))]
    [] c = "plusx" -> [Peek(s, Word(s.pc - 1)) EXCEPT !.ea = Word(@ + s.x)]
    [] c = "plusy" -> [Peek(s, Word(s.pc - 1)) EXCEPT !.ea = Word(@ + s.y)]
    [] c = "crossrmw" ->
         Crossing(s, s.x, Read([s EXCEPT !.ea = Word(@ + s.x), !.todo = Tail(@)]))
    [] c = "back" -> Peek(s, Word(s.pc - 1))
    [] c = "backx" -> [Peek(s, Word(s.pc - 1)) EXCEPT !.ia = Word(@ + s.x)]
    [] c = "rel2" ->
         LET t == Word(s.ia + s.ea)
             near == t \div 256 = s.ia \div 256
         IN  [Peek(s, s.ia) EXCEPT !.pc = t, !.masked = near,
                !.todo = IF near THEN <<>> ELSE <<"pc">>]
    [] c = "pc" -> Peek(s, s.pc)
    [] c = "next" -> [Peek(s, s.pc) EXCEPT !.pc = Word(@ + 1)]
    [] c = "sp" -> Peek(s, Top(s))
    [] c = "pushhi" -> Push(s, s.pc \div 256)
    [] c = "pushlo" -> Push(s, Byte(s.pc))
    [] c = "pushb" -> Push(s, StatusByte(s.p \union {"U", "B"}))
    [] c = "pushirq" -> Push(s, StatusByte((s.p \union {"U"}) \ {"B"}))
    [] c = "call" -> Jump(s, s.pc)
    [] c = "pullp" -> LET t == Popped(s)
                      IN  [t EXCEPT !.p = StatusOf(At(t, Top(t))) \union {"U"}]
    [] c = "pulllo" -> LET t == Popped(s) IN [t EXCEPT !.pc = At(t, Top(t))]
    [] c = "pullhi" -> LET t == Popped(s) IN [t EXCEPT !.pc = @ + 256 * At(t, Top(t))]
    [] c = "odd" -> Peek(s, 65280 + s.ea)
    [] c = "ffff" -> Peek(s, 65535)
    [] c = "vector" -> Vector(s, 65534)
    [] c = "vectorhi" -> Interrupted(Jump(s, 65535))
    [] c = "drop" -> Drop(s)
    [] c = "dropclear" -> [Drop(s) EXCEPT !.p = @ \ {"B", "D"}]
    [] c = "reset" -> Vector(s, 65532)
    [] c = "resethi" -> [Jump(s, 65533) EXCEPT !.p = @ \union {"I"}]

-----------------------------------------------------------------------------
(* The two tables, column by column: opcode 16 * row + column. *)

\* Two rows each; one row after the other; two values in turn.
Pairs(g) == [i \in 1 .. 16 |-> g[(i + 1) \div 2]]
Turns(m, n) == [i \in 1 .. 16 |-> IF i % 2 = 1 THEN m ELSE n]
All(n) == [i \in 1 .. 16 |-> n]

Arithmetic == Pairs(<<"ORA", "AND", "EOR", "ADC", "STA", "LDA", "CMP", "SBC">>)
Shifts == Pairs(<<"ASL", "ROL", "LSR", "ROR", "STX", "LDX", "DEC", "INC">>)

OpcodeFunctions ==
  <<<<"BRK", "BPL", "JSR", "BMI", "RTI", "BVC", "RTS", "BVS",
      "BRA", "BCC", "LDY", "BCS", "CPY", "BNE", "CPX", "BEQ">>,
    Arithmetic,
    [i \in 1 .. 16 |-> IF i % 2 = 0 THEN Arithmetic[i] ELSE
                       IF i = 11 THEN "LDX" ELSE "NOP"],
    All("NOP"),
    <<"TSB", "TRB", "BIT", "BIT", "NOP", "NOP", "STZ", "STZ",
      "STY", "STY", "LDY", "LDY", "CPY", "NOP", "CPX", "NOP">>,
    Arithmetic,
    Shifts,
    [i \in 1 .. 16 |-> IF i <= 8 THEN "RMB" ELSE "SMB"],
    <<"PHP", "CLC", "PLP", "SEC", "PHA", "CLI", "PLA", "SEI",
      "DEY", "TYA", "TAY", "CLV", "INY", "CLD", "INX", "SED">>,
    [Arithmetic EXCEPT ![9] = "BITimm"],
    <<"ASL", "INC", "ROL", "DEC", "LSR", "PHY", "ROR", "PLY",
      "TXA", "TXS", "TAX", "TSX", "DEX", "PHX", "NOP", "PLX">>,
    All("NOP"),
    <<"TSB", "TRB", "BIT", "BIT", "JMP", "NOP", "JMP", "JMP",
      "STY", "STZ", "LDY", "LDY", "CPY", "NOP", "CPX", "NOP">>,
    Arithmetic,
    [Shifts EXCEPT ![10] = "STZ"],
    [i \in 1 .. 16 |-> IF i <= 8 THEN "BBR" ELSE "BBS"]>>

AddressModes ==
  <<<<"brk", "rel", "jsr", "rel", "rti", "rel", "rts", "rel",
      "rel", "rel", "imm", "rel", "imm", "rel", "imm", "rel">>,
    [Turns("idx_r", "idy_r") EXCEPT ![9] = "idx_w", ![10] = "idy_w"],
    [Turns("imm", "izp_r") EXCEPT ![10] = "izp_w"],
    All("fetch"),
    [Turns("zp_r", "zpx_r") EXCEPT ![1] = "zp_rmw", ![2] = "zp_rmw",
       ![7] = "zp_w", ![8] = "zpx_w", ![9] = "zp_w", ![10] = "zpx_w"],
    [Turns("zp_r", "zpx_r") EXCEPT ![9] = "zp_w", ![10] = "zpx_w"],
    [Turns("zp_rmw", "zpx_rmw") EXCEPT ![9] = "zp_w", ![10] = "zpy_w",
       ![11] = "zp_r", ![12] = "zpy_r"],
    All("zp_rmw"),
    [All("sb") EXCEPT ![1] = "ph", ![3] = "pl", ![5] = "ph", ![7] = "pl"],
    [Turns("imm", "absy_r") EXCEPT ![10] = "absy_w"],
    [All("sb") EXCEPT ![6] = "ph", ![8] = "pl", ![14] = "ph", ![16] = "pl"],
    All("fetch"),
    <<"abs_rmw", "abs_rmw", "abs_r", "absx_r", "jmpabs", "nop5c", "jmpind",
      "jmpiax", "abs_w", "abs_w", "abs_r", "absx_r", "abs_r", "abs_r",
      "abs_r", "abs_r">>,
    [Turns("abs_r", "absx_r") EXCEPT ![9] = "abs_w", ![10] = "absx_w"],
    [Turns("abs_rmw", "absx_rmwc") EXCEPT ![9] = "abs_w", ![10] = "absx_w",
       ![11] = "abs_r", ![12] = "absy_r", ![14] = "absx_rmw7",
       ![16] = "absx_rmw7"],
    All("zpbit")>>

Column(opcode) == (opcode % 16) + 1
Row(opcode) == (opcode \div 16) + 1
FunctionOf(opcode) == OpcodeFunctions[Column(opcode)][Row(opcode)]
ModeOf(opcode) == AddressModes[Column(opcode)][Row(opcode)]

-----------------------------------------------------------------------------
(* One clock of the processor. *)

Masked(s) == "I" \in s.p

\* Mutant of InstructionFetch: the interrupted opcode is skipped.
FetchPastInterrupt(s) ==
  LET t == [Peek(s, s.pc) EXCEPT !.opcode = At(s, s.pc), !.pc = Word(@ + 1)]
  IN  IF s.pending /\ ~Masked(s)
      THEN [t EXCEPT !.pending = FALSE, !.todo = IRQCycles]
      ELSE [t EXCEPT !.function = FunctionOf(t.opcode), !.mode = ModeOf(t.opcode),
                     !.todo = Modes[ModeOf(t.opcode)]]

\* The interrupt is polled here only.  One that is taken leaves the program
\* counter at the opcode just read.
InstructionFetch(s) ==
  LET t == [Peek(s, s.pc) EXCEPT !.opcode = At(s, s.pc)]
  IN  IF s.pending /\ ~Masked(s)
      THEN [t EXCEPT !.pending = FALSE, !.todo = IRQCycles]
      ELSE [t EXCEPT !.pc = Word(@ + 1), !.function = FunctionOf(t.opcode),
                     !.mode = ModeOf(t.opcode), !.todo = Modes[ModeOf(t.opcode)]]

\* Mutant of Polled: the mask stays.
PolledMasked(s) == [s EXCEPT !.pending = s.irq /\ (@ \/ (~Masked(s) /\ ~s.masked))]

\* The line is latched, but not in the cycle after CLI or after a branch that
\* was taken within its page.
Polled(s) ==
  [s EXCEPT !.masked = FALSE,
            !.pending = s.irq /\ (@ \/ (~Masked(s) /\ ~s.masked))]

Step(s) ==
  IF s.todo = <<>> THEN InstructionFetch(Polled(s))
  ELSE Cycle([Polled(s) EXCEPT !.todo = Tail(@)], Head(s.todo))

\* PiCMDHD::Update: the outputs of the two VIAs are ORed.
Line(asking) == asking # {}

\* The RTI of the handler has just ended.
Returned ==
  /\ interrupted # <<>> /\ before # interrupted
  /\ At(before, before.pc) = 64 /\ cpu.todo = <<>>

\* What the new requests leave after the step that led to s.
Update(s, new) ==
  /\ requests' = {v \in requests : Acknowledge[v] # s.bus} \union new
  /\ interrupts' = interrupts \ new
  /\ cpu' = [s EXCEPT !.irq = Line(requests')]
  /\ before' = IF cpu.todo = <<>> THEN cpu ELSE before
  /\ interrupted' = IF cpu.todo # <<>> THEN interrupted
                    ELSE IF s.todo = IRQCycles THEN cpu
                    ELSE IF Returned THEN <<>> ELSE interrupted
  /\ UNCHANGED resets

\* One pass of the 2 MHz loop: Step, then Update, in which a VIA may ask.
Clock == \E new \in SUBSET interrupts : Update(Step(cpu), new)

\* M65C02::Reset, from the RESET line, the panel or the file browser, between
\* any two clocks.  The VIAs go on asking.
Reset ==
  /\ resets > 0 /\ resets' = resets - 1
  /\ cpu' = [Peek(cpu, cpu.pc) EXCEPT !.masked = FALSE, !.extra = FALSE,
               !.irq = FALSE, !.pending = FALSE, !.sp = 0, !.todo = ResetCycles]
  /\ before' = cpu /\ interrupted' = <<>>
  /\ UNCHANGED <<requests, interrupts>>

Started(start) ==
  [start EXCEPT !.p = @ \union {"U"}] @@
    [bus |-> start.pc, ea |-> 0, ia |-> 0, value |-> 0, opcode |-> 234,
     function |-> "NOP", mode |-> "sb", todo |-> <<>>, extra |-> FALSE,
     masked |-> FALSE, pending |-> FALSE, irq |-> FALSE]

Init ==
  \E start \in Starts :
    /\ cpu = Started(start.processor)
    /\ requests = {}
    /\ interrupts = start.interrupts /\ resets = start.resets
    /\ before = Started(start.processor)
    /\ interrupted = <<>>

Next == Clock \/ Reset

\* The loop of emulator() clocks the processor for as long as it runs.
Spec == Init /\ [][Next]_vars /\ WF_vars(Clock)

-----------------------------------------------------------------------------
(* What the instruction set promises, from the whole instruction at once. *)

Operand(s) == At(s, Word(s.pc + 1))
Operand16(s) == Operand(s) + 256 * At(s, Word(s.pc + 2))
Pointer(s, address) == At(s, Byte(address)) + 256 * At(s, Byte(address + 1))
Pulled(s, n) == At(s, 256 + Byte(s.sp + n))

\* The address outside of page 0 and the stack an instruction is about.
EffectiveAddress(s) ==
  LET mode == ModeOf(At(s, s.pc))
  IN  CASE mode \in {"abs_r", "abs_w", "abs_rmw", "jmpabs", "jsr"} -> Operand16(s)
        [] mode \in {"absx_r", "absx_w", "absx_rmwc", "absx_rmw7"} ->
             Word(Operand16(s) + s.x)
        [] mode \in {"absy_r", "absy_w"} -> Word(Operand16(s) + s.y)
        [] mode \in {"idx_r", "idx_w"} -> Pointer(s, Operand(s) + s.x)
        [] mode \in {"izp_r", "izp_w"} -> Pointer(s, Operand(s))
        [] mode \in {"idy_r", "idy_w"} -> Word(Pointer(s, Operand(s)) + s.y)
        [] mode = "jmpind" -> Operand16(s)
        [] mode = "jmpiax" -> Word(Operand16(s) + s.x)
        [] mode = "rts" -> Pulled(s, 1) + 256 * Pulled(s, 2)
        [] OTHER -> s.pc

\* Every access is to the instruction, to page 0 or the stack, to a vector or
\* to the address the instruction is about (both bytes of a jump's pointer), or
\* is the fetch of what comes next: no other register of a VIA, the 8255 or the
\* clock, where a read has effects, is touched on the way.  The odd NOP $5C is
\* as on the chip (m65c02.h:450).
NoStrayAccess ==
  \/ cpu.bus < 512 \/ cpu.bus >= 65530
  \/ cpu.bus \in {Word(before.pc + n) : n \in 0 .. 3}
  \/ cpu.bus = EffectiveAddress(before)
  \/ /\ cpu.mode \in {"jmpind", "jmpiax"}
     /\ cpu.bus = Word(EffectiveAddress(before) + 1)
  \/ cpu.bus = cpu.pc
  \/ cpu.opcode = 92

\* The RTI that ends an interrupt gives the program back what it had, whatever
\* the cycle the request came in: the opcode that was read and not run is next.
\* The break flag exists only in what is pushed.
ResumesWhereItStopped ==
  Returned
    => /\ \A register \in {"pc", "sp", "a", "x", "y"} :
            cpu[register] = interrupted[register]
       /\ cpu.p \ {"B"} = interrupted.p \ {"B"}

\* An interrupt is taken only while a VIA asks for it: a handler that has
\* answered is not entered once more by what was latched before.
NoPhantomInterrupt == cpu.todo = IRQCycles => requests # {}

Decimal(byte) == 10 * (byte \div 16) + (byte % 16)
IsDecimal(byte) == (byte % 16) <= 9 /\ (byte \div 16) <= 9

\* Decimal ADC and SBC of two digits each are right, with the carry, and Z
\* tells the result's value (m65c02.h:35: "set N,Z,C,V correctly").
DecimalIsRight ==
  LET m == Decimal(before.a)
      n == Decimal(Operand(before))
      sum == m + n + Carry(before)
      difference == m - n - (1 - Carry(before))
  IN  (/\ cpu.todo = <<>> /\ "D" \in before.p
       /\ At(before, before.pc) \in {105, 233} /\ cpu.pc = Word(before.pc + 2)
       /\ IsDecimal(before.a) /\ IsDecimal(Operand(before)))
      => /\ IsDecimal(cpu.a)
         /\ Decimal(cpu.a) = (IF At(before, before.pc) = 105 THEN sum ELSE difference)
                               % 100
         /\ ("C" \in cpu.p) = (IF At(before, before.pc) = 105 THEN sum > 99
                                ELSE difference >= 0)
         /\ ("Z" \in cpu.p) = (cpu.a = 0)

\* A VIA that asks while the processor listens is answered, or stops asking, or
\* the processor stops listening.
InterruptIsTaken == (requests # {} /\ ~Masked(cpu)) ~> (requests = {} \/ Masked(cpu))

\* A program that is interrupted does not notice, and is not interrupted for
\* nothing.
InterruptsAreClean == ResumesWhereItStopped /\ NoPhantomInterrupt

\* An instruction touches what it is about and computes what it should.
InstructionsAreTrue == NoStrayAccess /\ DecimalIsRight
=============================================================================
