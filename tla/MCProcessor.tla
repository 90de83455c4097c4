----------------------------- MODULE MCProcessor -----------------------------
(* The programs of the model checker: one instruction each, for all of the   *)
(* 256 opcodes, at the end of a page and with operands whose indexing leaves *)
(* the page; and decimal sums.  What comes next is JMP to itself.            *)
EXTENDS Processor

MCFiller == 76                  \* JMP abs, and 19532 as an address

\* VIA10 at $8000 and VIA9 at $8400: reading register 4 ends the interrupt of
\* timer 1.
MCAcknowledge == [via10 |-> 32772, via9 |-> 33796]

\* The interrupt handler at $5000: BIT, BIT, RTI.
Handler ==
  [k \in 20480 .. 20486 |-> <<44, 4, 128, 44, 4, 132, 64>>[k - 20479]]
  @@ (65534 :> 0) @@ (65535 :> 80)

\* Pointers in page 0, one of them over its end: $40F0 and $41F4.
Pointers == (255 :> 240) @@ (0 :> 64) @@ (1 :> 244) @@ (2 :> 65)
            @@ (15 :> 244) @@ (16 :> 65)

Program(pc, bytes) ==
  Handler @@ Pointers @@ [k \in pc .. pc + 2 |-> bytes[k - pc + 1]]

Start(pc, bytes, a, index, sp, p, n, r) ==
  [processor |-> [mem |-> Program(pc, bytes), pc |-> pc, a |-> a, x |-> index,
                  y |-> index, sp |-> sp, p |-> p],
   interrupts |-> n, resets |-> r]

Everything == {Start(8445, <<opcode, 255, 48>>, 138, 2, 1, {}, {"via9"}, 0) :
                 opcode \in 0 .. 255}

Flagged == {Start(8445, <<opcode, 255, 48>>, 138, 2, 1, {"C", "Z", "V", "N"}, {}, 0) :
              opcode \in 0 .. 255}

Crossings == {Start(pc, <<opcode, 15, 240>>, 138, 240, 253, {"I"}, {}, 0) :
                pc \in {8445, 8446}, opcode \in 0 .. 255}

\* CLI, SEI, PLP, RTI, BRK, BRA, NOP, a one cycle NOP
Sequences2 == {Start(8445, <<opcode, next, 234>>, 138, 2, 1, p, Vias, 0) :
                 opcode \in {88, 120, 40, 0, 128, 234, 3}, next \in {88, 120, 64},
                 p \in {{}, {"I"}}}

Digits == {0, 1, 4, 5, 8, 9}
Sums == {Start(8445, <<opcode, 16 * tens + ones, 234>>, a, 2, 1, p, {}, 0) :
           opcode \in {105, 233}, tens \in Digits, ones \in Digits,
           a \in {0, 1, 9, 16, 69, 80, 73, 153}, p \in {{"D", "I"}, {"D", "C", "I"}}}

Restarts == {Start(8445, <<opcode, 255, 48>>, 138, 2, 1, {}, {"via10"}, 1) : opcode \in {88, 46}}

MCStarts ==
  Everything \union Flagged \union Crossings \union Sequences2 \union Sums \union Restarts
=============================================================================
