------------------------- MODULE EmulationLoopProofs -------------------------
(***************************************************************************)
(* Proofs about the emulation loop, for every length of the delays and of  *)
(* the reset.  Two things have to be added to what the runs check to make  *)
(* it inductive: quietLoops never runs ahead of the iterations since the   *)
(* drive was busy, for whatever keeps it busy zeroes it; and resetCount    *)
(* never runs ahead of the samples of an asserted line.  What is proved of *)
(* the loop holds of emulator(): every step of that is a step of the loop  *)
(* or leaves its variables alone, whatever browser is beside it.           *)
(***************************************************************************)
EXTENDS Emulator, TLAPS

\* The iterations counted are iterations without an access, with ATN released.
QuietIsIdle == Smaller(quietLoops, FLUSH_IDLE_LOOPS) <= sinceBusy

\* The samples counted are samples of an asserted line, one after the other.
CountIsRun == resetCount <= lineRun

IInv ==
  TypeOK /\ QuietIsIdle /\ FlushOnlyWhenIdle /\ DelayIsEarned /\ CountIsRun

USE LoopAssumption

-----------------------------------------------------------------------------
(* Types. *)

LEMMA InitTypes == Init => TypeOK
<1>1. Init => DelayOK BY DEF Init, DelayOK
<1>2. Init => CountersOK BY DEF Init, CountersOK
<1>3. Init => FlagsOK BY DEF Init, FlagsOK
<1>4. Init => NamesOK BY DEF Init, NamesOK
<1> QED BY <1>1, <1>2, <1>3, <1>4 DEF TypeOK

LEMMA RunTypes ==
  ASSUME TypeOK, NEW access \in Accesses, NEW atn \in BOOLEAN, Run(access, atn)
  PROVE  TypeOK'
<1> USE DEF TypeOK, Run, RunBusy, RunQuiet, RunFlush, FlushOk, FlushFails,
    Refused, AccessDone, buttonVars, outside, diskVars
<1>1. DelayOK' BY DEF DelayOK, Smaller
<1>2. CountersOK' BY DEF CountersOK, Counted, Smaller
<1>3. FlagsOK' BY DEF FlagsOK
<1>4. NamesOK' BY DEF NamesOK
<1> QED BY <1>1, <1>2, <1>3, <1>4

LEMMA ControlsTypes ==
  ASSUME TypeOK, NEW quit \in Quits, Controls(quit)
  PROVE  TypeOK'
<1> USE DEF TypeOK, Controls, idleVars, diskVars, outside
<1>1. DelayOK' BY DEF DelayOK
<1>2. CountersOK' BY DEF CountersOK, LineCount, Smaller
<1>3. FlagsOK' BY DEF FlagsOK
<1>4. NamesOK' BY DEF NamesOK, ExitReasonOf
<1> QED BY <1>1, <1>2, <1>3, <1>4

LEMMA OtherTypes ==
  ASSUME TypeOK, ButtonReset \/ Reset \/ Leave \/ Return \/ Start \/ Outside
  PROVE  TypeOK'
<1> USE DEF TypeOK, idleVars, buttonVars, diskVars, outside, history
<1>1. DelayOK'
  <2>1. CASE Start \/ Leave BY <2>1 DEF DelayOK, Start, Leave
  <2>2. UNCHANGED <<quietLoops, flushAfterLoops>> \/ Start \/ Leave
    BY DEF ButtonReset, Reset, Return, Outside
  <2> QED BY <2>1, <2>2 DEF DelayOK
<1>2. CountersOK'
  <2>1. /\ resetCount' \in {resetCount, 0} /\ lineRun' \in {lineRun, 0}
        /\ sinceBusy' \in {sinceBusy, 0}
        /\ faults' \in {faults, faults + 1} /\ (faults' = faults \/ faults < MaxFaults)
    BY DEF ButtonReset, Reset, Refused, AccessDone, Leave, Return, Start, Outside
  <2> QED BY <2>1 DEF CountersOK
<1>3. FlagsOK'
  BY DEF FlagsOK, ButtonReset, Reset, Refused, AccessDone, Leave, Return, Start, Outside
<1>4. NamesOK'
  BY DEF NamesOK, ButtonReset, Reset, Refused, AccessDone, Leave, Return, Start, Outside
<1> QED BY <1>1, <1>2, <1>3, <1>4

-----------------------------------------------------------------------------
(* What the history variables say of the loop's counters. *)

LEMMA RunKeeps ==
  ASSUME IInv, NEW access \in Accesses, NEW atn \in BOOLEAN, Run(access, atn)
  PROVE  QuietIsIdle' /\ FlushOnlyWhenIdle' /\ DelayIsEarned' /\ CountIsRun'
<1> USE DEF IInv, TypeOK, DelayOK, CountersOK, QuietIsIdle, FlushOnlyWhenIdle,
    DelayIsEarned, CountIsRun, Smaller, Counted
<1>1. CountIsRun'
  BY DEF Run, buttonVars
<1>2. CASE RunBusy(access, atn)
  BY <1>1, <1>2 DEF Run, RunBusy
<1>3. CASE RunQuiet(access, atn)
  BY <1>1, <1>3 DEF Run, RunQuiet, Busy
\* Before the flush, quietLoops is one short of a delay that is no shorter than
\* FLUSH_IDLE_LOOPS.
<1>4. CASE RunFlush(access, atn)
  <2>1. sinceBusy' = FLUSH_IDLE_LOOPS
    BY <1>4 DEF Run, RunFlush, Busy
  <2>2. quietLoops' = 0
    BY <1>4 DEF RunFlush
  <2>3. DelayIsEarned'
    BY <1>4 DEF RunFlush, FlushOk, FlushFails
  <2> QED BY <1>1, <2>1, <2>2, <2>3
<1> QED BY <1>2, <1>3, <1>4 DEF Run

LEMMA ControlsKeep ==
  ASSUME IInv, NEW quit \in Quits, Controls(quit)
  PROVE  QuietIsIdle' /\ FlushOnlyWhenIdle' /\ DelayIsEarned' /\ CountIsRun'
<1>1. QuietIsIdle' /\ FlushOnlyWhenIdle' /\ DelayIsEarned'
  BY DEF Controls, idleVars, IInv, QuietIsIdle, FlushOnlyWhenIdle,
     DelayIsEarned
<1>2. CountIsRun'
  BY DEF Controls, LineCount, IInv, TypeOK, CountersOK, CountIsRun, Smaller
<1> QED BY <1>1, <1>2

LEMMA OthersKeep ==
  ASSUME IInv, ButtonReset \/ Reset \/ Leave \/ Return \/ Start \/ Outside
  PROVE  QuietIsIdle' /\ FlushOnlyWhenIdle' /\ DelayIsEarned' /\ CountIsRun'
<1> USE DEF IInv, TypeOK, DelayOK, CountersOK, QuietIsIdle, FlushOnlyWhenIdle,
    DelayIsEarned, CountIsRun, Smaller
<1>1. CASE ButtonReset
  <2>1. /\ UNCHANGED <<idleVars, flush, sinceBusy, failing>>
        /\ resetCount' = 0 /\ lineRun' = 0
    BY <1>1 DEF ButtonReset
  <2> QED BY <2>1 DEF idleVars
<1>2. CASE Reset BY <1>2 DEF Reset, buttonVars
<1>3. CASE Leave BY <1>3 DEF Leave
<1>4. CASE Start BY <1>4 DEF Start
<1>5. CASE Return BY <1>5 DEF Return, idleVars, history
<1>6. CASE Outside BY <1>6 DEF Outside, idleVars, buttonVars, history
<1> QED BY <1>1, <1>2, <1>3, <1>4, <1>5, <1>6

-----------------------------------------------------------------------------

LEMMA InitIInv == Init => IInv
BY InitTypes DEF Init, IInv, QuietIsIdle, FlushOnlyWhenIdle, DelayIsEarned,
   CountIsRun, Smaller

LEMMA NextKeeps == IInv /\ [Next]_vars => IInv'
<1> SUFFICES ASSUME IInv, [Next]_vars PROVE IInv' OBVIOUS
<1>1. ASSUME NEW access \in Accesses, NEW atn \in BOOLEAN, Run(access, atn)
      PROVE  IInv'
  BY <1>1, RunTypes, RunKeeps DEF IInv
<1>2. ASSUME NEW quit \in Quits, Controls(quit)
      PROVE  IInv'
  BY <1>2, ControlsTypes, ControlsKeep DEF IInv
<1>3. CASE ButtonReset \/ Reset \/ Leave \/ Return \/ Start \/ Outside
  BY <1>3, OtherTypes, OthersKeep DEF IInv
<1>4. CASE UNCHANGED vars
  BY <1>4 DEF vars, IInv, TypeOK, DelayOK, CountersOK, FlagsOK, NamesOK,
     QuietIsIdle, FlushOnlyWhenIdle, DelayIsEarned, CountIsRun, idleVars,
     buttonVars, diskVars, outside, history
<1> QED BY <1>1, <1>2, <1>3, <1>4 DEF Next, Loop

LEMMA InitOfLoop == EmulatorInit => Init
BY DEF EmulatorInit

LEMMA StepOfLoop == [EmulatorNext]_allVars => [Next]_vars
<1> USE DEF Next
<1>1. ASSUME NEW keys, NEW buttons, NEW late, Browse(keys, buttons, late)
      PROVE  [Next]_vars
  BY <1>1 DEF Browse
<1>2. CASE Emulate BY <1>2 DEF Emulate
<1>3. ASSUME NEW autoload, EmulationEnds(autoload)
      PROVE  [Next]_vars
  BY <1>3 DEF EmulationEnds
<1>4. CASE Media BY <1>4 DEF Media
<1>5. CASE Surroundings BY <1>5 DEF Surroundings
<1>6. CASE UNCHANGED allVars BY <1>6 DEF allVars
<1> QED BY <1>1, <1>2, <1>3, <1>4, <1>5, <1>6 DEF EmulatorNext

\* Whatever the user does in the browser, and whichever images it mounts, core
\* 1 runs the loop as EmulationLoop has it: emulator() enters it at its start,
\* leaves it at its end and does nothing to it in between.
THEOREM EmulatorRunsTheLoop == EmulatorSpec => Spec
BY InitOfLoop, StepOfLoop, PTL DEF EmulatorSpec, Spec

LEMMA Inductive == EmulatorSpec => []IInv
BY EmulatorRunsTheLoop, InitIInv, NextKeeps, PTL DEF Spec

\* The variables of the loop keep their types: the delay stays between its
\* bounds and no idle drive waits longer than it.
THEOREM TypeCorrect == EmulatorSpec => []TypeOK
BY Inductive, PTL DEF IInv

\* No idle flush goes to the card before FLUSH_IDLE_LOOPS iterations without
\* an access and with ATN released, and the delay before one is longer than
\* usual only after a flush of this emulation has failed.
THEOREM FlushesAreIdle == EmulatorSpec => []FlushesAreEarned
BY Inductive, PTL DEF IInv, FlushesAreEarned

LEMMA StepsAreMeant ==
  ASSUME IInv, [Next]_vars, pc = "controls", pc' = "reset"
  PROVE  ResetReleased \/ lineRun' > ResetLoops
<1>1. CASE ButtonReset BY <1>1 DEF ButtonReset
<1>2. ASSUME NEW quit \in Quits, Controls(quit)
      PROVE  lineRun' > ResetLoops
  <2>1. LineCount > ResetLoops
    BY <1>2 DEF Controls
  <2> QED
    BY <1>2, <2>1 DEF Controls, LineCount, IInv, TypeOK, CountersOK,
       CountIsRun, Smaller
<1>3. pc' = pc \/ pc' # "reset" \/ ButtonReset \/ Start
      \/ \E quit \in Quits : Controls(quit)
  BY DEF Next, Loop, Run, Reset, Leave, Return, Outside, vars
<1> QED BY <1>1, <1>2, <1>3 DEF Start

\* The drive is reset by the RESET button or by a reset line that was held.
THEOREM ResetsAreMeant == EmulatorSpec => ResetIsMeant
<1>1. IInv /\ [Next]_vars
      => [pc = "controls" /\ pc' = "reset"
          => ResetReleased \/ lineRun' > ResetLoops]_vars
  BY StepsAreMeant
<1> QED BY Inductive, EmulatorRunsTheLoop, <1>1, PTL DEF Spec, ResetIsMeant

==============================================================================
