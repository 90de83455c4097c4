------------------------------ MODULE UsbHost ------------------------------
(***************************************************************************)
(* The host controller driver of the USPi library (uspi/lib/dwhcidevice.c) *)
(* with its transfer stages, frame schedulers, endpoints and requests, and *)
(* the kernel timers (src/rpi/timer.c) it waits with.                      *)
(*                                                                         *)
(* Two parties submit requests: the main program, which waits for each     *)
(* stage in a loop, and the completion routine of the keyboard, which      *)
(* submits the next request from the interrupt.  Every channel works on    *)
(* one stage.  An interrupt of a channel brings what the controller says   *)
(* of the last transaction (the answer); the module that extends this one  *)
(* says which answers the device on the other end can give.                *)
(*                                                                         *)
(* The registers of a channel are abstracted to what was programmed: the   *)
(* stage, and whether the controller has to be stopped first.  A frame     *)
(* scheduler only delays the start of a transaction to the right frame.    *)
(***************************************************************************)
EXTENDS Integers, FiniteSets, FiniteSetsExt

CONSTANTS
  Endpoints,    \* pairs of a device and "control", "in", "out" or "int"
  SplitEps,     \* those of devices that are not high speed, behind the hub
  NChannels,    \* m_nChannels
  StillEnabled, \* bound: the channels a transaction may find enabled
  KERNEL_TIMERS,
  MaxFaults     \* bound: how often something goes wrong

ASSUME UsbHostAssumption ==
  /\ SplitEps \subseteq Endpoints
  /\ NChannels \in Nat \ {0} /\ StillEnabled \subseteq 0 .. NChannels - 1 /\ KERNEL_TIMERS \in Nat \ {0}
  /\ MaxFaults \in Nat

VARIABLES
  chan,      \* m_pStageData and m_nChannelAllocated: the stage of a channel
  nextPID,   \* m_NextPID of an endpoint
  waiting,   \* m_bWaiting
  urb,       \* m_bStatus of the request the main program waits for, and
             \* whether its result is as long as the buffer
  slots,     \* m_KernelTimer: whose handler a slot has
  faults

hostVars == <<chan, nextPID, waiting, urb, slots, faults>>

Channels == 0 .. NChannels - 1
Slots == 1 .. KERNEL_TIMERS
Idle == [state |-> "idle"]
Periodic(e) == e[2] = "int"

\* A transfer stage of n packets.
Stage(e, in, status, n) ==
  [ep |-> e, in |-> in, status |-> status, left |-> n, tries |-> 0,
   state |-> IF e \in SplitEps THEN "startSplit" ELSE "noSplit",
   sub |-> "transaction"]

\* The packet identifier a transaction starts with.
PID(s) == IF s.status THEN "data1" ELSE nextPID[s.ep]

Toggle(pid) == IF pid = "data0" THEN "data1" ELSE "data0"

\* A mutant: the toggle flips once for a stage, however many its packets are.
SkipPIDOnce(s, n) ==
  IF s.status THEN "setup" ELSE IF nextPID[s.ep] = "setup" THEN "data1" ELSE Toggle(nextPID[s.ep])

\* USBEndpointSkipPID.
SkipPID(s, n) ==
  IF s.status THEN "setup"
  ELSE IF nextPID[s.ep] = "setup" THEN "data1"
  ELSE IF n % 2 = 1 THEN Toggle(nextPID[s.ep]) ELSE nextPID[s.ep]

\* StartTransaction.  A channel the controller has not yet given back has to
\* be disabled first, and is started by the interrupt that says it is.
Started(c, s) ==
  {[s EXCEPT !.sub = "transaction"]}
    \cup (IF c \in StillEnabled THEN {[s EXCEPT !.sub = "disable"]} ELSE {})

\* TransferStageAsync takes the first free channel.
FreeChannels(ch) == {c \in Channels : ch[c] = Idle}
Submit(ch, s) ==
  LET c == Min(FreeChannels(ch)) IN \E t \in Started(c, s) : chan' = [ch EXCEPT ![c] = t]

\* TransferStage, up to the loop that waits.
TransferStage(s) ==
  IF FreeChannels(chan) = {}
    THEN /\ waiting' = FALSE
         /\ urb' = [urb EXCEPT !.status = FALSE]
         /\ UNCHANGED chan
    ELSE /\ Submit(chan, s)
         /\ waiting' = TRUE
         /\ UNCHANGED urb

-----------------------------------------------------------------------------
(* The kernel timers. *)

\* The handler of a slot: that of a channel, or of the repeat of a key.
NoHandler == -1
Repeat == -2

FreeSlots(sl) == {i \in Slots : sl[i] = NoHandler}

\* TimerStartKernelTimer: the first free slot, or the timer is not started.
StartTimer(sl, h) ==
  IF FreeSlots(sl) = {} THEN sl ELSE [sl EXCEPT ![Min(FreeSlots(sl))] = h]

CancelTimer(sl, i) == [sl EXCEPT ![i] = NoHandler]

-----------------------------------------------------------------------------
(* The interrupt of a channel.  An answer is [st, n, full]: "halted" (and  *)
(* nothing else), "error", "nak", "nyet", "ack" or "done" with n packets   *)
(* moved; full says that they are as long as they were asked to be.        *)

\* Mutants of Finish: the channel is not given back after an error; the keyboard
\* stops asking after one.
FinishAndKeep(c, ok, full) ==
  LET s == chan[c]
      freed == IF ok THEN [chan EXCEPT ![c] = Idle] ELSE chan
  IN IF Periodic(s.ep)
       THEN Submit(freed, Stage(s.ep, TRUE, FALSE, 1)) /\ UNCHANGED <<waiting, urb>>
       ELSE /\ chan' = freed
            /\ waiting' = FALSE
            /\ urb' = [status |-> ok, full |-> IF ok /\ ~s.status THEN full ELSE urb.full]

FinishReports(c, ok, full) ==
  LET s == chan[c]
      freed == [chan EXCEPT ![c] = Idle]
  IN IF Periodic(s.ep)
       THEN /\ IF ok THEN Submit(freed, Stage(s.ep, TRUE, FALSE, 1)) ELSE chan' = freed
            /\ UNCHANGED <<waiting, urb>>
       ELSE /\ chan' = freed
            /\ waiting' = FALSE
            /\ urb' = [status |-> ok, full |-> IF ok /\ ~s.status THEN full ELSE urb.full]

\* The stage is over: its channel is free again and the completion routine
\* runs.  That of the keyboard submits its next request.
Finish(c, ok, full) ==
  LET s == chan[c]
      freed == [chan EXCEPT ![c] = Idle]
  IN IF Periodic(s.ep)
       THEN Submit(freed, Stage(s.ep, TRUE, FALSE, 1)) /\ UNCHANGED <<waiting, urb>>
       ELSE /\ chan' = freed
            /\ waiting' = FALSE
            /\ urb' = [status |-> ok, full |-> IF ok /\ ~s.status THEN full ELSE urb.full]

Restart(c, s) ==
  /\ \E t \in Started(c, s) : chan' = [chan EXCEPT ![c] = t]
  /\ UNCHANGED <<waiting, urb>>

\* The endpoint has nothing to say: ask again when the interval is over.
Delay(c, s) == chan' = [chan EXCEPT ![c] = [s EXCEPT !.state = "delay"]] /\ UNCHANGED <<waiting, urb>>

\* TransactionComplete counts what was moved, in a split only when it is
\* completed.  Nothing is counted with an error, a NAK or a NYET.
Counts(s, a) == a.st = "done" /\ s.state # "startSplit"
Counted(s, a) == IF Counts(s, a) THEN [s EXCEPT !.left = @ - a.n] ELSE s
CountPID(s, a) ==
  nextPID' = IF Counts(s, a) THEN [nextPID EXCEPT ![s.ep] = SkipPID(s, a.n)] ELSE nextPID

NoSplitAnswer(c, s, a) ==
  CASE a.st = "error" -> Finish(c, FALSE, FALSE)
    [] a.st = "nak" /\ Periodic(s.ep) -> Delay(c, s)
    [] OTHER -> Finish(c, TRUE, a.full)

\* How often a split that was started is asked for its result: on a periodic
\* endpoint it depends on the frame.
PeriodicTries == {2, 3}
NonPeriodicTries == {3}
SplitTries(s) == IF Periodic(s.ep) THEN PeriodicTries ELSE NonPeriodicTries

StartSplitAnswer(c, s, a) ==
  IF a.st \in {"error", "nak", "nyet"} THEN Finish(c, FALSE, FALSE)
  ELSE \E t \in SplitTries(s) : Restart(c, [s EXCEPT !.state = "completeSplit", !.tries = t])

\* The scheduler gives up after its tries, on a periodic endpoint at the
\* first NAK; then the split cycle begins again.
NonPeriodicGivesUp(s) == s.tries = 0
PeriodicGivesUp(s, a) == s.tries = 0 \/ a.st = "nak"
GivesUp(s, a) == IF Periodic(s.ep) THEN PeriodicGivesUp(s, a) ELSE NonPeriodicGivesUp(s)
BeginSplitCycle(s) == [s EXCEPT !.state = "startSplit", !.tries = 0]

CompleteSplitAnswer(c, s, a) ==
  CASE a.st = "error" -> Finish(c, FALSE, FALSE)
    [] a.st \notin {"done", "error"} /\ ~GivesUp(s, a) -> Restart(c, [s EXCEPT !.tries = @ - 1])
    [] a.st = "done" /\ s.left = 0 -> Finish(c, TRUE, a.full)
    [] OTHER -> IF Periodic(s.ep) THEN Delay(c, BeginSplitCycle(s)) ELSE Restart(c, BeginSplitCycle(s))

\* DWHCIDeviceChannelInterruptHandler.  One that only says the channel was
\* halted either ends the wait for that, or starts the transaction again.  A
\* stage that has to wait starts a timer; sl are the timers after what the
\* completion routine did to them.
ChannelInterrupt(c, a, sl) ==
  LET s == chan[c]
      t == Counted(s, a)
  IN /\ CASE s.sub = "disable" ->
               /\ a.st = "halted"
               /\ chan' = [chan EXCEPT ![c].sub = "transaction"]
               /\ UNCHANGED <<nextPID, waiting, urb>>
          [] s.sub # "disable" /\ a.st = "halted" -> Restart(c, s) /\ UNCHANGED nextPID
          [] OTHER ->
               /\ CountPID(s, a)
               /\ CASE s.state = "noSplit" -> NoSplitAnswer(c, t, a)
                    [] s.state = "startSplit" -> StartSplitAnswer(c, t, a)
                    [] s.state = "completeSplit" -> CompleteSplitAnswer(c, t, a)
     /\ slots' = IF chan'[c].state = "delay" THEN StartTimer(sl, c) ELSE sl

\* DWHCIDeviceTimerHandler, from TimerPollKernelTimers: the interval is over.
DelayIsOver(i) ==
  /\ slots[i] \in Channels
  /\ LET c == slots[i]
         state == IF chan[c].ep \in SplitEps THEN "startSplit" ELSE "noSplit"
     IN Restart(c, [chan[c] EXCEPT !.state = state])
  /\ slots' = CancelTimer(slots, i)
  /\ UNCHANGED <<nextPID, faults>>

HostInit ==
  /\ chan = [c \in Channels |-> Idle]
  /\ nextPID = [e \in Endpoints |-> IF e[2] = "control" THEN "setup" ELSE "data0"]
  /\ waiting = FALSE
  /\ urb = [status |-> FALSE, full |-> FALSE]
  /\ slots = [i \in Slots |-> NoHandler]
  /\ faults = 0
=============================================================================
