------------------------------- MODULE UsbBus -------------------------------
(***************************************************************************)
(* What the main program does with the host controller (module UsbHost):   *)
(* it finds the devices behind the hub (dwhcirootport.c, usbdevice.c,      *)
(* usbstring.c, usbstandardhub.c), configures a stick (usbmassdevice.c)    *)
(* and a keyboard (usbkeyboard.c, src/ui/keyboard.cpp), and then reads and *)
(* writes sectors of the stick with retries and resets.                    *)
(*                                                                         *)
(* The main program is a sequence of messages: control messages and the    *)
(* commands of the Bulk-Only Transport.  A message is a sequence of stages *)
(* (Stages), and Follow says what follows it.  The devices are parties of  *)
(* their own (Reply): each has its address and its toggles, the stick also *)
(* the phase, tag and place of its command.  A fault spoils a transaction  *)
(* before or after the device has acted on it.                             *)
(***************************************************************************)
EXTENDS UsbHost, Sequences

CONSTANTS
  Plugged,    \* what is plugged into each port of the hub: "none", "stick",
              \* "keyboard", "other" or "broken" (with a descriptor that is not valid)
  EpNumbers,  \* the numbers of the stick's endpoints, fields in and out
  Strict,     \* the stick refuses requests for endpoints it does not have
  Named,      \* the devices that have a product string
  Sectors,
  MaxSpin,    \* bound: how often the stick may not be ready
  MaxCalls,   \* bound: how often sectors are read or written
  MaxKeys     \* bound: how often a key goes up or down

Ports == DOMAIN Plugged
Hub == 0
Devices == Ports \cup {Hub}
Kind(d) == IF d = Hub THEN "hub" ELSE Plugged[d]

ASSUME UsbBusAssumption ==
  /\ IsFiniteSet(Ports) /\ Ports # {} /\ Ports = 1 .. Cardinality(Ports)
  /\ Endpoints = Devices \X {"control", "in", "out", "int"}
  /\ IsFiniteSet(Sectors) /\ Sectors = 0 .. Cardinality(Sectors) - 1
  /\ MaxSpin \in Nat /\ MaxCalls \in Nat /\ MaxKeys \in Nat

\* The devices USBDeviceFactoryGetDevice knows.  The main program uses one of each.
Supported == {"stick", "keyboard"}
ASSUME OneOfEach ==
  \A p, q \in Ports : Plugged[p] = Plugged[q] /\ Plugged[p] \in Supported => p = q

\* There are 20.
ASSUME TimersAssumption == KERNEL_TIMERS >= 2

READ_TRIES == 4
READY_TRIES == 3      \* 100 in the code

VARIABLES
  main,     \* the message the main program is at, the device or port it is
            \* for, a number in it, its stage, and whether all its data came
  call,     \* what is read or written, the tries left, and the buffer
  last,     \* what the last call was and whether it succeeded
  host,     \* m_ucAddress of the objects of devices, s_ucNextAddress, the
            \* devices that are initialised, those that have a name, and m_nCWBTag
  real,     \* the devices
  disk,     \* the sectors of the stick
  keys,     \* whether a key is down; keyStatus and timer of class Keyboard
  bound     \* how many calls and keys there were

vars == <<hostVars, main, call, last, host, real, disk, keys, bound>>

\* Every sector holds something of its own until new data is written.
NewData == -1

Nobody == -1
PortOf(kind) ==
  IF \E p \in Ports : Plugged[p] = kind THEN CHOOSE p \in Ports : Plugged[p] = kind ELSE Nobody
Stick == PortOf("stick")
Kbd == PortOf("keyboard")
Reports == <<Kbd, "int">>

-----------------------------------------------------------------------------
(* Messages. *)

ControlIn == {"desc8", "desc", "langid", "string", "strings", "conf9", "conf",
              "hubDesc", "status", "status2", "hubStatus", "portStatus"}
ControlOut == {"address", "setConf", "power", "reset", "unpower", "unpowerAll",
               "protocol", "mscReset", "halt1", "halt2"}
\* Commands to the stick that bring data, take data, and do neither.
CommandIn == {"inquiry", "sense", "capacity", "read"}
CommandOut == {"write"}

\* Messages about a port go to the hub.
HubMessage == {"hubDesc", "status", "status2", "hubStatus", "portStatus",
               "power", "reset", "unpower", "unpowerAll"}

Message(at, dev, i) == [at |-> at, dev |-> dev, i |-> i, k |-> 1, all |-> TRUE]
Rest == Message("up", Hub, 0)

\* A slow device takes the long descriptors in two packets; a call moves n
\* sectors, one in a packet.
Packets(m) ==
  CASE m.at \in {"desc", "conf"} /\ <<m.dev, "control">> \in SplitEps -> 2
    [] m.at \in {"read", "write"} -> call.n
    [] OTHER -> 1

\* The stages of DWHCIDeviceSubmitBlockingRequest, those of the transfers of
\* a command one after the other.
Stages(m) ==
  LET d == IF m.at \in HubMessage THEN Hub ELSE m.dev
      setup == Stage(<<d, "control">>, FALSE, FALSE, 1)
      data == Stage(<<d, "control">>, TRUE, FALSE, Packets(m))
      status(in) == Stage(<<d, "control">>, in, TRUE, 1)
      cbw == Stage(<<d, "out">>, FALSE, FALSE, 1)
      csw == Stage(<<d, "in">>, TRUE, FALSE, 1)
  IN CASE m.at \in ControlIn -> <<setup, data, status(FALSE)>>
       [] m.at \in ControlOut -> <<setup, status(TRUE)>>
       [] m.at \in CommandIn -> <<cbw, Stage(<<d, "in">>, TRUE, FALSE, Packets(m)), csw>>
       [] m.at \in CommandOut -> <<cbw, Stage(<<d, "out">>, FALSE, FALSE, Packets(m)), csw>>
       [] OTHER -> <<cbw, csw>>

-----------------------------------------------------------------------------
(* The devices.  Reply is what a device makes of a transaction: the answer *)
(* when all is well, and the devices and the sectors after it.  A device   *)
(* that only says NAK makes the controller try on: there is no answer.     *)

NewReal == [on |-> FALSE, addr |-> 0, req |-> "none", tin |-> "data0", tout |-> "data0",
            int |-> "data0", told |-> FALSE, phase |-> "cbw", cmd |-> "none", tag |-> 0, pos |-> 0,
            spin |-> 0]

Ack == [st |-> "ack", n |-> 0, full |-> FALSE]
Done(n) == [st |-> "done", n |-> n, full |-> TRUE]
Says(st) == [st |-> st, n |-> 0, full |-> FALSE]

\* An answer with the devices and the sectors as they are, with device d as r.
\* The data that come with it are those of sectors.
Just(a) == [a |-> a, real |-> real, disk |-> disk, data |-> <<>>]
And(a, d, r) == [Just(a) EXCEPT !.real[d] = r]

\* What a request does when its status stage is reached.  CLEAR_FEATURE names
\* an output endpoint, as bit 7 is not set.
Effect(d) ==
  LET r == real[d]
      p == main.dev
      unhalted(n) == IF EpNumbers.out = n THEN And(Done(1), d, [r EXCEPT !.tout = "data0"]) ELSE Just(Done(1))
  IN CASE main.at = "address" -> And(Done(1), d, [r EXCEPT !.addr = main.i])
       [] main.at = "reset" -> And(Done(1), p, [NewReal EXCEPT !.on = TRUE])
       [] main.at \in {"unpower", "unpowerAll"} -> And(Done(1), p, [real[p] EXCEPT !.on = FALSE])
       [] main.at = "mscReset" -> And(Done(1), d, [r EXCEPT !.phase = "cbw", !.cmd = "none"])
       [] main.at = "halt1" -> unhalted(1)
       [] main.at = "halt2" -> unhalted(2)
       [] OTHER -> Just(Done(1))

Refuses(d) ==
  /\ Strict /\ Kind(d) = "stick"
  /\ (main.at = "halt1" /\ EpNumbers.out # 1) \/ (main.at = "halt2" /\ EpNumbers.out # 2)

\* The packets of one transaction: a split moves one.
Moves(s) == IF s.ep \in SplitEps THEN 1 ELSE s.left
Flipped(t, n) == IF n % 2 = 1 THEN Toggle(t) ELSE t

\* A stage of a control message.  Only a SETUP packet opens one.
ControlReply(s, d) ==
  CASE main.k = 1 /\ PID(s) = "setup" -> And(Done(1), d, [real[d] EXCEPT !.req = main.at])
    [] main.k > 1 /\ real[d].req = main.at /\ ~s.status -> Just(Done(Moves(s)))
    [] main.k > 1 /\ real[d].req = main.at /\ s.status /\ ~Refuses(d) -> Effect(d)
    [] OTHER -> Just(Says("error"))

\* A command moves the sectors from pos on, up to the last.
Left(r) == IF r.cmd \in {"read", "write"} THEN Cardinality(Sectors) - r.pos ELSE 1
SectorsAt(at, n) == [j \in 1 .. n |-> disk[at + j - 1]]

\* The stick has moved n packets of the data of a command.
DataMoved(r, n) == [r EXCEPT !.pos = @ + n, !.phase = IF n = Left(r) THEN "csw" ELSE "data"]

\* n of the packets of a stage to the stick.  What comes with the other toggle
\* it takes for what it already has; what it does not expect it halts for.  A
\* stick that is not ready says so in the status.
OutReply(s, d, n) ==
  LET took(k) == [real[d] EXCEPT !.tout = Flipped(@, k)]
      r == took(n)
      slow == main.at = "ready" /\ r.spin > 0
      phase == IF slow THEN "failed" ELSE IF main.at = "ready" THEN "csw" ELSE "data"
      write(k) == [And(Done(k), d, DataMoved(took(k), k)) EXCEPT
                     !.disk = [x \in Sectors |-> IF x \in r.pos .. r.pos + k - 1 THEN NewData ELSE @[x]]]
      writes == r.phase = "data" /\ r.cmd = "write" /\ main.k = 2
  IN IF PID(s) # real[d].tout THEN Just(Done(n))
     ELSE CASE r.phase = "cbw" /\ main.k = 1 ->
                 And(Done(n), d, [r EXCEPT !.phase = phase, !.cmd = main.at, !.tag = host.tag, !.pos = call.at,
                                           !.spin = IF slow THEN @ - 1 ELSE @])
            [] writes /\ n <= Left(r) -> write(n)
            [] writes /\ n > Left(r) -> [write(Left(r)) EXCEPT !.a = Says("error")]
            [] OTHER -> Just(Says("error"))

\* n of the packets of a stage from the stick.  The host does not take a
\* packet that comes with the other toggle and stops, and the stick takes it
\* for sent.  The status of a command has its tag, and is too short for data.
InReply(s, d, n) ==
  LET r == real[d]
      took(k) == [r EXCEPT !.tin = Flipped(@, k)]
      isData == r.phase = "data" /\ r.cmd # "write"
      isStatus == r.phase \in {"csw", "failed"}
      sent(k) == IF isData THEN DataMoved(took(k), k) ELSE [took(1) EXCEPT !.phase = "cbw"]
      wanted == IF isData THEN main.k = 2 ELSE main.k = Len(Stages(main)) /\ r.phase = "csw" /\ r.tag = host.tag
      data == IF isData /\ r.cmd = "read" THEN SectorsAt(r.pos, n) ELSE <<>>
  IN IF ~isData /\ ~isStatus THEN Just(Says("silent"))
     ELSE IF PID(s) # r.tin THEN And(Says("error"), d, sent(1))
     ELSE IF isData /\ n > Left(r) THEN And(Says("error"), d, sent(Left(r)))
     ELSE [And([Done(IF isData THEN n ELSE 1) EXCEPT !.full = wanted], d, sent(n)) EXCEPT !.data = data]

\* The keyboard has something to say when the key went up or down.
KeyReply(s, d) ==
  LET r == [real[d] EXCEPT !.int = Toggle(@), !.told = keys.held]
  IN IF keys.held = real[d].told THEN Just(Says("nak"))
     ELSE And(IF PID(s) = real[d].int THEN Done(1) ELSE Says("error"), d, r)

\* A transaction is answered if one device has the address.
ReplyTo(s, n) ==
  LET who == {x \in Devices : real[x].on /\ real[x].addr = host.addr[s.ep[1]]}
      d == CHOOSE x \in who : TRUE
  IN IF Cardinality(who) # 1 THEN Just(Says("error"))
     ELSE CASE s.ep[2] = "control" -> ControlReply(s, d)
            [] s.ep[2] = "out" -> OutReply(s, d, n)
            [] s.ep[2] = "in" -> InReply(s, d, n)
            [] s.ep[2] = "int" -> KeyReply(s, d)
Reply(s) == ReplyTo(s, Moves(s))

\* The answers a stage can get without a fault, and with one: the controller
\* halts the channel, the hub has no result yet, or the transaction is spoilt:
\* before the device has seen it, behind one of the packets, or when all that
\* is missing is that the device has got it.
Answers(s) ==
  IF s.sub = "disable" THEN {Just(Says("halted"))}
  ELSE IF s.state = "startSplit" THEN {Just(Ack)}
  ELSE {r \in {Reply(s)} : r.a.st # "silent"}

Spoilt(s) ==
  {Just(Says(x)) : x \in {"halted", "error"}}
    \cup (IF s.state = "completeSplit" THEN {Just(Says("nyet"))} ELSE {})
    \cup (IF s.state # "startSplit" /\ (~s.in \/ s.status) THEN {[Reply(s) EXCEPT !.a = Says("error")]} ELSE {})
    \cup (IF s.state = "noSplit" THEN {[ReplyTo(s, n) EXCEPT !.a = Says("error")] : n \in 1 .. s.left - 1} ELSE {})

-----------------------------------------------------------------------------
(* The interrupts. *)

\* KeyPressedHandlerRaw and USBKeyboardDeviceTimerHandler of class Keyboard:
\* the repeat timer runs while a key is down.  A report that comes before
\* there is a Keyboard object is for the library's own handlers.
HasKeyboard == main.at \in {"up", "read", "write", "mscReset", "halt1", "halt2"} /\ Kbd \in host.names

WithTimer(ks, sl) ==
  [slots |-> StartTimer(sl, Repeat),
   keys |-> [ks EXCEPT !.timer = IF FreeSlots(sl) = {} THEN 0 ELSE Min(FreeSlots(sl))]]

KeyPressedHandlerRaw ==
  LET ks == [keys EXCEPT !.status = keys.held]
  IN CASE keys.held /\ keys.timer = 0 -> WithTimer(ks, slots)
       [] ~keys.held /\ keys.timer # 0 ->
            [slots |-> CancelTimer(slots, keys.timer), keys |-> [ks EXCEPT !.timer = 0]]
       [] OTHER -> [slots |-> slots, keys |-> ks]

RepeatTimer(i) ==
  LET idle == [keys EXCEPT !.timer = 0]
      freed == CancelTimer(slots, i)
      next == IF keys.status THEN WithTimer(idle, freed) ELSE [slots |-> freed, keys |-> idle]
  IN /\ slots[i] = Repeat
     /\ slots' = next.slots /\ keys' = next.keys
     /\ UNCHANGED <<chan, nextPID, waiting, urb, faults, main, call, last, host, real, disk, bound>>

\* A channel has something to say.
Interrupt(c) ==
  LET s == chan[c]
      isReport(r) == s.ep = Reports /\ s.state # "startSplit" /\ r.a.st = "done"
  IN /\ s # Idle /\ s.state # "delay"
     /\ \E spoil \in (IF faults < MaxFaults /\ s.sub # "disable" THEN BOOLEAN ELSE {FALSE}) :
          \E r \in IF spoil THEN Spoilt(s) ELSE Answers(s) :
            LET handled == IF isReport(r) /\ HasKeyboard THEN KeyPressedHandlerRaw
                           ELSE [slots |-> slots, keys |-> keys]
            IN /\ ChannelInterrupt(c, r.a, handled.slots)
               /\ keys' = handled.keys
               /\ real' = r.real /\ disk' = r.disk
               /\ call' = IF Counts(s, r.a) THEN [call EXCEPT !.buf = @ \o r.data] ELSE call
               /\ faults' = IF spoil THEN faults + 1 ELSE faults
     /\ UNCHANGED <<main, last, host, bound>>

-----------------------------------------------------------------------------
(* The main program.  Follow is what it does after a message: ok says that *)
(* the message succeeded, over that a port or the hub has an over-current. *)

\* USBStandardHubEnumeratePorts: configure the devices from p on, detect those
\* at the ports from p on, and look at the ports from p on again.
ConfigureFrom(p, found) ==
  LET todo == {q \in found \ {Hub} : q >= p /\ Plugged[q] \in Supported}
  IN IF todo = {} THEN Message("hubStatus", Hub, 0) ELSE Message("setConf", Min(todo), 0)
Detect(p, found) == IF p \in Ports THEN Message("status", p, 0) ELSE ConfigureFrom(1, found)
CheckFrom(p) == IF p \in Ports THEN Message("portStatus", p, 0) ELSE Rest

\* USBConfigurationParser finds nothing wrong with the descriptor.
IsValid(d) == Kind(d) # "broken"

\* The language and the name of a device; whether they come does not matter.
ReadStrings(m, ok) ==
  CASE m.at = "langid" -> Message("string", m.dev, 0)
    [] m.at = "string" /\ ok -> Message("strings", m.dev, 0)
    [] OTHER -> Message("conf9", m.dev, 0)

\* The device could not be initialised.
Lost(m) == IF m.dev = Hub THEN Rest ELSE Detect(m.dev + 1, host.found)

Initialize(m, ok) ==
  LET go(at) == Message(at, m.dev, 0)
  IN IF m.at \in {"langid", "string", "strings"} THEN ReadStrings(m, ok)
     ELSE IF ~ok \/ (m.at = "conf" /\ ~IsValid(m.dev)) THEN Lost(m)
     ELSE CASE m.at = "desc8" -> go("desc")
            [] m.at = "desc" -> Message("address", m.dev, host.next)
            [] m.at = "address" -> go(IF m.dev \in Named THEN "langid" ELSE "conf9")
            [] m.at = "conf9" -> go("conf")
            [] m.at = "conf" -> IF m.dev = Hub THEN go("setConf") ELSE Detect(m.dev + 1, host.found \cup {m.dev})

EnumeratePorts(m, ok, over) ==
  LET p == m.dev
      go(at) == Message(at, p, 0)
  IN CASE m.at = "hubDesc" -> IF ok THEN Message("power", 1, 0) ELSE Rest
       [] m.at = "power" -> IF ~ok THEN Rest ELSE IF p + 1 \in Ports THEN Message("power", p + 1, 0)
                            ELSE Detect(1, host.found)
       [] m.at = "status" -> IF ok /\ Plugged[p] # "none" THEN go("reset") ELSE Detect(p + 1, host.found)
       [] m.at = "reset" -> IF ok THEN go("status2") ELSE Detect(p + 1, host.found)
       [] m.at = "status2" -> IF ~ok THEN Rest ELSE IF ~real[p].on THEN Detect(p + 1, host.found)
                              ELSE IF over THEN go("unpower") ELSE go("desc8")
       [] m.at = "hubStatus" -> IF ~ok THEN Rest ELSE IF over THEN Message("unpowerAll", 1, 0) ELSE CheckFrom(1)
       [] m.at = "unpowerAll" -> IF p + 1 \in Ports THEN Message("unpowerAll", p + 1, 0) ELSE Rest
       [] m.at = "portStatus" -> IF ok /\ over THEN Message("unpower", p, 1) ELSE CheckFrom(p + 1)
       [] m.at = "unpower" -> IF m.i = 1 THEN CheckFrom(p + 1) ELSE Rest

\* The Configure methods of the hub, the keyboard and the stick.
ConfigureHub(ok) == IF ok THEN Message("hubDesc", Hub, 0) ELSE Rest

ConfigureKeyboard(m, ok) ==
  IF ok /\ m.at = "setConf" THEN Message("protocol", m.dev, 0) ELSE ConfigureFrom(m.dev + 1, host.found)

ConfigureStick(m, ok) ==
  LET go(at) == Message(at, m.dev, m.i)
      next == ConfigureFrom(m.dev + 1, host.found)
  IN IF ~ok THEN (IF m.at = "ready" THEN go("sense") ELSE next)
     ELSE CASE m.at = "setConf" -> go("inquiry")
            [] m.at = "inquiry" -> Message("ready", m.dev, READY_TRIES - 1)
            [] m.at = "ready" -> go("capacity")
            [] m.at = "sense" -> IF m.i > 1 THEN Message("ready", m.dev, m.i - 1) ELSE next
            [] m.at = "capacity" -> next

Configure(m, ok) ==
  CASE Kind(m.dev) = "hub" -> ConfigureHub(ok)
    [] Kind(m.dev) = "keyboard" -> ConfigureKeyboard(m, ok)
    [] Kind(m.dev) = "stick" -> ConfigureStick(m, ok)

\* USBBulkOnlyMassStorageDeviceReset, and what called it.
ResetStick(m, ok) ==
  IF ~ok THEN Rest
  ELSE CASE m.at = "mscReset" -> Message("halt1", Stick, 0)
         [] m.at = "halt1" -> Message("halt2", Stick, 0)
         [] m.at = "halt2" -> IF call.tries > 1 THEN Message(call.op, Stick, 0) ELSE Rest

ReadOrWrite(m, ok) ==
  IF m.at = call.op THEN (IF ok THEN Rest ELSE Message("mscReset", Stick, 0)) ELSE ResetStick(m, ok)

Initializing == {"desc8", "desc", "address", "langid", "string", "strings", "conf9", "conf"}
Configuring == {"setConf", "protocol", "inquiry", "ready", "sense", "capacity"}
Calling == {"read", "write", "mscReset", "halt1", "halt2"}

Follow(m, ok, over) ==
  CASE m.at \in Initializing -> Initialize(m, ok)
    [] m.at \in Configuring -> Configure(m, ok)
    [] m.at \in Calling -> ReadOrWrite(m, ok)
    [] OTHER -> EnumeratePorts(m, ok, over)

\* What it leaves in the objects.  The address is taken before it is sent.
ObjectsAfter(m, ok) ==
  CASE m.at = "status2" -> [host EXCEPT !.addr[m.dev] = 0]
    [] m.at = "desc" /\ ok -> [host EXCEPT !.next = @ + 1]
    [] m.at = "address" /\ ok -> [host EXCEPT !.addr[m.dev] = m.i]
    [] m.at = "conf" /\ ok /\ IsValid(m.dev) -> [host EXCEPT !.found = @ \cup {m.dev}]
    [] m.at \in {"protocol", "capacity"} /\ ok -> [host EXCEPT !.names = @ \cup {m.dev}]
    [] OTHER -> host

\* Each command has a tag of its own.
Commands == CommandIn \cup CommandOut \cup {"ready"}
HostAfter(m, ok, next) ==
  LET h == ObjectsAfter(m, ok) IN IF next.at \in Commands THEN [h EXCEPT !.tag = @ + 1] ELSE h

\* A new object of a device begins with a SETUP packet; a reset of the stick
\* resets both its endpoints.
PIDsAfter(m, ok) ==
  CASE m.at = "status2" -> [nextPID EXCEPT ![<<m.dev, "control">>] = "setup"]
    [] m.at = "halt2" /\ ok -> [nextPID EXCEPT ![<<Stick, "in">>] = "data0", ![<<Stick, "out">>] = "data0"]
    [] OTHER -> nextPID


\* An over-current is a fault.
OverCurrents(m) ==
  IF m.at \in {"status2", "hubStatus", "portStatus"} /\ faults < MaxFaults THEN BOOLEAN ELSE {FALSE}

\* A mutant: the second try reads behind what the first has read.
CallGoesOn(m, next) ==
  IF m.at = "halt2" /\ next.at # "up" THEN [call EXCEPT !.tries = @ - 1] ELSE call

\* A call that is given up or done, and one that is tried again.
CallAfter(m, next) ==
  IF m.at = "halt2" /\ next.at # "up" THEN [call EXCEPT !.tries = @ - 1, !.buf = <<>>] ELSE call
LastAfter(m, ok, next) ==
  IF m.at \in Calling /\ next.at = "up"
    THEN [call |-> call, ok |-> ok /\ m.at = call.op] ELSE last

\* Whether the next stage is begun.
StageIsOk == urb.status

\* A stage is over, and with the last one, or one that failed, the message.
\* The keyboard's first request is submitted before what follows begins.
NextStage ==
  /\ main.at \notin {"off", "dead", "up"} /\ ~waiting
  /\ LET all == main.all /\ urb.full
         ok == urb.status /\ all
     IN IF StageIsOk /\ main.k < Len(Stages(main))
          THEN /\ main' = [main EXCEPT !.k = @ + 1, !.all = all]
               /\ TransferStage(Stages(main)[main.k + 1])
               /\ UNCHANGED <<nextPID, faults, call, last, host>>
          ELSE \E over \in OverCurrents(main) :
                 LET next == Follow(main, ok, over)
                     reports == main.at = "protocol" /\ ok
                 IN /\ main' = IF reports THEN [next EXCEPT !.k = 0] ELSE next
                    /\ faults' = IF over THEN faults + 1 ELSE faults
                    /\ host' = HostAfter(main, ok, next)
                    /\ nextPID' = PIDsAfter(main, ok)
                    /\ call' = CallAfter(main, next)
                    /\ last' = LastAfter(main, ok, next)
                    /\ CASE reports -> Submit(chan, Stage(Reports, TRUE, FALSE, 1)) /\ UNCHANGED <<waiting, urb>>
                         [] ~reports /\ next.at = "up" -> UNCHANGED <<chan, waiting, urb>>
                         [] OTHER -> TransferStage(Stages(next)[1])
  /\ UNCHANGED <<slots, real, disk, keys, bound>>

\* DWHCIDeviceInitialize: the core or the host does not come out of its reset
\* in time, and there is no library (what its null pointer is used for then is
\* not modelled); nothing is connected to the root port; or all is well.
CoreFails ==
  /\ main' = [main EXCEPT !.at = "dead"]
  /\ UNCHANGED <<chan, waiting, urb, real>>

NoRootPort == main' = Rest /\ UNCHANGED <<chan, waiting, urb, real>>

RootPort ==
  LET first == Message("desc8", Hub, 0)
  IN /\ main' = first /\ TransferStage(Stages(first)[1])
     /\ real' = [real EXCEPT ![Hub].on = TRUE]

InitializeHost ==
  /\ main.at = "off"
  /\ \/ faults < MaxFaults /\ (CoreFails \/ NoRootPort) /\ faults' = faults + 1
     \/ RootPort /\ UNCHANGED faults
  /\ UNCHANGED <<nextPID, slots, call, last, host, disk, keys, bound>>

Nothing == [op |-> "none", at |-> 0, n |-> 0, tries |-> 0, before |-> 0, buf |-> <<>>]

\* USPiMassStorageDeviceRead and ...Write, of the sectors from one to the last.
Call(op) ==
  /\ main.at = "up" /\ Stick \in host.names /\ bound.calls < MaxCalls
  /\ \E at \in Sectors :
       LET n == Cardinality(Sectors) - at IN
       call' = [op |-> op, at |-> at, n |-> n, tries |-> READ_TRIES, before |-> faults,
                   buf |-> <<>>]
  /\ main' = Message(op, Stick, 0)
  /\ last' = [call |-> Nothing, ok |-> FALSE]
  /\ TransferStage(Stage(<<Stick, "out">>, FALSE, FALSE, 1))
  /\ host' = [host EXCEPT !.tag = @ + 1]
  /\ bound' = [bound EXCEPT !.calls = @ + 1]
  /\ UNCHANGED <<nextPID, slots, faults, real, disk, keys>>

\* Somebody presses a key or lets it go.
Key ==
  /\ Kbd \in host.found /\ bound.keys < MaxKeys
  /\ keys' = [keys EXCEPT !.held = ~@]
  /\ bound' = [bound EXCEPT !.keys = @ + 1]
  /\ UNCHANGED <<hostVars, main, call, last, host, real, disk>>

IntervalIsOver(i) ==
  /\ DelayIsOver(i)
  /\ UNCHANGED <<main, call, last, host, real, disk, keys, bound>>

Init ==
  /\ HostInit
  /\ main = Message("off", Hub, 0)
  /\ call = Nothing /\ last = [call |-> Nothing, ok |-> FALSE]
  /\ host = [addr |-> [d \in Devices |-> 0], next |-> 1, found |-> {}, names |-> {}, tag |-> 0]
  /\ real = [d \in Devices |-> [NewReal EXCEPT !.spin = IF Kind(d) = "stick" THEN MaxSpin ELSE 0]]
  /\ disk = [x \in Sectors |-> x]
  /\ keys = [held |-> FALSE, status |-> FALSE, timer |-> 0]
  /\ bound = [calls |-> 0, keys |-> 0]

Next ==
  \/ InitializeHost \/ NextStage \/ Key
  \/ \E op \in {"read", "write"} : Call(op)
  \/ \E c \in Channels : Interrupt(c)
  \/ \E i \in Slots : IntervalIsOver(i) \/ RepeatTimer(i)

\* The controller answers, the timers elapse, and the main program runs.
Fairness ==
  /\ WF_vars(InitializeHost \/ NextStage)
  /\ \A c \in Channels : WF_vars(Interrupt(c))
  /\ \A i \in Slots : WF_vars(IntervalIsOver(i))

Spec == Init /\ [][Next]_vars /\ Fairness

-----------------------------------------------------------------------------
(* Properties. *)

Stations == {"setup", "data0", "data1"}
TypeOK ==
  /\ \A c \in Channels : chan[c] = Idle \/ (chan[c].ep \in Endpoints /\ chan[c].left \in 0 .. 2)
  /\ nextPID \in [Endpoints -> Stations]
  /\ waiting \in BOOLEAN /\ urb \in [status : BOOLEAN, full : BOOLEAN]
  /\ slots \in [Slots -> Channels \cup {NoHandler, Repeat}]
  /\ faults \in 0 .. MaxFaults
  /\ host.found \subseteq Devices /\ host.names \subseteq Devices
  /\ disk \in [Sectors -> Sectors \cup {NewData}]
  /\ bound.calls \in 0 .. MaxCalls /\ bound.keys \in 0 .. MaxKeys

\* Nothing is lost between the two that submit requests: the main program
\* waits exactly while a channel works for it, the reports of the keyboard
\* have one channel from the first request on, and each delay has one timer
\* of its own (TransferStage, the end of a stage in the interrupt handler,
\* USBKeyboardDeviceCompletionRoutine and the kernel timers).
EveryRequestIsUnderWay ==
  /\ Cardinality({c \in Channels : chan[c] # Idle /\ ~Periodic(chan[c].ep)}) = IF waiting THEN 1 ELSE 0
  /\ Cardinality({c \in Channels : chan[c] # Idle /\ Periodic(chan[c].ep)}) =
       IF Kbd \in host.names THEN 1 ELSE 0
  /\ \A c \in Channels : Cardinality({i \in Slots : slots[i] = c}) = IF chan[c].state = "delay" THEN 1 ELSE 0
  /\ \A i \in Slots : slots[i] = Repeat <=> keys.timer = i

\* No two devices that were given an address have the same, and what the
\* object of a device is told comes from that device: the counter of
\* USBDeviceInitialize moves on even when SET_ADDRESS fails.
AddressesAreUnique ==
  \A d, e \in Devices : d # e /\ real[d].on /\ real[e].on /\ real[d].addr # 0 => real[d].addr # real[e].addr

\* A read that succeeds returned what the sectors hold, a write that succeeds
\* left what was given, whatever was tried and reset before
\* (USBBulkOnlyMassStorageDeviceRead, ...Write).
TransfersAreTrue ==
  last.ok => SectorsAt(last.call.at, last.call.n) =
               IF last.call.op = "read" THEN last.call.buf ELSE [j \in 1 .. last.call.n |-> NewData]

\* What goes wrong once in a call is made good: the reset and the second try
\* find the stick and the host with the same toggles and phase again, or a
\* later try does (USBBulkOnlyMassStorageDeviceReset).
OneFaultIsMadeGood ==
  last.call # Nothing /\ last.call.before = 0 /\ faults <= 1 => last.ok

\* When nothing goes wrong every device is found and named, and nobody is
\* kept waiting.
NothingFailsUnprovoked ==
  faults = 0 =>
    /\ waiting => \E c \in Channels : chan[c] # Idle /\ ~Periodic(chan[c].ep) /\
                    (chan[c].sub = "disable" \/ Reply(chan[c]).a.st # "silent")
    /\ main.at = "up" => {d \in Ports : Plugged[d] \in Supported} \subseteq host.names

\* The main program waits for ever only for a device that has nothing to say
\* and is asked for something: no wake-up is lost (DWHCIDeviceTransferStage,
\* DWHCIDeviceCompletionRoutine).
Silent == \E c \in Channels : chan[c] # Idle /\ ~Periodic(chan[c].ep) /\ Reply(chan[c]).a.st = "silent"
WaitEnds == waiting ~> (~waiting \/ Silent)

\* What the keyboard has to say reaches class Keyboard, whatever happens to
\* the requests (USBKeyboardDeviceCompletionRoutine submits the next one
\* after an error too).
KeysArrive == (HasKeyboard /\ real[Kbd].on /\ keys.held # real[Kbd].told) ~> (keys.status = keys.held)

\* Whatever the interrupt and the main program do to the tables of the driver,
\* they agree on who works for whom and on which device is which.
TablesAgree == EveryRequestIsUnderWay /\ AddressesAreUnique

\* Trouble that comes once is made good and none comes of itself; and nobody
\* waits for ever, not the main program and not the keyboard.
TroubleIsOvercome ==
  [](OneFaultIsMadeGood /\ NothingFailsUnprovoked) /\ WaitEnds /\ KeysArrive
=============================================================================
