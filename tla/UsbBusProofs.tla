----------------------------- MODULE UsbBusProofs -----------------------------
(***************************************************************************)
(* TablesAgree and TransfersAreTrue hold for every number of ports,        *)
(* channels, timers and sectors, for every descriptor and every number of  *)
(* faults. The module follows the layers of UsbHost and UsbBus: which      *)
(* message of the main program may follow which (Follows), what an         *)
(* interrupt can make of a channel (Outcome), what the devices can make    *)
(* of a request (IsReply), who has which timer (KeySlots). TablesInv is    *)
(* the inductive invariant of the tables: the main program waits for the   *)
(* one channel that works on what its message asks for, names come in      *)
(* order after all addresses are given, and the address that is given      *)
(* next is one that no device has. DataInv is that of the data: while the  *)
(* stick works on the command the main program means (their tags agree),   *)
(* what was read, or written, so far is what the stick has sent, or        *)
(* taken.                                                                  *)
(***************************************************************************)
EXTENDS UsbBus, FiniteSetTheorems, SequenceTheorems, TLAPS

-----------------------------------------------------------------------------
(* Ports, channels and slots are numbers; a nonempty set of them has a least. *)

LEMMA MinIsIn ==
  ASSUME NEW S \in SUBSET Nat, S # {}
  PROVE  Min(S) \in S /\ \A m \in S : Min(S) <= m
<1>1. \E n \in S : \A m \in S : <<m, n>> \notin OpToRel(<, Nat)
  BY NatLessThanWellFounded, WFMin
<1>2. PICK n \in S : \A m \in S : <<m, n>> \notin OpToRel(<, Nat)
  BY <1>1
<1>3. ASSUME NEW m \in S PROVE n <= m
  <2>1. m \in Nat /\ n \in Nat
    BY <1>2
  <2>2. m < n => <<m, n>> \in OpToRel(<, Nat)
    BY <2>1 DEF OpToRel
  <2>3. ~(m < n) BY <1>2, <2>2
  <2> QED BY <2>1, <2>3
<1> QED BY <1>2, <1>3 DEF Min

LEMMA PortsAreNumbers ==
  /\ Ports \subseteq Nat \ {0} /\ Devices \subseteq Nat
  /\ Hub \in Devices /\ Ports \subseteq Devices /\ Hub \notin Ports
  /\ \A d \in Devices : d # Hub => d \in Ports
  /\ 1 \in Ports
<1>1. Cardinality(Ports) \in Nat
  BY UsbBusAssumption, FS_CardinalityType
<1>2. Ports \subseteq Nat \ {0} /\ 1 \in Ports
  BY <1>1, UsbBusAssumption
<1> QED BY <1>2 DEF Devices, Hub

\* The stick and the keyboard are where they are plugged in, if at all.
LEMMA OneStickOneKeyboard ==
  /\ \A p \in Ports : Plugged[p] = "stick" => p = Stick
  /\ \A p \in Ports : Plugged[p] = "keyboard" => p = Kbd
  /\ Kbd = Stick => Kbd \notin Ports
<1>1. ASSUME NEW kind \in Supported, NEW p \in Ports, Plugged[p] = kind
      PROVE  p = PortOf(kind)
  <2>1. PortOf(kind) \in Ports /\ Plugged[PortOf(kind)] = kind
    BY <1>1 DEF PortOf
  <2> QED BY <1>1, <2>1, OneOfEach
<1>2. ASSUME NEW kind, PortOf(kind) \in Ports PROVE Plugged[PortOf(kind)] = kind
  <2>1. Nobody \notin Ports BY PortsAreNumbers DEF Nobody
  <2> QED BY <1>2, <2>1 DEF PortOf
<1>3. Kbd \in Ports => Plugged[Kbd] = "keyboard" BY <1>2 DEF Kbd
<1>4. Stick \in Ports => Plugged[Stick] = "stick" BY <1>2 DEF Stick
<1> QED BY <1>1, <1>3, <1>4 DEF Kbd, Stick, Supported

-----------------------------------------------------------------------------
(* The messages of the main program, and what follows which. *)

OfPort == {"power", "status", "reset", "status2", "unpower", "unpowerAll", "portStatus"}
OfHub == {"hubDesc", "hubStatus"}
OfStick == {"inquiry", "ready", "sense", "capacity"}
Ats == Initializing \cup Configuring \cup Calling \cup OfPort \cup OfHub \cup {"off", "dead", "up"}
Messages == [at : Ats, dev : Devices, i : Int, k : 0 .. 3, all : BOOLEAN]

\* While devices are found none has a name; then they are configured in order.
Finding == Initializing \cup {"off", "hubDesc", "power", "status", "reset", "status2"}

\* A message is for a device it can be for.
Placed(m) ==
  /\ m \in Messages
  /\ m.at \in OfPort => m.dev \in Ports
  /\ m.at \in Configuring => m.dev = Hub \/ Plugged[m.dev] \in Supported
  /\ m.at = "protocol" => m.dev = Kbd /\ m.dev \in Ports
  /\ m.at \in OfStick => m.dev = Stick /\ m.dev \in Ports
  /\ m.at \in Calling => m.dev = Stick /\ m.dev \in Ports
  /\ m.at \in {"read", "write"} => m.at = call.op

HostTypes ==
  host \in [addr : [Devices -> Nat], next : Nat \ {0}, found : SUBSET Devices,
            names : SUBSET Ports, tag : Nat]

IsCall(x) ==
  /\ x = [op |-> x.op, at |-> x.at, n |-> x.n, tries |-> x.tries, before |-> x.before, buf |-> x.buf]
  /\ x.at \in Int /\ x.n \in Int

\* What follows message m, which succeeded or not: n.
Follows(m, ok, n) ==
  /\ Placed(n)
  /\ n.k = 1 /\ n.all = TRUE
  /\ n.at \notin {"off", "dead"}
  /\ n.at \in Finding => m.at \in Finding \/ (m.at = "setConf" /\ m.dev = Hub)
  /\ n.at \in Configuring =>
       \/ m.at \in Finding
       \/ m.at \in Configuring \ {"protocol", "capacity"} /\ n.dev = m.dev
       \/ m.at \in Configuring /\ m.dev < n.dev
  /\ n.at = "desc8" => m.at = "status2" /\ n.dev = m.dev
  /\ n.at = "desc" => m.at = "desc8" /\ n.dev = m.dev
  /\ n.at = "address" => m.at = "desc" /\ ok /\ n.dev = m.dev /\ n.i = host.next
  /\ n.at \in Calling => m.at \in Calling
  /\ n.at \in {"read", "write"} => m.at = "halt2" /\ ok
  /\ m.at = "protocol" => n.at # "up"

USE DEF Initializing, Configuring, Calling, OfPort, OfHub, OfStick, Finding

LEMMA RestFollows ==
  ASSUME NEW m \in Messages, NEW ok, m.at # "protocol"
  PROVE  Follows(m, ok, Rest)
<1>1. Hub \in Devices /\ 0 \in Int BY PortsAreNumbers
<1>2. "up" \in Ats BY DEF Ats
<1> DEFINE n == Message("up", Hub, 0)
<1>3. n \in Messages /\ n.at = "up" /\ n.dev = Hub /\ n.k = 1 /\ n.all = TRUE
  BY <1>1, <1>2 DEF Message, Messages
<1>4. Rest = n BY DEF Rest
<1> HIDE DEF n
<1> QED BY <1>3, <1>4 DEF Follows, Placed

LEMMA PortMessageFollows ==
  ASSUME NEW m \in Messages, NEW ok, m.at # "protocol", NEW p \in Ports, NEW i \in Int,
         NEW at \in OfPort, at \in Finding => m.at \in Finding
  PROVE  Follows(m, ok, Message(at, p, i))
<1>1. p \in Devices BY PortsAreNumbers
<1>2. at \in Ats BY DEF Ats
<1> DEFINE n == Message(at, p, i)
<1>3. n \in Messages /\ n.at = at /\ n.dev = p /\ n.k = 1 /\ n.all = TRUE
  BY <1>1, <1>2 DEF Message, Messages
<1> HIDE DEF n
<1>4. Follows(m, ok, n) BY <1>3 DEF Follows, Placed
<1> QED BY <1>4 DEF n

LEMMA CheckFromFollows ==
  ASSUME NEW m \in Messages, NEW ok, m.at # "protocol", NEW p
  PROVE  Follows(m, ok, CheckFrom(p))
<1>1. CASE p \in Ports
  <2>1. Follows(m, ok, Message("portStatus", p, 0)) BY <1>1, PortMessageFollows
  <2> QED BY <1>1, <2>1 DEF CheckFrom
<1>2. CASE p \notin Ports BY <1>2, RestFollows DEF CheckFrom
<1> QED BY <1>1, <1>2

LEMMA ConfigureFromFollows ==
  ASSUME NEW m \in Messages, NEW ok, NEW p \in Nat, NEW found \in SUBSET Devices,
         m.at \in Finding \/ (m.at \in Configuring /\ m.dev < p)
  PROVE  Follows(m, ok, ConfigureFrom(p, found))
<1> DEFINE todo == {q \in found \ {Hub} : q >= p /\ Plugged[q] \in Supported}
<1>1. CASE todo = {}
  <2>1. Hub \in Devices /\ 0 \in Int /\ "hubStatus" \in Ats BY PortsAreNumbers DEF Ats
  <2> DEFINE n == Message("hubStatus", Hub, 0)
  <2>2. n \in Messages /\ n.at = "hubStatus" /\ n.dev = Hub /\ n.k = 1 /\ n.all = TRUE
    BY <2>1 DEF Message, Messages
  <2>3. ConfigureFrom(p, found) = n BY <1>1 DEF ConfigureFrom
  <2> HIDE DEF n
  <2> QED BY <2>2, <2>3 DEF Follows, Placed
<1>2. CASE todo # {}
  <2>1. todo \in SUBSET Nat BY PortsAreNumbers
  <2>2. Min(todo) \in todo BY <1>2, <2>1, MinIsIn
  <2>3. PICK q : q = Min(todo) OBVIOUS
  <2>4. q \in Ports /\ q \in Devices /\ q >= p /\ Plugged[q] \in Supported
    BY <2>2, <2>3, PortsAreNumbers
  <2> DEFINE n == Message("setConf", q, 0)
  <2>5. "setConf" \in Ats /\ 0 \in Int BY DEF Ats
  <2>6. n \in Messages /\ n.at = "setConf" /\ n.dev = q /\ n.k = 1 /\ n.all = TRUE
    BY <2>4, <2>5 DEF Message, Messages
  <2>7. ConfigureFrom(p, found) = n BY <1>2, <2>3 DEF ConfigureFrom
  <2> HIDE DEF n
  <2>8. m.at \in Configuring => m.dev < q
    <3>1. m.dev \in Nat /\ q \in Nat BY <2>4, PortsAreNumbers DEF Messages
    <3>2. CASE m.at \in Configuring
      <4>1. m.dev < p BY <3>2
      <4> QED BY <3>1, <4>1, <2>4
    <3> QED BY <3>2
  <2> QED BY <2>4, <2>6, <2>7, <2>8 DEF Follows, Placed
<1> QED BY <1>1, <1>2

LEMMA DetectFollows ==
  ASSUME NEW m \in Messages, NEW ok, NEW p \in Nat, NEW found \in SUBSET Devices, m.at \in Finding
  PROVE  Follows(m, ok, Detect(p, found))
<1>0. m.at # "protocol" OBVIOUS
<1>1. CASE p \in Ports
  <2>1. Follows(m, ok, Message("status", p, 0)) BY <1>0, <1>1, PortMessageFollows
  <2> QED BY <1>1, <2>1 DEF Detect
<1>2. CASE p \notin Ports
  <2>1. Follows(m, ok, ConfigureFrom(1, found)) BY ConfigureFromFollows
  <2> QED BY <1>2, <2>1 DEF Detect
<1> QED BY <1>1, <1>2

LEMMA GoFollows ==
  ASSUME NEW m, Placed(m), NEW ok, NEW at \in Ats, NEW i \in Int, m.at # "protocol",
         at \in Initializing \ {"desc8", "desc", "address"} => m.at \in Initializing,
         at = "desc" => m.at = "desc8",
         at = "address" => m.at = "desc" /\ ok /\ i = host.next,
         at = "setConf" => m.at \in Finding /\ m.dev = Hub,
         at \in OfStick => m.at \in Configuring \ {"capacity"} /\ m.dev = Stick /\ m.dev \in Ports,
         at \in Calling => m.at \in Calling,
         at \in {"read", "write"} => m.at = "halt2" /\ ok /\ at = call.op,
         at \in OfHub => at # "hubDesc" \/ m.at \in Finding,
         at \notin {"desc8", "protocol", "off", "dead"} \union OfPort
  PROVE  Follows(m, ok, Message(at, m.dev, i))
<1>1. m \in Messages /\ m.dev \in Devices BY DEF Placed, Messages
<1> DEFINE n == Message(at, m.dev, i)
<1>3. n \in Messages /\ n.at = at /\ n.dev = m.dev /\ n.i = i /\ n.k = 1 /\ n.all = TRUE
  BY <1>1 DEF Message, Messages
<1> HIDE DEF n
<1>4. Placed(n) BY <1>3 DEF Placed
<1>5. Follows(m, ok, n) BY <1>3, <1>4 DEF Follows
<1> QED BY <1>5 DEF n

LEMMA LostFollows ==
  ASSUME NEW m, Placed(m), NEW ok, HostTypes, m.at \in Finding
  PROVE  Follows(m, ok, Lost(m))
<1>1. m \in Messages /\ m.dev \in Nat
  BY PortsAreNumbers DEF Placed, Messages
<1>2. m.at # "protocol" OBVIOUS
<1>3. host.found \in SUBSET Devices BY DEF HostTypes
<1>4. m.dev + 1 \in Nat BY <1>1
<1>5. PICK p : p = m.dev + 1 OBVIOUS
<1>6. Follows(m, ok, Rest) BY <1>1, <1>2, RestFollows
<1>7. PICK f : f = host.found OBVIOUS
<1>8. p \in Nat /\ f \in SUBSET Devices BY <1>3, <1>4, <1>5, <1>7
<1>9. Follows(m, ok, Detect(p, f)) BY <1>1, <1>8, DetectFollows
<1> QED BY <1>5, <1>6, <1>7, <1>9 DEF Lost

LEMMA InitializeFollows ==
  ASSUME NEW m, Placed(m), NEW ok \in BOOLEAN, HostTypes, m.at \in Initializing
  PROVE  Follows(m, ok, Initialize(m, ok))
<1>1. m \in Messages /\ m.dev \in Devices /\ m.dev \in Nat
  BY PortsAreNumbers DEF Placed, Messages
<1>2. Follows(m, ok, Lost(m)) BY LostFollows
<1>3. host.next \in Int /\ 0 \in Int BY DEF HostTypes
<1>4. {"desc", "address", "langid", "string", "strings", "conf9", "conf", "setConf"} \subseteq Ats
  BY DEF Ats
<1>5. CASE m.at \in {"langid", "string", "strings"}
  <2>1. Follows(m, ok, Message("string", m.dev, 0)) BY <1>3, <1>4, <1>5, GoFollows
  <2>2. Follows(m, ok, Message("strings", m.dev, 0)) BY <1>3, <1>4, <1>5, GoFollows
  <2>3. Follows(m, ok, Message("conf9", m.dev, 0)) BY <1>3, <1>4, <1>5, GoFollows
  <2> QED BY <1>5, <2>1, <2>2, <2>3 DEF Initialize, ReadStrings
<1>6. CASE m.at \notin {"langid", "string", "strings"} /\ ~ok
  BY <1>2, <1>6 DEF Initialize
<1>7. CASE m.at = "desc8" /\ ok
  <2>1. Follows(m, ok, Message("desc", m.dev, 0)) BY <1>3, <1>4, <1>7, GoFollows
  <2> QED BY <1>7, <2>1 DEF Initialize
<1>8. CASE m.at = "desc" /\ ok
  <2>1. Follows(m, ok, Message("address", m.dev, host.next)) BY <1>3, <1>4, <1>8, GoFollows
  <2> QED BY <1>8, <2>1 DEF Initialize
<1>9. CASE m.at = "address" /\ ok
  <2>1. Follows(m, ok, Message("langid", m.dev, 0)) BY <1>3, <1>4, <1>9, GoFollows
  <2>2. Follows(m, ok, Message("conf9", m.dev, 0)) BY <1>3, <1>4, <1>9, GoFollows
  <2> QED BY <1>9, <2>1, <2>2 DEF Initialize
<1>10. CASE m.at = "conf9" /\ ok
  <2>1. Follows(m, ok, Message("conf", m.dev, 0)) BY <1>3, <1>4, <1>10, GoFollows
  <2> QED BY <1>10, <2>1 DEF Initialize
<1>11. CASE m.at = "conf" /\ ok
  <2>1. m.dev = Hub => Follows(m, ok, Message("setConf", m.dev, 0))
    BY <1>3, <1>4, <1>11, GoFollows
  <2>2. PICK p : p = m.dev + 1 OBVIOUS
  <2>3. PICK f : f = host.found \cup {m.dev} OBVIOUS
  <2>4. p \in Nat /\ f \in SUBSET Devices BY <1>1, <2>2, <2>3 DEF HostTypes
  <2>5. Follows(m, ok, Detect(p, f)) BY <1>1, <1>11, <2>4, DetectFollows
  <2>6. CASE ~IsValid(m.dev) BY <1>2, <1>11, <2>6 DEF Initialize
  <2>7. CASE IsValid(m.dev) BY <1>11, <2>1, <2>2, <2>3, <2>5, <2>7 DEF Initialize
  <2> QED BY <2>6, <2>7
<1> QED BY <1>5, <1>6, <1>7, <1>8, <1>9, <1>10, <1>11

LEMMA EnumerateFollows ==
  ASSUME NEW m, Placed(m), NEW ok \in BOOLEAN, NEW over, HostTypes, m.at \in OfPort \union OfHub
  PROVE  Follows(m, ok, EnumeratePorts(m, ok, over))
<1>1. m \in Messages /\ m.dev \in Devices /\ m.dev \in Nat /\ m.i \in Int
  BY PortsAreNumbers DEF Placed, Messages
<1>2. m.at # "protocol" OBVIOUS
<1>3. Follows(m, ok, Rest) BY <1>1, <1>2, RestFollows
<1>4. \A p : Follows(m, ok, CheckFrom(p)) BY <1>1, <1>2, CheckFromFollows
<1>5. m.at \in Finding => Follows(m, ok, Detect(1, host.found)) /\ Follows(m, ok, Detect(m.dev + 1, host.found))
  <2> SUFFICES ASSUME m.at \in Finding PROVE Follows(m, ok, Detect(1, host.found)) /\ Follows(m, ok, Detect(m.dev + 1, host.found))
    OBVIOUS
  <2>1. PICK f : f = host.found OBVIOUS
  <2>2. PICK p : p = m.dev + 1 OBVIOUS
  <2>3. f \in SUBSET Devices /\ p \in Nat /\ 1 \in Nat BY <1>1, <2>1, <2>2 DEF HostTypes
  <2>4. Follows(m, ok, Detect(p, f)) /\ Follows(m, ok, Detect(1, f)) BY <1>1, <2>3, DetectFollows
  <2> QED BY <2>1, <2>2, <2>4
<1>6. ASSUME NEW at \in OfPort, NEW p \in Ports, NEW i \in Int, at \in Finding => m.at \in Finding
      PROVE  Follows(m, ok, Message(at, p, i))
  BY <1>1, <1>2, <1>6, PortMessageFollows
<1>7. m.at \in OfPort => m.dev \in Ports BY DEF Placed
<1>8. CASE m.at = "hubDesc"
  <2>1. Follows(m, ok, Message("power", 1, 0)) BY <1>6, <1>8, PortsAreNumbers
  <2>2. EnumeratePorts(m, ok, over) \in {Message("power", 1, 0), Rest} BY <1>8 DEF EnumeratePorts
  <2> QED BY <1>3, <2>1, <2>2
<1>9. CASE m.at = "power"
  <2>1. m.dev + 1 \in Ports => Follows(m, ok, Message("power", m.dev + 1, 0)) BY <1>6, <1>9
  <2> QED BY <1>3, <1>5, <1>9, <2>1 DEF EnumeratePorts
<1>10. CASE m.at = "status"
  <2>1. Follows(m, ok, Message("reset", m.dev, 0)) BY <1>6, <1>7, <1>10
  <2> QED BY <1>5, <1>10, <2>1 DEF EnumeratePorts
<1>11. CASE m.at = "reset"
  <2>1. Follows(m, ok, Message("status2", m.dev, 0)) BY <1>6, <1>7, <1>11
  <2> QED BY <1>5, <1>11, <2>1 DEF EnumeratePorts
<1>12. CASE m.at = "status2"
  <2>1. Follows(m, ok, Message("unpower", m.dev, 0)) BY <1>6, <1>7, <1>12
  <2>2. Follows(m, ok, Message("desc8", m.dev, 0))
    <3> DEFINE n == Message("desc8", m.dev, 0)
    <3>1. n \in Messages /\ n.at = "desc8" /\ n.dev = m.dev /\ n.k = 1 /\ n.all = TRUE
      BY <1>1 DEF Message, Messages, Ats
    <3> HIDE DEF n
    <3>2. Follows(m, ok, n) BY <1>12, <3>1 DEF Follows, Placed
    <3> QED BY <3>2 DEF n
  <2> QED BY <1>3, <1>5, <1>12, <2>1, <2>2 DEF EnumeratePorts
<1>13. CASE m.at = "hubStatus"
  <2>1. Follows(m, ok, Message("unpowerAll", 1, 0)) BY <1>6, <1>13, PortsAreNumbers
  <2>2. EnumeratePorts(m, ok, over) \in {Message("unpowerAll", 1, 0), Rest, CheckFrom(1)} BY <1>13 DEF EnumeratePorts
  <2> QED BY <1>3, <1>4, <2>1, <2>2
<1>14. CASE m.at = "unpowerAll"
  <2>1. m.dev + 1 \in Ports => Follows(m, ok, Message("unpowerAll", m.dev + 1, 0)) BY <1>6, <1>14
  <2> QED BY <1>3, <1>14, <2>1 DEF EnumeratePorts
<1>15. CASE m.at = "portStatus"
  <2>1. Follows(m, ok, Message("unpower", m.dev, 1)) BY <1>6, <1>7, <1>15
  <2> QED BY <1>4, <1>15, <2>1 DEF EnumeratePorts
<1>16. CASE m.at = "unpower" BY <1>3, <1>4, <1>16 DEF EnumeratePorts
<1> QED BY <1>8, <1>9, <1>10, <1>11, <1>12, <1>13, <1>14, <1>15, <1>16

LEMMA ConfigureFollows ==
  ASSUME NEW m, Placed(m), NEW ok \in BOOLEAN, HostTypes, m.at \in Configuring
  PROVE  Follows(m, ok, Configure(m, ok))
<1>1. m \in Messages /\ m.dev \in Devices /\ m.dev \in Nat /\ m.i \in Int
  BY PortsAreNumbers DEF Placed, Messages
<1>2. Follows(m, ok, ConfigureFrom(m.dev + 1, host.found))
  <2>1. PICK f : f = host.found OBVIOUS
  <2>2. PICK p : p = m.dev + 1 OBVIOUS
  <2>3. f \in SUBSET Devices /\ p \in Nat /\ m.dev < p BY <1>1, <2>1, <2>2 DEF HostTypes
  <2>4. Follows(m, ok, ConfigureFrom(p, f)) BY <1>1, <2>3, ConfigureFromFollows
  <2> QED BY <2>1, <2>2, <2>4
<1>3. m.dev = Hub => m.at = "setConf"
  BY PortsAreNumbers DEF Placed
<1>4. CASE m.dev = Hub
  <2>1. m.at = "setConf" BY <1>3, <1>4
  <2>2. Follows(m, ok, Rest) BY <1>1, <2>1, RestFollows
  <2>3. Kind(m.dev) = "hub" BY <1>4 DEF Kind
  <2>4. Configure(m, ok) = ConfigureHub(ok) BY <2>3 DEF Configure
  <2> DEFINE n == Message("hubDesc", Hub, 0)
  <2>5. n \in Messages /\ n.at = "hubDesc" /\ n.dev = Hub /\ n.k = 1 /\ n.all = TRUE
    BY PortsAreNumbers DEF Message, Messages, Ats
  <2> HIDE DEF n
  <2>6. CASE ok
    <3>1. Follows(m, ok, n) BY <1>4, <2>1, <2>5 DEF Follows, Placed
    <3>2. Configure(m, ok) = n BY <2>4, <2>6 DEF ConfigureHub, n
    <3> QED BY <3>1, <3>2
  <2>7. CASE ~ok BY <2>2, <2>4, <2>7 DEF ConfigureHub
  <2> QED BY <2>6, <2>7
<1>5. CASE m.dev # Hub
  <2>1. m.dev \in Ports /\ Plugged[m.dev] \in Supported BY <1>1, <1>5, PortsAreNumbers DEF Placed
  <2>2. Kind(m.dev) = Plugged[m.dev] BY <1>5 DEF Kind
  <2>3. CASE Plugged[m.dev] = "keyboard"
    <3>1. m.dev = Kbd BY <2>1, <2>3, OneStickOneKeyboard
    <3>2. Configure(m, ok) = ConfigureKeyboard(m, ok) BY <2>2, <2>3 DEF Configure
    <3>3. CASE ok /\ m.at = "setConf"
      <4> DEFINE n == Message("protocol", m.dev, 0)
      <4>1. n \in Messages /\ n.at = "protocol" /\ n.dev = m.dev /\ n.k = 1 /\ n.all = TRUE
        BY <1>1 DEF Message, Messages, Ats
      <4>2. Configure(m, ok) = n BY <3>2, <3>3 DEF ConfigureKeyboard
      <4> HIDE DEF n
      <4>3. Follows(m, ok, n) BY <2>1, <3>1, <3>3, <4>1 DEF Follows, Placed
      <4> QED BY <4>2, <4>3
    <3>4. CASE ~(ok /\ m.at = "setConf") BY <1>2, <3>2, <3>4 DEF ConfigureKeyboard
    <3> QED BY <3>3, <3>4
  <2>4. CASE Plugged[m.dev] = "stick"
    <3>1. m.dev = Stick BY <2>1, <2>4, OneStickOneKeyboard
    <3>2. Configure(m, ok) = ConfigureStick(m, ok) BY <2>2, <2>4 DEF Configure
    <3>3. m.at # "protocol"
      BY <2>1, <3>1, OneStickOneKeyboard DEF Placed
    <3>4. ASSUME NEW at \in {"sense", "inquiry", "capacity", "ready"}, NEW i \in Int, m.at # "capacity"
          PROVE  Follows(m, ok, Message(at, m.dev, i))
      <4>1. at \in Ats BY DEF Ats
      <4> QED BY <2>1, <3>1, <3>3, <3>4, <4>1, GoFollows
    <3>5. CASE m.at = "capacity" BY <1>2, <3>2, <3>5 DEF ConfigureStick
    <3>6. CASE m.at # "capacity"
      <4>1. Follows(m, ok, Message("sense", m.dev, m.i)) BY <1>1, <3>4, <3>6
      <4>2. Follows(m, ok, Message("inquiry", m.dev, m.i)) BY <1>1, <3>4, <3>6
      <4>3. Follows(m, ok, Message("capacity", m.dev, m.i)) BY <1>1, <3>4, <3>6
      <4>4. Follows(m, ok, Message("ready", m.dev, READY_TRIES - 1)) BY <3>4, <3>6 DEF READY_TRIES
      <4>5. Follows(m, ok, Message("ready", m.dev, m.i - 1)) BY <1>1, <3>4, <3>6
      <4>6. CASE ~ok BY <1>2, <3>2, <4>1, <4>6 DEF ConfigureStick
      <4>7. CASE ok BY <1>2, <3>2, <3>3, <3>6, <4>2, <4>3, <4>4, <4>5, <4>7 DEF ConfigureStick
      <4> QED BY <4>6, <4>7
    <3> QED BY <3>5, <3>6
  <2> QED BY <2>1, <2>3, <2>4 DEF Supported
<1> QED BY <1>4, <1>5

LEMMA CallsFollow ==
  ASSUME NEW m, Placed(m), NEW ok \in BOOLEAN, m.at \in Calling, call.op \in {"read", "write"}
  PROVE  Follows(m, ok, ReadOrWrite(m, ok))
<1>1. m \in Messages /\ m.dev = Stick /\ m.dev \in Ports BY DEF Placed
<1>2. m.at # "protocol" OBVIOUS
<1>3. Follows(m, ok, Rest) BY <1>1, <1>2, RestFollows
<1>4. ASSUME NEW at \in {"mscReset", "halt1", "halt2"} PROVE Follows(m, ok, Message(at, m.dev, 0))
  <2>1. at \in Ats BY DEF Ats
  <2> QED BY <1>1, <1>2, <2>1, GoFollows
<1>5. m.at = "halt2" /\ ok => Follows(m, ok, Message(call.op, m.dev, 0))
  <2> SUFFICES ASSUME m.at = "halt2", ok PROVE Follows(m, ok, Message(call.op, m.dev, 0)) OBVIOUS
  <2>1. PICK op : op = call.op OBVIOUS
  <2>2. op \in Ats /\ op \in {"read", "write"} BY <2>1 DEF Ats
  <2>3. 0 \in Int OBVIOUS
  <2>4. Follows(m, ok, Message(op, m.dev, 0)) BY <1>1, <1>2, <2>1, <2>2, <2>3, GoFollows
  <2> QED BY <2>1, <2>4
<1>6. Follows(m, ok, Message("mscReset", Stick, 0)) /\ Follows(m, ok, Message("halt1", Stick, 0))
      /\ Follows(m, ok, Message("halt2", Stick, 0))
  BY <1>1, <1>4
<1>7. m.at = "halt2" /\ ok => Follows(m, ok, Message(call.op, Stick, 0)) BY <1>1, <1>5
<1>8. CASE m.at = call.op BY <1>3, <1>6, <1>8 DEF ReadOrWrite
<1>9. CASE m.at # call.op
  <2>1. m.at \in {"mscReset", "halt1", "halt2"} BY <1>9 DEF Placed
  <2> QED BY <1>3, <1>6, <1>7, <1>9, <2>1 DEF ReadOrWrite, ResetStick
<1> QED BY <1>8, <1>9

LEMMA FollowFollows ==
  ASSUME NEW m, Placed(m), NEW ok \in BOOLEAN, NEW over, HostTypes,
         m.at \in Calling => call.op \in {"read", "write"}, m.at \notin {"off", "dead", "up"}
  PROVE  Follows(m, ok, Follow(m, ok, over))
<1>1. m.at \in Ats BY DEF Placed, Messages
<1>2. CASE m.at \in Initializing
  <2>1. Follow(m, ok, over) = Initialize(m, ok) BY <1>2 DEF Follow
  <2> QED BY <1>2, <2>1, InitializeFollows
<1>3. CASE m.at \in Configuring
  <2>1. Follow(m, ok, over) = Configure(m, ok) BY <1>3 DEF Follow
  <2> QED BY <1>3, <2>1, ConfigureFollows
<1>4. CASE m.at \in Calling
  <2>1. Follow(m, ok, over) = ReadOrWrite(m, ok) BY <1>4 DEF Follow
  <2> QED BY <1>4, <2>1, CallsFollow
<1>5. CASE m.at \in OfPort \union OfHub
  <2>1. Follow(m, ok, over) = EnumeratePorts(m, ok, over) BY <1>5 DEF Follow
  <2> QED BY <1>5, <2>1, EnumerateFollows
<1> QED BY <1>1, <1>2, <1>3, <1>4, <1>5 DEF Ats

-----------------------------------------------------------------------------
(* Channels and the stages they work on. *)

Stagings ==
  [ep : Endpoints, in : BOOLEAN, status : BOOLEAN, left : Int, tries : Int,
   state : {"noSplit", "startSplit", "completeSplit", "delay"}, sub : {"transaction", "disable"}]
ChanSet == [Channels -> Stagings \union {Idle}]

\* The channels that work for the main program, and those that ask the keyboard.
Waited(ch) == {c \in Channels : ch[c] # Idle /\ ~Periodic(ch[c].ep)}
Polled(ch) == {c \in Channels : ch[c] # Idle /\ Periodic(ch[c].ep)}

\* The same stage, whether its channel has to be stopped first or not.
Alike(t, s) ==
  /\ t \in Stagings
  /\ t.ep = s.ep /\ t.in = s.in /\ t.status = s.status /\ t.left = s.left /\ t.state = s.state

LEMMA StagingIsBusy == \A s \in Stagings : s # Idle
<1> SUFFICES ASSUME NEW s \in Stagings, s = Idle PROVE FALSE OBVIOUS
<1>1. s.state # "idle" BY DEF Stagings
<1>2. Idle.state = "idle" BY DEF Idle
<1> QED BY <1>1, <1>2

LEMMA StartedIsAlike ==
  ASSUME NEW c, NEW s \in Stagings, NEW t \in Started(c, s)
  PROVE  Alike(t, s)
<1>1. CASE t = [s EXCEPT !.sub = "transaction"] BY <1>1 DEF Alike, Stagings
<1>2. CASE t = [s EXCEPT !.sub = "disable"] BY <1>2 DEF Alike, Stagings
<1> QED BY <1>1, <1>2 DEF Started

LEMMA SubmitOutcome ==
  ASSUME NEW ch \in ChanSet, NEW s \in Stagings, FreeChannels(ch) # {}, Submit(ch, s)
  PROVE  \E c \in Channels, t \in Stagings :
           ch[c] = Idle /\ Alike(t, s) /\ chan' = [ch EXCEPT ![c] = t]
<1>1. FreeChannels(ch) \in SUBSET Nat
  BY UsbHostAssumption DEF FreeChannels, Channels
<1>2. Min(FreeChannels(ch)) \in FreeChannels(ch) BY <1>1, MinIsIn
<1>3. PICK c : c = Min(FreeChannels(ch)) OBVIOUS
<1>4. c \in Channels /\ ch[c] = Idle BY <1>2, <1>3 DEF FreeChannels
<1>5. \E t \in Started(c, s) : chan' = [ch EXCEPT ![c] = t] BY <1>3 DEF Submit
<1>6. PICK t \in Started(c, s) : chan' = [ch EXCEPT ![c] = t] BY <1>5
<1>7. Alike(t, s) BY StartedIsAlike
<1>8. t \in Stagings BY <1>7 DEF Alike
<1> QED BY <1>4, <1>6, <1>7, <1>8

\* What an interrupt makes of the stage of a channel: it goes on, it is over
\* and the main program is told, or it is over and the keyboard is asked again.
GoesOn(c, a, sl) ==
  \E t \in Stagings :
    /\ t.ep = chan[c].ep /\ t.in = chan[c].in /\ t.status = chan[c].status
    /\ t.left = IF Counts(chan[c], a) THEN chan[c].left - a.n ELSE chan[c].left
    /\ t.state = "delay" => Periodic(t.ep)
    /\ Counts(chan[c], a) /\ ~Periodic(t.ep) => t.left # 0 /\ chan[c].state = "completeSplit"
    /\ ~Periodic(t.ep) => a.st # "error" /\ (t.state = "noSplit" <=> chan[c].state = "noSplit")
    /\ chan' = [chan EXCEPT ![c] = t]
    /\ UNCHANGED <<waiting, urb>>
    /\ slots' = IF t.state = "delay" THEN StartTimer(sl, c) ELSE sl

IsOver(c, a, sl) ==
  /\ ~Periodic(chan[c].ep)
  /\ chan' = [chan EXCEPT ![c] = Idle]
  /\ waiting' = FALSE /\ slots' = sl
  /\ \E ok \in BOOLEAN :
       /\ urb' = [status |-> ok, full |-> IF ok /\ ~chan[c].status THEN a.full ELSE urb.full]
       /\ ok <=> Counts(chan[c], a)
       /\ ok => chan[c].state = "noSplit" \/ chan[c].left - a.n = 0

AsksAgain(c, sl) ==
  /\ Periodic(chan[c].ep)
  /\ UNCHANGED <<waiting, urb>> /\ slots' = sl
  /\ \E b \in Channels, t \in Stagings :
       /\ b = c \/ chan[b] = Idle
       /\ chan' = [[chan EXCEPT ![c] = Idle] EXCEPT ![b] = t]
       /\ t.ep = chan[c].ep /\ t.state # "delay"

\* An answer moves a number of packets; a transaction of the main program
\* that is not split is done or it is not.
Answer(s, a) ==
  /\ a.n \in Int /\ a.full \in BOOLEAN
  /\ s.sub # "disable" /\ s.state = "noSplit" /\ ~Periodic(s.ep) => a.st \in {"done", "error", "halted"}

Outcome(c, a, sl) == GoesOn(c, a, sl) \/ IsOver(c, a, sl) \/ AsksAgain(c, sl)

LEMMA RestartGoesOn ==
  ASSUME chan \in ChanSet, NEW c \in Channels, NEW a, NEW sl, NEW s \in Stagings,
         s.ep = chan[c].ep, s.in = chan[c].in, s.status = chan[c].status, s.state # "delay",
         s.left = IF Counts(chan[c], a) THEN chan[c].left - a.n ELSE chan[c].left,
         Counts(chan[c], a) /\ ~Periodic(s.ep) => s.left # 0 /\ chan[c].state = "completeSplit",
         ~Periodic(s.ep) => a.st # "error" /\ (s.state = "noSplit" <=> chan[c].state = "noSplit"),
         Restart(c, s), slots' = IF chan'[c].state = "delay" THEN StartTimer(sl, c) ELSE sl
  PROVE  GoesOn(c, a, sl)
<1>1. PICK t \in Started(c, s) : chan' = [chan EXCEPT ![c] = t] BY DEF Restart
<1>2. Alike(t, s) BY StartedIsAlike
<1>3. chan'[c] = t BY <1>1 DEF ChanSet
<1>4. UNCHANGED <<waiting, urb>> BY DEF Restart
<1>5. t.state # "delay" /\ t \in Stagings BY <1>2 DEF Alike
<1>6. slots' = sl BY <1>3, <1>5
<1> QED BY <1>1, <1>2, <1>4, <1>5, <1>6 DEF GoesOn, Alike

LEMMA DelayGoesOn ==
  ASSUME chan \in ChanSet, NEW c \in Channels, NEW a, NEW sl, NEW s \in Stagings,
         s.ep = chan[c].ep, s.in = chan[c].in, s.status = chan[c].status, Periodic(s.ep),
         s.left = IF Counts(chan[c], a) THEN chan[c].left - a.n ELSE chan[c].left,
         Delay(c, s), slots' = IF chan'[c].state = "delay" THEN StartTimer(sl, c) ELSE sl
  PROVE  GoesOn(c, a, sl)
<1>1. PICK t : t = [s EXCEPT !.state = "delay"] OBVIOUS
<1>2. t \in Stagings /\ t.ep = s.ep /\ t.in = s.in /\ t.status = s.status /\ t.left = s.left
      /\ t.state = "delay"
  BY <1>1 DEF Stagings
<1>3. chan' = [chan EXCEPT ![c] = t] /\ UNCHANGED <<waiting, urb>> BY <1>1 DEF Delay
<1>4. chan'[c] = t BY <1>3 DEF ChanSet
<1>5. slots' = IF t.state = "delay" THEN StartTimer(sl, c) ELSE sl BY <1>4
<1> QED BY <1>2, <1>3, <1>5 DEF GoesOn

LEMMA FinishEnds ==
  ASSUME chan \in ChanSet, NEW c \in Channels, NEW a, NEW sl, NEW ok \in BOOLEAN, NEW full,
         chan[c] \in Stagings,
         ok => full = a.full,
         ~Periodic(chan[c].ep) => (ok <=> Counts(chan[c], a)),
         ok /\ ~Periodic(chan[c].ep) => chan[c].state = "noSplit" \/ chan[c].left - a.n = 0,
         Finish(c, ok, full), slots' = IF chan'[c].state = "delay" THEN StartTimer(sl, c) ELSE sl
  PROVE  IsOver(c, a, sl) \/ AsksAgain(c, sl)
<1> DEFINE freed == [chan EXCEPT ![c] = Idle]
<1>1. freed \in ChanSet /\ freed[c] = Idle BY DEF ChanSet
<1>2. Idle.state = "idle" BY DEF Idle
<1>3. CASE Periodic(chan[c].ep)
  <2>1. PICK ch : ch = freed OBVIOUS
  <2>2. PICK e : e = chan[c].ep OBVIOUS
  <2>3. e \in Endpoints BY <2>2 DEF Stagings
  <2>4. PICK s : s = Stage(e, TRUE, FALSE, 1) OBVIOUS
  <2>5. s \in Stagings /\ s.ep = e /\ s.state # "delay"
    BY <2>3, <2>4 DEF Stage, Stagings
  <2>6. Submit(ch, s) /\ UNCHANGED <<waiting, urb>>
    BY <1>3, <2>1, <2>2, <2>4 DEF Finish
  <2>7. ch \in ChanSet /\ FreeChannels(ch) # {} BY <1>1, <2>1 DEF FreeChannels
  <2>8. PICK b \in Channels, t \in Stagings : ch[b] = Idle /\ Alike(t, s) /\ chan' = [ch EXCEPT ![b] = t]
    BY <2>5, <2>6, <2>7, SubmitOutcome
  <2>9. b = c \/ chan[b] = Idle BY <2>1, <2>8 DEF ChanSet
  <2>10. t.ep = chan[c].ep /\ t.state # "delay" BY <2>2, <2>5, <2>8 DEF Alike
  <2>11. chan' = [freed EXCEPT ![b] = t] BY <2>1, <2>8
  <2>12. chan'[c].state # "delay"
    <3>1. chan'[c] = IF b = c THEN t ELSE Idle BY <1>1, <2>11 DEF ChanSet
    <3> QED BY <1>2, <2>10, <3>1
  <2>13. slots' = sl BY <2>12
  <2> QED BY <1>3, <2>6, <2>8, <2>9, <2>10, <2>11, <2>13 DEF AsksAgain
<1>4. CASE ~Periodic(chan[c].ep)
  <2>1. chan' = freed /\ waiting' = FALSE
        /\ urb' = [status |-> ok, full |-> IF ok /\ ~chan[c].status THEN full ELSE urb.full]
    BY <1>4 DEF Finish
  <2>2. slots' = sl BY <1>1, <1>2, <2>1
  <2>3. urb' = [status |-> ok, full |-> IF ok /\ ~chan[c].status THEN a.full ELSE urb.full]
    <3>1. CASE ok BY <2>1, <3>1
    <3>2. CASE ~ok BY <2>1, <3>2
    <3> QED BY <3>1, <3>2
  <2> QED BY <1>4, <2>1, <2>2, <2>3 DEF IsOver
<1> QED BY <1>3, <1>4

LEMMA ChannelOutcome ==
  ASSUME chan \in ChanSet, NEW c \in Channels, chan[c] \in Stagings, chan[c].state # "delay",
         NEW a, NEW sl, Answer(chan[c], a), ChannelInterrupt(c, a, sl)
  PROVE  /\ Outcome(c, a, sl)
         /\ nextPID' = IF Counts(chan[c], a) THEN [nextPID EXCEPT ![chan[c].ep] = SkipPID(chan[c], a.n)]
                       ELSE nextPID
<1> DEFINE s == chan[c]
           t == Counted(s, a)
<1>0. slots' = IF chan'[c].state = "delay" THEN StartTimer(sl, c) ELSE sl BY DEF ChannelInterrupt
<1>1. CASE s.sub = "disable"
  <2>1. a.st = "halted" /\ chan' = [chan EXCEPT ![c].sub = "transaction"] /\ UNCHANGED <<nextPID, waiting, urb>>
    BY <1>1 DEF ChannelInterrupt
  <2>2. ~Counts(s, a) BY <2>1 DEF Counts
  <2>3. PICK u : u = [s EXCEPT !.sub = "transaction"] OBVIOUS
  <2>4. u \in Stagings /\ u.ep = s.ep /\ u.in = s.in /\ u.status = s.status /\ u.left = s.left
        /\ u.state # "delay" /\ u.state = s.state
    BY <2>3 DEF Stagings
  <2>5. chan' = [chan EXCEPT ![c] = u] BY <2>1, <2>3 DEF ChanSet
  <2>6. chan'[c] = u BY <2>5 DEF ChanSet
  <2>7. slots' = sl BY <1>0, <2>4, <2>6
  <2>8. GoesOn(c, a, sl) BY <2>1, <2>2, <2>4, <2>5, <2>7 DEF GoesOn
  <2> QED BY <2>1, <2>2, <2>8 DEF Outcome
<1>2. CASE s.sub # "disable" /\ a.st = "halted"
  <2>1. Restart(c, s) /\ UNCHANGED nextPID BY <1>2 DEF ChannelInterrupt
  <2>2. ~Counts(s, a) BY <1>2 DEF Counts
  <2>3. GoesOn(c, a, sl) BY <1>0, <1>2, <2>1, <2>2, RestartGoesOn
  <2> QED BY <2>1, <2>2, <2>3 DEF Outcome
<1>3. CASE s.sub # "disable" /\ a.st # "halted"
  <2>0. CountPID(s, a) /\ (CASE s.state = "noSplit" -> NoSplitAnswer(c, t, a)
                              [] s.state = "startSplit" -> StartSplitAnswer(c, t, a)
                              [] s.state = "completeSplit" -> CompleteSplitAnswer(c, t, a))
    BY <1>3 DEF ChannelInterrupt
  <2>1. t \in Stagings /\ t.ep = s.ep /\ t.in = s.in /\ t.status = s.status /\ t.state = s.state
        /\ t.left = IF Counts(s, a) THEN s.left - a.n ELSE s.left
    BY DEF Counted, Stagings, Answer
  <2>2. s.state \in {"noSplit", "startSplit", "completeSplit"} BY DEF Stagings
  <2>3. PICK u : u = t OBVIOUS
  <2>4. u \in Stagings /\ u.ep = s.ep /\ u.in = s.in /\ u.status = s.status /\ u.state = s.state
        /\ u.left = IF Counts(s, a) THEN s.left - a.n ELSE s.left
    BY <2>1, <2>3
  <2>5. Answer(s, a) OBVIOUS
  <2> HIDE DEF t
  <2>6. CASE s.state = "noSplit"
    <3>0. NoSplitAnswer(c, u, a) BY <2>0, <2>3, <2>6
    <3>1. CASE a.st = "error"
      <4>1. Finish(c, FALSE, FALSE) BY <3>0, <3>1 DEF NoSplitAnswer
      <4>2. ~Counts(s, a) BY <3>1 DEF Counts
      <4>3. IsOver(c, a, sl) \/ AsksAgain(c, sl) BY <1>0, <4>1, <4>2, FinishEnds
      <4> QED BY <2>0, <4>3 DEF Outcome, CountPID
    <3>2. CASE a.st = "nak" /\ Periodic(u.ep)
      <4>1. Delay(c, u) BY <3>0, <3>2 DEF NoSplitAnswer
      <4>2. GoesOn(c, a, sl) BY <1>0, <2>4, <3>2, <4>1, DelayGoesOn
      <4> QED BY <2>0, <4>2 DEF Outcome, CountPID
    <3>3. CASE a.st # "error" /\ ~(a.st = "nak" /\ Periodic(u.ep))
      <4>1. Finish(c, TRUE, a.full) BY <3>0, <3>3 DEF NoSplitAnswer
      <4>2. ~Periodic(s.ep) => Counts(s, a) BY <1>3, <2>5, <2>6, <3>3 DEF Counts, Answer
      <4>3. IsOver(c, a, sl) \/ AsksAgain(c, sl) BY <1>0, <2>6, <4>1, <4>2, FinishEnds
      <4> QED BY <2>0, <4>3 DEF Outcome, CountPID
    <3> QED BY <3>1, <3>2, <3>3
  <2>7. CASE s.state = "startSplit"
    <3>0. StartSplitAnswer(c, u, a) BY <2>0, <2>3, <2>7
    <3>1. ~Counts(s, a) BY <2>7 DEF Counts
    <3>2. CASE a.st \in {"error", "nak", "nyet"}
      <4>1. Finish(c, FALSE, FALSE) BY <3>0, <3>2 DEF StartSplitAnswer
      <4>2. IsOver(c, a, sl) \/ AsksAgain(c, sl) BY <1>0, <3>1, <4>1, FinishEnds
      <4> QED BY <2>0, <4>2 DEF Outcome, CountPID
    <3>3. CASE a.st \notin {"error", "nak", "nyet"}
      <4>1. PICK k \in SplitTries(u) : Restart(c, [u EXCEPT !.state = "completeSplit", !.tries = k])
        BY <3>0, <3>3 DEF StartSplitAnswer
      <4>2. k \in Int BY DEF SplitTries, PeriodicTries, NonPeriodicTries
      <4>3. PICK w : w = [u EXCEPT !.state = "completeSplit", !.tries = k] OBVIOUS
      <4>4. w \in Stagings /\ w.ep = s.ep /\ w.in = s.in /\ w.status = s.status
            /\ w.state = "completeSplit" /\ w.left = s.left
        BY <2>4, <3>1, <4>2, <4>3 DEF Stagings
      <4>5. Restart(c, w) BY <4>1, <4>3
      <4>6. GoesOn(c, a, sl) BY <1>0, <2>7, <3>1, <3>3, <4>4, <4>5, RestartGoesOn
      <4> QED BY <2>0, <4>6 DEF Outcome, CountPID
    <3> QED BY <3>2, <3>3
  <2>8. CASE s.state = "completeSplit"
    <3>0. CompleteSplitAnswer(c, u, a) BY <2>0, <2>3, <2>8
    <3>1. CASE a.st = "error"
      <4>1. Finish(c, FALSE, FALSE) BY <3>0, <3>1 DEF CompleteSplitAnswer
      <4>2. ~Counts(s, a) BY <3>1 DEF Counts
      <4>3. IsOver(c, a, sl) \/ AsksAgain(c, sl) BY <1>0, <4>1, <4>2, FinishEnds
      <4> QED BY <2>0, <4>3 DEF Outcome, CountPID
    <3>2. CASE a.st \notin {"done", "error"} /\ ~GivesUp(u, a)
      <4>1. Restart(c, [u EXCEPT !.tries = @ - 1]) BY <3>0, <3>2 DEF CompleteSplitAnswer
      <4>2. ~Counts(s, a) BY <3>2 DEF Counts
      <4>3. PICK w : w = [u EXCEPT !.tries = @ - 1] OBVIOUS
      <4>4. w \in Stagings /\ w.ep = s.ep /\ w.in = s.in /\ w.status = s.status
            /\ w.state = "completeSplit" /\ w.left = s.left
        BY <2>4, <2>8, <4>2, <4>3 DEF Stagings
      <4>5. Restart(c, w) BY <4>1, <4>3
      <4>6. GoesOn(c, a, sl) BY <1>0, <2>8, <3>2, <4>2, <4>4, <4>5, RestartGoesOn
      <4> QED BY <2>0, <4>6 DEF Outcome, CountPID
    <3>3. CASE a.st = "done" /\ u.left = 0
      <4>1. Finish(c, TRUE, a.full) BY <3>0, <3>3 DEF CompleteSplitAnswer
      <4>2. Counts(s, a) BY <2>8, <3>3 DEF Counts
      <4>3. s.left - a.n = 0 BY <2>4, <3>3, <4>2
      <4>4. IsOver(c, a, sl) \/ AsksAgain(c, sl) BY <1>0, <4>1, <4>2, <4>3, FinishEnds
      <4> QED BY <2>0, <4>4 DEF Outcome, CountPID
    <3>4. CASE a.st # "error" /\ ~(a.st \notin {"done", "error"} /\ ~GivesUp(u, a)) /\ ~(a.st = "done" /\ u.left = 0)
      <4>1. PICK w : w = BeginSplitCycle(u) OBVIOUS
      <4>11. PICK v : v = [u EXCEPT !.state = "startSplit"] OBVIOUS
      <4>12. v \in Stagings /\ v.ep = s.ep /\ v.in = s.in /\ v.status = s.status
             /\ v.state = "startSplit" /\ v.left = u.left
        BY <2>4, <4>11 DEF Stagings
      <4>13. w = [v EXCEPT !.tries = 0] BY <4>1, <4>11 DEF BeginSplitCycle
      <4>2. w \in Stagings /\ w.ep = s.ep /\ w.in = s.in /\ w.status = s.status
            /\ w.state = "startSplit" /\ w.left = u.left
        BY <4>12, <4>13 DEF Stagings
      <4>3. IF Periodic(u.ep) THEN Delay(c, w) ELSE Restart(c, w)
        BY <3>0, <3>4, <4>1 DEF CompleteSplitAnswer
      <4>4. Counts(s, a) => w.left # 0 BY <3>4, <4>2 DEF Counts
      <4>5. CASE Periodic(u.ep)
        <5>1. GoesOn(c, a, sl) BY <1>0, <2>4, <4>2, <4>3, <4>5, DelayGoesOn
        <5> QED BY <2>0, <5>1 DEF Outcome, CountPID
      <4>6. CASE ~Periodic(u.ep)
        <5>1. GoesOn(c, a, sl) BY <1>0, <2>4, <2>8, <3>4, <4>2, <4>3, <4>4, <4>6, RestartGoesOn
        <5> QED BY <2>0, <5>1 DEF Outcome, CountPID
      <4> QED BY <4>5, <4>6
    <3> QED BY <3>1, <3>2, <3>3, <3>4
  <2> QED BY <2>2, <2>6, <2>7, <2>8
<1> QED BY <1>1, <1>2, <1>3

-----------------------------------------------------------------------------
(* What a message asks for, and what the devices answer. *)

\* The endpoint stage k of a message is for, and whether it is a status stage.
EpOf(m, k) ==
  <<IF m.at \in HubMessage THEN Hub ELSE m.dev,
    IF m.at \in ControlIn \cup ControlOut THEN "control"
    ELSE IF k = 1 \/ (k = 2 /\ m.at \in CommandOut) THEN "out" ELSE "in">>
StatusAt(m, k) == (k = 3 /\ m.at \in ControlIn) \/ (k = 2 /\ m.at \in ControlOut)

\* Stage s is what message m asks for.
Asked(m, s) == m.k \in {1, 2, 3} /\ s.ep = EpOf(m, m.k) /\ (s.status <=> StatusAt(m, m.k))

IsStage(s, e, status, n) ==
  /\ s \in Stagings /\ s.state # "delay" /\ s.ep = e /\ s.status = status /\ s.left = n
  /\ s.state = "noSplit" <=> e \notin SplitEps

USE DEF ControlIn, ControlOut, CommandIn, CommandOut, HubMessage

LEMMA EpOfIsEndpoint ==
  ASSUME NEW m, m.dev \in Devices, NEW k
  PROVE  EpOf(m, k) \in Endpoints /\ ~Periodic(EpOf(m, k))
         /\ EpOf(m, k)[1] = IF m.at \in HubMessage THEN Hub ELSE m.dev
BY UsbBusAssumption, PortsAreNumbers DEF EpOf, Periodic

LEMMA StagesAre ==
  ASSUME NEW m, m.dev \in Devices, Packets(m) \in Int
  PROVE  /\ Len(Stages(m)) \in {2, 3}
         /\ \A k \in 1 .. Len(Stages(m)) :
              /\ Stages(m)[k] \in Stagings /\ Stages(m)[k].state # "delay"
              /\ Stages(m)[k].ep = EpOf(m, k) /\ (Stages(m)[k].status <=> StatusAt(m, k))
              /\ k = 1 => Stages(m)[k].left = 1
              /\ k = 2 /\ m.at \in {"read", "write"} => Stages(m)[k].left = call.n
              /\ Stages(m)[k].state = "noSplit" <=> EpOf(m, k) \notin SplitEps
<1> DEFINE d == IF m.at \in HubMessage THEN Hub ELSE m.dev
<1>0. PICK p : p = Packets(m) OBVIOUS
<1>1. PICK con, out, inp : con = <<d, "control">> /\ out = <<d, "out">> /\ inp = <<d, "in">> OBVIOUS
<1>2. con \in Endpoints /\ out \in Endpoints /\ inp \in Endpoints
  BY <1>1, UsbBusAssumption, PortsAreNumbers
<1>3. \A e \in Endpoints, in \in BOOLEAN, status \in BOOLEAN, n \in Int : IsStage(Stage(e, in, status, n), e, status, n)
  BY DEF Stage, Stagings, IsStage
<1>4. PICK setup : setup = Stage(con, FALSE, FALSE, 1) OBVIOUS
<1>5. PICK data : data = Stage(con, TRUE, FALSE, p) OBVIOUS
<1>6. PICK statusIn, statusOut : statusIn = Stage(con, TRUE, TRUE, 1) /\ statusOut = Stage(con, FALSE, TRUE, 1) OBVIOUS
<1>7. PICK cbw, csw : cbw = Stage(out, FALSE, FALSE, 1) /\ csw = Stage(inp, TRUE, FALSE, 1) OBVIOUS
<1>8. PICK bring, take : bring = Stage(inp, TRUE, FALSE, p) /\ take = Stage(out, FALSE, FALSE, p) OBVIOUS
<1>9. /\ IsStage(setup, con, FALSE, 1) /\ IsStage(data, con, FALSE, p) /\ IsStage(statusIn, con, TRUE, 1) /\ IsStage(statusOut, con, TRUE, 1)
      /\ IsStage(cbw, out, FALSE, 1) /\ IsStage(csw, inp, FALSE, 1) /\ IsStage(bring, inp, FALSE, p) /\ IsStage(take, out, FALSE, p)
  <2>1. TRUE \in BOOLEAN /\ FALSE \in BOOLEAN /\ 1 \in Int /\ p \in Int BY <1>0
  <2>2. IsStage(setup, con, FALSE, 1) BY <1>2, <1>3, <1>4, <2>1
  <2>3. IsStage(data, con, FALSE, p) BY <1>2, <1>3, <1>5, <2>1
  <2>4. IsStage(statusIn, con, TRUE, 1) BY <1>2, <1>3, <1>6, <2>1
  <2>5. IsStage(statusOut, con, TRUE, 1) BY <1>2, <1>3, <1>6, <2>1
  <2>6. IsStage(cbw, out, FALSE, 1) /\ IsStage(csw, inp, FALSE, 1) BY <1>2, <1>3, <1>7, <2>1
  <2>7. IsStage(bring, inp, FALSE, p) /\ IsStage(take, out, FALSE, p) BY <1>2, <1>3, <1>8, <2>1
  <2> QED BY <2>2, <2>3, <2>4, <2>5, <2>6, <2>7
<1>10. CASE m.at \in ControlIn
  <2>1. Stages(m) = <<setup, data, statusOut>>
    BY <1>0, <1>1, <1>4, <1>5, <1>6, <1>10 DEF Stages
  <2>2. \A k : EpOf(m, k) = con BY <1>1, <1>10 DEF EpOf
  <2>3. ~StatusAt(m, 1) /\ ~StatusAt(m, 2) /\ StatusAt(m, 3) BY <1>10 DEF StatusAt
  <2> HIDE DEF d
  <2> QED BY <1>9, <1>10, <2>1, <2>2, <2>3 DEF IsStage
<1>11. CASE m.at \in ControlOut
  <2>1. Stages(m) = <<setup, statusIn>> BY <1>1, <1>4, <1>6, <1>11 DEF Stages
  <2>2. \A k : EpOf(m, k) = con BY <1>1, <1>11 DEF EpOf
  <2>3. ~StatusAt(m, 1) /\ StatusAt(m, 2) BY <1>11 DEF StatusAt
  <2> HIDE DEF d
  <2> QED BY <1>9, <1>11, <2>1, <2>2, <2>3 DEF IsStage
<1>12. CASE m.at \in CommandIn
  <2>1. Stages(m) = <<cbw, bring, csw>> BY <1>0, <1>1, <1>7, <1>8, <1>12 DEF Stages
  <2>2. EpOf(m, 1) = out /\ EpOf(m, 2) = inp /\ EpOf(m, 3) = inp BY <1>1, <1>12 DEF EpOf
  <2>3. \A k : ~StatusAt(m, k) BY <1>12 DEF StatusAt
  <2>4. m.at = "read" => p = call.n BY <1>0 DEF Packets
  <2> HIDE DEF d
  <2> QED BY <1>9, <1>12, <2>1, <2>2, <2>3, <2>4 DEF IsStage
<1>13. CASE m.at \in CommandOut
  <2>1. Stages(m) = <<cbw, take, csw>> BY <1>0, <1>1, <1>7, <1>8, <1>13 DEF Stages
  <2>2. EpOf(m, 1) = out /\ EpOf(m, 2) = out /\ EpOf(m, 3) = inp BY <1>1, <1>13 DEF EpOf
  <2>3. \A k : ~StatusAt(m, k) BY <1>13 DEF StatusAt
  <2>4. m.at = "write" => p = call.n BY <1>0 DEF Packets
  <2> HIDE DEF d
  <2> QED BY <1>9, <1>13, <2>1, <2>2, <2>3, <2>4 DEF IsStage
<1>14. CASE m.at \notin ControlIn \cup ControlOut \cup CommandIn \cup CommandOut
  <2>1. Stages(m) = <<cbw, csw>> BY <1>1, <1>7, <1>14 DEF Stages
  <2>2. EpOf(m, 1) = out /\ EpOf(m, 2) = inp BY <1>1, <1>14 DEF EpOf
  <2>3. \A k : ~StatusAt(m, k) BY <1>14 DEF StatusAt
  <2> HIDE DEF d
  <2> QED BY <1>9, <1>14, <2>1, <2>2, <2>3 DEF IsStage
<1> QED BY <1>10, <1>11, <1>12, <1>13, <1>14

Toggles == {"data0", "data1"}
Reals ==
  [on : BOOLEAN, addr : Nat, req : Ats \cup {"none"}, tin : Toggles, tout : Toggles, int : Toggles,
   told : BOOLEAN, phase : {"cbw", "csw", "data", "failed"}, cmd : Ats \cup {"none"}, tag : Nat,
   pos : Int, spin : Int]

KeyTypes == keys \in [held : BOOLEAN, status : BOOLEAN, timer : 0 .. KERNEL_TIMERS]

\* What the devices are told from: all of it has its type.
ToldTypes ==
  /\ real \in [Devices -> Reals] /\ host.tag \in Nat /\ host.addr \in [Devices -> Nat]
  /\ call.at \in Int /\ KeyTypes /\ main.at \in Ats /\ main.dev \in Devices
  /\ main.at \in OfPort => main.dev \in Ports
  /\ main.at = "address" => main.i \in Nat

\* What a transaction may do to the addresses of the devices: nothing, a reset
\* takes one away, or a device that listened to the address of its object, and was
\* the only one, gets that of the request.
KeepsAddress(new, d) == new[d].addr = real[d].addr /\ (new[d].on => real[d].on)
Listens(d, s) == real[d].on /\ real[d].addr = host.addr[s.ep[1]]
KeepsTag(x, d) == x.tag \in {real[d].tag, host.tag, 0}
Addressed(new, s) ==
  /\ new \in [Devices -> Reals]
  /\ \A d \in Devices : KeepsTag(new[d], d)
  /\ \/ \A d \in Devices : KeepsAddress(new, d)
     \/ main.at = "reset" /\ \A d \in Devices : KeepsAddress(new, d) \/ new[d].addr = 0
     \/ main.at = "address" /\ \E d \in Devices :
          /\ Listens(d, s) /\ new[d].addr = main.i
          /\ \A e \in Devices \ {d} : KeepsAddress(new, e) /\ ~Listens(e, s)

LEMMA AndIs ==
  ASSUME NEW a, NEW d, NEW r
  PROVE  And(a, d, r) = [a |-> a, real |-> [real EXCEPT ![d] = r], disk |-> disk, data |-> <<>>]
BY DEF And, Just

LEMMA KeptIsAddressed ==
  ASSUME real \in [Devices -> Reals], NEW s, NEW d \in Devices, NEW r \in Reals,
         r.addr = real[d].addr, r.on => real[d].on, KeepsTag(r, d)
  PROVE  Addressed([real EXCEPT ![d] = r], s)
BY DEF Addressed, KeepsAddress, KeepsTag

LEMMA SameIsAddressed ==
  ASSUME real \in [Devices -> Reals], NEW s
  PROVE  Addressed(real, s)
BY DEF Addressed, KeepsAddress, KeepsTag

\* The answer of a transaction that was done, or failed, or brought nothing.
Answered(a) == a.n \in Int /\ a.full \in BOOLEAN /\ a.st \in {"done", "error", "silent"}

\* Only a transaction of the main program writes sectors.
Overwritten(from, to) == [x \in Sectors |-> IF x \in from .. to THEN NewData ELSE disk[x]]
OnDisk(new, s) == new = disk \/ (~Periodic(s.ep) /\ \E from, to \in Int : new = Overwritten(from, to))

\* A reply, whatever becomes of its answer on the way.
IsReply(r, s) ==
  /\ r = [a |-> r.a, real |-> r.real, disk |-> r.disk, data |-> r.data]
  /\ Addressed(r.real, s) /\ OnDisk(r.disk, s)
  /\ r.a.n \in Int /\ r.a.full \in BOOLEAN
  /\ r.a.st \in {"done", "error", "silent"} \/ (r.a.st = "nak" /\ Periodic(s.ep))

LEMMA AnswersAre ==
  /\ \A n \in Int : Answered(Done(n)) /\ Done(n).st = "done"
  /\ Answered(Says("error")) /\ Answered(Says("silent"))
BY DEF Answered, Done, Says

LEMMA JustIsReply ==
  ASSUME real \in [Devices -> Reals], NEW s, NEW a, Answered(a)
  PROVE  IsReply(Just(a), s)
<1>1. Just(a) = [a |-> a, real |-> real, disk |-> disk, data |-> <<>>] BY DEF Just
<1>2. Just(a).a = a /\ Just(a).real = real /\ Just(a).disk = disk /\ Just(a).data = <<>> BY <1>1
<1>3. Addressed(real, s) BY SameIsAddressed
<1> QED BY <1>1, <1>2, <1>3 DEF IsReply, Answered, OnDisk

LEMMA AndIsReply ==
  ASSUME NEW s, NEW a, Answered(a), NEW d, NEW x, Addressed([real EXCEPT ![d] = x], s)
  PROVE  IsReply(And(a, d, x), s)
<1>1. PICK new : new = [real EXCEPT ![d] = x] OBVIOUS
<1>2. And(a, d, x) = [a |-> a, real |-> new, disk |-> disk, data |-> <<>>] BY <1>1, AndIs
<1>3. PICK r : r = And(a, d, x) OBVIOUS
<1>4. r.a = a /\ r.real = new /\ r.disk = disk /\ r = [a |-> r.a, real |-> r.real, disk |-> r.disk, data |-> r.data] BY <1>2, <1>3
<1> QED BY <1>1, <1>3, <1>4 DEF IsReply, Answered, OnDisk

\* Device d is the one that listens.
Alone(d, s) == d \in Devices /\ Listens(d, s) /\ \A e \in Devices \ {d} : ~Listens(e, s)

LEMMA EffectIsReply ==
  ASSUME ToldTypes, NEW s, NEW d, Alone(d, s)
  PROVE  IsReply(Effect(d), s)
<1>1. d \in Devices /\ real[d] \in Reals /\ real \in [Devices -> Reals] BY DEF Alone, ToldTypes
<1>2. Answered(Done(1)) BY AnswersAre
<1>3. IsReply(Just(Done(1)), s) BY <1>1, <1>2, JustIsReply
<1>4. ASSUME NEW e \in Devices, NEW x \in Reals, x.addr = real[e].addr, x.on => real[e].on, x.tag = real[e].tag
      PROVE  IsReply(And(Done(1), e, x), s)
  <2>1. Addressed([real EXCEPT ![e] = x], s) BY <1>1, <1>4, KeptIsAddressed DEF KeepsTag
  <2> QED BY <1>2, <2>1, AndIsReply
<1>5. IsReply(And(Done(1), d, [real[d] EXCEPT !.tout = "data0"]), s)
  <2>1. PICK x : x = [real[d] EXCEPT !.tout = "data0"] OBVIOUS
  <2>2. x \in Reals /\ x.addr = real[d].addr /\ x.on = real[d].on /\ x.tag = real[d].tag
    BY <1>1, <2>1 DEF Reals, Toggles
  <2> QED BY <1>1, <1>4, <2>1, <2>2
<1>6. CASE main.at = "address"
  <2>1. PICK x : x = [real[d] EXCEPT !.addr = main.i] OBVIOUS
  <2>2. x \in Reals /\ x.addr = main.i /\ x.tag = real[d].tag BY <1>1, <1>6, <2>1 DEF Reals, ToldTypes
  <2>3. PICK new : new = [real EXCEPT ![d] = x] OBVIOUS
  <2>4. new \in [Devices -> Reals] /\ new[d] = x /\ \A e \in Devices \ {d} : new[e] = real[e]
    BY <1>1, <2>2, <2>3
  <2>5. Addressed(new, s) BY <1>6, <2>2, <2>4 DEF Addressed, Alone, KeepsAddress, KeepsTag
  <2>6. IsReply(And(Done(1), d, x), s) BY <1>2, <2>3, <2>5, AndIsReply
  <2> QED BY <1>6, <2>1, <2>6 DEF Effect
<1>7. CASE main.at = "reset"
  <2>1. main.dev \in Devices BY DEF ToldTypes
  <2>2. PICK x : x = [NewReal EXCEPT !.on = TRUE] OBVIOUS
  <2>3. x \in Reals /\ x.addr = 0 /\ x.tag = 0
    <3>1. PICK v : v = NewReal OBVIOUS
    <3>2. v \in Reals /\ v.addr = 0 /\ v.tag = 0 BY <3>1 DEF Reals, Toggles, NewReal
    <3>3. x = [v EXCEPT !.on = TRUE] BY <2>2, <3>1
    <3> QED BY <3>2, <3>3 DEF Reals
  <2>4. PICK new : new = [real EXCEPT ![main.dev] = x] OBVIOUS
  <2>5. new \in [Devices -> Reals] /\ new[main.dev] = x /\ \A e \in Devices \ {main.dev} : new[e] = real[e]
    BY <1>1, <2>1, <2>3, <2>4
  <2>6. Addressed(new, s) BY <1>7, <2>3, <2>5 DEF Addressed, KeepsAddress, KeepsTag
  <2>7. IsReply(And(Done(1), main.dev, x), s) BY <1>2, <2>4, <2>6, AndIsReply
  <2> QED BY <1>7, <2>2, <2>7 DEF Effect
<1>8. CASE main.at \in {"unpower", "unpowerAll"}
  <2>1. PICK p : p = main.dev OBVIOUS
  <2>2. p \in Devices /\ real[p] \in Reals BY <2>1 DEF ToldTypes
  <2>3. PICK x : x = [real[p] EXCEPT !.on = FALSE] OBVIOUS
  <2>4. x \in Reals /\ x.addr = real[p].addr /\ ~x.on /\ x.tag = real[p].tag BY <2>2, <2>3 DEF Reals
  <2>5. IsReply(And(Done(1), p, x), s) BY <1>4, <2>2, <2>4
  <2> QED BY <1>8, <2>1, <2>3, <2>5 DEF Effect
<1>9. CASE main.at = "mscReset"
  <2>1. PICK x : x = [real[d] EXCEPT !.phase = "cbw", !.cmd = "none"] OBVIOUS
  <2>2. PICK v : v = [real[d] EXCEPT !.phase = "cbw"] OBVIOUS
  <2>3. v \in Reals /\ v.addr = real[d].addr /\ v.on = real[d].on /\ v.tag = real[d].tag BY <1>1, <2>2 DEF Reals
  <2>4. x = [v EXCEPT !.cmd = "none"] BY <2>1, <2>2
  <2>5. x \in Reals /\ x.addr = real[d].addr /\ x.on = real[d].on /\ x.tag = real[d].tag BY <2>3, <2>4 DEF Reals
  <2>6. IsReply(And(Done(1), d, x), s) BY <1>1, <1>4, <2>5
  <2> QED BY <1>9, <2>1, <2>6 DEF Effect
<1>10. CASE main.at \in {"halt1", "halt2"}
  <2>1. Effect(d) \in {And(Done(1), d, [real[d] EXCEPT !.tout = "data0"]), Just(Done(1))}
    BY <1>10 DEF Effect
  <2> QED BY <1>3, <1>5, <2>1
<1>11. CASE main.at \notin {"address", "reset", "unpower", "unpowerAll", "mscReset", "halt1", "halt2"}
  <2>1. Effect(d) = Just(Done(1)) BY <1>11 DEF Effect
  <2> QED BY <1>3, <2>1
<1> QED BY <1>6, <1>7, <1>8, <1>9, <1>10, <1>11

LEMMA ControlIsReply ==
  ASSUME ToldTypes, NEW s, NEW d, Alone(d, s), Moves(s) \in Int
  PROVE  IsReply(ControlReply(s, d), s)
<1>1. d \in Devices /\ real[d] \in Reals /\ real \in [Devices -> Reals] BY DEF Alone, ToldTypes
<1>2. IsReply(Just(Done(Moves(s))), s) /\ IsReply(Just(Says("error")), s) BY <1>1, AnswersAre, JustIsReply
<1>3. IsReply(Effect(d), s) BY EffectIsReply
<1>4. IsReply(And(Done(1), d, [real[d] EXCEPT !.req = main.at]), s)
  <2>1. PICK x : x = [real[d] EXCEPT !.req = main.at] OBVIOUS
  <2>2. x \in Reals /\ x.addr = real[d].addr /\ x.on = real[d].on /\ x.tag = real[d].tag
    BY <1>1, <2>1 DEF Reals, ToldTypes
  <2>3. Addressed([real EXCEPT ![d] = x], s) BY <1>1, <2>2, KeptIsAddressed DEF KeepsTag
  <2> QED BY <2>1, <2>3, AndIsReply, AnswersAre
<1>5. ~(main.k = 1 /\ main.k > 1) OBVIOUS
<1>6. CASE main.k = 1 /\ PID(s) = "setup" BY <1>4, <1>5, <1>6 DEF ControlReply
<1>7. CASE main.k > 1 /\ real[d].req = main.at /\ ~s.status BY <1>2, <1>5, <1>7 DEF ControlReply
<1>8. CASE main.k > 1 /\ real[d].req = main.at /\ s.status /\ ~Refuses(d)
  BY <1>3, <1>5, <1>8 DEF ControlReply
<1>9. CASE ~(main.k = 1 /\ PID(s) = "setup") /\ ~(main.k > 1 /\ real[d].req = main.at /\ ~s.status)
           /\ ~(main.k > 1 /\ real[d].req = main.at /\ s.status /\ ~Refuses(d))
  BY <1>2, <1>9 DEF ControlReply
<1> QED BY <1>6, <1>7, <1>8, <1>9

LEMMA FlippedIs ==
  ASSUME NEW t \in Toggles, NEW n
  PROVE  Flipped(t, n) \in Toggles /\ Toggle(t) \in Toggles
BY DEF Flipped, Toggle, Toggles

\* What is left of the devices and the answer when n packets have moved.
LEMMA DataMovedIs ==
  ASSUME NEW r \in Reals, NEW n \in Int
  PROVE  /\ DataMoved(r, n) \in Reals
         /\ DataMoved(r, n) = [r EXCEPT !.pos = r.pos + n, !.phase = IF n = Left(r) THEN "csw" ELSE "data"]
         /\ \A f \in {"addr", "on", "tag", "cmd", "tin", "tout"} : DataMoved(r, n)[f] = r[f]
<1>1. DataMoved(r, n) = [r EXCEPT !.pos = r.pos + n, !.phase = IF n = Left(r) THEN "csw" ELSE "data"]
  BY DEF DataMoved
<1>2. PICK v : v = [r EXCEPT !.pos = r.pos + n] OBVIOUS
<1>3. v \in Reals /\ \A f \in {"addr", "on", "tag", "cmd", "tin", "tout"} : v[f] = r[f]
  BY <1>2 DEF Reals
<1>4. PICK x : x = [v EXCEPT !.phase = IF n = Left(r) THEN "csw" ELSE "data"] OBVIOUS
<1>5. x \in Reals /\ \A f \in {"addr", "on", "tag", "cmd", "tin", "tout"} : x[f] = v[f]
  BY <1>3, <1>4 DEF Reals
<1>6. DataMoved(r, n) = x BY <1>1, <1>2, <1>4
<1> QED BY <1>1, <1>3, <1>5, <1>6

\* A device with only a toggle turned.
LEMMA TookIs ==
  ASSUME NEW r \in Reals, NEW n
  PROVE  /\ [r EXCEPT !.tout = Flipped(@, n)] \in Reals
         /\ [r EXCEPT !.tin = Flipped(@, n)] \in Reals
         /\ \A f \in {"addr", "on", "tag", "cmd", "tin", "pos", "phase", "spin"} : [r EXCEPT !.tout = Flipped(@, n)][f] = r[f]
         /\ \A f \in {"addr", "on", "tag", "cmd", "tout", "pos", "phase", "spin"} : [r EXCEPT !.tin = Flipped(@, n)][f] = r[f]
         /\ [r EXCEPT !.tout = Flipped(@, n)].tout = Flipped(r.tout, n)
<1>1. r.tout \in Toggles /\ r.tin \in Toggles BY DEF Reals
<1>2. PICK o, i : o = Flipped(r.tout, n) /\ i = Flipped(r.tin, n) OBVIOUS
<1>3. o \in Toggles /\ i \in Toggles BY <1>1, <1>2, FlippedIs
<1>4. [r EXCEPT !.tout = Flipped(@, n)] = [r EXCEPT !.tout = o]
      /\ [r EXCEPT !.tin = Flipped(@, n)] = [r EXCEPT !.tin = i]
  BY <1>2
<1>5. /\ [r EXCEPT !.tout = o] \in Reals /\ [r EXCEPT !.tin = i] \in Reals
      /\ [r EXCEPT !.tout = o].tout = o
  BY <1>3 DEF Reals
<1>6. /\ \A f \in {"addr", "on", "tag", "cmd", "tin", "pos", "phase", "spin"} : [r EXCEPT !.tout = o][f] = r[f]
      /\ \A f \in {"addr", "on", "tag", "cmd", "tout", "pos", "phase", "spin"} : [r EXCEPT !.tin = i][f] = r[f]
  BY <1>3 DEF Reals
<1> QED BY <1>2, <1>4, <1>5, <1>6

\* The stick takes command cmd.
Commanded(r, phase, cmd, tag, pos, spin) ==
  [r EXCEPT !.phase = phase, !.cmd = cmd, !.tag = tag, !.pos = pos, !.spin = spin]

LEMMA CommandTaken ==
  ASSUME NEW r \in Reals, NEW phase \in {"csw", "data", "failed"}, NEW cmd \in Ats, NEW tag \in Nat,
         NEW pos \in Int, NEW spin \in Int,
         NEW x, x = Commanded(r, phase, cmd, tag, pos, spin)
  PROVE  /\ x \in Reals /\ x.addr = r.addr /\ x.on = r.on /\ x.tout = r.tout /\ x.tin = r.tin
         /\ x.phase = phase /\ x.cmd = cmd /\ x.tag = tag /\ x.pos = pos
<1>1. PICK v : v = [r EXCEPT !.phase = phase] OBVIOUS
<1>2. v \in Reals /\ v.addr = r.addr /\ v.on = r.on /\ v.tout = r.tout /\ v.tin = r.tin /\ v.phase = phase
  BY <1>1 DEF Reals
<1>3. PICK w : w = [v EXCEPT !.cmd = cmd] OBVIOUS
<1>4. w \in Reals /\ w.addr = r.addr /\ w.on = r.on /\ w.tout = r.tout /\ w.tin = r.tin /\ w.phase = phase /\ w.cmd = cmd
  BY <1>2, <1>3 DEF Reals
<1>5. PICK u : u = [w EXCEPT !.tag = tag] OBVIOUS
<1>6. u \in Reals /\ u.addr = r.addr /\ u.on = r.on /\ u.tout = r.tout /\ u.tin = r.tin /\ u.phase = phase /\ u.cmd = cmd
      /\ u.tag = tag
  BY <1>4, <1>5 DEF Reals
<1>7. PICK y : y = [u EXCEPT !.pos = pos] OBVIOUS
<1>8. y \in Reals /\ y.addr = r.addr /\ y.on = r.on /\ y.tout = r.tout /\ y.tin = r.tin /\ y.phase = phase /\ y.cmd = cmd
      /\ y.tag = tag /\ y.pos = pos
  BY <1>6, <1>7 DEF Reals
<1>9. x = [y EXCEPT !.spin = spin] BY <1>1, <1>3, <1>5, <1>7 DEF Commanded
<1>10. x \in Reals /\ x.addr = r.addr /\ x.on = r.on /\ x.tout = r.tout /\ x.tin = r.tin /\ x.phase = phase /\ x.cmd = cmd
      /\ x.tag = tag /\ x.pos = pos
  BY <1>8, <1>9 DEF Reals
<1> QED BY <1>10

LEMMA LeftIs ==
  ASSUME NEW r \in Reals
  PROVE  Left(r) \in Int
<1>1. Cardinality(Sectors) \in Nat BY UsbBusAssumption, FS_CardinalityType
<1> QED BY <1>1 DEF Left, Reals

LEMMA OutIsReply ==
  ASSUME ToldTypes, NEW s, NEW d, Alone(d, s), NEW n \in Int, ~Periodic(s.ep)
  PROVE  IsReply(OutReply(s, d, n), s)
<1>1. d \in Devices /\ real[d] \in Reals /\ real \in [Devices -> Reals] BY DEF Alone, ToldTypes
<1>2. IsReply(Just(Done(n)), s) /\ IsReply(Just(Says("error")), s) BY <1>1, AnswersAre, JustIsReply
<1> DEFINE took(k) == [real[d] EXCEPT !.tout = Flipped(@, k)]
<1>3. PICK r : r = took(n) OBVIOUS
<1>4. r \in Reals /\ r.addr = real[d].addr /\ r.on = real[d].on BY <1>1, <1>3, TookIs
<1> DEFINE slow == main.at = "ready" /\ r.spin > 0
           phase == IF slow THEN "failed" ELSE IF main.at = "ready" THEN "csw" ELSE "data"
           x == [r EXCEPT !.phase = phase, !.cmd = main.at, !.tag = host.tag, !.pos = call.at,
                          !.spin = IF slow THEN @ - 1 ELSE @]
           write(k) == [And(Done(k), d, DataMoved(took(k), k)) EXCEPT
                          !.disk = [y \in Sectors |-> IF y \in r.pos .. r.pos + k - 1 THEN NewData ELSE @[y]]]
           writes == r.phase = "data" /\ r.cmd = "write" /\ main.k = 2
<1>5. IsReply(And(Done(n), d, x), s)
  <2>1. PICK ph : ph = phase OBVIOUS
  <2>2. PICK sp : sp = IF slow THEN r.spin - 1 ELSE r.spin OBVIOUS
  <2>3. ph \in {"csw", "data", "failed"} /\ sp \in Int BY <1>4, <2>1, <2>2 DEF Reals
  <2>4. PICK cm, tg, po : cm = main.at /\ tg = host.tag /\ po = call.at OBVIOUS
  <2>5. cm \in Ats /\ tg \in Nat /\ po \in Int BY <2>4 DEF ToldTypes
  <2>6. PICK y : y = Commanded(r, ph, cm, tg, po, sp) OBVIOUS
  <2>7. y \in Reals /\ y.addr = r.addr /\ y.on = r.on /\ y.tag = tg BY <1>4, <2>3, <2>5, <2>6, CommandTaken
  <2>8. x = y BY <2>1, <2>2, <2>4, <2>6 DEF Commanded
  <2> HIDE DEF x
  <2>9. Addressed([real EXCEPT ![d] = y], s) BY <1>1, <1>4, <2>4, <2>7, KeptIsAddressed DEF KeepsTag
  <2>10. IsReply(And(Done(n), d, y), s) BY <2>9, AndIsReply, AnswersAre
  <2> QED BY <2>8, <2>10
<1>6. ASSUME NEW k \in Int PROVE IsReply(write(k), s) /\ IsReply([write(k) EXCEPT !.a = Says("error")], s)
  <2>1. PICK v : v = took(k) OBVIOUS
  <2>2. v \in Reals /\ v.addr = real[d].addr /\ v.on = real[d].on /\ v.tag = real[d].tag BY <1>1, <2>1, TookIs
  <2>3. PICK y : y = DataMoved(v, k) OBVIOUS
  <2>4. y \in Reals /\ y.addr = v.addr /\ y.on = v.on /\ y.tag = v.tag BY <2>2, <2>3, DataMovedIs
  <2>5. PICK new : new = [real EXCEPT ![d] = y] OBVIOUS
  <2>6. Addressed(new, s) BY <1>1, <2>2, <2>4, <2>5, KeptIsAddressed DEF KeepsTag
  <2>7. PICK a : a = Done(k) OBVIOUS
  <2>8. Answered(a) BY <2>7, AnswersAre
  <2>9. And(a, d, y) = [a |-> a, real |-> new, disk |-> disk, data |-> <<>>] BY <2>5, AndIs
  <2>10. PICK w : w = [And(a, d, y) EXCEPT !.disk = [z \in Sectors |-> IF z \in r.pos .. r.pos + k - 1 THEN NewData ELSE @[z]]]
    OBVIOUS
  <2>11. PICK dd : dd = [z \in Sectors |-> IF z \in r.pos .. r.pos + k - 1 THEN NewData ELSE disk[z]] OBVIOUS
  <2>12. w = [a |-> a, real |-> new, disk |-> dd, data |-> <<>>] BY <2>9, <2>10, <2>11
  <2>21. OnDisk(dd, s)
    <3>1. PICK to \in Int : to = r.pos + k - 1 BY <1>4, <1>6 DEF Reals
    <3>2. PICK from \in Int : from = r.pos BY <1>4 DEF Reals
    <3>3. dd = Overwritten(from, to) BY <2>11, <3>1, <3>2 DEF Overwritten
    <3> QED BY <3>3 DEF OnDisk
  <2>13. write(k) = w BY <2>1, <2>3, <2>7, <2>10
  <2> HIDE DEF write
  <2>14. IsReply(w, s)
    <3>1. w.a = a /\ w.real = new /\ w.disk = dd /\ w = [a |-> w.a, real |-> w.real, disk |-> w.disk, data |-> w.data]
      BY <2>12
    <3> QED BY <2>6, <2>8, <2>21, <3>1 DEF IsReply, Answered
  <2>15. PICK b : b = Says("error") OBVIOUS
  <2>16. Answered(b) BY <2>15, AnswersAre
  <2>17. PICK u : u = [w EXCEPT !.a = b] OBVIOUS
  <2>18. u = [a |-> b, real |-> new, disk |-> dd, data |-> <<>>] BY <2>12, <2>17
  <2>19. IsReply(u, s)
    <3>1. u.a = b /\ u.real = new /\ u.disk = dd /\ u = [a |-> u.a, real |-> u.real, disk |-> u.disk, data |-> u.data]
      BY <2>18
    <3> QED BY <2>6, <2>16, <2>21, <3>1 DEF IsReply, Answered
  <2>20. [write(k) EXCEPT !.a = Says("error")] = u BY <2>13, <2>15, <2>17
  <2> QED BY <2>13, <2>14, <2>19, <2>20
<1>7. Left(r) \in Int BY <1>4, LeftIs
<1>8. IsReply(write(n), s) /\ IsReply([write(Left(r)) EXCEPT !.a = Says("error")], s) BY <1>6, <1>7
<1>9. OutReply(s, d, n) =
        IF PID(s) # real[d].tout THEN Just(Done(n))
        ELSE CASE r.phase = "cbw" /\ main.k = 1 -> And(Done(n), d, x)
               [] writes /\ n <= Left(r) -> write(n)
               [] writes /\ n > Left(r) -> [write(Left(r)) EXCEPT !.a = Says("error")]
               [] OTHER -> Just(Says("error"))
  BY <1>3 DEF OutReply
<1> HIDE DEF x, write, took
<1>10. ~(n <= Left(r) /\ n > Left(r)) BY <1>7
<1>11. CASE PID(s) # real[d].tout BY <1>2, <1>9, <1>11
<1>12. CASE PID(s) = real[d].tout /\ r.phase = "cbw" /\ main.k = 1 BY <1>5, <1>9, <1>12
<1>13. CASE PID(s) = real[d].tout /\ writes /\ n <= Left(r) BY <1>8, <1>9, <1>10, <1>13
<1>14. CASE PID(s) = real[d].tout /\ writes /\ n > Left(r) BY <1>8, <1>9, <1>10, <1>14
<1>15. CASE PID(s) = real[d].tout /\ ~(r.phase = "cbw" /\ main.k = 1) /\ ~(writes /\ n <= Left(r)) /\ ~(writes /\ n > Left(r))
  BY <1>2, <1>9, <1>15
<1> QED BY <1>11, <1>12, <1>13, <1>14, <1>15

\* The stick after k packets of data, or the status, were taken from it.
IsData(r) == r.phase = "data" /\ r.cmd # "write"
Sent(r, k) ==
  IF IsData(r) THEN DataMoved([r EXCEPT !.tin = Flipped(@, k)], k)
  ELSE [[r EXCEPT !.tin = Flipped(@, 1)] EXCEPT !.phase = "cbw"]

LEMMA SentIs ==
  ASSUME NEW r \in Reals, NEW k \in Int
  PROVE  Sent(r, k) \in Reals /\ Sent(r, k).addr = r.addr /\ Sent(r, k).on = r.on /\ Sent(r, k).tag = r.tag
<1>1. PICK v : v = [r EXCEPT !.tin = Flipped(@, k)] OBVIOUS
<1>2. PICK w : w = [r EXCEPT !.tin = Flipped(@, 1)] OBVIOUS
<1>3. v \in Reals /\ v.addr = r.addr /\ v.on = r.on /\ v.tag = r.tag BY <1>1, TookIs
<1>4. w \in Reals /\ w.addr = r.addr /\ w.on = r.on /\ w.tag = r.tag BY <1>2, TookIs
<1>5. PICK y : y = DataMoved(v, k) OBVIOUS
<1>6. y \in Reals /\ y.addr = v.addr /\ y.on = v.on /\ y.tag = v.tag BY <1>3, <1>5, DataMovedIs
<1>7. PICK z : z = [w EXCEPT !.phase = "cbw"] OBVIOUS
<1>8. z \in Reals /\ z.addr = w.addr /\ z.on = w.on /\ z.tag = w.tag BY <1>4, <1>7 DEF Reals
<1>9. Sent(r, k) = IF IsData(r) THEN y ELSE z BY <1>1, <1>2, <1>5, <1>7 DEF Sent
<1>10. CASE IsData(r) BY <1>3, <1>6, <1>9, <1>10
<1>11. CASE ~IsData(r) BY <1>4, <1>8, <1>9, <1>11
<1> QED BY <1>10, <1>11

\* What InReply says, in terms of Sent.
InAnswer(r, n) ==
  [Done(IF IsData(r) THEN n ELSE 1) EXCEPT
     !.full = IF IsData(r) THEN main.k = 2 ELSE main.k = Len(Stages(main)) /\ r.phase = "csw" /\ r.tag = host.tag]
InData(r, n) == IF IsData(r) /\ r.cmd = "read" THEN SectorsAt(r.pos, n) ELSE <<>>

LEMMA InReplyIs ==
  ASSUME NEW s, NEW d, NEW n, NEW r, r = real[d]
  PROVE  InReply(s, d, n) =
           IF ~IsData(r) /\ ~(r.phase \in {"csw", "failed"}) THEN Just(Says("silent"))
           ELSE IF PID(s) # r.tin THEN And(Says("error"), d, Sent(r, 1))
           ELSE IF IsData(r) /\ n > Left(r) THEN And(Says("error"), d, Sent(r, Left(r)))
           ELSE [And(InAnswer(r, n), d, Sent(r, n)) EXCEPT !.data = InData(r, n)]
BY DEF InReply, Sent, InAnswer, InData, IsData

LEMMA InAnswerIs ==
  ASSUME NEW r, NEW n \in Int
  PROVE  Answered(InAnswer(r, n))
<1>1. PICK k : k = IF IsData(r) THEN n ELSE 1 OBVIOUS
<1>2. PICK b \in BOOLEAN : b = IF IsData(r) THEN main.k = 2
                               ELSE main.k = Len(Stages(main)) /\ r.phase = "csw" /\ r.tag = host.tag
  OBVIOUS
<1>3. PICK a : a = [Done(k) EXCEPT !.full = b] OBVIOUS
<1>4. a = [st |-> "done", n |-> k, full |-> b] BY <1>3 DEF Done
<1>5. k \in Int BY <1>1
<1>6. Answered(a) BY <1>4, <1>5 DEF Answered
<1>7. InAnswer(r, n) = a BY <1>1, <1>2, <1>3 DEF InAnswer
<1> QED BY <1>6, <1>7

LEMMA InIsReply ==
  ASSUME ToldTypes, NEW s, NEW d, Alone(d, s), NEW n \in Int
  PROVE  IsReply(InReply(s, d, n), s)
<1>1. d \in Devices /\ real[d] \in Reals /\ real \in [Devices -> Reals] BY DEF Alone, ToldTypes
<1>2. IsReply(Just(Says("silent")), s) BY <1>1, AnswersAre, JustIsReply
<1>3. PICK r : r = real[d] OBVIOUS
<1>4. r \in Reals BY <1>1, <1>3
<1>5. Left(r) \in Int BY <1>4, LeftIs
<1>6. ASSUME NEW k \in Int, NEW a, Answered(a)
      PROVE  IsReply(And(a, d, Sent(r, k)), s) /\ IsReply([And(a, d, Sent(r, k)) EXCEPT !.data = InData(r, n)], s)
  <2>1. PICK y : y = Sent(r, k) OBVIOUS
  <2>2. y \in Reals /\ y.addr = real[d].addr /\ y.on = real[d].on /\ y.tag = real[d].tag BY <1>3, <1>4, <2>1, SentIs
  <2>3. PICK new : new = [real EXCEPT ![d] = y] OBVIOUS
  <2>4. Addressed(new, s) BY <1>1, <2>2, <2>3, KeptIsAddressed DEF KeepsTag
  <2>5. IsReply(And(a, d, y), s) BY <1>6, <2>3, <2>4, AndIsReply
  <2>6. And(a, d, y) = [a |-> a, real |-> new, disk |-> disk, data |-> <<>>] BY <2>3, AndIs
  <2>7. PICK dt : dt = InData(r, n) OBVIOUS
  <2>8. PICK u : u = [And(a, d, y) EXCEPT !.data = dt] OBVIOUS
  <2>9. u = [a |-> a, real |-> new, disk |-> disk, data |-> dt] BY <2>6, <2>8
  <2>10. u.a = a /\ u.real = new /\ u.disk = disk /\ u = [a |-> u.a, real |-> u.real, disk |-> u.disk, data |-> u.data]
    BY <2>9
  <2>11. IsReply(u, s) BY <1>6, <2>4, <2>10 DEF IsReply, Answered, OnDisk
  <2> QED BY <2>1, <2>5, <2>7, <2>8, <2>11
<1>7. Answered(Says("error")) /\ Answered(InAnswer(r, n)) BY AnswersAre, InAnswerIs
<1>8. IsReply(And(Says("error"), d, Sent(r, 1)), s) /\ IsReply(And(Says("error"), d, Sent(r, Left(r))), s)
  <2>1. PICK e : e = Says("error") OBVIOUS
  <2>2. Answered(e) BY <1>7, <2>1
  <2>3. \A k \in Int : IsReply(And(e, d, Sent(r, k)), s) BY <1>6, <2>2
  <2>4. 1 \in Int OBVIOUS
  <2> QED BY <1>5, <2>1, <2>3, <2>4
<1>9. IsReply([And(InAnswer(r, n), d, Sent(r, n)) EXCEPT !.data = InData(r, n)], s)
  BY <1>6, <1>7
<1> QED BY <1>2, <1>3, <1>8, <1>9, InReplyIs

LEMMA KeyIsReply ==
  ASSUME ToldTypes, NEW s, NEW d, Alone(d, s), Periodic(s.ep)
  PROVE  IsReply(KeyReply(s, d), s)
<1>1. d \in Devices /\ real[d] \in Reals /\ real \in [Devices -> Reals] BY DEF Alone, ToldTypes
<1>2. IsReply(Just(Says("nak")), s)
  <2>1. PICK r : r = Just(Says("nak")) OBVIOUS
  <2>2. r = [a |-> [st |-> "nak", n |-> 0, full |-> FALSE], real |-> real, disk |-> disk, data |-> <<>>]
    BY <2>1 DEF Just, Says
  <2>3. Addressed(real, s) BY <1>1, SameIsAddressed
  <2>4. r.real = real /\ r.disk = disk /\ r.a.st = "nak" /\ r.a.n = 0 /\ r.a.full = FALSE
        /\ r = [a |-> r.a, real |-> r.real, disk |-> r.disk, data |-> r.data]
    BY <2>2
  <2>6. Addressed(r.real, s) BY <2>3, <2>4
  <2>9. PICK a : a = Says("nak") OBVIOUS
  <2>10. a.n \in Int /\ a.full \in BOOLEAN /\ a.st = "nak" BY <2>9 DEF Says
  <2>11. r.a = a BY <2>1, <2>9 DEF Just
  <2>7. r.a.n \in Int /\ r.a.full \in BOOLEAN /\ (r.a.st = "nak" /\ Periodic(s.ep)) BY <2>10, <2>11
  <2>8. r = [a |-> r.a, real |-> r.real, disk |-> r.disk, data |-> r.data] BY <2>4
  <2>5. IsReply(r, s) BY <2>4, <2>6, <2>7, <2>8 DEF IsReply, OnDisk
  <2> QED BY <2>1, <2>5
<1> DEFINE x == [real[d] EXCEPT !.int = Toggle(@), !.told = keys.held]
<1>3. \A a : Answered(a) => IsReply(And(a, d, x), s)
  <2>1. PICK o : o = Toggle(real[d].int) OBVIOUS
  <2>2. o \in Toggles BY <1>1, <2>1, FlippedIs DEF Reals
  <2>3. PICK v : v = [real[d] EXCEPT !.int = o] OBVIOUS
  <2>4. v \in Reals /\ v.addr = real[d].addr /\ v.on = real[d].on /\ v.tag = real[d].tag BY <1>1, <2>2, <2>3 DEF Reals
  <2>5. PICK h \in BOOLEAN : h = keys.held BY DEF ToldTypes, KeyTypes
  <2>6. PICK y : y = [v EXCEPT !.told = h] OBVIOUS
  <2>7. y \in Reals /\ y.addr = real[d].addr /\ y.on = real[d].on /\ y.tag = real[d].tag BY <2>4, <2>6 DEF Reals
  <2>8. x = y BY <2>1, <2>3, <2>5, <2>6
  <2> HIDE DEF x
  <2>9. Addressed([real EXCEPT ![d] = y], s) BY <1>1, <2>7, KeptIsAddressed DEF KeepsTag
  <2> QED BY <2>8, <2>9, AndIsReply
<1>4. Answered(Done(1)) /\ Answered(Says("error")) BY AnswersAre
<1>5. KeyReply(s, d) = IF keys.held = real[d].told THEN Just(Says("nak"))
                       ELSE And(IF PID(s) = real[d].int THEN Done(1) ELSE Says("error"), d, x)
  BY DEF KeyReply
<1> HIDE DEF x
<1> QED BY <1>2, <1>3, <1>4, <1>5

LEMMA OneListens ==
  ASSUME NEW s, NEW who, who = {x \in Devices : real[x].on /\ real[x].addr = host.addr[s.ep[1]]},
         Cardinality(who) = 1
  PROVE  Alone(CHOOSE x \in who : TRUE, s)
<1>0. IsFiniteSet(Devices) BY UsbBusAssumption, FS_AddElement DEF Devices
<1>1. PICK d : who = {d}
  <2>1. IsFiniteSet(who) BY <1>0, FS_Subset
  <2> QED BY <2>1, FS_Singleton
<1>2. d \in who BY <1>1
<1>3. (CHOOSE x \in who : TRUE) = d BY <1>1
<1> QED BY <1>1, <1>2, <1>3 DEF Alone, Listens

LEMMA ReplyIsOne ==
  ASSUME ToldTypes, NEW s \in Stagings, NEW n \in Int
  PROVE  IsReply(ReplyTo(s, n), s)
<1> DEFINE who == {x \in Devices : real[x].on /\ real[x].addr = host.addr[s.ep[1]]}
           d == CHOOSE x \in who : TRUE
<1>2. ReplyTo(s, n) = IF Cardinality(who) # 1 THEN Just(Says("error"))
                      ELSE CASE s.ep[2] = "control" -> ControlReply(s, d)
                             [] s.ep[2] = "out" -> OutReply(s, d, n)
                             [] s.ep[2] = "in" -> InReply(s, d, n)
                             [] s.ep[2] = "int" -> KeyReply(s, d)
  BY DEF ReplyTo
<1>3. CASE Cardinality(who) # 1
  <2>1. real \in [Devices -> Reals] BY DEF ToldTypes
  <2>2. IsReply(Just(Says("error")), s) BY <2>1, AnswersAre, JustIsReply
  <2> QED BY <1>2, <1>3, <2>2
<1>4. CASE Cardinality(who) = 1
  <2>1. PICK e : e = d OBVIOUS
  <2>2. Alone(e, s) BY <1>4, <2>1, OneListens
  <2>3. s.ep[2] \in {"control", "in", "out", "int"} BY UsbBusAssumption DEF Stagings
  <2>4. Moves(s) \in Int BY DEF Moves, Stagings
  <2> HIDE DEF who, d
  <2>5. CASE s.ep[2] = "control"
    <3>1. IsReply(ControlReply(s, e), s) BY <2>2, <2>4, ControlIsReply
    <3> QED BY <1>2, <1>4, <2>1, <2>5, <3>1
  <2>6. CASE s.ep[2] = "out"
    <3>1. IsReply(OutReply(s, e, n), s) BY <2>2, <2>6, OutIsReply DEF Periodic
    <3> QED BY <1>2, <1>4, <2>1, <2>6, <3>1
  <2>7. CASE s.ep[2] = "in"
    <3>1. IsReply(InReply(s, e, n), s) BY <2>2, InIsReply
    <3> QED BY <1>2, <1>4, <2>1, <2>7, <3>1
  <2>8. CASE s.ep[2] = "int"
    <3>1. IsReply(KeyReply(s, e), s) BY <2>2, <2>8, KeyIsReply DEF Periodic
    <3> QED BY <1>2, <1>4, <2>1, <2>8, <3>1
  <2> QED BY <2>3, <2>5, <2>6, <2>7, <2>8
<1> QED BY <1>3, <1>4

\* Whatever comes of a transaction, spoilt or not.
LEMMA RepliesAre ==
  ASSUME ToldTypes, NEW s \in Stagings, NEW r \in Answers(s) \cup Spoilt(s)
  PROVE  Addressed(r.real, s) /\ Answer(s, r.a) /\ OnDisk(r.disk, s)
<1>1. Moves(s) \in Int BY DEF Moves, Stagings
<1>2. ASSUME NEW n \in Int, NEW q, q = ReplyTo(s, n)
      PROVE  /\ IsReply(q, s)
             /\ Addressed([q EXCEPT !.a = Says("error")].real, s)
             /\ Answer(s, [q EXCEPT !.a = Says("error")].a)
             /\ OnDisk([q EXCEPT !.a = Says("error")].disk, s)
  <2>1. IsReply(q, s) BY <1>2, ReplyIsOne
  <2>2. PICK e : e = Says("error") OBVIOUS
  <2>3. e.n \in Int /\ e.full \in BOOLEAN /\ e.st = "error" BY <2>2 DEF Says
  <2>4. PICK qa, qr, qk, qd : q = [a |-> qa, real |-> qr, disk |-> qk, data |-> qd] BY <2>1 DEF IsReply
  <2>5. PICK u : u = [q EXCEPT !.a = e] OBVIOUS
  <2>6. u = [a |-> e, real |-> qr, disk |-> qk, data |-> qd] BY <2>4, <2>5
  <2>7. u.a = e /\ u.real = qr /\ q.real = qr /\ u.disk = q.disk BY <2>4, <2>6
  <2>10. OnDisk(u.disk, s) BY <2>1, <2>7 DEF IsReply
  <2>8. Addressed(u.real, s) BY <2>1, <2>7 DEF IsReply
  <2>9. Answer(s, u.a) BY <2>3, <2>7 DEF Answer
  <2> QED BY <2>1, <2>2, <2>5, <2>8, <2>9, <2>10
<1>3. ASSUME NEW st, st \in {"halted", "error"} \/ (st = "nyet" /\ s.state = "completeSplit") \/ (s.sub = "disable")
      PROVE  Addressed(Just(Says(st)).real, s) /\ Answer(s, Just(Says(st)).a) /\ OnDisk(Just(Says(st)).disk, s)
  <2>1. PICK e : e = Says(st) OBVIOUS
  <2>2. e.n \in Int /\ e.full \in BOOLEAN /\ e.st = st BY <2>1 DEF Says
  <2>3. Just(e).real = real /\ Just(e).a = e /\ Just(e).disk = disk BY DEF Just
  <2>4. Addressed(real, s) BY SameIsAddressed DEF ToldTypes
  <2>5. Answer(s, e) BY <1>3, <2>2 DEF Answer
  <2> QED BY <2>1, <2>3, <2>4, <2>5 DEF OnDisk
<1>4. CASE r \in Answers(s)
  <2>1. CASE s.sub = "disable"
    <3>1. r = Just(Says("halted")) BY <1>4, <2>1 DEF Answers
    <3> QED BY <1>3, <3>1
  <2>2. CASE s.sub # "disable" /\ s.state = "startSplit"
    <3>1. r = Just(Ack) BY <1>4, <2>2 DEF Answers
    <3>2. Ack.n \in Int /\ Ack.full \in BOOLEAN BY DEF Ack
    <3>3. PICK e : e = Ack OBVIOUS
    <3>4. r.real = real /\ r.a = e /\ r.disk = disk BY <3>1, <3>3 DEF Just
    <3>5. Answer(s, e) BY <2>2, <3>2, <3>3 DEF Answer
    <3>6. Addressed(real, s) BY SameIsAddressed DEF ToldTypes
    <3> QED BY <3>4, <3>5, <3>6 DEF OnDisk
  <2>3. CASE s.sub # "disable" /\ s.state # "startSplit"
    <3>1. r = ReplyTo(s, Moves(s)) /\ r.a.st # "silent" BY <1>4, <2>3 DEF Answers, Reply
    <3>2. PICK n \in Int : n = Moves(s) BY <1>1
    <3>3. IsReply(r, s) BY <3>1, <3>2, ReplyIsOne
    <3> QED BY <3>1, <3>3 DEF IsReply, Answer
  <2> QED BY <2>1, <2>2, <2>3
<1>5. CASE r \in Spoilt(s)
  <2>1. CASE \E x \in {"halted", "error"} : r = Just(Says(x)) BY <1>3, <2>1
  <2>2. CASE s.state = "completeSplit" /\ r = Just(Says("nyet")) BY <1>3, <2>2
  <2>3. CASE r = [Reply(s) EXCEPT !.a = Says("error")]
    <3>1. PICK n \in Int : n = Moves(s) BY <1>1
    <3>2. r = [ReplyTo(s, n) EXCEPT !.a = Says("error")] BY <2>3, <3>1 DEF Reply
    <3> QED BY <1>2, <3>2
  <2>4. CASE \E n \in 1 .. s.left - 1 : r = [ReplyTo(s, n) EXCEPT !.a = Says("error")]
    <3>1. PICK n \in Int : r = [ReplyTo(s, n) EXCEPT !.a = Says("error")] BY <2>4
    <3> QED BY <1>2, <3>1
  <2> QED BY <1>5, <2>1, <2>2, <2>3, <2>4 DEF Spoilt
<1> QED BY <1>4, <1>5

-----------------------------------------------------------------------------
(* The timers. *)

Handlers == Channels \cup {NoHandler, Repeat}

\* The keyboard has the timer that it believes it has.
KeySlots(sl, ks) ==
  /\ sl \in [Slots -> Handlers]
  /\ ks \in [held : BOOLEAN, status : BOOLEAN, timer : 0 .. KERNEL_TIMERS]
  /\ \A i \in Slots : sl[i] = Repeat <=> ks.timer = i

\* The channels wait as before.
SameWaits(new, old) == \A i \in Slots, c \in Channels : new[i] = c <=> old[i] = c

LEMMA HandlersDiffer ==
  /\ Channels \subseteq Nat /\ NoHandler \notin Channels /\ Repeat \notin Channels /\ NoHandler # Repeat
  /\ Slots \subseteq Nat /\ 0 \notin Slots /\ 1 \in Slots /\ 2 \in Slots
BY UsbHostAssumption, TimersAssumption DEF Channels, Slots, NoHandler, Repeat

LEMMA StartTimerIs ==
  ASSUME NEW sl \in [Slots -> Handlers], FreeSlots(sl) # {}, NEW h \in Handlers
  PROVE  /\ Min(FreeSlots(sl)) \in Slots /\ sl[Min(FreeSlots(sl))] = NoHandler
         /\ StartTimer(sl, h) = [sl EXCEPT ![Min(FreeSlots(sl))] = h]
<1>1. FreeSlots(sl) \in SUBSET Nat BY HandlersDiffer DEF FreeSlots
<1>2. Min(FreeSlots(sl)) \in FreeSlots(sl) BY <1>1, MinIsIn
<1> QED BY <1>2 DEF FreeSlots, StartTimer

LEMMA WithTimerKeeps ==
  ASSUME NEW sl, NEW ks, KeySlots(sl, ks), ks.timer = 0
  PROVE  /\ KeySlots(WithTimer(ks, sl).slots, WithTimer(ks, sl).keys)
         /\ SameWaits(WithTimer(ks, sl).slots, sl)
<1>1. sl \in [Slots -> Handlers] /\ Repeat \in Handlers BY DEF KeySlots, Handlers
<1>2. \A i \in Slots : sl[i] # Repeat BY HandlersDiffer DEF KeySlots
<1>3. CASE FreeSlots(sl) = {}
  <2>1. PICK k : k = [ks EXCEPT !.timer = 0] OBVIOUS
  <2>2. k = ks BY <2>1 DEF KeySlots
  <2>3. WithTimer(ks, sl) = [slots |-> sl, keys |-> k] BY <1>3, <2>1 DEF WithTimer, StartTimer
  <2> QED BY <2>2, <2>3 DEF SameWaits
<1>4. CASE FreeSlots(sl) # {}
  <2>1. PICK j : j = Min(FreeSlots(sl)) OBVIOUS
  <2>2. j \in Slots /\ sl[j] = NoHandler /\ StartTimer(sl, Repeat) = [sl EXCEPT ![j] = Repeat]
    BY <1>1, <1>4, <2>1, StartTimerIs
  <2>3. PICK k : k = [ks EXCEPT !.timer = j] OBVIOUS
  <2>4. PICK new : new = [sl EXCEPT ![j] = Repeat] OBVIOUS
  <2>5. WithTimer(ks, sl) = [slots |-> new, keys |-> k] BY <1>4, <2>1, <2>2, <2>3, <2>4 DEF WithTimer
  <2>6. j \in 0 .. KERNEL_TIMERS BY <2>2 DEF Slots
  <2>7. k \in [held : BOOLEAN, status : BOOLEAN, timer : 0 .. KERNEL_TIMERS] /\ k.timer = j
    BY <2>3, <2>6 DEF KeySlots
  <2>8. new \in [Slots -> Handlers] /\ \A i \in Slots : new[i] = IF i = j THEN Repeat ELSE sl[i]
    BY <1>1, <2>2, <2>4
  <2>9. \A i \in Slots : new[i] = Repeat <=> k.timer = i BY <1>2, <2>7, <2>8
  <2>10. SameWaits(new, sl) BY <2>2, <2>8, HandlersDiffer DEF SameWaits
  <2> QED BY <2>5, <2>7, <2>8, <2>9, <2>10 DEF KeySlots
<1> QED BY <1>3, <1>4

LEMMA CancelKeeps ==
  ASSUME NEW sl, NEW ks, KeySlots(sl, ks), NEW i \in Slots, ks.timer = i
  PROVE  /\ KeySlots(CancelTimer(sl, i), [ks EXCEPT !.timer = 0])
         /\ SameWaits(CancelTimer(sl, i), sl)
<1>1. PICK new : new = CancelTimer(sl, i) OBVIOUS
<1>2. PICK k : k = [ks EXCEPT !.timer = 0] OBVIOUS
<1>3. new \in [Slots -> Handlers] /\ \A j \in Slots : new[j] = IF j = i THEN NoHandler ELSE sl[j]
  BY <1>1 DEF CancelTimer, KeySlots, Handlers
<1>4. 0 \in 0 .. KERNEL_TIMERS BY UsbHostAssumption
<1>5. k \in [held : BOOLEAN, status : BOOLEAN, timer : 0 .. KERNEL_TIMERS] /\ k.timer = 0
  BY <1>2, <1>4 DEF KeySlots
<1>6. \A j \in Slots : new[j] = Repeat <=> k.timer = j BY <1>3, <1>5, HandlersDiffer DEF KeySlots
<1>7. sl[i] = Repeat BY DEF KeySlots
<1>8. SameWaits(new, sl) BY <1>3, <1>7, HandlersDiffer DEF SameWaits
<1> QED BY <1>1, <1>2, <1>3, <1>5, <1>6, <1>8 DEF KeySlots

LEMMA StatusKeeps ==
  ASSUME NEW sl, NEW ks, KeySlots(sl, ks)
  PROVE  KeySlots(sl, [ks EXCEPT !.status = ks.held]) /\ [ks EXCEPT !.status = ks.held].timer = ks.timer
<1>1. PICK h \in BOOLEAN : h = ks.held BY DEF KeySlots
<1>2. PICK k : k = [ks EXCEPT !.status = h] OBVIOUS
<1>3. k \in [held : BOOLEAN, status : BOOLEAN, timer : 0 .. KERNEL_TIMERS] /\ k.timer = ks.timer
  BY <1>2 DEF KeySlots
<1>4. KeySlots(sl, k) BY <1>3 DEF KeySlots
<1>5. k = [ks EXCEPT !.status = ks.held] BY <1>1, <1>2
<1> QED BY <1>3, <1>4, <1>5

LEMMA KeyHandlerKeeps ==
  ASSUME KeySlots(slots, keys)
  PROVE  /\ KeySlots(KeyPressedHandlerRaw.slots, KeyPressedHandlerRaw.keys)
         /\ SameWaits(KeyPressedHandlerRaw.slots, slots)
<1>1. PICK ks : ks = [keys EXCEPT !.status = keys.held] OBVIOUS
<1>2. KeySlots(slots, ks) /\ ks.timer = keys.timer BY <1>1, StatusKeeps
<1>3. CASE keys.held /\ keys.timer = 0
  <2>1. KeyPressedHandlerRaw = WithTimer(ks, slots) BY <1>1, <1>3 DEF KeyPressedHandlerRaw
  <2>2. ks.timer = 0 BY <1>2, <1>3
  <2> QED BY <1>2, <2>1, <2>2, WithTimerKeeps
<1>4. CASE ~keys.held /\ keys.timer # 0
  <2>1. PICK i : i = keys.timer OBVIOUS
  <2>2. i \in Slots BY <1>4, <2>1 DEF KeySlots, Slots
  <2>3. KeyPressedHandlerRaw = [slots |-> CancelTimer(slots, i), keys |-> [ks EXCEPT !.timer = 0]]
    BY <1>1, <1>4, <2>1 DEF KeyPressedHandlerRaw
  <2>4. ks.timer = i BY <1>2, <2>1
  <2>5. KeySlots(CancelTimer(slots, i), [ks EXCEPT !.timer = 0]) /\ SameWaits(CancelTimer(slots, i), slots)
    BY <1>2, <2>2, <2>4, CancelKeeps
  <2> QED BY <2>3, <2>5
<1>5. CASE ~(keys.held /\ keys.timer = 0) /\ ~(~keys.held /\ keys.timer # 0)
  <2>1. KeyPressedHandlerRaw = [slots |-> slots, keys |-> ks] BY <1>1, <1>5 DEF KeyPressedHandlerRaw
  <2> QED BY <1>2, <2>1 DEF SameWaits
<1> QED BY <1>3, <1>4, <1>5

LEMMA RepeatTimerKeeps ==
  ASSUME KeySlots(slots, keys), NEW i \in Slots, RepeatTimer(i)
  PROVE  KeySlots(slots', keys') /\ SameWaits(slots', slots)
<1>1. keys.timer = i BY DEF RepeatTimer, KeySlots
<1>2. PICK ks : ks = [keys EXCEPT !.timer = 0] OBVIOUS
<1>3. PICK sl : sl = CancelTimer(slots, i) OBVIOUS
<1>4. KeySlots(sl, ks) /\ SameWaits(sl, slots) BY <1>1, <1>2, <1>3, CancelKeeps
<1>5. ks.timer = 0 BY <1>2 DEF KeySlots
<1>6. CASE keys.status
  <2>1. slots' = WithTimer(ks, sl).slots /\ keys' = WithTimer(ks, sl).keys
    BY <1>2, <1>3, <1>6 DEF RepeatTimer
  <2>2. KeySlots(WithTimer(ks, sl).slots, WithTimer(ks, sl).keys) /\ SameWaits(WithTimer(ks, sl).slots, sl)
    BY <1>4, <1>5, WithTimerKeeps
  <2> QED BY <1>4, <2>1, <2>2 DEF SameWaits
<1>7. CASE ~keys.status
  <2>1. slots' = sl /\ keys' = ks BY <1>2, <1>3, <1>7 DEF RepeatTimer
  <2> QED BY <1>4, <2>1
<1> QED BY <1>6, <1>7

-----------------------------------------------------------------------------
(* The inductive invariant. *)

MainIsPlaced ==
  /\ Placed(main)
  /\ main.at \in Calling => call.op \in {"read", "write"}
  /\ main.at \in {"off", "up"} => ~waiting
  /\ main.at = "off" => main.dev = Hub
  /\ IsCall(call)

\* While devices are found none has a name, and they get theirs in order.
NamesComeInOrder ==
  /\ main.at \in Finding => host.names = {}
  /\ main.at \in Configuring => \A q \in host.names : q < main.dev

\* The main program waits for one channel, which works on what its message
\* asks for, and the keyboard is asked on one.
ChannelsWork ==
  /\ chan \in ChanSet /\ waiting \in BOOLEAN /\ urb \in [status : BOOLEAN, full : BOOLEAN]
  /\ \A c \in Channels : chan[c].state = "delay" => Periodic(chan[c].ep)
  /\ waiting <=> Waited(chan) # {}
  /\ \A c, d \in Waited(chan) : c = d
  /\ \A c \in Waited(chan) : Asked(main, chan[c])
  /\ Kbd \in host.names <=> Polled(chan) # {}
  /\ \A c, d \in Polled(chan) : c = d

\* A channel that waits has one timer.
TimersAgree ==
  /\ KeySlots(slots, keys)
  /\ \A i \in Slots : slots[i] \in Channels => chan[slots[i]].state = "delay"
  /\ \A c \in Channels : chan[c].state = "delay" => \E i \in Slots : slots[i] = c
  /\ \A i, j \in Slots : slots[i] = slots[j] /\ slots[i] \in Channels => i = j

\* The object of a device has address 0 until the device has accepted another,
\* which no device was given before; if one has it already, the answer was lost,
\* and nobody listens to address 0 any more.
AddressesAreNew ==
  /\ real \in [Devices -> Reals]
  /\ \A d \in Devices : real[d].addr < host.next
  /\ \A d, e \in Devices : d # e /\ real[d].addr # 0 => real[d].addr # real[e].addr
  /\ main.at \in {"off", "desc8", "desc", "address"} => host.addr[main.dev] = 0
  /\ main.at = "address" =>
       /\ main.i = host.next - 1 /\ main.i > 0
       /\ (\E d \in Devices : real[d].addr = main.i) => \A d \in Devices : real[d].on => real[d].addr # 0

TablesInv ==
  MainIsPlaced /\ HostTypes /\ NamesComeInOrder /\ ChannelsWork /\ TimersAgree /\ AddressesAreNew

LEMMA KbdIsNotStick == Stick \in Ports => Stick # Kbd
BY OneStickOneKeyboard

\* The main program begins a stage, or finds no channel.
LEMMA TransferKeeps ==
  ASSUME ChannelsWork, TimersAgree, ~waiting, NEW s \in Stagings, ~Periodic(s.ep), s.state # "delay",
         TransferStage(s), Asked(main', s), UNCHANGED <<slots, keys>>,
         Kbd \in host.names <=> Kbd \in host'.names
  PROVE  ChannelsWork' /\ TimersAgree'
<1>0. chan \in ChanSet /\ Waited(chan) = {} /\ urb \in [status : BOOLEAN, full : BOOLEAN] BY DEF ChannelsWork
<1>1. CASE FreeChannels(chan) = {}
  <2>1. waiting' = FALSE /\ urb' = [urb EXCEPT !.status = FALSE] /\ chan' = chan BY <1>1 DEF TransferStage
  <2>2. urb' \in [status : BOOLEAN, full : BOOLEAN] BY <1>0, <2>1
  <2>3. ChannelsWork' BY <1>0, <2>1, <2>2 DEF ChannelsWork
  <2>4. TimersAgree' BY <2>1 DEF TimersAgree
  <2> QED BY <2>3, <2>4
<1>2. CASE FreeChannels(chan) # {}
  <2>1. Submit(chan, s) /\ waiting' = TRUE /\ urb' = urb BY <1>2 DEF TransferStage
  <2>2. PICK c \in Channels, t \in Stagings : chan[c] = Idle /\ Alike(t, s) /\ chan' = [chan EXCEPT ![c] = t]
    BY <1>0, <1>2, <2>1, SubmitOutcome
  <2>3. chan' \in ChanSet /\ chan'[c] = t /\ \A d \in Channels : d # c => chan'[d] = chan[d]
    BY <1>0, <2>2 DEF ChanSet
  <2>4. ~Periodic(t.ep) /\ t.state # "delay" /\ t # Idle BY <2>2, StagingIsBusy DEF Alike
  <2>5. Waited(chan') = {c} BY <1>0, <2>3, <2>4 DEF Waited
  <2>6. Polled(chan') = Polled(chan) BY <2>2, <2>3, <2>4 DEF Polled
  <2>7. Asked(main', t) BY <2>2 DEF Alike, Asked
  <2>8. ChannelsWork'
    <3>1. \A d \in Channels : chan'[d].state = "delay" => Periodic(chan'[d].ep) BY <2>3, <2>4 DEF ChannelsWork
    <3>2. \A d, e \in Polled(chan') : d = e BY <2>6 DEF ChannelsWork
    <3>3. Kbd \in host'.names <=> Polled(chan') # {} BY <2>6 DEF ChannelsWork
    <3>4. \A d \in Waited(chan') : Asked(main', chan'[d]) BY <2>3, <2>5, <2>7
    <3> QED BY <1>0, <2>1, <2>3, <2>5, <3>1, <3>2, <3>3, <3>4 DEF ChannelsWork
  <2>9. TimersAgree'
    <3>1. \A d \in Channels : chan'[d].state = "delay" <=> chan[d].state = "delay"
      BY <2>2, <2>3, <2>4 DEF Idle
    <3>2. slots' = slots /\ keys' = keys OBVIOUS
    <3> QED BY <3>1, <3>2 DEF TimersAgree
  <2> QED BY <2>8, <2>9
<1> QED BY <1>1, <1>2

\* The main program goes on to another message without a stage.
LEMMA RestKeeps ==
  ASSUME ChannelsWork, TimersAgree, ~waiting, UNCHANGED <<chan, waiting, urb, slots, keys>>,
         Kbd \in host.names <=> Kbd \in host'.names
  PROVE  ChannelsWork' /\ TimersAgree'
BY DEF ChannelsWork, TimersAgree

\* The first request to the keyboard.
LEMMA FirstReportKeeps ==
  ASSUME ChannelsWork, TimersAgree, ~waiting, Kbd \notin host.names, Kbd \in host'.names,
         Reports \in Endpoints, Submit(chan, Stage(Reports, TRUE, FALSE, 1)),
         UNCHANGED <<waiting, urb, slots, keys>>
  PROVE  ChannelsWork' /\ TimersAgree'
<1>0. chan \in ChanSet /\ Waited(chan) = {} /\ Polled(chan) = {} BY DEF ChannelsWork
<1>1. \A c \in Channels : chan[c] = Idle BY <1>0 DEF Waited, Polled
<1>2. 0 \in Channels BY UsbHostAssumption DEF Channels
<1>3. FreeChannels(chan) # {} BY <1>1, <1>2 DEF FreeChannels
<1>4. PICK s : s = Stage(Reports, TRUE, FALSE, 1) OBVIOUS
<1>5. s \in Stagings /\ s.ep = Reports /\ s.state # "delay"
  <2>1. PICK e \in Endpoints : e = Reports OBVIOUS
  <2>2. s = Stage(e, TRUE, FALSE, 1) BY <1>4, <2>1
  <2> QED BY <2>1, <2>2 DEF Stage, Stagings
<1>6. Submit(chan, s) BY <1>4
<1>7. PICK c \in Channels, t \in Stagings : chan[c] = Idle /\ Alike(t, s) /\ chan' = [chan EXCEPT ![c] = t]
  BY <1>0, <1>3, <1>5, <1>6, SubmitOutcome
<1>8. chan' \in ChanSet /\ chan'[c] = t /\ \A d \in Channels : d # c => chan'[d] = chan[d]
  BY <1>0, <1>7 DEF ChanSet
<1>9. t.ep = Reports /\ t.state # "delay" /\ t # Idle BY <1>5, <1>7, StagingIsBusy DEF Alike
<1>10. Periodic(t.ep) BY <1>9 DEF Periodic, Reports
<1>11. Polled(chan') = {c} /\ Waited(chan') = {}
  BY <1>1, <1>8, <1>9, <1>10 DEF Waited, Polled
<1>12. ChannelsWork'
  <2>1. \A d \in Channels : chan'[d].state = "delay" => Periodic(chan'[d].ep) BY <1>8, <1>9, <1>10 DEF ChannelsWork
  <2> QED BY <1>8, <1>11, <2>1 DEF ChannelsWork
<1>13. TimersAgree'
  <2>1. \A d \in Channels : chan'[d].state = "delay" <=> chan[d].state = "delay"
    BY <1>1, <1>8, <1>9 DEF Idle
  <2>2. slots' = slots /\ keys' = keys OBVIOUS
  <2> QED BY <2>1, <2>2 DEF TimersAgree
<1> QED BY <1>12, <1>13

\* Whatever an interrupt makes of the stage of a channel.  Before a channel can
\* wait only the keyboard may have a timer.
LEMMA OutcomeKeeps ==
  ASSUME ChannelsWork, TimersAgree, NEW c \in Channels, chan[c] \in Stagings, chan[c].state # "delay",
         NEW a, a.full \in BOOLEAN, NEW sl, NEW ks, KeySlots(sl, ks), SameWaits(sl, slots), Outcome(c, a, sl),
         keys' = ks, main' = main, host' = host
  PROVE  ChannelsWork' /\ TimersAgree'
<1>0. chan \in ChanSet /\ chan[c] # Idle /\ urb \in [status : BOOLEAN, full : BOOLEAN]
  BY StagingIsBusy DEF ChannelsWork
<1>1. c \in (IF Periodic(chan[c].ep) THEN Polled(chan) ELSE Waited(chan))
  BY <1>0 DEF Polled, Waited
<1>2. sl \in [Slots -> Handlers] BY DEF KeySlots
<1>3. \A i \in Slots : sl[i] # c BY DEF SameWaits, TimersAgree
<1>4. \A i \in Slots : sl[i] \in Channels => chan[sl[i]].state = "delay" BY DEF SameWaits, TimersAgree
<1>5. \A d \in Channels : chan[d].state = "delay" => \E i \in Slots : sl[i] = d BY DEF SameWaits, TimersAgree
<1>6. \A i, j \in Slots : sl[i] = sl[j] /\ sl[i] \in Channels => i = j BY DEF SameWaits, TimersAgree
<1>7. CASE GoesOn(c, a, sl)
  <2>1. PICK t \in Stagings :
          /\ t.ep = chan[c].ep /\ t.in = chan[c].in /\ t.status = chan[c].status
          /\ t.state = "delay" => Periodic(t.ep)
          /\ chan' = [chan EXCEPT ![c] = t]
          /\ UNCHANGED <<waiting, urb>>
          /\ slots' = IF t.state = "delay" THEN StartTimer(sl, c) ELSE sl
    BY <1>7 DEF GoesOn
  <2>2. chan' \in ChanSet /\ chan'[c] = t /\ \A d \in Channels : d # c => chan'[d] = chan[d]
    BY <1>0, <2>1 DEF ChanSet
  <2>3. t # Idle BY StagingIsBusy
  <2>4. Waited(chan') = Waited(chan) /\ Polled(chan') = Polled(chan)
    BY <1>0, <2>1, <2>2, <2>3 DEF Waited, Polled
  <2>5. ChannelsWork'
    <3>1. \A d \in Channels : chan'[d].state = "delay" => Periodic(chan'[d].ep)
      BY <2>1, <2>2 DEF ChannelsWork
    <3>2. \A d \in Waited(chan') : Asked(main', chan'[d])
      <4> SUFFICES ASSUME NEW d \in Waited(chan) PROVE Asked(main, chan'[d]) BY <2>4
      <4>1. Asked(main, chan[d]) /\ d \in Channels BY DEF ChannelsWork, Waited
      <4>2. CASE d = c BY <2>1, <2>2, <4>1, <4>2 DEF Asked
      <4>3. CASE d # c BY <2>2, <4>1, <4>3
      <4> QED BY <4>2, <4>3
    <3> QED BY <2>1, <2>2, <2>4, <3>1, <3>2 DEF ChannelsWork
  <2>6. CASE t.state # "delay"
    <3>1. slots' = sl BY <2>1, <2>6
    <3>2. \A d \in Channels : chan'[d].state = "delay" <=> chan[d].state = "delay" BY <2>2, <2>6
    <3> QED BY <1>2, <1>4, <1>5, <1>6, <2>5, <3>1, <3>2 DEF TimersAgree
  <2>7. CASE t.state = "delay"
    <3>1. \A d \in Channels : chan[d].state # "delay"
      <4>1. SUFFICES ASSUME NEW d \in Channels, chan[d].state = "delay" PROVE FALSE OBVIOUS
      <4>2. d \in Polled(chan) BY <4>1 DEF ChannelsWork, Polled, Idle
      <4>3. c \in Polled(chan) BY <1>1, <2>1, <2>7
      <4>4. c = d BY <4>2, <4>3 DEF ChannelsWork
      <4> QED BY <4>1, <4>4
    <3>2. \A i \in Slots : sl[i] \in {NoHandler, Repeat} BY <1>2, <1>4, <3>1 DEF Handlers
    <3>3. FreeSlots(sl) # {}
      <4>1. 1 \in Slots /\ 2 \in Slots BY HandlersDiffer
      <4>2. ~(sl[1] = Repeat /\ sl[2] = Repeat) BY <4>1 DEF KeySlots
      <4> QED BY <3>2, <4>1, <4>2 DEF FreeSlots
    <3>4. PICK j : j = Min(FreeSlots(sl)) OBVIOUS
    <3>5. c \in Handlers BY DEF Handlers
    <3>6. j \in Slots /\ sl[j] = NoHandler /\ StartTimer(sl, c) = [sl EXCEPT ![j] = c]
      BY <1>2, <3>3, <3>4, <3>5, StartTimerIs
    <3>7. slots' = [sl EXCEPT ![j] = c] BY <2>1, <2>7, <3>6
    <3>8. slots' \in [Slots -> Handlers] /\ \A i \in Slots : slots'[i] = IF i = j THEN c ELSE sl[i]
      BY <1>2, <3>5, <3>6, <3>7
    <3>9. KeySlots(slots', keys') BY <3>6, <3>8, HandlersDiffer DEF KeySlots
    <3>10. \A i \in Slots : slots'[i] \in Channels <=> i = j
      BY <3>2, <3>8, HandlersDiffer
    <3>11. slots'[j] = c BY <3>6, <3>8
    <3>12. \A d \in Channels : chan'[d].state = "delay" <=> d = c BY <2>2, <2>7, <3>1
    <3> QED BY <2>5, <3>6, <3>9, <3>10, <3>11, <3>12 DEF TimersAgree
  <2> QED BY <2>6, <2>7
<1>8. CASE IsOver(c, a, sl)
  <2>1. ~Periodic(chan[c].ep) /\ chan' = [chan EXCEPT ![c] = Idle] /\ waiting' = FALSE /\ slots' = sl
    BY <1>8 DEF IsOver
  <2>2. PICK ok \in BOOLEAN : urb' = [status |-> ok, full |-> IF ok /\ ~chan[c].status THEN a.full ELSE urb.full]
    BY <1>8 DEF IsOver
  <2>3. urb' \in [status : BOOLEAN, full : BOOLEAN]
    <3>1. PICK f : f = IF ok /\ ~chan[c].status THEN a.full ELSE urb.full OBVIOUS
    <3>2. f \in BOOLEAN
      <4>1. urb.full \in BOOLEAN BY <1>0
      <4>2. CASE ok /\ ~chan[c].status BY <3>1, <4>2
      <4>3. CASE ~(ok /\ ~chan[c].status) BY <3>1, <4>1, <4>3
      <4> QED BY <4>2, <4>3
    <3> QED BY <2>2, <3>1, <3>2
  <2>4. chan' \in ChanSet /\ chan'[c] = Idle /\ \A d \in Channels : d # c => chan'[d] = chan[d]
    BY <1>0, <2>1 DEF ChanSet
  <2>5. Waited(chan') = {} /\ Polled(chan') = Polled(chan)
    <3>1. \A d \in Waited(chan) : d = c BY <1>1, <2>1 DEF ChannelsWork
    <3>2. Waited(chan') = {} BY <2>4, <3>1 DEF Waited
    <3>3. Polled(chan') = Polled(chan) BY <2>1, <2>4 DEF Polled
    <3> QED BY <3>2, <3>3
  <2>6. \A d \in Channels : chan'[d].state = "delay" <=> chan[d].state = "delay" BY <2>4 DEF Idle
  <2>7. ChannelsWork'
    <3>1. \A d \in Channels : chan'[d].state = "delay" => Periodic(chan'[d].ep)
      BY <2>4, <2>6 DEF ChannelsWork
    <3> QED BY <2>1, <2>3, <2>4, <2>5, <3>1 DEF ChannelsWork
  <2> QED BY <1>2, <1>4, <1>5, <1>6, <2>1, <2>6, <2>7 DEF TimersAgree
<1>9. CASE AsksAgain(c, sl)
  <2>1. Periodic(chan[c].ep) /\ UNCHANGED <<waiting, urb>> /\ slots' = sl BY <1>9 DEF AsksAgain
  <2>2. PICK b \in Channels, t \in Stagings :
          /\ b = c \/ chan[b] = Idle
          /\ chan' = [[chan EXCEPT ![c] = Idle] EXCEPT ![b] = t]
          /\ t.ep = chan[c].ep /\ t.state # "delay"
    BY <1>9 DEF AsksAgain
  <2>3. chan' \in ChanSet /\ \A d \in Channels : chan'[d] = IF d = b THEN t ELSE IF d = c THEN Idle ELSE chan[d]
    BY <1>0, <2>2 DEF ChanSet
  <2>4. t # Idle BY StagingIsBusy
  <2>5. Waited(chan') = Waited(chan) /\ Polled(chan') = {b}
    <3>1. \A d \in Polled(chan) : d = c BY <1>1, <2>1 DEF ChannelsWork
    <3>2. Waited(chan') = Waited(chan) BY <2>1, <2>2, <2>3 DEF Waited
    <3>4. b \in Polled(chan')
      <4>1. chan'[b] = t BY <2>3
      <4>2. Periodic(t.ep) BY <2>1, <2>2
      <4> QED BY <2>4, <4>1, <4>2 DEF Polled
    <3>5. ASSUME NEW d \in Polled(chan'), d # b PROVE FALSE
      <4>1. d \in Channels /\ chan'[d] # Idle /\ Periodic(chan'[d].ep) BY <3>5 DEF Polled
      <4>2. d # c /\ chan'[d] = chan[d] BY <2>3, <3>5, <4>1
      <4>3. d \in Polled(chan) BY <4>1, <4>2 DEF Polled
      <4> QED BY <3>1, <4>2, <4>3
    <3>3. Polled(chan') = {b} BY <3>4, <3>5
    <3> QED BY <3>2, <3>3
  <2>6. ASSUME NEW d \in Channels PROVE chan'[d].state = "delay" <=> chan[d].state = "delay"
    <3>1. Idle.state # "delay" BY DEF Idle
    <3>2. CASE d = b
      <4>1. chan'[d].state # "delay" BY <2>2, <2>3, <3>2
      <4>2. chan[d].state # "delay" BY <2>2, <3>1, <3>2
      <4> QED BY <4>1, <4>2
    <3>3. CASE d # b /\ d = c BY <2>3, <3>1, <3>3
    <3>4. CASE d # b /\ d # c BY <2>3, <3>4
    <3> QED BY <3>2, <3>3, <3>4
  <2>7. ChannelsWork'
    <3>1. \A d \in Channels : chan'[d].state = "delay" => Periodic(chan'[d].ep)
      <4> SUFFICES ASSUME NEW d \in Channels, chan'[d].state = "delay" PROVE Periodic(chan'[d].ep) OBVIOUS
      <4>1. chan[d].state = "delay" BY <2>6
      <4>2. d # c /\ d # b BY <2>2, <2>3, <4>1 DEF Idle
      <4> QED BY <2>3, <4>1, <4>2 DEF ChannelsWork
    <3>2. \A d \in Waited(chan) : chan'[d] = chan[d] BY <2>1, <2>2, <2>3 DEF Waited
    <3>3. Polled(chan) # {} BY <1>1, <2>1
    <3> QED BY <2>1, <2>3, <2>5, <3>1, <3>2, <3>3 DEF ChannelsWork
  <2> QED BY <1>2, <1>4, <1>5, <1>6, <2>1, <2>6, <2>7 DEF TimersAgree
<1> QED BY <1>7, <1>8, <1>9 DEF Outcome

\* An interval is over.
LEMMA IntervalKeeps ==
  ASSUME ChannelsWork, TimersAgree, NEW i \in Slots, DelayIsOver(i), UNCHANGED <<main, host, keys>>
  PROVE  ChannelsWork' /\ TimersAgree'
<1>0. chan \in ChanSet BY DEF ChannelsWork
<1>1. PICK c : c = slots[i] OBVIOUS
<1>2. c \in Channels BY <1>1 DEF DelayIsOver
<1>3. chan[c].state = "delay" BY <1>1, <1>2 DEF TimersAgree
<1>4. chan[c] \in Stagings /\ chan[c] # Idle /\ Periodic(chan[c].ep)
  <2>1. chan[c] # Idle BY <1>3 DEF Idle
  <2> QED BY <1>0, <1>2, <1>3, <2>1 DEF ChanSet, ChannelsWork
<1>5. PICK state : state = IF chan[c].ep \in SplitEps THEN "startSplit" ELSE "noSplit" OBVIOUS
<1>6. PICK s : s = [chan[c] EXCEPT !.state = state] OBVIOUS
<1>7. s \in Stagings /\ s.ep = chan[c].ep /\ s.state # "delay" BY <1>4, <1>5, <1>6 DEF Stagings
<1>8. Restart(c, s) /\ slots' = CancelTimer(slots, i) BY <1>1, <1>5, <1>6 DEF DelayIsOver
<1>9. PICK t \in Started(c, s) : chan' = [chan EXCEPT ![c] = t] BY <1>8 DEF Restart
<1>10. t \in Stagings /\ t.ep = chan[c].ep /\ t.state # "delay" BY <1>7, <1>9, StartedIsAlike DEF Alike
<1>11. chan' \in ChanSet /\ chan'[c] = t /\ \A d \in Channels : d # c => chan'[d] = chan[d]
  BY <1>0, <1>2, <1>9, <1>10 DEF ChanSet
<1>12. t # Idle BY <1>10, StagingIsBusy
<1>13. Waited(chan') = Waited(chan) /\ Polled(chan') = Polled(chan) /\ c \notin Waited(chan)
  BY <1>4, <1>10, <1>11, <1>12 DEF Waited, Polled
<1>14. ChannelsWork'
  <2>1. \A d \in Channels : chan'[d].state = "delay" => Periodic(chan'[d].ep) BY <1>10, <1>11 DEF ChannelsWork
  <2>2. \A d \in Waited(chan) : chan'[d] = chan[d] BY <1>11, <1>13 DEF Waited
  <2>3. waiting' = waiting /\ urb' = urb BY <1>8 DEF Restart
  <2> QED BY <1>11, <1>13, <2>1, <2>2, <2>3 DEF ChannelsWork
<1>15. TimersAgree'
  <2>1. KeySlots(slots, keys) /\ slots \in [Slots -> Handlers] BY DEF TimersAgree, KeySlots
  <2>2. slots' \in [Slots -> Handlers] /\ \A j \in Slots : slots'[j] = IF j = i THEN NoHandler ELSE slots[j]
    BY <1>8, <2>1 DEF CancelTimer, Handlers
  <2>3. KeySlots(slots', keys') BY <1>1, <1>2, <2>1, <2>2, HandlersDiffer DEF KeySlots
  <2>4. \A j \in Slots : slots[j] = c => j = i BY <1>1, <1>2 DEF TimersAgree
  <2>5. \A d \in Channels : chan'[d].state = "delay" <=> d # c /\ chan[d].state = "delay" BY <1>10, <1>11
  <2>6. \A j \in Slots : slots'[j] \in Channels <=> j # i /\ slots[j] \in Channels BY <2>2, HandlersDiffer
  <2>7. \A j \in Slots : slots'[j] \in Channels => slots'[j] = slots[j] /\ slots[j] # c BY <2>2, <2>4, <2>6
  <2>8. \A j \in Slots : slots'[j] \in Channels => chan'[slots'[j]].state = "delay" BY <2>5, <2>7 DEF TimersAgree
  <2>9. \A d \in Channels : chan'[d].state = "delay" => \E j \in Slots : slots'[j] = d
    <3> SUFFICES ASSUME NEW d \in Channels, d # c, chan[d].state = "delay" PROVE \E j \in Slots : slots'[j] = d
      BY <2>5
    <3>1. PICK j \in Slots : slots[j] = d BY DEF TimersAgree
    <3>2. j # i BY <1>1, <3>1
    <3> QED BY <2>2, <3>1, <3>2
  <2>10. \A j, k \in Slots : slots'[j] = slots'[k] /\ slots'[j] \in Channels => j = k
    BY <2>7 DEF TimersAgree
  <2> QED BY <2>3, <2>8, <2>9, <2>10 DEF TimersAgree
<1> QED BY <1>14, <1>15

\* The repeat of a key, and the key.
LEMMA KeysKeep ==
  ASSUME ChannelsWork, TimersAgree, UNCHANGED <<chan, waiting, urb, main, host>>,
         KeySlots(slots', keys'), SameWaits(slots', slots)
  PROVE  ChannelsWork' /\ TimersAgree'
<1>1. ChannelsWork' BY DEF ChannelsWork
<1>2. \A i \in Slots : slots'[i] \in Channels => chan'[slots'[i]].state = "delay" BY DEF SameWaits, TimersAgree
<1>3. \A d \in Channels : chan'[d].state = "delay" => \E i \in Slots : slots'[i] = d BY DEF SameWaits, TimersAgree
<1>4. \A i, j \in Slots : slots'[i] = slots'[j] /\ slots'[i] \in Channels => i = j BY DEF SameWaits, TimersAgree
<1> QED BY <1>1, <1>2, <1>3, <1>4 DEF TimersAgree

-----------------------------------------------------------------------------
(* The steps. *)

Hosts ==
  [addr : [Devices -> Nat], next : Nat \ {0}, found : SUBSET Devices, names : SUBSET Ports, tag : Nat]

\* What a message leaves in the objects of the devices.
Leaves(m, ok, next, h) ==
  /\ h \in Hosts
  /\ h.next = IF m.at = "desc" /\ ok THEN host.next + 1 ELSE host.next
  /\ h.names = IF m.at \in {"protocol", "capacity"} /\ ok THEN host.names \cup {m.dev} ELSE host.names
  /\ h.addr = CASE m.at = "status2" -> [host.addr EXCEPT ![m.dev] = 0]
                [] m.at = "address" /\ ok -> [host.addr EXCEPT ![m.dev] = m.i]
                [] OTHER -> host.addr
  /\ h.tag = IF next.at \in Commands THEN host.tag + 1 ELSE host.tag

LEMMA HostAfterIs ==
  ASSUME HostTypes, NEW m, Placed(m), m.at = "address" => m.i \in Nat, NEW ok \in BOOLEAN, NEW next,
         NEW h, h = HostAfter(m, ok, next)
  PROVE  Leaves(m, ok, next, h)
<1>1. host \in Hosts /\ m.dev \in Devices /\ 0 \in Nat BY DEF HostTypes, Hosts, Placed, Messages
<1>2. PICK o : o = ObjectsAfter(m, ok) OBVIOUS
<1> DEFINE Next2 == IF m.at = "desc" /\ ok THEN host.next + 1 ELSE host.next
           Names2 == IF m.at \in {"protocol", "capacity"} /\ ok THEN host.names \cup {m.dev} ELSE host.names
           Addr2 == CASE m.at = "status2" -> [host.addr EXCEPT ![m.dev] = 0]
                      [] m.at = "address" /\ ok -> [host.addr EXCEPT ![m.dev] = m.i]
                      [] OTHER -> host.addr
           Is(x) == x \in Hosts /\ x.next = Next2 /\ x.names = Names2 /\ x.addr = Addr2 /\ x.tag = host.tag
<1>3. Is(o)
  <2>1. CASE m.at = "status2"
    <3>1. PICK f : f = [host.addr EXCEPT ![m.dev] = 0] OBVIOUS
    <3>2. f \in [Devices -> Nat] BY <1>1, <3>1 DEF Hosts
    <3>3. o = [host EXCEPT !.addr = f] BY <1>2, <2>1, <3>1 DEF ObjectsAfter
    <3> QED BY <1>1, <2>1, <3>1, <3>2, <3>3 DEF Hosts
  <2>2. CASE m.at = "desc" /\ ok
    <3>1. o = [host EXCEPT !.next = host.next + 1] BY <1>2, <2>2 DEF ObjectsAfter
    <3>2. host.next + 1 \in Nat \ {0} BY <1>1 DEF Hosts
    <3> QED BY <1>1, <2>2, <3>1, <3>2 DEF Hosts
  <2>3. CASE m.at = "address" /\ ok
    <3>1. PICK f : f = [host.addr EXCEPT ![m.dev] = m.i] OBVIOUS
    <3>2. f \in [Devices -> Nat] BY <1>1, <2>3, <3>1 DEF Hosts
    <3>3. o = [host EXCEPT !.addr = f] BY <1>2, <2>3, <3>1 DEF ObjectsAfter
    <3> QED BY <1>1, <2>3, <3>1, <3>2, <3>3 DEF Hosts
  <2>4. CASE m.at = "conf" /\ ok /\ IsValid(m.dev)
    <3>1. o = [host EXCEPT !.found = host.found \cup {m.dev}] BY <1>2, <2>4 DEF ObjectsAfter
    <3>2. host.found \cup {m.dev} \in SUBSET Devices BY <1>1 DEF Hosts
    <3> QED BY <1>1, <2>4, <3>1, <3>2 DEF Hosts
  <2>5. CASE m.at \in {"protocol", "capacity"} /\ ok
    <3>1. o = [host EXCEPT !.names = host.names \cup {m.dev}] BY <1>2, <2>5 DEF ObjectsAfter
    <3>2. host.names \cup {m.dev} \in SUBSET Ports BY <1>1, <2>5 DEF Hosts, Placed
    <3> QED BY <1>1, <2>5, <3>1, <3>2 DEF Hosts
  <2>6. CASE m.at # "status2" /\ ~(m.at = "desc" /\ ok) /\ ~(m.at = "address" /\ ok)
             /\ ~(m.at = "conf" /\ ok /\ IsValid(m.dev)) /\ ~(m.at \in {"protocol", "capacity"} /\ ok)
    <3>1. o = host BY <1>2, <2>6 DEF ObjectsAfter
    <3> QED BY <1>1, <2>6, <3>1
  <2> QED BY <2>1, <2>2, <2>3, <2>4, <2>5, <2>6
<1>4. h = IF next.at \in Commands THEN [o EXCEPT !.tag = o.tag + 1] ELSE o BY <1>2 DEF HostAfter
<1> HIDE DEF Next2, Names2, Addr2
<1>5. CASE next.at \in Commands
  <2>1. h = [o EXCEPT !.tag = host.tag + 1] BY <1>3, <1>4, <1>5
  <2>2. host.tag + 1 \in Nat BY <1>1 DEF Hosts
  <2>3. h \in Hosts /\ h.next = Next2 /\ h.names = Names2 /\ h.addr = Addr2 /\ h.tag = host.tag + 1
    BY <1>3, <2>1, <2>2 DEF Hosts
  <2> QED BY <1>5, <2>3 DEF Next2, Names2, Addr2, Leaves
<1>6. CASE next.at \notin Commands
  <2>1. h = o BY <1>4, <1>6
  <2> QED BY <1>3, <1>6, <2>1 DEF Next2, Names2, Addr2, Leaves
<1> QED BY <1>5, <1>6

LEMMA FirstStageIs ==
  ASSUME NEW n, Placed(n), n.k = 1, call.n \in Int, NEW s, s = Stages(n)[1]
  PROVE  /\ s \in Stagings /\ ~Periodic(s.ep) /\ s.state # "delay" /\ s.left = 1 /\ Asked(n, s)
         /\ s.state = "noSplit" <=> s.ep \notin SplitEps
<1>1. n.dev \in Devices BY DEF Placed, Messages
<1>2. Packets(n) \in Int BY DEF Packets
<1>3. Len(Stages(n)) \in {2, 3} /\ 1 \in 1 .. Len(Stages(n)) BY <1>1, <1>2, StagesAre
<1>4. /\ s \in Stagings /\ s.state # "delay" /\ s.ep = EpOf(n, 1) /\ (s.status <=> StatusAt(n, 1)) /\ s.left = 1
      /\ s.state = "noSplit" <=> s.ep \notin SplitEps
  BY <1>1, <1>2, <1>3, StagesAre
<1>5. ~Periodic(s.ep) BY <1>1, <1>4, EpOfIsEndpoint
<1> QED BY <1>4, <1>5 DEF Asked

\* Another stage of the same message.
LEMMA NextStageGoesOn ==
  ASSUME TablesInv, main.at \notin {"off", "dead", "up"}, ~waiting, main.k < Len(Stages(main)),
         NEW all \in BOOLEAN, main' = [main EXCEPT !.k = @ + 1, !.all = all],
         TransferStage(Stages(main)[main.k + 1]),
         UNCHANGED <<nextPID, faults, call, last, host, slots, real, disk, keys, bound>>
  PROVE  TablesInv'
<1>1. main \in Messages /\ main.dev \in Devices /\ call.n \in Int
  BY DEF TablesInv, MainIsPlaced, Placed, Messages, IsCall
<1>2. Packets(main) \in Int BY <1>1 DEF Packets
<1>3. PICK k : k = main.k + 1 OBVIOUS
<1>4. Len(Stages(main)) \in {2, 3} BY <1>1, <1>2, StagesAre
<1>5. k \in 1 .. Len(Stages(main)) /\ k \in {1, 2, 3} BY <1>1, <1>3, <1>4 DEF Messages
<1>6. PICK s : s = Stages(main)[k] OBVIOUS
<1>7. s \in Stagings /\ s.state # "delay" /\ s.ep = EpOf(main, k) /\ (s.status <=> StatusAt(main, k))
  BY <1>1, <1>2, <1>5, <1>6, StagesAre
<1>8. ~Periodic(s.ep) BY <1>1, <1>7, EpOfIsEndpoint
<1>9. PICK v : v = [main EXCEPT !.k = k] OBVIOUS
<1>10. v \in Messages /\ v.at = main.at /\ v.dev = main.dev /\ v.i = main.i /\ v.k = k
  BY <1>1, <1>5, <1>9 DEF Messages
<1>11. main' = [v EXCEPT !.all = all] BY <1>3, <1>9
<1>12. main' \in Messages /\ main'.at = main.at /\ main'.dev = main.dev /\ main'.i = main.i /\ main'.k = k
  BY <1>10, <1>11 DEF Messages
<1>13. Asked(main', s) BY <1>5, <1>7, <1>12 DEF Asked, EpOf, StatusAt
<1>14. TransferStage(s) BY <1>3, <1>6
<1>15. ChannelsWork' /\ TimersAgree' BY <1>7, <1>8, <1>13, <1>14, TransferKeeps DEF TablesInv
<1>16. MainIsPlaced' BY <1>12 DEF TablesInv, MainIsPlaced, Placed
<1>17. HostTypes' /\ NamesComeInOrder' BY <1>12 DEF TablesInv, HostTypes, NamesComeInOrder
<1>18. AddressesAreNew' BY <1>12 DEF TablesInv, AddressesAreNew
<1> QED BY <1>15, <1>16, <1>17, <1>18 DEF TablesInv

\* What another message, and what has come, change in the call.
LEMMA BufIs ==
  ASSUME IsCall(call), NEW b, NEW new, new = [call EXCEPT !.buf = b]
  PROVE  IsCall(new) /\ new.op = call.op /\ new.at = call.at /\ new.n = call.n /\ new.buf = b
<1>1. PICK op, at, n, tries, before, buf :
        call = [op |-> op, at |-> at, n |-> n, tries |-> tries, before |-> before, buf |-> buf]
  BY DEF IsCall
<1>2. new = [op |-> op, at |-> at, n |-> n, tries |-> tries, before |-> before, buf |-> b] BY <1>1
<1> QED BY <1>1, <1>2 DEF IsCall

LEMMA CallAfterIs ==
  ASSUME IsCall(call), NEW m, NEW next, NEW new, new = CallAfter(m, next)
  PROVE  /\ IsCall(new) /\ new.op = call.op /\ new.at = call.at /\ new.n = call.n
         /\ new.buf = IF m.at = "halt2" /\ next.at # "up" THEN <<>> ELSE call.buf
<1>1. PICK op, at, n, tries, before, buf :
        call = [op |-> op, at |-> at, n |-> n, tries |-> tries, before |-> before, buf |-> buf]
  BY DEF IsCall
<1>2. CASE m.at = "halt2" /\ next.at # "up"
  <2>1. PICK t : t = tries - 1 OBVIOUS
  <2>2. PICK v : v = [call EXCEPT !.tries = t] OBVIOUS
  <2>3. v = [op |-> op, at |-> at, n |-> n, tries |-> t, before |-> before, buf |-> buf] BY <1>1, <2>2
  <2>4. new = [v EXCEPT !.buf = <<>>] BY <1>1, <1>2, <2>1, <2>2 DEF CallAfter
  <2>5. new = [op |-> op, at |-> at, n |-> n, tries |-> t, before |-> before, buf |-> <<>>] BY <2>3, <2>4
  <2> QED BY <1>1, <1>2, <2>5 DEF IsCall
<1>3. CASE ~(m.at = "halt2" /\ next.at # "up")
  <2>1. new = call BY <1>3 DEF CallAfter
  <2> QED BY <1>3, <2>1
<1> QED BY <1>2, <1>3

\* The next message.
LEMMA NextMessage ==
  ASSUME TablesInv, main.at \notin {"off", "dead", "up"}, ~waiting,
         NEW ok \in BOOLEAN, NEW over, NEW next, next = Follow(main, ok, over),
         main' = IF main.at = "protocol" /\ ok THEN [next EXCEPT !.k = 0] ELSE next,
         host' = HostAfter(main, ok, next), call' = CallAfter(main, next),
         CASE main.at = "protocol" /\ ok -> Submit(chan, Stage(Reports, TRUE, FALSE, 1)) /\ UNCHANGED <<waiting, urb>>
           [] ~(main.at = "protocol" /\ ok) /\ next.at = "up" -> UNCHANGED <<chan, waiting, urb>>
           [] OTHER -> TransferStage(Stages(next)[1]),
         UNCHANGED <<slots, real, disk, keys, bound>>
  PROVE  TablesInv'
<1>1. Placed(main) /\ HostTypes /\ main \in Messages /\ main.dev \in Devices /\ main.dev \in Nat
  BY PortsAreNumbers DEF TablesInv, MainIsPlaced, Placed, Messages
<1>2. main.at = "address" => main.i \in Nat
  <2> SUFFICES ASSUME main.at = "address" PROVE main.i \in Nat OBVIOUS
  <2>1. main.i \in Int /\ main.i > 0 BY <1>1 DEF TablesInv, AddressesAreNew, Messages
  <2> QED BY <2>1
<1>3. Follows(main, ok, next) BY <1>1, FollowFollows DEF TablesInv, MainIsPlaced
<1>4. PICK h : h = HostAfter(main, ok, next) OBVIOUS
<1>51. Leaves(main, ok, next, h) BY <1>1, <1>2, <1>4, HostAfterIs
<1>5. /\ h \in Hosts
      /\ h.next = IF main.at = "desc" /\ ok THEN host.next + 1 ELSE host.next
      /\ h.names = IF main.at \in {"protocol", "capacity"} /\ ok THEN host.names \cup {main.dev} ELSE host.names
      /\ h.addr = CASE main.at = "status2" -> [host.addr EXCEPT ![main.dev] = 0]
                    [] main.at = "address" /\ ok -> [host.addr EXCEPT ![main.dev] = main.i]
                    [] OTHER -> host.addr
  BY <1>51 DEF Leaves
<1>6. host' = h BY <1>4
<1>7. HostTypes' BY <1>5, <1>6 DEF HostTypes, Hosts
<1>8. Placed(next) /\ next \in Messages /\ next.k = 1 BY <1>3 DEF Follows, Placed
<1>9. main'.at = next.at /\ main'.dev = next.dev /\ main'.i = next.i /\ main' \in Messages
  <2>1. CASE main.at = "protocol" /\ ok
    <3>1. PICK v : v = [next EXCEPT !.k = 0] OBVIOUS
    <3>2. v \in Messages /\ v.at = next.at /\ v.dev = next.dev /\ v.i = next.i BY <1>8, <3>1 DEF Messages
    <3>3. main' = v BY <2>1, <3>1
    <3> QED BY <3>2, <3>3
  <2>2. CASE ~(main.at = "protocol" /\ ok) BY <1>8, <2>2
  <2> QED BY <2>1, <2>2
<1>10. IsCall(call) BY DEF TablesInv, MainIsPlaced
<1>11. IsCall(call') /\ call'.op = call.op
  <2>1. PICK new : new = CallAfter(main, next) OBVIOUS
  <2>2. IsCall(new) /\ new.op = call.op BY <1>10, <2>1, CallAfterIs
  <2> QED BY <2>1, <2>2
<1>12. main.at \in {"protocol", "capacity"} => main.dev \in Ports /\ main.dev = IF main.at = "protocol" THEN Kbd ELSE Stick
  BY <1>1 DEF Placed
<1>13. NamesComeInOrder'
  <2>1. main.at \in Finding => host.names = {} BY DEF TablesInv, NamesComeInOrder
  <2>2. main.at \in Configuring => \A q \in host.names : q < main.dev BY DEF TablesInv, NamesComeInOrder
  <2>3. host.names \subseteq Ports BY <1>1 DEF HostTypes
  <2>4. ASSUME next.at \in Finding PROVE h.names = {}
    <3>1. CASE main.at \in Finding BY <1>5, <2>1, <3>1
    <3>2. CASE main.at = "setConf" /\ main.dev = Hub
      <4>1. \A q \in host.names : q < 0 BY <2>2, <3>2 DEF Hub
      <4>2. host.names = {} BY <2>3, <4>1, PortsAreNumbers
      <4> QED BY <1>5, <3>2, <4>2
    <3> QED BY <1>3, <2>4, <3>1, <3>2 DEF Follows
  <2>5. ASSUME next.at \in Configuring PROVE \A q \in h.names : q < next.dev
    <3>1. CASE main.at \in Finding BY <1>5, <2>1, <3>1
    <3>2. CASE main.at \in Configuring \ {"protocol", "capacity"} /\ next.dev = main.dev BY <1>5, <2>2, <3>2
    <3>3. CASE main.at \in Configuring /\ main.dev < next.dev
      <4>1. next.dev \in Nat BY <1>8, PortsAreNumbers DEF Messages
      <4>2. \A q \in host.names : q \in Nat /\ q < main.dev BY <2>2, <2>3, <3>3, PortsAreNumbers
      <4>3. \A q \in h.names : q \in host.names \/ q = main.dev BY <1>5
      <4> QED BY <1>1, <3>3, <4>1, <4>2, <4>3
    <3> QED BY <1>3, <2>5, <3>1, <3>2, <3>3 DEF Follows
  <2> QED BY <1>6, <1>9, <2>4, <2>5 DEF NamesComeInOrder
<1>14. AddressesAreNew'
  <2>1. h.next \in Nat /\ h.next >= host.next /\ host.next \in Nat \ {0} BY <1>1, <1>5 DEF HostTypes, Hosts
  <2>2. \A d \in Devices : real[d].addr \in Nat /\ real[d].addr < host.next
    BY DEF TablesInv, AddressesAreNew, Reals
  <2>3. \A d \in Devices : real[d].addr < h.next BY <2>1, <2>2
  <2>4. next.at \in {"desc8", "desc", "address"} => h.addr[next.dev] = 0
    <3>1. CASE next.at = "desc8"
      <4>1. main.at = "status2" /\ next.dev = main.dev BY <1>3, <3>1 DEF Follows
      <4>2. h.addr = [host.addr EXCEPT ![main.dev] = 0] BY <1>5, <4>1
      <4>3. host.addr \in [Devices -> Nat] BY <1>1 DEF HostTypes
      <4> QED BY <1>1, <4>1, <4>2, <4>3
    <3>2. CASE next.at \in {"desc", "address"}
      <4>1. main.at \in {"desc8", "desc"} /\ next.dev = main.dev BY <1>3, <3>2 DEF Follows
      <4>2. h.addr = host.addr BY <1>5, <4>1
      <4>3. host.addr[main.dev] = 0 BY <4>1 DEF TablesInv, AddressesAreNew
      <4> QED BY <4>1, <4>2, <4>3
    <3> QED BY <3>1, <3>2
  <2>5. next.at = "address" => next.i = h.next - 1 /\ next.i > 0 /\ ~\E d \in Devices : real[d].addr = next.i
    <3> SUFFICES ASSUME next.at = "address"
                 PROVE next.i = h.next - 1 /\ next.i > 0 /\ ~\E d \in Devices : real[d].addr = next.i
      OBVIOUS
    <3>1. main.at = "desc" /\ ok /\ next.i = host.next BY <1>3 DEF Follows
    <3>2. h.next = host.next + 1 BY <1>5, <3>1
    <3>3. PICK n \in Nat \ {0} : n = host.next BY <2>1
    <3>4. next.i = n /\ h.next = n + 1 BY <3>1, <3>2, <3>3
    <3>5. next.i = h.next - 1 /\ next.i > 0 BY <3>4
    <3>6. \A d \in Devices : real[d].addr # next.i BY <2>2, <3>3, <3>4
    <3> QED BY <3>5, <3>6
  <2>6. next.at # "off" BY <1>3 DEF Follows
  <2>7. real' = real /\ host' = h BY <1>6
  <2> QED BY <1>9, <2>3, <2>4, <2>5, <2>6, <2>7 DEF TablesInv, AddressesAreNew
<1>15. ChannelsWork /\ TimersAgree BY DEF TablesInv
<1>16. CASE main.at = "protocol" /\ ok
  <2>1. Submit(chan, Stage(Reports, TRUE, FALSE, 1)) /\ UNCHANGED <<waiting, urb>> BY <1>16
  <2>2. main.dev = Kbd /\ Kbd \in Ports BY <1>12, <1>16
  <2>3. Kbd \in host'.names BY <1>5, <1>6, <1>16, <2>2
  <2>4. Kbd \notin host.names
    <3>1. \A q \in host.names : q < main.dev BY <1>16 DEF TablesInv, NamesComeInOrder
    <3> QED BY <1>1, <2>2, <3>1
  <2>5. Reports \in Endpoints BY <2>2, UsbBusAssumption, PortsAreNumbers DEF Reports
  <2>6. ChannelsWork' /\ TimersAgree' BY <1>15, <2>1, <2>3, <2>4, <2>5, FirstReportKeeps
  <2>7. next.at # "up" /\ next.at # "off" BY <1>3, <1>16 DEF Follows
  <2>8. MainIsPlaced' BY <1>3, <1>8, <1>9, <1>11, <2>7 DEF TablesInv, MainIsPlaced, Placed, Follows
  <2> QED BY <1>7, <1>13, <1>14, <2>6, <2>8 DEF TablesInv
<1>17. CASE ~(main.at = "protocol" /\ ok)
  <2>1. Kbd \in host.names <=> Kbd \in host'.names
    <3>1. CASE main.at = "capacity" /\ ok
      <4>1. main.dev # Kbd BY <1>12, <3>1, KbdIsNotStick
      <4> QED BY <1>5, <1>6, <3>1, <4>1
    <3>2. CASE ~(main.at = "capacity" /\ ok) BY <1>5, <1>6, <1>17, <3>2
    <3> QED BY <3>1, <3>2
  <2>2. CASE next.at = "up"
    <3>1. UNCHANGED <<chan, waiting, urb>> BY <1>17, <2>2
    <3>2. ChannelsWork' /\ TimersAgree' BY <1>15, <2>1, <3>1, RestKeeps
    <3>3. MainIsPlaced' BY <1>8, <1>9, <1>11, <2>2, <3>1 DEF TablesInv, MainIsPlaced, Placed
    <3> QED BY <1>7, <1>13, <1>14, <3>2, <3>3 DEF TablesInv
  <2>3. CASE next.at # "up"
    <3>1. TransferStage(Stages(next)[1]) BY <1>17, <2>3
    <3>2. PICK s : s = Stages(next)[1] OBVIOUS
    <3>3. call.n \in Int BY <1>10 DEF IsCall
    <3>4. s \in Stagings /\ ~Periodic(s.ep) /\ s.state # "delay" /\ Asked(next, s)
      BY <1>8, <3>2, <3>3, FirstStageIs
    <3>5. main' = next BY <1>17
    <3>6. TransferStage(s) /\ Asked(main', s) BY <3>1, <3>2, <3>4, <3>5
    <3>7. ChannelsWork' /\ TimersAgree' BY <1>15, <2>1, <3>4, <3>6, TransferKeeps
    <3>8. next.at # "off" BY <1>3 DEF Follows
    <3>9. MainIsPlaced' BY <1>3, <1>8, <1>9, <1>11, <2>3, <3>8 DEF TablesInv, MainIsPlaced, Placed, Follows
    <3> QED BY <1>7, <1>13, <1>14, <3>7, <3>9 DEF TablesInv
  <2> QED BY <2>2, <2>3
<1> QED BY <1>16, <1>17

LEMMA NextStageKeeps ==
  ASSUME TablesInv, NextStage
  PROVE  TablesInv'
<1>1. main.at \notin {"off", "dead", "up"} /\ ~waiting /\ UNCHANGED <<slots, real, disk, keys, bound>>
  BY DEF NextStage
<1>2. main.all \in BOOLEAN /\ urb.full \in BOOLEAN /\ urb.status \in BOOLEAN
  BY DEF TablesInv, MainIsPlaced, Placed, Messages, ChannelsWork
<1>3. PICK all \in BOOLEAN : all = (main.all /\ urb.full) BY <1>2
<1>4. PICK ok \in BOOLEAN : ok = (urb.status /\ all) BY <1>2
<1>5. CASE StageIsOk /\ main.k < Len(Stages(main))
  <2>1. /\ main' = [main EXCEPT !.k = @ + 1, !.all = all]
        /\ TransferStage(Stages(main)[main.k + 1])
        /\ UNCHANGED <<nextPID, faults, call, last, host>>
    BY <1>3, <1>5 DEF NextStage
  <2> QED BY <1>1, <1>5, <2>1, NextStageGoesOn
<1>6. CASE ~(StageIsOk /\ main.k < Len(Stages(main)))
  <2>1. \E over \in OverCurrents(main) :
          LET next == Follow(main, ok, over)
              reports == main.at = "protocol" /\ ok
          IN /\ main' = IF reports THEN [next EXCEPT !.k = 0] ELSE next
             /\ faults' = IF over THEN faults + 1 ELSE faults
             /\ host' = HostAfter(main, ok, next)
             /\ nextPID' = PIDsAfter(main, ok)
             /\ call' = CallAfter(main, next)
             /\ last' = LastAfter(main, ok, next)
             /\ CASE reports -> Submit(chan, Stage(Reports, TRUE, FALSE, 1)) /\ UNCHANGED <<waiting, urb>>
                  [] ~reports /\ next.at = "up" -> UNCHANGED <<chan, waiting, urb>>
                  [] OTHER -> TransferStage(Stages(next)[1])
    BY <1>3, <1>4, <1>6 DEF NextStage
  <2>2. PICK over \in OverCurrents(main) :
          LET next == Follow(main, ok, over)
              reports == main.at = "protocol" /\ ok
          IN /\ main' = IF reports THEN [next EXCEPT !.k = 0] ELSE next
             /\ host' = HostAfter(main, ok, next)
             /\ call' = CallAfter(main, next)
             /\ CASE reports -> Submit(chan, Stage(Reports, TRUE, FALSE, 1)) /\ UNCHANGED <<waiting, urb>>
                  [] ~reports /\ next.at = "up" -> UNCHANGED <<chan, waiting, urb>>
                  [] OTHER -> TransferStage(Stages(next)[1])
    BY <2>1
  <2>3. PICK next : next = Follow(main, ok, over) OBVIOUS
  <2>4. /\ main' = IF main.at = "protocol" /\ ok THEN [next EXCEPT !.k = 0] ELSE next
        /\ host' = HostAfter(main, ok, next)
        /\ call' = CallAfter(main, next)
        /\ CASE main.at = "protocol" /\ ok -> Submit(chan, Stage(Reports, TRUE, FALSE, 1)) /\ UNCHANGED <<waiting, urb>>
             [] ~(main.at = "protocol" /\ ok) /\ next.at = "up" -> UNCHANGED <<chan, waiting, urb>>
             [] OTHER -> TransferStage(Stages(next)[1])
    BY <2>2, <2>3
  <2> QED BY <1>1, <2>3, <2>4, NextMessage
<1> QED BY <1>5, <1>6

LEMMA InitializeKeeps ==
  ASSUME TablesInv, InitializeHost
  PROVE  TablesInv'
<1>1. main.at = "off" /\ ~waiting /\ main.dev = Hub /\ host.names = {} /\ ChannelsWork /\ TimersAgree
  BY DEF TablesInv, InitializeHost, MainIsPlaced, NamesComeInOrder
<1>2. UNCHANGED <<nextPID, slots, call, last, host, disk, keys, bound>> BY DEF InitializeHost
<1>3. HostTypes' BY <1>2 DEF TablesInv, HostTypes
<1>4. main \in Messages /\ real \in [Devices -> Reals] /\ IsCall(call)
  BY DEF TablesInv, MainIsPlaced, Placed, AddressesAreNew
<1>5. CASE CoreFails \/ NoRootPort
  <2>1. UNCHANGED <<chan, waiting, urb, real>> BY <1>5 DEF CoreFails, NoRootPort
  <2>2. ChannelsWork' /\ TimersAgree' BY <1>1, <1>2, <2>1, RestKeeps
  <2>3. main' \in Messages /\ main'.at \in {"dead", "up"}
    <3>1. CASE CoreFails BY <1>4, <3>1 DEF CoreFails, Messages, Ats
    <3>2. CASE NoRootPort
      <4>1. Hub \in Devices BY PortsAreNumbers
      <4>2. PICK h \in Devices : h = Hub BY <4>1
      <4>3. main' = Message("up", h, 0) BY <3>2, <4>2 DEF NoRootPort, Rest
      <4> QED BY <4>3 DEF Message, Messages, Ats
    <3> QED BY <1>5, <3>1, <3>2
  <2>4. MainIsPlaced' BY <1>1, <1>2, <1>4, <2>1, <2>3 DEF MainIsPlaced, Placed
  <2>5. NamesComeInOrder' BY <1>1, <1>2, <2>3 DEF NamesComeInOrder
  <2>6. AddressesAreNew' BY <1>2, <2>1, <2>3 DEF TablesInv, AddressesAreNew
  <2> QED BY <1>3, <2>2, <2>4, <2>5, <2>6 DEF TablesInv
<1>6. CASE RootPort
  <2>1. PICK n : n = Message("desc8", Hub, 0) OBVIOUS
  <2>2. PICK h \in Devices : h = Hub BY PortsAreNumbers
  <2>3. n \in Messages /\ n.at = "desc8" /\ n.dev = Hub /\ n.k = 1
    BY <2>1, <2>2 DEF Message, Messages, Ats
  <2>4. main' = n /\ TransferStage(Stages(n)[1]) /\ real' = [real EXCEPT ![Hub].on = TRUE]
    BY <1>6, <2>1 DEF RootPort
  <2>5. Placed(n) BY <2>3 DEF Placed
  <2>6. PICK s : s = Stages(n)[1] OBVIOUS
  <2>7. s \in Stagings /\ ~Periodic(s.ep) /\ s.state # "delay" /\ Asked(n, s)
    <3>1. call.n \in Int BY <1>4 DEF IsCall
    <3> QED BY <2>3, <2>5, <2>6, <3>1, FirstStageIs
  <2>8. TransferStage(s) /\ Asked(main', s) BY <2>4, <2>6, <2>7
  <2>9. ChannelsWork' /\ TimersAgree' BY <1>1, <1>2, <2>7, <2>8, TransferKeeps
  <2>10. MainIsPlaced' BY <1>2, <1>4, <2>3, <2>4 DEF MainIsPlaced, Placed
  <2>11. NamesComeInOrder' BY <1>1, <1>2, <2>3, <2>4 DEF NamesComeInOrder
  <2>12. AddressesAreNew'
    <3>1. PICK x : x = [real[Hub] EXCEPT !.on = TRUE] OBVIOUS
    <3>2. real[h] \in Reals BY <1>4
    <3>3. x \in Reals /\ x.addr = real[Hub].addr BY <2>2, <3>1, <3>2 DEF Reals
    <3>4. real' = [real EXCEPT ![Hub] = x] BY <2>4, <3>1
    <3>5. real' \in [Devices -> Reals] /\ \A d \in Devices : real'[d].addr = real[d].addr
      BY <1>4, <2>2, <3>3, <3>4
    <3>6. host.addr[Hub] = 0 BY <1>1 DEF TablesInv, AddressesAreNew
    <3> QED BY <1>2, <2>3, <2>4, <3>5, <3>6 DEF TablesInv, AddressesAreNew
  <2> QED BY <1>3, <2>9, <2>10, <2>11, <2>12 DEF TablesInv
<1> QED BY <1>5, <1>6 DEF InitializeHost

LEMMA CallKeeps ==
  ASSUME TablesInv, NEW op \in {"read", "write"}, Call(op)
  PROVE  TablesInv'
<1>1. main.at = "up" /\ ~waiting /\ ChannelsWork /\ TimersAgree /\ Stick \in host.names
  BY DEF TablesInv, Call, MainIsPlaced
<1>2. Stick \in Ports /\ Stick \in Devices BY <1>1, PortsAreNumbers DEF TablesInv, HostTypes
<1>3. UNCHANGED <<nextPID, slots, faults, real, disk, keys>> /\ host' = [host EXCEPT !.tag = @ + 1]
  BY DEF Call
<1>4. host \in Hosts BY DEF TablesInv, HostTypes, Hosts
<1>5. host' \in Hosts /\ host'.names = host.names /\ host'.addr = host.addr /\ host'.next = host.next
  <2>1. PICK t : t = host.tag + 1 OBVIOUS
  <2>2. t \in Nat /\ host' = [host EXCEPT !.tag = t] BY <1>3, <1>4, <2>1 DEF Hosts
  <2> QED BY <1>4, <2>2 DEF Hosts
<1>6. HostTypes' BY <1>5 DEF HostTypes, Hosts
<1>7. PICK n : n = Message(op, Stick, 0) OBVIOUS
<1>8. n \in Messages /\ n.at = op /\ n.dev = Stick /\ n.k = 1
  BY <1>2, <1>7 DEF Message, Messages, Ats
<1>9. main' = n BY <1>7 DEF Call
<1>10. IsCall(call') /\ call'.op = op
  <2>1. PICK at \in Sectors :
          call' = [op |-> op, at |-> at, n |-> Cardinality(Sectors) - at, tries |-> READ_TRIES,
                   before |-> faults, buf |-> <<>>]
    BY DEF Call
  <2>2. Cardinality(Sectors) \in Nat BY UsbBusAssumption, FS_CardinalityType
  <2>3. at \in Int /\ Cardinality(Sectors) - at \in Int BY <2>2, UsbBusAssumption
  <2> QED BY <2>1, <2>3 DEF IsCall
<1>11. PICK s : s = Stage(<<Stick, "out">>, FALSE, FALSE, 1) OBVIOUS
<1>12. PICK e : e = <<Stick, "out">> OBVIOUS
<1>13. e \in Endpoints /\ ~Periodic(e) BY <1>2, <1>12, UsbBusAssumption DEF Periodic
<1>14. s \in Stagings /\ s.ep = e /\ s.status = FALSE /\ s.state # "delay"
  <2>1. s = Stage(e, FALSE, FALSE, 1) BY <1>11, <1>12
  <2> QED BY <1>13, <2>1 DEF Stage, Stagings
<1>15. EpOf(n, 1) = e /\ ~StatusAt(n, 1) BY <1>8, <1>12 DEF EpOf, StatusAt
<1>16. Asked(main', s) BY <1>8, <1>9, <1>14, <1>15 DEF Asked
<1>17. TransferStage(s) BY <1>11 DEF Call
<1>18. ChannelsWork' /\ TimersAgree' BY <1>1, <1>3, <1>5, <1>13, <1>14, <1>16, <1>17, TransferKeeps
<1>19. MainIsPlaced' BY <1>2, <1>8, <1>9, <1>10 DEF MainIsPlaced, Placed
<1>20. NamesComeInOrder' BY <1>8, <1>9 DEF NamesComeInOrder
<1>21. AddressesAreNew' BY <1>3, <1>5, <1>8, <1>9 DEF TablesInv, AddressesAreNew
<1> QED BY <1>6, <1>18, <1>19, <1>20, <1>21 DEF TablesInv

\* A transaction and the addresses.
LEMMA AddressedKeeps ==
  ASSUME TablesInv, NEW c \in Channels, chan[c] # Idle, Addressed(real', chan[c]),
         UNCHANGED <<main, host>>
  PROVE  AddressesAreNew'
<1>1. real \in [Devices -> Reals] /\ real' \in [Devices -> Reals] /\ host.next \in Nat \ {0}
  BY DEF TablesInv, AddressesAreNew, Addressed, HostTypes
<1>2. \A d \in Devices : real[d].addr \in Nat /\ real'[d].addr \in Nat BY <1>1 DEF Reals
<1>3. CASE \A d \in Devices : KeepsAddress(real', d)
  BY <1>1, <1>3 DEF TablesInv, AddressesAreNew, KeepsAddress
<1>4. CASE main.at = "reset" /\ \A d \in Devices : KeepsAddress(real', d) \/ real'[d].addr = 0
  <2>1. \A d \in Devices : real'[d].addr = real[d].addr \/ real'[d].addr = 0 BY <1>4 DEF KeepsAddress
  <2>2. \A d \in Devices : real'[d].addr < host.next BY <1>1, <2>1 DEF TablesInv, AddressesAreNew
  <2>3. \A d, e \in Devices : d # e /\ real'[d].addr # 0 => real'[d].addr # real'[e].addr
    BY <2>1 DEF TablesInv, AddressesAreNew
  <2> QED BY <1>1, <1>4, <2>2, <2>3 DEF AddressesAreNew
<1>5. CASE main.at = "address" /\ \E d \in Devices :
             /\ Listens(d, chan[c]) /\ real'[d].addr = main.i
             /\ \A e \in Devices \ {d} : KeepsAddress(real', e) /\ ~Listens(e, chan[c])
  <2>1. PICK d \in Devices :
             /\ Listens(d, chan[c]) /\ real'[d].addr = main.i
             /\ \A e \in Devices \ {d} : KeepsAddress(real', e) /\ ~Listens(e, chan[c])
    BY <1>5
  <2>2. host.addr[chan[c].ep[1]] = 0
    <3>1. host.names = {} BY <1>5 DEF TablesInv, NamesComeInOrder
    <3>2. Polled(chan) = {} BY <3>1 DEF TablesInv, ChannelsWork
    <3>3. c \in Waited(chan) BY <3>2 DEF Polled, Waited
    <3>4. Asked(main, chan[c]) BY <3>3 DEF TablesInv, ChannelsWork
    <3>5. main.dev \in Devices BY DEF TablesInv, MainIsPlaced, Placed, Messages
    <3>6. EpOf(main, main.k)[1] = main.dev BY <1>5, <3>5, EpOfIsEndpoint
    <3>7. chan[c].ep[1] = main.dev BY <3>4, <3>6 DEF Asked
    <3> QED BY <1>5, <3>7 DEF TablesInv, AddressesAreNew
  <2>3. real[d].on /\ real[d].addr = 0 BY <2>1, <2>2 DEF Listens
  <2>4. \A e \in Devices : real[e].addr # main.i BY <1>5, <2>3 DEF TablesInv, AddressesAreNew
  <2>5. main.i = host.next - 1 /\ main.i > 0 /\ host.addr[main.dev] = 0 BY <1>5 DEF TablesInv, AddressesAreNew
  <2>6. \A e \in Devices \ {d} : real'[e].addr = real[e].addr BY <2>1 DEF KeepsAddress
  <2>7. \A e \in Devices \ {d} : real'[e].on => real'[e].addr # 0
    BY <2>1, <2>2 DEF KeepsAddress, Listens
  <2>8. \A e \in Devices : real'[e].addr < host.next
    <3>1. main.i < host.next BY <1>1, <2>5
    <3> QED BY <2>1, <2>6, <3>1 DEF TablesInv, AddressesAreNew
  <2>9. \A e, f \in Devices : e # f /\ real'[e].addr # 0 => real'[e].addr # real'[f].addr
    BY <2>1, <2>4, <2>6 DEF TablesInv, AddressesAreNew
  <2>10. \A e \in Devices : real'[e].on => real'[e].addr # 0 BY <2>1, <2>5, <2>7
  <2> QED BY <1>1, <1>5, <2>5, <2>8, <2>9, <2>10 DEF AddressesAreNew
<1> QED BY <1>3, <1>4, <1>5 DEF Addressed

LEMMA ToldTypesHold ==
  ASSUME TablesInv
  PROVE  ToldTypes
<1>1. KeyTypes BY DEF TablesInv, TimersAgree, KeySlots, KeyTypes
<1>2. main.at \in Ats /\ main.dev \in Devices /\ (main.at \in OfPort => main.dev \in Ports)
  BY DEF TablesInv, MainIsPlaced, Placed, Messages
<1>3. main.at = "address" => main.i \in Nat
  <2> SUFFICES ASSUME main.at = "address" PROVE main.i \in Nat OBVIOUS
  <2>1. main.i = host.next - 1 /\ host.next \in Nat \ {0} BY DEF TablesInv, AddressesAreNew, HostTypes
  <2> QED BY <2>1
<1>4. host.tag \in Nat /\ host.addr \in [Devices -> Nat] /\ call.at \in Int
  BY DEF TablesInv, HostTypes, MainIsPlaced, IsCall
<1>5. real \in [Devices -> Reals] BY DEF TablesInv, AddressesAreNew
<1> QED BY <1>1, <1>2, <1>3, <1>4, <1>5 DEF ToldTypes

LEMMA InterruptKeeps ==
  ASSUME TablesInv, NEW c \in Channels, Interrupt(c)
  PROVE  TablesInv'
<1>0. ToldTypes BY ToldTypesHold
<1>1. chan[c] # Idle /\ chan[c].state # "delay" /\ chan \in ChanSet /\ UNCHANGED <<main, last, host, bound>>
  BY DEF Interrupt, TablesInv, ChannelsWork
<1>2. chan[c] \in Stagings BY <1>1 DEF ChanSet
<1>3. PICK r \in Answers(chan[c]) \cup Spoilt(chan[c]), h \in {KeyPressedHandlerRaw, [slots |-> slots, keys |-> keys]} :
        /\ ChannelInterrupt(c, r.a, h.slots)
        /\ keys' = h.keys /\ real' = r.real
        /\ call' = IF Counts(chan[c], r.a) THEN [call EXCEPT !.buf = @ \o r.data] ELSE call
  BY DEF Interrupt
<1>4. Addressed(r.real, chan[c]) /\ Answer(chan[c], r.a) BY <1>0, <1>2, RepliesAre
<1>5. AddressesAreNew' BY <1>1, <1>3, <1>4, AddressedKeeps
<1>6. KeySlots(slots, keys) BY DEF TablesInv, TimersAgree
<1>7. KeySlots(h.slots, h.keys) /\ SameWaits(h.slots, slots)
  <2>1. CASE h = KeyPressedHandlerRaw BY <1>6, <2>1, KeyHandlerKeeps
  <2>2. CASE h = [slots |-> slots, keys |-> keys] BY <1>6, <2>2 DEF SameWaits
  <2> QED BY <2>1, <2>2
<1>8. PICK sl, ks : sl = h.slots /\ ks = h.keys OBVIOUS
<1>9. PICK a : a = r.a OBVIOUS
<1>10. Outcome(c, a, sl) BY <1>1, <1>2, <1>3, <1>4, <1>8, <1>9, ChannelOutcome
<1>11. a.full \in BOOLEAN BY <1>4, <1>9 DEF Answer
<1>12. ChannelsWork' /\ TimersAgree'
  <2>1. KeySlots(sl, ks) /\ SameWaits(sl, slots) /\ keys' = ks BY <1>3, <1>7, <1>8
  <2> QED BY <1>1, <1>2, <1>10, <1>11, <2>1, OutcomeKeeps DEF TablesInv
<1>13. IsCall(call') /\ call'.op = call.op
  <2>1. PICK b : b = call.buf \o r.data OBVIOUS
  <2>2. PICK new : new = [call EXCEPT !.buf = b] OBVIOUS
  <2>3. IsCall(new) /\ new.op = call.op BY <2>2, BufIs DEF TablesInv, MainIsPlaced
  <2>4. call' = new \/ call' = call BY <1>3, <2>1, <2>2
  <2>5. IsCall(call) BY DEF TablesInv, MainIsPlaced
  <2> QED BY <2>3, <2>4, <2>5
<1>14. waiting' => waiting
  BY <1>10 DEF Outcome, GoesOn, IsOver, AsksAgain
<1>15. MainIsPlaced' BY <1>1, <1>13, <1>14 DEF TablesInv, MainIsPlaced, Placed
<1>16. HostTypes' /\ NamesComeInOrder' BY <1>1 DEF TablesInv, HostTypes, NamesComeInOrder
<1> QED BY <1>5, <1>12, <1>15, <1>16 DEF TablesInv

LEMMA OthersKeep ==
  ASSUME TablesInv, UNCHANGED <<main, call, host, real>>, ChannelsWork', TimersAgree', waiting' = waiting
  PROVE  TablesInv'
<1>1. MainIsPlaced' /\ HostTypes' /\ NamesComeInOrder'
  BY DEF TablesInv, MainIsPlaced, Placed, HostTypes, NamesComeInOrder
<1>2. AddressesAreNew' BY DEF TablesInv, AddressesAreNew
<1> QED BY <1>1, <1>2 DEF TablesInv

LEMMA IntervalIsOverKeeps ==
  ASSUME TablesInv, NEW i \in Slots, IntervalIsOver(i)
  PROVE  TablesInv'
<1>1. DelayIsOver(i) /\ UNCHANGED <<main, call, last, host, real, disk, keys, bound>> BY DEF IntervalIsOver
<1>2. waiting' = waiting BY <1>1 DEF DelayIsOver, Restart
<1>3. ChannelsWork' /\ TimersAgree' BY <1>1, IntervalKeeps DEF TablesInv
<1> QED BY <1>1, <1>2, <1>3, OthersKeep

LEMMA RepeatKeeps ==
  ASSUME TablesInv, NEW i \in Slots, RepeatTimer(i)
  PROVE  TablesInv'
<1>1. UNCHANGED <<chan, nextPID, waiting, urb, faults, main, call, last, host, real, disk, bound>>
  BY DEF RepeatTimer
<1>2. KeySlots(slots', keys') /\ SameWaits(slots', slots)
  BY RepeatTimerKeeps DEF TablesInv, TimersAgree
<1>3. ChannelsWork' /\ TimersAgree' BY <1>1, <1>2, KeysKeep DEF TablesInv
<1> QED BY <1>1, <1>3, OthersKeep

LEMMA KeyKeeps ==
  ASSUME TablesInv, Key
  PROVE  TablesInv'
<1>1. keys' = [keys EXCEPT !.held = ~@] /\ UNCHANGED <<hostVars, main, call, last, host, real, disk>> BY DEF Key
<1>2. KeySlots(slots, keys) BY DEF TablesInv, TimersAgree
<1>3. PICK h \in BOOLEAN : h = ~keys.held BY <1>2 DEF KeySlots
<1>4. keys' = [keys EXCEPT !.held = h] BY <1>1, <1>3
<1>5. keys' \in [held : BOOLEAN, status : BOOLEAN, timer : 0 .. KERNEL_TIMERS] /\ keys'.timer = keys.timer
  BY <1>2, <1>4 DEF KeySlots
<1>6. slots' = slots /\ UNCHANGED <<chan, waiting, urb>> BY <1>1 DEF hostVars
<1>7. KeySlots(slots', keys') /\ SameWaits(slots', slots) BY <1>2, <1>5, <1>6 DEF KeySlots, SameWaits
<1>8. ChannelsWork' /\ TimersAgree' BY <1>1, <1>6, <1>7, KeysKeep DEF TablesInv
<1> QED BY <1>1, <1>6, <1>8, OthersKeep

LEMMA TablesInvHolds == Spec => []TablesInv
<1>1. Init => TablesInv
  <2> SUFFICES ASSUME Init PROVE TablesInv OBVIOUS
  <2>1. main = Message("off", Hub, 0) /\ call = Nothing /\ HostInit BY DEF Init
  <2>2. PICK h \in Devices : h = Hub BY PortsAreNumbers
  <2>3. main \in Messages /\ main.at = "off" /\ main.dev = Hub
    <3>1. main = Message("off", h, 0) BY <2>1, <2>2
    <3> QED BY <2>2, <3>1 DEF Message, Messages, Ats
  <2>4. MainIsPlaced
    <3>1. IsCall(call) BY <2>1 DEF Nothing, IsCall
    <3>2. waiting = FALSE BY <2>1 DEF HostInit
    <3> QED BY <2>3, <3>1, <3>2 DEF MainIsPlaced, Placed
  <2>5. host = [addr |-> [d \in Devices |-> 0], next |-> 1, found |-> {}, names |-> {}, tag |-> 0] BY DEF Init
  <2>6. HostTypes BY <2>5 DEF HostTypes
  <2>7. NamesComeInOrder BY <2>3, <2>5 DEF NamesComeInOrder
  <2>8. chan = [c \in Channels |-> Idle] /\ waiting = FALSE /\ urb = [status |-> FALSE, full |-> FALSE]
        /\ slots = [i \in Slots |-> NoHandler]
    BY <2>1 DEF HostInit
  <2>9. ChannelsWork
    <3>1. chan \in ChanSet /\ \A c \in Channels : chan[c] = Idle /\ chan[c].state # "delay"
      BY <2>8 DEF ChanSet, Idle
    <3>2. Waited(chan) = {} /\ Polled(chan) = {} BY <3>1 DEF Waited, Polled
    <3>3. urb \in [status : BOOLEAN, full : BOOLEAN] BY <2>8
    <3> QED BY <2>5, <2>8, <3>1, <3>2, <3>3 DEF ChannelsWork
  <2>10. TimersAgree
    <3>1. slots \in [Slots -> Handlers] /\ \A i \in Slots : slots[i] = NoHandler BY <2>8 DEF Handlers
    <3>2. 0 \in 0 .. KERNEL_TIMERS BY UsbHostAssumption
    <3>3. keys = [held |-> FALSE, status |-> FALSE, timer |-> 0] BY DEF Init
    <3>4. KeySlots(slots, keys) BY <3>1, <3>2, <3>3, HandlersDiffer DEF KeySlots
    <3>5. \A c \in Channels : chan[c].state # "delay" BY <2>8 DEF Idle
    <3> QED BY <3>1, <3>4, <3>5, HandlersDiffer DEF TimersAgree
  <2>11. AddressesAreNew
    <3>1. real = [d \in Devices |-> [NewReal EXCEPT !.spin = IF Kind(d) = "stick" THEN MaxSpin ELSE 0]] BY DEF Init
    <3>2. PICK v : v = NewReal OBVIOUS
    <3>3. v \in Reals /\ v.addr = 0 BY <3>2 DEF Reals, Toggles, NewReal
    <3>4. ASSUME NEW d \in Devices PROVE real[d] \in Reals /\ real[d].addr = 0
      <4>1. PICK spin : spin = IF Kind(d) = "stick" THEN MaxSpin ELSE 0 OBVIOUS
      <4>2. spin \in Int BY <4>1, UsbBusAssumption
      <4>3. real[d] = [v EXCEPT !.spin = spin] BY <3>1, <3>2, <4>1
      <4> QED BY <3>3, <4>2, <4>3 DEF Reals
    <3>5. real \in [Devices -> Reals]
      <4>1. real = [d \in Devices |-> real[d]] BY <3>1
      <4> QED BY <3>4, <4>1
    <3> QED BY <2>2, <2>3, <2>5, <3>4, <3>5 DEF AddressesAreNew
  <2> QED BY <2>4, <2>6, <2>7, <2>9, <2>10, <2>11 DEF TablesInv
<1>2. TablesInv /\ [Next]_vars => TablesInv'
  <2> SUFFICES ASSUME TablesInv, [Next]_vars PROVE TablesInv' OBVIOUS
  <2>1. CASE InitializeHost BY <2>1, InitializeKeeps
  <2>2. CASE NextStage BY <2>2, NextStageKeeps
  <2>3. CASE Key BY <2>3, KeyKeeps
  <2>4. ASSUME NEW op \in {"read", "write"}, Call(op) PROVE TablesInv' BY <2>4, CallKeeps
  <2>5. ASSUME NEW c \in Channels, Interrupt(c) PROVE TablesInv' BY <2>5, InterruptKeeps
  <2>6. ASSUME NEW i \in Slots, IntervalIsOver(i) PROVE TablesInv' BY <2>6, IntervalIsOverKeeps
  <2>7. ASSUME NEW i \in Slots, RepeatTimer(i) PROVE TablesInv' BY <2>7, RepeatKeeps
  <2>8. CASE UNCHANGED vars
    <3>1. UNCHANGED <<main, call, host, real, waiting, chan, urb, slots, keys>> BY <2>8 DEF vars, hostVars
    <3>2. ChannelsWork' /\ TimersAgree' BY <3>1 DEF TablesInv, ChannelsWork, TimersAgree
    <3> QED BY <3>1, <3>2, OthersKeep
  <2> QED BY <2>1, <2>2, <2>3, <2>4, <2>5, <2>6, <2>7, <2>8 DEF Next
<1> QED BY <1>1, <1>2, PTL DEF Spec

\* Whatever the interrupt and the main program do, whatever is lost on the way and
\* however many channels and devices there are: the main program waits exactly
\* while one channel works for it, the keyboard has one request from the first on,
\* a delay has one timer, and no two devices have the same address
\* (uspi/lib/dwhcidevice.c, usbdevice.c, usbkeyboard.c, src/rpi/timer.c).
THEOREM TheTablesAgree == Spec => []TablesAgree
<1>1. TablesInv => TablesAgree
  <2> SUFFICES ASSUME TablesInv PROVE TablesAgree OBVIOUS
  <2>1. ChannelsWork /\ TimersAgree /\ AddressesAreNew BY DEF TablesInv
  <2>2. Cardinality(Waited(chan)) = IF waiting THEN 1 ELSE 0
    <3>1. CASE waiting
      <4>1. PICK c : c \in Waited(chan) BY <2>1, <3>1 DEF ChannelsWork
      <4>2. Waited(chan) = {c} BY <2>1, <4>1 DEF ChannelsWork
      <4> QED BY <3>1, <4>2, FS_Singleton
    <3>2. CASE ~waiting
      <4>1. Waited(chan) = {} BY <2>1, <3>2 DEF ChannelsWork
      <4> QED BY <3>2, <4>1, FS_EmptySet
    <3> QED BY <3>1, <3>2
  <2>3. Cardinality(Polled(chan)) = IF Kbd \in host.names THEN 1 ELSE 0
    <3>1. CASE Kbd \in host.names
      <4>1. PICK c : c \in Polled(chan) BY <2>1, <3>1 DEF ChannelsWork
      <4>2. Polled(chan) = {c} BY <2>1, <4>1 DEF ChannelsWork
      <4> QED BY <3>1, <4>2, FS_Singleton
    <3>2. CASE Kbd \notin host.names
      <4>1. Polled(chan) = {} BY <2>1, <3>2 DEF ChannelsWork
      <4> QED BY <3>2, <4>1, FS_EmptySet
    <3> QED BY <3>1, <3>2
  <2>4. ASSUME NEW c \in Channels
        PROVE  Cardinality({i \in Slots : slots[i] = c}) = IF chan[c].state = "delay" THEN 1 ELSE 0
    <3>1. CASE chan[c].state = "delay"
      <4>1. PICK i \in Slots : slots[i] = c BY <2>1, <3>1 DEF TimersAgree
      <4>2. {j \in Slots : slots[j] = c} = {i} BY <2>1, <4>1 DEF TimersAgree
      <4> QED BY <3>1, <4>2, FS_Singleton
    <3>2. CASE chan[c].state # "delay"
      <4>1. {j \in Slots : slots[j] = c} = {} BY <2>1, <3>2 DEF TimersAgree
      <4> QED BY <3>2, <4>1, FS_EmptySet
    <3> QED BY <3>1, <3>2
  <2>5. \A i \in Slots : slots[i] = Repeat <=> keys.timer = i BY <2>1 DEF TimersAgree, KeySlots
  <2>6. EveryRequestIsUnderWay
    BY <2>2, <2>3, <2>4, <2>5 DEF EveryRequestIsUnderWay, Waited, Polled
  <2>7. AddressesAreUnique BY <2>1 DEF AddressesAreNew, AddressesAreUnique
  <2> QED BY <2>6, <2>7 DEF TablesAgree
<1> QED BY <1>1, TablesInvHolds, PTL

-----------------------------------------------------------------------------
(* The data of a call.  Every command has a tag of its own, so the host and  *)
(* the stick mean the same command when their tags agree; only then does it  *)
(* matter how far each of them is.                                           *)

\* Device d has taken the command of the host, and nobody else listens.
Taken(d) == real[d].tag = host.tag
Only(d) == \A e \in Devices \ {d} : ~(real[e].on /\ real[e].addr = host.addr[Stick])
Moving == main.at \in {"read", "write"}

\* The first n sectors of the call are where they should be.
DoneUpTo(n) ==
  IF main.at = "write" THEN \A x \in call.at .. call.at + n - 1 : disk[x] = NewData
  ELSE call.buf = SectorsAt(call.at, n)

\* The stick has moved n sectors and expects the next; it has moved all.
InStep(d, n) ==
  /\ real[d].phase = "data" /\ real[d].cmd = main.at /\ real[d].pos = call.at + n
  /\ main.at = "write" => nextPID[<<Stick, "out">>] = real[d].tout
  /\ DoneUpTo(n)
Finished(d) == real[d].phase # "data" /\ DoneUpTo(call.n)

\* Stage k is under way; it came to its end.
Under(k) == main.k = k /\ waiting
Succeeded(k) == main.k = k /\ ~waiting /\ urb.status

DataTypes ==
  /\ disk \in [Sectors -> Sectors \cup {NewData}] /\ nextPID \in [Endpoints -> Stations]
  /\ \A d \in Devices : real[d].tag <= host.tag
  /\ \A c \in Waited(chan) : chan[c].state = "noSplit" <=> chan[c].ep \notin SplitEps
  /\ main.at \in Calling => call.at \in Sectors /\ call.n = Cardinality(Sectors) - call.at
  /\ Moving => main.k # 0
  /\ last.ok => main.at = "up"
  /\ TransfersAreTrue

Progress ==
  Moving =>
    /\ main.k = 1 => call.buf = <<>>
    /\ Under(1) => (\A d \in Devices : ~Taken(d)) /\ \A c \in Waited(chan) : chan[c].left = 1
    /\ Succeeded(1) => \A d \in Devices : Taken(d) => Only(d) /\ InStep(d, 0)
    /\ Under(2) => \A c \in Waited(chan) :
         /\ chan[c].left \in 1 .. call.n
         /\ \A d \in Devices : Taken(d) => Only(d) /\ InStep(d, call.n - chan[c].left)
    /\ Succeeded(2) \/ Under(3) \/ Succeeded(3) => \A d \in Devices : Taken(d) => Only(d) /\ Finished(d)
    /\ Succeeded(3) /\ urb.full => \E d \in Devices : Taken(d)

DataInv == DataTypes /\ Progress

SectorData == Sectors \cup {NewData}

LEMMA SectorsAreNumbers ==
  /\ Cardinality(Sectors) \in Nat /\ Sectors \subseteq Nat
  /\ \A x : x \in Sectors <=> x \in Nat /\ x < Cardinality(Sectors)
<1>1. Cardinality(Sectors) \in Nat BY UsbBusAssumption, FS_CardinalityType
<1> QED BY <1>1, UsbBusAssumption

LEMMA SectorsAtIs ==
  ASSUME disk \in [Sectors -> SectorData], NEW at \in Nat, NEW n \in Nat, at + n <= Cardinality(Sectors)
  PROVE  /\ SectorsAt(at, n) \in Seq(SectorData) /\ Len(SectorsAt(at, n)) = n
         /\ \A j \in 1 .. n : SectorsAt(at, n)[j] = disk[at + j - 1]
<1>1. \A j \in 1 .. n : disk[at + j - 1] \in SectorData BY SectorsAreNumbers
<1> QED BY <1>1 DEF SectorsAt

LEMMA SectorsAtTwice ==
  ASSUME disk \in [Sectors -> SectorData], NEW at \in Nat, NEW m \in Nat, NEW k \in Nat,
         at + m + k <= Cardinality(Sectors)
  PROVE  SectorsAt(at, m) \o SectorsAt(at + m, k) = SectorsAt(at, m + k)
<1>0. PICK size \in Nat : size = Cardinality(Sectors) BY SectorsAreNumbers
<1>1. PICK a : a = SectorsAt(at, m) OBVIOUS
<1>2. PICK p \in Nat : p = at + m OBVIOUS
<1>3. PICK b : b = SectorsAt(p, k) OBVIOUS
<1>4. PICK q \in Nat : q = m + k OBVIOUS
<1>5. PICK w : w = SectorsAt(at, q) OBVIOUS
<1>51. at + m <= size /\ p + k <= size /\ at + q <= size BY <1>0, <1>2, <1>4
<1>6. a \in Seq(SectorData) /\ Len(a) = m /\ \A j \in 1 .. m : a[j] = disk[at + j - 1]
  BY <1>0, <1>1, <1>51, SectorsAtIs
<1>7. b \in Seq(SectorData) /\ Len(b) = k /\ \A j \in 1 .. k : b[j] = disk[p + j - 1]
  BY <1>0, <1>3, <1>51, SectorsAtIs
<1>8. w \in Seq(SectorData) /\ Len(w) = q /\ \A j \in 1 .. q : w[j] = disk[at + j - 1]
  BY <1>0, <1>5, <1>51, SectorsAtIs
<1>9. PICK u : u = a \o b OBVIOUS
<1>10. u \in Seq(SectorData) /\ Len(u) = q
       /\ \A j \in 1 .. q : u[j] = IF j <= m THEN a[j] ELSE b[j - m]
  BY <1>4, <1>6, <1>7, <1>9, ConcatProperties
<1>11. ASSUME NEW j \in 1 .. q PROVE u[j] = w[j]
  <2>1. CASE j <= m BY <1>6, <1>8, <1>10, <2>1
  <2>2. CASE j > m
    <3>1. u[j] = b[j - m] BY <1>10, <2>2
    <3>2. PICK i : i = j - m OBVIOUS
    <3>3. i \in 1 .. k /\ p + i - 1 = at + j - 1 BY <1>2, <1>4, <2>2, <3>2
    <3>4. b[i] = disk[at + j - 1] BY <1>7, <3>3
    <3> QED BY <1>8, <3>1, <3>2, <3>4
  <2> QED BY <2>1, <2>2
<1>12. u = w
  <2>1. Len(u) = Len(w) /\ \A j \in 1 .. Len(u) : u[j] = w[j] BY <1>8, <1>10, <1>11
  <2> QED BY <1>8, <1>10, <2>1, SeqEqual
<1> QED BY <1>1, <1>2, <1>3, <1>4, <1>5, <1>9, <1>12

LEMMA SectorsAtNone ==
  ASSUME NEW at \in Nat
  PROVE  SectorsAt(at, 0) = <<>>
<1>1. 1 .. 0 = {} OBVIOUS
<1> QED BY <1>1 DEF SectorsAt

\* What an interrupt brings: nothing of the device, a reply, or a reply that was
\* spoilt on the way.
LEMMA Comes ==
  ASSUME ToldTypes, NEW s \in Stagings, NEW r \in Answers(s) \cup Spoilt(s)
  PROVE  \/ \E a : r = Just(a) /\ r.a = a /\ a.st \in {"halted", "nyet", "ack", "error"}
         \/ r = ReplyTo(s, Moves(s)) /\ s.state # "startSplit" /\ r.a.st # "silent"
         \/ r.a.st = "error" /\ \E n \in Int : r = [ReplyTo(s, n) EXCEPT !.a = Says("error")]
<1>1. Moves(s) \in Int BY DEF Moves, Stagings
<1>2. ASSUME NEW st \in {"halted", "nyet", "error"}, r = Just(Says(st))
      PROVE  \E a : r = Just(a) /\ r.a = a /\ a.st \in {"halted", "nyet", "ack", "error"}
  <2>1. PICK a : a = Says(st) OBVIOUS
  <2>2. a.st = st BY <2>1 DEF Says
  <2>3. r = Just(a) /\ Just(a).a = a BY <1>2, <2>1 DEF Just
  <2> QED BY <2>2, <2>3
<1>3. ASSUME NEW n \in Int, r = [ReplyTo(s, n) EXCEPT !.a = Says("error")] PROVE r.a.st = "error"
  <2>1. PICK q : q = ReplyTo(s, n) OBVIOUS
  <2>2. IsReply(q, s) BY <2>1, ReplyIsOne
  <2>3. PICK qa, qr, qk, qd : q = [a |-> qa, real |-> qr, disk |-> qk, data |-> qd] BY <2>2 DEF IsReply
  <2>4. PICK e : e = Says("error") OBVIOUS
  <2>5. e.st = "error" BY <2>4 DEF Says
  <2>6. r = [q EXCEPT !.a = e] BY <1>3, <2>1, <2>4
  <2>7. r.a = e BY <2>3, <2>6
  <2> QED BY <2>5, <2>7
<1>4. CASE r \in Answers(s)
  <2>1. CASE s.sub = "disable"
    <3>1. r = Just(Says("halted")) BY <1>4, <2>1 DEF Answers
    <3> QED BY <1>2, <3>1
  <2>2. CASE s.sub # "disable" /\ s.state = "startSplit"
    <3>1. PICK a : a = Ack OBVIOUS
    <3>2. r = Just(a) BY <1>4, <2>2, <3>1 DEF Answers
    <3>3. Just(a).a = a /\ a.st = "ack" BY <3>1 DEF Just, Ack
    <3> QED BY <3>2, <3>3
  <2>3. CASE s.sub # "disable" /\ s.state # "startSplit" BY <1>4, <2>3 DEF Answers, Reply
  <2> QED BY <2>1, <2>2, <2>3
<1>5. CASE r \in Spoilt(s)
  <2>1. CASE \E x \in {"halted", "error"} : r = Just(Says(x)) BY <1>2, <2>1
  <2>2. CASE s.state = "completeSplit" /\ r = Just(Says("nyet")) BY <1>2, <2>2
  <2>3. CASE r = [Reply(s) EXCEPT !.a = Says("error")]
    <3>1. PICK n \in Int : n = Moves(s) BY <1>1
    <3>2. r = [ReplyTo(s, n) EXCEPT !.a = Says("error")] BY <2>3, <3>1 DEF Reply
    <3> QED BY <1>3, <3>2
  <2>4. CASE \E n \in 1 .. s.left - 1 : r = [ReplyTo(s, n) EXCEPT !.a = Says("error")]
    <3>1. PICK n \in Int : r = [ReplyTo(s, n) EXCEPT !.a = Says("error")] BY <2>4
    <3> QED BY <1>3, <3>1
  <2> QED BY <1>5, <2>1, <2>2, <2>3, <2>4 DEF Spoilt
<1> QED BY <1>4, <1>5

\* What matters of a device for the data of a call.
SameData(x, y) == x.tag = y.tag /\ x.phase = y.phase /\ x.cmd = y.cmd /\ x.pos = y.pos /\ x.tout = y.tout
Quiet(r) == r.disk = disk /\ r.data = <<>> /\ \A e \in Devices : SameData(r.real[e], real[e])

LEMMA JustIsQuiet ==
  ASSUME NEW a
  PROVE  Quiet(Just(a)) /\ Just(a) = [a |-> a, real |-> real, disk |-> disk, data |-> <<>>]
<1>1. Just(a) = [a |-> a, real |-> real, disk |-> disk, data |-> <<>>] BY DEF Just
<1>2. PICK r : r = Just(a) OBVIOUS
<1>3. r.real = real /\ r.disk = disk /\ r.data = <<>> BY <1>1, <1>2
<1>4. Quiet(r) BY <1>3 DEF Quiet, SameData
<1> QED BY <1>1, <1>2, <1>4

\* What the keyboard says.
LEMMA KeyIsQuiet ==
  ASSUME ToldTypes, NEW s, NEW d \in Devices
  PROVE  Quiet(KeyReply(s, d))
<1>1. real[d] \in Reals /\ real \in [Devices -> Reals] BY DEF ToldTypes
<1>2. CASE keys.held = real[d].told
  <2>1. KeyReply(s, d) = Just(Says("nak")) BY <1>2 DEF KeyReply
  <2> QED BY <2>1, JustIsQuiet
<1>3. CASE keys.held # real[d].told
  <2>1. PICK a : a = IF PID(s) = real[d].int THEN Done(1) ELSE Says("error") OBVIOUS
  <2>2. PICK o, h : o = Toggle(real[d].int) /\ h = keys.held OBVIOUS
  <2>3. PICK v : v = [real[d] EXCEPT !.int = o] OBVIOUS
  <2>4. PICK y : y = [v EXCEPT !.told = h] OBVIOUS
  <2>5. o \in Toggles BY <1>1, <2>2, FlippedIs DEF Reals
  <2>6. v \in Reals /\ SameData(v, real[d]) BY <1>1, <2>3, <2>5 DEF Reals, SameData
  <2>7. SameData(y, real[d]) BY <2>4, <2>6 DEF Reals, SameData
  <2>8. KeyReply(s, d) = And(a, d, y) BY <1>3, <2>1, <2>2, <2>3, <2>4 DEF KeyReply
  <2>9. PICK new : new = [real EXCEPT ![d] = y] OBVIOUS
  <2>10. And(a, d, y) = [a |-> a, real |-> new, disk |-> disk, data |-> <<>>] BY <2>9, AndIs
  <2>11. \A e \in Devices : SameData(new[e], real[e]) BY <1>1, <2>7, <2>9 DEF SameData
  <2>12. PICK q : q = KeyReply(s, d) OBVIOUS
  <2>13. q.real = new /\ q.disk = disk /\ q.data = <<>> BY <2>8, <2>10, <2>12
  <2> QED BY <2>11, <2>12, <2>13 DEF Quiet
<1> QED BY <1>2, <1>3

LEMMA PeriodicIsQuiet ==
  ASSUME ToldTypes, NEW s \in Stagings, Periodic(s.ep), NEW r \in Answers(s) \cup Spoilt(s)
  PROVE  Quiet(r)
<1>1. ASSUME NEW n PROVE Quiet(ReplyTo(s, n))
  <2> DEFINE who == {x \in Devices : real[x].on /\ real[x].addr = host.addr[s.ep[1]]}
             d == CHOOSE x \in who : TRUE
  <2>1. s.ep[2] = "int" BY DEF Periodic
  <2>2. ReplyTo(s, n) = IF Cardinality(who) # 1 THEN Just(Says("error")) ELSE KeyReply(s, d)
    BY <2>1 DEF ReplyTo
  <2>3. CASE Cardinality(who) # 1 BY <2>2, <2>3, JustIsQuiet
  <2>4. CASE Cardinality(who) = 1
    <3>1. PICK e : e = d OBVIOUS
    <3>2. Alone(e, s) BY <2>4, <3>1, OneListens
    <3>3. e \in Devices BY <3>2 DEF Alone
    <3>4. Quiet(KeyReply(s, e)) BY <3>3, KeyIsQuiet
    <3> HIDE DEF who, d
    <3> QED BY <2>2, <2>4, <3>1, <3>4
  <2> QED BY <2>3, <2>4
<1>2. CASE \E a : r = Just(a) BY <1>2, JustIsQuiet
<1>3. CASE r = ReplyTo(s, Moves(s)) BY <1>1, <1>3
<1>4. CASE \E n \in Int : r = [ReplyTo(s, n) EXCEPT !.a = Says("error")]
  <2>1. PICK n \in Int : r = [ReplyTo(s, n) EXCEPT !.a = Says("error")] BY <1>4
  <2>2. PICK q : q = ReplyTo(s, n) OBVIOUS
  <2>3. Quiet(q) /\ IsReply(q, s) BY <1>1, <2>2, ReplyIsOne
  <2>4. PICK qa, qr, qk, qd : q = [a |-> qa, real |-> qr, disk |-> qk, data |-> qd] BY <2>3 DEF IsReply
  <2>5. PICK e : e = Says("error") OBVIOUS
  <2>6. r = [q EXCEPT !.a = e] BY <2>1, <2>2, <2>5
  <2>7. r.real = q.real /\ r.disk = q.disk /\ r.data = q.data BY <2>4, <2>6
  <2> QED BY <2>3, <2>7 DEF Quiet
<1> QED BY <1>2, <1>3, <1>4, Comes

\* A reply that is no error comes from the one device that listens.
LEMMA OneReplies ==
  ASSUME ToldTypes, NEW s, NEW n, s.ep[2] \in {"out", "in"}, NEW r, r = ReplyTo(s, n), r.a.st # "error"
  PROVE  \E d \in Devices : Alone(d, s) /\ r = IF s.ep[2] = "out" THEN OutReply(s, d, n) ELSE InReply(s, d, n)
<1> DEFINE who == {x \in Devices : real[x].on /\ real[x].addr = host.addr[s.ep[1]]}
           d == CHOOSE x \in who : TRUE
<1>1. r = IF Cardinality(who) # 1 THEN Just(Says("error"))
          ELSE CASE s.ep[2] = "control" -> ControlReply(s, d)
                 [] s.ep[2] = "out" -> OutReply(s, d, n)
                 [] s.ep[2] = "in" -> InReply(s, d, n)
                 [] s.ep[2] = "int" -> KeyReply(s, d)
  BY DEF ReplyTo
<1>2. Just(Says("error")).a.st = "error" BY DEF Just, Says
<1>3. Cardinality(who) = 1 BY <1>1, <1>2
<1>4. PICK e : e = d OBVIOUS
<1>5. Alone(e, s) BY <1>3, <1>4, OneListens
<1>6. e \in Devices BY <1>5 DEF Alone
<1> HIDE DEF who, d
<1>7. r = IF s.ep[2] = "out" THEN OutReply(s, e, n) ELSE InReply(s, e, n) BY <1>1, <1>3, <1>4
<1> QED BY <1>5, <1>6, <1>7

LEMMA OnlyOne ==
  ASSUME NEW s, s.ep[1] = Stick, NEW d \in Devices, NEW e \in Devices, Alone(e, s)
  PROVE  Only(e) /\ (Only(d) => e = d)
BY DEF Only, Alone, Listens

LEMMA DoneIs == \A n : Done(n).st = "done" /\ Done(n).n = n /\ Done(n).full = TRUE
BY DEF Done

LEMMA ErrorIs == Says("error").st = "error" /\ Says("silent").st = "silent"
BY DEF Says

LEMMA FlippedOnce == \A t : Flipped(t, 1) = Toggle(t)
BY DEF Flipped

\* What OutReply says, with names for what the stick becomes.
Took(x, k) == [x EXCEPT !.tout = Flipped(@, k)]
Opened(x) ==
  LET slow == main.at = "ready" /\ x.spin > 0
  IN Commanded(x, IF slow THEN "failed" ELSE IF main.at = "ready" THEN "csw" ELSE "data",
               main.at, host.tag, call.at, IF slow THEN x.spin - 1 ELSE x.spin)
Wrote(d, at, k) ==
  [And(Done(k), d, DataMoved(Took(real[d], k), k)) EXCEPT
     !.disk = [x \in Sectors |-> IF x \in at .. at + k - 1 THEN NewData ELSE @[x]]]
IsWrite(x) == x.phase = "data" /\ x.cmd = "write" /\ main.k = 2

LEMMA OutReplyIs ==
  ASSUME NEW s, NEW d, NEW n, NEW t, t = Took(real[d], n)
  PROVE  OutReply(s, d, n) =
           IF PID(s) # real[d].tout THEN Just(Done(n))
           ELSE CASE t.phase = "cbw" /\ main.k = 1 -> And(Done(n), d, Opened(t))
                  [] IsWrite(t) /\ n <= Left(t) -> Wrote(d, t.pos, n)
                  [] IsWrite(t) /\ n > Left(t) -> [Wrote(d, t.pos, Left(t)) EXCEPT !.a = Says("error")]
                  [] OTHER -> Just(Says("error"))
BY DEF OutReply, Took, Opened, Wrote, IsWrite, Commanded

\* The stick takes the command of a call.
LEMMA CommandIsTaken ==
  ASSUME ToldTypes, Moving, main.k = 1, NEW s \in Stagings, ~s.status, s.ep[1] = Stick,
         NEW d \in Devices, Alone(d, s), \A e \in Devices : ~Taken(e),
         NEW r, r = OutReply(s, d, 1), r.a.st # "error"
  PROVE  /\ r.a.n = 1 /\ r.disk = disk /\ r.data = <<>>
         /\ \A e \in Devices : r.real[e].tag = host.tag =>
              /\ Only(e) /\ r.real[e].phase = "data" /\ r.real[e].cmd = main.at /\ r.real[e].pos = call.at
              /\ nextPID[s.ep] \in Toggles /\ r.real[e].tout = Toggle(nextPID[s.ep])
<1>1. real[d] \in Reals /\ real \in [Devices -> Reals] BY DEF ToldTypes
<1>2. PID(s) = nextPID[s.ep] BY DEF PID
<1>3. PICK t : t = Took(real[d], 1) OBVIOUS
<1>4. t \in Reals /\ t.tout = Toggle(real[d].tout) /\ t.phase = real[d].phase
  <2>1. PICK x \in Reals : x = real[d] BY <1>1
  <2>2. t = [x EXCEPT !.tout = Flipped(@, 1)] BY <1>3, <2>1 DEF Took
  <2>3. t \in Reals /\ t.tout = Flipped(x.tout, 1) /\ t.phase = x.phase BY <2>2, TookIs
  <2> QED BY <2>1, <2>3, FlippedOnce
<1>5. PICK cm, tg, po : cm = main.at /\ tg = host.tag /\ po = call.at OBVIOUS
<1>6. cm \in Ats /\ tg \in Nat /\ po \in Int /\ cm \in {"read", "write"} BY <1>5 DEF ToldTypes, Moving
<1>7. PICK y : y = Commanded(t, "data", cm, tg, po, t.spin) OBVIOUS
<1>8. y \in Reals /\ y.tout = t.tout /\ y.phase = "data" /\ y.cmd = cm /\ y.tag = tg /\ y.pos = po
  <2>1. t.spin \in Int BY <1>4 DEF Reals
  <2> QED BY <1>4, <1>6, <1>7, <2>1, CommandTaken
<1>9. OutReply(s, d, 1) =
        IF PID(s) # real[d].tout THEN Just(Done(1))
        ELSE IF t.phase = "cbw" THEN And(Done(1), d, y) ELSE Just(Says("error"))
  <2>1. main.at # "ready" /\ ~IsWrite(t) BY <1>5, <1>6 DEF IsWrite
  <2>2. Opened(t) = y BY <1>5, <1>7, <2>1 DEF Opened
  <2> QED BY <1>3, <2>1, <2>2, OutReplyIs
<1>10. PICK a : a = Done(1) OBVIOUS
<1>11. a.n = 1 BY <1>10, DoneIs
<1>12. CASE PID(s) # real[d].tout
  <2>1. r = Just(a) BY <1>9, <1>10, <1>12
  <2>2. r = [a |-> a, real |-> real, disk |-> disk, data |-> <<>>] BY <2>1, JustIsQuiet
  <2>3. r.real = real /\ r.disk = disk /\ r.data = <<>> /\ r.a = a BY <2>2
  <2> QED BY <1>11, <2>3 DEF Taken
<1>13. CASE PID(s) = real[d].tout /\ t.phase = "cbw"
  <2>1. r = And(a, d, y) BY <1>9, <1>10, <1>13
  <2>2. PICK new : new = [real EXCEPT ![d] = y] OBVIOUS
  <2>3. r = [a |-> a, real |-> new, disk |-> disk, data |-> <<>>] BY <2>1, <2>2, AndIs
  <2>4. r.real = new /\ r.disk = disk /\ r.data = <<>> /\ r.a = a BY <2>3
  <2>5. new[d] = y /\ \A e \in Devices \ {d} : new[e] = real[e] BY <1>1, <2>2
  <2>6. ASSUME NEW e \in Devices, new[e].tag = host.tag PROVE e = d BY <2>5, <2>6 DEF Taken
  <2>7. Only(d) BY OnlyOne
  <2>8. nextPID[s.ep] = real[d].tout /\ real[d].tout \in Toggles BY <1>1, <1>2, <1>13 DEF Reals
  <2>9. y.tout = Toggle(nextPID[s.ep]) BY <1>4, <1>8, <2>8
  <2> QED BY <1>5, <1>8, <1>11, <2>4, <2>5, <2>6, <2>7, <2>8, <2>9
<1>14. CASE PID(s) = real[d].tout /\ t.phase # "cbw"
  <2>1. r = Just(Says("error")) BY <1>9, <1>14
  <2>2. PICK e : e = Says("error") OBVIOUS
  <2>3. r.a = e /\ e.st = "error" BY <2>1, <2>2, JustIsQuiet, ErrorIs
  <2> QED BY <2>3
<1> QED BY <1>12, <1>13, <1>14

\* The place and the phase of a stick that has moved n packets.
LEMMA MovedOn ==
  ASSUME NEW t \in Reals, NEW n \in Int, NEW y, y = DataMoved(t, n)
  PROVE  /\ y \in Reals /\ y.tag = t.tag /\ y.cmd = t.cmd /\ y.tout = t.tout
         /\ y.pos = t.pos + n /\ y.phase = IF n = Left(t) THEN "csw" ELSE "data"
<1>1. PICK p \in Int : p = t.pos + n BY DEF Reals
<1>2. PICK ph \in {"csw", "data"} : ph = IF n = Left(t) THEN "csw" ELSE "data" OBVIOUS
<1>3. PICK v : v = [t EXCEPT !.pos = p] OBVIOUS
<1>4. v \in Reals /\ v.tag = t.tag /\ v.cmd = t.cmd /\ v.tout = t.tout /\ v.pos = p BY <1>3 DEF Reals
<1>5. y = [v EXCEPT !.phase = ph] BY <1>1, <1>2, <1>3, DataMovedIs
<1>6. y \in Reals /\ y.tag = v.tag /\ y.cmd = v.cmd /\ y.tout = v.tout /\ y.pos = p /\ y.phase = ph
  BY <1>4, <1>5 DEF Reals
<1> QED BY <1>1, <1>2, <1>4, <1>6

\* Device d has written n sectors, or sent n sectors.
Written(r, d, n) ==
  /\ r.real[d].cmd = real[d].cmd /\ r.real[d].pos = real[d].pos + n
  /\ r.real[d].phase = IF n = Left(real[d]) THEN "csw" ELSE "data"
  /\ r.real[d].tout = Flipped(real[d].tout, n)
  /\ r.disk = Overwritten(real[d].pos, real[d].pos + n - 1)
SentOut(r, d, n) ==
  /\ r.real[d].cmd = real[d].cmd /\ r.real[d].pos = real[d].pos + n
  /\ r.real[d].phase = IF n = Left(real[d]) THEN "csw" ELSE "data"
  /\ r.a.n = n /\ r.data = SectorsAt(real[d].pos, n)

SameTags(r) == \A e \in Devices : r.real[e].tag = real[e].tag

LEMMA WriteReply ==
  ASSUME ToldTypes, main.k = 2, NEW s, NEW n \in Int, NEW d \in Devices, NEW r, r = OutReply(s, d, n), r.a.st # "error"
  PROVE  /\ r.a.n = n /\ r.data = <<>> /\ SameTags(r)
         /\ PID(s) = real[d].tout /\ IsWrite(real[d]) /\ n <= Left(real[d]) => Written(r, d, n)
<1>1. real \in [Devices -> Reals] BY DEF ToldTypes
<1>2. PICK x \in Reals : x = real[d] BY <1>1
<1>3. PICK t : t = Took(x, n) OBVIOUS
<1>4. t \in Reals /\ t.tout = Flipped(x.tout, n) /\ t.tag = x.tag /\ t.cmd = x.cmd /\ t.pos = x.pos /\ t.phase = x.phase
  <2>1. t = [x EXCEPT !.tout = Flipped(@, n)] BY <1>3 DEF Took
  <2> QED BY <2>1, TookIs
<1>5. (IsWrite(t) <=> IsWrite(x)) /\ Left(t) = Left(x) BY <1>4 DEF IsWrite, Left
<1>6. PICK pos \in Int : pos = x.pos BY DEF Reals
<1>7. OutReply(s, d, n) =
        IF PID(s) # x.tout THEN Just(Done(n))
        ELSE IF IsWrite(x) /\ n <= Left(x) THEN Wrote(d, pos, n)
        ELSE IF IsWrite(x) THEN [Wrote(d, pos, Left(x)) EXCEPT !.a = Says("error")]
        ELSE Just(Says("error"))
  <2>1. Left(x) \in Int BY LeftIs
  <2>2. n <= Left(x) <=> ~(n > Left(x)) BY <2>1
  <2>3. t = Took(real[d], n) BY <1>2, <1>3
  <2>4. OutReply(s, d, n) =
          IF PID(s) # real[d].tout THEN Just(Done(n))
          ELSE CASE t.phase = "cbw" /\ main.k = 1 -> And(Done(n), d, Opened(t))
                 [] IsWrite(t) /\ n <= Left(t) -> Wrote(d, t.pos, n)
                 [] IsWrite(t) /\ n > Left(t) -> [Wrote(d, t.pos, Left(t)) EXCEPT !.a = Says("error")]
                 [] OTHER -> Just(Says("error"))
    BY <2>3, OutReplyIs
  <2>5. main.k # 1 OBVIOUS
  <2>6. t.pos = pos BY <1>4, <1>6
  <2> QED BY <1>2, <1>5, <2>2, <2>4, <2>5, <2>6
<1>8. PICK a : a = Done(n) OBVIOUS
<1>9. PICK e : e = Says("error") OBVIOUS
<1>10. a.n = n /\ e.st = "error" BY <1>8, <1>9, DoneIs, ErrorIs
<1>11. CASE PID(s) # x.tout
  <2>1. r = Just(a) BY <1>7, <1>8, <1>11
  <2>2. r = [a |-> a, real |-> real, disk |-> disk, data |-> <<>>] BY <2>1, JustIsQuiet
  <2>3. r.real = real /\ r.data = <<>> /\ r.a = a BY <2>2
  <2> QED BY <1>2, <1>10, <1>11, <2>3 DEF SameTags
<1>12. CASE PID(s) = x.tout /\ IsWrite(x) /\ n <= Left(x)
  <2>1. PICK y : y = DataMoved(t, n) OBVIOUS
  <2>2. /\ y.tag = x.tag /\ y.cmd = x.cmd /\ y.tout = Flipped(x.tout, n) /\ y.pos = x.pos + n
        /\ y.phase = IF n = Left(x) THEN "csw" ELSE "data"
    BY <1>4, <1>5, <2>1, MovedOn
  <2>3. PICK new : new = [real EXCEPT ![d] = y] OBVIOUS
  <2>4. new[d] = y /\ \A f \in Devices \ {d} : new[f] = real[f] BY <1>1, <2>3
  <2>5. PICK u : u = And(a, d, y) OBVIOUS
  <2>6. u = [a |-> a, real |-> new, disk |-> disk, data |-> <<>>] BY <2>3, <2>5, AndIs
  <2>7. PICK dd : dd = Overwritten(pos, pos + n - 1) OBVIOUS
  <2>8. r = [u EXCEPT !.disk = dd]
    <3>1. r = Wrote(d, pos, n) BY <1>7, <1>12
    <3>2. And(Done(n), d, DataMoved(Took(real[d], n), n)) = u BY <1>2, <1>3, <1>8, <2>1, <2>5
    <3>3. u.disk = disk BY <2>6
    <3>4. r = [u EXCEPT !.disk = [z \in Sectors |-> IF z \in pos .. pos + n - 1 THEN NewData ELSE @[z]]]
      BY <3>1, <3>2 DEF Wrote
    <3> QED BY <2>7, <3>3, <3>4 DEF Overwritten
  <2>9. r.a = a /\ r.real = new /\ r.disk = dd /\ r.data = <<>> BY <2>6, <2>8
  <2>10. SameTags(r) BY <1>2, <2>2, <2>4, <2>9 DEF SameTags
  <2>11. Written(r, d, n) BY <1>2, <1>6, <2>2, <2>4, <2>7, <2>9 DEF Written
  <2> QED BY <1>10, <2>9, <2>10, <2>11
<1>13. CASE PID(s) = x.tout /\ IsWrite(x) /\ ~(n <= Left(x))
  <2>1. PICK w : w = Wrote(d, pos, Left(x)) OBVIOUS
  <2>2. r = [w EXCEPT !.a = e] BY <1>7, <1>9, <1>13, <2>1
  <2>3. PICK u : u = And(Done(Left(x)), d, DataMoved(Took(real[d], Left(x)), Left(x))) OBVIOUS
  <2>4. \E q1, q2, q3, q4 : u = [a |-> q1, real |-> q2, disk |-> q3, data |-> q4] BY <2>3, AndIs
  <2>5. \E dd : w = [u EXCEPT !.disk = dd] BY <2>1, <2>3 DEF Wrote
  <2>6. r.a = e BY <2>2, <2>4, <2>5
  <2> QED BY <1>10, <2>6
<1>14. CASE PID(s) = x.tout /\ ~IsWrite(x)
  <2>1. r = Just(e) BY <1>7, <1>9, <1>14
  <2>2. r.a = e BY <2>1, JustIsQuiet
  <2> QED BY <1>10, <2>2
<1> QED BY <1>11, <1>12, <1>13, <1>14

\* What the stick says when it is asked for a packet: data, a status, or nothing
\* that the host takes.
LEMMA InReplyComes ==
  ASSUME ToldTypes, NEW s, NEW n \in Int, NEW d \in Devices, NEW r, r = InReply(s, d, n), r.a.st = "done",
         NEW x \in Reals, x = real[d]
  PROVE  /\ PID(s) = x.tin /\ (IsData(x) => n <= Left(x)) /\ (~IsData(x) => x.phase \in {"csw", "failed"})
         /\ r = [a |-> InAnswer(x, n), real |-> [real EXCEPT ![d] = Sent(x, n)], disk |-> disk, data |-> InData(x, n)]
<1>1. PICK e, q : e = Says("error") /\ q = Says("silent") OBVIOUS
<1>2. e.st = "error" /\ q.st = "silent" BY <1>1, ErrorIs
<1>3. Left(x) \in Int BY LeftIs
<1>4. \A k : And(e, d, Sent(x, k)).a = e
  <2> SUFFICES ASSUME NEW k PROVE And(e, d, Sent(x, k)).a = e OBVIOUS
  <2>1. PICK y : y = Sent(x, k) OBVIOUS
  <2>2. PICK new : new = [real EXCEPT ![d] = y] OBVIOUS
  <2>3. And(e, d, y) = [a |-> e, real |-> new, disk |-> disk, data |-> <<>>] BY <2>2, AndIs
  <2> QED BY <2>1, <2>3
<1>5. Just(q).a = q BY DEF Just
<1>6. PICK a : a = InAnswer(x, n) OBVIOUS
<1>7. PICK dt : dt = InData(x, n) OBVIOUS
<1>8. InReply(s, d, n) =
           IF ~IsData(x) /\ ~(x.phase \in {"csw", "failed"}) THEN Just(q)
           ELSE IF PID(s) # x.tin THEN And(e, d, Sent(x, 1))
           ELSE IF IsData(x) /\ n > Left(x) THEN And(e, d, Sent(x, Left(x)))
           ELSE [And(a, d, Sent(x, n)) EXCEPT !.data = dt]
  BY <1>1, <1>6, <1>7, InReplyIs
<1>9. CASE ~IsData(x) /\ ~(x.phase \in {"csw", "failed"})
  <2>1. r.a = q BY <1>5, <1>8, <1>9
  <2> QED BY <1>2, <2>1
<1>10. CASE (IsData(x) \/ x.phase \in {"csw", "failed"}) /\ PID(s) # x.tin
  <2>1. r.a = e BY <1>4, <1>8, <1>10
  <2> QED BY <1>2, <2>1
<1>11. CASE PID(s) = x.tin /\ IsData(x) /\ n > Left(x)
  <2>1. r.a = e BY <1>4, <1>8, <1>11
  <2> QED BY <1>2, <2>1
<1>12. CASE (IsData(x) \/ x.phase \in {"csw", "failed"}) /\ PID(s) = x.tin /\ ~(IsData(x) /\ n > Left(x))
  <2>1. PICK y : y = Sent(x, n) OBVIOUS
  <2>2. PICK new : new = [real EXCEPT ![d] = y] OBVIOUS
  <2>3. PICK u : u = And(a, d, y) OBVIOUS
  <2>4. u = [a |-> a, real |-> new, disk |-> disk, data |-> <<>>] BY <2>2, <2>3, AndIs
  <2>5. r = [u EXCEPT !.data = dt] BY <1>8, <1>12, <2>1, <2>3
  <2>6. r = [a |-> a, real |-> new, disk |-> disk, data |-> dt] BY <2>4, <2>5
  <2>7. IsData(x) => n <= Left(x) BY <1>3, <1>12
  <2> QED BY <1>6, <1>7, <1>12, <2>1, <2>2, <2>6, <2>7
<1> QED BY <1>9, <1>10, <1>11, <1>12

LEMMA ReadReply ==
  ASSUME ToldTypes, main.k = 2, NEW s, NEW n \in Int, NEW d \in Devices, NEW r, r = InReply(s, d, n), r.a.st = "done"
  PROVE  /\ r.a.n \in {1, n} /\ r.disk = disk /\ SameTags(r)
         /\ real[d].phase = "data" /\ real[d].cmd = "read" => SentOut(r, d, n)
<1>1. real \in [Devices -> Reals] BY DEF ToldTypes
<1>2. PICK x \in Reals : x = real[d] BY <1>1
<1>3. PICK y, a, dt : y = Sent(x, n) /\ a = InAnswer(x, n) /\ dt = InData(x, n) OBVIOUS
<1>4. PICK new : new = [real EXCEPT ![d] = y] OBVIOUS
<1>5. r = [a |-> a, real |-> new, disk |-> disk, data |-> dt] BY <1>2, <1>3, <1>4, InReplyComes
<1>6. r.a = a /\ r.real = new /\ r.disk = disk /\ r.data = dt BY <1>5
<1>7. new[d] = y /\ \A f \in Devices \ {d} : new[f] = real[f] BY <1>1, <1>4
<1>8. y.tag = x.tag BY <1>3, SentIs
<1>9. SameTags(r) BY <1>2, <1>6, <1>7, <1>8 DEF SameTags
<1>10. a.n = IF IsData(x) THEN n ELSE 1
  <2>1. PICK k : k = IF IsData(x) THEN n ELSE 1 OBVIOUS
  <2>2. PICK b : b = IF IsData(x) THEN main.k = 2 ELSE main.k = Len(Stages(main)) /\ x.phase = "csw" /\ x.tag = host.tag
    OBVIOUS
  <2>3. a = [Done(k) EXCEPT !.full = b] BY <1>3, <2>1, <2>2 DEF InAnswer
  <2>4. a.n = k BY <2>3 DEF Done
  <2> QED BY <2>1, <2>4
<1>11. ASSUME x.phase = "data", x.cmd = "read" PROVE SentOut(r, d, n)
  <2>1. IsData(x) BY <1>11 DEF IsData
  <2>2. PICK t : t = [x EXCEPT !.tin = Flipped(@, n)] OBVIOUS
  <2>3. t \in Reals /\ t.tag = x.tag /\ t.cmd = x.cmd /\ t.pos = x.pos BY <2>2, TookIs
  <2>4. Left(t) = Left(x) BY <2>3 DEF Left
  <2>5. y = DataMoved(t, n) BY <1>3, <2>1, <2>2 DEF Sent
  <2>6. y.cmd = x.cmd /\ y.pos = x.pos + n /\ y.phase = IF n = Left(x) THEN "csw" ELSE "data"
    BY <2>3, <2>4, <2>5, MovedOn
  <2>7. dt = SectorsAt(x.pos, n) BY <1>3, <1>11, <2>1 DEF InData
  <2> QED BY <1>2, <1>6, <1>7, <1>10, <2>1, <2>6, <2>7 DEF SentOut
<1> QED BY <1>2, <1>6, <1>9, <1>10, <1>11

LEMMA StatusReply ==
  ASSUME ToldTypes, main.k = 3, NEW s, NEW n \in Int, NEW d \in Devices, NEW r, r = InReply(s, d, n), r.a.st = "done"
  PROVE  /\ r.disk = disk /\ SameTags(r) /\ (r.a.full => Taken(d))
         /\ real[d].phase # "data" => r.real[d].phase # "data" /\ r.data = <<>>
<1>1. real \in [Devices -> Reals] BY DEF ToldTypes
<1>2. PICK x \in Reals : x = real[d] BY <1>1
<1>3. PICK y, a, dt : y = Sent(x, n) /\ a = InAnswer(x, n) /\ dt = InData(x, n) OBVIOUS
<1>4. PICK new : new = [real EXCEPT ![d] = y] OBVIOUS
<1>5. r = [a |-> a, real |-> new, disk |-> disk, data |-> dt] BY <1>2, <1>3, <1>4, InReplyComes
<1>6. r.a = a /\ r.real = new /\ r.disk = disk /\ r.data = dt BY <1>5
<1>7. new[d] = y /\ \A f \in Devices \ {d} : new[f] = real[f] BY <1>1, <1>4
<1>8. y.tag = x.tag BY <1>3, SentIs
<1>9. SameTags(r) BY <1>2, <1>6, <1>7, <1>8 DEF SameTags
<1>10. a.full => x.tag = host.tag
  <2>1. PICK k : k = IF IsData(x) THEN n ELSE 1 OBVIOUS
  <2>2. PICK b \in BOOLEAN : b = IF IsData(x) THEN main.k = 2 ELSE main.k = Len(Stages(main)) /\ x.phase = "csw" /\ x.tag = host.tag
    OBVIOUS
  <2>3. a = [Done(k) EXCEPT !.full = b] BY <1>3, <2>1, <2>2 DEF InAnswer
  <2>4. a.full = b BY <2>3 DEF Done
  <2>5. b => x.tag = host.tag
    <3>1. CASE IsData(x)
      <4>1. b = (main.k = 2) BY <2>2, <3>1
      <4>2. main.k # 2 OBVIOUS
      <4>3. ~b BY <4>1, <4>2, Zenon
      <4> QED BY <4>3
    <3>2. CASE ~IsData(x) BY <2>2, <3>2, Zenon
    <3> QED BY <3>1, <3>2
  <2> QED BY <2>4, <2>5
<1>11. ASSUME x.phase # "data" PROVE y.phase # "data" /\ dt = <<>>
  <2>1. ~IsData(x) BY <1>11 DEF IsData
  <2>2. PICK w : w = [x EXCEPT !.tin = Flipped(@, 1)] OBVIOUS
  <2>3. w \in Reals BY <2>2, TookIs
  <2>4. y = [w EXCEPT !.phase = "cbw"] BY <1>3, <2>1, <2>2 DEF Sent
  <2>5. y.phase = "cbw" BY <2>3, <2>4 DEF Reals
  <2> QED BY <1>3, <2>1, <2>5 DEF InData
<1> QED BY <1>2, <1>6, <1>7, <1>9, <1>10, <1>11 DEF Taken

\* The stage the main program waits for goes on, or is over.
Continues(c, a) ==
  /\ waiting' = waiting /\ urb' = urb /\ Waited(chan') = {c}
  /\ chan'[c].ep = chan[c].ep /\ (chan'[c].state = "noSplit" <=> chan[c].state = "noSplit")
  /\ chan'[c].left = IF Counts(chan[c], a) THEN chan[c].left - a.n ELSE chan[c].left
  /\ Counts(chan[c], a) => chan'[c].left # 0 /\ chan[c].state = "completeSplit"
  /\ a.st # "error"
Ends(c, a) ==
  /\ waiting' = FALSE /\ Waited(chan') = {}
  /\ urb'.status <=> Counts(chan[c], a)
  /\ Counts(chan[c], a) => chan[c].state = "noSplit" \/ chan[c].left - a.n = 0
  /\ Counts(chan[c], a) /\ ~chan[c].status => urb'.full = a.full

LEMMA WaitedOutcome ==
  ASSUME ChannelsWork, NEW c \in Channels, chan[c] # Idle, ~Periodic(chan[c].ep),
         NEW a, NEW sl, Outcome(c, a, sl)
  PROVE  Continues(c, a) \/ Ends(c, a)
<1>1. chan \in ChanSet /\ Waited(chan) = {c}
  <2>1. c \in Waited(chan) BY DEF Waited
  <2> QED BY <2>1 DEF ChannelsWork
<1>2. CASE GoesOn(c, a, sl)
  <2>1. PICK t \in Stagings :
          /\ t.ep = chan[c].ep
          /\ t.left = IF Counts(chan[c], a) THEN chan[c].left - a.n ELSE chan[c].left
          /\ Counts(chan[c], a) /\ ~Periodic(t.ep) => t.left # 0 /\ chan[c].state = "completeSplit"
          /\ ~Periodic(t.ep) => a.st # "error" /\ (t.state = "noSplit" <=> chan[c].state = "noSplit")
          /\ chan' = [chan EXCEPT ![c] = t]
          /\ UNCHANGED <<waiting, urb>>
    BY <1>2 DEF GoesOn
  <2>2. chan'[c] = t /\ \A d \in Channels : d # c => chan'[d] = chan[d] BY <1>1, <2>1 DEF ChanSet
  <2>3. t # Idle BY StagingIsBusy
  <2>4. Waited(chan') = {c} BY <1>1, <2>1, <2>2, <2>3 DEF Waited
  <2> QED BY <2>1, <2>2, <2>4 DEF Continues
<1>3. CASE IsOver(c, a, sl)
  <2>1. chan' = [chan EXCEPT ![c] = Idle] /\ waiting' = FALSE BY <1>3 DEF IsOver
  <2>2. chan'[c] = Idle /\ \A d \in Channels : d # c => chan'[d] = chan[d] BY <1>1, <2>1 DEF ChanSet
  <2>3. Waited(chan') = {} BY <1>1, <2>2 DEF Waited
  <2>4. PICK ok \in BOOLEAN :
          /\ urb' = [status |-> ok, full |-> IF ok /\ ~chan[c].status THEN a.full ELSE urb.full]
          /\ ok <=> Counts(chan[c], a)
          /\ ok => chan[c].state = "noSplit" \/ chan[c].left - a.n = 0
    BY <1>3 DEF IsOver
  <2>5. urb'.status = ok /\ urb'.full = IF ok /\ ~chan[c].status THEN a.full ELSE urb.full BY <2>4
  <2>6. ok /\ ~chan[c].status => urb'.full = a.full BY <2>5, Zenon
  <2> QED BY <2>1, <2>3, <2>4, <2>5, <2>6 DEF Ends
<1>4. ~AsksAgain(c, sl) BY DEF AsksAgain
<1> QED BY <1>2, <1>3, <1>4 DEF Outcome

\* The main program does not notice what becomes of a channel that asks the keyboard.
Unnoticed ==
  /\ UNCHANGED <<waiting, urb>>
  /\ Waited(chan') = Waited(chan)
  /\ \A c \in Waited(chan) :
       chan'[c].ep = chan[c].ep /\ chan'[c].left = chan[c].left /\ (chan'[c].state = "noSplit" <=> chan[c].state = "noSplit")

LEMMA PolledOutcome ==
  ASSUME ChannelsWork, NEW c \in Channels, chan[c] # Idle, Periodic(chan[c].ep),
         NEW a, NEW sl, Outcome(c, a, sl)
  PROVE  Unnoticed
<1>1. chan \in ChanSet BY DEF ChannelsWork
<1>2. CASE GoesOn(c, a, sl)
  <2>1. PICK t \in Stagings : t.ep = chan[c].ep /\ chan' = [chan EXCEPT ![c] = t] /\ UNCHANGED <<waiting, urb>>
    BY <1>2 DEF GoesOn
  <2>2. chan'[c] = t /\ \A d \in Channels : d # c => chan'[d] = chan[d] BY <1>1, <2>1 DEF ChanSet
  <2>3. t # Idle BY StagingIsBusy
  <2> QED BY <2>1, <2>2, <2>3 DEF Waited, Unnoticed
<1>3. ~IsOver(c, a, sl) BY DEF IsOver
<1>4. CASE AsksAgain(c, sl)
  <2>1. PICK b \in Channels, t \in Stagings :
          /\ b = c \/ chan[b] = Idle
          /\ chan' = [[chan EXCEPT ![c] = Idle] EXCEPT ![b] = t]
          /\ t.ep = chan[c].ep
    BY <1>4 DEF AsksAgain
  <2>2. \A d \in Channels : chan'[d] = IF d = b THEN t ELSE IF d = c THEN Idle ELSE chan[d]
    BY <1>1, <2>1 DEF ChanSet
  <2>3. UNCHANGED <<waiting, urb>> BY <1>4 DEF AsksAgain
  <2>4. ASSUME NEW d \in Channels PROVE d \in Waited(chan') <=> d \in Waited(chan)
    <3>1. CASE d = b BY <2>1, <2>2, <3>1 DEF Waited
    <3>2. CASE d # b /\ d = c BY <2>2, <3>2 DEF Waited
    <3>3. CASE d # b /\ d # c BY <2>2, <3>3 DEF Waited
    <3> QED BY <3>1, <3>2, <3>3
  <2>5. Waited(chan') = Waited(chan) BY <2>4 DEF Waited
  <2>6. \A d \in Waited(chan) : chan'[d] = chan[d] BY <2>1, <2>2 DEF Waited
  <2> QED BY <2>3, <2>5, <2>6 DEF Unnoticed
<1> QED BY <1>2, <1>3, <1>4 DEF Outcome

\* The main program begins a stage, or finds no channel.
LEMMA TransferBegins ==
  ASSUME ChannelsWork, ~waiting, NEW s \in Stagings, ~Periodic(s.ep), TransferStage(s)
  PROVE  \/ waiting' = FALSE /\ urb'.status = FALSE /\ Waited(chan') = {}
         \/ waiting' = TRUE /\ \E c \in Channels : Waited(chan') = {c} /\ Alike(chan'[c], s)
<1>0. chan \in ChanSet /\ Waited(chan) = {} /\ urb \in [status : BOOLEAN, full : BOOLEAN] BY DEF ChannelsWork
<1>1. CASE FreeChannels(chan) = {}
  <2>1. waiting' = FALSE /\ urb' = [urb EXCEPT !.status = FALSE] /\ chan' = chan BY <1>1 DEF TransferStage
  <2> QED BY <1>0, <2>1
<1>2. CASE FreeChannels(chan) # {}
  <2>1. Submit(chan, s) /\ waiting' = TRUE BY <1>2 DEF TransferStage
  <2>2. PICK c \in Channels, t \in Stagings : chan[c] = Idle /\ Alike(t, s) /\ chan' = [chan EXCEPT ![c] = t]
    BY <1>0, <1>2, <2>1, SubmitOutcome
  <2>3. chan'[c] = t /\ \A d \in Channels : d # c => chan'[d] = chan[d] BY <1>0, <2>2 DEF ChanSet
  <2>4. ~Periodic(t.ep) /\ t # Idle BY <2>2, StagingIsBusy DEF Alike
  <2>5. Waited(chan') = {c} BY <1>0, <2>3, <2>4 DEF Waited
  <2> QED BY <2>1, <2>2, <2>3, <2>5
<1> QED BY <1>1, <1>2

LEMMA IntervalIsUnnoticed ==
  ASSUME ChannelsWork, TimersAgree, NEW i \in Slots, DelayIsOver(i)
  PROVE  Unnoticed
<1>0. chan \in ChanSet BY DEF ChannelsWork
<1>1. PICK c : c = slots[i] OBVIOUS
<1>2. c \in Channels BY <1>1 DEF DelayIsOver
<1>3. chan[c].state = "delay" BY <1>1, <1>2 DEF TimersAgree
<1>4. chan[c] \in Stagings /\ Periodic(chan[c].ep)
  <2>1. chan[c] # Idle BY <1>3 DEF Idle
  <2> QED BY <1>0, <1>2, <1>3, <2>1 DEF ChanSet, ChannelsWork
<1>5. PICK state : state = IF chan[c].ep \in SplitEps THEN "startSplit" ELSE "noSplit" OBVIOUS
<1>6. PICK s : s = [chan[c] EXCEPT !.state = state] OBVIOUS
<1>7. s \in Stagings /\ s.ep = chan[c].ep BY <1>4, <1>5, <1>6 DEF Stagings
<1>8. Restart(c, s) BY <1>1, <1>5, <1>6 DEF DelayIsOver
<1>9. PICK t \in Started(c, s) : chan' = [chan EXCEPT ![c] = t] BY <1>8 DEF Restart
<1>10. t \in Stagings /\ t.ep = chan[c].ep BY <1>7, <1>9, StartedIsAlike DEF Alike
<1>11. chan'[c] = t /\ \A d \in Channels : d # c => chan'[d] = chan[d] BY <1>0, <1>2, <1>9 DEF ChanSet
<1>12. Waited(chan') = Waited(chan) /\ \A d \in Waited(chan) : d # c BY <1>4, <1>10, <1>11 DEF Waited
<1>13. UNCHANGED <<waiting, urb>> BY <1>8 DEF Restart
<1>14. \A d \in Waited(chan) : chan'[d] = chan[d] BY <1>11, <1>12 DEF Waited
<1> QED BY <1>12, <1>13, <1>14 DEF Unnoticed

\* Nothing happens that matters for the data of a call.
Unseen ==
  /\ UNCHANGED <<main, last, host, disk>> /\ Unnoticed
  /\ call'.at = call.at /\ call'.n = call.n /\ call'.buf \in {call.buf, call.buf \o <<>>}
  /\ nextPID' \in [Endpoints -> Stations] /\ \A e \in Endpoints : ~Periodic(e) => nextPID'[e] = nextPID[e]
  /\ \A e \in Devices : SameData(real'[e], real[e]) /\ KeepsAddress(real', e)

\* What is asked of the stick, and what the call is about.
LEMMA MovingIs ==
  ASSUME TablesInv, DataTypes, Moving
  PROVE  /\ main.dev = Stick /\ Stick \in Devices /\ main.k \in {1, 2, 3}
         /\ main.at = call.op
         /\ EpOf(main, 1) = <<Stick, "out">> /\ EpOf(main, 3) = <<Stick, "in">>
         /\ EpOf(main, 2) = <<Stick, IF main.at = "write" THEN "out" ELSE "in">>
         /\ \A k : ~StatusAt(main, k)
         /\ <<Stick, "out">> \in Endpoints /\ <<Stick, "in">> \in Endpoints
         /\ call.at \in Nat /\ call.n \in Nat /\ call.n >= 1 /\ call.at + call.n = Cardinality(Sectors)
<1>1. Placed(main) BY DEF TablesInv, MainIsPlaced
<1>2. main.dev = Stick /\ Stick \in Devices /\ main.at = call.op
  BY <1>1, PortsAreNumbers DEF Placed, Moving
<1>3. main.k \in {1, 2, 3} BY <1>1 DEF Placed, Messages, DataTypes
<1>4. main.at \in {"read", "write"} BY DEF Moving
<1>5. call.at \in Sectors /\ call.n = Cardinality(Sectors) - call.at BY <1>4 DEF DataTypes
<1>6. call.at \in Nat /\ call.n \in Nat /\ call.n >= 1 /\ call.at + call.n = Cardinality(Sectors)
  BY <1>5, SectorsAreNumbers
<1>7. /\ EpOf(main, 1) = <<Stick, "out">> /\ EpOf(main, 3) = <<Stick, "in">>
      /\ EpOf(main, 2) = <<Stick, IF main.at = "write" THEN "out" ELSE "in">>
  BY <1>2, <1>4 DEF EpOf
<1>8. \A k : ~StatusAt(main, k) BY <1>4 DEF StatusAt
<1>9. <<Stick, "out">> \in Endpoints /\ <<Stick, "in">> \in Endpoints BY <1>2, UsbBusAssumption
<1> QED BY <1>2, <1>3, <1>6, <1>7, <1>8, <1>9

LEMMA DoneKept ==
  ASSUME DataTypes, Unseen, NEW k \in Nat, call.at \in Nat, call.at + k <= Cardinality(Sectors), DoneUpTo(k)
  PROVE  DoneUpTo(k)'
<1>1. main' = main /\ disk' = disk /\ call'.at = call.at /\ call'.buf \in {call.buf, call.buf \o <<>>} BY DEF Unseen
<1>2. CASE main.at = "write" BY <1>1, <1>2 DEF DoneUpTo
<1>3. CASE main.at # "write"
  <2>1. PICK at \in Nat : at = call.at OBVIOUS
  <2>2. PICK w : w = SectorsAt(at, k) OBVIOUS
  <2>3. disk \in [Sectors -> SectorData] BY DEF DataTypes, SectorData
  <2>4. w \in Seq(SectorData) BY <2>1, <2>2, <2>3, SectorsAtIs
  <2>5. call.buf = w BY <1>3, <2>1, <2>2 DEF DoneUpTo
  <2>6. w \o <<>> = w BY <2>4, ConcatEmptySeq
  <2>7. call'.buf = w BY <1>1, <2>5, <2>6
  <2>8. SectorsAt(at, k)' = w BY <1>1, <2>2 DEF SectorsAt
  <2> QED BY <1>1, <1>3, <2>1, <2>7, <2>8 DEF DoneUpTo
<1> QED BY <1>2, <1>3

LEMMA OnlyKept ==
  ASSUME Unseen, NEW d \in Devices
  PROVE  (Taken(d)' <=> Taken(d)) /\ (Only(d) => Only(d)') /\ SameData(real'[d], real[d])
BY DEF Unseen, Taken, Only, SameData, KeepsAddress

LEMMA QuietKeeps ==
  ASSUME TablesInv, DataInv, Unseen
  PROVE  DataInv'
<1>1. main' = main /\ last' = last /\ host' = host /\ disk' = disk /\ waiting' = waiting /\ urb' = urb
      /\ call'.at = call.at /\ call'.n = call.n /\ Waited(chan') = Waited(chan)
  BY DEF Unseen, Unnoticed
<1>2. DataTypes /\ Progress BY DEF DataInv
<1>3. DataTypes'
  <2>1. \A d \in Devices : real'[d].tag <= host'.tag BY <1>1, <1>2 DEF DataTypes, Unseen, SameData
  <2>2. \A c \in Waited(chan') : chan'[c].state = "noSplit" <=> chan'[c].ep \notin SplitEps
    BY <1>2 DEF DataTypes, Unseen, Unnoticed
  <2>3. TransfersAreTrue' BY <1>1, <1>2 DEF DataTypes, TransfersAreTrue, SectorsAt
  <2>4. nextPID' \in [Endpoints -> Stations] BY DEF Unseen
  <2> QED BY <1>1, <1>2, <2>1, <2>2, <2>3, <2>4 DEF DataTypes, Moving
<1>4. Progress'
  <2> SUFFICES ASSUME Moving PROVE Progress' BY <1>1 DEF Progress, Moving
  <2>1. Stick \in Devices /\ <<Stick, "out">> \in Endpoints /\ call.at \in Nat /\ call.n \in Nat
        /\ call.at + call.n = Cardinality(Sectors)
    BY <1>2, MovingIs
  <2>2. nextPID'[<<Stick, "out">>] = nextPID[<<Stick, "out">>] BY <2>1 DEF Unseen, Periodic
  <2>3. Cardinality(Sectors) \in Nat BY SectorsAreNumbers
  <2>4. ASSUME NEW k \in 0 .. call.n, NEW d \in Devices, InStep(d, k) PROVE InStep(d, k)'
    <3>1. call.at + k <= Cardinality(Sectors) /\ k \in Nat BY <2>1, <2>3
    <3>2. DoneUpTo(k) BY <2>4 DEF InStep
    <3>3. PICK j \in Nat : j = k BY <3>1
    <3>4. DoneUpTo(j)' BY <1>2, <2>1, <3>1, <3>2, <3>3, DoneKept
    <3>5. SameData(real'[d], real[d]) BY OnlyKept
    <3> QED BY <1>1, <2>2, <2>4, <3>3, <3>4, <3>5 DEF InStep, SameData
  <2>5. ASSUME NEW d \in Devices, Finished(d) PROVE Finished(d)'
    <3>1. PICK j \in Nat : j = call.n BY <2>1
    <3>2. DoneUpTo(j)' BY <1>2, <2>1, <2>3, <2>5, <3>1, DoneKept DEF Finished
    <3>3. SameData(real'[d], real[d]) BY OnlyKept
    <3>4. DoneUpTo(call.n)' BY <1>1, <3>1, <3>2
    <3> QED BY <2>5, <3>3, <3>4 DEF Finished, SameData
  <2>6. \A d \in Devices : (Taken(d)' <=> Taken(d)) /\ (Only(d) => Only(d)') BY OnlyKept
  <2>7. \A k : (Under(k)' <=> Under(k)) /\ (Succeeded(k)' <=> Succeeded(k)) BY <1>1 DEF Under, Succeeded
  <2>8. main.k = 1 => call'.buf = <<>>
    <3>1. main.k = 1 => call.buf = <<>> BY <1>2 DEF Progress
    <3>2. <<>> \o <<>> = <<>> BY ConcatEmptySeq, EmptySeq
    <3>3. call'.buf \in {call.buf, call.buf \o <<>>} BY DEF Unseen
    <3> QED BY <3>1, <3>2, <3>3
  <2>9. Under(1) => (\A d \in Devices : ~Taken(d)') /\ \A c \in Waited(chan) : chan'[c].left = 1
    BY <1>2, <2>6 DEF Progress, Unseen, Unnoticed
  <2>10. Succeeded(1) => \A d \in Devices : Taken(d)' => Only(d)' /\ InStep(d, 0)'
    <3>1. 0 \in 0 .. call.n BY <2>1
    <3>2. PICK z : z = 0 OBVIOUS
    <3>3. Succeeded(1) => \A d \in Devices : Taken(d) => Only(d) /\ InStep(d, z) BY <1>2, <3>2 DEF Progress
    <3>4. Succeeded(1) => \A d \in Devices : Taken(d)' => Only(d)' /\ InStep(d, z)' BY <2>4, <2>6, <3>1, <3>2, <3>3
    <3> QED BY <3>2, <3>4
  <2>11. ASSUME Under(2), NEW c \in Waited(chan)
         PROVE  /\ chan'[c].left \in 1 .. call.n
                /\ \A d \in Devices : Taken(d)' => Only(d)' /\ InStep(d, call.n - chan[c].left)'
    <3>1. chan[c].left \in 1 .. call.n /\ \A d \in Devices : Taken(d) => Only(d) /\ InStep(d, call.n - chan[c].left)
      BY <1>2, <2>11 DEF Progress
    <3>2. chan'[c].left = chan[c].left BY DEF Unseen, Unnoticed
    <3>3. PICK j : j = call.n - chan[c].left OBVIOUS
    <3>4. j \in 0 .. call.n BY <2>1, <3>1, <3>3
    <3>5. \A d \in Devices : Taken(d)' => Only(d)' /\ InStep(d, j)'
      <4>1. \A d \in Devices : Taken(d) => Only(d) /\ InStep(d, j) BY <3>1, <3>3
      <4> QED BY <2>4, <2>6, <3>4, <4>1
    <3>6. j = (call.n - chan[c].left)' BY <1>1, <3>2, <3>3
    <3> QED BY <3>1, <3>2, <3>5, <3>6
  <2>12. Succeeded(2) \/ Under(3) \/ Succeeded(3) => \A d \in Devices : Taken(d)' => Only(d)' /\ Finished(d)'
    BY <1>2, <2>5, <2>6 DEF Progress
  <2>13. Succeeded(3) /\ urb.full => \E d \in Devices : Taken(d)' BY <1>2, <2>6 DEF Progress
  <2> QED BY <1>1, <2>7, <2>8, <2>9, <2>10, <2>11, <2>12, <2>13 DEF Progress
<1> QED BY <1>3, <1>4 DEF DataInv

\* An interrupt of channel c that brought r.
Handled(c, r) ==
  /\ c \in Channels /\ chan[c] \in Stagings /\ r \in Answers(chan[c]) \cup Spoilt(chan[c])
  /\ UNCHANGED <<main, last, host>> /\ real' = r.real /\ disk' = r.disk
  /\ call' = IF Counts(chan[c], r.a) THEN [call EXCEPT !.buf = @ \o r.data] ELSE call
  /\ nextPID' = IF Counts(chan[c], r.a) THEN [nextPID EXCEPT ![chan[c].ep] = SkipPID(chan[c], r.a.n)] ELSE nextPID
  /\ IF Periodic(chan[c].ep) THEN Unnoticed ELSE Continues(c, r.a) \/ Ends(c, r.a)

LEMMA InterruptIsHandled ==
  ASSUME TablesInv, NEW c \in Channels, Interrupt(c)
  PROVE  \E r : Handled(c, r)
<1>0. ToldTypes BY ToldTypesHold
<1>1. chan[c] # Idle /\ chan[c].state # "delay" /\ chan \in ChanSet /\ UNCHANGED <<main, last, host>>
  BY DEF Interrupt, TablesInv, ChannelsWork
<1>2. chan[c] \in Stagings BY <1>1 DEF ChanSet
<1>3. PICK r \in Answers(chan[c]) \cup Spoilt(chan[c]), h \in {KeyPressedHandlerRaw, [slots |-> slots, keys |-> keys]} :
        /\ ChannelInterrupt(c, r.a, h.slots)
        /\ real' = r.real /\ disk' = r.disk
        /\ call' = IF Counts(chan[c], r.a) THEN [call EXCEPT !.buf = @ \o r.data] ELSE call
  BY DEF Interrupt
<1>4. Answer(chan[c], r.a) BY <1>0, <1>2, RepliesAre
<1>5. PICK sl : sl = h.slots OBVIOUS
<1>6. PICK a : a = r.a OBVIOUS
<1>7. /\ Outcome(c, a, sl)
      /\ nextPID' = IF Counts(chan[c], a) THEN [nextPID EXCEPT ![chan[c].ep] = SkipPID(chan[c], a.n)] ELSE nextPID
  BY <1>1, <1>2, <1>3, <1>4, <1>5, <1>6, ChannelOutcome
<1>8. CASE Periodic(chan[c].ep)
  <2>1. Unnoticed BY <1>1, <1>7, <1>8, PolledOutcome DEF TablesInv
  <2>2. Handled(c, r) BY <1>1, <1>2, <1>3, <1>6, <1>7, <1>8, <2>1 DEF Handled
  <2> QED BY <2>2
<1>9. CASE ~Periodic(chan[c].ep)
  <2>1. Continues(c, a) \/ Ends(c, a) BY <1>1, <1>7, <1>9, WaitedOutcome DEF TablesInv
  <2>2. Handled(c, r) BY <1>1, <1>2, <1>3, <1>6, <1>7, <1>9, <2>1 DEF Handled
  <2> QED BY <2>2
<1> QED BY <1>8, <1>9

\* The call as it was, but for what has come.
LEMMA HandledCall ==
  ASSUME TablesInv, NEW c, NEW r, Handled(c, r)
  PROVE  /\ call'.at = call.at /\ call'.n = call.n
         /\ call'.buf = IF Counts(chan[c], r.a) THEN call.buf \o r.data ELSE call.buf
<1>1. PICK b : b = call.buf \o r.data OBVIOUS
<1>2. PICK new : new = [call EXCEPT !.buf = b] OBVIOUS
<1>3. new.at = call.at /\ new.n = call.n /\ new.buf = b BY <1>2, BufIs DEF TablesInv, MainIsPlaced
<1>4. call' = IF Counts(chan[c], r.a) THEN new ELSE call BY <1>1, <1>2 DEF Handled
<1> QED BY <1>1, <1>3, <1>4

LEMMA SkipPIDIs ==
  ASSUME NEW s, NEW n
  PROVE  /\ nextPID[s.ep] \in Stations => SkipPID(s, n) \in Stations
         /\ nextPID[s.ep] \in Toggles /\ ~s.status => SkipPID(s, n) = Flipped(nextPID[s.ep], n)
BY DEF SkipPID, Stations, Toggles, Flipped, Toggle

LEMMA HandledTypes ==
  ASSUME TablesInv, DataTypes, NEW c, NEW r, Handled(c, r)
  PROVE  DataTypes'
<1>0. ToldTypes BY ToldTypesHold
<1>1. c \in Channels /\ chan[c] \in Stagings /\ r \in Answers(chan[c]) \cup Spoilt(chan[c])
      /\ main' = main /\ last' = last /\ host' = host /\ real' = r.real /\ disk' = r.disk
  BY DEF Handled
<1>2. PICK s \in Stagings : s = chan[c] BY <1>1
<1>3. Addressed(real', s) /\ OnDisk(disk', s) BY <1>0, <1>1, <1>2, RepliesAre
<1>4. disk \in [Sectors -> SectorData] /\ nextPID \in [Endpoints -> Stations] BY DEF DataTypes, SectorData
<1>5. disk' \in [Sectors -> SectorData]
  <2>1. CASE disk' = disk BY <1>4, <2>1
  <2>2. ASSUME NEW from \in Int, NEW to \in Int, disk' = Overwritten(from, to) PROVE disk' \in [Sectors -> SectorData]
    BY <1>4, <2>2 DEF Overwritten, SectorData
  <2> QED BY <1>3, <2>1, <2>2 DEF OnDisk
<1>6. nextPID' \in [Endpoints -> Stations]
  <2>1. s.ep \in Endpoints BY DEF Stagings
  <2>2. PICK p : p = SkipPID(s, r.a.n) OBVIOUS
  <2>3. p \in Stations BY <1>4, <2>1, <2>2, SkipPIDIs
  <2>4. nextPID' = nextPID \/ nextPID' = [nextPID EXCEPT ![s.ep] = p] BY <1>2, <2>2 DEF Handled
  <2> QED BY <1>4, <2>1, <2>3, <2>4
<1>7. \A d \in Devices : real'[d].tag <= host'.tag
  <2>1. host.tag \in Nat BY <1>0 DEF ToldTypes
  <2> QED BY <1>1, <1>3, <2>1 DEF Addressed, KeepsTag, DataTypes
<1>8. \A d \in Waited(chan') : chan'[d].state = "noSplit" <=> chan'[d].ep \notin SplitEps
  <2>1. CASE Periodic(s.ep) BY <1>2, <2>1 DEF Handled, Unnoticed, DataTypes
  <2>2. CASE ~Periodic(s.ep)
    <3>1. c \in Waited(chan) BY <1>1, <1>2, <2>2, StagingIsBusy DEF Waited
    <3> QED BY <1>2, <2>2, <3>1 DEF Handled, Continues, Ends, DataTypes
  <2> QED BY <2>1, <2>2
<1>9. call'.at = call.at /\ call'.n = call.n BY HandledCall
<1>10. last.ok => disk' = disk
  <2> SUFFICES ASSUME last.ok PROVE disk' = disk OBVIOUS
  <2>1. main.at = "up" BY DEF DataTypes
  <2>2. Waited(chan) = {} BY <2>1 DEF TablesInv, MainIsPlaced, ChannelsWork
  <2>3. Periodic(s.ep) BY <1>1, <1>2, <2>2, StagingIsBusy DEF Waited
  <2> QED BY <1>3, <2>3 DEF OnDisk
<1>11. TransfersAreTrue'
  <2>1. last'.ok = last.ok BY <1>1
  <2>2. CASE last.ok BY <1>1, <1>10, <2>2 DEF DataTypes, TransfersAreTrue, SectorsAt
  <2>3. CASE ~last.ok BY <2>1, <2>3 DEF TransfersAreTrue
  <2> QED BY <2>2, <2>3
<1> QED BY <1>1, <1>5, <1>6, <1>7, <1>8, <1>9, <1>11 DEF DataTypes, SectorData, Moving

\* The keyboard has been asked, and the data of a call are where they were.
LEMMA PolledIsUnseen ==
  ASSUME TablesInv, DataTypes, NEW c, NEW r, Handled(c, r), Periodic(chan[c].ep)
  PROVE  Unseen
<1>0. ToldTypes BY ToldTypesHold
<1>1. c \in Channels /\ chan[c] \in Stagings /\ r \in Answers(chan[c]) \cup Spoilt(chan[c])
      /\ main' = main /\ last' = last /\ host' = host /\ real' = r.real /\ disk' = r.disk /\ Unnoticed
  BY DEF Handled
<1>2. PICK s \in Stagings : s = chan[c] BY <1>1
<1>3. Addressed(real', s) BY <1>0, <1>1, <1>2, RepliesAre
<1>4. Quiet(r) BY <1>0, <1>1, <1>2, PeriodicIsQuiet
<1>5. \A e \in Devices : KeepsAddress(real', e)
  <2>1. Polled(chan) # {} BY <1>1, StagingIsBusy DEF Polled
  <2>2. main.at \notin Finding BY <2>1 DEF TablesInv, ChannelsWork, NamesComeInOrder
  <2> QED BY <1>3, <2>2 DEF Addressed
<1>6. \A e \in Devices : SameData(real'[e], real[e]) BY <1>1, <1>4 DEF Quiet
<1>7. call'.at = call.at /\ call'.n = call.n /\ call'.buf \in {call.buf, call.buf \o <<>>}
  BY <1>4, HandledCall DEF Quiet
<1>8. DataTypes' BY HandledTypes
<1>9. \A e \in Endpoints : ~Periodic(e) => nextPID'[e] = nextPID[e]
  <2>1. PICK p : p = SkipPID(s, r.a.n) OBVIOUS
  <2>2. nextPID' = nextPID \/ nextPID' = [nextPID EXCEPT ![s.ep] = p] BY <1>2, <2>1 DEF Handled
  <2>3. nextPID \in [Endpoints -> Stations] BY DEF DataTypes
  <2> QED BY <1>2, <2>2, <2>3
<1> QED BY <1>1, <1>4, <1>5, <1>6, <1>7, <1>8, <1>9 DEF Unseen, Quiet, DataTypes

\* An interrupt of the channel a call waits for.
OfCall(c, r) == Handled(c, r) /\ ~Periodic(chan[c].ep) /\ Moving

LEMMA OfCallIs ==
  ASSUME TablesInv, DataTypes, NEW c, NEW r, OfCall(c, r)
  PROVE  /\ waiting /\ Waited(chan) = {c} /\ c \in Channels /\ chan[c] \in Stagings
         /\ chan[c].ep = EpOf(main, main.k) /\ ~chan[c].status
         /\ chan[c].state = "noSplit" <=> chan[c].ep \notin SplitEps
         /\ main' = main /\ host' = host /\ real' = r.real /\ disk' = r.disk
         /\ \A e \in Devices : KeepsAddress(real', e) /\ (Only(e) => Only(e)')
         /\ Continues(c, r.a) \/ Ends(c, r.a)
<1>0. ToldTypes BY ToldTypesHold
<1>1. /\ c \in Channels /\ chan[c] \in Stagings /\ r \in Answers(chan[c]) \cup Spoilt(chan[c])
      /\ main' = main /\ host' = host /\ real' = r.real /\ disk' = r.disk /\ ~Periodic(chan[c].ep) /\ Moving
      /\ Continues(c, r.a) \/ Ends(c, r.a)
  BY DEF OfCall, Handled
<1>2. c \in Waited(chan) BY <1>1, StagingIsBusy DEF Waited
<1>3. Waited(chan) = {c} /\ waiting /\ Asked(main, chan[c]) BY <1>2 DEF TablesInv, ChannelsWork
<1>4. ~chan[c].status BY <1>1, <1>3, MovingIs DEF Asked
<1>5. PICK s \in Stagings : s = chan[c] BY <1>1
<1>6. Addressed(real', s) BY <1>0, <1>1, <1>5, RepliesAre
<1>7. \A e \in Devices : KeepsAddress(real', e) BY <1>1, <1>6 DEF Addressed, Moving
<1>8. \A e \in Devices : Only(e) => Only(e)' BY <1>1, <1>7 DEF Only, KeepsAddress
<1>9. chan[c].state = "noSplit" <=> chan[c].ep \notin SplitEps BY <1>2 DEF DataTypes
<1> QED BY <1>1, <1>3, <1>4, <1>7, <1>8, <1>9 DEF Asked

\* Nothing was moved: the stage goes on as it was, or has failed.
LEMMA NothingIsMoved ==
  ASSUME TablesInv, DataInv, NEW c, NEW r, OfCall(c, r), ~Counts(chan[c], r.a)
  PROVE  DataInv'
<1>0. ToldTypes BY ToldTypesHold
<1>1. DataTypes /\ Progress /\ Handled(c, r) /\ Moving BY DEF DataInv, OfCall
<1>2. /\ waiting /\ Waited(chan) = {c} /\ c \in Channels /\ chan[c] \in Stagings
      /\ main' = main /\ host' = host /\ real' = r.real /\ disk' = r.disk
      /\ \A e \in Devices : KeepsAddress(real', e)
      /\ Continues(c, r.a) \/ Ends(c, r.a)
  BY <1>1, OfCallIs
<1>3. DataTypes' BY <1>1, HandledTypes
<1>4. call'.at = call.at /\ call'.n = call.n /\ call'.buf = call.buf BY <1>1, HandledCall
<1>5. CASE Ends(c, r.a)
  <2>1. waiting' = FALSE /\ ~urb'.status BY <1>5 DEF Ends
  <2>2. ~Under(1)' /\ ~Under(2)' /\ ~Under(3)' /\ ~Succeeded(1)' /\ ~Succeeded(2)' /\ ~Succeeded(3)'
    BY <2>1 DEF Under, Succeeded
  <2>3. main'.k = 1 => call'.buf = <<>> BY <1>1, <1>2, <1>4 DEF Progress
  <2> QED BY <1>3, <2>2, <2>3 DEF DataInv, Progress
<1>6. CASE Continues(c, r.a)
  <2>1. r.a.st # "error" BY <1>6 DEF Continues
  <2>2. PICK s \in Stagings : s = chan[c] BY <1>2
  <2>3. ~Periodic(s.ep) /\ r \in Answers(s) \cup Spoilt(s) BY <2>2 DEF OfCall, Handled
  <2>4. r # ReplyTo(s, Moves(s)) \/ s.state = "startSplit" \/ r.a.st = "silent"
    <3> SUFFICES ASSUME r = ReplyTo(s, Moves(s)), s.state # "startSplit", r.a.st # "silent" PROVE FALSE OBVIOUS
    <3>1. PICK n \in Int : n = Moves(s) BY DEF Moves, Stagings
    <3>2. IsReply(r, s) BY <1>0, <3>1, ReplyIsOne
    <3>3. r.a.st = "done" BY <2>1, <2>3, <3>2 DEF IsReply
    <3> QED BY <2>2, <3>3 DEF Counts
  <2>5. \E a : r = Just(a) BY <1>0, <2>1, <2>3, <2>4, Comes
  <2>6. Quiet(r) BY <2>5, JustIsQuiet
  <2>7. Unnoticed BY <1>2, <1>6 DEF Continues, Unnoticed
  <2>8. nextPID' = nextPID /\ last' = last BY <1>1 DEF Handled
  <2>9. nextPID' \in [Endpoints -> Stations] BY <1>1, <2>8 DEF DataTypes
  <2>10. Unseen BY <1>2, <1>4, <2>6, <2>7, <2>8, <2>9 DEF Unseen, Quiet
  <2> QED BY <2>10, QuietKeeps
<1> QED BY <1>2, <1>5, <1>6

\* Something was moved: it is what the stick, and nobody else, made of the stage.
LEMMA StickReplies ==
  ASSUME TablesInv, DataTypes, NEW c, NEW r, OfCall(c, r), Counts(chan[c], r.a),
         NEW s, s = chan[c], NEW n, n = Moves(s)
  PROVE  /\ r.a.st = "done" /\ s.ep[1] = Stick
         /\ \E d \in Devices :
              /\ Alone(d, s) /\ r = IF s.ep[2] = "out" THEN OutReply(s, d, n) ELSE InReply(s, d, n)
              /\ \A e \in Devices : Only(e) => e = d
<1>0. ToldTypes BY ToldTypesHold
<1>1. Handled(c, r) /\ Moving BY DEF OfCall
<1>2. s \in Stagings /\ s.ep = EpOf(main, main.k) BY OfCallIs
<1>3. r.a.st = "done" BY DEF Counts
<1>4. r \in Answers(s) \cup Spoilt(s) BY <1>1 DEF Handled
<1>5. r = ReplyTo(s, n)
  <2>1. \/ \E a : r = Just(a) /\ r.a = a /\ a.st \in {"halted", "nyet", "ack", "error"}
        \/ r = ReplyTo(s, Moves(s)) /\ s.state # "startSplit" /\ r.a.st # "silent"
        \/ r.a.st = "error"
    BY <1>0, <1>2, <1>4, Comes
  <2> QED BY <1>3, <2>1
<1>6. s.ep[1] = Stick /\ s.ep[2] \in {"out", "in"}
  <2>1. main.k \in {1, 2, 3} /\ EpOf(main, 1) = <<Stick, "out">> /\ EpOf(main, 3) = <<Stick, "in">>
        /\ EpOf(main, 2) = <<Stick, IF main.at = "write" THEN "out" ELSE "in">>
    BY <1>1, MovingIs
  <2> QED BY <1>2, <2>1
<1>7. PICK d \in Devices : Alone(d, s) /\ r = IF s.ep[2] = "out" THEN OutReply(s, d, n) ELSE InReply(s, d, n)
  BY <1>0, <1>3, <1>5, <1>6, OneReplies
<1>8. \A e \in Devices : Only(e) => e = d BY <1>6, <1>7, OnlyOne
<1> QED BY <1>3, <1>6, <1>7, <1>8

\* What comes with the data is added to the buffer, and the toggle is flipped.
LEMMA CountedIs ==
  ASSUME TablesInv, DataTypes, NEW c, NEW r, OfCall(c, r), Counts(chan[c], r.a)
  PROVE  /\ call'.at = call.at /\ call'.n = call.n /\ call'.buf = call.buf \o r.data
         /\ nextPID[chan[c].ep] \in Toggles =>
              nextPID'[chan[c].ep] = Flipped(nextPID[chan[c].ep], r.a.n)
<1>1. Handled(c, r) BY DEF OfCall
<1>2. PICK s \in Stagings : s = chan[c] BY OfCallIs
<1>3. ~s.status /\ s.ep \in Endpoints BY <1>2, OfCallIs DEF Stagings
<1>4. PICK p : p = SkipPID(s, r.a.n) OBVIOUS
<1>5. nextPID' = [nextPID EXCEPT ![s.ep] = p] BY <1>1, <1>2, <1>4 DEF Handled
<1>6. nextPID \in [Endpoints -> Stations] BY DEF DataTypes
<1>7. nextPID'[s.ep] = p BY <1>3, <1>5, <1>6
<1>8. nextPID[s.ep] \in Toggles => p = Flipped(nextPID[s.ep], r.a.n) BY <1>3, <1>4, SkipPIDIs
<1> QED BY <1>1, <1>2, <1>7, <1>8, HandledCall

\* The stick has got the command.
LEMMA CommandGoes ==
  ASSUME TablesInv, DataInv, NEW c, NEW r, OfCall(c, r), Counts(chan[c], r.a), main.k = 1
  PROVE  Progress'
<1>0. ToldTypes BY ToldTypesHold
<1>1. DataTypes /\ Progress /\ Moving BY DEF DataInv, OfCall
<1>2. PICK s \in Stagings : s = chan[c] BY <1>1, OfCallIs
<1>3. /\ waiting /\ Waited(chan) = {c} /\ ~s.status
      /\ main' = main /\ host' = host /\ real' = r.real /\ disk' = r.disk
      /\ \A e \in Devices : Only(e) => Only(e)'
      /\ Continues(c, r.a) \/ Ends(c, r.a)
  BY <1>1, <1>2, OfCallIs
<1>4. (\A d \in Devices : ~Taken(d)) /\ s.left = 1 /\ call.buf = <<>>
  BY <1>1, <1>2, <1>3 DEF Progress, Under
<1>5. PICK n : n = Moves(s) OBVIOUS
<1>6. n = 1 BY <1>4, <1>5 DEF Moves
<1>7. s.ep = <<Stick, "out">> BY <1>1, <1>2, OfCallIs, MovingIs
<1>8. PICK d \in Devices : Alone(d, s) /\ r = OutReply(s, d, 1)
  <2>1. \E d \in Devices : Alone(d, s) /\ r = IF s.ep[2] = "out" THEN OutReply(s, d, n) ELSE InReply(s, d, n)
    BY <1>1, <1>2, <1>5, StickReplies
  <2> QED BY <1>6, <1>7, <2>1
<1>9. r.a.st = "done" BY DEF Counts
<1>10. /\ r.a.n = 1 /\ r.disk = disk /\ r.data = <<>>
       /\ \A e \in Devices : r.real[e].tag = host.tag =>
              /\ Only(e) /\ r.real[e].phase = "data" /\ r.real[e].cmd = main.at /\ r.real[e].pos = call.at
              /\ nextPID[s.ep] \in Toggles /\ r.real[e].tout = Toggle(nextPID[s.ep])
  BY <1>0, <1>1, <1>3, <1>4, <1>7, <1>8, <1>9, CommandIsTaken
<1>11. PICK a : a = r.a OBVIOUS
<1>12. ~Continues(c, a) BY <1>2, <1>4, <1>10, <1>11 DEF Continues
<1>13. waiting' = FALSE BY <1>3, <1>11, <1>12 DEF Ends
<1>14. call'.at = call.at /\ call'.buf = <<>>
  <2>1. <<>> \o <<>> = <<>> BY ConcatEmptySeq, EmptySeq
  <2>2. call'.buf = call.buf \o r.data BY <1>1, CountedIs
  <2>3. call'.at = call.at BY <1>1, CountedIs
  <2> QED BY <1>4, <1>10, <2>1, <2>2, <2>3
<1>15. nextPID[s.ep] \in Toggles => nextPID'[<<Stick, "out">>] = Toggle(nextPID[s.ep])
  <2>1. nextPID[s.ep] \in Toggles => nextPID'[s.ep] = Flipped(nextPID[s.ep], r.a.n) BY <1>1, <1>2, CountedIs
  <2> QED BY <1>7, <1>10, <2>1, FlippedOnce
<1>16. DoneUpTo(0)'
  <2>1. call.at \in Nat BY <1>1, MovingIs
  <2>2. PICK at \in Nat : at = call.at BY <2>1
  <2>3. at .. at + 0 - 1 = {} /\ 1 .. 0 = {} OBVIOUS
  <2>4. SectorsAt(at, 0)' = <<>> BY <2>3 DEF SectorsAt
  <2> QED BY <1>14, <2>2, <2>3, <2>4 DEF DoneUpTo
<1>17. ASSUME NEW e \in Devices, Taken(e)' PROVE Only(e)' /\ InStep(e, 0)'
  <2>1. real'[e].tag = host.tag BY <1>3, <1>17 DEF Taken
  <2>2. /\ Only(e) /\ real'[e].phase = "data" /\ real'[e].cmd = main.at /\ real'[e].pos = call.at
        /\ nextPID[s.ep] \in Toggles /\ real'[e].tout = Toggle(nextPID[s.ep])
    BY <1>3, <1>10, <2>1
  <2>3. call.at \in Nat BY <1>1, MovingIs
  <2>4. real'[e].pos = call'.at + 0 BY <1>14, <2>2, <2>3
  <2> QED BY <1>3, <1>15, <1>16, <2>2, <2>4 DEF InStep
<1>18. main'.k = 1 /\ ~Under(1)' /\ ~Under(2)' /\ ~Under(3)' /\ ~Succeeded(2)' /\ ~Succeeded(3)'
  BY <1>3, <1>13 DEF Under, Succeeded
<1> QED BY <1>14, <1>17, <1>18 DEF Progress

\* Device e has moved m sectors of the call.
MovedBy(e, m) ==
  /\ real'[e].phase = IF m = call.n THEN "csw" ELSE "data"
  /\ real'[e].cmd = main.at /\ real'[e].pos = call.at + m
  /\ main.at = "write" => nextPID'[<<Stick, "out">>] = real'[e].tout
  /\ DoneUpTo(m)'

LEMMA DataGoes ==
  ASSUME TablesInv, DataInv, NEW c, NEW r, OfCall(c, r), Counts(chan[c], r.a), main.k = 2,
         NEW left, left = chan[c].left, left \in 1 .. call.n, NEW n \in 1 .. left, r.a.n = n,
         \A e \in Devices : Taken(e)' =>
           Only(e)' /\ MovedBy(e, call.n - left + n) /\ (chan[c].ep \notin SplitEps => n = left)
  PROVE  Progress'
<1>1. DataTypes /\ Moving BY DEF DataInv, OfCall
<1>2. /\ waiting /\ Waited(chan) = {c} /\ main' = main /\ host' = host
      /\ chan[c].state = "noSplit" <=> chan[c].ep \notin SplitEps
      /\ Continues(c, r.a) \/ Ends(c, r.a)
  BY <1>1, OfCallIs
<1>3. call'.at = call.at /\ call'.n = call.n BY <1>1, CountedIs
<1>4. PICK N \in Nat : N = call.n BY <1>1, MovingIs
<1>5. main'.k = 2 /\ ~Under(1)' /\ ~Under(3)' /\ ~Succeeded(1)' /\ ~Succeeded(3)' BY <1>2 DEF Under, Succeeded
<1>6. PICK m : m = N - left + n OBVIOUS
<1>7. m \in 1 .. N /\ (m = N <=> n = left) BY <1>4, <1>6
<1>8. \A e \in Devices : Taken(e)' => Only(e)' /\ MovedBy(e, m) /\ (chan[c].ep \notin SplitEps => n = left)
  BY <1>4, <1>6
<1>9. PICK a : a = r.a OBVIOUS
<1>10. CASE Continues(c, a)
  <2>1. waiting' /\ Waited(chan') = {c} /\ chan'[c].left = left - n /\ left - n # 0
    BY <1>2, <1>9, <1>10 DEF Continues
  <2>2. chan'[c].left \in 1 .. N BY <1>4, <2>1
  <2>3. m # N BY <1>7, <2>1
  <2>4. m = (call.n - chan[c].left)' BY <1>3, <1>4, <1>6, <2>1
  <2>5. ~Succeeded(2)' BY <2>1 DEF Succeeded
  <2>6. ASSUME NEW e \in Devices, Taken(e)' PROVE Only(e)' /\ InStep(e, call.n - chan[c].left)'
    <3>1. Only(e)' /\ MovedBy(e, m) BY <1>8, <2>6
    <3>2. InStep(e, m)' BY <1>2, <1>3, <1>4, <2>3, <3>1 DEF MovedBy, InStep
    <3> QED BY <2>4, <3>1, <3>2
  <2> QED BY <1>3, <1>4, <1>5, <2>1, <2>2, <2>5, <2>6 DEF Progress
<1>11. CASE Ends(c, a)
  <2>1. waiting' = FALSE /\ (chan[c].state = "noSplit" \/ left - n = 0)
    BY <1>9, <1>11 DEF Ends
  <2>2. ~Under(2)' BY <2>1 DEF Under
  <2>3. ASSUME NEW e \in Devices, Taken(e)' PROVE Only(e)' /\ Finished(e)'
    <3>1. Only(e)' /\ MovedBy(e, m) /\ (chan[c].ep \notin SplitEps => n = left) BY <1>8, <2>3
    <3>2. n = left BY <1>2, <2>1, <3>1
    <3>3. m = N BY <1>7, <3>2
    <3>4. DoneUpTo(m)' /\ real'[e].phase = "csw" BY <1>4, <3>1, <3>3 DEF MovedBy
    <3>5. m = call'.n BY <1>3, <1>4, <3>3
    <3>6. DoneUpTo(call.n)' BY <3>4, <3>5
    <3> QED BY <3>1, <3>4, <3>6 DEF Finished
  <2> QED BY <1>5, <2>2, <2>3 DEF Progress
<1> QED BY <1>2, <1>9, <1>10, <1>11

\* The packets of a stage of a call: those of a transaction are some of them.
LEMMA StageOfData ==
  ASSUME TablesInv, DataInv, NEW c, NEW r, OfCall(c, r), main.k = 2,
         NEW s, s = chan[c], NEW n, n = Moves(s)
  PROVE  /\ s.left \in 1 .. call.n /\ n \in 1 .. s.left /\ (s.ep \notin SplitEps => n = s.left)
         /\ \A d \in Devices : Taken(d) => Only(d) /\ InStep(d, call.n - s.left)
         /\ s.ep = <<Stick, IF main.at = "write" THEN "out" ELSE "in">> /\ ~s.status
<1>1. DataTypes /\ Progress /\ Moving BY DEF DataInv, OfCall
<1>2. waiting /\ Waited(chan) = {c} /\ s.ep = EpOf(main, 2) /\ ~s.status BY <1>1, OfCallIs
<1>3. Under(2) BY <1>2 DEF Under
<1>4. s.left \in 1 .. call.n /\ \A d \in Devices : Taken(d) => Only(d) /\ InStep(d, call.n - s.left)
  BY <1>1, <1>2, <1>3 DEF Progress
<1>5. call.n \in Nat /\ EpOf(main, 2) = <<Stick, IF main.at = "write" THEN "out" ELSE "in">>
  BY <1>1, MovingIs
<1>6. n \in 1 .. s.left /\ (s.ep \notin SplitEps => n = s.left)
  <2>1. PICK l \in Nat \ {0} : l = s.left BY <1>4, <1>5
  <2>2. n = IF s.ep \in SplitEps THEN 1 ELSE l BY <2>1 DEF Moves
  <2> QED BY <2>1, <2>2
<1> QED BY <1>2, <1>4, <1>5, <1>6

\* What a stick in step has left to move.
LEMMA LeftInStep ==
  ASSUME TablesInv, DataTypes, Moving, NEW d \in Devices, NEW left \in 1 .. call.n, InStep(d, call.n - left)
  PROVE  /\ Left(real[d]) = left /\ real[d].pos = call.at + (call.n - left)
         /\ real[d].phase = "data" /\ real[d].cmd = main.at
         /\ main.at = "write" => nextPID[<<Stick, "out">>] = real[d].tout
         /\ DoneUpTo(call.n - left)
<1>1. PICK at \in Nat, N \in Nat, size \in Nat : at = call.at /\ N = call.n /\ size = Cardinality(Sectors) /\ at + N = size
  BY MovingIs, SectorsAreNumbers
<1>2. real[d].phase = "data" /\ real[d].cmd = main.at /\ real[d].pos = at + (N - left)
      /\ (main.at = "write" => nextPID[<<Stick, "out">>] = real[d].tout) /\ DoneUpTo(call.n - left)
  BY <1>1 DEF InStep
<1>3. Left(real[d]) = size - real[d].pos BY <1>1, <1>2 DEF Left, Moving
<1> QED BY <1>1, <1>2, <1>3

LEMMA DataIsWritten ==
  ASSUME TablesInv, DataInv, NEW c, NEW r, OfCall(c, r), Counts(chan[c], r.a), main.k = 2, main.at = "write"
  PROVE  Progress'
<1>0. ToldTypes BY ToldTypesHold
<1>1. DataTypes /\ Moving BY DEF DataInv, OfCall
<1>2. PICK s \in Stagings : s = chan[c] BY <1>1, OfCallIs
<1>3. PICK n : n = Moves(s) OBVIOUS
<1>4. PICK left : left = s.left OBVIOUS
<1>5. /\ left \in 1 .. call.n /\ n \in 1 .. left /\ (s.ep \notin SplitEps => n = left)
      /\ \A d \in Devices : Taken(d) => Only(d) /\ InStep(d, call.n - left)
      /\ s.ep = <<Stick, "out">> /\ ~s.status
  BY <1>2, <1>3, <1>4, StageOfData
<1>6. PICK d \in Devices : Alone(d, s) /\ r = OutReply(s, d, n) /\ \A e \in Devices : Only(e) => e = d
  BY <1>1, <1>2, <1>3, <1>5, StickReplies
<1>7. r.a.st = "done" /\ n \in Int BY <1>5 DEF Counts
<1>8. /\ r.a.n = n /\ r.data = <<>> /\ SameTags(r)
      /\ PID(s) = real[d].tout /\ IsWrite(real[d]) /\ n <= Left(real[d]) => Written(r, d, n)
  BY <1>0, <1>6, <1>7, WriteReply
<1>9. main' = main /\ host' = host /\ real' = r.real /\ disk' = r.disk /\ \A e \in Devices : Only(e) => Only(e)'
  BY <1>1, OfCallIs
<1>10. PICK at \in Nat, N \in Nat, size \in Nat : at = call.at /\ N = call.n /\ size = Cardinality(Sectors) /\ at + N = size
  BY <1>1, MovingIs, SectorsAreNumbers
<1>11. ASSUME NEW e \in Devices, Taken(e)'
       PROVE  Only(e)' /\ MovedBy(e, call.n - left + n) /\ (s.ep \notin SplitEps => n = left)
  <2>1. Taken(e) BY <1>8, <1>9, <1>11 DEF Taken, SameTags
  <2>2. Only(e) /\ InStep(e, call.n - left) BY <1>5, <2>1
  <2>3. e = d BY <1>6, <2>2
  <2>4. /\ Left(real[d]) = left /\ real[d].pos = call.at + (call.n - left)
        /\ real[d].phase = "data" /\ real[d].cmd = "write" /\ nextPID[<<Stick, "out">>] = real[d].tout
        /\ DoneUpTo(call.n - left)
    BY <1>1, <1>5, <2>2, <2>3, LeftInStep
  <2>5. PID(s) = real[d].tout BY <1>5, <2>4 DEF PID
  <2>6. IsWrite(real[d]) /\ n <= Left(real[d]) BY <1>5, <1>10, <2>4 DEF IsWrite
  <2>7. Written(r, d, n) BY <1>8, <2>5, <2>6
  <2>8. PICK pos \in Nat : pos = real[d].pos /\ pos = at + (N - left) BY <1>5, <1>10, <2>4
  <2>9. PICK m \in Nat : m = call.n - left + n /\ m = N - left + n BY <1>5, <1>10
  <2>10. /\ r.real[d].cmd = "write" /\ r.real[d].pos = pos + n
         /\ r.real[d].phase = IF n = left THEN "csw" ELSE "data"
         /\ r.real[d].tout = Flipped(real[d].tout, n)
         /\ r.disk = Overwritten(pos, pos + n - 1)
    BY <2>4, <2>7, <2>8 DEF Written
  <2>11. nextPID'[<<Stick, "out">>] = r.real[d].tout
    <3>1. real[d].tout \in Toggles BY <1>0 DEF ToldTypes, Reals
    <3>2. nextPID'[s.ep] = Flipped(nextPID[s.ep], r.a.n) BY <1>1, <1>2, <1>5, <2>4, <3>1, CountedIs
    <3> QED BY <1>5, <1>8, <2>4, <2>10, <3>2
  <2>12. DoneUpTo(m)'
    <3>1. \A x \in at .. at + (N - left) - 1 : disk[x] = NewData BY <1>10, <2>4 DEF DoneUpTo
    <3>2. ASSUME NEW x \in at .. at + m - 1 PROVE disk'[x] = NewData
      <4>1. x \in Sectors BY <1>5, <1>10, <2>9, <3>2, SectorsAreNumbers
      <4>2. disk'[x] = IF x \in pos .. pos + n - 1 THEN NewData ELSE disk[x] BY <1>9, <2>10, <4>1 DEF Overwritten
      <4>3. x \in pos .. pos + n - 1 \/ x \in at .. at + (N - left) - 1 BY <1>5, <1>10, <2>8, <2>9, <3>2
      <4> QED BY <3>1, <4>2, <4>3
    <3>3. call'.at = at /\ main'.at = "write" BY <1>1, <1>9, <1>10, CountedIs
    <3> QED BY <3>2, <3>3 DEF DoneUpTo
  <2>13. m = call.n <=> n = left BY <1>5, <1>10, <2>9
  <2>14. r.real[d].pos = call.at + m BY <1>5, <1>10, <2>8, <2>9, <2>10
  <2>15. MovedBy(d, m) BY <1>9, <2>10, <2>11, <2>12, <2>13, <2>14 DEF MovedBy
  <2>16. Only(e)' BY <1>9, <2>2
  <2> QED BY <1>5, <2>3, <2>9, <2>15, <2>16
<1> QED BY <1>2, <1>4, <1>5, <1>8, <1>11, DataGoes

LEMMA DataIsRead ==
  ASSUME TablesInv, DataInv, NEW c, NEW r, OfCall(c, r), Counts(chan[c], r.a), main.k = 2, main.at = "read"
  PROVE  Progress'
<1>0. ToldTypes BY ToldTypesHold
<1>1. DataTypes /\ Moving BY DEF DataInv, OfCall
<1>2. PICK s \in Stagings : s = chan[c] BY <1>1, OfCallIs
<1>3. PICK n : n = Moves(s) OBVIOUS
<1>4. PICK left : left = s.left OBVIOUS
<1>5. /\ left \in 1 .. call.n /\ n \in 1 .. left /\ (s.ep \notin SplitEps => n = left)
      /\ \A d \in Devices : Taken(d) => Only(d) /\ InStep(d, call.n - left)
      /\ s.ep = <<Stick, "in">>
  BY <1>2, <1>3, <1>4, StageOfData
<1>6. PICK d \in Devices : Alone(d, s) /\ r = InReply(s, d, n) /\ \A e \in Devices : Only(e) => e = d
  BY <1>1, <1>2, <1>3, <1>5, StickReplies
<1>7. r.a.st = "done" /\ n \in Int BY <1>5 DEF Counts
<1>8. /\ r.a.n \in {1, n} /\ r.disk = disk /\ SameTags(r)
      /\ real[d].phase = "data" /\ real[d].cmd = "read" => SentOut(r, d, n)
  BY <1>0, <1>6, <1>7, ReadReply
<1>9. main' = main /\ host' = host /\ real' = r.real /\ disk' = disk /\ \A e \in Devices : Only(e) => Only(e)'
  BY <1>1, <1>8, OfCallIs
<1>10. PICK at \in Nat, N \in Nat, size \in Nat : at = call.at /\ N = call.n /\ size = Cardinality(Sectors) /\ at + N = size
  BY <1>1, MovingIs, SectorsAreNumbers
<1>11. PICK k : k = r.a.n OBVIOUS
<1>12. k \in 1 .. left BY <1>5, <1>8, <1>10, <1>11
<1>13. ASSUME NEW e \in Devices, Taken(e)'
       PROVE  Only(e)' /\ MovedBy(e, call.n - left + k) /\ (s.ep \notin SplitEps => k = left)
  <2>1. Taken(e) BY <1>8, <1>9, <1>13 DEF Taken, SameTags
  <2>2. Only(e) /\ InStep(e, call.n - left) BY <1>5, <2>1
  <2>3. e = d BY <1>6, <2>2
  <2>4. /\ Left(real[d]) = left /\ real[d].pos = call.at + (call.n - left)
        /\ real[d].phase = "data" /\ real[d].cmd = "read"
        /\ DoneUpTo(call.n - left)
    BY <1>1, <1>5, <2>2, <2>3, LeftInStep
  <2>5. SentOut(r, d, n) BY <1>8, <2>4
  <2>6. PICK pos \in Nat : pos = real[d].pos /\ pos = at + (N - left) BY <1>5, <1>10, <2>4
  <2>7. PICK m \in Nat : m = call.n - left + n /\ m = N - left + n BY <1>5, <1>10
  <2>8. PICK j \in Nat : j = call.n - left /\ j = N - left BY <1>5, <1>10
  <2>9. /\ r.real[d].cmd = "read" /\ r.real[d].pos = pos + n
        /\ r.real[d].phase = IF n = left THEN "csw" ELSE "data"
        /\ k = n /\ r.data = SectorsAt(pos, n)
    BY <1>11, <2>4, <2>5, <2>6 DEF SentOut
  <2>10. DoneUpTo(m)'
    <3>1. call.buf = SectorsAt(at, j) BY <1>10, <2>4, <2>8 DEF DoneUpTo
    <3>2. call'.at = at /\ call'.buf = SectorsAt(at, j) \o SectorsAt(pos, n)
      BY <1>1, <1>10, <2>9, <3>1, CountedIs
    <3>3. disk \in [Sectors -> SectorData] BY <1>1 DEF DataTypes, SectorData
    <3>4. PICK q \in Nat : q = n BY <1>5
    <3>5. pos = at + j /\ m = j + q /\ at + j + q <= Cardinality(Sectors) BY <1>5, <1>10, <2>6, <2>7, <2>8, <3>4
    <3>6. SectorsAt(at, j) \o SectorsAt(at + j, q) = SectorsAt(at, j + q) BY <3>3, <3>5, SectorsAtTwice
    <3>7. call'.buf = SectorsAt(at, m) BY <3>2, <3>4, <3>5, <3>6
    <3>8. SectorsAt(at, m)' = SectorsAt(at, m) BY <1>9 DEF SectorsAt
    <3> QED BY <1>9, <3>2, <3>7, <3>8 DEF DoneUpTo
  <2>11. m = call.n <=> n = left BY <1>5, <1>10, <2>7
  <2>12. r.real[d].pos = call.at + m BY <1>5, <1>10, <2>6, <2>7, <2>9
  <2>13. MovedBy(d, m) BY <1>9, <2>9, <2>10, <2>11, <2>12 DEF MovedBy
  <2>14. Only(e)' BY <1>9, <2>2
  <2> QED BY <1>5, <2>3, <2>7, <2>9, <2>13, <2>14
<1> QED BY <1>2, <1>4, <1>5, <1>11, <1>12, <1>13, DataGoes

\* The status has come.
LEMMA StatusComes ==
  ASSUME TablesInv, DataInv, NEW c, NEW r, OfCall(c, r), Counts(chan[c], r.a), main.k = 3
  PROVE  Progress'
<1>0. ToldTypes BY ToldTypesHold
<1>1. DataTypes /\ Progress /\ Moving BY DEF DataInv, OfCall
<1>2. PICK s \in Stagings : s = chan[c] BY <1>1, OfCallIs
<1>3. /\ waiting /\ main' = main /\ host' = host /\ real' = r.real /\ disk' = r.disk
      /\ s.ep = <<Stick, "in">> /\ ~s.status
      /\ \A e \in Devices : Only(e) => Only(e)'
      /\ Continues(c, r.a) \/ Ends(c, r.a)
  BY <1>1, <1>2, OfCallIs, MovingIs
<1>4. PICK n : n = Moves(s) OBVIOUS
<1>5. n \in Int BY <1>4 DEF Moves, Stagings
<1>6. PICK d \in Devices : Alone(d, s) /\ r = InReply(s, d, n) /\ \A e \in Devices : Only(e) => e = d
  BY <1>1, <1>2, <1>3, <1>4, StickReplies
<1>7. r.a.st = "done" BY DEF Counts
<1>8. /\ r.disk = disk /\ SameTags(r) /\ (r.a.full => Taken(d))
      /\ real[d].phase # "data" => r.real[d].phase # "data" /\ r.data = <<>>
  BY <1>0, <1>5, <1>6, <1>7, StatusReply
<1>9. \A e \in Devices : Taken(e)' <=> Taken(e) BY <1>3, <1>8 DEF Taken, SameTags
<1>10. \A e \in Devices : Taken(e) => Only(e) /\ Finished(e) BY <1>1, <1>3 DEF Progress, Under
<1>11. ASSUME NEW e \in Devices, Taken(e)' PROVE Only(e)' /\ Finished(e)'
  <2>1. Only(e) /\ Finished(e) BY <1>9, <1>10, <1>11
  <2>2. e = d BY <1>6, <2>1
  <2>3. real[d].phase # "data" /\ DoneUpTo(call.n) BY <2>1, <2>2 DEF Finished
  <2>4. real'[e].phase # "data" /\ r.data = <<>> BY <1>3, <1>8, <2>2, <2>3
  <2>5. PICK at \in Nat, N \in Nat : at = call.at /\ N = call.n /\ at + N <= Cardinality(Sectors)
    <3>1. Cardinality(Sectors) \in Nat BY SectorsAreNumbers
    <3> QED BY <1>1, <3>1, MovingIs
  <2>6. call'.at = at /\ call'.n = N /\ call'.buf = call.buf \o <<>> BY <1>1, <2>4, <2>5, CountedIs
  <2>7. Only(e)' BY <1>3, <2>1
  <2>8. CASE main.at = "write"
    <3>1. \A x \in at .. at + N - 1 : disk[x] = NewData BY <2>3, <2>5, <2>8 DEF DoneUpTo
    <3>2. main'.at = "write" /\ disk' = disk BY <1>3, <1>8, <2>8
    <3>3. DoneUpTo(N)' BY <2>6, <3>1, <3>2 DEF DoneUpTo
    <3>4. DoneUpTo(call.n)' BY <2>6, <3>3
    <3> QED BY <2>4, <2>7, <3>4 DEF Finished
  <2>9. CASE main.at # "write"
    <3>1. PICK w : w = SectorsAt(at, N) OBVIOUS
    <3>2. disk \in [Sectors -> SectorData] BY <1>1 DEF DataTypes, SectorData
    <3>3. w \in Seq(SectorData) BY <2>5, <3>1, <3>2, SectorsAtIs
    <3>4. call.buf = w BY <2>3, <2>5, <2>9, <3>1 DEF DoneUpTo
    <3>5. call'.buf = w BY <2>6, <3>3, <3>4, ConcatEmptySeq
    <3>6. SectorsAt(at, N)' = w BY <1>3, <1>8, <3>1 DEF SectorsAt
    <3>7. DoneUpTo(N)' BY <1>3, <2>6, <2>9, <3>5, <3>6 DEF DoneUpTo
    <3>8. DoneUpTo(call.n)' BY <2>6, <3>7
    <3> QED BY <2>4, <2>7, <3>8 DEF Finished
  <2> QED BY <2>8, <2>9
<1>12. main'.k = 3 /\ ~Under(1)' /\ ~Succeeded(1)' /\ ~Under(2)' /\ ~Succeeded(2)' BY <1>3 DEF Under, Succeeded
<1>13. Succeeded(3)' /\ urb'.full => Taken(d)'
  <2> SUFFICES ASSUME Succeeded(3)', urb'.full PROVE Taken(d)' OBVIOUS
  <2>1. PICK a : a = r.a OBVIOUS
  <2>2. ~waiting' BY DEF Succeeded
  <2>3. ~Continues(c, a) BY <1>3, <2>2 DEF Continues
  <2>4. Ends(c, a) BY <1>3, <2>1, <2>3
  <2>5. urb'.full = a.full BY <1>2, <1>3, <2>1, <2>4 DEF Ends
  <2> QED BY <1>8, <1>9, <2>1, <2>5
<1> QED BY <1>11, <1>12, <1>13 DEF Progress

LEMMA InterruptKeepsData ==
  ASSUME TablesInv, DataInv, NEW c \in Channels, Interrupt(c)
  PROVE  DataInv'
<1>1. PICK r : Handled(c, r) BY InterruptIsHandled
<1>2. DataTypes BY DEF DataInv
<1>3. DataTypes' BY <1>1, <1>2, HandledTypes
<1>4. CASE Periodic(chan[c].ep) BY <1>1, <1>2, <1>4, PolledIsUnseen, QuietKeeps
<1>5. CASE ~Periodic(chan[c].ep) /\ ~Moving
  <2>1. main' = main BY <1>1 DEF Handled
  <2>2. Progress' BY <1>5, <2>1 DEF Progress, Moving
  <2> QED BY <1>3, <2>2 DEF DataInv
<1>6. CASE ~Periodic(chan[c].ep) /\ Moving
  <2>1. OfCall(c, r) BY <1>1, <1>6 DEF OfCall
  <2>2. CASE ~Counts(chan[c], r.a) BY <2>1, <2>2, NothingIsMoved
  <2>3. CASE Counts(chan[c], r.a)
    <3>1. main.k \in {1, 2, 3} /\ main.at \in {"read", "write"} BY <1>2, <1>6, MovingIs DEF Moving
    <3>2. Progress' BY <2>1, <2>3, <3>1, CommandGoes, DataIsWritten, DataIsRead, StatusComes
    <3> QED BY <1>3, <3>2 DEF DataInv
  <2> QED BY <2>2, <2>3
<1> QED BY <1>4, <1>5, <1>6

-----------------------------------------------------------------------------
(* What the main program does between the interrupts. *)

LEMMA StagesOfCall == Moving => Len(Stages(main)) = 3
BY DEF Moving, Stages

\* The channel of a stage that is begun, if there was one.
Begun(s) ==
  \/ waiting' = FALSE /\ urb'.status = FALSE /\ Waited(chan') = {}
  \/ waiting' = TRUE /\ \E c \in Channels :
       Waited(chan') = {c} /\ chan'[c].left = s.left /\ (chan'[c].state = "noSplit" <=> chan'[c].ep \notin SplitEps)

LEMMA StageIsBegun ==
  ASSUME TablesInv, ~waiting, NEW s \in Stagings, ~Periodic(s.ep), s.state = "noSplit" <=> s.ep \notin SplitEps,
         TransferStage(s)
  PROVE  Begun(s) /\ \A c \in Waited(chan') : chan'[c].state = "noSplit" <=> chan'[c].ep \notin SplitEps
<1>1. \/ waiting' = FALSE /\ urb'.status = FALSE /\ Waited(chan') = {}
      \/ waiting' = TRUE /\ \E c \in Channels : Waited(chan') = {c} /\ Alike(chan'[c], s)
  BY TransferBegins DEF TablesInv
<1> QED BY <1>1 DEF Begun, Alike

\* The next stage of a message.
LEMMA NextStageKeepsData ==
  ASSUME TablesInv, DataInv, main.at \notin {"off", "dead", "up"}, ~waiting, urb.status, main.k < Len(Stages(main)),
         NEW all \in BOOLEAN, main' = [main EXCEPT !.k = @ + 1, !.all = all],
         TransferStage(Stages(main)[main.k + 1]),
         UNCHANGED <<nextPID, call, last, host, real, disk>>
  PROVE  DataInv'
<1>0. DataTypes /\ Progress BY DEF DataInv
<1>1. main \in Messages /\ main.dev \in Devices /\ call.n \in Int
  BY DEF TablesInv, MainIsPlaced, Placed, Messages, IsCall
<1>2. Packets(main) \in Int BY <1>1 DEF Packets
<1>3. PICK k : k = main.k + 1 OBVIOUS
<1>4. Len(Stages(main)) \in {2, 3} BY <1>1, <1>2, StagesAre
<1>5. k \in 1 .. Len(Stages(main)) /\ k \in {1, 2, 3} BY <1>1, <1>3, <1>4 DEF Messages
<1>6. PICK s : s = Stages(main)[k] OBVIOUS
<1>7. /\ s \in Stagings /\ s.ep = EpOf(main, k) /\ (s.state = "noSplit" <=> s.ep \notin SplitEps)
      /\ k = 2 /\ main.at \in {"read", "write"} => s.left = call.n
  BY <1>1, <1>2, <1>5, <1>6, StagesAre
<1>8. ~Periodic(s.ep) BY <1>1, <1>7, EpOfIsEndpoint
<1>9. PICK v : v = [main EXCEPT !.k = k] OBVIOUS
<1>10. v \in Messages /\ v.at = main.at /\ v.k = k BY <1>1, <1>5, <1>9 DEF Messages
<1>11. main' = [v EXCEPT !.all = all] BY <1>3, <1>9
<1>12. main'.at = main.at /\ main'.k = k BY <1>10, <1>11 DEF Messages
<1>13. TransferStage(s) BY <1>3, <1>6
<1>14. Begun(s) /\ \A c \in Waited(chan') : chan'[c].state = "noSplit" <=> chan'[c].ep \notin SplitEps
  BY <1>7, <1>8, <1>13, StageIsBegun
<1>15. DataTypes'
  <2>1. ~last.ok BY <1>0 DEF DataTypes
  <2>2. TransfersAreTrue' BY <2>1 DEF TransfersAreTrue
  <2>3. k # 0 BY <1>5
  <2> QED BY <1>0, <1>12, <1>14, <2>1, <2>2, <2>3 DEF DataTypes, Moving
<1>16. Progress'
  <2> SUFFICES ASSUME Moving PROVE Progress' BY <1>12 DEF Progress, Moving
  <2>1. main.k \in {1, 2, 3} /\ call.n \in Nat /\ call.n >= 1 BY <1>0, MovingIs
  <2>2. k \in {2, 3} /\ main.k = k - 1 BY <1>3, <1>5, <2>1
  <2>3. CASE waiting' = FALSE /\ urb'.status = FALSE BY <1>12, <2>2, <2>3 DEF Progress, Under, Succeeded
  <2>4. CASE waiting' = TRUE
    <3>1. PICK c \in Channels : Waited(chan') = {c} /\ chan'[c].left = s.left BY <1>14, <2>4 DEF Begun
    <3>2. ~Succeeded(1)' /\ ~Succeeded(2)' /\ ~Succeeded(3)' /\ ~Under(1)' BY <1>12, <2>2, <2>4 DEF Succeeded, Under
    <3>3. CASE k = 2
      <4>1. s.left = call.n BY <1>7, <3>3 DEF Moving
      <4>2. Succeeded(1) BY <2>2, <3>3 DEF Succeeded
      <4>3. PICK z : z = 0 OBVIOUS
      <4>4. \A d \in Devices : Taken(d) => Only(d) /\ InStep(d, z) BY <1>0, <4>2, <4>3 DEF Progress
      <4>5. ASSUME NEW d \in Devices, Taken(d)' PROVE Only(d)' /\ InStep(d, z)'
        <5>1. Taken(d) BY <4>5 DEF Taken
        <5>2. Only(d) /\ InStep(d, z) BY <4>4, <5>1
        <5>3. DoneUpTo(z)' BY <1>12, <5>2 DEF InStep, DoneUpTo, SectorsAt
        <5> QED BY <1>12, <5>2, <5>3 DEF InStep, Only
      <4>6. call'.n = call.n /\ chan'[c].left = call.n /\ z = (call.n - chan[c].left)' BY <2>1, <3>1, <4>1, <4>3
      <4>7. chan'[c].left \in 1 .. call'.n BY <2>1, <4>6
      <4>8. \A d \in Devices : Taken(d)' => Only(d)' /\ InStep(d, call.n - chan[c].left)' BY <4>5, <4>6
      <4>9. main'.k = 2 /\ ~Under(3)' BY <1>12, <3>3 DEF Under
      <4> QED BY <3>1, <3>2, <4>7, <4>8, <4>9 DEF Progress
    <3>4. CASE k = 3
      <4>1. Succeeded(2) BY <2>2, <3>4 DEF Succeeded
      <4>2. ASSUME NEW d \in Devices, Taken(d)' PROVE Only(d)' /\ Finished(d)'
        <5>1. Taken(d) BY <4>2 DEF Taken
        <5>2. Only(d) /\ Finished(d) BY <1>0, <4>1, <5>1 DEF Progress
        <5>3. DoneUpTo(call.n)' BY <1>12, <5>2 DEF Finished, DoneUpTo, SectorsAt
        <5> QED BY <1>12, <5>2, <5>3 DEF Finished, Only
      <4>3. main'.k = 3 /\ ~Under(2)' BY <1>12, <3>4 DEF Under
      <4> QED BY <3>2, <4>2, <4>3 DEF Progress
    <3> QED BY <2>2, <3>3, <3>4
  <2> QED BY <1>14, <2>3, <2>4 DEF Begun
<1> QED BY <1>15, <1>16 DEF DataInv

\* A call that says it succeeded did.
LEMMA LastAfterIs ==
  ASSUME TablesInv, DataInv, ~waiting, main.at \notin {"off", "dead", "up"},
         NEW all \in BOOLEAN, all = (main.all /\ urb.full), NEW ok \in BOOLEAN, ok = (urb.status /\ all),
         ~(StageIsOk /\ main.k < Len(Stages(main))),
         NEW next, last' = LastAfter(main, ok, next), disk' = disk
  PROVE  (last'.ok => main.at \in Calling /\ next.at = "up") /\ TransfersAreTrue'
<1>1. DataTypes /\ Progress BY DEF DataInv
<1>2. ~last.ok BY <1>1 DEF DataTypes
<1>3. CASE ~(main.at \in Calling /\ next.at = "up")
  <2>1. last' = last BY <1>3 DEF LastAfter
  <2> QED BY <1>2, <2>1 DEF TransfersAreTrue
<1>4. CASE main.at \in Calling /\ next.at = "up"
  <2>1. PICK b \in BOOLEAN : b = (ok /\ main.at = call.op) OBVIOUS
  <2>2. PICK old : old = call OBVIOUS
  <2>3. last' = [call |-> old, ok |-> b] BY <1>4, <2>1, <2>2 DEF LastAfter
  <2>4. last'.call = old /\ last'.ok = b BY <2>3
  <2>5. ASSUME b
        PROVE  SectorsAt(old.at, old.n)' = IF old.op = "read" THEN old.buf ELSE [j \in 1 .. old.n |-> NewData]
    <3>1. ok /\ main.at = call.op BY <2>1, <2>5, Zenon
    <3>2. urb.status /\ urb.full BY <3>1, Zenon
    <3>3. Moving BY <1>4, <3>1 DEF TablesInv, MainIsPlaced, Moving
    <3>4. main.k = 3
      <4>1. main.k \in {1, 2, 3} /\ Len(Stages(main)) = 3 BY <1>1, <3>3, MovingIs, StagesOfCall
      <4> QED BY <3>2, <4>1 DEF StageIsOk
    <3>5. Succeeded(3) BY <3>2, <3>4 DEF Succeeded
    <3>6. PICK d \in Devices : Taken(d) BY <1>1, <3>2, <3>3, <3>5 DEF Progress
    <3>7. Finished(d) BY <1>1, <3>3, <3>5, <3>6 DEF Progress
    <3>8. DoneUpTo(call.n) BY <3>7 DEF Finished
    <3>9. SectorsAt(old.at, old.n)' = SectorsAt(old.at, old.n) BY DEF SectorsAt
    <3>10. CASE main.at = "read"
      <4>1. call.buf = SectorsAt(call.at, call.n) BY <3>8, <3>10 DEF DoneUpTo
      <4> QED BY <2>2, <3>1, <3>9, <3>10, <4>1
    <3>11. CASE main.at = "write"
      <4>1. PICK at \in Nat, n \in Nat : at = old.at /\ n = old.n BY <1>1, <2>2, <3>3, MovingIs
      <4>2. \A x \in at .. at + n - 1 : disk[x] = NewData BY <2>2, <3>8, <3>11, <4>1 DEF DoneUpTo
      <4>3. \A j \in 1 .. n : disk[at + j - 1] = NewData BY <4>2
      <4>4. SectorsAt(at, n) = [j \in 1 .. n |-> NewData] BY <4>3 DEF SectorsAt
      <4>5. old.op # "read" BY <2>2, <3>1, <3>11
      <4> QED BY <3>9, <4>1, <4>4, <4>5
    <3> QED BY <3>3, <3>10, <3>11 DEF Moving
  <2> QED BY <1>4, <2>4, <2>5 DEF TransfersAreTrue
<1> QED BY <1>3, <1>4

LEMMA PIDsAfterAre ==
  ASSUME nextPID \in [Endpoints -> Stations], NEW m, NEW ok, nextPID' = PIDsAfter(m, ok)
  PROVE  nextPID' \in [Endpoints -> Stations]
<1>1. "setup" \in Stations /\ "data0" \in Stations BY DEF Stations
<1>2. CASE m.at = "status2"
  <2>1. PICK e : e = <<m.dev, "control">> OBVIOUS
  <2>2. nextPID' = [nextPID EXCEPT ![e] = "setup"] BY <1>2, <2>1 DEF PIDsAfter
  <2> QED BY <1>1, <2>2
<1>3. CASE m.at = "halt2" /\ ok
  <2>1. PICK e, f : e = <<Stick, "in">> /\ f = <<Stick, "out">> OBVIOUS
  <2>2. PICK v : v = [nextPID EXCEPT ![e] = "data0"] OBVIOUS
  <2>3. v \in [Endpoints -> Stations] BY <1>1, <2>2
  <2>4. nextPID' = [v EXCEPT ![f] = "data0"] BY <1>3, <2>1, <2>2 DEF PIDsAfter
  <2> QED BY <1>1, <2>3, <2>4
<1>4. CASE m.at # "status2" /\ ~(m.at = "halt2" /\ ok)
  <2>1. nextPID' = nextPID BY <1>4 DEF PIDsAfter
  <2> QED BY <2>1
<1> QED BY <1>2, <1>3, <1>4

\* The next message.  A call begins again with a tag nobody has and nothing read.
LEMMA NextMessageKeepsData ==
  ASSUME TablesInv, TablesInv', DataInv, main.at \notin {"off", "dead", "up"}, ~waiting,
         NEW all \in BOOLEAN, all = (main.all /\ urb.full), NEW ok \in BOOLEAN, ok = (urb.status /\ all),
         ~(StageIsOk /\ main.k < Len(Stages(main))),
         NEW over, NEW next, next = Follow(main, ok, over),
         main' = IF main.at = "protocol" /\ ok THEN [next EXCEPT !.k = 0] ELSE next,
         host' = HostAfter(main, ok, next), call' = CallAfter(main, next),
         nextPID' = PIDsAfter(main, ok), last' = LastAfter(main, ok, next),
         CASE main.at = "protocol" /\ ok -> Submit(chan, Stage(Reports, TRUE, FALSE, 1)) /\ UNCHANGED <<waiting, urb>>
           [] ~(main.at = "protocol" /\ ok) /\ next.at = "up" -> UNCHANGED <<chan, waiting, urb>>
           [] OTHER -> TransferStage(Stages(next)[1]),
         UNCHANGED <<real, disk>>
  PROVE  DataInv'
<1>0. DataTypes /\ Progress BY DEF DataInv
<1>1. Placed(main) /\ HostTypes /\ IsCall(call) BY DEF TablesInv, MainIsPlaced
<1>2. main.at = "address" => main.i \in Nat
  <2> SUFFICES ASSUME main.at = "address" PROVE main.i \in Nat OBVIOUS
  <2>1. main.i \in Int /\ main.i > 0 BY <1>1 DEF TablesInv, AddressesAreNew, Placed, Messages
  <2> QED BY <2>1
<1>3. Follows(main, ok, next) BY <1>1, FollowFollows DEF TablesInv, MainIsPlaced
<1>4. Placed(next) /\ next \in Messages /\ next.k = 1 /\ (next.at \in Calling => main.at \in Calling)
      /\ (next.at \in {"read", "write"} => main.at = "halt2" /\ ok)
  BY <1>3 DEF Follows, Placed
<1>5. host'.tag = IF next.at \in Commands THEN host.tag + 1 ELSE host.tag
  <2>1. PICK h : h = HostAfter(main, ok, next) OBVIOUS
  <2>2. Leaves(main, ok, next, h) BY <1>1, <1>2, <2>1, HostAfterIs
  <2> QED BY <2>1, <2>2 DEF Leaves
<1>6. call'.at = call.at /\ call'.n = call.n
      /\ call'.buf = IF main.at = "halt2" /\ next.at # "up" THEN <<>> ELSE call.buf
  <2>1. PICK new : new = CallAfter(main, next) OBVIOUS
  <2>2. new.at = call.at /\ new.n = call.n /\ new.buf = IF main.at = "halt2" /\ next.at # "up" THEN <<>> ELSE call.buf
    BY <1>1, <2>1, CallAfterIs
  <2> QED BY <2>1, <2>2
<1>7. main'.at = next.at /\ (main.at # "protocol" => main' = next)
  <2>1. CASE main.at = "protocol" /\ ok
    <3>1. PICK v : v = [next EXCEPT !.k = 0] OBVIOUS
    <3>2. v.at = next.at BY <1>4, <3>1 DEF Messages
    <3>3. main' = v BY <2>1, <3>1
    <3> QED BY <2>1, <3>2, <3>3
  <2>2. CASE ~(main.at = "protocol" /\ ok) BY <2>2
  <2> QED BY <2>1, <2>2
<1>8. (last'.ok => main.at \in Calling /\ next.at = "up") /\ TransfersAreTrue' BY LastAfterIs
<1>9. PICK s : s = Stages(next)[1] OBVIOUS
<1>10. s \in Stagings /\ ~Periodic(s.ep) /\ s.left = 1 /\ (s.state = "noSplit" <=> s.ep \notin SplitEps)
  BY <1>1, <1>4, <1>9, FirstStageIs DEF IsCall
<1>11. ~(main.at = "protocol" /\ ok) /\ next.at # "up" => Begun(s)
  <2> SUFFICES ASSUME ~(main.at = "protocol" /\ ok), next.at # "up" PROVE Begun(s) OBVIOUS
  <2>1. TransferStage(s) BY <1>9
  <2> QED BY <1>10, <2>1, StageIsBegun
<1>12. \A c \in Waited(chan') : chan'[c].state = "noSplit" <=> chan'[c].ep \notin SplitEps
  <2>1. CASE ~(main.at = "protocol" /\ ok) /\ next.at # "up" BY <1>11, <2>1 DEF Begun
  <2>2. CASE (main.at = "protocol" /\ ok) \/ next.at = "up"
    <3>1. waiting' = waiting BY <2>2
    <3>2. Waited(chan') = {} BY <3>1 DEF TablesInv, ChannelsWork
    <3> QED BY <3>2
  <2> QED BY <2>1, <2>2
<1>13. \A d \in Devices : real'[d].tag <= host'.tag
  <2>1. host.tag \in Nat /\ \A d \in Devices : real[d].tag \in Nat /\ real[d].tag <= host.tag
    BY <1>0, <1>1 DEF DataTypes, HostTypes, TablesInv, AddressesAreNew, Reals
  <2> QED BY <1>5, <2>1
<1>14. nextPID' \in [Endpoints -> Stations] BY <1>0, PIDsAfterAre DEF DataTypes
<1>15. DataTypes'
  <2>1. main'.at \in Calling => call'.at \in Sectors /\ call'.n = Cardinality(Sectors) - call'.at
    BY <1>0, <1>4, <1>6, <1>7 DEF DataTypes
  <2>2. Moving' => main'.k # 0 BY <1>4, <1>7 DEF Moving
  <2>3. last'.ok => main'.at = "up" BY <1>7, <1>8
  <2> QED BY <1>0, <1>8, <1>12, <1>13, <1>14, <2>1, <2>2, <2>3 DEF DataTypes
<1>16. Progress'
  <2> SUFFICES ASSUME Moving' PROVE Progress' BY DEF Progress
  <2>1. next.at \in {"read", "write"} /\ main.at = "halt2" /\ main'.k = 1 BY <1>4, <1>7 DEF Moving
  <2>2. call'.buf = <<>> BY <1>6, <2>1
  <2>3. host'.tag = host.tag + 1 BY <1>5, <2>1 DEF Commands
  <2>4. \A d \in Devices : ~Taken(d)'
    <3>1. host.tag \in Nat /\ \A d \in Devices : real[d].tag \in Nat /\ real[d].tag <= host.tag
      BY <1>0, <1>1 DEF DataTypes, HostTypes, TablesInv, AddressesAreNew, Reals
    <3> QED BY <2>3, <3>1 DEF Taken
  <2>5. Begun(s) BY <1>11, <2>1
  <2> QED BY <1>10, <2>1, <2>2, <2>4, <2>5 DEF Progress, Begun, Under, Succeeded
<1> QED BY <1>15, <1>16 DEF DataInv

LEMMA MainKeepsData ==
  ASSUME TablesInv, TablesInv', DataInv, NextStage
  PROVE  DataInv'
<1>1. main.at \notin {"off", "dead", "up"} /\ ~waiting /\ UNCHANGED <<slots, real, disk, keys, bound>>
  BY DEF NextStage
<1>2. main.all \in BOOLEAN /\ urb.full \in BOOLEAN /\ urb.status \in BOOLEAN
  BY DEF TablesInv, MainIsPlaced, Placed, Messages, ChannelsWork
<1>3. PICK all \in BOOLEAN : all = (main.all /\ urb.full) BY <1>2
<1>4. PICK ok \in BOOLEAN : ok = (urb.status /\ all) BY <1>2
<1>5. CASE StageIsOk /\ main.k < Len(Stages(main))
  <2>1. /\ main' = [main EXCEPT !.k = @ + 1, !.all = all]
        /\ TransferStage(Stages(main)[main.k + 1])
        /\ UNCHANGED <<nextPID, faults, call, last, host>>
    BY <1>3, <1>5 DEF NextStage
  <2>2. urb.status BY <1>5 DEF StageIsOk
  <2> QED BY <1>1, <1>5, <2>1, <2>2, NextStageKeepsData
<1>6. CASE ~(StageIsOk /\ main.k < Len(Stages(main)))
  <2>1. \E over \in OverCurrents(main) :
          LET next == Follow(main, ok, over)
              reports == main.at = "protocol" /\ ok
          IN /\ main' = IF reports THEN [next EXCEPT !.k = 0] ELSE next
             /\ faults' = IF over THEN faults + 1 ELSE faults
             /\ host' = HostAfter(main, ok, next)
             /\ nextPID' = PIDsAfter(main, ok)
             /\ call' = CallAfter(main, next)
             /\ last' = LastAfter(main, ok, next)
             /\ CASE reports -> Submit(chan, Stage(Reports, TRUE, FALSE, 1)) /\ UNCHANGED <<waiting, urb>>
                  [] ~reports /\ next.at = "up" -> UNCHANGED <<chan, waiting, urb>>
                  [] OTHER -> TransferStage(Stages(next)[1])
    BY <1>3, <1>4, <1>6 DEF NextStage
  <2>2. PICK over \in OverCurrents(main) :
          LET next == Follow(main, ok, over)
              reports == main.at = "protocol" /\ ok
          IN /\ main' = IF reports THEN [next EXCEPT !.k = 0] ELSE next
             /\ host' = HostAfter(main, ok, next)
             /\ nextPID' = PIDsAfter(main, ok)
             /\ call' = CallAfter(main, next)
             /\ last' = LastAfter(main, ok, next)
             /\ CASE reports -> Submit(chan, Stage(Reports, TRUE, FALSE, 1)) /\ UNCHANGED <<waiting, urb>>
                  [] ~reports /\ next.at = "up" -> UNCHANGED <<chan, waiting, urb>>
                  [] OTHER -> TransferStage(Stages(next)[1])
    BY <2>1
  <2>3. PICK next : next = Follow(main, ok, over) OBVIOUS
  <2>4. /\ main' = IF main.at = "protocol" /\ ok THEN [next EXCEPT !.k = 0] ELSE next
        /\ host' = HostAfter(main, ok, next)
        /\ nextPID' = PIDsAfter(main, ok)
        /\ call' = CallAfter(main, next)
        /\ last' = LastAfter(main, ok, next)
        /\ CASE main.at = "protocol" /\ ok -> Submit(chan, Stage(Reports, TRUE, FALSE, 1)) /\ UNCHANGED <<waiting, urb>>
             [] ~(main.at = "protocol" /\ ok) /\ next.at = "up" -> UNCHANGED <<chan, waiting, urb>>
             [] OTHER -> TransferStage(Stages(next)[1])
    BY <2>2, <2>3
  <2> QED BY <1>1, <1>3, <1>4, <1>6, <2>3, <2>4, NextMessageKeepsData
<1> QED BY <1>5, <1>6

\* A call begins with a tag nobody has.
LEMMA CallKeepsData ==
  ASSUME TablesInv, DataInv, NEW op \in {"read", "write"}, Call(op)
  PROVE  DataInv'
<1>0. DataTypes BY DEF DataInv
<1>1. main.at = "up" /\ ~waiting /\ Stick \in host.names /\ UNCHANGED <<nextPID, real, disk>>
  BY DEF TablesInv, Call, MainIsPlaced
<1>2. Stick \in Devices BY <1>1, PortsAreNumbers DEF TablesInv, HostTypes
<1>3. host'.tag = host.tag + 1
  <2>1. PICK t : t = host.tag + 1 OBVIOUS
  <2>2. host' = [host EXCEPT !.tag = t] BY <2>1 DEF Call
  <2> QED BY <2>1, <2>2 DEF TablesInv, HostTypes
<1>4. main'.at = op /\ main'.k = 1 BY DEF Call, Message
<1>5. call'.at \in Sectors /\ call'.n = Cardinality(Sectors) - call'.at /\ call'.buf = <<>>
  <2>1. PICK at \in Sectors :
          call' = [op |-> op, at |-> at, n |-> Cardinality(Sectors) - at, tries |-> READ_TRIES,
                   before |-> faults, buf |-> <<>>]
    BY DEF Call
  <2> QED BY <2>1
<1>6. last'.ok = FALSE BY DEF Call
<1>7. PICK e : e = <<Stick, "out">> OBVIOUS
<1>8. e \in Endpoints /\ ~Periodic(e) BY <1>2, <1>7, UsbBusAssumption DEF Periodic
<1>9. PICK s : s = Stage(e, FALSE, FALSE, 1) OBVIOUS
<1>10. s \in Stagings /\ s.ep = e /\ s.left = 1 /\ (s.state = "noSplit" <=> s.ep \notin SplitEps)
  BY <1>8, <1>9 DEF Stage, Stagings
<1>11. TransferStage(s) BY <1>7, <1>9 DEF Call
<1>12. Begun(s) /\ \A c \in Waited(chan') : chan'[c].state = "noSplit" <=> chan'[c].ep \notin SplitEps
  BY <1>1, <1>8, <1>10, <1>11, StageIsBegun
<1>13. host.tag \in Nat /\ \A d \in Devices : real[d].tag \in Nat /\ real[d].tag <= host.tag
  BY <1>0 DEF DataTypes, TablesInv, HostTypes, AddressesAreNew, Reals
<1>14. DataTypes'
  <2>1. \A d \in Devices : real'[d].tag <= host'.tag BY <1>1, <1>3, <1>13
  <2>2. TransfersAreTrue' BY <1>6 DEF TransfersAreTrue
  <2> QED BY <1>0, <1>1, <1>4, <1>5, <1>6, <1>12, <2>1, <2>2 DEF DataTypes
<1>15. \A d \in Devices : ~Taken(d)' BY <1>1, <1>3, <1>13 DEF Taken
<1>16. Progress' BY <1>4, <1>5, <1>10, <1>12, <1>15 DEF Progress, Begun, Under, Succeeded
<1> QED BY <1>14, <1>16 DEF DataInv

LEMMA InitializeKeepsData ==
  ASSUME TablesInv, TablesInv', DataInv, InitializeHost
  PROVE  DataInv'
<1>0. DataTypes BY DEF DataInv
<1>1. main.at = "off" /\ ~waiting /\ UNCHANGED <<nextPID, call, last, host, disk>>
  BY DEF TablesInv, InitializeHost, MainIsPlaced
<1>2. ~last.ok BY <1>0, <1>1 DEF DataTypes
<1>3. TransfersAreTrue' BY <1>1, <1>2 DEF TransfersAreTrue
<1>4. ASSUME main'.at \notin Calling, \A d \in Devices : real'[d].tag = real[d].tag,
             \A c \in Waited(chan') : chan'[c].state = "noSplit" <=> chan'[c].ep \notin SplitEps
      PROVE  DataInv'
  <2>1. ~Moving' BY <1>4 DEF Moving
  <2>2. DataTypes' BY <1>0, <1>1, <1>2, <1>3, <1>4, <2>1 DEF DataTypes
  <2> QED BY <2>1, <2>2 DEF DataInv, Progress
<1>5. CASE CoreFails \/ NoRootPort
  <2>1. UNCHANGED <<waiting, real>> BY <1>5 DEF CoreFails, NoRootPort
  <2>2. Waited(chan') = {} BY <1>1, <2>1 DEF TablesInv, ChannelsWork
  <2>3. main'.at \in {"dead", "up"}
    <3>1. main \in Messages BY <1>1 DEF TablesInv, MainIsPlaced, Placed
    <3>2. CASE CoreFails
      <4>1. PICK m \in Messages : m = main BY <3>1
      <4>2. main' = [m EXCEPT !.at = "dead"] BY <3>2, <4>1 DEF CoreFails
      <4> QED BY <4>1, <4>2 DEF Messages
    <3>3. CASE NoRootPort BY <3>3 DEF NoRootPort, Rest, Message
    <3> QED BY <1>5, <3>2, <3>3
  <2> QED BY <1>4, <2>1, <2>2, <2>3
<1>6. CASE RootPort
  <2>1. PICK n : n = Message("desc8", Hub, 0) OBVIOUS
  <2>2. n.at = "desc8" /\ n.k = 1 /\ n.dev = Hub BY <2>1 DEF Message
  <2>3. main' = n /\ TransferStage(Stages(n)[1]) /\ real' = [real EXCEPT ![Hub].on = TRUE]
    BY <1>6, <2>1 DEF RootPort
  <2>4. Placed(n)
    <3>1. main' \in Messages BY DEF TablesInv, MainIsPlaced, Placed
    <3> QED BY <2>2, <2>3, <3>1 DEF Placed, OfPort, Configuring, OfStick, Calling
  <2>5. PICK s : s = Stages(n)[1] OBVIOUS
  <2>6. s \in Stagings /\ ~Periodic(s.ep) /\ (s.state = "noSplit" <=> s.ep \notin SplitEps)
    BY <2>2, <2>4, <2>5, FirstStageIs DEF TablesInv, MainIsPlaced, IsCall
  <2>7. TransferStage(s) BY <2>3, <2>5
  <2>8. \A c \in Waited(chan') : chan'[c].state = "noSplit" <=> chan'[c].ep \notin SplitEps
    BY <1>1, <2>6, <2>7, StageIsBegun
  <2>9. \A d \in Devices : real'[d].tag = real[d].tag
    <3>1. real \in [Devices -> Reals] BY DEF TablesInv, AddressesAreNew
    <3>2. PICK h \in Devices : h = Hub BY PortsAreNumbers
    <3>3. PICK x : x = [real[h] EXCEPT !.on = TRUE] OBVIOUS
    <3>4. x.tag = real[h].tag BY <3>1, <3>3 DEF Reals
    <3>5. real' = [real EXCEPT ![h] = x] BY <2>3, <3>2, <3>3
    <3> QED BY <3>1, <3>4, <3>5
  <2> QED BY <1>4, <2>2, <2>3, <2>8, <2>9
<1> QED BY <1>5, <1>6 DEF InitializeHost

\* What goes on beside the call.
LEMMA OthersAreUnseen ==
  ASSUME TablesInv, DataInv, Unnoticed, UNCHANGED <<nextPID, main, call, last, host, real, disk>>
  PROVE  DataInv'
<1>1. nextPID' \in [Endpoints -> Stations] BY DEF DataInv, DataTypes
<1>2. Unseen BY <1>1 DEF Unseen, SameData, KeepsAddress
<1> QED BY <1>2, QuietKeeps

LEMMA DataInvHolds == Spec => []DataInv
<1>1. Init => DataInv
  <2> SUFFICES ASSUME Init PROVE DataInv OBVIOUS
  <2>1. PICK h : h = Hub OBVIOUS
  <2>2. main = Message("off", h, 0) BY <2>1 DEF Init
  <2>3. main.at = "off" BY <2>2 DEF Message
  <2>4. last.ok = FALSE BY DEF Init
  <2>5. disk \in [Sectors -> Sectors \cup {NewData}] BY DEF Init
  <2>6. nextPID \in [Endpoints -> Stations] BY DEF Init, HostInit, Stations
  <2>7. Waited(chan) = {} BY DEF Init, HostInit, Waited
  <2>8. \A d \in Devices : real[d].tag <= host.tag
    <3>1. host.tag = 0 BY DEF Init
    <3>2. PICK v : v = NewReal OBVIOUS
    <3>3. v \in Reals /\ v.tag = 0 BY <3>2 DEF Reals, Toggles, NewReal
    <3>4. ASSUME NEW d \in Devices PROVE real[d].tag = 0
      <4>1. PICK spin : spin = IF Kind(d) = "stick" THEN MaxSpin ELSE 0 OBVIOUS
      <4>2. real[d] = [v EXCEPT !.spin = spin] BY <3>2, <4>1 DEF Init
      <4> QED BY <3>3, <4>2 DEF Reals
    <3> QED BY <3>1, <3>4
  <2>9. TransfersAreTrue BY <2>4 DEF TransfersAreTrue
  <2>10. ~Moving BY <2>3 DEF Moving
  <2> QED BY <2>3, <2>4, <2>5, <2>6, <2>7, <2>8, <2>9, <2>10 DEF DataInv, DataTypes, Progress
<1>2. TablesInv /\ TablesInv' /\ DataInv /\ [Next]_vars => DataInv'
  <2> SUFFICES ASSUME TablesInv, TablesInv', DataInv, [Next]_vars PROVE DataInv' OBVIOUS
  <2>1. CASE InitializeHost BY <2>1, InitializeKeepsData
  <2>2. CASE NextStage BY <2>2, MainKeepsData
  <2>3. CASE Key
    <3>1. UNCHANGED <<hostVars, main, call, last, host, real, disk>> BY <2>3 DEF Key
    <3>2. Unnoticed BY <3>1 DEF hostVars, Unnoticed
    <3> QED BY <3>1, <3>2, OthersAreUnseen DEF hostVars
  <2>4. ASSUME NEW op \in {"read", "write"}, Call(op) PROVE DataInv' BY <2>4, CallKeepsData
  <2>5. ASSUME NEW c \in Channels, Interrupt(c) PROVE DataInv' BY <2>5, InterruptKeepsData
  <2>6. ASSUME NEW i \in Slots, IntervalIsOver(i) PROVE DataInv'
    <3>1. DelayIsOver(i) /\ UNCHANGED <<main, call, last, host, real, disk>> BY <2>6 DEF IntervalIsOver
    <3>2. Unnoticed BY <3>1, IntervalIsUnnoticed DEF TablesInv
    <3>3. nextPID' = nextPID BY <3>1 DEF DelayIsOver
    <3> QED BY <3>1, <3>2, <3>3, OthersAreUnseen
  <2>7. ASSUME NEW i \in Slots, RepeatTimer(i) PROVE DataInv'
    <3>1. UNCHANGED <<chan, nextPID, waiting, urb, main, call, last, host, real, disk>> BY <2>7 DEF RepeatTimer
    <3>2. Unnoticed BY <3>1 DEF Unnoticed
    <3> QED BY <3>1, <3>2, OthersAreUnseen
  <2>8. CASE UNCHANGED vars
    <3>1. UNCHANGED <<chan, nextPID, waiting, urb, main, call, last, host, real, disk>> BY <2>8 DEF vars, hostVars
    <3>2. Unnoticed BY <3>1 DEF Unnoticed
    <3> QED BY <3>1, <3>2, OthersAreUnseen
  <2> QED BY <2>1, <2>2, <2>3, <2>4, <2>5, <2>6, <2>7, <2>8 DEF Next
<1> QED BY <1>1, <1>2, TablesInvHolds, PTL DEF Spec

\* Whatever is spoilt, repeated and reset on the way, and however many sectors
\* there are: a read that says it succeeded returned what the sectors hold, and
\* a write that says so left what was given (uspi/lib/usbmassdevice.c,
\* USBBulkOnlyMassStorageDeviceRead, ...Write).
THEOREM TransfersStayTrue == Spec => []TransfersAreTrue
<1>1. DataInv => TransfersAreTrue BY DEF DataInv, DataTypes
<1> QED BY <1>1, DataInvHolds, PTL

=============================================================================
