------------------------------- MODULE SdCard -------------------------------
(***************************************************************************)
(* The SD card driver (src/rpi/emmc.cpp) under the sector loops FatFS      *)
(* calls (src/rpi/diskio.cpp).                                             *)
(*                                                                         *)
(* Every action after a call has begun is one command to the card and what *)
(* the driver makes of the answer.  The card is a party of its own: it has *)
(* the states of the SD specification, answers only what its state allows, *)
(* and may lose a command, lose or spoil an answer, or lose power and be   *)
(* back at once.  Faults are bounded, so that in the end the card works.   *)
(***************************************************************************)
EXTENDS Integers

CONSTANTS
  Sectors,      \* the sectors that are asked for
  Data,         \* what a sector can hold
  Cards,        \* the kinds of card: subset of {"v1", "v2", "sdhc"}
  BaseClocks,   \* what the firmware may say of the clock, in 100 kHz
  MaxFaults     \* bound: how often the card misbehaves

ASSUME SdAssumption ==
  /\ Sectors \subseteq Nat /\ Sectors # {}
  /\ Data # {} /\ Cards \subseteq {"v1", "v2", "sdhc"}
  /\ BaseClocks \subseteq Nat \ {0}
  /\ MaxFaults \in Nat

SD_BLOCK_SIZE == 512
SD_CLOCK_ID == 4
SD_CLOCK_NORMAL == 250
MaxRetries == 3

VARIABLES
  pc,           \* the command to be sent next, "reset" before those of
                \* CardReset, "sector" between two sectors, "idle" outside
  call,         \* the call: operation, first sector, number of sectors, data
  at,           \* s, the sector of the call the driver is at
  res,          \* what DoRead or DoWrite returned for it, 0 before
  ret,          \* what disk_read or disk_write returned
  buf,          \* the sector's part of the buffer
  rca,          \* m_card_rca
  blockSize,    \* m_block_size
  sdhc,         \* m_card_supports_sdhc
  wide,         \* the controller uses four data lines
  removal,      \* m_card_removal is "seen", "pending" is the interrupt bit
  v2,           \* v2_later of CardReset
  resume,       \* what follows CardReset
  tries,        \* retry_count of DoDataCommand
  base, clock,  \* the controller's clock and the card's
  card,         \* the card: kind, state, block length, data lines
  platter,      \* what the card has stored, by its own sector number
  moved,        \* history: the sectors of the call that were transferred
  faults        \* how often the card has misbehaved

callVars == <<call, at, ret>>
initVars == <<rca, blockSize, sdhc, wide, v2, resume, base, clock>>
cardVars == <<card, removal, faults>>
vars == <<pc, callVars, res, buf, initVars, tries, cardVars, platter, moved>>

Unread == "unread"
Sector == call.from + at

-----------------------------------------------------------------------------
(* The card. *)

\* The sectors a card may take a right or a wrong address for.
Places == Sectors \cup {s * SD_BLOCK_SIZE : s \in Sectors}
Place(a) == IF card.kind = "sdhc" THEN a ELSE a \div SD_BLOCK_SIZE

\* Both sides agree on the data lines and on what a block is.
InStep == card.wide = wide /\ (card.kind = "sdhc" \/ card.length = blockSize)

\* Does the card answer the command?  A card before version 2 does not know
\* CMD8, and no memory card knows CMD5.
Takes(cmd) ==
  CASE cmd = "cmd0" -> TRUE
    [] cmd = "cmd8" -> card.state = "idle" /\ card.kind # "v1"
    [] cmd = "cmd5" -> FALSE
    [] cmd \in {"inquiry", "acmd41"} -> card.state \in {"idle", "ready"}
    [] cmd = "cmd2" -> card.state = "ready"
    [] cmd = "cmd3" -> card.state \in {"ident", "stby"}
    [] cmd \in {"cmd7", "select"} -> card.state \in {"stby", "tran"}
    [] cmd \in {"status", "recheck"} -> card.state \in {"stby", "tran", "data", "rcv"}
    [] cmd = "stop" -> card.state \in {"data", "rcv"}
    [] cmd = "scr" -> card.state = "tran" /\ card.wide = wide
    [] cmd = "data" -> card.state = "tran" /\ InStep
    [] OTHER -> card.state = "tran"

\* What a command makes of the card.  One of high capacity does not get
\* ready for a host that does not say it knows such cards.
After(cmd) ==
  CASE cmd = "cmd0" ->
         [card EXCEPT !.state = "idle", !.length = 2 * SD_BLOCK_SIZE, !.wide = FALSE]
    [] cmd = "acmd41" /\ (card.kind # "sdhc" \/ v2) -> [card EXCEPT !.state = "ready"]
    [] cmd = "cmd2" -> [card EXCEPT !.state = "ident"]
    [] cmd = "cmd3" -> [card EXCEPT !.state = "stby"]
    [] cmd \in {"cmd7", "select", "stop"} -> [card EXCEPT !.state = "tran"]
    [] cmd = "blocklen" -> [card EXCEPT !.length = SD_BLOCK_SIZE]
    [] cmd = "width" -> [card EXCEPT !.wide = TRUE]
    [] OTHER -> card

\* A transfer that breaks off leaves the card in the middle of a block.
Interrupted == [card EXCEPT !.state = IF call.op = "write" THEN "rcv" ELSE "data"]

-----------------------------------------------------------------------------
(* IssueCommand.  Its outcome is "ok", nothing at all (TIMEOUT), a         *)
(* "cmdtimeout" (CMD_TIMEOUT), another "error", or an answer that came     *)
(* through and does not say what it should, which is a success too: "odd". *)

Outcomes == {"ok", "timeout", "cmdtimeout", "error", "odd"}
Failed(out) == out \in {"timeout", "cmdtimeout", "error"}

\* What a command that the card does not take ends in: no answer, or a block
\* that does not come or cannot be read.
Silence(cmd) ==
  IF cmd \in {"scr", "data"} /\ card.state = "tran" THEN {"error"} ELSE {"timeout", "cmdtimeout"}

\* The card did or did not do what it was told, and the answer is not right.
Misbehaves(cmd, out) ==
  /\ faults < MaxFaults /\ faults' = faults + 1
  /\ out # "ok"
  /\ card' \in IF Takes(cmd)
                 THEN {card, After(cmd)} \cup (IF cmd = "data" THEN {Interrupted} ELSE {})
                 ELSE {card}

\* HandleInterrupts comes first: once a removal is seen no command is sent
\* until the card is initialised again.
Exchange(cmd, out) ==
  \/ /\ removal # "no" /\ removal' = "seen"
     /\ out = "timeout"
     /\ UNCHANGED <<card, faults>>
  \/ /\ removal = "no" /\ UNCHANGED removal
     /\ \/ Takes(cmd) /\ out = "ok" /\ card' = After(cmd) /\ UNCHANGED faults
        \/ ~Takes(cmd) /\ out \in Silence(cmd) /\ UNCHANGED <<card, faults>>
        \/ Misbehaves(cmd, out)

-----------------------------------------------------------------------------
(* CardReset. *)

\* It returns -1, to EnsureDataMode or to Initialize.
InitFails ==
  /\ res' = IF resume = "idle" THEN res ELSE -1
  /\ pc' = IF resume = "idle" THEN "idle" ELSE "sector"

\* What the controller divides its clock by: a power of two ...
Divisors == {1, 2, 4, 8, 16, 32, 64, 128, 256, 512, 1024}

\* ... and twice 0x3ff where none is large enough.
Divisor(quotient) ==
  IF quotient \in 1..1024
  THEN CHOOSE d \in Divisors : d >= quotient /\ \A e \in Divisors : e >= quotient => d <= e
  ELSE 2046

\* The clock that comes out of GetClockDivider's divider.
Divided(b, target) ==
  b \div Divisor(IF target > b THEN 1
                 ELSE b \div target - (IF b % target # 0 THEN 1 ELSE 0))

\* Reset of the controller.  It may not come back, or see no card or no
\* clock: nothing of the driver's state has changed then.
ResetController ==
  /\ pc = "reset"
  /\ \/ /\ faults < MaxFaults /\ faults' = faults + 1
        /\ InitFails
        /\ UNCHANGED <<initVars, removal>>
     \/ /\ pc' = "cmd0"
        /\ clock' = Divided(base, SD_CLOCK_ID)
        /\ rca' = 0 /\ blockSize' = 0 /\ sdhc' = FALSE /\ wide' = FALSE
        /\ removal' = "no"
        /\ UNCHANGED <<res, faults, v2, resume, base>>
  /\ UNCHANGED <<callVars, buf, tries, card, platter, moved>>

\* A step that tests the outcome of its command and changes nothing else.
Step(cmd, then, Passes(_)) ==
  /\ pc = cmd
  /\ \E out \in Outcomes :
       /\ Exchange(cmd, out)
       /\ IF Passes(out) THEN pc' = then /\ UNCHANGED res ELSE InitFails
  /\ UNCHANGED <<callVars, buf, initVars, tries, platter, moved>>

GoIdle == Step("cmd0", "cmd8", LAMBDA out : ~Failed(out))

SendIfCond ==
  /\ pc = "cmd8"
  /\ \E out \in Outcomes :
       /\ Exchange("cmd8", out)
       /\ v2' = (out = "ok")
       /\ IF out \in {"error", "odd"} THEN InitFails ELSE pc' = "cmd5" /\ UNCHANGED res
  /\ UNCHANGED <<callVars, buf, rca, blockSize, sdhc, wide, resume, base, clock>>
  /\ UNCHANGED <<tries, platter, moved>>

\* Only a card with other functions than memory answers.
IoSetOpCond == Step("cmd5", "inquiry", LAMBDA out : out \in {"timeout", "cmdtimeout"})

Inquiry == Step("inquiry", "acmd41", LAMBDA out : ~Failed(out))

\* Repeated for as long as the card says it is busy.
SdSendOpCond ==
  /\ pc = "acmd41"
  /\ \E out \in Outcomes :
       /\ Exchange("acmd41", out)
       /\ \/ /\ Failed(out) /\ InitFails /\ UNCHANGED <<sdhc, clock>>
          \/ /\ ~Failed(out) /\ (out = "odd" \/ card'.state # "ready")
             /\ UNCHANGED <<pc, res, sdhc, clock>>
          \/ /\ out = "ok" /\ card'.state = "ready"
             /\ sdhc' = (card.kind = "sdhc")
             /\ clock' = Divided(base, SD_CLOCK_NORMAL)
             /\ pc' = "cmd2" /\ UNCHANGED res
  /\ UNCHANGED <<callVars, buf, rca, blockSize, wide, v2, resume, base, tries, platter, moved>>

AllSendCid == Step("cmd2", "cmd3", LAMBDA out : ~Failed(out))

\* The address is kept before the status bits next to it are looked at.
SendRelativeAddr ==
  /\ pc = "cmd3"
  /\ \E out \in Outcomes :
       /\ Exchange("cmd3", out)
       /\ rca' = IF Failed(out) THEN rca ELSE 1
       /\ IF out = "ok" THEN pc' = "cmd7" /\ UNCHANGED res ELSE InitFails
  /\ UNCHANGED <<callVars, buf, blockSize, sdhc, wide, v2, resume, base, clock>>
  /\ UNCHANGED <<tries, platter, moved>>

SelectCard ==
  Step("cmd7", IF sdhc THEN "scr" ELSE "blocklen", LAMBDA out : out = "ok")

SetBlocklen == Step("blocklen", "scr", LAMBDA out : ~Failed(out))

\* m_block_size is that of a sector again before the outcome is tested.  A
\* register that does not offer four lines ends the initialisation.
SendScr ==
  /\ pc = "scr"
  /\ \E out \in Outcomes :
       /\ Exchange("scr", out)
       /\ IF Failed(out) THEN InitFails
          ELSE pc' = (IF out = "odd" THEN resume ELSE "width") /\ UNCHANGED res
  /\ blockSize' = SD_BLOCK_SIZE
  /\ UNCHANGED <<callVars, buf, rca, sdhc, wide, v2, resume, base, clock, tries, platter, moved>>

\* A failure leaves the controller at one line, wherever the card is.
SetBusWidth ==
  /\ pc = "width"
  /\ \E out \in Outcomes : Exchange("width", out) /\ wide' = ~Failed(out)
  /\ pc' = resume
  /\ UNCHANGED <<callVars, res, buf, rca, blockSize, sdhc, v2, resume, base, clock>>
  /\ UNCHANGED <<tries, platter, moved>>

CardReset ==
  \/ ResetController \/ GoIdle \/ SendIfCond \/ IoSetOpCond \/ Inquiry
  \/ SdSendOpCond \/ AllSendCid \/ SendRelativeAddr \/ SelectCard
  \/ SetBlocklen \/ SendScr \/ SetBusWidth

-----------------------------------------------------------------------------
(* EnsureDataMode. *)

\* Mutant of ModeFails: the card is taken for initialised.
ModeFailsKeepsRca == res' = -1 /\ pc' = "sector" /\ UNCHANGED rca

\* It returns -1; the next access initialises the card.
ModeFails == res' = -1 /\ pc' = "sector" /\ rca' = 0

\* The first CMD13, and what the state it reports asks for.
SendStatus ==
  /\ pc = "status"
  /\ \E out \in Outcomes :
       /\ Exchange("status", out)
       /\ \/ Failed(out) /\ ModeFails /\ UNCHANGED resume
          \/ /\ ~Failed(out) /\ UNCHANGED <<rca, res>>
             /\ LET state == IF out = "odd" THEN "rcv" ELSE card.state IN
                CASE state = "tran" -> pc' = "data" /\ UNCHANGED resume
                  [] state = "stby" -> pc' = "select" /\ UNCHANGED resume
                  [] state = "data" -> pc' = "stop" /\ UNCHANGED resume
                  [] OTHER -> pc' = "reset" /\ resume' = "recheck"
  /\ UNCHANGED <<callVars, buf, blockSize, sdhc, wide, v2, base, clock, tries, platter, moved>>

\* CMD7 for a card in stand-by, CMD12 and ResetDat for one in a transfer.
BackToTransfer ==
  /\ pc \in {"select", "stop"}
  /\ \E out \in Outcomes :
       /\ Exchange(pc, out)
       /\ IF Failed(out) THEN ModeFails ELSE pc' = "recheck" /\ UNCHANGED <<rca, res>>
  /\ UNCHANGED <<callVars, buf, blockSize, sdhc, wide, v2, resume, base, clock>>
  /\ UNCHANGED <<tries, platter, moved>>

Recheck ==
  /\ pc = "recheck"
  /\ \E out \in Outcomes :
       /\ Exchange("recheck", out)
       /\ IF out = "ok" /\ card.state = "tran"
            THEN pc' = "data" /\ UNCHANGED <<rca, res>> ELSE ModeFails
  /\ UNCHANGED <<callVars, buf, blockSize, sdhc, wide, v2, resume, base, clock>>
  /\ UNCHANGED <<tries, platter, moved>>

-----------------------------------------------------------------------------
(* DoDataCommand: one sector, three attempts. *)

Address(s) == IF sdhc THEN s ELSE s * SD_BLOCK_SIZE

\* Without a block size: 512 / 0 is 0 to the processor, so 512 is not an
\* exact multiple.
NoBlockSize ==
  /\ pc = "data" /\ blockSize = 0
  /\ res' = -1 /\ pc' = "sector"
  /\ UNCHANGED <<callVars, buf, initVars, tries, cardVars, platter, moved>>

\* Mutant of AttemptFails: the last attempt passes for a success.
AttemptFailsSilently ==
  /\ tries' = tries + 1 /\ UNCHANGED rca
  /\ IF tries' = MaxRetries THEN res' = SD_BLOCK_SIZE /\ pc' = "sector"
     ELSE UNCHANGED <<pc, res>>

\* An attempt that failed may have written the sector.
AttemptFails ==
  /\ tries' = tries + 1
  /\ IF tries' = MaxRetries THEN ModeFails ELSE UNCHANGED <<pc, res, rca>>

Written == [platter EXCEPT ![Place(Address(Sector))] = call.data]

DataCommand ==
  /\ pc = "data" /\ blockSize # 0
  /\ \E out \in Outcomes :
       /\ Exchange("data", out)
       /\ \/ /\ Failed(out) /\ AttemptFails
             /\ platter' \in {platter} \cup
                  (IF call.op = "write" /\ faults' # faults /\ Takes("data") THEN {Written} ELSE {})
             /\ buf' = Unread /\ UNCHANGED moved
          \/ /\ out = "ok"
             /\ res' = SD_BLOCK_SIZE /\ pc' = "sector" /\ UNCHANGED <<rca, tries>>
             /\ platter' = IF call.op = "write" THEN Written ELSE platter
             /\ buf' = IF call.op = "read" THEN platter[Place(Address(Sector))] ELSE buf
             /\ moved' = moved \cup {Sector}
  /\ UNCHANGED <<callVars, blockSize, sdhc, wide, v2, resume, base, clock>>

-----------------------------------------------------------------------------
(* disk_read, disk_write and disk_initialize. *)

\* EnsureDataMode of the next sector.
ToSector ==
  /\ pc' = IF rca = 0 THEN "reset" ELSE "status"
  /\ resume' = "status" /\ tries' = 0 /\ res' = 0 /\ buf' = Unread

Begin ==
  /\ pc = "idle"
  /\ \E op \in {"read", "write"}, s \in Sectors, n \in {1, 2}, d \in Data :
       /\ s + n - 1 \in Sectors
       /\ op = "read" => d = CHOOSE x \in Data : TRUE
       /\ call' = [op |-> op, from |-> s, count |-> n, data |-> d]
  /\ at' = 0 /\ moved' = {} /\ ret' = "none"
  /\ ToSector
  /\ UNCHANGED <<rca, blockSize, sdhc, wide, v2, base, clock, cardVars, platter>>

\* disk_initialize is done with whatever Initialize returns.
BeginInit ==
  /\ pc = "idle"
  /\ call' = [call EXCEPT !.op = "init"]
  /\ pc' = "reset" /\ resume' = "idle"
  /\ ret' = "RES_OK" /\ moved' = {}
  /\ at' = 0 /\ res' = 0 /\ buf' = Unread /\ tries' = 0
  /\ UNCHANGED <<rca, blockSize, sdhc, wide, v2, base, clock, cardVars, platter>>

\* sd_read and sd_write return DoRead's int as a size_t: -1 is the largest.
SizeMax == 2147483647
AsSize(n) == IF n < 0 THEN SizeMax ELSE n

SectorDone ==
  /\ pc = "sector"
  /\ \/ /\ AsSize(res) < SD_BLOCK_SIZE
        /\ pc' = "idle" /\ ret' = "RES_ERROR"
        /\ UNCHANGED <<at, resume, tries, res, buf>>
     \/ /\ AsSize(res) >= SD_BLOCK_SIZE /\ at + 1 < call.count
        /\ at' = at + 1
        /\ ToSector
        /\ UNCHANGED ret
     \/ /\ AsSize(res) >= SD_BLOCK_SIZE /\ at + 1 = call.count
        /\ pc' = "idle" /\ ret' = "RES_OK"
        /\ UNCHANGED <<at, resume, tries, res, buf>>
  /\ UNCHANGED <<call, rca, blockSize, sdhc, wide, v2, base, clock, cardVars, platter, moved>>

-----------------------------------------------------------------------------
(* The card loses power for a moment, is pulled and pushed in again. *)

PowerLost ==
  /\ faults < MaxFaults /\ faults' = faults + 1
  /\ card' = [card EXCEPT !.state = "idle", !.length = 2 * SD_BLOCK_SIZE, !.wide = FALSE]
  /\ removal' \in {removal, "pending"}
  /\ UNCHANGED <<pc, callVars, res, buf, initVars, tries, platter, moved>>

\* Before the first disk_initialize.
Init ==
  /\ pc = "idle" /\ at = 0 /\ res = 0 /\ ret = "none" /\ buf = Unread
  /\ call = [op |-> "init", from |-> 0, count |-> 1, data |-> CHOOSE x \in Data : TRUE]
  /\ rca = 0 /\ blockSize = 0 /\ sdhc = FALSE /\ wide = FALSE
  /\ removal = "no" /\ v2 = FALSE /\ resume = "idle" /\ tries = 0
  /\ base \in BaseClocks /\ clock = 0
  /\ card \in [kind : Cards, state : {"idle"}, length : {2 * SD_BLOCK_SIZE}, wide : {FALSE}]
  /\ platter = [p \in Places |-> CHOOSE x \in Data : TRUE]
  /\ moved = {} /\ faults = 0

Driver ==
  \/ CardReset \/ SendStatus \/ BackToTransfer \/ Recheck
  \/ NoBlockSize \/ DataCommand \/ SectorDone

Next == Driver \/ Begin \/ BeginInit \/ PowerLost

Spec == Init /\ [][Next]_vars

\* Core 1 runs the driver and does nothing else during a call.
FairSpec == Spec /\ WF_vars(Driver)

-----------------------------------------------------------------------------
(* Properties. *)

\* Every variable has its type; the driver has a block size whenever it has
\* had an answer from a card it initialised to the end.
TypeOK ==
  /\ call \in [op : {"init", "read", "write"}, from : Nat, count : {1, 2}, data : Data]
  /\ at \in 0..1 /\ res \in {-1, 0, SD_BLOCK_SIZE} /\ buf \in Data \cup {Unread}
  /\ ret \in {"none", "RES_OK", "RES_ERROR"}
  /\ rca \in {0, 1} /\ blockSize \in {0, SD_BLOCK_SIZE}
  /\ sdhc \in BOOLEAN /\ wide \in BOOLEAN /\ v2 \in BOOLEAN
  /\ removal \in {"no", "pending", "seen"}
  /\ resume \in {"idle", "status", "recheck"} /\ tries \in 0..MaxRetries
  /\ base \in BaseClocks /\ clock \in Nat
  /\ card \in [kind : Cards, state : {"idle", "ready", "ident", "stby", "tran", "data", "rcv"},
               length : {SD_BLOCK_SIZE, 2 * SD_BLOCK_SIZE}, wide : BOOLEAN]
  /\ platter \in [Places -> Data] /\ moved \subseteq Nat /\ faults \in 0..MaxFaults

\* When DoRead or DoWrite says 512, the sector asked for has been moved: the
\* buffer holds what the card has there, or the card what was to be written,
\* however many attempts, resets and changes of mode it took.
TransferIsTrue ==
  (pc = "sector" /\ res = SD_BLOCK_SIZE) =>
    /\ Sector \in moved
    /\ call.op = "read" => buf = platter[Sector]
    /\ call.op = "write" => platter[Sector] = call.data

\* No retry, wrong address or reset ever changes a sector other than the one
\* that is being written.
OthersAreKept ==
  [][\A p \in Places : platter'[p] # platter[p] => call.op = "write" /\ p = Sector]_vars

\* The card is never clocked faster than the phase it is in allows.
ClockIsAllowed ==
  clock <= IF pc \in {"cmd0", "cmd8", "cmd5", "inquiry", "acmd41"}
             THEN SD_CLOCK_ID ELSE SD_CLOCK_NORMAL

\* The initialisation waits for a card of high capacity without having said
\* that it knows such cards: its CMD8 or the answer was lost.
Deaf == pc = "acmd41" /\ card.kind = "sdhc" /\ ~v2

\* An initialisation broke off between CMD3 and the SCR: there is an address,
\* so the card is not initialised again, and no block size.
HalfInitialised == rca # 0 /\ blockSize = 0

\* Every call of FatFS returns, whatever the card does, except from the wait
\* for a high capacity card that was not told.
CallReturns == (pc # "idle") ~> (pc = "idle" \/ Deaf)

\* A card that has stopped misbehaving works again: as long as sectors are
\* asked for some are moved, except from the two states the driver does not
\* leave.
Recovers ==
  []<>(pc # "idle" /\ call.op # "init") =>
    \/ []<>(pc = "sector" /\ res = SD_BLOCK_SIZE)
    \/ <>[]Deaf
    \/ <>[]HalfInitialised

\* What the driver calls a success is one, and the card can follow its clock.
CardIsTrue == TransferIsTrue /\ ClockIsAllowed

\* The driver comes back from every call, makes use of a card that works, and
\* changes nothing but what is being written.
CardComesBack == CallReturns /\ Recovers /\ OthersAreKept

\* README.md says that when a write does not reach the card the data stays
\* cached and the drive reports it: disk_write says RES_OK only when every
\* sector has been moved, and disk_read too.
FailureIsTold ==
  (ret = "RES_OK" /\ call.op # "init") => call.from .. (call.from + call.count - 1) \subseteq moved

=============================================================================
