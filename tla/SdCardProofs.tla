----------------------------- MODULE SdCardProofs -----------------------------
(***************************************************************************)
(* Proofs about the driver of the SD card: for every card, sector, datum   *)
(* and number of faults, what the driver calls a success is one, nothing   *)
(* but the sector that is being written changes, and the clock stays below *)
(* what the phase allows when the controller's own clock is a multiple of  *)
(* both of the rates that are asked for.                                   *)
(***************************************************************************)
EXTENDS SdCard, TLAPS

-----------------------------------------------------------------------------
(* The call, the card and the driver's idea of it. *)

Opening == {"reset", "cmd0", "cmd8", "cmd5", "inquiry", "acmd41"}
Known == {"cmd2", "cmd3", "cmd7", "blocklen", "scr", "width"}
Moving == {"status", "select", "stop", "recheck", "data", "sector"}

CardStates == {"idle", "ready", "ident", "stby", "tran", "data", "rcv"}

\* A call is of sectors that are there, and the sectors before `at' are done.
CallIsWhole ==
  /\ call \in [op : {"init", "read", "write"}, from : Int, count : {1, 2}, data : Data]
  /\ at \in Nat /\ at < call.count
  /\ call.op # "init" => \A i \in 0 .. call.count - 1 : call.from + i \in Sectors

\* An initialisation that was asked for does not go on to a transfer, and a
\* transfer has a result only between two sectors.
PcIsWhole ==
  /\ pc \in Opening \union Known \union Moving \union {"idle"}
  /\ resume \in {"idle", "status", "recheck"}
  /\ pc \in Moving => call.op # "init"
  /\ call.op = "init" /\ pc # "idle" => resume = "idle"
  /\ pc \notin {"sector", "idle"} => res = 0

CardIsWhole ==
  /\ card \in [kind : Cards, state : CardStates,
               length : {SD_BLOCK_SIZE, 2 * SD_BLOCK_SIZE}, wide : BOOLEAN]
  /\ platter \in [Places -> Data]

\* From the answer to ACMD41 on the driver knows which kind of address to send,
\* and without it there is no block size, so no transfer.
KindIsKnown ==
  pc \in Known \/ blockSize # 0 => sdhc = (card.kind = "sdhc")

SdInv == CallIsWhole /\ PcIsWhole /\ CardIsWhole /\ KindIsKnown /\ TransferIsTrue

LEMMA InitSd == Init => SdInv
<1> SUFFICES ASSUME Init PROVE SdInv
  OBVIOUS
<1>1. (CHOOSE x \in Data : TRUE) \in Data
  BY SdAssumption
<1>2. CallIsWhole
  BY <1>1 DEF Init, CallIsWhole
<1>3. CardIsWhole
  BY <1>1 DEF Init, CardIsWhole, CardStates
<1>4. PcIsWhole /\ KindIsKnown /\ TransferIsTrue
  BY DEF Init, PcIsWhole, KindIsKnown, TransferIsTrue, Opening, Known, Moving
<1> QED BY <1>2, <1>3, <1>4 DEF SdInv

\* The driver's address is that of the sector, in sectors or in bytes.
LEMMA PlaceOfSector ==
  ASSUME CallIsWhole, KindIsKnown, blockSize # 0, call.op # "init"
  PROVE  Place(Address(Sector)) = Sector /\ Sector \in Sectors /\ Sector \in Places
<1>1. Sector \in Sectors
  BY DEF CallIsWhole, Sector
<1>2. Sector \in Nat /\ Sector \in Places
  BY <1>1, SdAssumption DEF Places
<1>3. (Sector * SD_BLOCK_SIZE) \div SD_BLOCK_SIZE = Sector
  BY <1>2 DEF SD_BLOCK_SIZE
<1>4. sdhc = (card.kind = "sdhc")
  BY DEF KindIsKnown
<1>5. Place(Address(Sector)) = Sector
  BY <1>3, <1>4 DEF Place, Address
<1> QED BY <1>1, <1>2, <1>5

\* Whatever an exchange does to the card, it stays the card it is.
LEMMA ExchangeKeepsCard ==
  ASSUME CardIsWhole, NEW cmd, NEW out, Exchange(cmd, out)
  PROVE  /\ card' \in [kind : Cards, state : CardStates,
                       length : {SD_BLOCK_SIZE, 2 * SD_BLOCK_SIZE}, wide : BOOLEAN]
         /\ card'.kind = card.kind
<1> DEFINE C == [kind : Cards, state : CardStates,
                 length : {SD_BLOCK_SIZE, 2 * SD_BLOCK_SIZE}, wide : BOOLEAN]
<1>1. card \in C
  BY DEF CardIsWhole
<1>2. After(cmd) \in C /\ After(cmd).kind = card.kind
  BY <1>1 DEF After, CardStates
<1>3. Interrupted \in C /\ Interrupted.kind = card.kind
  BY <1>1 DEF Interrupted, CardStates
<1>4. card' \in {card, After(cmd), Interrupted}
  BY DEF Exchange, Misbehaves
<1> HIDE DEF C
<1> QED BY <1>1, <1>2, <1>3, <1>4 DEF C

\* A step that leaves the call and the platter alone, and ends no transfer.
LEMMA StepKeeps ==
  ASSUME SdInv, UNCHANGED <<call, at, platter, buf, moved>>,
         card' \in [kind : Cards, state : CardStates,
                    length : {SD_BLOCK_SIZE, 2 * SD_BLOCK_SIZE}, wide : BOOLEAN],
         PcIsWhole', KindIsKnown', pc' = "sector" => res' = -1 \/ (pc = "sector" /\ res' = res)
  PROVE  SdInv'
BY DEF SdInv, CallIsWhole, CardIsWhole, TransferIsTrue, Sector, SD_BLOCK_SIZE

-----------------------------------------------------------------------------
(* CardReset. *)

LEMMA FailedInit ==
  ASSUME SdInv, pc \in Opening \union Known, InitFails, UNCHANGED <<call, resume>>
  PROVE  PcIsWhole' /\ pc' \notin Known /\ (pc' = "sector" => res' = -1)
BY DEF SdInv, PcIsWhole, InitFails, Opening, Known, Moving

\* The steps that only test the outcome of their command.
LEMMA StepsTest ==
  ASSUME SdInv, NEW cmd \in Opening \union Known, NEW then \in Opening \union Known,
         pc = cmd, UNCHANGED <<callVars, buf, initVars, tries, platter, moved>>,
         cmd \in Opening => then \in Opening,
         NEW out, Exchange(cmd, out),
         (pc' = then /\ UNCHANGED res) \/ InitFails
  PROVE  SdInv'
<1>1. /\ card' \in [kind : Cards, state : CardStates,
                    length : {SD_BLOCK_SIZE, 2 * SD_BLOCK_SIZE}, wide : BOOLEAN]
      /\ card'.kind = card.kind
  BY ExchangeKeepsCard DEF SdInv
<1>2. UNCHANGED <<call, at, resume, sdhc, blockSize>>
  BY DEF callVars, initVars
<1>3. CASE InitFails
  <2>1. PcIsWhole' /\ pc' \notin Known /\ (pc' = "sector" => res' = -1)
    BY <1>2, <1>3, FailedInit
  <2>2. KindIsKnown'
    BY <1>1, <1>2, <2>1 DEF SdInv, KindIsKnown
  <2> QED BY <1>1, <1>2, <2>1, <2>2, StepKeeps
<1>4. CASE pc' = then /\ UNCHANGED res
  <2>1. PcIsWhole' /\ pc' # "sector"
    BY <1>2, <1>4 DEF SdInv, PcIsWhole, Opening, Known, Moving
  <2>2. KindIsKnown'
    BY <1>1, <1>2, <1>4 DEF SdInv, KindIsKnown, Opening, Known
  <2> QED BY <1>1, <1>2, <2>1, <2>2, StepKeeps
<1> QED BY <1>3, <1>4

LEMMA ResetKeeps == ASSUME SdInv, CardReset PROVE SdInv'
<1>1. ASSUME ResetController PROVE SdInv'
  <2>1. /\ pc = "reset" /\ UNCHANGED <<call, at, platter, buf, moved, card, resume>>
        /\ \/ InitFails /\ UNCHANGED <<sdhc, blockSize>>
           \/ pc' = "cmd0" /\ blockSize' = 0 /\ UNCHANGED res
    BY <1>1 DEF ResetController, callVars, initVars
  <2>2. CASE InitFails /\ UNCHANGED <<sdhc, blockSize>>
    <3>1. PcIsWhole' /\ pc' \notin Known /\ (pc' = "sector" => res' = -1)
      BY <2>1, <2>2, FailedInit DEF Opening
    <3> QED BY <2>1, <2>2, <3>1, StepKeeps DEF SdInv, KindIsKnown, CardIsWhole
  <2>3. CASE pc' = "cmd0" /\ blockSize' = 0 /\ UNCHANGED res
    <3>1. PcIsWhole' /\ KindIsKnown'
      BY <2>1, <2>3 DEF SdInv, PcIsWhole, KindIsKnown, Opening, Known, Moving
    <3> QED BY <2>1, <2>3, <3>1, StepKeeps DEF SdInv, CardIsWhole
  <2> QED BY <2>1, <2>2, <2>3
<1>2. ASSUME GoIdle PROVE SdInv'
  BY <1>2, StepsTest DEF GoIdle, Step, Opening
<1>3. ASSUME IoSetOpCond PROVE SdInv'
  BY <1>3, StepsTest DEF IoSetOpCond, Step, Opening
<1>4. ASSUME Inquiry PROVE SdInv'
  BY <1>4, StepsTest DEF Inquiry, Step, Opening
<1>5. ASSUME AllSendCid PROVE SdInv'
  BY <1>5, StepsTest DEF AllSendCid, Step, Opening, Known
<1>6. ASSUME SelectCard PROVE SdInv'
  BY <1>6, StepsTest DEF SelectCard, Step, Opening, Known
<1>7. ASSUME SetBlocklen PROVE SdInv'
  BY <1>7, StepsTest DEF SetBlocklen, Step, Opening, Known
<1>8. ASSUME NEW out, Exchange(pc, out), pc \in Opening \union Known,
             UNCHANGED <<call, at, platter, buf, moved, resume>>,
             \/ InitFails
             \/ UNCHANGED res /\ pc' \in Opening \union Known \union {resume}
                /\ (resume = "status" \/ pc' # "status"),
             pc' \in Known \/ blockSize' # 0 => sdhc' = (card.kind = "sdhc")
      PROVE  SdInv'
  <2>1. /\ card' \in [kind : Cards, state : CardStates,
                      length : {SD_BLOCK_SIZE, 2 * SD_BLOCK_SIZE}, wide : BOOLEAN]
        /\ card'.kind = card.kind
    BY <1>8, ExchangeKeepsCard DEF SdInv
  <2>2. KindIsKnown'
    BY <1>8, <2>1 DEF KindIsKnown
  <2>3. CASE InitFails
    BY <1>8, <2>1, <2>2, <2>3, FailedInit, StepKeeps
  <2>4. CASE UNCHANGED res /\ pc' \in Opening \union Known \union {resume}
    <3>1. PcIsWhole' /\ pc' # "sector"
      BY <1>8, <2>4 DEF SdInv, PcIsWhole, Opening, Known, Moving
    <3> QED BY <1>8, <2>1, <2>2, <3>1, StepKeeps
  <2> QED BY <1>8, <2>3, <2>4
<1>9. ASSUME SendIfCond PROVE SdInv'
  <2>1. PICK out \in Outcomes :
          /\ Exchange("cmd8", out)
          /\ InitFails \/ (pc' = "cmd5" /\ UNCHANGED res)
    BY <1>9 DEF SendIfCond
  <2>2. pc = "cmd8" /\ UNCHANGED <<call, at, platter, buf, moved, resume, sdhc, blockSize>>
    BY <1>9 DEF SendIfCond, callVars
  <2>3. pc \in Opening \union Known /\ pc' \notin Known
    BY <2>1, <2>2, FailedInit DEF Opening, Known
  <2> QED BY <1>8, <2>1, <2>2, <2>3 DEF SdInv, KindIsKnown, Opening
<1>10. ASSUME SdSendOpCond PROVE SdInv'
  <2>1. PICK out \in Outcomes :
          /\ Exchange("acmd41", out)
          /\ \/ InitFails /\ UNCHANGED sdhc
             \/ UNCHANGED <<pc, res, sdhc>>
             \/ sdhc' = (card.kind = "sdhc") /\ pc' = "cmd2" /\ UNCHANGED res
    BY <1>10 DEF SdSendOpCond
  <2>2. pc = "acmd41" /\ UNCHANGED <<call, at, platter, buf, moved, resume, blockSize>>
    BY <1>10 DEF SdSendOpCond, callVars
  <2>3. pc \in Opening \union Known
    BY <2>2 DEF Opening
  <2>4. pc' \in Known \/ blockSize' # 0 => sdhc' = (card.kind = "sdhc")
    BY <2>1, <2>2, <2>3, FailedInit DEF SdInv, KindIsKnown, Known
  <2> QED BY <1>8, <2>1, <2>2, <2>3, <2>4 DEF Opening, Known
<1>11. ASSUME SendRelativeAddr PROVE SdInv'
  <2>1. PICK out \in Outcomes :
          Exchange("cmd3", out) /\ ((pc' = "cmd7" /\ UNCHANGED res) \/ InitFails)
    BY <1>11 DEF SendRelativeAddr
  <2>2. pc = "cmd3" /\ UNCHANGED <<call, at, platter, buf, moved, resume, sdhc, blockSize>>
    BY <1>11 DEF SendRelativeAddr, callVars
  <2>3. pc \in Known
    BY <2>2 DEF Known
  <2> QED BY <1>8, <2>1, <2>2, <2>3 DEF SdInv, KindIsKnown, Known
<1>12. ASSUME SendScr PROVE SdInv'
  <2>1. PICK out \in Outcomes :
          /\ Exchange("scr", out)
          /\ InitFails \/ (pc' \in {resume, "width"} /\ UNCHANGED res)
    BY <1>12 DEF SendScr
  <2>2. pc = "scr" /\ UNCHANGED <<call, at, platter, buf, moved, resume, sdhc>>
    BY <1>12 DEF SendScr, callVars
  <2>3. pc \in Known
    BY <2>2 DEF Known
  <2> QED BY <1>8, <2>1, <2>2, <2>3 DEF SdInv, KindIsKnown, Known
<1>13. ASSUME SetBusWidth PROVE SdInv'
  <2>1. PICK out \in Outcomes : Exchange("width", out)
    BY <1>13 DEF SetBusWidth
  <2>2. /\ pc = "width" /\ pc' = resume
        /\ UNCHANGED <<call, at, platter, buf, moved, resume, sdhc, blockSize, res>>
    BY <1>13 DEF SetBusWidth, callVars
  <2>3. pc \in Known
    BY <2>2 DEF Known
  <2> QED BY <1>8, <2>1, <2>2, <2>3 DEF SdInv, KindIsKnown
<1> QED
  BY <1>1, <1>2, <1>3, <1>4, <1>5, <1>6, <1>7, <1>9, <1>10, <1>11, <1>12, <1>13
  DEF CardReset

-----------------------------------------------------------------------------
(* EnsureDataMode and the transfer. *)

\* A step to or between the commands of EnsureDataMode.
LEMMA ModeKeeps ==
  ASSUME SdInv, pc \in {"status", "select", "stop", "recheck"},
         SendStatus \/ BackToTransfer \/ Recheck
  PROVE  SdInv'
<1>1. PICK out \in Outcomes : Exchange(pc, out)
  BY DEF SendStatus, BackToTransfer, Recheck
<1>2. UNCHANGED <<call, at, platter, buf, moved, sdhc, blockSize>>
  BY DEF SendStatus, BackToTransfer, Recheck, callVars
<1>3. /\ card' \in [kind : Cards, state : CardStates,
                    length : {SD_BLOCK_SIZE, 2 * SD_BLOCK_SIZE}, wide : BOOLEAN]
      /\ card'.kind = card.kind
  BY <1>1, ExchangeKeepsCard DEF SdInv
<1>4. \/ ModeFails /\ UNCHANGED resume
      \/ /\ UNCHANGED res
         /\ \/ pc' \in {"data", "select", "stop", "recheck"} /\ UNCHANGED resume
            \/ pc' = "reset" /\ resume' = "recheck"
  BY DEF SendStatus, BackToTransfer, Recheck
<1>5. PcIsWhole'
  BY <1>2, <1>4 DEF SdInv, PcIsWhole, ModeFails, Opening, Known, Moving
<1>6. KindIsKnown' /\ (pc' = "sector" => res' = -1)
  BY <1>2, <1>3, <1>4 DEF SdInv, KindIsKnown, ModeFails, Known
<1> QED BY <1>2, <1>3, <1>5, <1>6, StepKeeps

\* The platter after a write: the sector, and no other.
LEMMA WrittenIsSector ==
  ASSUME CallIsWhole, CardIsWhole, KindIsKnown, blockSize # 0, call.op # "init"
  PROVE  /\ Written = [platter EXCEPT ![Sector] = call.data]
         /\ Written \in [Places -> Data] /\ Written[Sector] = call.data
<1>1. Place(Address(Sector)) = Sector /\ Sector \in Places
  BY PlaceOfSector
<1>2. call.data \in Data
  BY DEF CallIsWhole
<1> QED BY <1>1, <1>2 DEF Written, CardIsWhole

LEMMA TransferKeeps ==
  ASSUME SdInv, DataCommand
  PROVE  SdInv'
<1>1. pc = "data" /\ blockSize # 0 /\ call.op # "init"
  BY DEF SdInv, PcIsWhole, DataCommand, Moving
<1>2. UNCHANGED <<call, at, resume, sdhc, blockSize>>
  BY DEF DataCommand, callVars
<1>3. PICK out \in Outcomes :
        /\ Exchange("data", out)
        /\ \/ AttemptFails /\ platter' \in {platter, Written}
           \/ /\ res' = SD_BLOCK_SIZE /\ pc' = "sector"
              /\ platter' = IF call.op = "write" THEN Written ELSE platter
              /\ buf' = IF call.op = "read" THEN platter[Place(Address(Sector))] ELSE buf
              /\ moved' = moved \cup {Sector}
  BY DEF DataCommand
<1>4. /\ card' \in [kind : Cards, state : CardStates,
                    length : {SD_BLOCK_SIZE, 2 * SD_BLOCK_SIZE}, wide : BOOLEAN]
      /\ card'.kind = card.kind
  BY <1>3, ExchangeKeepsCard DEF SdInv
<1>5. /\ Written \in [Places -> Data] /\ Written[Sector] = call.data
      /\ Place(Address(Sector)) = Sector
  BY <1>1, WrittenIsSector, PlaceOfSector DEF SdInv
<1>6. CallIsWhole' /\ CardIsWhole'
  BY <1>2, <1>3, <1>4, <1>5 DEF SdInv, CallIsWhole, CardIsWhole
<1>7. PcIsWhole' /\ (pc' = "data" \/ pc' = "sector")
  BY <1>1, <1>2, <1>3
  DEF SdInv, PcIsWhole, AttemptFails, ModeFails, Opening, Known, Moving
<1>8. KindIsKnown'
  BY <1>2, <1>4, <1>7 DEF SdInv, KindIsKnown, Known
<1>9. TransferIsTrue'
  <2>1. Sector' = Sector
    BY <1>2 DEF Sector
  <2>2. CASE AttemptFails
    BY <1>1, <2>2 DEF AttemptFails, ModeFails, TransferIsTrue, SD_BLOCK_SIZE
  <2>3. CASE ~AttemptFails
    BY <1>2, <1>3, <1>5, <2>1, <2>3 DEF TransferIsTrue
  <2> QED BY <2>2, <2>3
<1> QED BY <1>6, <1>7, <1>8, <1>9 DEF SdInv

LEMMA NextSd == ASSUME SdInv, [Next]_vars PROVE SdInv'
<1>1. CASE CardReset BY <1>1, ResetKeeps
<1>2. CASE SendStatus \/ BackToTransfer \/ Recheck
  BY <1>2, ModeKeeps DEF SendStatus, BackToTransfer, Recheck
<1>3. CASE NoBlockSize
  <2>1. /\ pc = "data" /\ res' = -1 /\ pc' = "sector"
        /\ UNCHANGED <<call, at, platter, buf, moved, card, resume, sdhc, blockSize>>
    BY <1>3 DEF NoBlockSize, callVars, initVars, cardVars
  <2>2. PcIsWhole' /\ KindIsKnown'
    BY <2>1 DEF SdInv, PcIsWhole, KindIsKnown, Opening, Known, Moving
  <2> QED BY <2>1, <2>2, StepKeeps DEF SdInv, CardIsWhole
<1>4. CASE DataCommand BY <1>4, TransferKeeps
<1>5. CASE SectorDone
  <2>1. /\ pc = "sector" /\ UNCHANGED <<call, platter, moved, card, sdhc, blockSize>>
        /\ \/ pc' = "idle" /\ UNCHANGED <<at, resume, res, buf>>
           \/ at' = at + 1 /\ at + 1 < call.count /\ ToSector
    BY <1>5 DEF SectorDone, cardVars
  <2>2. CallIsWhole' /\ CardIsWhole'
    BY <2>1 DEF SdInv, CallIsWhole, CardIsWhole
  <2>3. PcIsWhole' /\ KindIsKnown' /\ pc' # "sector"
    BY <2>1 DEF SdInv, PcIsWhole, KindIsKnown, ToSector, Opening, Known, Moving
  <2> QED BY <2>2, <2>3 DEF SdInv, TransferIsTrue
<1>6. CASE Begin
  <2>1. PICK op \in {"read", "write"}, s \in Sectors, n \in {1, 2}, d \in Data :
          /\ s + n - 1 \in Sectors
          /\ call' = [op |-> op, from |-> s, count |-> n, data |-> d]
    BY <1>6 DEF Begin
  <2>2. at' = 0 /\ ToSector /\ UNCHANGED <<platter, card, sdhc, blockSize>>
    BY <1>6 DEF Begin, cardVars
  <2>3. \A i \in 0 .. n - 1 : s + i \in Sectors
    <3>1. s \in Nat
      BY SdAssumption
    <3>2. \A i \in 0 .. n - 1 : i = 0 \/ i = n - 1
      OBVIOUS
    <3> QED BY <2>1, <3>1, <3>2
  <2>4. CallIsWhole' /\ CardIsWhole'
    BY <2>1, <2>2, <2>3, SdAssumption DEF SdInv, CallIsWhole, CardIsWhole
  <2>5. PcIsWhole' /\ KindIsKnown' /\ pc' # "sector"
    BY <2>1, <2>2 DEF SdInv, PcIsWhole, KindIsKnown, ToSector, Opening, Known, Moving
  <2> QED BY <2>4, <2>5 DEF SdInv, TransferIsTrue
<1>7. CASE BeginInit
  <2>1. /\ call' = [call EXCEPT !.op = "init"] /\ pc' = "reset" /\ resume' = "idle"
        /\ at' = 0 /\ res' = 0 /\ UNCHANGED <<platter, card, sdhc, blockSize>>
    BY <1>7 DEF BeginInit, cardVars
  <2>2. CallIsWhole' /\ CardIsWhole'
    BY <2>1 DEF SdInv, CallIsWhole, CardIsWhole
  <2>3. PcIsWhole' /\ KindIsKnown' /\ pc' # "sector"
    BY <2>1 DEF SdInv, PcIsWhole, KindIsKnown, Opening, Known, Moving, CallIsWhole
  <2> QED BY <2>2, <2>3 DEF SdInv, TransferIsTrue
<1>8. CASE PowerLost
  <2>1. /\ card' = [card EXCEPT !.state = "idle", !.length = 2 * SD_BLOCK_SIZE,
                                !.wide = FALSE]
        /\ UNCHANGED <<pc, call, at, res, buf, resume, sdhc, blockSize, platter, moved>>
    BY <1>8 DEF PowerLost, callVars, initVars
  <2>2. CardIsWhole' /\ card'.kind = card.kind
    BY <2>1 DEF SdInv, CardIsWhole, CardStates
  <2>3. PcIsWhole' /\ KindIsKnown'
    BY <2>1, <2>2 DEF SdInv, PcIsWhole, KindIsKnown
  <2> QED BY <2>1, <2>2, <2>3, StepKeeps DEF CardIsWhole
<1>9. CASE UNCHANGED vars
  BY <1>9
  DEF vars, callVars, initVars, cardVars, SdInv, CallIsWhole, PcIsWhole, CardIsWhole,
      KindIsKnown, TransferIsTrue, Sector
<1> QED
  BY <1>1, <1>2, <1>3, <1>4, <1>5, <1>6, <1>7, <1>8, <1>9 DEF Next, Driver

\* What the driver calls a success has been moved: the buffer holds what the card
\* has in that sector, or the card what was to be written there, whatever became
\* of the commands before, of the attempts, the resets and the card.
THEOREM TransfersStayTrue == Spec => []TransferIsTrue
<1>1. SdInv => TransferIsTrue
  BY DEF SdInv
<1> QED BY InitSd, NextSd, <1>1, PTL DEF Spec

LEMMA StepKeepsOthers ==
  ASSUME SdInv, [Next]_vars, NEW p \in Places, platter'[p] # platter[p]
  PROVE  call.op = "write" /\ p = Sector
<1>1. platter' # platter
  OBVIOUS
<1>2. DataCommand
  BY <1>1
  DEF Next, Driver, CardReset, ResetController, GoIdle, SendIfCond, IoSetOpCond,
      Inquiry, SdSendOpCond, AllSendCid, SendRelativeAddr, SelectCard, SetBlocklen,
      SendScr, SetBusWidth, Step, SendStatus, BackToTransfer, Recheck, NoBlockSize,
      SectorDone, Begin, BeginInit, PowerLost, vars
<1>3. blockSize # 0 /\ call.op # "init"
  BY <1>2 DEF DataCommand, SdInv, PcIsWhole, Moving
<1>4. call.op = "write" /\ platter' = Written
  BY <1>1, <1>2 DEF DataCommand
<1>5. Written = [platter EXCEPT ![Sector] = call.data]
  BY <1>3, WrittenIsSector DEF SdInv
<1> QED BY <1>4, <1>5 DEF SdInv, CardIsWhole

\* No attempt, wrong address or reset changes a sector but the one that is being
\* written.
THEOREM OthersStayKept == Spec => OthersAreKept
<1>1. SdInv /\ [Next]_vars
      => [\A p \in Places : platter'[p] # platter[p]
                            => call.op = "write" /\ p = Sector]_vars
  BY StepKeepsOthers
<1> QED BY InitSd, NextSd, <1>1, PTL DEF Spec, OthersAreKept

-----------------------------------------------------------------------------
(* The clock. *)

\* The clock of the controller is a multiple of what is asked for, and not too
\* fast to be divided down to it.
ClocksAreMultiples ==
  \A b \in BaseClocks :
    /\ b % SD_CLOCK_ID = 0 /\ b % SD_CLOCK_NORMAL = 0
    /\ b \div SD_CLOCK_ID <= 1024

LEMMA DivisorIsEnough ==
  ASSUME NEW q \in Nat, 1 <= q, q <= 1024
  PROVE  Divisor(q) \in Nat /\ Divisor(q) >= q
<1>1. \E d \in Divisors : d >= q /\ \A e \in Divisors : e >= q => d <= e
  BY DEF Divisors
<1>2. Divisor(q) \in Divisors /\ Divisor(q) >= q
  BY <1>1 DEF Divisor
<1> QED BY <1>2 DEF Divisors

LEMMA QuotientOfMultiple ==
  ASSUME NEW b \in Nat \ {0}, NEW t \in Nat \ {0}, b % t = 0, t <= b
  PROVE  /\ b \div t \in Nat /\ 1 <= b \div t
         /\ b = t * (b \div t)
OBVIOUS

LEMMA DividedDown ==
  ASSUME NEW t \in Nat \ {0}, NEW q \in Nat, NEW d \in Nat, 1 <= q, d >= q
  PROVE  (t * q) \div d \in Int /\ (t * q) \div d <= t
<1>1. t * q <= t * d
  OBVIOUS
<1>2. ASSUME NEW a \in Nat, a <= t * d, NEW e \in Nat \ {0}, e = d
      PROVE  a \div e \in Int /\ a \div e <= t
  <2>1. a = e * (a \div e) + (a % e) /\ a % e >= 0 /\ a \div e \in Int
    OBVIOUS
  <2>2. ASSUME a \div e >= t + 1 PROVE FALSE
    <3>1. e * (a \div e) >= e * (t + 1)
      BY <2>1, <2>2
    <3> QED BY <1>2, <2>1, <3>1
  <2> QED BY <2>1, <2>2
<1> QED BY <1>1, <1>2

LEMMA DividedFits ==
  ASSUME NEW b \in Nat \ {0}, NEW t \in Nat \ {0}, b % t = 0, b \div t <= 1024
  PROVE  Divided(b, t) \in Int /\ Divided(b, t) <= t
<1>1. CASE t <= b
  <2>1. b \div t \in Nat /\ 1 <= b \div t /\ b = t * (b \div t)
    BY <1>1, QuotientOfMultiple
  <2>2. Divisor(b \div t) \in Nat /\ Divisor(b \div t) >= b \div t
    BY <2>1, DivisorIsEnough
  <2>3. Divided(b, t) = b \div Divisor(b \div t)
    BY <1>1, <2>1 DEF Divided
  <2> QED BY <2>1, <2>2, <2>3, DividedDown
<1>2. CASE t > b
  BY <1>2
<1> QED BY <1>1, <1>2

ClockInv == base \in BaseClocks /\ clock \in Int /\ ClockIsAllowed

\* The commands that are sent at the rate of the identification.
Slow == {"cmd0", "cmd8", "cmd5", "inquiry", "acmd41"}

LEMMA NextClock ==
  ASSUME ClocksAreMultiples, SdInv, ClockInv, [Next]_vars
  PROVE  ClockInv'
<1>1. /\ Divided(base, SD_CLOCK_ID) \in Int /\ Divided(base, SD_CLOCK_ID) <= SD_CLOCK_ID
      /\ Divided(base, SD_CLOCK_NORMAL) \in Int
      /\ Divided(base, SD_CLOCK_NORMAL) <= SD_CLOCK_NORMAL
  <2>1. base \in Nat \ {0} /\ base \div SD_CLOCK_NORMAL <= 1024
    BY SdAssumption DEF ClockInv, ClocksAreMultiples, SD_CLOCK_ID, SD_CLOCK_NORMAL
  <2> QED BY <2>1, DividedFits
      DEF ClockInv, ClocksAreMultiples, SD_CLOCK_ID, SD_CLOCK_NORMAL
<1>2. SD_CLOCK_ID = 4 /\ SD_CLOCK_NORMAL = 250
  BY DEF SD_CLOCK_ID, SD_CLOCK_NORMAL
<1>3. ASSUME UNCHANGED <<base, clock>>, pc \in Slow \/ pc' \notin Slow
      PROVE  ClockInv'
  BY <1>2, <1>3 DEF ClockInv, ClockIsAllowed, Slow
<1>4. resume \notin Slow
  BY DEF SdInv, PcIsWhole, Slow
<1>5. CASE ResetController
  <2>1. CASE UNCHANGED initVars /\ InitFails
    BY <1>3, <2>1 DEF initVars, InitFails, Slow
  <2>2. CASE clock' = Divided(base, SD_CLOCK_ID) /\ base' = base
    BY <1>1, <1>2, <2>2 DEF ClockInv, ClockIsAllowed
  <2> QED BY <1>5, <2>1, <2>2 DEF ResetController
<1>6. CASE GoIdle \/ SendIfCond \/ IoSetOpCond \/ Inquiry
  BY <1>3, <1>6 DEF GoIdle, SendIfCond, IoSetOpCond, Inquiry, Step, initVars, Slow
<1>7. CASE SdSendOpCond
  <2>1. CASE UNCHANGED clock
    BY <1>3, <1>7, <2>1 DEF SdSendOpCond, Slow
  <2>2. CASE clock' = Divided(base, SD_CLOCK_NORMAL) /\ pc' = "cmd2"
    BY <1>1, <1>7, <2>2 DEF SdSendOpCond, ClockInv, ClockIsAllowed
  <2> QED BY <1>7, <2>1, <2>2 DEF SdSendOpCond
<1>8. CASE AllSendCid \/ SendRelativeAddr \/ SelectCard \/ SetBlocklen
  BY <1>3, <1>8
  DEF AllSendCid, SendRelativeAddr, SelectCard, SetBlocklen, Step, initVars, InitFails, Slow
<1>9. CASE SendScr \/ SetBusWidth
  BY <1>3, <1>4, <1>9 DEF SendScr, SetBusWidth, InitFails, Slow
<1>10. CASE SendStatus \/ BackToTransfer \/ Recheck
  <2>1. pc' \in {"sector", "data", "select", "stop", "recheck", "reset"}
    BY <1>10 DEF SendStatus, BackToTransfer, Recheck, ModeFails
  <2> QED BY <1>3, <1>10, <2>1 DEF SendStatus, BackToTransfer, Recheck, Slow
<1>11. CASE NoBlockSize \/ DataCommand
  <2>1. pc' \in {"sector", "data"} /\ UNCHANGED <<base, clock>>
    BY <1>11 DEF NoBlockSize, DataCommand, AttemptFails, ModeFails, initVars
  <2> QED BY <1>3, <2>1 DEF Slow
<1>12. CASE SectorDone \/ Begin \/ BeginInit
  <2>1. pc' \in {"idle", "reset", "status"} /\ UNCHANGED <<base, clock>>
    BY <1>12 DEF SectorDone, Begin, BeginInit, ToSector
  <2> QED BY <1>3, <2>1 DEF Slow
<1>13. CASE PowerLost \/ UNCHANGED vars
  BY <1>13 DEF PowerLost, vars, initVars, ClockInv, ClockIsAllowed
<1> QED
  BY <1>5, <1>6, <1>7, <1>8, <1>9, <1>10, <1>11, <1>12, <1>13
  DEF Next, Driver, CardReset

\* With such a clock the card is never clocked faster than it can follow, and what
\* the driver calls a success is one.
THEOREM CardStaysTrue == ClocksAreMultiples => (Spec => []CardIsTrue)
<1>1. Init => ClockInv
  BY SdAssumption DEF Init, ClockInv, ClockIsAllowed, SD_CLOCK_NORMAL
<1>2. SdInv /\ ClockInv => CardIsTrue
  BY DEF SdInv, ClockInv, CardIsTrue
<1>3. ClocksAreMultiples /\ SdInv /\ ClockInv /\ [Next]_vars => ClockInv'
  BY NextClock
<1>4. ASSUME ClocksAreMultiples PROVE Spec => []CardIsTrue
  <2>1. SdInv /\ ClockInv /\ [Next]_vars => ClockInv'
    BY <1>3, <1>4
  <2> QED BY InitSd, NextSd, <1>1, <1>2, <2>1, PTL DEF Spec
<1> QED BY <1>4

=============================================================================
