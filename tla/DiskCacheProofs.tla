--------------------------- MODULE DiskCacheProofs ---------------------------
(* Proofs about DiskCache, for every number of images, slots and faults. *)
EXTENDS DiskCache, TLAPS

-----------------------------------------------------------------------------
(* The inductive invariant. *)

\* Sectors marked valid were filled, sectors marked dirty are valid.
MaskInv ==
  \A k \in Slots :
    /\ slots[k].dirtyMask \subseteq slots[k].validMask
    /\ \A s \in slots[k].validMask : slots[k].data[s] \in SectorData

\* Attached images differ in id and file, and ids are not used again.
IdInv ==
  \A i \in Images : Attached(i) =>
    /\ img[i].id < nextImageId
    /\ \A j \in Images :
         Attached(j) /\ (img[j].id = img[i].id \/ img[j].file = img[i].file) => j = i

\* A chunk in the cache has an owner and is in one of its two ways.
PlaceInv ==
  \A k \in Slots : slots[k].valid =>
    /\ \E i \in Images : Owns(i, k)
    /\ k \in {Ways(slots[k].image, slots[k].chunk)[1],
              Ways(slots[k].image, slots[k].chunk)[2]}

\* What the call in progress knows of its image.
CallInv ==
  /\ call.pc \in {"evict", "evictOther", "serve", "through"} =>
       /\ Within(call.image, call.chunk, call.sector)
       /\ call.op \in {"read", "write"}
       /\ call.op = "write" => call.data \in Data /\ ~img[call.image].readOnly
  /\ call.pc \in {"flushing", "fsync", "close"} => Attached(call.image)
  /\ call.pc = "images" => call.op = "flush"
  /\ call.op = "flush" => \A i \in call.todo : Attached(i)
  /\ call.pc = "open" => ~Attached(call.image) /\ call.op = "attach"
  /\ call.pc # "idle" /\ call.op = "attach" =>
       /\ call.file \in Files
       /\ \A i \in Images : img[i].file # call.file
       /\ nextImageId < MaxAttach

\* No slot holds the chunk the call is about.
Absent ==
  \A k \in Slots : ~Holds(k, img[call.image].id, call.chunk)

\* What the call in progress knows of the slots.
SlotInv ==
  /\ call.pc \in {"evict", "evictOther"} =>
       /\ Dirty(call.cur)
       /\ call.cur \in {Ways(img[call.image].id, call.chunk)[1],
                        Ways(img[call.image].id, call.chunk)[2]}
  /\ call.pc = "evict" =>
       Dirty(OtherWay(img[call.image].id, call.chunk, call.cur))
  /\ call.pc \in {"evict", "evictOther", "through"} => Absent
  /\ call.pc = "serve" =>
       /\ slots[call.cur].image = img[call.image].id
       /\ slots[call.cur].chunk = call.chunk
       /\ call.cur \in {Ways(img[call.image].id, call.chunk)[1],
                        Ways(img[call.image].id, call.chunk)[2]}
       /\ ~slots[call.cur].valid =>
            /\ Absent
            /\ slots[call.cur].validMask = {} /\ slots[call.cur].dirtyMask = {}

\* What does not depend on the call in progress.
StoreInv ==
  /\ MaskInv /\ IdInv /\ PlaceInv /\ OneCopy
  /\ CleanMatchesCard /\ DirtyNeedsSync /\ ReadOnlyStaysClean

IInv == TypeOK /\ StoreInv /\ CallInv /\ SlotInv

-----------------------------------------------------------------------------
(* Types of the operators. *)

LEMMA ConstantTypes ==
  /\ 0 \in Slots /\ 0 \in Ids /\ 0 \in Sectors /\ 0 \in 0 .. MaxFaults
  /\ NoCall \in CallType /\ NoCall.pc = "idle"
  /\ EmptySlot \in SlotType /\ EmptySlot.valid = FALSE
  /\ NewImage \in ImageType /\ NewImage.file = NoFile
<1>1. /\ 0 \in Slots /\ 0 \in Ids /\ 0 \in Sectors /\ 0 \in 0 .. MaxFaults
  BY SizesAssumption DEF Slots, Ids, Sectors
<1>2. (CHOOSE c \in Chunks : TRUE) \in Chunks /\ (CHOOSE i \in Images : TRUE) \in Images
  BY SizesAssumption
<1>3. /\ EmptySlot \in SlotType /\ EmptySlot.valid = FALSE
      /\ EmptySlot.chunk \in Chunks
  BY <1>1, <1>2 DEF EmptySlot, NewSlot, SlotType, NoDataInSectors
<1>4. NoCall \in CallType /\ NoCall.pc = "idle"
  BY <1>1, <1>2, <1>3, SizesAssumption DEF NoCall, CallType
<1>5. NewImage \in ImageType /\ NewImage.file = NoFile
  BY <1>1 DEF NewImage, ImageType
<1> QED BY <1>1, <1>3, <1>4, <1>5

LEMMA NewSlotType ==
  ASSUME NEW id \in Ids, NEW c \in Chunks
  PROVE  NewSlot(id, c) \in SlotType
BY DEF NewSlot, SlotType, NoDataInSectors

LEMMA WaysType ==
  ASSUME NEW id \in Ids, NEW c \in Chunks
  PROVE  /\ Ways(id, c)[1] \in Slots /\ Ways(id, c)[2] \in Slots
         /\ Hits(id, c) \subseteq Slots
         /\ Victim(id, c) \in {Ways(id, c)[1], Ways(id, c)[2]}
         /\ \A k : OtherWay(id, c, k) \in {Ways(id, c)[1], Ways(id, c)[2]}
<1>1. Hash[id][c] \in Slots
  BY HashAssumption
<1>2. (Hash[id][c] + 1) % NumSlots \in Slots
  BY <1>1, SizesAssumption DEF Slots
<1> QED BY <1>1, <1>2 DEF Ways, Hits, Victim, OtherWay

LEMMA WholeType ==
  ASSUME NEW v \in CardData PROVE Whole(v) \in SectorData
BY DEF CardData, SectorData, Short, Whole

\* Data that fills its sector is read as it is.
LEMMA WholeData ==
  ASSUME NEW v \in SectorData PROVE Whole(v) = v
BY DataAssumption DEF Whole, Short

LEMMA ClipType ==
  ASSUME NEW v PROVE Clip(v) \in CardData
BY DEF Clip, CardData, Short

LEMMA ReplyTypes ==
  Ok \in ReplyType /\ Error \in ReplyType /\ NoReply \in ReplyType
BY DEF Error, NoReply, Ok, Said, ReplyType

\* Every access has a reply of its type.
LEMMA AnswerType ==
  ASSUME TypeOK, NEW frame, frame.op \in {"read", "medium", "write"},
         frame.image \in Images, frame.chunk \in Chunks, frame.sector \in Sectors,
         NEW res \in {"ok", "error"}, NEW d \in SectorData \union {NoData}
  PROVE  Answer(frame, res, d) \in ReplyType
BY DEF Answer, ReplyType, TypeOK, ImageType, Addresses

LEMMA RefusalType ==
  ASSUME TypeOK, NEW frame, frame.op \in {"read", "medium", "write"},
         frame.image \in Images, frame.chunk \in Chunks, frame.sector \in Sectors
  PROVE  Refusal(frame) \in ReplyType
BY AnswerType DEF Refusal

LEMMA FindSlotType ==
  ASSUME TypeOK, NEW frame \in CallType, FindSlot(frame)
  PROVE  slots' \in [Slots -> SlotType] /\ call' \in CallType
<1> DEFINE id == img[frame.image].id
           c == frame.chunk
           v == Victim(id, c)
<1>1. id \in Ids /\ c \in Chunks
  BY DEF TypeOK, ImageType, CallType
<1>2. \A k \in Slots, pc \in {"serve", "evict"} :
        [frame EXCEPT !.pc = pc, !.cur = k] \in CallType
  BY DEF CallType
<1>3. v \in Slots /\ Hits(id, c) \subseteq Slots /\ NewSlot(id, c) \in SlotType
  BY <1>1, NewSlotType, WaysType
<1>4. slots \in [Slots -> SlotType]
  BY DEF TypeOK
<1>5. CASE \E k \in Hits(id, c) :
             /\ call' = [frame EXCEPT !.pc = "serve", !.cur = k]
             /\ UNCHANGED slots
  BY <1>2, <1>3, <1>4, <1>5
<1>6. CASE /\ slots' = [slots EXCEPT ![v] = NewSlot(id, c)]
           /\ call' = [frame EXCEPT !.pc = "serve", !.cur = v]
  BY <1>2, <1>3, <1>4, <1>6
<1>7. CASE /\ call' = [frame EXCEPT !.pc = "evict", !.cur = v]
           /\ UNCHANGED slots
  BY <1>2, <1>3, <1>4, <1>7
<1> QED BY <1>5, <1>6, <1>7 DEF FindSlot

\* Where the sizes of the files are.
GrowthType == growth \in [Files -> {"saved", "window", "fil"}]

LEMMA CardWriteType ==
  ASSUME TypeOK, NEW f \in Files, NEW c \in Chunks, NEW run \in SUBSET Sectors,
         NEW data \in [Sectors -> SectorData \union {NoData}],
         \A s \in run : data[s] \in SectorData,
         Written(f, c, run, data)
  PROVE  /\ card' \in [Files -> [Chunks -> [Sectors -> CardData]]]
         /\ GrowthType'
<1>1. [s \in Sectors |-> IF s \in run THEN data[s] ELSE card[f][c][s]]
        \in [Sectors -> CardData]
  BY DEF TypeOK, CardData
<1>2. GrowthType'
  BY DEF Written, TypeOK, GrowthType
<1> QED BY <1>1, <1>2 DEF Written, TypeOK

\* A file that is cut to the size in its directory entry.
LEMMA ShortenedType ==
  ASSUME TypeOK, NEW f \in Files
  PROVE  Shortened(f) \in [Chunks -> [Sectors -> CardData]]
BY ClipType DEF Shortened, TypeOK

LEMMA SyncedType ==
  ASSUME TypeOK, NEW i \in Images, NEW inWindow \in BOOLEAN
  PROVE  /\ Synced(i) \in [Files -> {"saved", "window", "fil"}]
         /\ Unsynced(i, inWindow) \in [Files -> {"saved", "window", "fil"}]
BY DEF Synced, Unsynced, TypeOK

-----------------------------------------------------------------------------
(* How the store is disturbed. *)

\* Every image keeps its file and a needSync that is set.
SameImages ==
  \A i \in Images :
    /\ img'[i].file = img[i].file /\ img'[i].id = img[i].id
    /\ img'[i].readOnly = img[i].readOnly
    /\ img[i].needSync => img'[i].needSync

LEMMA StoreUntouched ==
  ASSUME StoreInv, UNCHANGED <<card, slots, nextImageId>>, SameImages
  PROVE  StoreInv'
<1> USE DEF SameImages, Attached, Owns, Dirty
<1>1. MaskInv' BY DEF StoreInv, MaskInv
<1>2. IdInv' BY DEF StoreInv, IdInv
<1>3. PlaceInv' BY DEF StoreInv, PlaceInv, Ways
<1>4. OneCopy' BY DEF StoreInv, OneCopy
<1>5. CleanMatchesCard' BY DEF StoreInv, CleanMatchesCard
<1>6. DirtyNeedsSync' BY DEF StoreInv, DirtyNeedsSync
<1>7. ReadOnlyStaysClean' BY DEF StoreInv, ReadOnlyStaysClean
<1> QED BY <1>1, <1>2, <1>3, <1>4, <1>5, <1>6, <1>7 DEF StoreInv

\* A slot is taken away from its chunk.
LEMMA SlotDropped ==
  ASSUME TypeOK, StoreInv, NEW k \in Slots, NEW new \in SlotType,
         ~new.valid, new.validMask = {}, new.dirtyMask = {},
         slots' = [slots EXCEPT ![k] = new],
         UNCHANGED <<card, nextImageId>>, SameImages
  PROVE  StoreInv'
<1> USE DEF SameImages, Attached, Owns, Dirty
<1>1. /\ slots'[k] = new
      /\ \A j \in Slots : j # k => slots'[j] = slots[j]
  BY DEF TypeOK
<1>2. MaskInv' BY <1>1 DEF StoreInv, MaskInv
<1>3. IdInv' BY DEF StoreInv, IdInv
<1>4. PlaceInv' BY <1>1 DEF StoreInv, PlaceInv, Ways
<1>5. OneCopy' BY <1>1 DEF StoreInv, OneCopy
<1>6. CleanMatchesCard' BY <1>1 DEF StoreInv, CleanMatchesCard
<1>7. DirtyNeedsSync' BY <1>1 DEF StoreInv, DirtyNeedsSync
<1>8. ReadOnlyStaysClean' BY <1>1 DEF StoreInv, ReadOnlyStaysClean
<1> QED BY <1>2, <1>3, <1>4, <1>5, <1>6, <1>7, <1>8 DEF StoreInv

\* Outside the sectors of run in chunk c of file f the card is unchanged.
CardSameBut(f, c, run) ==
  \A g \in Files, d \in Chunks, s \in Sectors :
    ~(g = f /\ d = c /\ s \in run) => card'[g][d][s] = card[g][d][s]

\* Whatever happens to dirty sectors of a chunk on the card, clean sectors are
\* as the card has them.
LEMMA CleanKept ==
  ASSUME TypeOK, StoreInv, NEW i \in Images, NEW k \in Slots,
         slots[k].valid, Owns(i, k),
         CardSameBut(img[i].file, slots[k].chunk, slots[k].dirtyMask)
  PROVE  \A m \in Slots, j \in Images : slots[m].valid /\ Owns(j, m) =>
           \A s \in slots[m].validMask \ slots[m].dirtyMask :
             slots[m].data[s] = Whole(card'[img[j].file][slots[m].chunk][s])
<1> SUFFICES ASSUME NEW m \in Slots, NEW j \in Images, slots[m].valid, Owns(j, m),
                    NEW s \in slots[m].validMask \ slots[m].dirtyMask
             PROVE  card'[img[j].file][slots[m].chunk][s]
                      = card[img[j].file][slots[m].chunk][s]
  BY DEF StoreInv, CleanMatchesCard
<1>1. /\ img[j].file \in Files /\ slots[m].chunk \in Chunks /\ s \in Sectors
      /\ img[i].file \in Files
  BY DEF TypeOK, ImageType, SlotType, Owns, Attached
<1>2. CASE img[j].file = img[i].file /\ slots[m].chunk = slots[k].chunk
  <2>1. j = i
    BY <1>2 DEF Owns, StoreInv, IdInv
  <2>2. m = k
    BY <1>2, <2>1 DEF Owns, StoreInv, OneCopy
  <2> QED BY <1>1, <2>2 DEF CardSameBut
<1>3. CASE ~(img[j].file = img[i].file /\ slots[m].chunk = slots[k].chunk)
  BY <1>1, <1>3 DEF CardSameBut
<1> QED BY <1>2, <1>3

\* A run of dirty sectors of slot k went to the card, whole or in part; slot k
\* becomes new: unchanged, with fewer dirty sectors, or taken from its chunk.
LEMMA RunStored ==
  ASSUME TypeOK, StoreInv, NEW i \in Images, NEW k \in Slots, NEW new \in SlotType,
         Dirty(k), Owns(i, k),
         CardSameBut(img[i].file, slots[k].chunk, slots[k].dirtyMask),
         slots' = [slots EXCEPT ![k] = new],
         new.valid =>
           /\ new.image = slots[k].image /\ new.chunk = slots[k].chunk
           /\ new.validMask = slots[k].validMask /\ new.data = slots[k].data
           /\ new.dirtyMask \subseteq slots[k].dirtyMask
           /\ \A s \in slots[k].dirtyMask \ new.dirtyMask :
                card'[img[i].file][slots[k].chunk][s] = slots[k].data[s],
         ~new.valid => new.validMask = {} /\ new.dirtyMask = {},
         UNCHANGED nextImageId, SameImages
  PROVE  StoreInv'
<1> USE DEF SameImages, Attached, Owns, Dirty
<1>1. /\ slots'[k] = new
      /\ \A j \in Slots : j # k => slots'[j] = slots[j]
  BY DEF TypeOK
<1>2. \A m \in Slots, j \in Images : slots[m].valid /\ Owns(j, m) =>
        \A s \in slots[m].validMask \ slots[m].dirtyMask :
          slots[m].data[s] = Whole(card'[img[j].file][slots[m].chunk][s])
  BY CleanKept
<1>3. MaskInv' BY <1>1 DEF StoreInv, MaskInv
<1>4. IdInv' BY DEF StoreInv, IdInv
<1>5. PlaceInv' BY <1>1 DEF StoreInv, PlaceInv, Ways
<1>6. OneCopy' BY <1>1 DEF StoreInv, OneCopy
<1>7. CleanMatchesCard'
  <2> SUFFICES ASSUME NEW m \in Slots, NEW j \in Images,
                      slots'[m].valid, Owns(j, m)',
                      NEW s \in slots'[m].validMask \ slots'[m].dirtyMask
               PROVE  slots'[m].data[s]
                        = Whole(card'[img'[j].file][slots'[m].chunk][s])
    BY DEF CleanMatchesCard
  <2>1. CASE m # k \/ s \notin slots[k].dirtyMask
    BY <1>1, <1>2, <2>1
  <2>2. CASE m = k /\ s \in slots[k].dirtyMask
    <3>1. j = i
      BY <1>1, <2>2 DEF StoreInv, IdInv
    <3>2. slots[k].data[s] \in SectorData
      BY <2>2 DEF StoreInv, MaskInv
    <3>3. Whole(slots[k].data[s]) = slots[k].data[s]
      BY <3>2, WholeData
    <3> QED BY <1>1, <2>2, <3>1, <3>3
  <2> QED BY <2>1, <2>2
<1>8. DirtyNeedsSync' BY <1>1 DEF StoreInv, DirtyNeedsSync
<1>9. ReadOnlyStaysClean' BY <1>1 DEF StoreInv, ReadOnlyStaysClean
<1> QED BY <1>3, <1>4, <1>5, <1>6, <1>7, <1>8, <1>9 DEF StoreInv

\* A failing f_write reaches nothing but its own sectors.
LEMMA WriteFailsType ==
  ASSUME TypeOK, NEW i \in Images, Attached(i), NEW c \in Chunks,
         NEW run \in SUBSET Sectors, NEW hard \in BOOLEAN,
         NEW data \in [Sectors -> SectorData \union {NoData}],
         \A s \in run : data[s] \in SectorData,
         WriteFails(i, c, run, data, hard)
  PROVE  /\ card' \in [Files -> [Chunks -> [Sectors -> CardData]]]
         /\ faults' \in 0 .. MaxFaults /\ GrowthType'
         /\ CardSameBut(img[i].file, c, run)
<1>1. img[i].file \in Files
  BY DEF TypeOK, ImageType, Attached
<1>2. faults' \in 0 .. MaxFaults /\ GrowthType'
  BY SizesAssumption DEF WriteFails, Fault, TypeOK, GrowthType
<1>3. CASE UNCHANGED card
  BY <1>2, <1>3 DEF TypeOK, CardSameBut
<1>4. CASE ~ UNCHANGED card
  <2> DEFINE old == card[img[i].file][c]
             Mix(arrived, damaged) ==
               [s \in Sectors |-> IF s \in damaged THEN Arrived(old[s], Torn)
                                  ELSE IF s \in arrived THEN Arrived(old[s], data[s])
                                  ELSE old[s]]
  <2>1. PICK arrived \in SUBSET run, damaged \in SUBSET run :
          card' = [card EXCEPT ![img[i].file][c] = Mix(arrived, damaged)]
    BY <1>1, <1>4 DEF WriteFails, TypeOK
  <2> DEFINE new == Mix(arrived, damaged)
  <2>2. new \in [Sectors -> CardData]
    <3>1. \A v, w : w \in SectorData => Arrived(v, w) \in CardData
      BY ClipType DEF Arrived, CardData
    <3>2. Torn \in SectorData /\ \A s \in Sectors : old[s] \in CardData
      BY <1>1 DEF TypeOK, SectorData
    <3> QED BY <3>1, <3>2
  <2>3. card' = [card EXCEPT ![img[i].file][c] = new]
    BY <2>1
  <2>4. \A s \in Sectors : s \notin run => new[s] = card[img[i].file][c][s]
    BY <2>1
  <2> HIDE DEF new
  <2>5. card' \in [Files -> [Chunks -> [Sectors -> CardData]]]
    BY <1>1, <2>2, <2>3 DEF TypeOK
  <2>6. CardSameBut(img[i].file, c, run)
    BY <1>1, <2>3, <2>4 DEF CardSameBut, TypeOK
  <2> QED BY <1>2, <2>5, <2>6
<1> QED BY <1>3, <1>4

LEMMA WrittenSameBut ==
  ASSUME TypeOK, NEW f \in Files, NEW c \in Chunks, NEW run \in SUBSET Sectors,
         NEW data \in [Sectors -> SectorData \union {NoData}],
         Written(f, c, run, data)
  PROVE  /\ CardSameBut(f, c, run)
         /\ \A s \in run : card'[f][c][s] = data[s]
BY DEF Written, CardSameBut, TypeOK

\* The run of a dirty slot.
LEMMA FirstRunType ==
  ASSUME NEW mask \in SUBSET Sectors
  PROVE  FirstRun(mask) \subseteq mask
BY DEF FirstRun

-----------------------------------------------------------------------------
(* Every action keeps the invariant: the calls. *)

LEMMA FindSlotKeeps ==
  ASSUME IInv, NEW frame \in CallType, FindSlot(frame),
         Within(frame.image, frame.chunk, frame.sector), frame.op \in {"read", "write"},
         frame.op = "write" => frame.data \in Data /\ ~img[frame.image].readOnly,
         UNCHANGED <<card, img, nextImageId>>
  PROVE  StoreInv' /\ CallInv' /\ SlotInv'
<1> USE DEF IInv
<1> DEFINE id == img[frame.image].id
           c == frame.chunk
           v == Victim(id, c)
           ways == {Ways(id, c)[1], Ways(id, c)[2]}
<1>1. id \in Ids /\ c \in Chunks /\ frame.image \in Images
  BY DEF TypeOK, ImageType, CallType
<1>2. /\ ways \subseteq Slots /\ v \in ways /\ Hits(id, c) \subseteq Slots
      /\ NewSlot(id, c) \in SlotType
  BY <1>1, WaysType, NewSlotType
<1>3. SameImages
  BY DEF SameImages
<1>4. CASE \E k \in Hits(id, c) :
             /\ call' = [frame EXCEPT !.pc = "serve", !.cur = k]
             /\ UNCHANGED slots
  <2>1. PICK k \in Hits(id, c) :
             /\ call' = [frame EXCEPT !.pc = "serve", !.cur = k]
             /\ UNCHANGED slots
    BY <1>4
  <2>2. /\ call'.pc = "serve" /\ call'.op = frame.op /\ call'.image = frame.image
        /\ call'.chunk = c /\ call'.cur = k /\ call'.data = frame.data
        /\ call'.sector = frame.sector
    BY <2>1 DEF CallType
  <2>3. StoreInv'
    BY <1>3, <2>1, StoreUntouched
  <2>4. CallInv'
    BY <2>2 DEF CallInv, Within, Attached
  <2>5. k \in ways /\ slots[k].valid /\ slots[k].image = id /\ slots[k].chunk = c
    BY DEF Hits, Holds
  <2>6. SlotInv'
    BY <2>1, <2>2, <2>5 DEF SlotInv, Ways
  <2> QED BY <2>3, <2>4, <2>6
<1>5. Hits(id, c) = {} => \A k \in Slots : ~Holds(k, id, c)
  BY DEF Hits, Holds, StoreInv, PlaceInv
<1>6. CASE /\ Hits(id, c) = {} /\ ~Dirty(v)
           /\ slots' = [slots EXCEPT ![v] = NewSlot(id, c)]
           /\ call' = [frame EXCEPT !.pc = "serve", !.cur = v]
  <2>1. /\ call'.pc = "serve" /\ call'.op = frame.op /\ call'.image = frame.image
        /\ call'.chunk = c /\ call'.cur = v /\ call'.data = frame.data
        /\ call'.sector = frame.sector
    BY <1>6 DEF CallType
  <2>2. StoreInv'
    BY <1>2, <1>3, <1>6, SlotDropped DEF NewSlot
  <2>3. CallInv'
    BY <2>1 DEF CallInv, Within, Attached
  <2>4. /\ slots'[v] = NewSlot(id, c)
        /\ \A k \in Slots : k # v => slots'[k] = slots[k]
    BY <1>2, <1>6 DEF TypeOK
  <2>5. Absent'
    BY <1>5, <1>6, <2>1, <2>4 DEF Absent, Holds, NewSlot
  <2>6. SlotInv'
    <3>1. Ways(img[call.image].id, call.chunk)' = Ways(id, c)
      BY <2>1 DEF Ways
    <3>2. /\ slots'[v].image = id /\ slots'[v].chunk = c
          /\ slots'[v].validMask = {} /\ slots'[v].dirtyMask = {}
      BY <2>4 DEF NewSlot
    <3>3. img'[call'.image].id = id
      BY <2>1
    <3> HIDE DEF id, c, v
    <3>4. v \in {Ways(id, c)[1], Ways(id, c)[2]}
      BY <1>2
    <3> QED BY <2>1, <2>5, <3>1, <3>2, <3>3, <3>4 DEF SlotInv
  <2> QED BY <2>2, <2>3, <2>6
<1>7. CASE /\ Hits(id, c) = {} /\ Dirty(v)
           /\ call' = [frame EXCEPT !.pc = "evict", !.cur = v]
           /\ UNCHANGED slots
  <2>1. /\ call'.pc = "evict" /\ call'.op = frame.op /\ call'.image = frame.image
        /\ call'.chunk = c /\ call'.cur = v /\ call'.data = frame.data
        /\ call'.sector = frame.sector
    BY <1>7 DEF CallType
  <2>2. StoreInv'
    BY <1>3, <1>7, StoreUntouched
  <2>3. CallInv'
    BY <2>1 DEF CallInv, Within, Attached
  <2>4. Dirty(OtherWay(id, c, v))
    BY <1>7 DEF Victim, Dirty, OtherWay
  <2>5. Absent'
    BY <1>5, <1>7, <2>1 DEF Absent, Holds
  <2>6. SlotInv'
    BY ZenonT(60), <1>2, <1>7, <2>1, <2>4, <2>5 DEF SlotInv, Dirty, OtherWay, Ways
  <2> QED BY <2>2, <2>3, <2>6
<1> QED BY <1>4, <1>6, <1>7 DEF FindSlot

\* A call that returns leaves nothing to say about it.
LEMMA Returned ==
  ASSUME NEW r \in ReplyType, Return(r)
  PROVE  call' \in CallType /\ reply' \in ReplyType /\ CallInv' /\ SlotInv'
<1>1. /\ call'.pc = "idle" /\ call'.op = "none"
      /\ call' \in CallType /\ reply' \in ReplyType
  BY ConstantTypes DEF Return, NoCall
<1> QED BY <1>1 DEF CallInv, SlotInv

\* A call that returns without touching the cache or the card.
LEMMA ReturnKeeps ==
  ASSUME IInv, NEW r \in ReplyType, Return(r),
         UNCHANGED <<card, growth, slots, nextImageId>>,
         img' \in [Images -> ImageType], faults' \in 0 .. MaxFaults, SameImages
  PROVE  IInv'
BY Returned, StoreUntouched DEF IInv, TypeOK

LEMMA FrameType ==
  ASSUME NEW op \in {"read", "write"}, NEW i \in Images, NEW c \in Chunks,
         NEW s \in Sectors
  PROVE  /\ Frame(op, i, c, s) \in CallType
         /\ Frame(op, i, c, s).op = op /\ Frame(op, i, c, s).image = i
         /\ Frame(op, i, c, s).chunk = c /\ Frame(op, i, c, s).sector = s
BY ConstantTypes DEF Frame, CallType

LEMMA ReadSectorKeeps ==
  ASSUME IInv, NEW i \in Images, NEW c \in Chunks, NEW s \in Sectors,
         ReadSector(i, c, s)
  PROVE  IInv'
<1>1. SameImages /\ img' \in [Images -> ImageType] /\ faults' \in 0 .. MaxFaults
  BY DEF ReadSector, SameImages, IInv, TypeOK
<1>2. /\ Refusal(Frame("read", i, c, s)) \in ReplyType
      /\ Answer(Frame("read", i, c, s), "ok", Zero) \in ReplyType
  BY FrameType, AnswerType, RefusalType DEF IInv, SectorData
<1>3. CASE \E r \in ReplyType : Return(r) /\ UNCHANGED slots
  BY <1>1, <1>3, ReturnKeeps DEF ReadSector
<1>4. CASE Within(i, c, s) /\ FindSlot(Frame("read", i, c, s)) /\ reply' = NoReply
  <2> DEFINE frame == Frame("read", i, c, s)
  <2>1. /\ frame \in CallType /\ frame.op = "read" /\ frame.image = i
        /\ frame.chunk = c /\ frame.sector = s
    BY FrameType
  <2>2. FindSlot(frame) /\ Within(frame.image, frame.chunk, frame.sector)
    BY <1>4, <2>1
  <2> HIDE DEF frame
  <2>3. StoreInv' /\ CallInv' /\ SlotInv'
    BY <2>1, <2>2, FindSlotKeeps DEF ReadSector
  <2>4. slots' \in [Slots -> SlotType] /\ call' \in CallType
    BY <2>1, <2>2, FindSlotType DEF IInv
  <2> QED BY <1>1, <1>4, <2>3, <2>4, ReplyTypes DEF ReadSector, IInv, TypeOK
<1> QED BY <1>2, <1>3, <1>4 DEF ReadSector

LEMMA WriteSectorKeeps ==
  ASSUME IInv, NEW i \in Images, NEW c \in Chunks, NEW s \in Sectors,
         NEW d \in Data, WriteSector(i, c, s, d)
  PROVE  IInv'
<1>1. SameImages /\ img' \in [Images -> ImageType] /\ faults' \in 0 .. MaxFaults
  BY DEF WriteSector, SameImages, IInv, TypeOK
<1>2. CASE Return(Refusal(Frame("write", i, c, s))) /\ UNCHANGED slots
  <2>1. Refusal(Frame("write", i, c, s)) \in ReplyType
    BY FrameType, RefusalType DEF IInv
  <2> QED BY <1>1, <1>2, <2>1, ReturnKeeps DEF WriteSector
<1>3. CASE /\ Within(i, c, s) /\ ~img[i].readOnly
           /\ FindSlot([Frame("write", i, c, s) EXCEPT !.data = d])
           /\ reply' = NoReply
  <2> DEFINE frame == [Frame("write", i, c, s) EXCEPT !.data = d]
  <2>1. /\ frame \in CallType /\ frame.op = "write" /\ frame.image = i
        /\ frame.data = d /\ frame.chunk = c /\ frame.sector = s
    BY FrameType DEF CallType
  <2>2. /\ FindSlot(frame) /\ Within(frame.image, frame.chunk, frame.sector)
        /\ ~img[frame.image].readOnly
    BY <1>3, <2>1
  <2> HIDE DEF frame
  <2>3. StoreInv' /\ CallInv' /\ SlotInv'
    BY <2>1, <2>2, FindSlotKeeps DEF WriteSector
  <2>4. slots' \in [Slots -> SlotType] /\ call' \in CallType
    BY <2>1, <2>2, FindSlotType DEF IInv
  <2> QED BY <1>1, <1>3, <2>3, <2>4, ReplyTypes DEF WriteSector, IInv, TypeOK
<1> QED BY <1>2, <1>3 DEF WriteSector

LEMMA FaultType ==
  ASSUME TypeOK, NEW i \in Images, Fault(i)
  PROVE  faults' \in 0 .. MaxFaults
BY SizesAssumption DEF TypeOK, Fault

\* A disk error sets the error flag of the FIL.
LEMMA ErrSet ==
  ASSUME TypeOK, NEW i \in Images, img' = [img EXCEPT ![i].err = TRUE]
  PROVE  img' \in [Images -> ImageType] /\ SameImages
BY ZenonT(60) DEF TypeOK, ImageType, SameImages

LEMMA SectorOnCard ==
  ASSUME TypeOK, NEW i \in Images, Attached(i), NEW c \in Chunks, NEW s \in Sectors
  PROVE  /\ img[i].file \in Files
         /\ card[img[i].file][c][s] \in CardData
         /\ Whole(card[img[i].file][c][s]) \in SectorData
BY WholeType DEF TypeOK, ImageType, Attached

LEMMA ReadCardKeeps ==
  ASSUME IInv, NEW frame, frame.op \in {"read", "medium"}, frame.image \in Images,
         frame.chunk \in Chunks, frame.sector \in Sectors, Attached(frame.image),
         ReadCard(frame), UNCHANGED <<card, growth, slots, nextImageId>>
  PROVE  IInv'
<1> USE DEF IInv
<1> DEFINE v == card[img[frame.image].file][frame.chunk][frame.sector]
<1>1. v \in CardData
  BY SectorOnCard
<1>2. Refusal(frame) \in ReplyType
  BY RefusalType
<1>3. v \notin Short => Answer(frame, "ok", v) \in ReplyType
  BY <1>1, AnswerType DEF CardData
<1>4. CASE /\ Return(IF v \in Short THEN Refusal(frame) ELSE Answer(frame, "ok", v))
           /\ UNCHANGED <<img, faults>>
  BY <1>2, <1>3, <1>4, ReturnKeeps DEF SameImages, TypeOK
<1>5. CASE /\ Fault(frame.image) /\ img' = [img EXCEPT ![frame.image].err = TRUE]
           /\ Return(Refusal(frame))
  BY <1>2, <1>5, FaultType, ErrSet, ReturnKeeps
<1> QED BY <1>4, <1>5 DEF ReadCard

LEMMA MediumFrame ==
  ASSUME NEW op, NEW i \in Images, NEW c \in Chunks, NEW s \in Sectors
  PROVE  /\ Frame(op, i, c, s).op = op /\ Frame(op, i, c, s).image = i
         /\ Frame(op, i, c, s).chunk = c /\ Frame(op, i, c, s).sector = s
BY DEF Frame, NoCall

LEMMA ReadUncachedKeeps ==
  ASSUME IInv, NEW i \in Images, NEW c \in Chunks, NEW s \in Sectors,
         ReadSectorUncached(i, c, s) \/ ReadSectorPhysical(i, c, s)
  PROVE  IInv'
<1> USE DEF IInv
<1>1. UNCHANGED <<card, growth, slots, nextImageId>>
  BY DEF ReadSectorUncached, ReadSectorPhysical
<1>2. CASE \E r \in ReplyType : Return(r) /\ UNCHANGED <<img, faults>>
  BY <1>1, <1>2, ReturnKeeps DEF SameImages, TypeOK
<1>3. CASE ReadSectorUncached(i, c, s)
  <2> DEFINE frame == Frame("read", i, c, s)
  <2>1. /\ frame.op = "read" /\ frame.image = i
        /\ frame.chunk = c /\ frame.sector = s
    BY MediumFrame
  <2> HIDE DEF frame
  <2>2. Refusal(frame) \in ReplyType /\ Answer(frame, "ok", Zero) \in ReplyType
    BY <2>1, AnswerType, RefusalType DEF SectorData
  <2>3. ASSUME Within(i, c, s), NEW k \in Hits(img[i].id, c), s \in slots[k].validMask
        PROVE  Answer(frame, "ok", slots[k].data[s]) \in ReplyType
    <3>1. k \in Slots
      BY WaysType DEF TypeOK, ImageType
    <3>2. slots[k].data[s] \in SectorData
      BY <2>3, <3>1 DEF StoreInv, MaskInv
    <3> QED BY <2>1, <3>2, AnswerType
  <2>4. CASE Within(i, c, s) /\ ReadCard(frame)
    BY <1>1, <2>1, <2>4, ReadCardKeeps DEF Within
  <2>5. CASE /\ Within(i, c, s) /\ UNCHANGED <<img, faults>>
             /\ \E k \in Hits(img[i].id, c) :
                  s \in slots[k].validMask /\ Return(Answer(frame, "ok", slots[k].data[s]))
    BY <1>2, <2>3, <2>5
  <2> QED BY <1>2, <1>3, <2>2, <2>4, <2>5 DEF ReadSectorUncached, frame
<1>4. CASE ReadSectorPhysical(i, c, s)
  <2> DEFINE frame == Frame("medium", i, c, s)
  <2>1. /\ frame.op = "medium" /\ frame.image = i
        /\ frame.chunk = c /\ frame.sector = s
    BY MediumFrame
  <2> HIDE DEF frame
  <2>2. Refusal(frame) \in ReplyType
    BY <2>1, RefusalType
  <2>3. CASE Within(i, c, s) /\ ReadCard(frame)
    BY <1>1, <2>1, <2>3, ReadCardKeeps DEF Within
  <2> QED BY <1>2, <1>4, <2>2, <2>3 DEF ReadSectorPhysical, frame
<1> QED BY <1>3, <1>4

\* A call that is made, or goes on, without touching the cache or the card.
LEMMA CallKeeps ==
  ASSUME IInv, UNCHANGED <<card, growth, slots, nextImageId>>, SameImages,
         img' \in [Images -> ImageType], reply' \in ReplyType,
         faults' \in 0 .. MaxFaults,
         call' \in CallType, CallInv', SlotInv'
  PROVE  IInv'
BY StoreUntouched DEF IInv, TypeOK

LEMMA FlushSomeKeeps ==
  ASSUME IInv, NEW budget \in BOOLEAN, FlushSome(budget)
  PROVE  IInv'
<1> USE DEF FlushSome, IInv
<1>1. call' \in CallType /\ call'.pc = "images" /\ call'.op = "flush"
      /\ \A i \in call'.todo : Attached(i)
  BY ConstantTypes DEF CallType
<1>2. CallInv' /\ SlotInv'
  BY <1>1 DEF CallInv, SlotInv, Attached
<1> QED BY <1>1, <1>2, CallKeeps, ReplyTypes DEF TypeOK, SameImages

LEMMA SyncImageKeeps ==
  ASSUME IInv, NEW i \in Images, SyncImage(i)
  PROVE  IInv'
<1> USE DEF SyncImage, IInv
<1>1. SameImages /\ img' \in [Images -> ImageType] /\ faults' \in 0 .. MaxFaults
  BY DEF SameImages, TypeOK
<1>2. CASE Return(Ok)
  BY <1>1, <1>2, ReturnKeeps, ReplyTypes
<1>3. CASE ~Return(Ok)
  <2>1. /\ call' \in CallType /\ call'.pc = "flushing" /\ call'.op = "sync"
        /\ call'.image = i /\ Attached(i)
    BY ZenonT(60), <1>3, ConstantTypes DEF CallType
  <2>2. CallInv' /\ SlotInv'
    BY <2>1 DEF CallInv, SlotInv, Attached
  <2> QED BY <1>1, <1>3, <2>1, <2>2, CallKeeps, ReplyTypes
<1> QED BY <1>2, <1>3

LEMMA DetachFrameType ==
  ASSUME NEW frame \in CallType, NEW i \in Images
  PROVE  LET next == DetachFrame(frame, i) IN
         /\ next \in CallType /\ next.image = i /\ next.op = frame.op
         /\ next.file = frame.file
         /\ Attached(i) => next.pc \in {"flushing", "close"}
         /\ ~Attached(i) => next.pc = "open"
BY ZenonT(60) DEF DetachFrame, CallType

LEMMA DetachKeeps ==
  ASSUME IInv, NEW i \in Images, Detach(i)
  PROVE  IInv'
<1> USE DEF Detach, IInv
<1>1. SameImages /\ img' \in [Images -> ImageType] /\ faults' \in 0 .. MaxFaults
  BY DEF SameImages, TypeOK
<1>2. CASE Return(Ok)
  BY <1>1, <1>2, ReturnKeeps, ReplyTypes
<1>3. CASE ~Return(Ok)
  <2> DEFINE frame == [NoCall EXCEPT !.op = "detach"]
  <2>1. frame \in CallType /\ frame.op = "detach"
    BY ConstantTypes DEF CallType
  <2>4. Attached(i) /\ call' = DetachFrame(frame, i)
    BY <1>3
  <2> HIDE DEF frame
  <2>2. /\ call' \in CallType /\ call'.pc \in {"flushing", "close"}
        /\ call'.op = "detach" /\ call'.image = i /\ Attached(i)
    BY <2>1, <2>4, DetachFrameType
  <2>3. CallInv' /\ SlotInv'
    BY <2>2 DEF CallInv, SlotInv, Attached
  <2> QED BY <1>1, <1>3, <2>2, <2>3, CallKeeps, ReplyTypes
<1> QED BY <1>2, <1>3

LEMMA AttachKeeps ==
  ASSUME IInv, NEW i \in Images, NEW f \in Files, Attach(i, f)
  PROVE  IInv'
<1> USE DEF Attach, IInv
<1>1. SameImages /\ img' \in [Images -> ImageType] /\ faults' \in 0 .. MaxFaults
  BY DEF SameImages, TypeOK
<1> DEFINE frame == [NoCall EXCEPT !.op = "attach", !.file = f]
<1>2. frame \in CallType /\ frame.op = "attach" /\ frame.file = f
  BY ConstantTypes DEF CallType
<1>3. /\ call' \in CallType /\ call'.image = i /\ call'.op = "attach"
      /\ call'.file = f
      /\ Attached(i) => call'.pc \in {"flushing", "close"}
      /\ ~Attached(i) => call'.pc = "open"
  BY ZenonT(60), <1>2, DetachFrameType
<1>4. CallInv' /\ SlotInv'
  BY <1>3 DEF CallInv, SlotInv, Attached
<1>5. /\ UNCHANGED <<card, growth, slots, nextImageId>>
      /\ reply' \in ReplyType
  BY ReplyTypes
<1> QED BY <1>1, <1>3, <1>4, <1>5, CallKeeps

LEMMA TakeWriteErrorKeeps ==
  ASSUME IInv, NEW i \in Images, TakeWriteError(i)
  PROVE  IInv'
<1>1. /\ img' \in [Images -> ImageType] /\ SameImages /\ faults' \in 0 .. MaxFaults
  BY DEF TakeWriteError, IInv, TypeOK, ImageType, SameImages
<1> QED BY <1>1, ReturnKeeps, ReplyTypes DEF TakeWriteError

-----------------------------------------------------------------------------
(* Every action keeps the invariant: writes of dirty chunks. *)

\* What a slot the cache writes out looks like.
LEMMA DirtySlot ==
  ASSUME TypeOK, StoreInv, NEW i \in Images, NEW k \in Slots, Dirty(k), Owns(i, k)
  PROVE  /\ img[i].file \in Files /\ slots[k].chunk \in Chunks
         /\ slots[k] \in SlotType
         /\ slots[k].dirtyMask \in SUBSET Sectors
         /\ FirstRun(slots[k].dirtyMask) \in SUBSET Sectors
         /\ FirstRun(slots[k].dirtyMask) \subseteq slots[k].dirtyMask
         /\ slots[k].data \in [Sectors -> SectorData \union {NoData}]
         /\ \A s \in slots[k].dirtyMask : slots[k].data[s] \in SectorData
<1>1. img[i].file \in Files /\ slots[k] \in SlotType
  BY DEF TypeOK, ImageType, Owns, Attached
<1>2. /\ slots[k].chunk \in Chunks /\ slots[k].dirtyMask \in SUBSET Sectors
      /\ slots[k].data \in [Sectors -> SectorData \union {NoData}]
  BY <1>1 DEF SlotType
<1>3. \A s \in slots[k].dirtyMask : slots[k].data[s] \in SectorData
  BY DEF StoreInv, MaskInv
<1> QED BY <1>1, <1>2, <1>3, FirstRunType

\* A slot keeps its chunk when sectors of it are written.
LEMMA RunWritten ==
  ASSUME TypeOK, StoreInv, NEW i \in Images, NEW k \in Slots, NEW new \in SlotType,
         Dirty(k), Owns(i, k),
         Written(img[i].file, slots[k].chunk, FirstRun(slots[k].dirtyMask), slots[k].data),
         \/ /\ ~new.valid /\ new.validMask = {} /\ new.dirtyMask = {}
            /\ slots[k].dirtyMask \subseteq FirstRun(slots[k].dirtyMask)
         \/ new = [slots[k] EXCEPT !.dirtyMask = @ \ FirstRun(slots[k].dirtyMask)],
         slots' = [slots EXCEPT ![k] = new],
         img' = [img EXCEPT ![i].modified = TRUE], UNCHANGED nextImageId
  PROVE  /\ StoreInv' /\ SameImages /\ GrowthType'
         /\ card' \in [Files -> [Chunks -> [Sectors -> CardData]]]
         /\ slots' \in [Slots -> SlotType] /\ img' \in [Images -> ImageType]
<1> DEFINE run == FirstRun(slots[k].dirtyMask)
<1>1. /\ img[i].file \in Files /\ slots[k].chunk \in Chunks /\ slots[k] \in SlotType
      /\ run \in SUBSET Sectors /\ run \subseteq slots[k].dirtyMask
      /\ slots[k].data \in [Sectors -> SectorData \union {NoData}]
      /\ \A s \in run : slots[k].data[s] \in SectorData
  BY DirtySlot
<1>2. /\ SameImages /\ img' \in [Images -> ImageType]
      /\ slots' \in [Slots -> SlotType]
  BY DEF TypeOK, ImageType, SameImages
<1>3. /\ CardSameBut(img[i].file, slots[k].chunk, run)
      /\ \A s \in run : card'[img[i].file][slots[k].chunk][s] = slots[k].data[s]
      /\ card' \in [Files -> [Chunks -> [Sectors -> CardData]]] /\ GrowthType'
  <2> DEFINE f == img[i].file
             c == slots[k].chunk
             data == slots[k].data
  <2>1. /\ Written(f, c, run, data) /\ f \in Files /\ c \in Chunks
        /\ data \in [Sectors -> SectorData \union {NoData}]
        /\ run \in SUBSET Sectors
        /\ \A s \in run : data[s] \in SectorData
    BY <1>1
  <2> HIDE DEF run, f, c, data
  <2>2. card' \in [Files -> [Chunks -> [Sectors -> CardData]]] /\ GrowthType'
    BY <2>1, CardWriteType
  <2>3. CardSameBut(f, c, run) /\ \A s \in run : card'[f][c][s] = data[s]
    BY <2>1, WrittenSameBut
  <2> QED BY <2>2, <2>3 DEF f, c, data
<1>4. CardSameBut(img[i].file, slots[k].chunk, slots[k].dirtyMask)
  BY <1>1, <1>3 DEF CardSameBut
<1>5. new.valid => /\ new.image = slots[k].image /\ new.chunk = slots[k].chunk
                   /\ new.validMask = slots[k].validMask /\ new.data = slots[k].data
                   /\ new.dirtyMask = slots[k].dirtyMask \ run
  BY <1>1 DEF SlotType
<1>6. ~new.valid => new.validMask = {} /\ new.dirtyMask = {}
  BY <1>1 DEF SlotType, Dirty
<1> HIDE DEF run
<1>7. new.valid => \A s \in slots[k].dirtyMask \ new.dirtyMask :
                     card'[img[i].file][slots[k].chunk][s] = slots[k].data[s]
  BY <1>3, <1>5
<1>8. StoreInv'
  BY <1>2, <1>4, <1>5, <1>6, <1>7, RunStored
<1> QED BY <1>2, <1>3, <1>8

\* A write that fails leaves the slots as they are.
LEMMA RunNotWritten ==
  ASSUME TypeOK, StoreInv, NEW i \in Images, NEW k \in Slots, NEW hard \in BOOLEAN,
         Dirty(k), Owns(i, k),
         WriteFails(i, slots[k].chunk, FirstRun(slots[k].dirtyMask), slots[k].data, hard),
         SameImages, UNCHANGED <<slots, nextImageId>>
  PROVE  /\ StoreInv'
         /\ card' \in [Files -> [Chunks -> [Sectors -> CardData]]]
         /\ faults' \in 0 .. MaxFaults /\ GrowthType'
<1> DEFINE run == FirstRun(slots[k].dirtyMask)
<1>1. /\ slots[k].chunk \in Chunks /\ slots[k] \in SlotType /\ Attached(i)
      /\ run \in SUBSET Sectors /\ run \subseteq slots[k].dirtyMask
      /\ slots[k].data \in [Sectors -> SectorData \union {NoData}]
      /\ \A s \in run : slots[k].data[s] \in SectorData
  BY DirtySlot DEF Owns
<1>2. /\ card' \in [Files -> [Chunks -> [Sectors -> CardData]]]
      /\ faults' \in 0 .. MaxFaults /\ GrowthType'
      /\ CardSameBut(img[i].file, slots[k].chunk, run)
  BY <1>1, WriteFailsType
<1>3. CardSameBut(img[i].file, slots[k].chunk, slots[k].dirtyMask)
  BY <1>1, <1>2 DEF CardSameBut
<1>4. slots' = [slots EXCEPT ![k] = slots[k]] /\ slots[k].valid
  BY DEF TypeOK, Dirty
<1>5. StoreInv'
  BY <1>1, <1>3, <1>4, RunStored
<1> QED BY <1>2, <1>5

\* The flags a failed write leaves behind.
LEMMA FlagsKeep ==
  ASSUME TypeOK, NEW i \in Images, NEW modified \in BOOLEAN,
         NEW err \in BOOLEAN, NEW pending \in BOOLEAN,
         img' = [img EXCEPT ![i] =
                   [img[i] EXCEPT !.err = err, !.writeErrorPending = pending,
                                  !.modified = modified]]
  PROVE  img' \in [Images -> ImageType] /\ SameImages
BY ZenonT(60) DEF TypeOK, ImageType, SameImages

LEMMA FailureFlags ==
  ASSUME TypeOK, NEW i \in Images, NEW hard \in BOOLEAN,
         \/ img' = [img EXCEPT ![i].err = hard, ![i].modified = @ \/ ~hard]
         \/ img' = [img EXCEPT ![i].err = hard, ![i].writeErrorPending = TRUE,
                               ![i].modified = @ \/ ~hard]
  PROVE  img' \in [Images -> ImageType] /\ SameImages
<1>1. PICK m \in BOOLEAN : m = (img[i].modified \/ ~hard)
  OBVIOUS
<1>2. CASE img' = [img EXCEPT ![i].err = hard, ![i].modified = @ \/ ~hard]
  <2>1. PICK pending \in BOOLEAN : pending = img[i].writeErrorPending
    BY DEF TypeOK, ImageType
  <2>2. img' = [img EXCEPT ![i].err = hard, ![i].modified = m]
    BY <1>1, <1>2
  <2>3. img' = [img EXCEPT ![i] = [img[i] EXCEPT !.err = hard,
                  !.writeErrorPending = pending, !.modified = m]]
    BY <2>1, <2>2 DEF TypeOK, ImageType
  <2> QED BY <2>3, FlagsKeep
<1>3. CASE img' = [img EXCEPT ![i].err = hard, ![i].writeErrorPending = TRUE,
                              ![i].modified = @ \/ ~hard]
  <2>1. img' = [img EXCEPT ![i] = [img[i] EXCEPT !.err = hard,
                  !.writeErrorPending = TRUE, !.modified = m]]
    BY <1>1, <1>3 DEF TypeOK
  <2> QED BY <2>1, FlagsKeep
<1> QED BY <1>2, <1>3

LEMMA EvictRunKeeps ==
  ASSUME IInv, EvictRun
  PROVE  IInv'
<1> USE DEF IInv
<1> DEFINE k == call.cur
           run == FirstRun(slots[k].dirtyMask)
           rest == slots[k].dirtyMask \ run
           id == img[call.image].id
<1>1. PICK i \in Images :
        /\ Owns(i, k)
        /\ Written(img[i].file, slots[k].chunk, run, slots[k].data)
        /\ img' = [img EXCEPT ![i].modified = TRUE]
        /\ \/ /\ rest # {}
              /\ slots' = [slots EXCEPT ![k].dirtyMask = rest]
              /\ UNCHANGED call
           \/ /\ rest = {}
              /\ slots' = [slots EXCEPT ![k] = NewSlot(id, call.chunk)]
              /\ call' = [call EXCEPT !.pc = "serve"]
  BY DEF EvictRun
<1>2. /\ call.pc \in {"evict", "evictOther"} /\ k \in Slots /\ Dirty(k) /\ Absent
      /\ k \in {Ways(id, call.chunk)[1], Ways(id, call.chunk)[2]}
      /\ Within(call.image, call.chunk, call.sector) /\ call.image \in Images
      /\ UNCHANGED <<nextImageId, reply, faults>>
  BY DEF EvictRun, SlotInv, CallInv, TypeOK, CallType
<1>3. slots[k] \in SlotType /\ slots[k].valid /\ slots[k].dirtyMask \in SUBSET Sectors
  BY <1>2 DEF TypeOK, Dirty, SlotType
<1>4. CASE /\ rest # {}
           /\ slots' = [slots EXCEPT ![k].dirtyMask = rest]
           /\ UNCHANGED call
  <2> DEFINE new == [slots[k] EXCEPT !.dirtyMask = @ \ FirstRun(slots[k].dirtyMask)]
  <2>1. new \in SlotType /\ slots' = [slots EXCEPT ![k] = new]
    BY <1>2, <1>3, <1>4 DEF SlotType, TypeOK
  <2>2. /\ StoreInv' /\ SameImages /\ GrowthType'
        /\ card' \in [Files -> [Chunks -> [Sectors -> CardData]]]
        /\ slots' \in [Slots -> SlotType] /\ img' \in [Images -> ImageType]
    BY <1>1, <1>2, <2>1, RunWritten
  <2>3. /\ slots'[k].valid /\ slots'[k].dirtyMask = rest
        /\ \A j \in Slots : /\ slots'[j].valid = slots[j].valid
                            /\ slots'[j].image = slots[j].image
                            /\ slots'[j].chunk = slots[j].chunk
                            /\ j # k => slots'[j] = slots[j]
    BY <1>2, <1>3, <1>4 DEF TypeOK, SlotType
  <2>4. CallInv'
    BY <1>2, <1>4, <2>2 DEF CallInv, SameImages, Within, Attached, TypeOK, CallType
  <2>5. Absent'
    BY <1>2, <1>4, <2>2, <2>3 DEF Absent, Holds, SameImages
  <2>6. SlotInv'
    <3>1. img'[call.image].id = id
      BY <1>2, <2>2 DEF SameImages
    <3>2. \A c : OtherWay(id, call.chunk, c) \in Slots
      BY <1>2, WaysType DEF TypeOK, CallType, ImageType
    <3>3. Dirty(k)' /\ \A j \in Slots : Dirty(j) => Dirty(j)'
      BY <1>4, <2>3 DEF Dirty
    <3> QED BY ZenonT(60), <1>2, <1>4, <2>5, <3>1, <3>2, <3>3 DEF SlotInv, OtherWay, Ways, Dirty
  <2> QED BY <1>2, <1>4, <2>2, <2>4, <2>6 DEF TypeOK, GrowthType
<1>5. CASE /\ rest = {}
           /\ slots' = [slots EXCEPT ![k] = NewSlot(id, call.chunk)]
           /\ call' = [call EXCEPT !.pc = "serve"]
  <2> DEFINE new == NewSlot(id, call.chunk)
  <2>1. new \in SlotType /\ ~new.valid /\ new.validMask = {} /\ new.dirtyMask = {}
    BY NewSlotType DEF TypeOK, CallType, ImageType, NewSlot
  <2>2. /\ StoreInv' /\ SameImages /\ GrowthType'
        /\ card' \in [Files -> [Chunks -> [Sectors -> CardData]]]
        /\ slots' \in [Slots -> SlotType] /\ img' \in [Images -> ImageType]
    BY <1>1, <1>2, <1>5, <2>1, RunWritten
  <2>3. /\ slots'[k] = new
        /\ \A j \in Slots : j # k => slots'[j] = slots[j]
    BY <1>2, <1>5 DEF TypeOK
  <2>4. /\ call' \in CallType /\ call'.pc = "serve" /\ call'.op = call.op
        /\ call'.image = call.image /\ call'.chunk = call.chunk
        /\ call'.cur = k /\ call'.data = call.data
        /\ call'.sector = call.sector
    BY <1>5 DEF TypeOK, CallType
  <2>5. CallInv'
    BY <1>2, <2>2, <2>4 DEF CallInv, SameImages, Within, Attached
  <2>6. Absent'
    BY <1>2, <2>2, <2>3, <2>4 DEF Absent, Holds, SameImages, NewSlot
  <2>7. SlotInv'
    <3>1. img'[call'.image].id = id
      BY <1>2, <2>2, <2>4 DEF SameImages
    <3>2. Ways(img[call.image].id, call.chunk)' = Ways(id, call.chunk)
      BY <2>4, <3>1 DEF Ways
    <3>3. /\ slots'[k].image = id /\ slots'[k].chunk = call.chunk
          /\ slots'[k].validMask = {} /\ slots'[k].dirtyMask = {}
      BY <2>3 DEF NewSlot
    <3> QED BY <1>2, <2>4, <2>6, <3>1, <3>2, <3>3 DEF SlotInv
  <2> QED BY <1>2, <2>2, <2>4, <2>5, <2>7 DEF TypeOK, GrowthType
<1> QED BY <1>1, <1>4, <1>5

LEMMA EvictFailsKeeps ==
  ASSUME IInv, EvictFails
  PROVE  IInv'
<1> USE DEF IInv
<1> DEFINE k == call.cur
           id == img[call.image].id
           ways == {Ways(id, call.chunk)[1], Ways(id, call.chunk)[2]}
<1>1. PICK i \in Images, hard \in BOOLEAN :
        /\ Owns(i, k)
        /\ WriteFails(i, slots[k].chunk, FirstRun(slots[k].dirtyMask), slots[k].data, hard)
        /\ img' = [img EXCEPT ![i].err = hard, ![i].writeErrorPending = TRUE,
                              ![i].modified = @ \/ ~hard]
  BY DEF EvictFails
<1>2. /\ call.pc \in {"evict", "evictOther"} /\ k \in Slots /\ Dirty(k) /\ Absent
      /\ Within(call.image, call.chunk, call.sector) /\ call.image \in Images
      /\ UNCHANGED <<slots, nextImageId, reply>>
  BY DEF EvictFails, SlotInv, CallInv, TypeOK, CallType
<1>3. img' \in [Images -> ImageType] /\ SameImages
  BY <1>1, FailureFlags
<1>4. /\ StoreInv' /\ faults' \in 0 .. MaxFaults /\ GrowthType'
      /\ card' \in [Files -> [Chunks -> [Sectors -> CardData]]]
  BY <1>1, <1>2, <1>3, RunNotWritten
<1>5. img'[call.image].id = id
  BY <1>2, <1>3 DEF SameImages
<1>6. \A other : OtherWay(id, call.chunk, other) \in ways
                 /\ OtherWay(id, call.chunk, other) \in Slots
  <2>1. id \in Ids /\ call.chunk \in Chunks
    BY <1>2 DEF TypeOK, CallType, ImageType
  <2> QED BY <2>1, WaysType
<1>7. CASE /\ call.pc = "evict"
           /\ call' = [call EXCEPT !.pc = "evictOther",
                         !.cur = OtherWay(id, call.chunk, k)]
  <2>1. /\ call' \in CallType /\ call'.pc = "evictOther" /\ call'.op = call.op
        /\ call'.image = call.image /\ call'.chunk = call.chunk
        /\ call'.cur = OtherWay(id, call.chunk, k) /\ call'.data = call.data
        /\ call'.sector = call.sector
    BY <1>6, <1>7 DEF TypeOK, CallType
  <2>2. CallInv'
    BY <1>2, <1>3, <2>1 DEF CallInv, SameImages, Within, Attached
  <2>3. Dirty(OtherWay(id, call.chunk, k))
    BY <1>7 DEF SlotInv
  <2>4. Absent'
    BY <1>2, <1>5, <2>1 DEF Absent, Holds
  <2>5. SlotInv'
    BY ZenonT(60), <1>2, <1>5, <1>6, <2>1, <2>3, <2>4 DEF SlotInv, Dirty, Ways
  <2> QED BY <1>2, <1>3, <1>4, <2>1, <2>2, <2>5 DEF TypeOK, GrowthType
<1>8. CASE call.pc = "evictOther" /\ call' = [call EXCEPT !.pc = "through"]
  <2>1. /\ call' \in CallType /\ call'.pc = "through" /\ call'.op = call.op
        /\ call'.image = call.image /\ call'.chunk = call.chunk
        /\ call'.data = call.data /\ call'.sector = call.sector
    BY <1>8 DEF TypeOK, CallType
  <2>2. CallInv'
    BY <1>2, <1>3, <2>1 DEF CallInv, SameImages, Within, Attached
  <2>3. Absent'
    BY <1>2, <1>5, <2>1 DEF Absent, Holds
  <2>4. SlotInv'
    BY <2>1, <2>3 DEF SlotInv
  <2> QED BY <1>2, <1>3, <1>4, <2>1, <2>2, <2>4 DEF TypeOK, GrowthType
<1> QED BY <1>1, <1>7, <1>8 DEF EvictFails

-----------------------------------------------------------------------------
(* Every action keeps the invariant: reads and writes of a sector. *)

LEMMA ReadFromSlotKeeps ==
  ASSUME IInv, ReadFromSlot
  PROVE  IInv'
<1>1. slots[call.cur].data[call.sector] \in SectorData
  BY DEF ReadFromSlot, IInv, StoreInv, MaskInv, TypeOK, CallType
<1>2. Answer(call, "ok", slots[call.cur].data[call.sector]) \in ReplyType
  BY <1>1, AnswerType DEF ReadFromSlot, IInv, TypeOK, CallType
<1>3. SameImages /\ img' \in [Images -> ImageType] /\ faults' \in 0 .. MaxFaults
  BY DEF ReadFromSlot, SameImages, IInv, TypeOK
<1> QED BY <1>2, <1>3, ReturnKeeps DEF ReadFromSlot

\* The slot the call works on, and whose it is.
LEMMA ServedSlot ==
  ASSUME IInv, call.pc = "serve"
  PROVE  /\ call.cur \in Slots /\ call.image \in Images /\ call.sector \in Sectors
         /\ Attached(call.image) /\ slots[call.cur] \in SlotType
         /\ slots[call.cur].image = img[call.image].id /\ Owns(call.image, call.cur)
         /\ slots[call.cur].chunk = call.chunk /\ call.chunk \in Chunks
         /\ img[call.image].file \in Files
         /\ \A j \in Images : Owns(j, call.cur) => j = call.image
         /\ call.cur \in {Ways(slots[call.cur].image, slots[call.cur].chunk)[1],
                          Ways(slots[call.cur].image, slots[call.cur].chunk)[2]}
         /\ \A k \in Slots : Holds(k, slots[call.cur].image, slots[call.cur].chunk)
              => k = call.cur
         /\ ~slots[call.cur].valid =>
              slots[call.cur].validMask = {} /\ slots[call.cur].dirtyMask = {}
<1> USE DEF IInv
<1>1. /\ call.cur \in Slots /\ call.image \in Images /\ call.sector \in Sectors
      /\ call.chunk \in Chunks /\ slots[call.cur] \in SlotType
      /\ Attached(call.image) /\ img[call.image].file \in Files
  BY DEF TypeOK, CallType, CallInv, Within, Attached, ImageType
<1>2. /\ slots[call.cur].image = img[call.image].id
      /\ slots[call.cur].chunk = call.chunk
      /\ call.cur \in {Ways(slots[call.cur].image, slots[call.cur].chunk)[1],
                       Ways(slots[call.cur].image, slots[call.cur].chunk)[2]}
      /\ ~slots[call.cur].valid =>
           /\ Absent
           /\ slots[call.cur].validMask = {} /\ slots[call.cur].dirtyMask = {}
  BY DEF SlotInv
<1>3. Owns(call.image, call.cur) /\ \A j \in Images : Owns(j, call.cur) => j = call.image
  BY <1>1, <1>2 DEF Owns, StoreInv, IdInv
<1>4. \A k \in Slots : Holds(k, slots[call.cur].image, slots[call.cur].chunk)
              => k = call.cur
  BY <1>1, <1>2 DEF Holds, Absent, StoreInv, OneCopy
<1> QED BY <1>1, <1>2, <1>3, <1>4

\* The slot takes in sectors: clean ones are as on the card, and sectors become
\* dirty only when the image may be written and is marked for Sync.
LEMMA SlotFilled ==
  ASSUME IInv, call.pc = "serve", NEW new \in SlotType,
         slots' = [slots EXCEPT ![call.cur] = new],
         new.valid, new.image = slots[call.cur].image,
         new.chunk = slots[call.cur].chunk,
         new.dirtyMask \subseteq new.validMask,
         \A s \in new.validMask : new.data[s] \in SectorData,
         \A s \in new.validMask \ new.dirtyMask :
           new.data[s] = Whole(card[img[call.image].file][call.chunk][s]),
         \/ new.dirtyMask = {}
         \/ Dirty(call.cur)
         \/ img'[call.image].needSync /\ ~img[call.image].readOnly,
         UNCHANGED <<card, nextImageId>>, SameImages
  PROVE  StoreInv'
<1> DEFINE k == call.cur
           i == call.image
<1>1. /\ slots'[k] = new /\ k \in Slots /\ i \in Images
      /\ \A j \in Slots : j # k => slots'[j] = slots[j]
  BY ServedSlot DEF IInv, TypeOK
<1>2. /\ slots[k].image = img[i].id /\ Owns(i, k) /\ Attached(i)
      /\ slots[k].chunk = call.chunk
      /\ \A j \in Images : Owns(j, k) => j = i
      /\ k \in {Ways(slots[k].image, slots[k].chunk)[1],
                Ways(slots[k].image, slots[k].chunk)[2]}
      /\ \A j \in Slots : Holds(j, slots[k].image, slots[k].chunk) => j = k
  BY ServedSlot
<1>3. StoreInv
  BY DEF IInv
<1> HIDE DEF k, i
<1> USE DEF SameImages, Attached, Owns, Dirty
<1>4. MaskInv' BY <1>1, <1>3 DEF StoreInv, MaskInv, k
<1>5. IdInv' BY <1>3 DEF StoreInv, IdInv
<1>6. PlaceInv'
  <2>1. \A j \in Slots :
          /\ slots'[j].image = slots[j].image /\ slots'[j].chunk = slots[j].chunk
          /\ Ways(slots[j].image, slots[j].chunk)' =
               Ways(slots[j].image, slots[j].chunk)
    BY <1>1 DEF Ways, k
  <2>2. \A j \in Slots : j # k /\ slots[j].valid =>
          /\ \E m \in Images : Owns(m, j)
          /\ j \in {Ways(slots[j].image, slots[j].chunk)[1],
                    Ways(slots[j].image, slots[j].chunk)[2]}
    BY <1>3 DEF StoreInv, PlaceInv
  <2>3. \A j \in Slots : (\E m \in Images : Owns(m, j)) =>
          (slots'[j].valid => \E m \in Images : Owns(m, j)')
    BY <2>1
  <2>4. \A j \in Slots : slots'[j].valid =>
          /\ \E m \in Images : Owns(m, j)
          /\ j \in {Ways(slots[j].image, slots[j].chunk)[1],
                    Ways(slots[j].image, slots[j].chunk)[2]}
    BY <1>1, <1>2, <2>2
  <2> QED BY <2>1, <2>3, <2>4 DEF PlaceInv
<1>7. OneCopy' BY <1>1, <1>2, <1>3 DEF StoreInv, OneCopy, Holds, k
<1>8. CleanMatchesCard' BY SMTT(30), <1>1, <1>2, <1>3 DEF StoreInv, CleanMatchesCard, k, i
<1>9. DirtyNeedsSync'
  BY <1>1, <1>2, <1>3 DEF StoreInv, DirtyNeedsSync, k, i
<1>10. ReadOnlyStaysClean'
  BY <1>1, <1>2, <1>3 DEF StoreInv, ReadOnlyStaysClean, k, i
<1> QED BY <1>4, <1>5, <1>6, <1>7, <1>8, <1>9, <1>10 DEF StoreInv

LEMMA ReadIntoSlotKeeps ==
  ASSUME IInv, ReadIntoSlot
  PROVE  IInv'
<1> DEFINE k == call.cur
           s == call.sector
           onCard == [t \in Sectors |->
                        Whole(card[img[call.image].file][call.chunk][t])]
           full == [slots[k] EXCEPT !.valid = TRUE, !.validMask = Sectors, !.data = onCard]
           one == [slots[k] EXCEPT !.validMask = @ \union {s}, !.data = [@ EXCEPT ![s] = onCard[s]]]
<1>1. /\ call.pc = "serve" /\ call.op = "read" /\ Return(Answer(call, "ok", onCard[s]))
      /\ UNCHANGED <<card, growth, img, nextImageId, faults>>
  BY DEF ReadIntoSlot
<1>2. /\ k \in Slots /\ s \in Sectors /\ slots[k] \in SlotType
      /\ slots[k].dirtyMask \subseteq slots[k].validMask
      /\ \A t \in slots[k].validMask : slots[k].data[t] \in SectorData
      /\ ~slots[k].valid => slots[k].dirtyMask = {}
      /\ Owns(call.image, k) /\ slots[k].chunk = call.chunk /\ call.image \in Images
  BY <1>1, ServedSlot DEF IInv, StoreInv, MaskInv
<1>3. onCard \in [Sectors -> SectorData]
  BY <1>1, ServedSlot, SectorOnCard DEF IInv
<1>4. SameImages /\ onCard[s] \in SectorData
  BY <1>1, <1>2, <1>3 DEF SameImages
<1>5. \A t \in Sectors :
        onCard[t] = Whole(card[img[call.image].file][call.chunk][t])
  OBVIOUS
<1> HIDE DEF onCard
<1>6. \E new \in SlotType :
        /\ slots' = [slots EXCEPT ![k] = new] /\ new.valid
        /\ new.image = slots[k].image /\ new.chunk = slots[k].chunk
        /\ new.dirtyMask = slots[k].dirtyMask
        /\ new.dirtyMask \subseteq new.validMask
        /\ \A t \in new.validMask : new.data[t] \in SectorData
        /\ \A t \in new.validMask \ new.dirtyMask :
             new.data[t] = Whole(card[img[call.image].file][call.chunk][t])
  <2>1. CASE /\ slots[k].dirtyMask = {}
             /\ slots' = [slots EXCEPT ![k].valid = TRUE,
                            ![k].validMask = Sectors, ![k].data = onCard]
    <3>1. /\ full \in SlotType /\ full.valid
          /\ full.image = slots[k].image /\ full.chunk = slots[k].chunk
          /\ full.dirtyMask = slots[k].dirtyMask /\ full.validMask = Sectors
          /\ full.data = onCard
      BY <1>2, <1>3 DEF SlotType
    <3>2. slots' = [slots EXCEPT ![k] = full]
      BY <1>2, <2>1 DEF IInv, TypeOK
    <3> HIDE DEF full
    <3> QED BY <1>3, <1>5, <2>1, <3>1, <3>2
  <2>2. CASE /\ slots[k].dirtyMask # {}
             /\ slots' = [slots EXCEPT ![k].validMask = @ \union {s},
                            ![k].data = [@ EXCEPT ![s] = onCard[s]]]
    <3>1. /\ one \in SlotType /\ one.valid
          /\ one.image = slots[k].image /\ one.chunk = slots[k].chunk
          /\ one.dirtyMask = slots[k].dirtyMask
          /\ one.validMask = slots[k].validMask \union {s}
          /\ one.data[s] = onCard[s]
          /\ \A t \in Sectors : t # s => one.data[t] = slots[k].data[t]
      BY <1>2, <1>4, <2>2 DEF SlotType
    <3>2. slots' = [slots EXCEPT ![k] = one]
      <4> DEFINE v == onCard[s]
      <4>1. slots' = [slots EXCEPT ![k].validMask = @ \union {s},
                                   ![k].data = [@ EXCEPT ![s] = v]]
        BY <2>2
      <4>2. one = [slots[k] EXCEPT !.validMask = @ \union {s}, !.data = [@ EXCEPT ![s] = v]]
        OBVIOUS
      <4>3. slots \in [Slots -> SlotType]
        BY DEF IInv, TypeOK
      <4> HIDE DEF v, one
      <4> QED BY <1>2, <4>1, <4>2, <4>3 DEF SlotType
    <3>3. \A t \in slots[k].validMask \ slots[k].dirtyMask :
            slots[k].data[t] = Whole(card[img[call.image].file][call.chunk][t])
      BY <1>2, <2>2 DEF IInv, StoreInv, CleanMatchesCard
    <3>4. slots[k].validMask \subseteq Sectors
      BY <1>2 DEF SlotType
    <3> HIDE DEF one
    <3>5. /\ one.dirtyMask \subseteq one.validMask
          /\ \A t \in one.validMask : one.data[t] \in SectorData
          /\ \A t \in one.validMask \ one.dirtyMask :
               one.data[t] = Whole(card[img[call.image].file][call.chunk][t])
      <4>1. one.dirtyMask \subseteq one.validMask
        BY <1>2, <3>1
      <4>2. ASSUME NEW t \in one.validMask PROVE one.data[t] \in SectorData
        BY <1>2, <1>4, <3>1, <3>4
      <4>3. ASSUME NEW t \in one.validMask \ one.dirtyMask
            PROVE  one.data[t] = Whole(card[img[call.image].file][call.chunk][t])
        <5>1. CASE t = s
          BY <1>2, <1>5, <3>1, <5>1
        <5>2. CASE t # s
          BY <3>1, <3>3, <3>4, <5>2
        <5> QED BY <5>1, <5>2
      <4> QED BY <4>1, <4>2, <4>3
    <3> QED BY <3>1, <3>2, <3>5
  <2> QED BY <2>1, <2>2 DEF ReadIntoSlot, onCard
<1>7. StoreInv' /\ slots' \in [Slots -> SlotType]
  <2>1. PICK new \in SlotType :
        /\ slots' = [slots EXCEPT ![k] = new] /\ new.valid
        /\ new.image = slots[k].image /\ new.chunk = slots[k].chunk
        /\ new.dirtyMask = slots[k].dirtyMask
        /\ new.dirtyMask \subseteq new.validMask
        /\ \A t \in new.validMask : new.data[t] \in SectorData
        /\ \A t \in new.validMask \ new.dirtyMask :
             new.data[t] = Whole(card[img[call.image].file][call.chunk][t])
    BY <1>6
  <2>2. new.dirtyMask = {} \/ Dirty(k)
    BY <1>2, <2>1 DEF Dirty
  <2>3. StoreInv'
    BY <1>1, <1>4, <2>1, <2>2, SlotFilled
  <2> QED BY <2>1, <2>3 DEF IInv, TypeOK
<1>8. Answer(call, "ok", onCard[s]) \in ReplyType
  BY <1>1, <1>4, AnswerType DEF IInv, TypeOK, CallType
<1> QED BY <1>1, <1>7, <1>8, Returned DEF IInv, TypeOK

LEMMA ReadIntoSlotFailsKeeps ==
  ASSUME IInv, ReadIntoSlotFails
  PROVE  IInv'
<1> USE DEF IInv
<1>1. /\ call.pc = "serve" /\ call.op = "read"
      /\ Fault(call.image) /\ Return(Refusal(call))
      /\ img' = [img EXCEPT ![call.image].err = TRUE]
      /\ UNCHANGED <<card, growth, nextImageId>>
      /\ slots' = slots \/ slots' = [slots EXCEPT ![call.cur] = EmptySlot]
  BY DEF ReadIntoSlotFails
<1>2. call.image \in Images /\ call.cur \in Slots
  BY DEF TypeOK, CallType
<1>3. img' \in [Images -> ImageType] /\ SameImages /\ faults' \in 0 .. MaxFaults
  BY <1>1, <1>2, ErrSet, FaultType
<1>4. slots' \in [Slots -> SlotType]
  BY <1>1, ConstantTypes DEF TypeOK
<1>5. EmptySlot.validMask = {} /\ EmptySlot.dirtyMask = {}
  BY DEF EmptySlot, NewSlot
<1>6. StoreInv'
  BY <1>1, <1>2, <1>3, <1>5, ConstantTypes, StoreUntouched, SlotDropped
<1>7. Refusal(call) \in ReplyType
  BY <1>1, RefusalType DEF TypeOK, CallType
<1> QED BY <1>1, <1>3, <1>4, <1>6, <1>7, Returned DEF TypeOK

LEMMA WriteIntoSlotKeeps ==
  ASSUME IInv, WriteIntoSlot
  PROVE  IInv'
<1> DEFINE k == call.cur
           s == call.sector
           new == [slots[k] EXCEPT !.valid = TRUE, !.validMask = @ \union {s},
                     !.dirtyMask = @ \union {s}, !.data = [@ EXCEPT ![s] = call.data]]
<1>1. /\ call.pc = "serve" /\ call.op = "write"
      /\ Return(Answer(call, "ok", call.data))
      /\ slots' = [slots EXCEPT ![k].valid = TRUE, ![k].validMask = @ \union {s},
                     ![k].dirtyMask = @ \union {s}, ![k].data = [@ EXCEPT ![s] = call.data]]
      /\ img' = [img EXCEPT ![call.image].needSync = TRUE]
      /\ UNCHANGED <<card, growth, nextImageId, faults>>
  BY DEF WriteIntoSlot
<1>2. /\ k \in Slots /\ s \in Sectors /\ slots[k] \in SlotType
      /\ slots[k].dirtyMask \subseteq slots[k].validMask
      /\ \A t \in slots[k].validMask : slots[k].data[t] \in SectorData
      /\ ~slots[k].valid => slots[k].validMask = {} /\ slots[k].dirtyMask = {}
      /\ Owns(call.image, k) /\ slots[k].chunk = call.chunk /\ call.image \in Images
  BY <1>1, ServedSlot DEF IInv, StoreInv, MaskInv
<1>3. call.data \in SectorData /\ ~img[call.image].readOnly
  BY <1>1 DEF IInv, CallInv, SectorData
<1>4. /\ SameImages /\ img' \in [Images -> ImageType] /\ img'[call.image].needSync
  BY ZenonT(60), <1>1, <1>2 DEF SameImages, IInv, TypeOK, ImageType
<1>5. /\ new \in SlotType /\ new.valid
      /\ new.image = slots[k].image /\ new.chunk = slots[k].chunk
      /\ new.dirtyMask = slots[k].dirtyMask \union {s}
      /\ new.validMask = slots[k].validMask \union {s}
      /\ new.data[s] = call.data
      /\ \A t \in Sectors : t # s => new.data[t] = slots[k].data[t]
  BY <1>2, <1>3 DEF SlotType
<1>6. slots' = [slots EXCEPT ![k] = new]
  BY <1>1, <1>2 DEF IInv, TypeOK
<1>7. slots[k].validMask \subseteq Sectors
  BY <1>2 DEF SlotType
<1>8. \A t \in slots[k].validMask \ slots[k].dirtyMask :
        slots[k].data[t] = Whole(card[img[call.image].file][call.chunk][t])
  BY <1>2 DEF IInv, StoreInv, CleanMatchesCard
<1> HIDE DEF new
<1>9. /\ new.dirtyMask \subseteq new.validMask
      /\ \A t \in new.validMask : new.data[t] \in SectorData
      /\ \A t \in new.validMask \ new.dirtyMask :
           new.data[t] = Whole(card[img[call.image].file][call.chunk][t])
  BY <1>2, <1>3, <1>5, <1>7, <1>8
<1>10. StoreInv'
  BY <1>1, <1>3, <1>4, <1>5, <1>6, <1>9, SlotFilled
<1>11. slots' \in [Slots -> SlotType]
  BY <1>5, <1>6 DEF IInv, TypeOK
<1>12. Answer(call, "ok", call.data) \in ReplyType
  BY <1>1, <1>3, AnswerType DEF IInv, TypeOK, CallType
<1> QED BY <1>1, <1>4, <1>10, <1>11, <1>12, Returned DEF IInv, TypeOK

LEMMA ReadThroughKeeps ==
  ASSUME IInv, ReadThrough
  PROVE  IInv'
<1>1. /\ call.pc = "through" /\ call.op = "read" /\ call.image \in Images
      /\ UNCHANGED <<card, growth, slots, nextImageId>>
      /\ call.chunk \in Chunks /\ call.sector \in Sectors /\ Attached(call.image)
  BY DEF ReadThrough, IInv, TypeOK, CallType, CallInv, Within
<1>2. CASE /\ Return(Answer(call, "ok",
                      Whole(card[img[call.image].file][call.chunk][call.sector])))
           /\ UNCHANGED <<img, faults>>
  <2>1. Whole(card[img[call.image].file][call.chunk][call.sector]) \in SectorData
    BY <1>1, SectorOnCard DEF IInv
  <2>2. Answer(call, "ok", Whole(card[img[call.image].file][call.chunk][call.sector]))
          \in ReplyType
    BY <1>1, <2>1, AnswerType DEF IInv
  <2> QED BY <1>1, <1>2, <2>2, ReturnKeeps DEF SameImages, IInv, TypeOK
<1>3. CASE /\ Fault(call.image) /\ Return(Refusal(call))
           /\ img' = [img EXCEPT ![call.image].err = TRUE]
  <2>1. Refusal(call) \in ReplyType
    BY <1>1, RefusalType DEF IInv
  <2> QED BY <1>1, <1>3, <2>1, FaultType, ErrSet, ReturnKeeps DEF IInv
<1> QED BY <1>2, <1>3 DEF ReadThrough

\* A chunk the cache does not hold may change on the card.
LEMMA UncachedWritten ==
  ASSUME TypeOK, StoreInv, NEW i \in Images, Attached(i), NEW c \in Chunks,
         NEW run \in SUBSET Sectors, CardSameBut(img[i].file, c, run),
         \A k \in Slots : ~Holds(k, img[i].id, c),
         UNCHANGED <<slots, nextImageId>>, SameImages
  PROVE  StoreInv'
<1> USE DEF SameImages, Attached, Owns, Dirty
<1>1. MaskInv' BY DEF StoreInv, MaskInv
<1>2. IdInv' BY DEF StoreInv, IdInv
<1>3. PlaceInv' BY DEF StoreInv, PlaceInv, Ways
<1>4. OneCopy' BY DEF StoreInv, OneCopy
<1>5. CleanMatchesCard'
  <2> SUFFICES ASSUME NEW m \in Slots, NEW j \in Images, slots[m].valid, Owns(j, m),
                      NEW s \in slots[m].validMask \ slots[m].dirtyMask
               PROVE  card'[img[j].file][slots[m].chunk][s]
                        = card[img[j].file][slots[m].chunk][s]
    BY DEF StoreInv, CleanMatchesCard
  <2>1. /\ img[j].file \in Files /\ slots[m].chunk \in Chunks /\ s \in Sectors
    BY DEF TypeOK, ImageType, SlotType
  <2>2. ~(img[j].file = img[i].file /\ slots[m].chunk = c)
    BY DEF Holds, StoreInv, IdInv
  <2> QED BY <2>1, <2>2 DEF CardSameBut
<1>6. DirtyNeedsSync' BY DEF StoreInv, DirtyNeedsSync
<1>7. ReadOnlyStaysClean' BY DEF StoreInv, ReadOnlyStaysClean
<1> QED BY <1>1, <1>2, <1>3, <1>4, <1>5, <1>6, <1>7 DEF StoreInv

LEMMA WriteThroughKeeps ==
  ASSUME IInv, WriteThrough
  PROVE  IInv'
<1> USE DEF IInv
<1> DEFINE i == call.image
           data == [t \in Sectors |-> call.data]
<1>1. /\ call.pc = "through" /\ call.op = "write" /\ i \in Images /\ Absent
      /\ UNCHANGED <<slots, nextImageId>>
      /\ call.chunk \in Chunks /\ {call.sector} \in SUBSET Sectors /\ Attached(i)
      /\ img[i].file \in Files
  BY DEF WriteThrough, TypeOK, CallType, CallInv, SlotInv, Within, Attached, ImageType
<1>2. /\ data \in [Sectors -> SectorData \union {NoData}]
      /\ \A s \in {call.sector} : data[s] \in SectorData
  BY <1>1 DEF CallInv, SectorData
<1> HIDE DEF data
<1>3. CASE /\ Written(img[i].file, call.chunk, {call.sector}, data)
           /\ img' = [img EXCEPT ![i].needSync = TRUE, ![i].modified = TRUE]
           /\ Return(Answer(call, "ok", call.data)) /\ UNCHANGED faults
  <2>1. img' \in [Images -> ImageType] /\ SameImages
    <3> DEFINE new == [img[i] EXCEPT !.needSync = TRUE, !.modified = TRUE]
    <3>1. /\ new \in ImageType /\ new.file = img[i].file /\ new.id = img[i].id
          /\ new.readOnly = img[i].readOnly /\ new.needSync
      BY <1>1 DEF TypeOK, ImageType
    <3>2. img' = [img EXCEPT ![i] = new]
      BY <1>1, <1>3 DEF TypeOK
    <3> HIDE DEF new
    <3> QED BY <1>1, <3>1, <3>2 DEF TypeOK, SameImages
  <2>2. CardSameBut(img[i].file, call.chunk, {call.sector})
    BY <1>1, <1>2, <1>3, WrittenSameBut
  <2>3. card' \in [Files -> [Chunks -> [Sectors -> CardData]]] /\ GrowthType'
    BY <1>1, <1>2, <1>3, CardWriteType
  <2>4. StoreInv'
    BY <1>1, <2>1, <2>2, UncachedWritten DEF Absent
  <2>5. Answer(call, "ok", call.data) \in ReplyType
    BY <1>1, AnswerType DEF TypeOK, CallType, CallInv, SectorData
  <2> QED BY <1>1, <1>3, <2>1, <2>3, <2>4, <2>5, Returned DEF TypeOK, GrowthType
<1>4. CASE \E hard \in BOOLEAN :
             /\ WriteFails(i, call.chunk, {call.sector}, data, hard)
             /\ img' = [img EXCEPT ![i].err = hard,
                                   ![i].modified = @ \/ ~hard]
             /\ Return(Refusal(call))
  <2>1. PICK hard \in BOOLEAN :
             /\ WriteFails(i, call.chunk, {call.sector}, data, hard)
             /\ img' = [img EXCEPT ![i].err = hard,
                                   ![i].modified = @ \/ ~hard]
             /\ Return(Refusal(call))
    BY <1>4
  <2>2. img' \in [Images -> ImageType] /\ SameImages
    BY <1>1, <2>1, FailureFlags
  <2>3. /\ card' \in [Files -> [Chunks -> [Sectors -> CardData]]]
        /\ faults' \in 0 .. MaxFaults /\ GrowthType'
        /\ CardSameBut(img[i].file, call.chunk, {call.sector})
    BY <1>1, <1>2, <2>1, WriteFailsType
  <2>4. StoreInv'
    BY <1>1, <2>2, <2>3, UncachedWritten DEF Absent
  <2>5. Refusal(call) \in ReplyType
    BY <1>1, RefusalType DEF TypeOK, CallType
  <2> QED BY <1>1, <2>1, <2>2, <2>3, <2>4, <2>5, Returned DEF TypeOK, GrowthType
<1> QED BY <1>3, <1>4 DEF WriteThrough, data

-----------------------------------------------------------------------------
(* Every action keeps the invariant: flushing and Sync. *)

LEMMA FlushNextImageKeeps ==
  ASSUME IInv, FlushNextImage
  PROVE  IInv'
<1> USE DEF IInv
<1>1. PICK i \in call.todo :
        call' = [call EXCEPT !.pc = "flushing", !.image = i, !.at = 0,
                   !.failed = FALSE, !.todo = @ \ {i}]
  BY DEF FlushNextImage
<1>2. /\ call.pc = "images" /\ call.op = "flush" /\ i \in Images /\ call \in CallType
      /\ UNCHANGED <<card, growth, slots, img, nextImageId, reply, faults>>
      /\ \A j \in call.todo : Attached(j)
  BY DEF FlushNextImage, TypeOK, CallType, CallInv
<1>3. /\ call' \in CallType /\ call'.pc = "flushing" /\ call'.op = call.op
      /\ call'.image = i /\ call'.todo = call.todo \ {i}
  <2> DEFINE rest == call.todo \ {i}
  <2>1. 0 \in 0 .. NumSlots /\ rest \in SUBSET Images
    BY <1>2, SizesAssumption DEF CallType
  <2>2. call' = [call EXCEPT !.pc = "flushing", !.image = i, !.at = 0,
                   !.failed = FALSE, !.todo = rest]
    BY <1>1
  <2> HIDE DEF rest
  <2>3. /\ call' \in CallType /\ call'.pc = "flushing" /\ call'.op = call.op
        /\ call'.image = i /\ call'.todo = rest
    BY <1>2, <2>1, <2>2 DEF CallType
  <2> QED BY <2>3 DEF rest
<1>4. CallInv' /\ SlotInv'
  BY <1>2, <1>3 DEF CallInv, SlotInv, Attached
<1> QED BY <1>2, <1>3, <1>4, CallKeeps DEF TypeOK, SameImages

LEMMA FlushSomeReturnsKeeps ==
  ASSUME IInv, FlushSomeReturns
  PROVE  IInv'
<1>1. SameImages /\ img' \in [Images -> ImageType] /\ faults' \in 0 .. MaxFaults
  BY DEF FlushSomeReturns, IInv, TypeOK, SameImages
<1>2. PICK r \in ReplyType : Return(r)
  BY ReplyTypes DEF FlushSomeReturns
<1> QED BY <1>1, <1>2, ReturnKeeps DEF FlushSomeReturns

\* The next slot a flush writes.
LEMMA UnflushedSlot ==
  ASSUME IInv, call.pc = "flushing", NEW k \in Unflushed(call.image)
  PROVE  /\ k \in Slots /\ Dirty(k) /\ Owns(call.image, k) /\ call.image \in Images
         /\ Attached(call.image) /\ k + 1 \in 0 .. NumSlots
<1>1. call.image \in Images /\ Attached(call.image)
  BY DEF IInv, CallInv, TypeOK, CallType
<1>2. k \in Slots /\ Dirty(k) /\ slots[k].image = img[call.image].id
  BY DEF Unflushed
<1>3. k + 1 \in 0 .. NumSlots
  BY <1>2, SizesAssumption DEF Slots
<1> QED BY <1>1, <1>2, <1>3 DEF Owns

LEMMA FlushRunKeeps ==
  ASSUME IInv, FlushRun
  PROVE  IInv'
<1> USE DEF IInv
<1>1. PICK k \in Unflushed(call.image) :
        /\ Written(img[call.image].file, slots[k].chunk,
                   FirstRun(slots[k].dirtyMask), slots[k].data)
        /\ slots' = [slots EXCEPT ![k].dirtyMask = @ \ FirstRun(slots[k].dirtyMask)]
  BY DEF FlushRun
<1>2. /\ call.pc = "flushing"
      /\ img' = [img EXCEPT ![call.image].modified = TRUE]
      /\ UNCHANGED <<nextImageId, call, reply, faults>>
  BY DEF FlushRun
<1>3. k \in Slots /\ Dirty(k) /\ Owns(call.image, k) /\ call.image \in Images
  BY <1>2, UnflushedSlot
<1> DEFINE new == [slots[k] EXCEPT !.dirtyMask = @ \ FirstRun(slots[k].dirtyMask)]
<1>4. new \in SlotType /\ slots' = [slots EXCEPT ![k] = new]
  BY <1>1, <1>3 DEF TypeOK, SlotType
<1>5. /\ StoreInv' /\ SameImages /\ GrowthType'
      /\ card' \in [Files -> [Chunks -> [Sectors -> CardData]]]
      /\ slots' \in [Slots -> SlotType] /\ img' \in [Images -> ImageType]
  BY <1>1, <1>2, <1>3, <1>4, RunWritten
<1>6. CallInv'
  BY <1>2, <1>5 DEF CallInv, SameImages, Attached, TypeOK, CallType
<1>7. SlotInv'
  BY <1>2 DEF SlotInv
<1> QED BY <1>2, <1>5, <1>6, <1>7 DEF TypeOK, GrowthType

LEMMA FlushRunFailsKeeps ==
  ASSUME IInv, FlushRunFails
  PROVE  IInv'
<1> USE DEF IInv
<1>1. PICK k \in Unflushed(call.image), hard \in BOOLEAN :
        /\ WriteFails(call.image, slots[k].chunk, FirstRun(slots[k].dirtyMask),
                      slots[k].data, hard)
        /\ img' = [img EXCEPT ![call.image].err = hard,
                     ![call.image].modified = @ \/ ~hard]
        /\ call' = [call EXCEPT !.failed = TRUE, !.at = k + 1]
  BY DEF FlushRunFails
<1>2. call.pc = "flushing" /\ UNCHANGED <<slots, nextImageId, reply>>
  BY DEF FlushRunFails
<1>3. /\ k \in Slots /\ Dirty(k) /\ Owns(call.image, k) /\ call.image \in Images
      /\ k + 1 \in 0 .. NumSlots /\ Attached(call.image)
  BY <1>2, UnflushedSlot
<1>4. img' \in [Images -> ImageType] /\ SameImages
  BY <1>1, <1>3, FailureFlags
<1>5. /\ StoreInv' /\ faults' \in 0 .. MaxFaults /\ GrowthType'
      /\ card' \in [Files -> [Chunks -> [Sectors -> CardData]]]
  BY <1>1, <1>2, <1>3, <1>4, RunNotWritten
<1>6. /\ call' \in CallType /\ call'.pc = "flushing" /\ call'.op = call.op
      /\ call'.image = call.image /\ call'.todo = call.todo /\ call'.file = call.file
  BY <1>1, <1>2, <1>3 DEF TypeOK, CallType
<1>7. call.todo \subseteq Images
  BY DEF TypeOK, CallType
<1>8. CallInv'
  BY <1>2, <1>3, <1>4, <1>6, <1>7 DEF CallInv, SameImages, Attached
<1>9. SlotInv'
  BY <1>6 DEF SlotInv
<1> QED BY <1>2, <1>4, <1>5, <1>6, <1>8, <1>9 DEF TypeOK, GrowthType

LEMMA FlushAllDirtyReturnsKeeps ==
  ASSUME IInv, FlushAllDirtyReturns
  PROVE  IInv'
<1> USE DEF IInv, FlushAllDirtyReturns
<1>1. /\ call' \in CallType /\ call'.pc = "fsync" /\ call'.op = call.op
      /\ call'.image = call.image /\ call'.todo = call.todo /\ call'.file = call.file
  BY DEF TypeOK, CallType
<1>2. CallInv' /\ SlotInv'
  BY <1>1 DEF CallInv, SlotInv, Attached
<1> QED BY <1>1, <1>2, CallKeeps DEF TypeOK, SameImages

\* What Sync returns to goes on with images that stay attached.
LEMMA SyncReturnsKeeps ==
  ASSUME IInv, call.pc = "fsync", NEW result \in Int, SyncReturns(result),
         \A i \in Images : img'[i].file = img[i].file, UNCHANGED nextImageId
  PROVE  call' \in CallType /\ reply' \in ReplyType /\ CallInv' /\ SlotInv'
<1> USE DEF IInv
<1>1. /\ call \in CallType /\ reply \in ReplyType /\ call.image \in Images
      /\ call.todo \subseteq Images /\ Attached(call.image)
  BY DEF TypeOK, CallType, CallInv
<1>2. CASE call.op = "sync"
  <2>1. PICK r \in ReplyType : Return(r)
    BY <1>2, ReplyTypes DEF SyncReturns
  <2> QED BY <2>1, Returned
<1>3. CASE call.op # "sync"
  <2>1. /\ call' \in CallType /\ call'.op = call.op /\ call'.image = call.image
        /\ call'.todo = call.todo /\ call'.file = call.file
        /\ \/ call.op = "flush" /\ call'.pc = "images"
           \/ call.op # "flush" /\ call'.pc \in {"flushing", "close"}
        /\ UNCHANGED reply
    <3>1. CASE call.op = "flush"
      <4>1. call.imagesFailed \in BOOLEAN
        BY <1>1 DEF CallType
      <4>2. call' = [call EXCEPT !.pc = "images",
                      !.imagesFailed = call.imagesFailed \/ result < 0]
        BY <3>1 DEF SyncReturns
      <4>3. (call.imagesFailed \/ result < 0) \in BOOLEAN
        OBVIOUS
      <4>4. PICK failed \in BOOLEAN :
              call' = [call EXCEPT !.pc = "images", !.imagesFailed = failed]
        BY <4>2, <4>3
      <4>5. UNCHANGED reply
        BY <3>1 DEF SyncReturns
      <4>6. /\ call' \in CallType /\ call'.op = call.op /\ call'.image = call.image
            /\ call'.todo = call.todo /\ call'.file = call.file /\ call'.pc = "images"
        BY <1>1, <4>4 DEF CallType
      <4> QED BY <3>1, <4>5, <4>6
    <3>2. CASE call.op # "flush"
      <4>1. 0 \in 0 .. NumSlots
        BY SizesAssumption
      <4>2. /\ \/ call' = [call EXCEPT !.pc = "flushing", !.at = 0,
                                       !.failed = FALSE, !.tries = 2]
               \/ call' = [call EXCEPT !.pc = "close"]
            /\ UNCHANGED reply
        BY <1>3, <3>2 DEF SyncReturns
      <4>3. CASE call' = [call EXCEPT !.pc = "flushing", !.at = 0,
                                      !.failed = FALSE, !.tries = 2]
        BY <1>1, <3>2, <4>1, <4>2, <4>3 DEF CallType
      <4>4. CASE call' = [call EXCEPT !.pc = "close"]
        BY <1>1, <3>2, <4>2, <4>4 DEF CallType
      <4> QED BY <4>2, <4>3, <4>4
    <3> QED BY <3>1, <3>2
  <2>2. CallInv' /\ SlotInv'
    BY <1>1, <2>1 DEF CallInv, SlotInv, Attached
  <2> QED BY <1>1, <2>1, <2>2
<1> QED BY <1>2, <1>3

LEMMA SyncPartlyKeeps ==
  ASSUME IInv, SyncPartly
  PROVE  IInv'
<1> USE DEF IInv
<1>1. /\ call.pc = "fsync" /\ call.image \in Images
      /\ UNCHANGED <<card, growth, slots, nextImageId, faults>>
      /\ img' = [img EXCEPT ![call.image].writeErrorPending = @ \/ call.failed]
      /\ SyncReturns(IF call.failed THEN -1 ELSE 1)
  BY DEF SyncPartly, TypeOK, CallType
<1>2. img' \in [Images -> ImageType] /\ SameImages
  <2> DEFINE pending == img[call.image].writeErrorPending \/ call.failed
  <2>1. img' = [img EXCEPT ![call.image].writeErrorPending = pending]
    BY <1>1 DEF TypeOK
  <2>2. pending \in BOOLEAN
    OBVIOUS
  <2> HIDE DEF pending
  <2> QED BY <1>1, <2>1, <2>2 DEF TypeOK, ImageType, SameImages
<1>3. call' \in CallType /\ reply' \in ReplyType /\ CallInv' /\ SlotInv'
  BY <1>1, <1>2, SyncReturnsKeeps DEF SameImages
<1> QED BY <1>1, <1>2, <1>3, StoreUntouched DEF TypeOK

\* An image that has no dirty chunk left need not be synced.
LEMMA StoreSynced ==
  ASSUME StoreInv, NEW i \in Images, ~HasDirtyChunks(i),
         UNCHANGED <<card, slots, nextImageId>>,
         \A j \in Images : /\ img'[j].file = img[j].file /\ img'[j].id = img[j].id
                           /\ img'[j].readOnly = img[j].readOnly
                           /\ j # i => img'[j].needSync = img[j].needSync
  PROVE  StoreInv'
<1> USE DEF Attached, Owns, Dirty
<1>1. MaskInv' BY DEF StoreInv, MaskInv
<1>2. IdInv' BY DEF StoreInv, IdInv
<1>3. PlaceInv' BY DEF StoreInv, PlaceInv, Ways
<1>4. OneCopy' BY DEF StoreInv, OneCopy
<1>5. CleanMatchesCard' BY DEF StoreInv, CleanMatchesCard
<1>6. DirtyNeedsSync' BY DEF StoreInv, DirtyNeedsSync, HasDirtyChunks
<1>7. ReadOnlyStaysClean' BY DEF StoreInv, ReadOnlyStaysClean
<1> QED BY <1>1, <1>2, <1>3, <1>4, <1>5, <1>6, <1>7 DEF StoreInv

LEMMA SyncDoneKeeps ==
  ASSUME IInv, SyncDone
  PROVE  IInv'
<1> USE DEF IInv
<1> DEFINE i == call.image
           sync == img[i].needSync /\ call.failed
           pending == img[i].writeErrorPending \/ call.failed
           new == [img[i] EXCEPT !.modified = FALSE, !.needSync = sync,
                     !.writeErrorPending = pending]
<1>1. /\ call.pc = "fsync" /\ i \in Images /\ ~HasDirtyChunks(i)
      /\ UNCHANGED <<card, slots, nextImageId, faults>>
      /\ growth' = Synced(i)
      /\ SyncReturns(IF call.failed THEN -1 ELSE 0)
  BY DEF SyncDone, TypeOK, CallType
<1>2. img' = [img EXCEPT ![i] = new]
  BY <1>1 DEF SyncDone, TypeOK
<1>3. sync \in BOOLEAN /\ pending \in BOOLEAN /\ img[i] \in ImageType
  BY <1>1 DEF TypeOK
<1> HIDE DEF sync, pending
<1>4. /\ new \in ImageType /\ new.file = img[i].file /\ new.id = img[i].id
      /\ new.readOnly = img[i].readOnly
  BY <1>3 DEF ImageType
<1> HIDE DEF new
<1>5. img' \in [Images -> ImageType]
  BY <1>1, <1>2, <1>4 DEF TypeOK
<1>9. ASSUME NEW j \in Images
      PROVE  /\ img'[j].file = img[j].file /\ img'[j].id = img[j].id
             /\ img'[j].readOnly = img[j].readOnly
             /\ j # i => img'[j].needSync = img[j].needSync
  BY <1>1, <1>2, <1>4 DEF TypeOK
<1>6. call' \in CallType /\ reply' \in ReplyType /\ CallInv' /\ SlotInv'
  BY <1>1, <1>9, SyncReturnsKeeps
<1>7. StoreInv'
  BY <1>1, <1>9, StoreSynced
<1>8. growth' \in [Files -> {"saved", "window", "fil"}]
  BY <1>1, SyncedType
<1> QED BY <1>1, <1>5, <1>6, <1>7, <1>8 DEF TypeOK

LEMMA SyncFailsKeeps ==
  ASSUME IInv, SyncFails
  PROVE  IInv'
<1> USE DEF IInv
<1>1. PICK inWindow \in BOOLEAN :
        /\ img' = [img EXCEPT ![call.image].modified = ~inWindow,
                              ![call.image].writeErrorPending = TRUE]
        /\ growth' = Unsynced(call.image, inWindow)
  BY DEF SyncFails
<1>2. /\ call.pc = "fsync" /\ call.image \in Images /\ SyncReturns(-1)
      /\ FSyncFails(call.image)
      /\ UNCHANGED <<card, slots, nextImageId>>
  BY DEF SyncFails, TypeOK, CallType
<1>3. img' \in [Images -> ImageType] /\ SameImages
  <2>1. PICK err \in BOOLEAN, modified \in BOOLEAN :
          err = img[call.image].err /\ modified = ~inWindow
    BY <1>2 DEF TypeOK, ImageType
  <2>2. img' = [img EXCEPT ![call.image] = [img[call.image] EXCEPT
                  !.err = err, !.writeErrorPending = TRUE, !.modified = modified]]
    BY <1>1, <1>2, <2>1 DEF TypeOK, ImageType
  <2> QED BY <1>2, <2>2, FlagsKeep
<1>4. faults' \in 0 .. MaxFaults
  BY <1>2, SizesAssumption DEF FSyncFails, TypeOK
<1>5. call' \in CallType /\ reply' \in ReplyType /\ CallInv' /\ SlotInv'
  BY <1>2, <1>3, SyncReturnsKeeps DEF SameImages
<1>6. growth' \in [Files -> {"saved", "window", "fil"}]
  BY <1>1, <1>2, SyncedType
<1> QED BY <1>2, <1>3, <1>4, <1>5, <1>6, StoreUntouched DEF TypeOK

-----------------------------------------------------------------------------
(* Every action keeps the invariant: Attach, Detach and the power. *)

LEMMA SlotsWithoutType ==
  ASSUME TypeOK, NEW id \in Ids, slots' = SlotsWithout(id)
  PROVE  /\ slots' \in [Slots -> SlotType]
         /\ \A k \in Slots :
              \/ slots'[k] = slots[k] /\ ~(slots[k].valid /\ slots[k].image = id)
              \/ slots'[k] = EmptySlot /\ slots[k].valid /\ slots[k].image = id
         /\ EmptySlot.dirtyMask = {} /\ EmptySlot.validMask = {}
         /\ ~EmptySlot.valid
<1>1. EmptySlot \in SlotType /\ ~EmptySlot.valid
  BY ConstantTypes
<1>2. EmptySlot.dirtyMask = {} /\ EmptySlot.validMask = {}
  BY DEF EmptySlot, NewSlot
<1> QED BY <1>1, <1>2 DEF SlotsWithout, TypeOK

\* Detach takes the image and its slots away; no other file changes on the card.
LEMMA StoreDetached ==
  ASSUME IInv, NEW i \in Images, Attached(i), slots' = SlotsWithout(img[i].id),
         UNCHANGED nextImageId,
         \A f \in Files : f # img[i].file => card'[f] = card[f],
         img'[i].file = NoFile,
         \A j \in Images : j # i =>
           /\ img'[j].file = img[j].file /\ img'[j].id = img[j].id
           /\ img'[j].readOnly = img[j].readOnly
           /\ img'[j].needSync = img[j].needSync
  PROVE  StoreInv'
<1>1. StoreInv /\ TypeOK /\ img[i].id \in Ids
  BY DEF IInv, TypeOK, ImageType
<1>2. /\ \A k \in Slots :
           \/ slots'[k] = slots[k] /\ ~(slots[k].valid /\ slots[k].image = img[i].id)
           \/ slots'[k] = EmptySlot /\ slots[k].valid /\ slots[k].image = img[i].id
      /\ EmptySlot.dirtyMask = {} /\ EmptySlot.validMask = {}
      /\ ~EmptySlot.valid
  BY <1>1, SlotsWithoutType
<1> USE DEF Attached, Owns, Dirty
<1>3. MaskInv' BY <1>1, <1>2 DEF StoreInv, MaskInv
<1>4. IdInv' BY <1>1 DEF StoreInv, IdInv
<1>5. PlaceInv'
  <2> SUFFICES ASSUME NEW k \in Slots, slots'[k].valid
               PROVE  /\ \E j \in Images : Owns(j, k)'
                      /\ k \in {Ways(slots'[k].image, slots'[k].chunk)[1],
                                Ways(slots'[k].image, slots'[k].chunk)[2]}
    BY DEF PlaceInv, Ways
  <2>1. slots'[k] = slots[k] /\ slots[k].image # img[i].id
    BY <1>2
  <2> QED BY <1>1, <2>1 DEF StoreInv, PlaceInv
<1>6. OneCopy' BY <1>1, <1>2 DEF StoreInv, OneCopy
<1>7. CleanMatchesCard'
  <2> SUFFICES ASSUME NEW k \in Slots, NEW j \in Images, slots'[k].valid, Owns(j, k)',
                      NEW s \in slots'[k].validMask \ slots'[k].dirtyMask
               PROVE  slots'[k].data[s] = Whole(card'[img'[j].file][slots'[k].chunk][s])
    BY DEF CleanMatchesCard
  <2>1. j # i /\ slots'[k] = slots[k] /\ Owns(j, k)
    BY <1>2
  <2>2. img[j].file \in Files /\ img[j].file # img[i].file
    BY <1>1, <2>1 DEF StoreInv, IdInv, TypeOK, ImageType
  <2> QED BY <1>1, <2>1, <2>2 DEF StoreInv, CleanMatchesCard
<1>8. DirtyNeedsSync' BY <1>1, <1>2 DEF StoreInv, DirtyNeedsSync
<1>9. ReadOnlyStaysClean' BY <1>1, <1>2 DEF StoreInv, ReadOnlyStaysClean
<1> QED BY <1>3, <1>4, <1>5, <1>6, <1>7, <1>8, <1>9 DEF StoreInv

\* What closing a file does to the card: no other file changes.
LEMMA ClosedFile ==
  ASSUME TypeOK, NEW i \in Images, Attached(i), FileClosed(i)
  PROVE  /\ card' \in [Files -> [Chunks -> [Sectors -> CardData]]]
         /\ \A f \in Files : f # img[i].file => card'[f] = card[f]
         /\ GrowthType' /\ faults' \in 0 .. MaxFaults
<1> USE DEF GrowthType
<1>1. img[i].file \in Files
  BY DEF TypeOK, ImageType, Attached
<1>2. faults' \in 0 .. MaxFaults
  <2>1. UNCHANGED faults \/ (faults < MaxFaults /\ faults' = faults + 1)
    BY DEF FileClosed, FSyncFails
  <2> QED BY <2>1, SizesAssumption DEF TypeOK
<1>3. CASE growth' = Synced(i) /\ UNCHANGED card
  BY <1>2, <1>3, SyncedType DEF TypeOK
<1>4. CASE UNCHANGED <<card, growth>>
  BY <1>2, <1>4 DEF TypeOK
<1>5. CASE growth' = Unsynced(i, TRUE) /\ UNCHANGED card
  BY <1>2, <1>5, SyncedType DEF TypeOK
<1>6. CASE /\ growth' = [growth EXCEPT ![img[i].file] = "saved"]
           /\ card' = [card EXCEPT ![img[i].file] = Shortened(img[i].file)]
  BY <1>1, <1>2, <1>6, ShortenedType DEF TypeOK
<1> QED BY <1>3, <1>4, <1>5, <1>6 DEF FileClosed

\* What Close does to the images: one loses its file, the others keep theirs.
LEMMA ClosedImage ==
  ASSUME IInv, Close
  PROVE  /\ call.pc = "close" /\ call.image \in Images /\ Attached(call.image)
         /\ call \in CallType
         /\ slots' = SlotsWithout(img[call.image].id)
         /\ UNCHANGED nextImageId /\ FileClosed(call.image)
         /\ img[call.image].id \in Ids
         /\ img' \in [Images -> ImageType] /\ img'[call.image].file = NoFile
         /\ \A j \in Images : j # call.image => img'[j] = img[j]
<1> USE DEF IInv
<1> DEFINE i == call.image
<1>1. /\ call.pc = "close" /\ i \in Images /\ Attached(i) /\ call \in CallType
      /\ slots' = SlotsWithout(img[i].id) /\ UNCHANGED nextImageId
      /\ FileClosed(i) /\ img[i].id \in Ids
      /\ img' = [img EXCEPT ![i] = DetachedImage(i)]
  BY DEF Close, TypeOK, CallType, CallInv, ImageType
<1>2. /\ DetachedImage(i) \in ImageType /\ DetachedImage(i).file = NoFile
  <2>1. PICK pending \in BOOLEAN : pending = img[i].writeErrorPending
    BY <1>1 DEF TypeOK, ImageType
  <2>2. [NewImage EXCEPT !.writeErrorPending = pending] \in ImageType
        /\ [NewImage EXCEPT !.writeErrorPending = pending].file = NoFile
    BY ConstantTypes DEF ImageType
  <2> QED BY <2>1, <2>2 DEF DetachedImage
<1> QED BY <1>1, <1>2 DEF TypeOK

LEMMA CloseKeeps ==
  ASSUME IInv, Close
  PROVE  IInv'
<1> USE DEF IInv
<1> DEFINE i == call.image
<1>1. /\ call.pc = "close" /\ i \in Images /\ Attached(i) /\ call \in CallType
      /\ slots' = SlotsWithout(img[i].id) /\ UNCHANGED nextImageId
      /\ FileClosed(i) /\ img[i].id \in Ids
      /\ img' \in [Images -> ImageType] /\ img'[i].file = NoFile
      /\ \A j \in Images : j # i => img'[j] = img[j]
  BY ClosedImage
<1>6. /\ card' \in [Files -> [Chunks -> [Sectors -> CardData]]]
      /\ \A f \in Files : f # img[i].file => card'[f] = card[f]
      /\ GrowthType' /\ faults' \in 0 .. MaxFaults
  BY <1>1, ClosedFile
<1>2. StoreInv'
  BY <1>1, <1>6, StoreDetached
<1>3. slots' \in [Slots -> SlotType]
  BY <1>1, SlotsWithoutType
<1>4. CASE Return(Ok)
  BY <1>1, <1>2, <1>3, <1>4, <1>6, Returned, ReplyTypes DEF TypeOK, GrowthType
<1>5. CASE /\ call.op = "attach" /\ call' = [call EXCEPT !.pc = "open"]
            /\ UNCHANGED reply
  <2>1. /\ call' \in CallType /\ call'.pc = "open" /\ call'.op = "attach"
        /\ call'.image = i /\ call'.file = call.file
    BY <1>1, <1>5 DEF CallType
  <2>2. /\ call.file \in Files /\ nextImageId < MaxAttach
        /\ \A j \in Images : img[j].file # call.file
    BY <1>1, <1>5 DEF CallInv
  <2>3. \A j \in Images : img'[j].file # call.file
    BY <1>1, <2>2, FilesAssumption
  <2>4. CallInv'
    BY <1>1, <2>1, <2>2, <2>3 DEF CallInv, Attached
  <2>5. SlotInv'
    BY <2>1 DEF SlotInv
  <2> QED BY <1>1, <1>2, <1>3, <1>5, <1>6, <2>1, <2>4, <2>5 DEF TypeOK, GrowthType
<1> QED BY <1>4, <1>5 DEF Close

\* What Open does: the image gets a file and an id that none had, and no slot
\* is its own yet.
LEMMA OpenedImage ==
  ASSUME IInv, Open
  PROVE  /\ call.image \in Images /\ ~Attached(call.image) /\ call.file \in Files
         /\ \A j \in Images : img[j].file # call.file
         /\ nextImageId \in Int /\ nextImageId' = nextImageId + 1
         /\ nextImageId' \in Ids /\ faults' \in 0 .. MaxFaults
         /\ UNCHANGED <<card, growth, slots>> /\ Return(Ok)
         /\ \A k \in Slots : slots[k].valid => slots[k].image < nextImageId
         /\ img' \in [Images -> ImageType]
         /\ img'[call.image].file = call.file
         /\ img'[call.image].id = nextImageId /\ ~img'[call.image].needSync
         /\ \A j \in Images : j # call.image => img'[j] = img[j]
<1> USE DEF IInv
<1> DEFINE i == call.image
<1>1. PICK readOnly \in BOOLEAN :
        img' = [img EXCEPT ![i] =
                  [@ EXCEPT !.file = call.file, !.readOnly = readOnly,
                     !.id = nextImageId, !.needSync = FALSE,
                     !.err = FALSE, !.modified = FALSE]]
  BY DEF Open
<1>2. /\ i \in Images /\ ~Attached(i) /\ call.file \in Files
      /\ \A j \in Images : img[j].file # call.file
      /\ nextImageId < MaxAttach /\ nextImageId \in Ids
      /\ slots' = SlotsWithout(nextImageId) /\ nextImageId' = nextImageId + 1
      /\ UNCHANGED <<card, growth>> /\ Return(Ok)
  BY DEF Open, TypeOK, CallType, CallInv
<1>3. nextImageId + 1 \in Ids /\ nextImageId \in Int
  BY <1>2, SizesAssumption DEF Ids
<1>4. faults' \in 0 .. MaxFaults
  BY SizesAssumption DEF Open, TypeOK
<1> DEFINE new == [img[i] EXCEPT !.file = call.file, !.readOnly = readOnly,
                     !.id = nextImageId, !.needSync = FALSE,
                     !.err = FALSE, !.modified = FALSE]
<1>5. /\ new \in ImageType /\ new.file = call.file /\ new.id = nextImageId
      /\ ~new.needSync
  BY ZenonT(60), <1>2 DEF TypeOK, ImageType
<1>6. /\ img' \in [Images -> ImageType] /\ img'[i] = new
      /\ \A j \in Images : j # i => img'[j] = img[j]
  <2>1. img' = [img EXCEPT ![i] = new]
    BY <1>1, <1>2 DEF TypeOK
  <2> HIDE DEF new
  <2> QED BY <1>2, <1>5, <2>1 DEF TypeOK
<1>7. \A k \in Slots : slots[k].valid => slots[k].image < nextImageId
  BY DEF StoreInv, PlaceInv, IdInv, Owns
<1>8. UNCHANGED slots
  BY <1>2, <1>3, <1>7 DEF SlotsWithout, TypeOK
<1> QED BY <1>2, <1>3, <1>4, <1>5, <1>6, <1>7, <1>8

LEMMA OpenKeeps ==
  ASSUME IInv, Open
  PROVE  IInv'
<1> USE DEF IInv
<1> DEFINE i == call.image
<1>1. /\ i \in Images /\ ~Attached(i) /\ call.file \in Files
      /\ \A j \in Images : img[j].file # call.file
      /\ nextImageId \in Int /\ nextImageId' = nextImageId + 1
      /\ nextImageId' \in Ids /\ faults' \in 0 .. MaxFaults
      /\ UNCHANGED <<card, growth, slots>> /\ Return(Ok)
      /\ \A k \in Slots : slots[k].valid => slots[k].image < nextImageId
      /\ img' \in [Images -> ImageType]
      /\ img'[i].file = call.file /\ img'[i].id = nextImageId /\ ~img'[i].needSync
      /\ \A j \in Images : j # i => img'[j] = img[j]
  BY OpenedImage
<1> USE DEF Attached, Owns, Dirty
<1>2. \A j \in Images : Attached(j) => j # i /\ img[j].id < nextImageId /\ img[j].id \in Int
  BY <1>1 DEF StoreInv, IdInv, TypeOK, ImageType, Ids
<1>3. IdInv'
  BY <1>1, <1>2 DEF StoreInv, IdInv
<1>4. PlaceInv'
  <2> SUFFICES ASSUME NEW k \in Slots, slots[k].valid
               PROVE  /\ \E j \in Images : Owns(j, k)'
                      /\ k \in {Ways(slots[k].image, slots[k].chunk)[1],
                                Ways(slots[k].image, slots[k].chunk)[2]}
    BY <1>1 DEF PlaceInv, Ways
  <2> QED BY <1>1, <1>2 DEF StoreInv, PlaceInv
<1>5. ASSUME NEW k \in Slots, slots[k].valid, NEW j \in Images, Owns(j, k)'
       PROVE  Owns(j, k) /\ j # i
  BY <1>1, <1>5
<1>6. MaskInv' BY <1>1 DEF StoreInv, MaskInv
<1>7. OneCopy' BY <1>1 DEF StoreInv, OneCopy
<1>8. CleanMatchesCard'
  BY <1>1, <1>5 DEF StoreInv, CleanMatchesCard
<1>9. DirtyNeedsSync' BY <1>1, <1>5 DEF StoreInv, DirtyNeedsSync
<1>10. ReadOnlyStaysClean'
  BY <1>1, <1>5 DEF StoreInv, ReadOnlyStaysClean
<1>11. StoreInv'
  BY <1>3, <1>4, <1>6, <1>7, <1>8, <1>9, <1>10 DEF StoreInv
<1>12. call' \in CallType /\ reply' \in ReplyType /\ CallInv' /\ SlotInv'
  BY <1>1, Returned, ReplyTypes
<1> QED BY <1>1, <1>11, <1>12 DEF TypeOK

LEMMA OpenFailsKeeps ==
  ASSUME IInv, OpenFails
  PROVE  IInv'
<1>1. /\ SameImages /\ img' \in [Images -> ImageType] /\ faults' \in 0 .. MaxFaults
  BY SizesAssumption DEF OpenFails, IInv, TypeOK, SameImages
<1> QED BY <1>1, ReturnKeeps, ReplyTypes DEF OpenFails

\* An empty cache and no image attached, as after power up.
LEMMA EmptyStore ==
  ASSUME slots = [k \in Slots |-> EmptySlot], img = [i \in Images |-> NewImage],
         call = NoCall
  PROVE  StoreInv /\ CallInv /\ SlotInv
<1>1. /\ \A k \in Slots : /\ ~slots[k].valid
                          /\ slots[k].validMask = {} /\ slots[k].dirtyMask = {}
      /\ \A i \in Images : img[i].file = NoFile
  BY ConstantTypes DEF EmptySlot, NewSlot
<1>2. call.pc = "idle" /\ call.op = "none"
  BY DEF NoCall
<1>3. StoreInv
  BY <1>1 DEF StoreInv, MaskInv, IdInv, PlaceInv, OneCopy, CleanMatchesCard,
              DirtyNeedsSync, ReadOnlyStaysClean, Attached, Owns, Dirty
<1> QED BY <1>2, <1>3 DEF CallInv, SlotInv

LEMMA PowerCycleKeeps ==
  ASSUME IInv, PowerCycle
  PROVE  IInv'
<1>1. /\ \A k \in Slots : /\ ~slots'[k].valid
                          /\ slots'[k].validMask = {} /\ slots'[k].dirtyMask = {}
      /\ \A i \in Images : img'[i].file = NoFile
  BY ConstantTypes DEF PowerCycle, EmptySlot, NewSlot
<1>2. call'.pc = "idle" /\ call'.op = "none"
  BY DEF PowerCycle, NoCall
<1>3. StoreInv'
  BY <1>1 DEF StoreInv, MaskInv, IdInv, PlaceInv, OneCopy, CleanMatchesCard,
              DirtyNeedsSync, ReadOnlyStaysClean, Attached, Owns, Dirty
<1>4. CallInv' /\ SlotInv'
  BY <1>2 DEF CallInv, SlotInv
<1>5. card' \in [Files -> [Chunks -> [Sectors -> CardData]]]
  BY ShortenedType DEF PowerCycle, IInv, TypeOK
<1>6. TypeOK'
  BY <1>5, ConstantTypes, ReplyTypes DEF PowerCycle, IInv, TypeOK
<1> QED BY <1>3, <1>4, <1>6 DEF IInv

-----------------------------------------------------------------------------
(* The theorems. *)

LEMMA InitHolds == Init => IInv
<1> SUFFICES ASSUME Init PROVE IInv
  OBVIOUS
<1>1. StoreInv /\ CallInv /\ SlotInv
  BY EmptyStore DEF Init
<1>2. card \in [Files -> [Chunks -> [Sectors -> CardData]]]
  BY DEF Init, CardData, SectorData, Short
<1>3. TypeOK
  BY <1>2, ConstantTypes, ReplyTypes DEF Init, TypeOK
<1> QED BY <1>1, <1>3 DEF IInv

LEMMA CallsKeep ==
  ASSUME IInv, Calls
  PROVE  IInv'
<1>1. CASE \E i \in Images, a \in Accessed : Access(i, a[1], a[2])
  <2>1. PICK i \in Images, a \in Accessed : Access(i, a[1], a[2])
    BY <1>1
  <2>2. a[1] \in Chunks /\ a[2] \in Sectors
    BY FilesAssumption DEF Addresses
  <2> QED BY <2>1, <2>2, ReadSectorKeeps, WriteSectorKeeps, ReadUncachedKeeps DEF Access
<1>2. CASE \E budget \in BOOLEAN : FlushSome(budget)
  BY <1>2, FlushSomeKeeps
<1>3. CASE \E i \in Images : SyncImage(i) \/ Detach(i) \/ TakeWriteError(i)
  BY <1>3, SyncImageKeeps, DetachKeeps, TakeWriteErrorKeeps
<1>4. CASE \E i \in Images, f \in Files : Attach(i, f)
  BY <1>4, AttachKeeps
<1> QED BY <1>1, <1>2, <1>3, <1>4 DEF Calls

LEMMA TakeReplyKeeps ==
  ASSUME IInv, TakeReply
  PROVE  IInv'
<1>1. UNCHANGED <<card, growth, slots, img, nextImageId, call, faults>>
  BY DEF TakeReply
<1>2. TypeOK' /\ SameImages
  BY <1>1, ReplyTypes DEF TakeReply, IInv, TypeOK, SameImages
<1>3. StoreInv'
  BY <1>1, <1>2, StoreUntouched DEF IInv
<1>4. CallInv' /\ SlotInv'
  BY <1>1 DEF TakeReply, CallInv, SlotInv, IInv, Attached
<1> QED BY <1>2, <1>3, <1>4 DEF IInv

LEMMA StepKeeps ==
  ASSUME IInv, Step
  PROVE  IInv'
BY TakeReplyKeeps, EvictRunKeeps, EvictFailsKeeps, ReadFromSlotKeeps, ReadIntoSlotKeeps,
   ReadIntoSlotFailsKeeps, WriteIntoSlotKeeps, ReadThroughKeeps, WriteThroughKeeps,
   FlushNextImageKeeps, FlushSomeReturnsKeeps, FlushRunKeeps, FlushRunFailsKeeps,
   FlushAllDirtyReturnsKeeps, SyncPartlyKeeps, SyncDoneKeeps, SyncFailsKeeps,
   CloseKeeps, OpenKeeps, OpenFailsKeeps DEF Step

LEMMA StutterKeeps == IInv /\ UNCHANGED vars => IInv'
<1> SUFFICES ASSUME IInv, UNCHANGED vars PROVE IInv'
  OBVIOUS
<1>1. UNCHANGED <<card, growth, slots, img, nextImageId, call, reply, faults>>
  BY DEF vars
<1>2. TypeOK' /\ SameImages
  BY <1>1 DEF IInv, TypeOK, SameImages
<1>3. StoreInv'
  BY <1>1, <1>2, StoreUntouched DEF IInv
<1>4. CallInv'
  BY <1>1 DEF IInv, CallInv, Within, Attached
<1>5. SlotInv'
  BY <1>1 DEF IInv, SlotInv, Dirty, Absent, Holds, Ways, OtherWay
<1> QED BY <1>2, <1>3, <1>4, <1>5 DEF IInv

\* The inductive invariant holds throughout: every call of class ScsiImage, the
\* card failing at any access and the power going at any time.
THEOREM Inductive == Spec => []IInv
<1>1. IInv /\ [Next]_vars => IInv'
  BY CallsKeep, StepKeeps, PowerCycleKeeps, StutterKeeps DEF Next
<1> QED BY InitHolds, <1>1, PTL DEF Spec

\* Every member keeps its type: slot and image numbers stay in range, and no
\* sector that was never filled is ever returned or written.
THEOREM TypeCorrect == Spec => []TypeOK
<1>1. IInv => TypeOK
  BY DEF IInv
<1> QED BY <1>1, Inductive, PTL

\* With any number of slots, any size of a chunk and any hash function no chunk
\* is held twice, each has one attached image to be written for, clean sectors
\* are what the card holds, and a flush looks at every image with dirty ones.
THEOREM CacheStaysSound == Spec => []CacheIsSound
<1>1. IInv => OneCopy /\ CleanMatchesCard /\ DirtyNeedsSync
  BY DEF IInv, StoreInv
<1>2. IInv => OwnersAttached
  BY DEF IInv, StoreInv, OwnersAttached, PlaceInv, IdInv, Owns
<1>3. IInv => CacheIsSound
  BY <1>1, <1>2 DEF CacheIsSound
<1> QED BY <1>3, Inductive, PTL

\* No chunk of an image opened read-only becomes dirty.
THEOREM ReadOnlyIsClean == Spec => []ReadOnlyStaysClean
<1>1. IInv => ReadOnlyStaysClean
  BY DEF IInv, StoreInv
<1> QED BY <1>1, Inductive, PTL

-----------------------------------------------------------------------------
(* No failure goes untold: what a flush has still to do. *)

\* Only FlushSome has a time budget.
BudgetInv == call.op # "flush" => ~call.budget

\* Until a chunk failed FlushAllDirty leaves no dirty one behind it.
ScanInv ==
  /\ call.pc = "flushing" /\ ~call.failed =>
       \A k \in Slots : Dirty(k) /\ slots[k].image = img[call.image].id => k >= call.at
  /\ call.pc = "fsync" /\ ~call.failed /\ ~call.budget => ~HasDirtyChunks(call.image)

\* What a Detach is about to drop is latched.
LatchInv ==
  call.pc = "close" /\ HasDirtyChunks(call.image) => img[call.image].writeErrorPending

\* Until an image failed, FlushAll leaves only the images it has yet to visit
\* with dirty chunks, and the one it is at.
TodoInv ==
  /\ call.op = "flush" /\ call.pc \in {"images", "flushing", "fsync"}
  /\ ~call.budget /\ ~call.imagesFailed
  => \A i \in Images : Attached(i) /\ HasDirtyChunks(i) =>
       i \in call.todo \/ (call.pc # "images" /\ i = call.image)

FlushInv == BudgetInv /\ ScanInv /\ LatchInv /\ TodoInv

\* A call that is not part of a flush, or has returned.
LEMMA NotFlushing ==
  ASSUME call'.pc \notin {"flushing", "fsync", "close", "images"},
         call'.op # "flush" => ~call'.budget
  PROVE  FlushInv'
BY DEF FlushInv, BudgetInv, ScanInv, LatchInv, TodoInv

LEMMA ReturnedNotFlushing ==
  ASSUME NEW r, Return(r)
  PROVE  FlushInv'
<1>1. call'.pc = "idle" /\ ~call'.budget
  BY DEF Return, NoCall
<1> QED BY <1>1, NotFlushing

LEMMA FindSlotNotFlushing ==
  ASSUME NEW frame \in CallType, FindSlot(frame), ~frame.budget
  PROVE  FlushInv'
<1>1. call'.pc \in {"serve", "evict"} /\ call'.budget = frame.budget
  BY DEF FindSlot, CallType
<1> QED BY <1>1, NotFlushing

LEMMA AccessNotFlushing ==
  ASSUME NEW i \in Images, NEW c \in Chunks, NEW s \in Sectors, Access(i, c, s)
  PROVE  FlushInv'
<1>1. Frame("read", i, c, s) \in CallType /\ ~Frame("read", i, c, s).budget
  BY ConstantTypes DEF Frame, CallType, NoCall
<1>2. ASSUME NEW d \in Data
      PROVE  LET frame == [Frame("write", i, c, s) EXCEPT !.data = d]
             IN  frame \in CallType /\ ~frame.budget
  BY ConstantTypes DEF Frame, CallType, NoCall
<1>3. CASE ReadSector(i, c, s)
  BY <1>1, <1>3, ReturnedNotFlushing, FindSlotNotFlushing DEF ReadSector
<1>4. CASE \E d \in Data : WriteSector(i, c, s, d)
  BY <1>2, <1>4, ReturnedNotFlushing, FindSlotNotFlushing DEF WriteSector
<1>5. CASE ReadSectorUncached(i, c, s) \/ ReadSectorPhysical(i, c, s)
  BY <1>5, ReturnedNotFlushing DEF ReadSectorUncached, ReadSectorPhysical, ReadCard
<1> QED BY <1>3, <1>4, <1>5 DEF Access

\* FlushSome finds all there is to do, since dirty chunks need a Sync.
LEMMA FlushSomeFinds ==
  ASSUME IInv, NEW budget \in BOOLEAN, FlushSome(budget)
  PROVE  FlushInv'
<1>1. /\ call'.pc = "images" /\ call'.op = "flush"
      /\ call'.todo = {i \in Images : Attached(i) /\ img[i].needSync}
      /\ UNCHANGED <<slots, img>>
  BY DEF FlushSome, NoCall
<1>2. \A i \in Images : Attached(i) /\ HasDirtyChunks(i) => img[i].needSync
  BY DEF IInv, StoreInv, DirtyNeedsSync, HasDirtyChunks, Owns
<1>3. TodoInv'
  BY <1>1, <1>2 DEF TodoInv, Attached, HasDirtyChunks, Dirty
<1> QED BY <1>1, <1>3 DEF FlushInv, BudgetInv, ScanInv, LatchInv

\* A flush of one image starts at the first slot.
LEMMA ScanStarts ==
  ASSUME call'.pc = "flushing", call'.at = 0, call'.op # "flush", ~call'.budget
  PROVE  FlushInv'
<1>1. ScanInv'
  BY DEF ScanInv, Slots
<1> QED BY <1>1 DEF FlushInv, BudgetInv, LatchInv, TodoInv

LEMMA DetachStarts ==
  ASSUME IInv, NEW i \in Images, NEW frame \in CallType,
         frame.at = 0, frame.op # "flush", ~frame.budget,
         call' = DetachFrame(frame, i), UNCHANGED <<slots, img>>
  PROVE  FlushInv'
<1>1. /\ call'.image = i /\ call'.at = 0 /\ call'.op # "flush" /\ ~call'.budget
      /\ call'.pc = IF Attached(i)
                    THEN IF img[i].needSync THEN "flushing" ELSE "close"
                    ELSE "open"
  BY DEF DetachFrame, CallType
<1>2. CASE call'.pc = "close"
  <2>1. ~HasDirtyChunks(i)
    BY <1>1, <1>2 DEF IInv, StoreInv, DirtyNeedsSync, HasDirtyChunks, Owns
  <2>2. LatchInv'
    BY <1>1, <2>1 DEF LatchInv, HasDirtyChunks, Dirty
  <2> QED BY <1>1, <1>2, <2>2 DEF FlushInv, BudgetInv, ScanInv, TodoInv
<1> QED BY <1>1, <1>2, ScanStarts, NotFlushing

LEMMA CallsFlushRight ==
  ASSUME IInv, Calls
  PROVE  FlushInv'
<1>1. CASE \E i \in Images, a \in Accessed : Access(i, a[1], a[2])
  BY <1>1, AccessNotFlushing, FilesAssumption DEF Addresses
<1>2. CASE \E budget \in BOOLEAN : FlushSome(budget)
  BY <1>2, FlushSomeFinds
<1>3. CASE \E i \in Images : SyncImage(i)
  <2>1. PICK i \in Images : SyncImage(i)
    BY <1>3
  <2>2. CASE call' = [NoCall EXCEPT !.op = "sync", !.pc = "flushing", !.image = i]
    BY <2>2, ScanStarts DEF NoCall
  <2> QED BY <2>1, <2>2, ReturnedNotFlushing DEF SyncImage
<1>4. CASE \E i \in Images : Detach(i)
  <2>1. PICK i \in Images : Detach(i)
    BY <1>4
  <2> DEFINE frame == [NoCall EXCEPT !.op = "detach"]
  <2>2. frame \in CallType /\ frame.at = 0 /\ frame.op # "flush" /\ ~frame.budget
    BY ConstantTypes DEF CallType, NoCall
  <2>3. CASE call' = DetachFrame(frame, i) /\ UNCHANGED <<slots, img>>
    <3> HIDE DEF frame
    <3> QED BY <2>2, <2>3, DetachStarts
  <2> QED BY <2>1, <2>3, ReturnedNotFlushing DEF Detach
<1>5. CASE \E i \in Images : TakeWriteError(i)
  BY <1>5, ReturnedNotFlushing DEF TakeWriteError
<1>6. CASE \E i \in Images, f \in Files : Attach(i, f)
  <2>1. PICK i \in Images, f \in Files : Attach(i, f)
    BY <1>6
  <2> DEFINE frame == [NoCall EXCEPT !.op = "attach", !.file = f]
  <2>2. frame \in CallType /\ frame.at = 0 /\ frame.op # "flush" /\ ~frame.budget
    BY ConstantTypes DEF CallType, NoCall
  <2>3. call' = DetachFrame(frame, i) /\ UNCHANGED <<slots, img>>
    BY <2>1 DEF Attach
  <2> HIDE DEF frame
  <2> QED BY <2>2, <2>3, DetachStarts
<1> QED BY <1>1, <1>2, <1>3, <1>4, <1>5, <1>6 DEF Calls

\* The steps of a read or a write.
LEMMA AccessStepsNotFlushing ==
  ASSUME IInv, FlushInv,
         \/ EvictRun \/ EvictFails \/ ReadFromSlot \/ ReadIntoSlot
         \/ ReadIntoSlotFails \/ WriteIntoSlot \/ ReadThrough \/ WriteThrough
         \/ Open \/ OpenFails \/ FlushSomeReturns \/ TakeReply
  PROVE  FlushInv'
<1>1. CASE EvictRun \/ EvictFails
  <2>1. call \in CallType /\ ~call.budget /\ call.pc \in {"evict", "evictOther"}
    BY <1>1 DEF IInv, TypeOK, CallInv, FlushInv, BudgetInv, EvictRun, EvictFails
  <2>2. /\ call'.pc \in {"evict", "evictOther", "serve", "through"}
        /\ call'.budget = call.budget
    BY <1>1, <2>1 DEF EvictRun, EvictFails, CallType
  <2> QED BY <2>1, <2>2, NotFlushing
<1>2. CASE TakeReply
  BY <1>2, NotFlushing DEF TakeReply, FlushInv, BudgetInv
<1>3. CASE ~(EvictRun \/ EvictFails \/ TakeReply)
  BY <1>3, ReturnedNotFlushing
     DEF ReadFromSlot, ReadIntoSlot, ReadIntoSlotFails, WriteIntoSlot,
         ReadThrough, WriteThrough, Open, OpenFails, FlushSomeReturns
<1> QED BY <1>1, <1>2, <1>3

LEMMA FlushNextImageFlushesRight ==
  ASSUME IInv, FlushInv, FlushNextImage
  PROVE  FlushInv'
<1>1. call \in CallType /\ call.pc = "images" /\ call.op = "flush"
  BY DEF IInv, TypeOK, CallInv, FlushNextImage
<1>2. PICK i \in call.todo :
        call' = [call EXCEPT !.pc = "flushing", !.image = i, !.at = 0,
                   !.failed = FALSE, !.todo = @ \ {i}]
  BY DEF FlushNextImage
<1>3. /\ call'.pc = "flushing" /\ call'.image = i /\ call'.at = 0
      /\ call'.todo = call.todo \ {i} /\ call'.op = "flush"
      /\ call'.budget = call.budget /\ call'.imagesFailed = call.imagesFailed
      /\ UNCHANGED <<slots, img>>
  BY <1>1, <1>2 DEF CallType, FlushNextImage
<1>4. ScanInv'
  BY <1>3 DEF ScanInv, Slots
<1>5. TodoInv'
  BY <1>1, <1>3 DEF FlushInv, TodoInv, Attached, HasDirtyChunks, Dirty
<1> QED BY <1>3, <1>4, <1>5 DEF FlushInv, BudgetInv, LatchInv

\* No image changes its file.
SameFiles ==
  \A i \in Images : img'[i].file = img[i].file /\ img'[i].id = img[i].id

\* A chunk went out, or did not: none becomes dirty.
LEMMA ScanGoesOn ==
  ASSUME FlushInv, call.pc = "flushing", call'.pc = "flushing",
         call'.op = call.op, call'.image = call.image, call'.todo = call.todo,
         call'.budget = call.budget, call'.imagesFailed = call.imagesFailed,
         ~call'.failed => ~call.failed /\ call'.at = call.at,
         \A k \in Slots : Dirty(k)' => Dirty(k) /\ slots'[k].image = slots[k].image,
         SameFiles, call.image \in Images
  PROVE  FlushInv'
<1>1. ScanInv'
  BY DEF FlushInv, ScanInv, SameFiles
<1>2. TodoInv'
  BY DEF FlushInv, TodoInv, SameFiles, Attached, HasDirtyChunks
<1> QED BY <1>1, <1>2 DEF FlushInv, BudgetInv, LatchInv

LEMMA FlushStepsFlushRight ==
  ASSUME IInv, FlushInv, FlushRun \/ FlushRunFails
  PROVE  FlushInv'
<1>1. call.pc = "flushing" /\ call \in CallType /\ call.image \in Images
  BY DEF IInv, TypeOK, CallType, FlushRun, FlushRunFails
<1>2. SameFiles
  <2>1. CASE FlushRun
    <3>1. img' = [img EXCEPT ![call.image].modified = TRUE]
      BY <2>1 DEF FlushRun
    <3> QED BY <1>1, <3>1 DEF SameFiles, IInv, TypeOK, ImageType
  <2>2. CASE FlushRunFails
    <3>1. SameImages
      BY <1>1, <2>2, FailureFlags DEF FlushRunFails, IInv
    <3> QED BY <3>1 DEF SameFiles, SameImages
  <2> QED BY <2>1, <2>2
<1>3. CASE FlushRun
  <2>1. PICK k \in Slots :
          slots' = [slots EXCEPT ![k].dirtyMask = @ \ FirstRun(slots[k].dirtyMask)]
    BY <1>3 DEF FlushRun, Unflushed
  <2>2. \A j \in Slots : /\ slots'[j].valid = slots[j].valid
                         /\ slots'[j].image = slots[j].image
                         /\ slots'[j].dirtyMask \subseteq slots[j].dirtyMask
    BY <2>1 DEF IInv, TypeOK, SlotType
  <2> QED BY <1>1, <1>2, <1>3, <2>2, ScanGoesOn DEF FlushRun, Dirty
<1>4. CASE FlushRunFails
  <2>1. /\ call'.pc = call.pc /\ call'.op = call.op /\ call'.image = call.image
        /\ call'.todo = call.todo /\ call'.budget = call.budget
        /\ call'.imagesFailed = call.imagesFailed /\ call'.failed
        /\ UNCHANGED slots
    BY <1>1, <1>4 DEF FlushRunFails, CallType
  <2> QED BY <1>1, <1>2, <2>1, ScanGoesOn DEF Dirty
<1> QED BY <1>3, <1>4

\* Without a deadline every slot of the image was visited.
LEMMA ScanEnds ==
  ASSUME IInv, FlushInv, FlushAllDirtyReturns
  PROVE  FlushInv'
<1>1. call \in CallType /\ call.pc = "flushing"
  BY DEF IInv, TypeOK, FlushAllDirtyReturns
<1>2. /\ call'.pc = "fsync" /\ call'.op = call.op /\ call'.image = call.image
      /\ call'.todo = call.todo /\ call'.budget = call.budget
      /\ call'.imagesFailed = call.imagesFailed /\ call'.failed = call.failed
      /\ UNCHANGED <<slots, img>>
  BY <1>1 DEF FlushAllDirtyReturns, CallType
<1>3. ScanInv'
  <2>1. ~call.failed /\ ~call.budget => ~HasDirtyChunks(call.image)
    BY <1>1 DEF FlushInv, ScanInv, FlushAllDirtyReturns, Unflushed, HasDirtyChunks
  <2> QED BY <1>2, <2>1 DEF ScanInv, HasDirtyChunks, Dirty
<1>4. TodoInv'
  BY <1>1, <1>2 DEF FlushInv, TodoInv, Attached, HasDirtyChunks, Dirty
<1> QED BY <1>2, <1>3, <1>4 DEF FlushInv, BudgetInv, LatchInv

\* Sync is done with its image: none of its chunks is dirty, or it has failed,
\* or run out of time.
LEMMA SyncEnds ==
  ASSUME IInv, FlushInv, NEW result \in Int, SyncReturns(result),
         call.pc = "fsync", UNCHANGED slots, SameFiles,
         HasDirtyChunks(call.image) =>
           /\ result < 0 => img'[call.image].writeErrorPending
           /\ result >= 0 => ~call.failed
  PROVE  FlushInv'
<1>1. /\ call \in CallType /\ call.image \in Images
      /\ call.op \in {"sync", "attach", "detach"} => ~call.budget
  BY DEF IInv, TypeOK, CallType, FlushInv, BudgetInv
<1>2. \A i \in Images : /\ HasDirtyChunks(i)' <=> HasDirtyChunks(i)
                        /\ Attached(i)' <=> Attached(i)
  BY DEF HasDirtyChunks, Attached, Dirty, SameFiles
<1>3. CASE call.op = "flush" /\ call' = [call EXCEPT !.pc = "images",
                                           !.imagesFailed = @ \/ result < 0]
  <2>1. /\ call'.pc = "images" /\ call'.op = "flush" /\ call'.todo = call.todo
        /\ call'.budget = call.budget
        /\ ~call'.imagesFailed => ~call.imagesFailed /\ result >= 0
    <3>1. PICK worse \in BOOLEAN : worse <=> (call.imagesFailed \/ result < 0)
      OBVIOUS
    <3>2. call' = [call EXCEPT !.pc = "images", !.imagesFailed = worse]
      BY <1>1, <1>3, <3>1 DEF CallType
    <3>3. call'.imagesFailed = worse
      BY <1>1, <3>2 DEF CallType
    <3>4. ~worse => ~call.imagesFailed /\ result >= 0
      BY <3>1
    <3> QED BY <1>1, <1>3, <3>2, <3>3, <3>4 DEF CallType
  <2>2. TodoInv'
    <3> SUFFICES ASSUME ~call.budget, ~call.imagesFailed, result >= 0,
                        NEW i \in Images, Attached(i), HasDirtyChunks(i)
                 PROVE  i \in call.todo
      BY <1>2, <2>1 DEF TodoInv
    <3>1. ~HasDirtyChunks(call.image)
      BY DEF FlushInv, ScanInv
    <3> QED BY <1>3, <3>1 DEF FlushInv, TodoInv
  <2> QED BY <2>1, <2>2 DEF FlushInv, BudgetInv, ScanInv, LatchInv
<1>4. CASE /\ call.op \in {"attach", "detach"}
           /\ call' = [call EXCEPT !.pc = "flushing", !.at = 0,
                         !.failed = FALSE, !.tries = 2]
  <2>1. call'.pc = "flushing" /\ call'.at = 0 /\ call'.op # "flush" /\ ~call'.budget
    BY <1>1, <1>4 DEF CallType
  <2> QED BY <2>1, ScanStarts
<1>5. CASE /\ call.op \in {"attach", "detach"}
           /\ call' = [call EXCEPT !.pc = "close"]
  <2>1. /\ call'.pc = "close" /\ call'.op # "flush" /\ ~call'.budget
        /\ call'.image = call.image
    BY <1>1, <1>5 DEF CallType
  <2>2. HasDirtyChunks(call.image) => img'[call.image].writeErrorPending
    BY <1>1, <1>5 DEF FlushInv, ScanInv
  <2>3. LatchInv'
    BY <1>1, <1>2, <2>1, <2>2 DEF LatchInv
  <2> QED BY <2>1, <2>3 DEF FlushInv, BudgetInv, ScanInv, TodoInv
<1> QED BY <1>3, <1>4, <1>5, ReturnedNotFlushing DEF SyncReturns

LEMMA SyncStepsFlushRight ==
  ASSUME IInv, FlushInv, SyncPartly \/ SyncDone \/ SyncFails
  PROVE  FlushInv'
<1>1. /\ call.pc = "fsync" /\ call \in CallType /\ call.image \in Images
      /\ call.failed \in BOOLEAN /\ img \in [Images -> ImageType]
      /\ UNCHANGED slots
  BY DEF IInv, TypeOK, CallType, SyncPartly, SyncDone, SyncFails
<1>2. CASE SyncPartly
  <2> DEFINE result == IF call.failed THEN -1 ELSE 1
  <2>1. /\ SameFiles
        /\ result < 0 => img'[call.image].writeErrorPending
        /\ result >= 0 => ~call.failed
    BY <1>1, <1>2 DEF SyncPartly, SameFiles, ImageType
  <2>2. result \in Int /\ SyncReturns(result)
    BY <1>2 DEF SyncPartly
  <2> HIDE DEF result
  <2> QED BY <1>1, <2>1, <2>2, SyncEnds
<1>3. CASE SyncDone
  <2> DEFINE result == IF call.failed THEN -1 ELSE 0
  <2>1. SameFiles
    BY <1>1, <1>3 DEF SyncDone, SameFiles, ImageType
  <2>2. result \in Int /\ SyncReturns(result) /\ ~HasDirtyChunks(call.image)
    BY <1>3 DEF SyncDone
  <2> HIDE DEF result
  <2> QED BY <1>1, <2>1, <2>2, SyncEnds
<1>4. CASE SyncFails
  <2>1. SameFiles /\ ~HasDirtyChunks(call.image) /\ SyncReturns(-1)
    BY <1>1, <1>4 DEF SyncFails, SameFiles, ImageType
  <2> QED BY <1>1, <2>1, SyncEnds
<1> QED BY <1>2, <1>3, <1>4

LEMMA CloseFlushesRight ==
  ASSUME IInv, FlushInv, Close
  PROVE  FlushInv'
<1>1. CASE call.op = "attach" /\ call' = [call EXCEPT !.pc = "open"]
  <2>1. call'.pc = "open" /\ ~call'.budget
    BY <1>1 DEF IInv, TypeOK, CallType, FlushInv, BudgetInv
  <2> QED BY <2>1, NotFlushing
<1> QED BY <1>1, ReturnedNotFlushing DEF Close

\* The invariant of a flush: every step of a flush, of Sync and of Detach.
THEOREM FlushesAreThorough == Spec => []FlushInv
<1>1. Init => FlushInv
  BY DEF Init, NoCall, FlushInv, BudgetInv, ScanInv, LatchInv, TodoInv
<1>2. IInv /\ FlushInv /\ [Next]_vars => FlushInv'
  <2> SUFFICES ASSUME IInv, FlushInv, [Next]_vars PROVE FlushInv'
    OBVIOUS
  <2>1. CASE Calls
    BY <2>1, CallsFlushRight
  <2>2. CASE Step
    BY <2>2, AccessStepsNotFlushing, FlushNextImageFlushesRight,
       FlushStepsFlushRight, ScanEnds, SyncStepsFlushRight, CloseFlushesRight
       DEF Step
  <2>3. CASE PowerCycle
    BY <2>3, NotFlushing DEF PowerCycle, NoCall
  <2>4. CASE UNCHANGED vars
    BY <2>4 DEF vars, FlushInv, BudgetInv, ScanInv, LatchInv, TodoInv, Attached,
                HasDirtyChunks, Dirty
  <2> QED BY <2>1, <2>2, <2>3, <2>4 DEF Next
<1> QED BY <1>1, <1>2, Inductive, PTL DEF Spec

\* For any number of images, slots and failures: a Detach that drops chunks it
\* could not write has latched the write error of its image.
THEOREM LossesAreLatched == Spec => LossIsLatched
<1>1. IInv /\ FlushInv /\ [Next]_vars =>
        [Close /\ HasDirtyChunks(call.image)
           => img'[call.image].writeErrorPending]_vars
  <2> SUFFICES ASSUME IInv, FlushInv, Close, HasDirtyChunks(call.image)
               PROVE  img'[call.image].writeErrorPending
    OBVIOUS
  <2>1. call.image \in Images /\ img[call.image].writeErrorPending
    BY DEF IInv, TypeOK, CallType, FlushInv, LatchInv, Close
  <2>2. img'[call.image] = DetachedImage(call.image)
    BY <2>1 DEF Close, IInv, TypeOK
  <2>3. PICK pending \in BOOLEAN : pending = img[call.image].writeErrorPending
    BY <2>1 DEF IInv, TypeOK, ImageType
  <2>4. DetachedImage(call.image).writeErrorPending
    <3>1. DetachedImage(call.image) = [NewImage EXCEPT !.writeErrorPending = pending]
      BY <2>3 DEF DetachedImage
    <3> QED BY <2>1, <2>3, <3>1 DEF NewImage
  <2> QED BY <2>2, <2>4
<1> QED BY <1>1, Inductive, FlushesAreThorough, PTL DEF Spec, LossIsLatched

\* For any number of images: when FlushAll or VERIFY's Sync reports success,
\* nothing that was acknowledged is left in the cache only.
THEOREM SuccessIsClean == Spec => SuccessMeansClean
<1> DEFINE Clean ==
      call'.pc = "idle" /\ reply'.res = "ok" =>
        /\ call.pc = "images" /\ call.op = "flush" /\ ~call.budget =>
             \A i \in Images : ~(Attached(i) /\ HasDirtyChunks(i))
        /\ call.pc = "fsync" /\ call.op = "sync" =>
             ~HasDirtyChunks(call.image)
<1>1. IInv /\ FlushInv /\ [Next]_vars => [Clean]_vars
  <2> SUFFICES ASSUME IInv, FlushInv, Next, call'.pc = "idle", reply'.res = "ok",
                      call.pc \in {"images", "fsync"}
               PROVE  Clean
    OBVIOUS
  <2>1. ~Calls /\ ~PowerCycle
    <3>1. Calls => Idle
      BY DEF Calls, Access, ReadSector, WriteSector, ReadSectorUncached,
             ReadSectorPhysical, FlushSome, SyncImage, Detach, TakeWriteError,
             Attach
    <3>2. PowerCycle => reply'.res = "none"
      BY DEF PowerCycle, NoReply, Said
    <3> QED BY <3>1, <3>2 DEF Idle
  <2>2. CASE call.pc = "images"
    <3>1. FlushSomeReturns
      <4>1. ~FlushNextImage
        BY DEF FlushNextImage, IInv, TypeOK, CallType
      <4> QED BY <2>1, <2>2, <4>1
              DEF Next, Step, TakeReply, EvictRun, EvictFails, ReadFromSlot, ReadIntoSlot,
                  ReadIntoSlotFails, WriteIntoSlot, ReadThrough, WriteThrough,
                  FlushRun, FlushRunFails, FlushAllDirtyReturns, SyncPartly,
                  SyncDone, SyncFails, Close, Open, OpenFails
    <3>2. ~call.imagesFailed /\ (~call.budget => call.todo = {})
      BY <3>1 DEF FlushSomeReturns, Return, Error, Said
    <3> QED BY <2>2, <3>2 DEF FlushInv, TodoInv
  <2>3. CASE call.pc = "fsync" /\ call.op = "sync"
    <3>1. SyncPartly \/ SyncDone \/ SyncFails
      BY <2>1, <2>3
         DEF Next, Step, TakeReply, EvictRun, EvictFails, ReadFromSlot, ReadIntoSlot,
             ReadIntoSlotFails, WriteIntoSlot, ReadThrough, WriteThrough,
             FlushNextImage, FlushSomeReturns, FlushRun, FlushRunFails,
             FlushAllDirtyReturns, Close, Open, OpenFails
    <3>2. CASE SyncPartly
      <4>1. ~call.failed
        BY <2>3, <3>2 DEF SyncPartly, SyncReturns, Return, Error, Said
      <4> QED BY <2>3, <4>1 DEF FlushInv, ScanInv, BudgetInv
    <3>3. CASE SyncDone \/ SyncFails
      BY <2>3, <3>3 DEF SyncDone, SyncFails
    <3> QED BY <3>1, <3>2, <3>3
  <2> QED BY <2>2, <2>3
<1> QED BY <1>1, Inductive, FlushesAreThorough, PTL DEF Spec, SuccessMeansClean

-----------------------------------------------------------------------------
(* The cache is a write-behind disk: what the host sees of the store. *)

\* The sectors of a slot that only it has are as they were.
SlotKept(k) ==
  \/ slots'[k] = slots[k]
  \/ ~Dirty(k) /\ ~Dirty(k)'
  \/ /\ slots[k].valid /\ slots'[k].valid
     /\ slots'[k].image = slots[k].image /\ slots'[k].chunk = slots[k].chunk
     /\ slots'[k].dirtyMask = slots[k].dirtyMask
     /\ \A s \in slots[k].dirtyMask : slots'[k].data[s] = slots[k].data[s]

\* The host sees the same sector as before, from the same place.
SectorKept(f, c, s) ==
  /\ DirtyCopies(f, c, s)' = DirtyCopies(f, c, s)
  /\ \A k \in DirtyCopies(f, c, s) : slots'[k].data[s] = slots[k].data[s]
  /\ DirtyCopies(f, c, s) = {} => card'[f][c][s] = card[f][c][s]

CopiesKept == \A f \in Files, c \in Chunks, s \in Sectors :
  /\ DirtyCopies(f, c, s)' = DirtyCopies(f, c, s)
  /\ \A k \in DirtyCopies(f, c, s) : slots'[k].data[s] = slots[k].data[s]

\* Every file has its size where it had it.
GrowthKept ==
  \A f \in Files, a \in Addresses : Growing(f, a)' <=> Growing(f, a)

\* What the host sees of one sector, whatever the others do.
LEMMA SectorSeen ==
  ASSUME NEW f \in Files, NEW a \in Addresses, SectorKept(f, a[1], a[2])
  PROVE  /\ Contents'[f][a] = Contents[f][a]
         /\ (Growing(f, a)' => Growing(f, a)) =>
              (a \in Volatile'[f] => a \in Volatile[f])
         /\ (Growing(f, a)' <=> Growing(f, a)) =>
              (a \in Volatile'[f] <=> a \in Volatile[f])
BY DEF SectorKept, Contents, Volatile

LEMMA AllSeen ==
  ASSUME \A f \in Files, c \in Chunks, s \in Sectors : SectorKept(f, c, s),
         GrowthKept
  PROVE  UNCHANGED <<Contents, Volatile>>
<1>1. \A a \in Addresses : a[1] \in Chunks /\ a[2] \in Sectors
  BY DEF Addresses
<1>2. \A f \in Files : /\ Contents'[f] = Contents[f]
                       /\ Volatile'[f] = Volatile[f]
  <2> TAKE f \in Files
  <2>1. \A a \in Addresses : SectorKept(f, a[1], a[2])
    BY <1>1
  <2>2. \A a \in Addresses : /\ Contents'[f][a] = Contents[f][a]
                             /\ a \in Volatile'[f] <=> a \in Volatile[f]
    BY <2>1, SectorSeen DEF GrowthKept
  <2> QED BY <2>2 DEF Contents, Volatile
<1> QED BY <1>2 DEF Contents, Volatile

\* A write gives a file its size no sooner than its last sector is written.
LEMMA WrittenGrowth ==
  ASSUME TypeOK, NEW f \in Files, NEW c \in Chunks, NEW run \in SUBSET Sectors,
         NEW data, Written(f, c, run, data)
  PROVE  \A g \in Files, a \in Addresses :
           /\ Growing(g, a) => Growing(g, a)'
           /\ ~(g = f /\ a[1] = c /\ a[2] \in run) => (Growing(g, a)' <=> Growing(g, a))
<1> SUFFICES ASSUME NEW g \in Files, NEW a \in Addresses
             PROVE  /\ Growing(g, a) => Growing(g, a)'
                    /\ \/ g = f /\ a[1] = c /\ a[2] \in run
                       \/ Growing(g, a)' <=> Growing(g, a)
  OBVIOUS
<1>1. growth \in [Files -> {"saved", "window", "fil"}]
  BY DEF TypeOK
<1>2. CASE ~EndsIn(f, c, run) \/ g # f
  <2>1. growth'[g] = growth[g]
    BY <1>1, <1>2 DEF Written
  <2> QED BY <2>1 DEF Growing
<1>3. CASE EndsIn(f, c, run) /\ g = f
  <2>1. growth'[f] = "fil"
    BY <1>1, <1>3 DEF Written
  <2>2. PICK s \in run : <<c, s>> \in Stubs[f]
    BY <1>3 DEF EndsIn
  <2>3. a \in Stubs[f] => a = <<c, s>>
    BY <2>2, FilesAssumption
  <2>4. a = <<c, s>> => a[1] = c /\ a[2] \in run
    BY <2>2
  <2> QED BY <1>3, <2>1, <2>3, <2>4 DEF Growing
<1> QED BY <1>2, <1>3

LEMMA SlotsKept ==
  ASSUME SameFiles, \A k \in Slots : SlotKept(k)
  PROVE  CopiesKept
BY DEF SameFiles, SlotKept, CopiesKept, DirtyCopies, Owns, Attached, Dirty

\* At most one slot has a sector dirty, and the host sees what is in it.
LEMMA OneDirtyCopy ==
  ASSUME StoreInv, NEW f \in Files, NEW c \in Chunks, NEW s \in Sectors,
         NEW k \in DirtyCopies(f, c, s)
  PROVE  DirtyCopies(f, c, s) = {k} /\ k \in Slots
BY DEF StoreInv, OneCopy, IdInv, DirtyCopies, Owns

LEMMA DirtySeen ==
  ASSUME StoreInv, NEW f \in Files, NEW c \in Chunks, NEW s \in Sectors,
         NEW k \in DirtyCopies(f, c, s)
  PROVE  /\ Contents[f][<<c, s>>] = slots[k].data[s]
         /\ <<c, s>> \in Volatile[f]
<1>1. DirtyCopies(f, c, s) = {k}
  BY OneDirtyCopy
<1>2. <<c, s>> \in Addresses /\ <<c, s>>[1] = c /\ <<c, s>>[2] = s
  BY DEF Addresses
<1> QED BY <1>1, <1>2 DEF Contents, Volatile

LEMMA CleanSeen ==
  ASSUME NEW f \in Files, NEW c \in Chunks, NEW s \in Sectors,
         DirtyCopies(f, c, s) = {}
  PROVE  /\ Contents[f][<<c, s>>] = Whole(card[f][c][s])
         /\ <<c, s>> \in Volatile[f] <=> Growing(f, <<c, s>>)
<1>1. <<c, s>> \in Addresses /\ <<c, s>>[1] = c /\ <<c, s>>[2] = s
  BY DEF Addresses
<1> QED BY <1>1 DEF Contents, Volatile

\* Nothing the cache alone has was touched: the host sees no difference.
LEMMA ViewKept ==
  ASSUME SameFiles, \A k \in Slots : SlotKept(k), UNCHANGED <<card, growth>>
  PROVE  UNCHANGED <<Contents, Volatile>>
<1>1. CopiesKept
  BY SlotsKept
<1>2. \A f \in Files, c \in Chunks, s \in Sectors : SectorKept(f, c, s)
  BY <1>1 DEF CopiesKept, SectorKept
<1>3. GrowthKept
  BY DEF GrowthKept, Growing
<1> QED BY <1>2, <1>3, AllSeen

\* A step of the cache is a step of the disk it promises, or none at all.
Simulated == [Promise!Next]_(Promise!vars)

LEMMA Answered ==
  ASSUME UNCHANGED <<Contents, Volatile>>,
         reply' \in {reply, Ok, Error, NoReply}
  PROVE  Simulated
<1>1. CASE reply' = reply
  BY <1>1 DEF Simulated, Promise!vars
<1>2. CASE reply' \in {Ok, Error, NoReply}
  BY <1>2 DEF Simulated, Promise!Next, Promise!Answer, Promise!NoReply, Promise!Said,
     Promise!Told, Ok, Error, NoReply, Said
<1> QED BY <1>1, <1>2

\* A read that returns what the host believes the sector holds.
LEMMA ReadRight ==
  ASSUME UNCHANGED <<Contents, Volatile>>,
         NEW f \in Files, NEW a \in Addresses,
         reply' = Promise!Told("read", f, a, "ok",
                    IF a \in InFile[f] THEN Contents[f][a] ELSE Zero)
  PROVE  Simulated
<1>1. Promise!Read(f, a)
  BY DEF Promise!Read
<1> QED BY <1>1 DEF Simulated, Promise!Next, Promise!Access

\* An access that is refused.
LEMMA Refused ==
  ASSUME TypeOK, UNCHANGED <<Contents, Volatile>>, NEW frame,
         frame.op \in {"read", "medium", "write"}, frame.image \in Images,
         frame.chunk \in Chunks, frame.sector \in Sectors, reply' = Refusal(frame)
  PROVE  Simulated
<1>1. PICK f, a : f = img[frame.image].file /\ a = <<frame.chunk, frame.sector>>
  OBVIOUS
<1>2. f \in Files \union {NoFile} /\ a \in Addresses
  BY <1>1 DEF TypeOK, ImageType, Addresses
<1>3. Promise!Refuse(frame.op, f, a)
  BY <1>1 DEF Refusal, Answer, Promise!Refuse, Promise!Told
<1> QED BY <1>2, <1>3 DEF Simulated, Promise!Next

\* Steps that leave the store as it is, or only spoil what waits to be written.
LEMMA CardSpoilt ==
  ASSUME StoreInv, SameFiles, UNCHANGED <<growth, slots>>, NEW i \in Images,
         NEW k \in Slots, Dirty(k), Owns(i, k), NEW run \in SUBSET slots[k].dirtyMask,
         CardSameBut(img[i].file, slots[k].chunk, run)
  PROVE  UNCHANGED <<Contents, Volatile>>
<1>1. CopiesKept
  <2>1. \A m \in Slots : SlotKept(m)
    BY DEF SlotKept
  <2> QED BY <2>1, SlotsKept
<1>2. \A f \in Files, c \in Chunks, s \in Sectors :
        DirtyCopies(f, c, s) = {} =>
          ~(f = img[i].file /\ c = slots[k].chunk /\ s \in run)
  BY DEF DirtyCopies, Dirty
<1>3. \A f \in Files, c \in Chunks, s \in Sectors : SectorKept(f, c, s)
  BY <1>1, <1>2 DEF CopiesKept, SectorKept, CardSameBut
<1>4. GrowthKept
  BY DEF GrowthKept, Growing
<1> QED BY <1>3, <1>4, AllSeen

\* One sector changes, or gets volatile.
LEMMA OneSeen ==
  ASSUME NEW f \in Files, NEW c \in Chunks, NEW s \in Sectors,
         \A g \in Files, d \in Chunks, t \in Sectors :
           ~(g = f /\ d = c /\ t = s) => SectorKept(g, d, t),
         \A g \in Files, b \in Addresses :
           ~(g = f /\ b = <<c, s>>) => (Growing(g, b)' <=> Growing(g, b))
  PROVE  /\ Contents' = [Contents EXCEPT ![f][<<c, s>>] = Contents'[f][<<c, s>>]]
         /\ <<c, s>> \in Volatile'[f] =>
              Volatile' = [Volatile EXCEPT ![f] = @ \union {<<c, s>>}]
         /\ (<<c, s>> \in Volatile'[f] <=> <<c, s>> \in Volatile[f]) =>
              Volatile' = Volatile
<1> DEFINE a == <<c, s>>
<1>1. \A b \in Addresses : /\ b[1] \in Chunks /\ b[2] \in Sectors
                           /\ b = <<b[1], b[2]>>
  BY DEF Addresses
<1>2. \A g \in Files, b \in Addresses : ~(g = f /\ b = a) =>
        /\ Contents'[g][b] = Contents[g][b]
        /\ b \in Volatile'[g] <=> b \in Volatile[g]
  <2> TAKE g \in Files, b \in Addresses
  <2> HAVE ~(g = f /\ b = a)
  <2>1. SectorKept(g, b[1], b[2])
    BY <1>1
  <2>2. Growing(g, b)' <=> Growing(g, b)
    OBVIOUS
  <2> QED BY <2>1, <2>2, SectorSeen
<1>3. /\ \A g \in Files : /\ DOMAIN Contents[g] = Addresses
                          /\ DOMAIN Contents'[g] = Addresses
                          /\ Contents[g] = [b \in Addresses |-> Contents[g][b]]
                          /\ Contents'[g] = [b \in Addresses |-> Contents'[g][b]]
                          /\ Volatile[g] \subseteq Addresses
                          /\ Volatile'[g] \subseteq Addresses
      /\ Contents = [g \in Files |-> Contents[g]]
      /\ Contents' = [g \in Files |-> Contents'[g]]
      /\ Volatile = [g \in Files |-> Volatile[g]]
      /\ Volatile' = [g \in Files |-> Volatile'[g]]
  BY DEF Contents, Volatile
<1>4. PICK con, con2, vol, vol2 :
        con = Contents /\ con2 = Contents' /\ vol = Volatile /\ vol2 = Volatile'
  OBVIOUS
<1>5. a \in Addresses
  BY DEF Addresses
<1> HIDE DEF a
<1>6. con2 = [con EXCEPT ![f][a] = con2[f][a]]
  <2> DEFINE new == [con EXCEPT ![f][a] = con2[f][a]]
  <2>1. \A g \in Files : new[g] = con2[g]
    <3> TAKE g \in Files
    <3>1. CASE g # f
      <4>1. \A b \in Addresses : con2[g][b] = con[g][b]
        BY <1>2, <1>4, <3>1
      <4>2. con2[g] = con[g]
        BY <1>3, <1>4, <4>1
      <4> QED BY <1>3, <1>4, <3>1, <4>2
    <3>2. CASE g = f
      <4>1. \A b \in Addresses : b # a => con2[f][b] = con[f][b]
        BY <1>2, <1>4, <3>2
      <4>2. new[f] = [con[f] EXCEPT ![a] = con2[f][a]]
        BY <1>3, <1>4
      <4>3. [con[f] EXCEPT ![a] = con2[f][a]] = con2[f]
        BY <1>3, <1>4, <1>5, <4>1
      <4> QED BY <3>2, <4>2, <4>3
    <3> QED BY <3>1, <3>2
  <2>2. new = [g \in Files |-> new[g]]
    BY <1>3, <1>4
  <2> QED BY <1>3, <1>4, <2>1, <2>2
<1>7. \A g \in Files : g # f => vol2[g] = vol[g]
  <2> TAKE g \in Files
  <2> HAVE g # f
  <2>1. \A b \in Addresses : b \in vol2[g] <=> b \in vol[g]
    BY <1>2, <1>4
  <2> QED BY <1>3, <1>4, <2>1
<1>8. \A b : b # a => (b \in vol2[f] <=> b \in vol[f])
  BY <1>2, <1>3, <1>4
<1>9. a \in vol2[f] => vol2 = [vol EXCEPT ![f] = @ \union {a}]
  <2> HAVE a \in vol2[f]
  <2>1. vol2[f] = vol[f] \union {a}
    BY <1>8
  <2> QED BY <1>3, <1>4, <1>7, <2>1
<1>10. (a \in vol2[f] <=> a \in vol[f]) => vol2 = vol
  <2> HAVE a \in vol2[f] <=> a \in vol[f]
  <2>1. vol2[f] = vol[f]
    BY <1>8
  <2> QED BY <1>3, <1>4, <1>7, <2>1
<1> QED BY <1>4, <1>6, <1>9, <1>10 DEF a

\* What the abstract steps need to know of the two views.
LEMMA Views ==
  /\ Contents = [g \in Files |-> [b \in Addresses |-> Contents[g][b]]]
  /\ Contents' = [g \in Files |-> [b \in Addresses |-> Contents'[g][b]]]
  /\ Volatile = [g \in Files |-> Volatile[g]]
  /\ Volatile' = [g \in Files |-> Volatile'[g]]
  /\ \A g \in Files : Volatile[g] \subseteq Addresses /\ Volatile'[g] \subseteq Addresses
BY DEF Contents, Volatile

\* Volatile sectors became stable.
LEMMA SettledView ==
  ASSUME \A g \in Files, a \in Addresses :
           /\ Contents'[g][a] = Contents[g][a]
           /\ a \in Volatile'[g] => a \in Volatile[g],
         reply' \in {reply, Ok, Error}
  PROVE  Simulated
<1>1. UNCHANGED Contents
  <2>1. \A g \in Files : [b \in Addresses |-> Contents'[g][b]]
                           = [b \in Addresses |-> Contents[g][b]]
    OBVIOUS
  <2> QED BY <2>1, Views
<1>2. Promise!LessVolatile
  <2>1. \A g \in Files : Volatile'[g] \subseteq Volatile[g]
    BY Views
  <2> QED BY <2>1, Views DEF Promise!LessVolatile
<1>3. reply' \in {reply, Promise!Said("ok"), Promise!Said("error")}
  BY DEF Ok, Error, Said, Promise!Said, Promise!Told
<1> QED BY <1>1, <1>2, <1>3 DEF Simulated, Promise!Next, Promise!Settle

\* Sectors of a slot went to the card: the host sees the same from there.
LEMMA RunSettled ==
  ASSUME TypeOK, StoreInv, SameFiles, NEW i \in Images, NEW k \in Slots,
         NEW run \in SUBSET slots[k].dirtyMask, NEW new \in SlotType,
         Dirty(k), Owns(i, k),
         Written(img[i].file, slots[k].chunk, run, slots[k].data),
         slots' = [slots EXCEPT ![k] = new],
         new.valid =>
           /\ new.image = slots[k].image /\ new.chunk = slots[k].chunk
           /\ new.data = slots[k].data /\ new.dirtyMask = slots[k].dirtyMask \ run,
         ~new.valid => run = slots[k].dirtyMask,
         reply' = reply
  PROVE  Simulated
<1>0. PICK f, c : f = img[i].file /\ c = slots[k].chunk
  OBVIOUS
<1>1. /\ slots'[k] = new
      /\ \A j \in Slots : j # k => slots'[j] = slots[j]
  BY DEF TypeOK
<1>2. /\ f \in Files /\ c \in Chunks /\ slots[k].valid /\ run \subseteq Sectors
      /\ \A s \in run : /\ slots[k].data[s] \in SectorData
                         /\ card'[f][c][s] = slots[k].data[s]
      /\ CardSameBut(f, c, run) /\ Written(f, c, run, slots[k].data)
      /\ slots[k].chunk = c /\ Owns(i, k) /\ img[i].file = f
  <2>1. /\ f \in Files /\ c \in Chunks /\ slots[k].valid /\ run \in SUBSET Sectors
        /\ \A s \in run : slots[k].data[s] \in SectorData
        /\ slots[k].data \in [Sectors -> SectorData \union {NoData}]
        /\ Written(f, c, run, slots[k].data)
    BY <1>0, DirtySlot DEF Dirty
  <2>2. CardSameBut(f, c, run) /\ \A s \in run : card'[f][c][s] = slots[k].data[s]
    BY <2>1, WrittenSameBut
  <2> QED BY <1>0, <2>1, <2>2
<1>3. \A s \in run : k \in DirtyCopies(f, c, s)
  BY <1>2 DEF DirtyCopies
<1>4. \A s \in run : DirtyCopies(f, c, s) = {k}
  BY <1>2, <1>3, OneDirtyCopy
<1>5. \A s \in run : DirtyCopies(f, c, s)' = {}
  <2> SUFFICES ASSUME NEW s \in run, NEW m \in DirtyCopies(f, c, s)'
               PROVE  FALSE
    OBVIOUS
  <2>1. CASE m = k
    <3>1. s \notin slots'[k].dirtyMask \/ ~slots'[k].valid
      BY <1>1
    <3> QED BY <2>1, <3>1 DEF DirtyCopies
  <2>2. CASE m # k
    <3>1. m \in DirtyCopies(f, c, s)
      BY <1>1, <2>2 DEF DirtyCopies, Owns, Attached, SameFiles
    <3> QED BY <1>4, <2>2, <3>1
  <2> QED BY <2>1, <2>2
<1>6. \A g \in Files, d \in Chunks, t \in Sectors :
        ~(g = f /\ d = c /\ t \in run) => SectorKept(g, d, t)
  <2> TAKE g \in Files, d \in Chunks, t \in Sectors
  <2> HAVE ~(g = f /\ d = c /\ t \in run)
  <2>1. \A m \in Slots : m \in DirtyCopies(g, d, t)' <=> m \in DirtyCopies(g, d, t)
    <3> TAKE m \in Slots
    <3>1. CASE m # k
      BY <1>1, <3>1 DEF DirtyCopies, Owns, Attached, SameFiles
    <3>2. CASE m = k
      <4>1. ~(\E j \in Images : img[j].file = g /\ Owns(j, k)) \/ g = f
        BY <1>2 DEF StoreInv, IdInv, Owns
      <4>2. (\E j \in Images : img'[j].file = g /\ Owns(j, k)')
              => slots'[k].image # slots[k].image
                   \/ \E j \in Images : img[j].file = g /\ Owns(j, k)
        BY DEF Owns, Attached, SameFiles
      <4>3. CASE new.valid
        BY <1>1, <1>2, <3>2, <4>1, <4>2, <4>3
           DEF DirtyCopies, Owns, Attached, SameFiles
      <4>4. CASE ~new.valid
        BY <1>1, <1>2, <3>2, <4>1, <4>4 DEF DirtyCopies
      <4> QED BY <4>3, <4>4
    <3> QED BY <3>1, <3>2
  <2>2. DirtyCopies(g, d, t)' = DirtyCopies(g, d, t)
    BY <2>1 DEF DirtyCopies
  <2>3. \A m \in DirtyCopies(g, d, t) : slots'[m].data[t] = slots[m].data[t]
    <3> TAKE m \in DirtyCopies(g, d, t)
    <3>1. CASE m # k
      BY <1>1, <3>1 DEF DirtyCopies
    <3>2. CASE m = k
      <4>1. k \in DirtyCopies(g, d, t)'
        BY <2>2, <3>2
      <4> QED BY <1>1, <3>2, <4>1 DEF DirtyCopies
    <3> QED BY <3>1, <3>2
  <2>4. card'[g][d][t] = card[g][d][t]
    BY <1>2 DEF CardSameBut
  <2> QED BY <2>2, <2>3, <2>4 DEF SectorKept
<1>7. \A s \in run : /\ Contents'[f][<<c, s>>] = Contents[f][<<c, s>>]
                     /\ <<c, s>> \in Volatile[f]
  <2> TAKE s \in run
  <2>1. s \in Sectors
    BY <1>2
  <2>2. /\ Contents[f][<<c, s>>] = slots[k].data[s]
        /\ <<c, s>> \in Volatile[f]
    BY <1>2, <1>3, <2>1, DirtySeen
  <2>3. Contents'[f][<<c, s>>] = Whole(card'[f][c][s])
    <3>1. <<c, s>> \in Addresses /\ <<c, s>>[1] = c /\ <<c, s>>[2] = s
      BY <1>2, <2>1 DEF Addresses
    <3> QED BY <1>2, <1>5, <3>1 DEF Contents
  <2>4. card'[f][c][s] = slots[k].data[s] /\ Whole(slots[k].data[s]) = slots[k].data[s]
    BY <1>2, WholeData
  <2> QED BY <2>2, <2>3, <2>4
<1>8. \A g \in Files, a \in Addresses :
        /\ Contents'[g][a] = Contents[g][a]
        /\ a \in Volatile'[g] => a \in Volatile[g]
  <2> TAKE g \in Files, a \in Addresses
  <2>1. a[1] \in Chunks /\ a[2] \in Sectors /\ a = <<a[1], a[2]>>
    BY DEF Addresses
  <2>2. CASE g = f /\ a[1] = c /\ a[2] \in run
    BY <1>7, <2>1, <2>2
  <2>3. CASE ~(g = f /\ a[1] = c /\ a[2] \in run)
    <3>1. SectorKept(g, a[1], a[2])
      BY <1>6, <2>1, <2>3
    <3>2. Growing(g, a)' <=> Growing(g, a)
      BY <1>2, <2>3, WrittenGrowth
    <3> QED BY <3>1, <3>2, SectorSeen
  <2> QED BY <2>2, <2>3
<1> QED BY <1>8, SettledView

-----------------------------------------------------------------------------
(* Every action is a step of the promised disk: calls and reads. *)

\* A slot that has the sector has what the host believes.
LEMMA CachedSeen ==
  ASSUME TypeOK, StoreInv, NEW i \in Images, NEW k \in Slots,
         slots[k].valid, Owns(i, k), NEW s \in slots[k].validMask
  PROVE  slots[k].data[s] = Contents[img[i].file][<<slots[k].chunk, s>>]
<1> DEFINE f == img[i].file
           c == slots[k].chunk
<1>1. f \in Files /\ c \in Chunks /\ s \in Sectors
  BY DEF TypeOK, ImageType, SlotType, Owns, Attached
<1>2. CASE s \in slots[k].dirtyMask
  <2>1. k \in DirtyCopies(f, c, s)
    BY <1>2 DEF DirtyCopies
  <2> QED BY <1>1, <2>1, DirtySeen
<1>3. CASE s \notin slots[k].dirtyMask
  <2>1. DirtyCopies(f, c, s) = {}
    BY <1>3 DEF DirtyCopies, StoreInv, IdInv, OneCopy, Owns
  <2>2. slots[k].data[s] = Whole(card[f][c][s])
    BY <1>3 DEF StoreInv, CleanMatchesCard
  <2> QED BY <1>1, <2>1, <2>2, CleanSeen
<1> QED BY <1>2, <1>3

\* No slot has the chunk: the host sees the card.
LEMMA AbsentSeen ==
  ASSUME StoreInv, NEW i \in Images, Attached(i), NEW c \in Chunks, NEW s \in Sectors,
         \A k \in Slots : Holds(k, img[i].id, c) => s \notin slots[k].dirtyMask
  PROVE  DirtyCopies(img[i].file, c, s) = {}
BY DEF StoreInv, IdInv, DirtyCopies, Owns, Holds

\* FindSlot takes only slots that have nothing to write.
LEMMA FindSlotSimulated ==
  ASSUME IInv, NEW frame \in CallType, FindSlot(frame), reply' = NoReply,
         UNCHANGED <<card, growth, img>>
  PROVE  Simulated
<1>1. \A k \in Slots : SlotKept(k)
  <2> DEFINE id == img[frame.image].id
             v == Victim(id, frame.chunk)
  <2>1. CASE UNCHANGED slots
    BY <2>1 DEF SlotKept
  <2>2. CASE ~Dirty(v) /\ slots' = [slots EXCEPT ![v] = NewSlot(id, frame.chunk)]
    <3>1. ~NewSlot(id, frame.chunk).valid
      BY DEF NewSlot
    <3>2. PICK w, new : /\ slots' = [slots EXCEPT ![w] = new] /\ ~new.valid
                        /\ ~Dirty(w)
      BY <2>2, <3>1
    <3> QED BY <3>2 DEF SlotKept, Dirty, IInv, TypeOK
  <2> QED BY <2>1, <2>2 DEF FindSlot
<1>2. SameFiles
  BY DEF SameFiles
<1>3. UNCHANGED <<Contents, Volatile>>
  BY <1>1, <1>2, ViewKept
<1> QED BY <1>3, Answered

\* A call that touches neither the card nor the cache nor an open file.
Harmless == SameFiles /\ UNCHANGED <<card, growth, slots>>

LEMMA HarmlessView == ASSUME Harmless PROVE UNCHANGED <<Contents, Volatile>>
<1>1. \A k \in Slots : SlotKept(k)
  BY DEF Harmless, SlotKept
<1> QED BY <1>1, ViewKept DEF Harmless

LEMMA HarmlessAnswered ==
  ASSUME Harmless, reply' \in {reply, Ok, Error, NoReply}
  PROVE  Simulated
BY HarmlessView, Answered

\* An access past the end of the file, or to an image that is not attached.
LEMMA ZerosRead ==
  ASSUME IInv, Harmless, NEW i \in Images, NEW c \in Chunks, NEW s \in Sectors,
         Attached(i), ~Within(i, c, s),
         reply' = Answer(Frame("read", i, c, s), "ok", Zero)
  PROVE  Simulated
<1>1. PICK f, a : f = img[i].file /\ a = <<c, s>>
  OBVIOUS
<1>2. f \in Files /\ a \in Addresses /\ a \notin InFile[f]
  BY <1>1 DEF IInv, TypeOK, ImageType, Attached, Addresses, Within
<1>3. reply' = Promise!Told("read", f, a, "ok",
                 IF a \in InFile[f] THEN Contents[f][a] ELSE Zero)
  BY <1>1, <1>2, MediumFrame DEF Answer, Promise!Told
<1> QED BY <1>2, <1>3, HarmlessView, ReadRight

LEMMA AccessRefused ==
  ASSUME IInv, Harmless, NEW op \in {"read", "medium", "write"}, NEW i \in Images,
         NEW c \in Chunks, NEW s \in Sectors, reply' = Refusal(Frame(op, i, c, s))
  PROVE  Simulated
<1>1. PICK frame : /\ reply' = Refusal(frame) /\ frame.op = op /\ frame.image = i
                   /\ frame.chunk = c /\ frame.sector = s
  BY MediumFrame
<1> QED BY <1>1, HarmlessView, Refused DEF IInv

LEMMA ReadSectorSimulated ==
  ASSUME IInv, NEW i \in Images, NEW c \in Chunks, NEW s \in Sectors,
         ReadSector(i, c, s)
  PROVE  Simulated
<1>1. CASE UNCHANGED slots /\ reply' = Refusal(Frame("read", i, c, s))
  BY <1>1, AccessRefused DEF ReadSector, Harmless, SameFiles
<1>2. CASE /\ UNCHANGED slots /\ Attached(i) /\ ~Within(i, c, s)
           /\ reply' = Answer(Frame("read", i, c, s), "ok", Zero)
  BY <1>2, ZerosRead DEF ReadSector, Harmless, SameFiles
<1>3. CASE FindSlot(Frame("read", i, c, s)) /\ reply' = NoReply
  <2>1. Frame("read", i, c, s) \in CallType
    BY FrameType
  <2> QED BY <1>3, <2>1, FindSlotSimulated DEF ReadSector
<1> QED BY <1>1, <1>2, <1>3 DEF ReadSector, Return

LEMMA WriteSectorSimulated ==
  ASSUME IInv, NEW i \in Images, NEW c \in Chunks, NEW s \in Sectors, NEW d \in Data,
         WriteSector(i, c, s, d)
  PROVE  Simulated
<1>1. CASE UNCHANGED slots /\ reply' = Refusal(Frame("write", i, c, s))
  BY <1>1, AccessRefused DEF WriteSector, Harmless, SameFiles
<1>2. CASE FindSlot([Frame("write", i, c, s) EXCEPT !.data = d]) /\ reply' = NoReply
  <2>1. [Frame("write", i, c, s) EXCEPT !.data = d] \in CallType
    BY FrameType DEF CallType
  <2> QED BY <1>2, <2>1, FindSlotSimulated DEF WriteSector
<1> QED BY <1>1, <1>2 DEF WriteSector, Return

LEMMA ErrSame ==
  ASSUME TypeOK, NEW i \in Images, img' = [img EXCEPT ![i].err = TRUE]
  PROVE  SameFiles
BY DEF TypeOK, ImageType, SameFiles

\* FatFS reads a sector of the card.
LEMMA ReadCardSimulated ==
  ASSUME IInv, NEW frame, frame.op \in {"read", "medium"}, frame.image \in Images,
         frame.chunk \in Chunks, frame.sector \in Sectors,
         Within(frame.image, frame.chunk, frame.sector), ReadCard(frame),
         frame.op = "read" =>
           DirtyCopies(img[frame.image].file, frame.chunk, frame.sector) = {},
         UNCHANGED <<card, growth, slots>>
  PROVE  Simulated
<1>1. PICK i, c, s, f, v : /\ i = frame.image /\ c = frame.chunk /\ s = frame.sector
                           /\ f = img[i].file /\ v = card[f][c][s]
  OBVIOUS
<1>2. /\ f \in Files /\ v \in CardData /\ <<c, s>> \in Addresses
      /\ c \in Chunks /\ s \in Sectors /\ i \in Images /\ <<c, s>> \in InFile[f]
  BY <1>1 DEF IInv, TypeOK, ImageType, Within, Attached, Addresses
<1>3. Harmless
  <2>1. UNCHANGED img \/ img' = [img EXCEPT ![i].err = TRUE]
    BY <1>1 DEF ReadCard
  <2> QED BY <1>2, <2>1, ErrSame DEF Harmless, SameFiles, IInv
<1>4. CASE reply' = Refusal(frame)
  BY <1>3, <1>4, HarmlessView, Refused DEF IInv
<1>5. CASE v \notin Short /\ reply' = Answer(frame, "ok", v)
  <2>1. v \in SectorData /\ Whole(v) = v
    BY <1>2, <1>5, WholeData DEF CardData
  <2>2. DirtyCopies(f, c, s) = {} => Contents[f][<<c, s>>] = v
    BY <1>1, <1>2, <2>1, CleanSeen
  <2>3. reply' = Promise!Told(frame.op, f, <<c, s>>, "ok", v)
    BY <1>1, <1>5 DEF Answer, Promise!Told
  <2>4. UNCHANGED <<Contents, Volatile>>
    BY <1>3, HarmlessView
  <2>5. CASE frame.op = "read"
    <3>1. v = IF <<c, s>> \in InFile[f] THEN Contents[f][<<c, s>>] ELSE Zero
      BY <1>1, <1>2, <2>2, <2>5
    <3>2. reply' = Promise!Told("read", f, <<c, s>>, "ok",
                     IF <<c, s>> \in InFile[f] THEN Contents[f][<<c, s>>] ELSE Zero)
      BY <2>3, <2>5, <3>1
    <3> QED BY <1>2, <2>4, <3>2, ReadRight
  <2>6. CASE frame.op = "medium"
    <3>1. <<c, s>> \in Volatile[f] \/ v = Contents[f][<<c, s>>]
      <4>1. CASE DirtyCopies(f, c, s) = {}
        BY <2>2, <4>1
      <4>2. CASE DirtyCopies(f, c, s) # {}
        <5>1. PICK k \in DirtyCopies(f, c, s) : TRUE
          BY <4>2
        <5> QED BY <1>2, <5>1, DirtySeen DEF IInv
      <4> QED BY <4>1, <4>2
    <3>2. Promise!ReadMedium(f, <<c, s>>)
      BY <1>2, <2>1, <2>3, <2>4, <2>6, <3>1 DEF Promise!ReadMedium
    <3> QED BY <1>2, <3>2 DEF Simulated, Promise!Next, Promise!Access
  <2> QED BY <2>5, <2>6
<1> QED BY <1>1, <1>4, <1>5 DEF ReadCard, Return

LEMMA ReadSectorUncachedSimulated ==
  ASSUME IInv, NEW i \in Images, NEW c \in Chunks, NEW s \in Sectors,
         ReadSectorUncached(i, c, s)
  PROVE  Simulated
<1> DEFINE cached == {k \in Hits(img[i].id, c) : s \in slots[k].validMask}
<1>1. PICK frame : frame = Frame("read", i, c, s)
  OBVIOUS
<1>2. frame.op = "read" /\ frame.image = i /\ frame.chunk = c /\ frame.sector = s
  BY <1>1, MediumFrame
<1>3. CASE UNCHANGED img /\ reply' = Refusal(frame)
  BY <1>1, <1>3, AccessRefused DEF ReadSectorUncached, Harmless, SameFiles
<1>4. CASE /\ UNCHANGED img /\ Attached(i) /\ ~Within(i, c, s)
           /\ reply' = Answer(frame, "ok", Zero)
  BY <1>1, <1>4, ZerosRead DEF ReadSectorUncached, Harmless, SameFiles
<1>5. CASE /\ Within(i, c, s) /\ UNCHANGED img
           /\ \E k \in cached : Return(Answer(frame, "ok", slots[k].data[s]))
  <2>1. PICK k \in cached : reply' = Answer(frame, "ok", slots[k].data[s])
    BY <1>5 DEF Return
  <2>2. /\ k \in Slots /\ slots[k].valid /\ slots[k].chunk = c /\ Owns(i, k)
        /\ s \in slots[k].validMask
    BY <1>5, WaysType DEF Hits, Holds, Owns, Within, IInv, TypeOK, ImageType
  <2>3. PICK f, a : f = img[i].file /\ a = <<c, s>>
    OBVIOUS
  <2>4. f \in Files /\ a \in Addresses /\ a \in InFile[f]
    BY <1>5, <2>3 DEF Within, Attached, IInv, TypeOK, ImageType, Addresses
  <2>5. slots[k].data[s] = IF a \in InFile[f] THEN Contents[f][a] ELSE Zero
    BY <2>2, <2>3, <2>4, CachedSeen DEF IInv
  <2>6. reply' = Promise!Told("read", f, a, "ok",
                   IF a \in InFile[f] THEN Contents[f][a] ELSE Zero)
    BY <1>2, <2>1, <2>3, <2>5 DEF Answer, Promise!Told
  <2>7. UNCHANGED <<Contents, Volatile>>
    BY <1>5, HarmlessView DEF ReadSectorUncached, Harmless, SameFiles
  <2> QED BY <2>4, <2>6, <2>7, ReadRight
<1>6. CASE Within(i, c, s) /\ cached = {} /\ ReadCard(frame)
  <2>1. \A k \in Slots : Holds(k, img[i].id, c) => s \notin slots[k].dirtyMask
    BY <1>6 DEF Holds, Hits, IInv, StoreInv, PlaceInv, MaskInv
  <2>2. DirtyCopies(img[i].file, c, s) = {}
    BY <1>6, <2>1, AbsentSeen DEF IInv, Within
  <2> QED BY <1>2, <1>6, <2>2, ReadCardSimulated DEF ReadSectorUncached
<1> QED BY <1>1, <1>3, <1>4, <1>5, <1>6 DEF ReadSectorUncached, Return

LEMMA ReadSectorPhysicalSimulated ==
  ASSUME IInv, NEW i \in Images, NEW c \in Chunks, NEW s \in Sectors,
         ReadSectorPhysical(i, c, s)
  PROVE  Simulated
<1>1. CASE UNCHANGED img /\ reply' = Refusal(Frame("medium", i, c, s))
  BY <1>1, AccessRefused DEF ReadSectorPhysical, Harmless, SameFiles
<1>2. CASE Within(i, c, s) /\ ReadCard(Frame("medium", i, c, s))
  <2>1. PICK frame : frame = Frame("medium", i, c, s)
    OBVIOUS
  <2>2. frame.op = "medium" /\ frame.image = i /\ frame.chunk = c /\ frame.sector = s
    BY <2>1, MediumFrame
  <2> QED BY <1>2, <2>1, <2>2, ReadCardSimulated DEF ReadSectorPhysical
<1> QED BY <1>1, <1>2 DEF ReadSectorPhysical, Return

LEMMA CallsSimulated ==
  ASSUME IInv, Calls
  PROVE  Simulated
<1>1. ASSUME NEW i \in Images, NEW a \in Accessed, Access(i, a[1], a[2])
      PROVE  Simulated
  <2>1. a[1] \in Chunks /\ a[2] \in Sectors
    BY FilesAssumption DEF Addresses
  <2> QED BY <1>1, <2>1, ReadSectorSimulated, WriteSectorSimulated,
             ReadSectorUncachedSimulated, ReadSectorPhysicalSimulated DEF Access
<1>2. ASSUME NEW budget \in BOOLEAN, FlushSome(budget)
      PROVE  Simulated
  BY <1>2, HarmlessAnswered DEF FlushSome, Harmless, SameFiles
<1>3. ASSUME NEW i \in Images, SyncImage(i) \/ Detach(i) \/ TakeWriteError(i)
      PROVE  Simulated
  <2>1. UNCHANGED <<card, growth, slots>>
    BY <1>3 DEF SyncImage, Detach, TakeWriteError
  <2>2. SameFiles
    <3>1. CASE UNCHANGED img
      BY <3>1 DEF SameFiles
    <3>2. CASE img' = [img EXCEPT ![i].writeErrorPending = FALSE]
      BY <3>2 DEF SameFiles, IInv, TypeOK, ImageType
    <3> QED BY <1>3, <3>1, <3>2 DEF SyncImage, Detach, TakeWriteError
  <2>3. reply' \in {Ok, Error, NoReply}
    BY <1>3 DEF SyncImage, Detach, TakeWriteError, Return
  <2> QED BY <2>1, <2>2, <2>3, HarmlessAnswered DEF Harmless
<1>4. ASSUME NEW i \in Images, NEW f \in Files, Attach(i, f)
      PROVE  Simulated
  BY <1>4, HarmlessAnswered DEF Attach, Harmless, SameFiles
<1> QED BY <1>1, <1>2, <1>3, <1>4 DEF Calls

\* One sector got the data of a write.
LEMMA SectorWritten ==
  ASSUME NEW f \in Files, NEW c \in Chunks, NEW s \in Sectors, NEW v \in SectorData,
         <<c, s>> \in InFile[f],
         \A g \in Files, d \in Chunks, t \in Sectors :
           ~(g = f /\ d = c /\ t = s) => SectorKept(g, d, t),
         \A g \in Files, b \in Addresses :
           ~(g = f /\ b = <<c, s>>) => (Growing(g, b)' <=> Growing(g, b)),
         Contents'[f][<<c, s>>] = v,
         \/ /\ reply' = Promise!Told("write", f, <<c, s>>, "ok", v)
            /\ <<c, s>> \in Volatile[f] => <<c, s>> \in Volatile'[f]
         \/ /\ reply' = Promise!Told("write", f, <<c, s>>, "error", NoData)
            /\ <<c, s>> \in Volatile[f] <=> <<c, s>> \in Volatile'[f]
  PROVE  Simulated
<1>1. <<c, s>> \in Addresses
  BY DEF Addresses
<1>2. Contents' = [Contents EXCEPT ![f][<<c, s>>] = v]
  BY OneSeen
<1>3. CASE /\ reply' = Promise!Told("write", f, <<c, s>>, "ok", v)
           /\ <<c, s>> \in Volatile[f] => <<c, s>> \in Volatile'[f]
  <2>1. Volatile' \in {Volatile, [Volatile EXCEPT ![f] = @ \union {<<c, s>>}]}
    BY <1>3, OneSeen
  <2>2. Promise!Write(f, <<c, s>>, v)
    BY <1>2, <1>3, <2>1 DEF Promise!Write
  <2> QED BY <1>1, <2>2 DEF Simulated, Promise!Next, Promise!Access
<1>4. CASE /\ reply' = Promise!Told("write", f, <<c, s>>, "error", NoData)
           /\ <<c, s>> \in Volatile[f] <=> <<c, s>> \in Volatile'[f]
  <2>1. UNCHANGED Volatile
    BY <1>4, OneSeen
  <2>2. Promise!BotchedWrite(f, <<c, s>>, v)
    BY <1>2, <1>4, <2>1 DEF Promise!BotchedWrite
  <2> QED BY <1>1, <2>2 DEF Simulated, Promise!Next, Promise!Access
<1> QED BY <1>3, <1>4

-----------------------------------------------------------------------------
(* Every action is a step of the promised disk: the call goes on. *)

\* A read in progress that returns what the host believes the sector holds.
LEMMA CallReads ==
  ASSUME IInv, call.pc \in {"serve", "through"}, UNCHANGED <<Contents, Volatile>>,
         call.op = "read",
         reply' = Answer(call, "ok",
                    Contents[img[call.image].file][<<call.chunk, call.sector>>])
  PROVE  Simulated
<1>1. PICK f, a : f = img[call.image].file /\ a = <<call.chunk, call.sector>>
  OBVIOUS
<1>2. f \in Files /\ a \in Addresses /\ a \in InFile[f]
  BY <1>1 DEF IInv, CallInv, Within, Attached, TypeOK, CallType, ImageType, Addresses
<1>3. reply' = Promise!Told("read", f, a, "ok",
                 IF a \in InFile[f] THEN Contents[f][a] ELSE Zero)
  BY <1>1, <1>2 DEF Answer, Promise!Told
<1> QED BY <1>2, <1>3, ReadRight

LEMMA CallRefused ==
  ASSUME IInv, call.op \in {"read", "write"}, UNCHANGED <<Contents, Volatile>>,
         reply' = Refusal(call)
  PROVE  Simulated
<1>1. call.image \in Images /\ call.chunk \in Chunks /\ call.sector \in Sectors
  BY DEF IInv, TypeOK, CallType
<1> QED BY <1>1, Refused DEF IInv

LEMMA ReadFromSlotSimulated == ASSUME IInv, ReadFromSlot PROVE Simulated
<1>1. PICK k, s, f : k = call.cur /\ s = call.sector /\ f = img[call.image].file
  OBVIOUS
<1>2. /\ k \in Slots /\ s \in Sectors /\ f \in Files /\ call.image \in Images
      /\ call.chunk \in Chunks /\ slots[k].chunk = call.chunk
      /\ Owns(call.image, k) /\ s \in slots[k].validMask
      /\ slots[k].valid
  BY <1>1, ServedSlot DEF ReadFromSlot
<1>3. reply' = Answer(call, "ok", Contents[f][<<call.chunk, s>>])
  BY <1>1, <1>2, CachedSeen DEF ReadFromSlot, Return, IInv
<1>4. UNCHANGED <<Contents, Volatile>>
  BY HarmlessView DEF ReadFromSlot, Harmless, SameFiles
<1> QED BY <1>1, <1>3, <1>4, CallReads DEF ReadFromSlot

LEMMA ReadIntoSlotSimulated == ASSUME IInv, ReadIntoSlot PROVE Simulated
<1>1. PICK k, c, s, f : /\ k = call.cur /\ c = call.chunk /\ s = call.sector
                        /\ f = img[call.image].file
  OBVIOUS
<1>2. /\ k \in Slots /\ c \in Chunks /\ s \in Sectors /\ f \in Files
      /\ call.image \in Images /\ Attached(call.image)
      /\ slots[k].chunk = c /\ slots[k].image = img[call.image].id
      /\ \A j \in Slots : Holds(j, slots[k].image, slots[k].chunk) => j = k
      /\ ~slots[k].valid => slots[k].dirtyMask = {}
      /\ s \notin slots[k].dirtyMask
      /\ slots[k] \in SlotType
  BY <1>1, ServedSlot DEF ReadIntoSlot, IInv, StoreInv, MaskInv
<1>3. DirtyCopies(f, c, s) = {}
  <2>1. \A j \in Slots : Holds(j, img[call.image].id, c) => s \notin slots[j].dirtyMask
    BY <1>2
  <2> QED BY <1>1, <1>2, <2>1, AbsentSeen DEF IInv
<1>4. reply' = Answer(call, "ok", Whole(card[f][c][s]))
  BY <1>1, <1>2 DEF ReadIntoSlot, Return
<1>5. \A j \in Slots : SlotKept(j)
  <2>1. \A j \in Slots : j # k => slots'[j] = slots[j]
    BY <1>1 DEF ReadIntoSlot, IInv, TypeOK
  <2>2. CASE slots[k].dirtyMask = {}
    <3>1. PICK onCard :
            slots' = [slots EXCEPT ![k].valid = TRUE, ![k].validMask = Sectors,
                                   ![k].data = onCard]
      BY <1>1, <2>2 DEF ReadIntoSlot
    <3>2. slots'[k].dirtyMask = {}
      BY <1>2, <2>2, <3>1 DEF IInv, TypeOK, SlotType
    <3>3. SlotKept(k)
      BY <2>2, <3>2 DEF SlotKept, Dirty
    <3> QED BY <2>1, <3>3 DEF SlotKept
  <2>3. CASE slots[k].dirtyMask # {}
    <3>1. PICK new : slots' = [slots EXCEPT ![k].validMask = @ \union {s},
                                            ![k].data = [@ EXCEPT ![s] = new]]
      BY <1>1, <2>3 DEF ReadIntoSlot
    <3>2. /\ slots'[k].valid = slots[k].valid /\ slots'[k].image = slots[k].image
          /\ slots'[k].chunk = slots[k].chunk
          /\ slots'[k].dirtyMask = slots[k].dirtyMask
          /\ slots'[k].data = [slots[k].data EXCEPT ![s] = new]
      BY <1>2, <3>1 DEF IInv, TypeOK, SlotType
    <3>3. \A t \in slots[k].dirtyMask : slots'[k].data[t] = slots[k].data[t]
      BY <1>2, <3>2 DEF SlotType
    <3>4. SlotKept(k)
      BY <1>2, <2>3, <3>2, <3>3 DEF SlotKept
    <3> QED BY <2>1, <3>4 DEF SlotKept
  <2> QED BY <2>2, <2>3
<1>6. UNCHANGED <<Contents, Volatile>>
  BY <1>5, ViewKept DEF ReadIntoSlot, SameFiles
<1>7. Contents[f][<<c, s>>] = Whole(card[f][c][s])
  BY <1>2, <1>3, CleanSeen
<1> QED BY <1>1, <1>4, <1>6, <1>7, CallReads DEF ReadIntoSlot

LEMMA ReadIntoSlotFailsSimulated ==
  ASSUME IInv, ReadIntoSlotFails
  PROVE  Simulated
<1>1. \A k \in Slots : SlotKept(k)
  <2>1. EmptySlot.valid = FALSE
    BY ConstantTypes
  <2> QED BY <2>1 DEF ReadIntoSlotFails, SlotKept, Dirty, IInv, TypeOK
<1>2. SameFiles
  BY DEF ReadIntoSlotFails, SameFiles, IInv, TypeOK, ImageType
<1>3. UNCHANGED <<Contents, Volatile>>
  BY <1>1, <1>2, ViewKept DEF ReadIntoSlotFails
<1> QED BY <1>3, CallRefused DEF ReadIntoSlotFails, Return

LEMMA ReadThroughSimulated == ASSUME IInv, ReadThrough PROVE Simulated
<1>1. PICK i, c, s, f : /\ i = call.image /\ c = call.chunk /\ s = call.sector
                        /\ f = img[i].file
  OBVIOUS
<1>2. /\ i \in Images /\ c \in Chunks /\ s \in Sectors /\ f \in Files /\ Attached(i)
      /\ \A k \in Slots : ~Holds(k, img[i].id, c)
  BY <1>1 DEF ReadThrough, IInv, TypeOK, CallType, ImageType, CallInv, SlotInv,
              Absent, Within, Attached
<1>3. Harmless
  BY <1>1, <1>2, ErrSame DEF ReadThrough, Harmless, SameFiles, IInv
<1>4. CASE reply' = Refusal(call)
  BY <1>3, <1>4, HarmlessView, CallRefused DEF ReadThrough
<1>5. CASE reply' = Answer(call, "ok", Whole(card[f][c][s]))
  <2>1. DirtyCopies(f, c, s) = {}
    BY <1>1, <1>2, AbsentSeen DEF IInv
  <2>2. Contents[f][<<c, s>>] = Whole(card[f][c][s])
    BY <1>2, <2>1, CleanSeen
  <2>3. UNCHANGED <<Contents, Volatile>>
    BY <1>3, HarmlessView
  <2> QED BY <1>1, <1>5, <2>2, <2>3, CallReads DEF ReadThrough
<1> QED BY <1>1, <1>4, <1>5 DEF ReadThrough, Return

\* The sector in the slot is replaced: it is the one the host wrote.
LEMMA WriteIntoSlotSimulated ==
  ASSUME IInv, WriteIntoSlot, StoreInv'
  PROVE  Simulated
<1>1. PICK k, c, s, f, v : /\ k = call.cur /\ c = call.chunk /\ s = call.sector
                           /\ f = img[call.image].file /\ v = call.data
  OBVIOUS
<1>2. /\ k \in Slots /\ c \in Chunks /\ s \in Sectors /\ f \in Files /\ v \in Data
      /\ call.image \in Images
      /\ slots[k].chunk = c /\ Owns(call.image, k)
      /\ \A j \in Images : Owns(j, k) => j = call.image
      /\ ~slots[k].valid => slots[k].dirtyMask = {}
      /\ slots[k] \in SlotType /\ <<c, s>> \in InFile[f]
  BY <1>1, ServedSlot DEF WriteIntoSlot, IInv, CallInv, Within
<1>3. /\ slots'[k].valid /\ slots'[k].image = slots[k].image /\ slots'[k].chunk = c
      /\ slots'[k].dirtyMask = slots[k].dirtyMask \union {s}
      /\ slots'[k].data = [slots[k].data EXCEPT ![s] = v]
      /\ \A j \in Slots : j # k => slots'[j] = slots[j]
  BY <1>1, <1>2 DEF WriteIntoSlot, IInv, TypeOK, SlotType
<1>4. SameFiles /\ UNCHANGED <<card, growth>>
  BY DEF WriteIntoSlot, Return, SameFiles, IInv, TypeOK, ImageType
<1>5. \A g \in Files, d \in Chunks, t \in Sectors :
        ~(g = f /\ d = c /\ t = s) => SectorKept(g, d, t)
  <2> TAKE g \in Files, d \in Chunks, t \in Sectors
  <2> HAVE ~(g = f /\ d = c /\ t = s)
  <2>1. \A m \in Slots : m \in DirtyCopies(g, d, t)' <=> m \in DirtyCopies(g, d, t)
    <3> TAKE m \in Slots
    <3>1. CASE m # k
      BY <1>3, <1>4, <3>1 DEF DirtyCopies, Owns, Attached, SameFiles
    <3>2. CASE m = k
      <4>1. k \in DirtyCopies(g, d, t) <=>
              slots[k].valid /\ c = d /\ t \in slots[k].dirtyMask /\ g = f
        BY <1>1, <1>2 DEF DirtyCopies
      <4>2. \A j \in Images : Owns(j, k)' <=> Owns(j, k)
        BY <1>3, <1>4 DEF Owns, Attached, SameFiles
      <4>3. k \in DirtyCopies(g, d, t)' <=>
              c = d /\ t \in slots'[k].dirtyMask /\ g = f
        BY <1>1, <1>2, <1>3, <1>4, <4>2 DEF DirtyCopies, SameFiles
      <4> QED BY <1>2, <1>3, <3>2, <4>1, <4>3
    <3> QED BY <3>1, <3>2
  <2>2. DirtyCopies(g, d, t)' = DirtyCopies(g, d, t)
    BY <2>1 DEF DirtyCopies
  <2>3. \A m \in DirtyCopies(g, d, t) : slots'[m].data[t] = slots[m].data[t]
    <3> TAKE m \in DirtyCopies(g, d, t)
    <3>1. CASE m # k
      BY <1>3, <3>1 DEF DirtyCopies
    <3>2. CASE m = k
      <4>1. t # s
        BY <1>1, <1>2, <3>2 DEF DirtyCopies
      <4> QED BY <1>2, <1>3, <3>2, <4>1 DEF SlotType
    <3> QED BY <3>1, <3>2
  <2> QED BY <1>4, <2>2, <2>3 DEF SectorKept
<1>6. k \in DirtyCopies(f, c, s)'
  BY <1>1, <1>2, <1>3, <1>4 DEF DirtyCopies, Owns, Attached, SameFiles
<1>7. /\ Contents'[f][<<c, s>>] = v
      /\ <<c, s>> \in Volatile'[f]
  <2>1. DirtyCopies(f, c, s)' = {k}
    BY <1>6 DEF StoreInv, OneCopy, IdInv, DirtyCopies, Owns
  <2>2. <<c, s>> \in Addresses /\ <<c, s>>[1] = c /\ <<c, s>>[2] = s
    BY <1>2 DEF Addresses
  <2>3. slots'[k].data[s] = v
    BY <1>2, <1>3 DEF SlotType
  <2> QED BY <1>2, <2>1, <2>2, <2>3 DEF Contents, Volatile
<1>8. v \in SectorData
  BY <1>2 DEF SectorData
<1>9. reply' = Promise!Told("write", f, <<c, s>>, "ok", v)
  BY <1>1 DEF WriteIntoSlot, Return, Answer, Promise!Told
<1>10. \A g \in Files, b \in Addresses : Growing(g, b)' <=> Growing(g, b)
  BY <1>4 DEF Growing
<1> QED BY <1>2, <1>5, <1>7, <1>8, <1>9, <1>10, SectorWritten

\* One sector of the card changes, and no slot has its chunk.
LEMMA ThroughSeen ==
  ASSUME IInv, IInv', SameFiles, UNCHANGED slots, NEW i \in Images, Attached(i),
         NEW c \in Chunks, NEW s \in Sectors, NEW v \in SectorData,
         NEW f \in Files, f = img[i].file, <<c, s>> \in InFile[f],
         \A k \in Slots : ~Holds(k, img[i].id, c),
         CardSameBut(f, c, {s}),
         \A g \in Files, a \in Addresses :
           /\ Growing(g, a) => Growing(g, a)'
           /\ ~(g = f /\ a = <<c, s>>) => (Growing(g, a)' <=> Growing(g, a)),
         \/ /\ reply' = Promise!Told("write", f, <<c, s>>, "ok", v)
            /\ card'[f][c][s] = v
         \/ /\ reply' = Promise!Told("write", f, <<c, s>>, "error", NoData)
            /\ Growing(f, <<c, s>>)' => Growing(f, <<c, s>>)
  PROVE  Simulated
<1>1. DirtyCopies(f, c, s) = {}
  BY AbsentSeen DEF IInv
<1>2. CopiesKept
  <2>1. \A k \in Slots : SlotKept(k)
    BY DEF SlotKept
  <2> QED BY <2>1, SlotsKept
<1>3. \A g \in Files, d \in Chunks, t \in Sectors :
        ~(g = f /\ d = c /\ t = s) => SectorKept(g, d, t)
  BY <1>2 DEF CopiesKept, SectorKept, CardSameBut
<1>4. PICK w : w = Whole(card'[f][c][s])
  OBVIOUS
<1>5. <<c, s>> \in Addresses /\ <<c, s>>[1] = c /\ <<c, s>>[2] = s
  BY DEF Addresses
<1>6. /\ Contents'[f][<<c, s>>] = w
      /\ <<c, s>> \in Volatile'[f] <=> Growing(f, <<c, s>>)'
      /\ <<c, s>> \in Volatile[f] <=> Growing(f, <<c, s>>)
  <2>1. DirtyCopies(f, c, s)' = {}
    BY <1>1, <1>2 DEF CopiesKept
  <2> QED BY <1>1, <1>4, <1>5, <2>1 DEF Contents, Volatile
<1>7. w \in SectorData
  BY <1>4, WholeType DEF IInv, TypeOK
<1>8. CASE reply' = Promise!Told("write", f, <<c, s>>, "ok", v) /\ card'[f][c][s] = v
  <2>1. w = v
    BY <1>4, <1>8, WholeData
  <2> QED BY <1>3, <1>5, <1>6, <1>8, <2>1, SectorWritten
<1>9. CASE /\ reply' = Promise!Told("write", f, <<c, s>>, "error", NoData)
           /\ Growing(f, <<c, s>>)' => Growing(f, <<c, s>>)
  BY <1>3, <1>5, <1>6, <1>7, <1>9, SectorWritten
<1> QED BY <1>8, <1>9

\* The sector goes to the card itself, or is spoilt there.
LEMMA WriteThroughSimulated ==
  ASSUME IInv, WriteThrough, IInv'
  PROVE  Simulated
<1> USE DEF IInv
<1>1. PICK i, c, s, f, v, data :
        /\ i = call.image /\ c = call.chunk /\ s = call.sector
        /\ f = img[i].file /\ v = call.data /\ data = [t \in Sectors |-> v]
  OBVIOUS
<1>2. /\ call.pc = "through" /\ i \in Images /\ Absent /\ UNCHANGED slots
      /\ c \in Chunks /\ s \in Sectors /\ Attached(i) /\ {s} \in SUBSET Sectors
      /\ v \in SectorData /\ f \in Files /\ <<c, s>> \in InFile[f]
      /\ \A k \in Slots : ~Holds(k, img[i].id, c)
  BY <1>1 DEF WriteThrough, TypeOK, CallType, CallInv, SlotInv, Within, Attached,
              ImageType, SectorData, Absent
<1>3. /\ data \in [Sectors -> SectorData \union {NoData}]
      /\ \A t \in {s} : data[t] \in SectorData
      /\ data[s] = v
  BY <1>1, <1>2
<1>4. \/ /\ Written(f, c, {s}, data)
         /\ img' = [img EXCEPT ![i].needSync = TRUE, ![i].modified = TRUE]
         /\ reply' = Answer(call, "ok", v)
      \/ \E hard \in BOOLEAN :
           /\ WriteFails(i, c, {s}, data, hard)
           /\ img' = [img EXCEPT ![i].err = hard, ![i].modified = @ \/ ~hard]
           /\ reply' = Refusal(call)
  BY <1>1 DEF WriteThrough, Return
<1>5. CASE /\ Written(f, c, {s}, data)
           /\ img' = [img EXCEPT ![i].needSync = TRUE, ![i].modified = TRUE]
           /\ reply' = Answer(call, "ok", v)
  <2>1. SameFiles
    BY <1>2, <1>5 DEF SameFiles, TypeOK, ImageType
  <2>2. CardSameBut(f, c, {s}) /\ \A t \in {s} : card'[f][c][t] = data[t]
    BY <1>2, <1>3, <1>5, WrittenSameBut
  <2>3. reply' = Promise!Told("write", f, <<c, s>>, "ok", v)
    BY <1>1, <1>5 DEF WriteThrough, Answer, Promise!Told
  <2>4. \A g \in Files, a \in Addresses :
          /\ Growing(g, a) => Growing(g, a)'
          /\ ~(g = f /\ a = <<c, s>>) => (Growing(g, a)' <=> Growing(g, a))
    <3>1. \A a \in Addresses : a[1] = c /\ a[2] \in {s} => a = <<c, s>>
      BY DEF Addresses
    <3> QED BY <1>2, <1>5, <3>1, WrittenGrowth
  <2>5. card'[f][c][s] = v
    BY <1>3, <2>2
  <2> QED BY <1>1, <1>2, <2>1, <2>2, <2>3, <2>4, <2>5, ThroughSeen
<1>6. ASSUME NEW hard \in BOOLEAN, WriteFails(i, c, {s}, data, hard),
             img' = [img EXCEPT ![i].err = hard, ![i].modified = @ \/ ~hard],
             reply' = Refusal(call)
      PROVE  Simulated
  <2>1. SameFiles
    BY <1>2, <1>6, FailureFlags DEF SameFiles, SameImages
  <2>2. CardSameBut(f, c, {s})
    BY <1>1, <1>2, <1>3, <1>6, WriteFailsType
  <2>3. reply' = Promise!Told("write", f, <<c, s>>, "error", NoData)
    BY <1>1, <1>6 DEF WriteThrough, Refusal, Answer, Promise!Told
  <2>4. \A g \in Files, a \in Addresses : Growing(g, a)' <=> Growing(g, a)
    BY <1>6 DEF WriteFails, Growing
  <2>5. \A g \in Files, a \in Addresses :
          /\ Growing(g, a) => Growing(g, a)'
          /\ ~(g = f /\ a = <<c, s>>) => (Growing(g, a)' <=> Growing(g, a))
    BY <2>4
  <2>6. Growing(f, <<c, s>>)' => Growing(f, <<c, s>>)
    BY <1>2, <2>4 DEF Addresses
  <2> QED BY <1>1, <1>2, <2>1, <2>2, <2>3, <2>5, <2>6, ThroughSeen
<1> QED BY <1>4, <1>5, <1>6

-----------------------------------------------------------------------------
(* Every action is a step of the promised disk: writes of dirty chunks. *)

\* A run of slot k, as every f_write of the cache takes it.
LEMMA RunGoesOut ==
  ASSUME IInv, NEW i \in Images, NEW k \in Slots, Dirty(k), Owns(i, k),
         Written(img[i].file, slots[k].chunk, FirstRun(slots[k].dirtyMask),
                 slots[k].data),
         img' = [img EXCEPT ![i].modified = TRUE],
         NEW new \in SlotType, slots' = [slots EXCEPT ![k] = new],
         \/ new = [slots[k] EXCEPT !.dirtyMask = @ \ FirstRun(slots[k].dirtyMask)]
         \/ ~new.valid /\ slots[k].dirtyMask \ FirstRun(slots[k].dirtyMask) = {},
         reply' = reply
  PROVE  Simulated
<1>1. PICK run : run = FirstRun(slots[k].dirtyMask)
  OBVIOUS
<1>2. run \in SUBSET slots[k].dirtyMask /\ slots[k] \in SlotType
  BY <1>1, DirtySlot DEF IInv
<1>3. SameFiles
  BY DEF SameFiles, IInv, TypeOK, ImageType
<1>4. new.valid =>
        /\ new.image = slots[k].image /\ new.chunk = slots[k].chunk
        /\ new.data = slots[k].data /\ new.dirtyMask = slots[k].dirtyMask \ run
  BY <1>1, <1>2 DEF SlotType
<1>5. ~new.valid => run = slots[k].dirtyMask
  BY <1>1, <1>2 DEF SlotType, Dirty
<1> QED BY <1>1, <1>2, <1>3, <1>4, <1>5, RunSettled DEF IInv

\* A run of slot k that did not go out.
LEMMA RunStaysIn ==
  ASSUME IInv, NEW i \in Images, NEW k \in Slots, Dirty(k), Owns(i, k),
         NEW hard \in BOOLEAN,
         WriteFails(i, slots[k].chunk, FirstRun(slots[k].dirtyMask),
                    slots[k].data, hard),
         SameFiles, UNCHANGED slots, reply' = reply
  PROVE  Simulated
<1>1. PICK c, run, data :
        /\ c = slots[k].chunk
        /\ run = FirstRun(slots[k].dirtyMask) /\ data = slots[k].data
  OBVIOUS
<1>2. /\ c \in Chunks /\ run \in SUBSET Sectors /\ Attached(i)
      /\ run \in SUBSET slots[k].dirtyMask
      /\ data \in [Sectors -> SectorData \union {NoData}]
      /\ \A s \in run : data[s] \in SectorData
  BY <1>1, DirtySlot DEF IInv, Owns
<1>3. CardSameBut(img[i].file, c, run)
  BY <1>1, <1>2, WriteFailsType DEF IInv
<1>4. UNCHANGED growth
  BY DEF WriteFails
<1>5. UNCHANGED <<Contents, Volatile>>
  BY <1>1, <1>2, <1>3, <1>4, CardSpoilt DEF IInv
<1> QED BY <1>5, Answered

\* A sector always shows data, be it stub or not on the card.
ContentsOK == Contents \in [Files -> [Addresses -> SectorData]]

LEMMA ContentsType == IInv => ContentsOK
<1> SUFFICES ASSUME IInv, NEW f \in Files, NEW a \in Addresses
             PROVE  Contents[f][a] \in SectorData
  BY Views DEF ContentsOK
<1>1. a[1] \in Chunks /\ a[2] \in Sectors /\ a = <<a[1], a[2]>>
  BY DEF Addresses
<1>2. CASE DirtyCopies(f, a[1], a[2]) = {}
  <2>1. Contents[f][a] = Whole(card[f][a[1]][a[2]])
    BY <1>1, <1>2, CleanSeen
  <2> QED BY <1>1, <2>1, WholeType DEF IInv, TypeOK
<1>3. CASE DirtyCopies(f, a[1], a[2]) # {}
  <2>1. PICK k \in DirtyCopies(f, a[1], a[2]) : TRUE
    BY <1>3
  <2>2. Contents[f][a] = slots[k].data[a[2]]
    BY <1>1, <2>1, DirtySeen DEF IInv
  <2>3. slots[k].data[a[2]] \in SectorData
    BY <2>1 DEF DirtyCopies, IInv, StoreInv, MaskInv
  <2> QED BY <2>2, <2>3
<1> QED BY <1>2, <1>3

LEMMA EvictRunSimulated == ASSUME IInv, EvictRun PROVE Simulated
<1> USE DEF IInv
<1>1. PICK k : k = call.cur
  OBVIOUS
<1>2. PICK i \in Images :
        /\ Owns(i, k)
        /\ Written(img[i].file, slots[k].chunk, FirstRun(slots[k].dirtyMask),
                   slots[k].data)
        /\ img' = [img EXCEPT ![i].modified = TRUE]
        /\ \/ slots' = [slots EXCEPT ![k].dirtyMask =
                          slots[k].dirtyMask \ FirstRun(slots[k].dirtyMask)]
           \/ /\ slots[k].dirtyMask \ FirstRun(slots[k].dirtyMask) = {}
              /\ slots' = [slots EXCEPT ![k] = NewSlot(img[call.image].id, call.chunk)]
  BY <1>1 DEF EvictRun
<1>3. /\ k \in Slots /\ Dirty(k) /\ slots[k] \in SlotType /\ reply' = reply
      /\ slots[k].dirtyMask \in SUBSET Sectors
  BY <1>1 DEF EvictRun, SlotInv, TypeOK, CallType, SlotType
<1>4. CASE slots' = [slots EXCEPT ![k].dirtyMask =
                       slots[k].dirtyMask \ FirstRun(slots[k].dirtyMask)]
  <2> DEFINE new == [slots[k] EXCEPT !.dirtyMask = @ \ FirstRun(slots[k].dirtyMask)]
  <2>1. new \in SlotType /\ slots' = [slots EXCEPT ![k] = new]
    BY <1>3, <1>4 DEF SlotType, TypeOK
  <2> QED BY <1>2, <1>3, <2>1, RunGoesOut
<1>5. CASE /\ slots[k].dirtyMask \ FirstRun(slots[k].dirtyMask) = {}
           /\ slots' = [slots EXCEPT ![k] = NewSlot(img[call.image].id, call.chunk)]
  <2> DEFINE new == NewSlot(img[call.image].id, call.chunk)
  <2>1. new \in SlotType /\ ~new.valid
    BY NewSlotType DEF TypeOK, CallType, ImageType, NewSlot
  <2> QED BY <1>2, <1>3, <1>5, <2>1, RunGoesOut
<1> QED BY <1>2, <1>4, <1>5

LEMMA EvictFailsSimulated == ASSUME IInv, EvictFails PROVE Simulated
<1> USE DEF IInv
<1>1. PICK k : k = call.cur
  OBVIOUS
<1>2. PICK i \in Images, hard \in BOOLEAN :
        /\ Owns(i, k)
        /\ WriteFails(i, slots[k].chunk, FirstRun(slots[k].dirtyMask),
                      slots[k].data, hard)
        /\ img' = [img EXCEPT ![i].err = hard, ![i].writeErrorPending = TRUE,
                              ![i].modified = @ \/ ~hard]
  BY <1>1 DEF EvictFails
<1>3. k \in Slots /\ Dirty(k) /\ UNCHANGED slots /\ reply' = reply
  BY <1>1 DEF EvictFails, SlotInv, TypeOK, CallType
<1>4. SameFiles
  BY <1>2, FailureFlags DEF SameFiles, SameImages
<1> QED BY <1>2, <1>3, <1>4, RunStaysIn

LEMMA FlushRunSimulated == ASSUME IInv, FlushRun PROVE Simulated
<1> USE DEF IInv
<1>1. PICK k \in Unflushed(call.image) :
        /\ Written(img[call.image].file, slots[k].chunk,
                   FirstRun(slots[k].dirtyMask), slots[k].data)
        /\ slots' = [slots EXCEPT ![k].dirtyMask = @ \ FirstRun(slots[k].dirtyMask)]
  BY DEF FlushRun
<1>2. /\ k \in Slots /\ Dirty(k) /\ Owns(call.image, k) /\ call.image \in Images
      /\ img' = [img EXCEPT ![call.image].modified = TRUE] /\ reply' = reply
  BY UnflushedSlot DEF FlushRun
<1> DEFINE new == [slots[k] EXCEPT !.dirtyMask = @ \ FirstRun(slots[k].dirtyMask)]
<1>3. new \in SlotType /\ slots' = [slots EXCEPT ![k] = new]
  BY <1>1, <1>2 DEF TypeOK, SlotType
<1> QED BY <1>1, <1>2, <1>3, RunGoesOut

LEMMA FlushRunFailsSimulated == ASSUME IInv, FlushRunFails PROVE Simulated
<1> USE DEF IInv
<1>1. PICK k \in Unflushed(call.image), hard \in BOOLEAN :
        /\ WriteFails(call.image, slots[k].chunk, FirstRun(slots[k].dirtyMask),
                      slots[k].data, hard)
        /\ img' = [img EXCEPT ![call.image].err = hard,
                     ![call.image].modified = @ \/ ~hard]
  BY DEF FlushRunFails
<1>2. /\ k \in Slots /\ Dirty(k) /\ Owns(call.image, k) /\ call.image \in Images
      /\ UNCHANGED slots /\ reply' = reply
  BY UnflushedSlot DEF FlushRunFails
<1>3. SameFiles
  BY <1>1, <1>2, FailureFlags DEF SameFiles, SameImages
<1> QED BY <1>1, <1>2, <1>3, RunStaysIn

\* Sizes that f_sync wrote, or tried to write, are on the card or where they were.
LEMMA SyncedGrowth ==
  ASSUME TypeOK, NEW i \in Images, NEW inWindow \in BOOLEAN,
         growth' \in {Synced(i), Unsynced(i, inWindow)}
  PROVE  \A f \in Files, a \in Addresses : Growing(f, a)' => Growing(f, a)
<1>1. \A f \in Files : growth'[f] # "saved" => growth[f] # "saved"
  BY DEF Synced, Unsynced, TypeOK
<1> QED BY <1>1 DEF Growing

\* The steps of FlushSome and Sync that only keep the books.
LEMMA SyncStepsSimulated ==
  ASSUME IInv, \/ FlushNextImage \/ FlushSomeReturns \/ FlushAllDirtyReturns
               \/ SyncPartly \/ SyncDone \/ SyncFails
  PROVE  Simulated
<1> USE DEF IInv
<1>1. UNCHANGED <<card, slots>> /\ call.image \in Images
  BY DEF FlushNextImage, FlushSomeReturns, FlushAllDirtyReturns, SyncPartly,
         SyncDone, SyncFails, TypeOK, CallType
<1>2. reply' \in {reply, Ok, Error}
  BY DEF FlushNextImage, FlushSomeReturns, FlushAllDirtyReturns, SyncPartly,
         SyncDone, SyncFails, SyncReturns, Return
<1>3. SameFiles
  <2>1. CASE FlushNextImage \/ FlushSomeReturns \/ FlushAllDirtyReturns
    BY <2>1 DEF FlushNextImage, FlushSomeReturns, FlushAllDirtyReturns, SameFiles
  <2>2. CASE SyncPartly
    <3>1. PICK pending : img' = [img EXCEPT ![call.image].writeErrorPending = pending]
      BY <2>2 DEF SyncPartly
    <3> QED BY <1>1, <3>1 DEF SameFiles, TypeOK, ImageType
  <2>3. CASE SyncDone
    BY <1>1, <2>3 DEF SyncDone, SameFiles, TypeOK, ImageType
  <2>4. CASE SyncFails
    <3>1. PICK modified : img' = [img EXCEPT ![call.image].modified = modified,
                                             ![call.image].writeErrorPending = TRUE]
      BY <2>4 DEF SyncFails
    <3> QED BY <1>1, <3>1 DEF SameFiles, TypeOK, ImageType
  <2> QED BY <2>1, <2>2, <2>3, <2>4
<1>4. \A f \in Files, a \in Addresses : Growing(f, a)' => Growing(f, a)
  <2>1. CASE UNCHANGED growth
    BY <2>1 DEF Growing
  <2>2. CASE \E inWindow \in BOOLEAN :
               growth' \in {Synced(call.image), Unsynced(call.image, inWindow)}
    BY <1>1, <2>2, SyncedGrowth
  <2> QED BY <2>1, <2>2
          DEF FlushNextImage, FlushSomeReturns, FlushAllDirtyReturns, SyncPartly,
              SyncDone, SyncFails
<1>5. CopiesKept
  <2>1. \A k \in Slots : SlotKept(k)
    BY <1>1 DEF SlotKept
  <2> QED BY <1>3, <2>1, SlotsKept
<1>6. \A f \in Files, a \in Addresses :
        /\ Contents'[f][a] = Contents[f][a]
        /\ a \in Volatile'[f] => a \in Volatile[f]
  <2> TAKE f \in Files, a \in Addresses
  <2>1. a[1] \in Chunks /\ a[2] \in Sectors
    BY DEF Addresses
  <2>2. SectorKept(f, a[1], a[2])
    BY <1>1, <1>5, <2>1 DEF CopiesKept, SectorKept
  <2> QED BY <1>4, <2>2, SectorSeen
<1> QED BY <1>2, <1>6, SettledView

-----------------------------------------------------------------------------
(* Every action is a step of the promised disk: files come and go. *)

\* Volatile sectors of the files in lost may be gone.
LEMMA FilesLost ==
  ASSUME ContentsOK', NEW lost \in SUBSET Files,
         \A f \in Files \ lost, c \in Chunks, s \in Sectors : SectorKept(f, c, s),
         \A f \in lost, c \in Chunks, s \in Sectors :
           /\ DirtyCopies(f, c, s)' = {}
           /\ card'[f][c][s] = card[f][c][s] \/ Growing(f, <<c, s>>),
         \A f \in Files, a \in Addresses : Growing(f, a)' => Growing(f, a)
  PROVE  Promise!OnlyLost(lost) /\ Promise!LessVolatile
<1>1. \A f \in lost, c \in Chunks, s \in Sectors :
        DirtyCopies(f, c, s) = {} /\ ~Growing(f, <<c, s>>) => SectorKept(f, c, s)
  BY DEF SectorKept
<1>2. \A a \in Addresses : a[1] \in Chunks /\ a[2] \in Sectors /\ a = <<a[1], a[2]>>
  BY DEF Addresses
<1>3. \A f \in Files, a \in Addresses :
        f \notin lost \/ a \notin Volatile[f] => Contents'[f][a] = Contents[f][a]
  <2> TAKE f \in Files, a \in Addresses
  <2> HAVE f \notin lost \/ a \notin Volatile[f]
  <2>1. SectorKept(f, a[1], a[2])
    BY <1>1, <1>2 DEF Volatile
  <2> QED BY <2>1, SectorSeen
<1>4. \A f \in Files : Volatile'[f] \subseteq Volatile[f]
  <2> TAKE f \in Files
  <2>1. \A a \in Addresses : a \in Volatile'[f] => a \in Volatile[f]
    <3> TAKE a \in Addresses
    <3>1. CASE f \in lost
      BY <1>2, <3>1 DEF Volatile
    <3>2. CASE f \notin lost
      <4>1. SectorKept(f, a[1], a[2])
        BY <1>2, <3>2
      <4> QED BY <4>1, SectorSeen
    <3> QED BY <3>1, <3>2
  <2> QED BY <2>1, Views
<1>5. Promise!OnlyLost(lost)
  BY <1>3 DEF ContentsOK, Promise!OnlyLost
<1>6. Promise!LessVolatile
  BY <1>4, Views DEF Promise!LessVolatile
<1> QED BY <1>5, <1>6

\* What f_close leaves of the size of a file.
LEMMA ClosedGrowth ==
  ASSUME TypeOK, NEW i \in Images, Attached(i), FileClosed(i)
  PROVE  /\ \A f \in Files, a \in Addresses : Growing(f, a)' => Growing(f, a)
         /\ \A c \in Chunks, s \in Sectors :
              \/ card'[img[i].file][c][s] = card[img[i].file][c][s]
              \/ Growing(img[i].file, <<c, s>>)
<1>1. PICK f \in Files : f = img[i].file
  BY DEF TypeOK, ImageType, Attached
<1>2. \/ growth' = Synced(i) /\ UNCHANGED card
      \/ UNCHANGED <<card, growth>>
      \/ growth' = Unsynced(i, TRUE) /\ UNCHANGED card
      \/ /\ growth[f] = "fil" /\ growth' = [growth EXCEPT ![f] = "saved"]
         /\ card' = [card EXCEPT ![f] = Shortened(f)]
  BY <1>1 DEF FileClosed
<1>3. CASE growth' = Synced(i) /\ UNCHANGED card
  BY <1>3, SyncedGrowth
<1>4. CASE UNCHANGED <<card, growth>>
  BY <1>4 DEF Growing
<1>5. CASE growth' = Unsynced(i, TRUE) /\ UNCHANGED card
  BY <1>5, SyncedGrowth
<1>6. CASE /\ growth[f] = "fil" /\ growth' = [growth EXCEPT ![f] = "saved"]
           /\ card' = [card EXCEPT ![f] = Shortened(f)]
  <2>1. \A g \in Files : growth'[g] # "saved" => growth[g] # "saved"
    BY <1>6 DEF TypeOK
  <2>2. card'[f] = Shortened(f)
    BY <1>6 DEF TypeOK
  <2> QED BY <1>1, <1>6, <2>1, <2>2 DEF Growing, Shortened
<1> QED BY <1>2, <1>3, <1>4, <1>5, <1>6

LEMMA CloseSimulated ==
  ASSUME IInv, Close, ContentsOK'
  PROVE  Simulated
<1> USE DEF IInv
<1>1. PICK i, f, id : i = call.image /\ f = img[call.image].file /\ id = img[call.image].id
  OBVIOUS
<1>2. /\ i \in Images /\ Attached(i) /\ f \in Files /\ FileClosed(i)
      /\ \A g \in Files : g # f => card'[g] = card[g]
      /\ img[i].file = f /\ img[i].id = id
      /\ img'[i].file = NoFile
      /\ \A j \in Images : j # i =>
           img'[j].file = img[j].file /\ img'[j].id = img[j].id
      /\ \A k \in Slots : \/ slots'[k] = slots[k]
                          \/ ~slots'[k].valid /\ slots[k].image = id
  <2>1. \A k \in Slots :
          \/ slots'[k] = slots[k]
          \/ slots'[k] = EmptySlot /\ ~EmptySlot.valid /\ slots[k].image = id
    BY <1>1, ClosedImage, SlotsWithoutType
  <2>2. call.image \in Images /\ img[call.image].file \in Files
    BY ClosedImage DEF Attached, TypeOK, ImageType
  <2>3. \A g \in Files : g # f => card'[g] = card[g]
    BY <1>1, ClosedImage, ClosedFile
  <2> QED BY <1>1, <2>1, <2>2, <2>3, ClosedImage
<1>3. \A j \in Images : Attached(j) /\ j # i => img[j].file # f /\ img[j].id # id
  BY <1>2 DEF StoreInv, IdInv
<1>4. \A c \in Chunks, s \in Sectors : DirtyCopies(f, c, s)' = {}
  BY <1>2, <1>3, FilesAssumption DEF DirtyCopies, Owns, Attached
<1>5. \A g \in Files \ {f}, c \in Chunks, s \in Sectors : SectorKept(g, c, s)
  <2> TAKE g \in Files \ {f}, c \in Chunks, s \in Sectors
  <2>1. \A j \in Images : (img'[j].file = g <=> img[j].file = g)
    BY <1>2, FilesAssumption
  <2>2. \A j \in Images : img[j].file = g =>
          j # i /\ img'[j].id = img[j].id /\ img[j].id # id /\ Attached(j)
    BY <1>2, <1>3, FilesAssumption DEF Attached
  <2>3. \A k \in Slots : k \in DirtyCopies(g, c, s)' <=> k \in DirtyCopies(g, c, s)
    <3> TAKE k \in Slots
    <3>1. CASE slots'[k] = slots[k]
      BY <2>1, <2>2, <3>1 DEF DirtyCopies, Owns, Attached
    <3>2. CASE ~slots'[k].valid /\ slots[k].image = id
      BY <2>1, <2>2, <3>2 DEF DirtyCopies, Owns
    <3> QED BY <1>2, <3>1, <3>2
  <2>4. DirtyCopies(g, c, s)' = DirtyCopies(g, c, s)
    BY <2>3 DEF DirtyCopies
  <2>5. \A k \in DirtyCopies(g, c, s) : slots'[k] = slots[k]
    BY <1>2, <2>4 DEF DirtyCopies
  <2> QED BY <1>2, <2>4, <2>5 DEF SectorKept
<1>6. /\ \A g \in Files, a \in Addresses : Growing(g, a)' => Growing(g, a)
      /\ \A c \in Chunks, s \in Sectors :
           card'[f][c][s] = card[f][c][s] \/ Growing(f, <<c, s>>)
  BY <1>2, ClosedGrowth
<1>7. PICK lost \in SUBSET Files : lost = {f}
  BY <1>2
<1>8. /\ \A g \in Files \ lost, c \in Chunks, s \in Sectors : SectorKept(g, c, s)
      /\ \A g \in lost, c \in Chunks, s \in Sectors :
           /\ DirtyCopies(g, c, s)' = {}
           /\ card'[g][c][s] = card[g][c][s] \/ Growing(g, <<c, s>>)
  BY <1>4, <1>5, <1>6, <1>7
<1>9. Promise!OnlyLost({f}) /\ Promise!LessVolatile
  BY <1>6, <1>7, <1>8, FilesLost
<1>10. reply' \in {reply, Promise!Said("ok")}
  BY DEF Close, Return, Ok, Said, Promise!Said, Promise!Told
<1>11. Promise!Forsake(f)
  BY <1>9, <1>10 DEF Promise!Forsake
<1> QED BY <1>2, <1>11 DEF Simulated, Promise!Next

LEMMA OpenSimulated == ASSUME IInv, Open PROVE Simulated
<1> USE DEF IInv
<1>1. PICK i, f, id : i = call.image /\ f = call.file /\ id = nextImageId
  OBVIOUS
<1>2. /\ i \in Images /\ ~Attached(i) /\ f \in Files
      /\ \A j \in Images : img[j].file # f
      /\ id \in Int /\ UNCHANGED <<card, growth, slots>> /\ reply' = Ok
      /\ \A k \in Slots : slots[k].valid => slots[k].image < id
      /\ img'[i].file = f /\ img'[i].id = id
      /\ \A j \in Images : j # i => img'[j] = img[j]
  BY <1>1, OpenedImage DEF Return
<1>3. \A k \in Slots : slots[k].valid => slots[k].image # id
  BY <1>2 DEF TypeOK, SlotType, Ids
<1>4. \A g \in Files, c \in Chunks, s \in Sectors :
        DirtyCopies(g, c, s)' = DirtyCopies(g, c, s)
  <2> TAKE g \in Files, c \in Chunks, s \in Sectors
  <2>1. \A j \in Images : (img[j].file = g => j # i)
    BY <1>2, FilesAssumption DEF Attached
  <2>2. \A k \in Slots : k \in DirtyCopies(g, c, s)' <=> k \in DirtyCopies(g, c, s)
    BY <1>2, <1>3, <2>1 DEF DirtyCopies, Owns, Attached
  <2> QED BY <2>2 DEF DirtyCopies
<1>5. \A g \in Files, c \in Chunks, s \in Sectors : SectorKept(g, c, s)
  BY <1>2, <1>4 DEF SectorKept
<1>6. GrowthKept
  BY <1>2 DEF GrowthKept, Growing
<1>7. UNCHANGED <<Contents, Volatile>>
  BY <1>5, <1>6, AllSeen
<1> QED BY <1>2, <1>7, Answered

LEMMA PowerCycleSimulated ==
  ASSUME TypeOK, PowerCycle, ContentsOK'
  PROVE  Simulated
<1>1. \A k \in Slots : ~slots'[k].valid
  BY ConstantTypes DEF PowerCycle
<1>2. \A f \in Files, c \in Chunks, s \in Sectors : DirtyCopies(f, c, s)' = {}
  BY <1>1 DEF DirtyCopies
<1>3. \A f \in Files, a \in Addresses : ~Growing(f, a)'
  BY DEF PowerCycle, Growing
<1>4. \A f \in Files, c \in Chunks, s \in Sectors :
        card'[f][c][s] = card[f][c][s] \/ Growing(f, <<c, s>>)
  <2> TAKE f \in Files, c \in Chunks, s \in Sectors
  <2>1. CASE card'[f] = card[f]
    BY <2>1
  <2>2. CASE growth[f] # "saved" /\ card'[f] = Shortened(f)
    BY <2>2 DEF Shortened, Growing
  <2> QED BY <2>1, <2>2 DEF PowerCycle
<1>5. Promise!OnlyLost(Files)
  BY <1>2, <1>3, <1>4, FilesLost
<1>6. Volatile' = [f \in Files |-> {}]
  <2>1. \A a \in Addresses : a[1] \in Chunks /\ a[2] \in Sectors
    BY DEF Addresses
  <2>2. \A f \in Files : Volatile'[f] = {}
    BY <1>2, <1>3, <2>1 DEF Volatile
  <2> QED BY <2>2, Views
<1>7. reply' = Promise!NoReply
  BY DEF PowerCycle, NoReply, Said, Promise!NoReply, Promise!Said, Promise!Told
<1>8. Promise!PowerFails
  BY <1>5, <1>6, <1>7 DEF Promise!PowerFails
<1> QED BY <1>8 DEF Simulated, Promise!Next

LEMMA StepSimulated ==
  ASSUME IInv, IInv', ContentsOK', Step
  PROVE  Simulated
<1>1. CASE TakeReply \/ OpenFails \/ ReadIntoSlotFails
  <2>1. TakeReply \/ OpenFails => Simulated
    BY HarmlessAnswered DEF TakeReply, OpenFails, Harmless, SameFiles, Return
  <2> QED BY <1>1, <2>1, ReadIntoSlotFailsSimulated
<1>2. CASE ~(TakeReply \/ OpenFails \/ ReadIntoSlotFails)
  BY <1>2, EvictRunSimulated, EvictFailsSimulated, ReadFromSlotSimulated,
     ReadIntoSlotSimulated, WriteIntoSlotSimulated, ReadThroughSimulated,
     WriteThroughSimulated, FlushRunSimulated, FlushRunFailsSimulated,
     SyncStepsSimulated, CloseSimulated, OpenSimulated DEF Step, IInv
<1> QED BY <1>1, <1>2

LEMMA InitSimulated == Init => Promise!Init
<1> SUFFICES ASSUME Init
             PROVE  Promise!Init
  OBVIOUS
<1>1. ContentsOK
  BY InitHolds, ContentsType
<1>2. \A f \in Files, c \in Chunks, s \in Sectors : DirtyCopies(f, c, s) = {}
  BY ConstantTypes DEF Init, DirtyCopies
<1>3. \A f \in Files : Volatile[f] = {}
  <2> TAKE f \in Files
  <2>1. \A a \in Addresses : a[1] \in Chunks /\ a[2] \in Sectors
    BY DEF Addresses
  <2>2. \A a \in Addresses : ~Growing(f, a)
    BY DEF Init, Growing
  <2> QED BY <1>2, <2>1, <2>2 DEF Volatile
<1>4. Volatile = [f \in Files |-> {}]
  BY <1>3 DEF Volatile
<1>5. reply = Promise!NoReply
  BY DEF Init, NoReply, Said, Promise!NoReply, Promise!Said, Promise!Told
<1> QED BY <1>1, <1>4, <1>5 DEF ContentsOK, Promise!Init

\* For any number of images, slots and sectors, with any fault at any access:
\* the cache is the write-behind disk it promises to be.  A read of a sector
\* returns the latest write of that sector, and only a power failure or a detach
\* that could not save everything loses data, and only volatile data.
THEOREM CacheIsWriteBehind == Spec => WriteBehind
<1>1. IInv /\ IInv' /\ ContentsOK' /\ [Next]_vars => Simulated
  <2> SUFFICES ASSUME IInv, IInv', ContentsOK', [Next]_vars
               PROVE  Simulated
    OBVIOUS
  <2>1. CASE UNCHANGED vars
    BY <2>1, HarmlessAnswered DEF vars, Harmless, SameFiles
  <2> QED BY <2>1, CallsSimulated, StepSimulated, PowerCycleSimulated DEF Next, IInv
<1>2. QED
  BY <1>1, Inductive, ContentsType, InitSimulated, PTL
     DEF Spec, WriteBehind, Simulated, Promise!Spec

==============================================================================
