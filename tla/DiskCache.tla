------------------------------ MODULE DiskCache ------------------------------
(***************************************************************************)
(* The write-back disk cache of PiCMD: class ScsiImage of                  *)
(* src/emulation/scsi.cpp and scsi.h, over the FatFS file it keeps open.   *)
(*                                                                         *)
(* One cache of NumSlots chunks is shared by every attached image.  The    *)
(* emulation core is the only caller and a call runs to its end, but it    *)
(* goes to the card several times on the way: each access is one action    *)
(* here, so the card may fail, or the power go, between any two of them.   *)
(* The record call holds the locals of the call in progress.               *)
(*                                                                         *)
(* A sector address (lba) is the pair of its chunk, lba / 8, and its place *)
(* in the chunk, lba % 8.                                                  *)
(***************************************************************************)
EXTENDS Integers, FiniteSets

CONSTANTS
  Images,           \* the ScsiImage objects ...
  Base,             \* ... and disk[0] of them
  Files,            \* the image files on the SD card
  NoFile,           \* an image that is not attached
  Chunks,           \* chunk numbers of a file
  SectorsPerChunk,
  InFile,           \* InFile[f]: the <<chunk, sector>> below sizeInSectors
  Stubs,            \* Stubs[f]: the last sector, if f_size is no multiple of 512
  LockedFiles,      \* files the card only lets us open for reading
  Companions,       \* Companions[i]: the files with the name image i asks for
  Data,             \* what a host writes to a sector
  Zero,             \* the sector of 512 zeros
  Torn,             \* a sector the card was interrupted in
  Stub, Clipped,    \* sectors that end before their 512th byte: zeros, or
                    \* the first bytes of something else
  NoData,           \* cache memory that was never filled; a reply without data
  NumSlots,
  Hash,             \* Hash[id][c]: the first slot of chunk c of image id
  Accessed,         \* bound: the addresses the calls use
  MaxAttach,        \* bound: number of Attach calls since power up
  MaxFaults         \* bound: number of card faults

Sectors == 0 .. SectorsPerChunk - 1
Slots == 0 .. NumSlots - 1
Addresses == Chunks \X Sectors
Ids == 0 .. MaxAttach
SectorData == Data \union {Zero, Torn}
Short == {Stub, Clipped}
CardData == SectorData \union Short

ASSUME SizesAssumption ==
  /\ SectorsPerChunk \in Nat \ {0}
  /\ NumSlots \in Nat \ {0, 1}
  /\ MaxAttach \in Nat
  /\ MaxFaults \in Nat
  /\ Base \in Images /\ Chunks # {}

ASSUME FilesAssumption ==
  /\ NoFile \notin Files
  /\ InFile \in [Files -> SUBSET Addresses]
  /\ Stubs \in [Files -> SUBSET Addresses]
  /\ \A f \in Files : Stubs[f] \subseteq InFile[f] /\ \A a, b \in Stubs[f] : a = b
  /\ LockedFiles \subseteq Files
  /\ Companions \in [Images -> SUBSET Files]
  /\ Accessed \subseteq Addresses

ASSUME HashAssumption == Hash \in [Ids -> [Chunks -> Slots]]

ASSUME DataAssumption ==
  /\ Short \intersect SectorData = {} /\ Stub # Clipped
  /\ NoData \notin CardData

VARIABLES
  card,         \* card[f][c][s]: what the SD card holds
  growth,       \* growth[f]: where the size of f is that a write to its short
                \* sector has given it: "saved" in the directory entry on the
                \* card, "window" in FatFS's copy of that or on the card, or in
                \* the "fil" only
  slots,        \* cacheSlots
  img,          \* the members of each ScsiImage, and the state of its FIL
  nextImageId,
  call,         \* the locals of the call in progress
  reply,        \* what the latest call returned, until the caller has taken it
  faults        \* number of card faults so far

vars == <<card, growth, slots, img, nextImageId, call, reply, faults>>

-----------------------------------------------------------------------------
(* Values. *)

\* A read of a sector pads what lies beyond the end of the file with zeros.
Whole(v) == CASE v = Stub -> Zero [] v = Clipped -> Torn [] OTHER -> v

\* What is left of a sector where the file ends before its 512th byte.
Clip(v) == IF Whole(v) = Zero THEN Stub ELSE Clipped

NoDataInSectors == [s \in Sectors |-> NoData]

\* A slot FindSlot hands out: taken from its old chunk, not valid yet.
NewSlot(id, c) ==
  [valid |-> FALSE, image |-> id, chunk |-> c,
   validMask |-> {}, dirtyMask |-> {}, data |-> NoDataInSectors]

\* Nothing reads the other members of a slot that is not valid.
EmptySlot == NewSlot(0, CHOOSE c \in Chunks : TRUE)

\* fil.err is the error flag FatFS keeps in the FIL: once f_read, f_write or
\* f_lseek met a disk error they return it again until the file is reopened.
\* modified is its FA_MODIFIED: f_sync has something to do.
NewImage ==
  [file |-> NoFile, readOnly |-> FALSE, id |-> 0, needSync |-> FALSE,
   writeErrorPending |-> FALSE, err |-> FALSE, modified |-> FALSE]

NoCall ==
  [pc |-> "idle", op |-> "none", image |-> CHOOSE i \in Images : TRUE,
   chunk |-> EmptySlot.chunk, sector |-> 0, data |-> NoData, file |-> NoFile,
   budget |-> FALSE, cur |-> 0, at |-> 0, tries |-> 1,
   failed |-> FALSE, imagesFailed |-> FALSE, todo |-> {}]

\* The reply to the access in frame: what it read, or what it wrote.
Answer(frame, res, d) ==
  [op |-> frame.op, file |-> img[frame.image].file,
   at |-> <<frame.chunk, frame.sector>>, res |-> res, data |-> d]
Refusal(frame) == Answer(frame, "error", NoData)

\* The reply to any other call.
Nowhere == <<>>
Said(res) ==
  [op |-> "other", file |-> NoFile, at |-> Nowhere, res |-> res, data |-> NoData]
Ok == Said("ok")
Error == Said("error")
NoReply == Said("none")

\* No call is in progress, and the caller has dealt with the latest.
Idle == call.pc = "idle" /\ reply = NoReply

\* The call returns r.
Return(r) == call' = NoCall /\ reply' = r

Attached(i) == img[i].file # NoFile

\* The sector is below sizeInSectors, which Detach sets to 0.
Within(i, c, s) == Attached(i) /\ <<c, s>> \in InFile[img[i].file]

-----------------------------------------------------------------------------
(* FatFS on the card. *)

\* f_lseek followed by f_read or f_write succeeds.
CardAnswers(i) == ~img[i].err

\* A fault of the card.  Later calls on a FIL whose err is set fail unseen.
Fault(i) ==
  \/ img[i].err /\ UNCHANGED faults
  \/ ~img[i].err /\ faults < MaxFaults /\ faults' = faults + 1

\* The file ends in one of the sectors in run of one chunk.
EndsIn(f, c, run) ==
  \E s \in run : <<c, s>> \in Stubs[f] /\ card[f][c][s] \in Short

\* f_write of these sectors.
Written(f, c, run, data) ==
  /\ card' = [card EXCEPT ![f][c] =
                [s \in Sectors |-> IF s \in run THEN data[s] ELSE @[s]]]
  /\ growth' = IF EndsIn(f, c, run) THEN [growth EXCEPT ![f] = "fil"] ELSE growth

\* A sector gets the data v, but the file does not grow.
Arrived(old, v) == IF old \in Short THEN Clip(v) ELSE v

\* A failing f_write: some of the sectors arrive, some are damaged.  A short
\* write (hard = FALSE) sets no error flag.
WriteFails(i, c, run, data, hard) ==
  /\ Fault(i)
  /\ IF img[i].err
     THEN hard = TRUE /\ UNCHANGED card
     ELSE \E arrived, damaged \in SUBSET run :
            card' = [card EXCEPT ![img[i].file][c] =
                       [s \in Sectors |-> IF s \in damaged THEN Arrived(@[s], Torn)
                                          ELSE IF s \in arrived THEN Arrived(@[s], data[s])
                                          ELSE @[s]]]
  /\ UNCHANGED growth

\* f_sync.  If FA_MODIFIED is set, it writes the directory entry, and the window
\* it finds dirty before.
Synced(i) ==
  IF img[i].modified
  THEN [f \in Files |-> IF f = img[i].file \/ growth[f] = "window" THEN "saved"
                        ELSE growth[f]]
  ELSE growth

\* It fails before it has the entry in the window, or behind that: then it has
\* cleared FA_MODIFIED all the same (ff.cpp, f_sync).
Unsynced(i, inWindow) ==
  [f \in Files |-> IF f = img[i].file /\ inWindow /\ growth[f] = "fil" THEN "window"
                   ELSE growth[f]]

FSyncFails(i) ==
  /\ img[i].modified
  /\ faults < MaxFaults
  /\ faults' = faults + 1

\* The file as long as the directory entry on the card says.
Shortened(f) ==
  [c \in Chunks |-> [s \in Sectors |->
     IF <<c, s>> \in Stubs[f] THEN Clip(card[f][c][s]) ELSE card[f][c][s]]]

-----------------------------------------------------------------------------
(* The cache. *)

Ways(id, c) == <<Hash[id][c], (Hash[id][c] + 1) % NumSlots>>

Holds(k, id, c) == slots[k].valid /\ slots[k].image = id /\ slots[k].chunk = c

Dirty(k) == slots[k].valid /\ slots[k].dirtyMask # {}

\* The slot a new chunk goes to: invalid first, then clean, then dirty.
Victim(id, c) ==
  LET a == Ways(id, c)[1]
      b == Ways(id, c)[2]
  IN  IF ~slots[a].valid THEN a
      ELSE IF ~slots[b].valid THEN b
      ELSE IF slots[a].dirtyMask = {} THEN a
      ELSE IF slots[b].dirtyMask = {} THEN b
      ELSE a

OtherWay(id, c, k) ==
  IF k = Ways(id, c)[1] THEN Ways(id, c)[2] ELSE Ways(id, c)[1]

\* Mutant of Hits: FindSlot forgets the second way.
FirstWayHits(id, c) == {k \in {Ways(id, c)[1]} : Holds(k, id, c)}

\* The slot that holds the chunk, if any.
Hits(id, c) == {k \in {Ways(id, c)[1], Ways(id, c)[2]} : Holds(k, id, c)}

\* FindSlot(chunk, true) on behalf of the call described by frame.
FindSlot(frame) ==
  LET id == img[frame.image].id
      c  == frame.chunk
      hits == Hits(id, c)
      v == Victim(id, c)
  IN  \/ \E k \in hits :
           /\ call' = [frame EXCEPT !.pc = "serve", !.cur = k]
           /\ UNCHANGED slots
      \/ /\ hits = {} /\ ~Dirty(v)
         /\ slots' = [slots EXCEPT ![v] = NewSlot(id, c)]
         /\ call' = [frame EXCEPT !.pc = "serve", !.cur = v]
      \/ /\ hits = {} /\ Dirty(v)
         /\ call' = [frame EXCEPT !.pc = "evict", !.cur = v]
         /\ UNCHANGED slots

\* ImageById: the attached image whose chunk slot k holds.
Owns(i, k) == Attached(i) /\ img[i].id = slots[k].image

\* The dirty sectors the next f_write of FlushChunk covers: the first run of
\* adjacent ones.
FirstRun(mask) ==
  {s \in mask : \A t \in mask, u \in Sectors \ mask : ~(t < u /\ u < s)}

HasDirtyChunks(i) ==
  \E k \in Slots : Dirty(k) /\ slots[k].image = img[i].id

\* The slots of image i FlushAllDirty has yet to visit.
Unflushed(i) ==
  {k \in Slots : k >= call.at /\ Dirty(k) /\ slots[k].image = img[i].id}

\* The caller looks at the result of its call, and goes on.
TakeReply ==
  /\ call.pc = "idle" /\ reply # NoReply
  /\ reply' = NoReply
  /\ UNCHANGED <<card, growth, slots, img, nextImageId, call, faults>>

-----------------------------------------------------------------------------
(* ReadSector and WriteSector. *)

Frame(op, i, c, s) ==
  [NoCall EXCEPT !.op = op, !.image = i, !.chunk = c, !.sector = s]

ReadSector(i, c, s) ==
  /\ Idle
  /\ LET frame == Frame("read", i, c, s)
     IN  \/ ~Attached(i) /\ Return(Refusal(frame)) /\ UNCHANGED slots
         \/ /\ Attached(i) /\ ~Within(i, c, s)
            /\ Return(Answer(frame, "ok", Zero)) /\ UNCHANGED slots
         \/ /\ Within(i, c, s)
            /\ FindSlot(frame) /\ reply' = NoReply
  /\ UNCHANGED <<card, growth, img, nextImageId, faults>>

WriteSector(i, c, s, d) ==
  /\ Idle
  /\ \/ /\ ~Within(i, c, s) \/ img[i].readOnly
        /\ Return(Refusal(Frame("write", i, c, s))) /\ UNCHANGED slots
     \/ /\ Within(i, c, s) /\ ~img[i].readOnly
        /\ FindSlot([Frame("write", i, c, s) EXCEPT !.data = d])
        /\ reply' = NoReply
  /\ UNCHANGED <<card, growth, img, nextImageId, faults>>

\* EvictSlot writes the dirty runs of the victim out for its owner; after the
\* last one FindSlot gives the slot to the chunk of the call.
EvictRun ==
  /\ call.pc \in {"evict", "evictOther"}
  /\ LET k == call.cur
         run == FirstRun(slots[k].dirtyMask)
         rest == slots[k].dirtyMask \ run
     IN  \E i \in Images :
           /\ Owns(i, k) /\ CardAnswers(i)
           /\ Written(img[i].file, slots[k].chunk, run, slots[k].data)
           /\ img' = [img EXCEPT ![i].modified = TRUE]
           /\ \/ /\ rest # {}
                 /\ slots' = [slots EXCEPT ![k].dirtyMask = rest]
                 /\ UNCHANGED call
              \/ /\ rest = {}
                 /\ slots' = [slots EXCEPT ![k] =
                                NewSlot(img[call.image].id, call.chunk)]
                 /\ call' = [call EXCEPT !.pc = "serve"]
  /\ UNCHANGED <<nextImageId, reply, faults>>

\* What cannot be written is not evicted: the owner latches the error, then
\* the other way is tried, then the call does without the cache.
EvictFails ==
  /\ call.pc \in {"evict", "evictOther"}
  /\ LET k == call.cur
         c == slots[k].chunk
     IN  \E i \in Images, hard \in BOOLEAN :
           /\ Owns(i, k)
           /\ WriteFails(i, c, FirstRun(slots[k].dirtyMask), slots[k].data, hard)
           /\ img' = [img EXCEPT ![i].err = hard,
                                 ![i].writeErrorPending = TRUE,
                                 ![i].modified = @ \/ ~hard]
           /\ \/ /\ call.pc = "evict"
                 /\ call' = [call EXCEPT !.pc = "evictOther",
                               !.cur = OtherWay(img[call.image].id, call.chunk, k)]
              \/ /\ call.pc = "evictOther"
                 /\ call' = [call EXCEPT !.pc = "through"]
  /\ UNCHANGED <<slots, nextImageId, reply>>

\* The sector is in the slot.
ReadFromSlot ==
  /\ call.pc = "serve" /\ call.op = "read"
  /\ call.sector \in slots[call.cur].validMask
  /\ Return(Answer(call, "ok", slots[call.cur].data[call.sector]))
  /\ UNCHANGED <<card, growth, slots, img, nextImageId, faults>>

\* The sector is not in the slot.  FillChunk reads the whole chunk if nothing
\* in it waits to be written, otherwise only the one sector is read.
ReadIntoSlot ==
  /\ call.pc = "serve" /\ call.op = "read"
  /\ call.sector \notin slots[call.cur].validMask
  /\ CardAnswers(call.image)
  /\ LET k == call.cur
         s == call.sector
         onCard == [t \in Sectors |->
                      Whole(card[img[call.image].file][call.chunk][t])]
     IN  /\ \/ /\ slots[k].dirtyMask = {}
               /\ slots' = [slots EXCEPT ![k].valid = TRUE,
                              ![k].validMask = Sectors, ![k].data = onCard]
            \/ /\ slots[k].dirtyMask # {}
               /\ slots' = [slots EXCEPT ![k].validMask = @ \union {s},
                              ![k].data = [@ EXCEPT ![s] = onCard[s]]]
         /\ Return(Answer(call, "ok", onCard[s]))
  /\ UNCHANGED <<card, growth, img, nextImageId, faults>>

ReadIntoSlotFails ==
  /\ call.pc = "serve" /\ call.op = "read"
  /\ call.sector \notin slots[call.cur].validMask
  /\ Fault(call.image)
  /\ img' = [img EXCEPT ![call.image].err = TRUE]
  /\ \/ /\ slots[call.cur].dirtyMask = {}
        /\ slots' = [slots EXCEPT ![call.cur] = EmptySlot]
     \/ slots[call.cur].dirtyMask # {} /\ UNCHANGED slots
  /\ Return(Refusal(call))
  /\ UNCHANGED <<card, growth, nextImageId>>

WriteIntoSlot ==
  /\ call.pc = "serve" /\ call.op = "write"
  /\ LET s == call.sector
     IN  slots' = [slots EXCEPT ![call.cur].valid = TRUE,
                     ![call.cur].validMask = @ \union {s},
                     ![call.cur].dirtyMask = @ \union {s},
                     ![call.cur].data = [@ EXCEPT ![s] = call.data]]
  /\ img' = [img EXCEPT ![call.image].needSync = TRUE]
  /\ Return(Answer(call, "ok", call.data))
  /\ UNCHANGED <<card, growth, nextImageId, faults>>

\* No slot could be freed: read or write the card itself.
ReadThrough ==
  /\ call.pc = "through" /\ call.op = "read"
  /\ \/ /\ CardAnswers(call.image)
        /\ Return(Answer(call, "ok",
                         Whole(card[img[call.image].file][call.chunk][call.sector])))
        /\ UNCHANGED <<img, faults>>
     \/ /\ Fault(call.image)
        /\ img' = [img EXCEPT ![call.image].err = TRUE]
        /\ Return(Refusal(call))
  /\ UNCHANGED <<card, growth, slots, nextImageId>>

WriteThrough ==
  /\ call.pc = "through" /\ call.op = "write"
  /\ LET i == call.image
         data == [s \in Sectors |-> call.data]
     IN  \/ /\ CardAnswers(i)
            /\ Written(img[i].file, call.chunk, {call.sector}, data)
            /\ img' = [img EXCEPT ![i].needSync = TRUE, ![i].modified = TRUE]
            /\ Return(Answer(call, "ok", call.data))
            /\ UNCHANGED faults
         \/ \E hard \in BOOLEAN :
              /\ WriteFails(i, call.chunk, {call.sector}, data, hard)
              /\ img' = [img EXCEPT ![i].err = hard,
                                    ![i].modified = @ \/ ~hard]
              /\ Return(Refusal(call))
  /\ UNCHANGED <<slots, nextImageId>>

-----------------------------------------------------------------------------
(* ReadSectorUncached and ReadSectorPhysical: one card access at most. *)

\* The sector as the card has it; a sector shorter than 512 bytes is an error.
ReadCard(frame) ==
  LET i == frame.image
      v == card[img[i].file][frame.chunk][frame.sector]
  IN  \/ /\ CardAnswers(i)
         /\ Return(IF v \in Short THEN Refusal(frame) ELSE Answer(frame, "ok", v))
         /\ UNCHANGED <<img, faults>>
      \/ /\ Fault(i)
         /\ img' = [img EXCEPT ![i].err = TRUE]
         /\ Return(Refusal(frame))

\* Mutant of ReadSectorUncached: the cache is not looked at.
ReadSectorBehindCache(i, c, s) ==
  /\ Idle
  /\ Within(i, c, s)
  /\ ReadCard(Frame("read", i, c, s))
  /\ UNCHANGED <<card, growth, slots, nextImageId>>

ReadSectorUncached(i, c, s) ==
  /\ Idle
  /\ LET frame == Frame("read", i, c, s)
         cached == {k \in Hits(img[i].id, c) : s \in slots[k].validMask}
     IN  \/ ~Attached(i) /\ Return(Refusal(frame)) /\ UNCHANGED <<img, faults>>
         \/ /\ Attached(i) /\ ~Within(i, c, s)
            /\ Return(Answer(frame, "ok", Zero)) /\ UNCHANGED <<img, faults>>
         \/ /\ Within(i, c, s)
            /\ \E k \in cached : Return(Answer(frame, "ok", slots[k].data[s]))
            /\ UNCHANGED <<img, faults>>
         \/ /\ Within(i, c, s)
            /\ cached = {}
            /\ ReadCard(frame)
  /\ UNCHANGED <<card, growth, slots, nextImageId>>

ReadSectorPhysical(i, c, s) ==
  /\ Idle
  /\ LET frame == Frame("medium", i, c, s)
     IN  \/ ~Within(i, c, s) /\ Return(Refusal(frame)) /\ UNCHANGED <<img, faults>>
         \/ Within(i, c, s) /\ ReadCard(frame)
  /\ UNCHANGED <<card, growth, slots, nextImageId>>

-----------------------------------------------------------------------------
(* Sync: FlushAllDirty, then f_sync once nothing is dirty. *)

\* FlushSome(maxMicros); without a budget this is FlushAll.  Images are
\* flushed in the order of attachedImages, left open here.
FlushSome(budget) ==
  /\ Idle
  /\ call' = [NoCall EXCEPT !.op = "flush", !.pc = "images", !.budget = budget,
                !.todo = {i \in Images : Attached(i) /\ img[i].needSync}]
  /\ reply' = NoReply
  /\ UNCHANGED <<card, growth, slots, img, nextImageId, faults>>

FlushNextImage ==
  /\ call.pc = "images"
  /\ \E i \in call.todo :
        call' = [call EXCEPT !.pc = "flushing", !.image = i, !.at = 0,
                   !.failed = FALSE, !.todo = @ \ {i}]
  /\ UNCHANGED <<card, growth, slots, img, nextImageId, reply, faults>>

\* Every image was visited, or the deadline was reached before the next one.
FlushSomeReturns ==
  /\ call.pc = "images"
  /\ call.todo = {} \/ call.budget
  /\ Return(IF call.imagesFailed THEN Error ELSE Ok)
  /\ UNCHANGED <<card, growth, slots, img, nextImageId, faults>>

\* Sync(true) on one image, as VERIFY calls it.
SyncImage(i) ==
  /\ Idle
  /\ \/ /\ Attached(i) /\ img[i].needSync
        /\ call' = [NoCall EXCEPT !.op = "sync", !.pc = "flushing", !.image = i]
        /\ reply' = NoReply
     \/ /\ ~(Attached(i) /\ img[i].needSync)
        /\ Return(Ok)
  /\ UNCHANGED <<card, growth, slots, img, nextImageId, faults>>

\* FlushChunk writes the next dirty run of the image out.
FlushRun ==
  /\ call.pc = "flushing" /\ CardAnswers(call.image)
  /\ \E k \in Unflushed(call.image) :
        LET run == FirstRun(slots[k].dirtyMask)
        IN  /\ \A other \in Unflushed(call.image) : k <= other
            /\ Written(img[call.image].file, slots[k].chunk, run, slots[k].data)
            /\ slots' = [slots EXCEPT ![k].dirtyMask = @ \ run]
  /\ img' = [img EXCEPT ![call.image].modified = TRUE]
  /\ UNCHANGED <<nextImageId, call, reply, faults>>

\* Mutant of FlushRunFails: the chunk that failed is tried again at once.
FlushRunRetries ==
  /\ call.pc = "flushing"
  /\ \E k \in Unflushed(call.image) :
        WriteFails(call.image, slots[k].chunk, FirstRun(slots[k].dirtyMask),
                   slots[k].data, TRUE)
  /\ img' = [img EXCEPT ![call.image].err = TRUE]
  /\ call' = [call EXCEPT !.failed = TRUE]
  /\ UNCHANGED <<slots, nextImageId, reply>>

\* The chunk keeps its dirty sectors and FlushAllDirty goes on with the next.
FlushRunFails ==
  /\ call.pc = "flushing"
  /\ \E k \in Unflushed(call.image), hard \in BOOLEAN :
        /\ \A other \in Unflushed(call.image) : k <= other
        /\ WriteFails(call.image, slots[k].chunk, FirstRun(slots[k].dirtyMask),
                      slots[k].data, hard)
        /\ img' = [img EXCEPT ![call.image].err = hard,
                     ![call.image].modified = @ \/ ~hard]
        /\ call' = [call EXCEPT !.failed = TRUE, !.at = k + 1]
  /\ UNCHANGED <<slots, nextImageId, reply>>

\* Every slot was visited, or the deadline was reached.
FlushAllDirtyReturns ==
  /\ call.pc = "flushing"
  /\ Unflushed(call.image) = {} \/ call.budget
  /\ call' = [call EXCEPT !.pc = "fsync"]
  /\ UNCHANGED <<card, growth, slots, img, nextImageId, reply, faults>>

\* Mutant of SyncReturns: FlushSome does not look at the result of Sync.
SyncReturnsIgnored(result) ==
  \/ /\ call.op = "flush"
     /\ call' = [call EXCEPT !.pc = "images"]
     /\ UNCHANGED reply
  \/ /\ call.op = "sync"
     /\ Return(IF result < 0 THEN Error ELSE Ok)
  \/ /\ call.op \in {"attach", "detach"}
     /\ call' = [call EXCEPT !.pc = "close"]
     /\ UNCHANGED reply

\* Sync returns -1, 0 or 1 to the call it is part of.  Detach tries twice.
SyncReturns(result) ==
  \/ /\ call.op = "flush"
     /\ call' = [call EXCEPT !.pc = "images",
                   !.imagesFailed = @ \/ result < 0]
     /\ UNCHANGED reply
  \/ /\ call.op = "sync"
     /\ Return(IF result < 0 THEN Error ELSE Ok)
  \/ /\ call.op \in {"attach", "detach"}
     /\ \/ /\ result < 0 /\ call.tries = 1
           /\ call' = [call EXCEPT !.pc = "flushing", !.at = 0,
                         !.failed = FALSE, !.tries = 2]
        \/ /\ result >= 0 \/ call.tries = 2
           /\ call' = [call EXCEPT !.pc = "close"]
     /\ UNCHANGED reply

\* Mutant of SyncPartly: the failure is counted but not latched.
SyncPartlyUnlatched ==
  /\ call.pc = "fsync" /\ HasDirtyChunks(call.image)
  /\ SyncReturns(IF call.failed THEN -1 ELSE 1)
  /\ UNCHANGED <<card, growth, slots, img, nextImageId, faults>>

\* Dirty chunks remain: there is no f_sync and needSync stays.
SyncPartly ==
  /\ call.pc = "fsync" /\ HasDirtyChunks(call.image)
  /\ img' = [img EXCEPT ![call.image].writeErrorPending = @ \/ call.failed]
  /\ SyncReturns(IF call.failed THEN -1 ELSE 1)
  /\ UNCHANGED <<card, growth, slots, nextImageId, faults>>

\* Everything went out, and f_sync succeeds.
SyncDone ==
  /\ call.pc = "fsync" /\ ~HasDirtyChunks(call.image)
  /\ img' = [img EXCEPT ![call.image].modified = FALSE,
                        ![call.image].needSync = @ /\ call.failed,
                        ![call.image].writeErrorPending = @ \/ call.failed]
  /\ growth' = Synced(call.image)
  /\ SyncReturns(IF call.failed THEN -1 ELSE 0)
  /\ UNCHANGED <<card, slots, nextImageId, faults>>

SyncFails ==
  /\ call.pc = "fsync" /\ ~HasDirtyChunks(call.image)
  /\ FSyncFails(call.image)
  /\ \E inWindow \in BOOLEAN :
        /\ img' = [img EXCEPT ![call.image].modified = ~inWindow,
                              ![call.image].writeErrorPending = TRUE]
        /\ growth' = Unsynced(call.image, inWindow)
  /\ SyncReturns(-1)
  /\ UNCHANGED <<card, slots, nextImageId>>

-----------------------------------------------------------------------------
(* Attach and Detach. *)

\* Where a call that begins with Detach goes first.
DetachFrame(frame, i) ==
  [frame EXCEPT !.image = i,
     !.pc = IF Attached(i)
            THEN IF img[i].needSync THEN "flushing" ELSE "close"
            ELSE "open"]

Detach(i) ==
  /\ Idle
  /\ \/ /\ Attached(i)
        /\ call' = DetachFrame([NoCall EXCEPT !.op = "detach"], i)
        /\ reply' = NoReply
     \/ /\ ~Attached(i)
        /\ Return(Ok)
  /\ UNCHANGED <<card, growth, slots, img, nextImageId, faults>>

\* Attach(f, false) begins with Detach().  No two images use one file, and none is
\* attached that goes with a disk[0] that is not.
Attach(i, f) ==
  /\ Idle
  /\ f \in Companions[i]
  /\ i = Base \/ Attached(Base)
  /\ nextImageId < MaxAttach
  /\ \A j \in Images : img[j].file # f
  /\ call' = DetachFrame([NoCall EXCEPT !.op = "attach", !.file = f], i)
  /\ reply' = NoReply
  /\ UNCHANGED <<card, growth, slots, img, nextImageId, faults>>

\* Nothing reads the other members of an image that is not attached.
DetachedImage(i) ==
  [NewImage EXCEPT !.writeErrorPending = img[i].writeErrorPending]

\* The slots once those of image id are invalidated.
SlotsWithout(id) ==
  [k \in Slots |-> IF slots[k].valid /\ slots[k].image = id
                   THEN EmptySlot ELSE slots[k]]

\* f_close is f_sync once more; its failure is only logged, and a size that only
\* the FIL had is gone with it.
FileClosed(i) ==
  LET f == img[i].file
  IN  \/ growth' = Synced(i) /\ UNCHANGED <<card, faults>>
      \/ /\ FSyncFails(i)
         /\ \/ growth[f] # "fil" /\ UNCHANGED <<card, growth>>
            \/ growth' = Unsynced(i, TRUE) /\ UNCHANGED card
            \/ /\ growth[f] = "fil"
               /\ growth' = [growth EXCEPT ![f] = "saved"]
               /\ card' = [card EXCEPT ![f] = Shortened(f)]

\* The end of Detach: the file is closed whether or not all of it could be
\* written, and the slots of the image are invalidated, dirty or not.
Close ==
  /\ call.pc = "close"
  /\ FileClosed(call.image)
  /\ slots' = SlotsWithout(img[call.image].id)
  /\ img' = [img EXCEPT ![call.image] = DetachedImage(call.image)]
  /\ \/ call.op = "detach" /\ Return(Ok)
     \/ /\ call.op = "attach"
        /\ call' = [call EXCEPT !.pc = "open"]
        /\ UNCHANGED reply
  /\ UNCHANGED nextImageId

\* f_open.  A file that cannot be opened for writing is opened for reading.
Open ==
  /\ call.pc = "open"
  /\ \E readOnly \in BOOLEAN :
       /\ IF readOnly /\ call.file \notin LockedFiles
          THEN faults < MaxFaults /\ faults' = faults + 1
          ELSE UNCHANGED faults
       /\ call.file \in LockedFiles => readOnly
       /\ img' = [img EXCEPT ![call.image] =
                    [@ EXCEPT !.file = call.file, !.readOnly = readOnly,
                       !.id = nextImageId, !.needSync = FALSE,
                       !.err = FALSE, !.modified = FALSE]]
  /\ nextImageId' = nextImageId + 1
  /\ slots' = SlotsWithout(nextImageId)
  /\ Return(Ok)
  /\ UNCHANGED <<card, growth>>

OpenFails ==
  /\ call.pc = "open"
  /\ faults < MaxFaults /\ faults' = faults + 1
  /\ Return(Error)
  /\ UNCHANGED <<card, growth, slots, img, nextImageId>>

\* The target reports a latched write error to the host, once.
TakeWriteError(i) ==
  /\ Idle
  /\ Attached(i) /\ img[i].writeErrorPending
  /\ img' = [img EXCEPT ![i].writeErrorPending = FALSE]
  /\ Return(Error)
  /\ UNCHANGED <<card, growth, slots, nextImageId, faults>>

\* The power goes and comes back: all that is left is the card, and a file is as
\* long as its directory entry says.
PowerCycle ==
  /\ \E lost \in SUBSET {f \in Files : growth[f] = "window"} :
       card' = [f \in Files |-> IF growth[f] = "fil" \/ f \in lost THEN Shortened(f)
                                ELSE card[f]]
  /\ growth' = [f \in Files |-> "saved"]
  /\ slots' = [k \in Slots |-> EmptySlot]
  /\ img' = [i \in Images |-> NewImage]
  /\ nextImageId' = 0
  /\ call' = NoCall
  /\ reply' = NoReply
  /\ UNCHANGED faults

-----------------------------------------------------------------------------
(* The specification. *)

Init ==
  /\ card = [f \in Files |-> [c \in Chunks |-> [s \in Sectors |->
               IF <<c, s>> \in Stubs[f] THEN Stub ELSE Zero]]]
  /\ growth = [f \in Files |-> "saved"]
  /\ slots = [k \in Slots |-> EmptySlot]
  /\ img = [i \in Images |-> NewImage]
  /\ nextImageId = 0
  /\ call = NoCall
  /\ reply = NoReply
  /\ faults = 0

Access(i, c, s) ==
  \/ ReadSector(i, c, s)
  \/ \E d \in Data : WriteSector(i, c, s, d)
  \/ ReadSectorUncached(i, c, s)
  \/ ReadSectorPhysical(i, c, s)

Calls ==
  \/ \E i \in Images, a \in Accessed : Access(i, a[1], a[2])
  \/ \E budget \in BOOLEAN : FlushSome(budget)
  \/ \E i \in Images : SyncImage(i) \/ Detach(i) \/ TakeWriteError(i)
  \/ \E i \in Images, f \in Files : Attach(i, f)

\* The call in progress goes on.
Step ==
  \/ TakeReply
  \/ EvictRun \/ EvictFails
  \/ ReadFromSlot \/ ReadIntoSlot \/ ReadIntoSlotFails \/ WriteIntoSlot
  \/ ReadThrough \/ WriteThrough
  \/ FlushNextImage \/ FlushSomeReturns
  \/ FlushRun \/ FlushRunFails \/ FlushAllDirtyReturns
  \/ SyncPartly \/ SyncDone \/ SyncFails
  \/ Close \/ Open \/ OpenFails

Next == Calls \/ Step \/ PowerCycle

Spec == Init /\ [][Next]_vars

\* A call that was made goes on (the core does nothing else), and the emulation
\* loop calls FlushAll whenever the bus stays quiet for long enough.
CallsProceed == WF_vars(Step)
QuietBusComes == SF_vars(FlushSome(FALSE))

FairSpec == Spec /\ CallsProceed /\ QuietBusComes

-----------------------------------------------------------------------------
(* Type correctness. *)

SlotType ==
  [valid : BOOLEAN, image : Ids, chunk : Chunks,
   validMask : SUBSET Sectors, dirtyMask : SUBSET Sectors,
   data : [Sectors -> SectorData \union {NoData}]]

ImageType ==
  [file : Files \union {NoFile}, readOnly : BOOLEAN, id : Ids,
   needSync : BOOLEAN, writeErrorPending : BOOLEAN, err : BOOLEAN,
   modified : BOOLEAN]

CallType ==
  [pc : {"idle", "evict", "evictOther", "serve", "through", "images",
         "flushing", "fsync", "close", "open"},
   op : {"none", "read", "write", "flush", "sync", "detach", "attach"},
   image : Images, chunk : Chunks, sector : Sectors,
   data : Data \union {NoData}, file : Files \union {NoFile},
   budget : BOOLEAN, cur : Slots, at : 0 .. NumSlots, tries : {1, 2},
   failed : BOOLEAN, imagesFailed : BOOLEAN, todo : SUBSET Images]

ReplyType ==
  [op : {"read", "medium", "write", "other"}, file : Files \union {NoFile},
   at : Addresses \union {Nowhere}, res : {"ok", "error", "none"},
   data : SectorData \union {NoData}]

\* Every variable keeps the type of the C++ member it stands for.
TypeOK ==
  /\ card \in [Files -> [Chunks -> [Sectors -> CardData]]]
  /\ growth \in [Files -> {"saved", "window", "fil"}]
  /\ slots \in [Slots -> SlotType]
  /\ img \in [Images -> ImageType]
  /\ nextImageId \in Ids
  /\ call \in CallType
  /\ reply \in ReplyType
  /\ faults \in 0 .. MaxFaults

-----------------------------------------------------------------------------
(* Safety. *)

\* The slots that hold sector s of chunk c of the file f and have it dirty.
DirtyCopies(f, c, s) ==
  {k \in Slots : /\ slots[k].valid /\ slots[k].chunk = c
                 /\ s \in slots[k].dirtyMask
                 /\ \E i \in Images : img[i].file = f /\ Owns(i, k)}

\* Two slots never hold the same chunk of the same image: FindSlot looks at
\* both ways before it takes a slot, so a write cannot go to one copy and a
\* later read to the other.
OneCopy ==
  \A j, k \in Slots :
    /\ slots[j].valid /\ slots[k].valid
    /\ slots[j].image = slots[k].image /\ slots[j].chunk = slots[k].chunk
    => j = k

\* A chunk in the cache always belongs to exactly one attached image, so
\* EvictSlot never meets the chunk of a detached image (its "dropped" branch
\* is dead code) and a dirty chunk always has an open file to go to.
OwnersAttached ==
  \A k \in Slots : slots[k].valid =>
    \E i \in Images : Owns(i, k) /\ \A j \in Images : Owns(j, k) => j = i

\* A sector that is valid and not dirty is what the card holds: dropping a
\* clean chunk from the cache loses nothing, whatever reads, failed writes and
\* evictions of other images came before.
CleanMatchesCard ==
  \A k \in Slots, i \in Images : slots[k].valid /\ Owns(i, k) =>
    \A s \in slots[k].validMask \ slots[k].dirtyMask :
      slots[k].data[s] = Whole(card[img[i].file][slots[k].chunk][s])

\* needSync is what every flush looks at first.  An image that does not need
\* a Sync has nothing left in the cache that the card does not have.
DirtyNeedsSync ==
  \A k \in Slots, i \in Images : Dirty(k) /\ Owns(i, k) => img[i].needSync

\* An image opened read-only never has a dirty chunk, so no flush tries to
\* write a file that is not open for writing.
ReadOnlyStaysClean ==
  \A k \in Slots, i \in Images : Owns(i, k) /\ img[i].readOnly => ~Dirty(k)

\* Whatever the caller reads next comes from the one place that has it: every
\* cached chunk is the only copy, of an image that is attached, clean data is
\* on the card, and what is not there a flush will look for.
CacheIsSound == OneCopy /\ OwnersAttached /\ CleanMatchesCard /\ DirtyNeedsSync

\* Detach invalidates slots it could not write.  Whenever that drops a write
\* the host believes done, the write error of the image is latched.
LossIsLatched ==
  [][Close /\ HasDirtyChunks(call.image)
       => img'[call.image].writeErrorPending]_vars

\* When FlushAll returns 0, or Sync(true) does for VERIFY, the card has every
\* acknowledged write: of all images, or of the one that was synced.
SuccessMeansClean ==
  [][call'.pc = "idle" /\ reply'.res = "ok" =>
       /\ call.pc = "images" /\ call.op = "flush" /\ ~call.budget =>
            \A i \in Images : ~(Attached(i) /\ HasDirtyChunks(i))
       /\ call.pc = "fsync" /\ call.op = "sync" =>
            ~HasDirtyChunks(call.image)]_vars

-----------------------------------------------------------------------------
(* Liveness. *)

\* Again and again the drive comes to rest with everything saved: every call
\* returns (neither eviction, nor a flush over chunks that cannot be written, nor
\* the two attempts of Detach goes on for ever), and what was acknowledged out of
\* RAM reaches the card, as long as the drive is left alone now and then and the
\* card has never failed.  After a single failure it need not: FatFS keeps the
\* error in the open file.
WorkGetsDone ==
  []<>(Idle /\ (faults > 0 \/ \A i \in Images : ~img[i].needSync))

-----------------------------------------------------------------------------
(* Refinement. *)

\* What the host believes each sector holds.
Contents ==
  [f \in Files |-> [a \in Addresses |->
     LET copies == DirtyCopies(f, a[1], a[2])
     IN  IF copies = {} THEN Whole(card[f][a[1]][a[2]])
         ELSE slots[CHOOSE k \in copies : TRUE].data[a[2]]]]

\* It was written, but the directory entry does not have the file that long yet.
Growing(f, a) == growth[f] # "saved" /\ a \in Stubs[f]

\* What is only in RAM: data, or the size without which it is not found.
Volatile ==
  [f \in Files |-> {a \in Addresses : DirtyCopies(f, a[1], a[2]) # {} \/ Growing(f, a)}]

\* The cache implements the write-behind disk: a read returns the latest write of
\* its sector, through any eviction, partial flush, failed write, detach and
\* reattach, and only a power failure or a detach that could not save everything
\* loses data, and only volatile data.
Promise == INSTANCE WriteBehindDisk WITH
             Data <- SectorData, contents <- Contents, volatile <- Volatile

WriteBehind == Promise!Spec

=============================================================================
