---------------------------- MODULE FirmwareUpdate ----------------------------
(***************************************************************************)
(* The kernel on the SD card is replaced by that of a USB stick when the   *)
(* Pi starts (UpdateFirmwareToSD of src/main.cpp); after that the card is  *)
(* used for a disk image.  Every step is one call of FatFiles.  In any     *)
(* call an access to the card may fail and, between any two writes, the    *)
(* power; the Pi boots from what is on the card then.                      *)
(*                                                                         *)
(* A kernel is its version: files hold 10 * version + n.                   *)
(***************************************************************************)
EXTENDS FatFiles

CONSTANTS
  KernelSize,  \* in halves of sectors
  Versions,    \* kernels of sticks; the card comes with version 1
  Cards,       \* the cards there are: their sectors
  ImageSectors, \* 0 .. n, the sectors of the image
  MaxBoots,    \* bound: how often the Pi is switched on
  MaxFaults,   \* bound: accesses to the card that fail
  MaxCuts,     \* bound: power failures
  MaxIo,       \* bound: the accesses of one call
  MaxWrites    \* bound: writes to the image

VARIABLES
  vol,      \* the volume, and the card in it
  pc,       \* the next call of UpdateFirmwareToSD; "up" after it, "off", "dead"
  stick,    \* the version on the stick, or 0
  wres,     \* f_write of kernel.new wrote it all
  told,     \* the version the update says it put in place, or 0
  image,    \* image[s]: what sector s of the image may hold by now
  twins,    \* at some boot there were files that share clusters
  boots, faults, cuts, writes

vars == <<vol, pc, stick, wres, told, image, twins, boots, faults, cuts, writes>>

Content(version) == [i \in 1 .. KernelSize |-> 10 * version + i]

-----------------------------------------------------------------------------
(* What is on a card, read without FatFs. *)

FatOf(d, c) == d[FatSect(c)][c % FatEntries]

\* The clusters from c on, as far as the FAT says.
RECURSIVE ChainOf(_, _, _)
ChainOf(d, c, n) ==
  IF n = 0 \/ c \notin Clusters THEN <<>> ELSE <<c>> \o ChainOf(d, FatOf(d, c), n - 1)
Chain(d, c) == ChainOf(d, c, NFatEnt)

SectorsOf(chain) ==
  [i \in 1 .. Len(chain) * CSize |-> clust2sect(chain[((i - 1) \div CSize) + 1]) + ((i - 1) % CSize)]

\* The entries of a directory in sectors ss; those up to the end; the root directory's.
EntriesIn(d, ss) ==
  [i \in 1 .. Len(ss) * DirEntries |->
     EntryIn(d[ss[((i - 1) \div DirEntries) + 1]], (i - 1) % DirEntries)]
UpToEnd(e) ==
  SubSeq(e, 1, CHOOSE n \in 0 .. Len(e) :
    (n = Len(e) \/ e[n + 1].k = "end") /\ \A i \in 1 .. n : e[i].k # "end")
EntriesOf(d) == UpToEnd(EntriesIn(d, SectorsOf(Chain(d, RootClus))))

NameOf(e, i) ==
  IF i > 1 /\ e[i - 1].k = "lfn" /\ e[i - 1].sum = e[i].sfn THEN e[i - 1].name ELSE e[i].sfn

\* The files: their names with their entries.
FilesAmong(e) ==
  {[name |-> NameOf(e, i), entry |-> e[i]] : i \in {j \in DOMAIN e : e[j].k = "file"}}
FilesOn(d) == FilesAmong(EntriesOf(d))

\* A chain ends, is long enough for the size and has no cluster twice.
SoundFile(d, e) ==
  IF e.clst = 0 THEN e.size = 0
  ELSE LET c == Chain(d, e.clst)
       IN /\ Len(c) < NFatEnt /\ FatOf(d, c[Len(c)]) = EOC
          /\ Len(c) * ClusterSize >= e.size

ContentOf(d, e) ==
  LET ss == SectorsOf(Chain(d, e.clst))
  IN [i \in 1 .. e.size |-> Units(d[ss[((i - 1) \div Half) + 1]])[((i - 1) % Half) + 1]]

\* The version of the kernel of that name, or 0 if there is none or it is broken.
OneOf(S) == IF S = {} THEN 0 ELSE CHOOSE v \in S : TRUE
KernelOn(d, name) ==
  OneOf({v \in Versions \cup {1} : \E f \in FilesOn(d) :
           /\ f.name = name /\ f.entry.size = KernelSize
           /\ SoundFile(d, f.entry) /\ ContentOf(d, f.entry) = Content(v)})

ClustersOf(d, e) == LET c == Chain(d, e.clst) IN {c[i] : i \in DOMAIN c}

SharesClusters(d) ==
  \E f, g \in FilesOn(d) : f # g /\ ClustersOf(d, f.entry) \cap ClustersOf(d, g.entry) # {}

-----------------------------------------------------------------------------
(* Calls.  What the volume knows between two calls. *)

Between(w) == [w EXCEPT !.dp = Unmounted(w.disk).dp, !.lfn = NoName, !.val = 0, !.res = "ok",
                        !.cuts = {}, !.fail = 0, !.failed = FALSE]

\* The outcomes of a call: the n-th of its accesses may fail.
Outcomes(Call(_)) ==
  {w \in {Call([vol EXCEPT !.cuts = {vol.disk}, !.fail = n]) :
            n \in IF faults < MaxFaults THEN 0 .. MaxIo ELSE {0}} : w.fail = 0}

Switched(off) ==
  /\ vol' = Between(Unmounted(off)) /\ pc' = "off"
  /\ stick' = 0 /\ wres' = FALSE /\ told' = 0
  /\ UNCHANGED <<twins, boots>>

PowerCut(w) ==
  /\ cuts < MaxCuts /\ cuts' = cuts + 1
  /\ \E d \in w.cuts : Switched(d)

\* The call is made, and the program goes on with next; or the power fails.
Returns(w, next) ==
  /\ faults' = faults + (IF w.failed THEN 1 ELSE 0)
  /\ \/ vol' = Between(w) /\ pc' = next /\ UNCHANGED <<stick, twins, boots, cuts>>
     \/ PowerCut(w)

Step(now, Call(_), Next(_)) ==
  pc = now /\ \E w \in Outcomes(Call) : Returns(w, Next(w))

-----------------------------------------------------------------------------
(* UpdateFirmwareToSD. *)

\* The Pi boots with the kernel that is on the card, and mounts it.
PowerOn ==
  /\ pc = "off" /\ boots < MaxBoots /\ boots' = boots + 1
  /\ \E s \in Versions \cup {0} :
       /\ stick' = s
       /\ pc' = IF KernelOn(vol.disk, "kernel.img") = 0 THEN "dead"
                ELSE IF s = 0 THEN "up" ELSE "compare"
  /\ vol' = Between(Mount(vol))
  /\ twins' = (twins \/ SharesClusters(vol.disk))
  /\ UNCHANGED <<wres, told, image, faults, cuts, writes>>

\* Go on after a call that succeeded with what the program wants, or the kernels differ.
Provided(v, Wanted(_), F(_)) == IF v.res = "ok" /\ Wanted(v) THEN F(v) ELSE Found(v, FALSE)

\* Unit by unit, up to the first that differs or cannot be read.
RECURSIVE SameFrom(_, _)
SameFrom(v, rest) ==
  IF rest = <<>> THEN Found(v, TRUE)
  ELSE Provided(f_read(v, 1), LAMBDA w : w.val = <<Head(rest)>>, LAMBDA w : SameFrom(w, Tail(rest)))

\* f_close leaves val, what was found, alone.
Compare(v) ==
  Provided(f_stat(v, "kernel.img"), LAMBDA s : s.val = KernelSize, LAMBDA s :
    Provided(f_open(s, "kernel.img", "read"), LAMBDA o : TRUE, LAMBDA o :
      f_close(Result(SameFrom(o, Content(stick)), "ok"))))

CompareKernels ==
  /\ Step("compare", Compare, LAMBDA w : IF w.val = TRUE THEN "up" ELSE "create")
  /\ UNCHANGED <<wres, told, image, writes>>

\* Nothing but the next step depends on the outcome.
Quiet == UNCHANGED <<image, writes>> /\ (pc' # "off" => UNCHANGED <<wres, told>>)

CreateNew ==
  /\ Step("create", LAMBDA v : f_open(v, "kernel.new", "create"),
          LAMBDA w : IF w.res = "ok" THEN "write" ELSE "clear")
  /\ Quiet

WriteNew ==
  /\ pc = "write"
  /\ \E w \in Outcomes(LAMBDA v : f_write(v, Content(stick))) :
       /\ Returns(w, "close")
       /\ pc' # "off" => wres' = (w.res = "ok" /\ w.val = KernelSize)
  /\ UNCHANGED <<image, writes>> /\ (pc' # "off" => told' = told)

\* The FIL is not used again, whatever f_close says.
Dropped(v) == [f_close(v) EXCEPT !.f = Closed]

CloseNew ==
  /\ Step("close", Dropped, LAMBDA w : IF wres /\ w.res = "ok" THEN "unlink" ELSE "clear")
  /\ Quiet

ClearBackup ==
  /\ Step("unlink", LAMBDA v : f_unlink(v, "kernel.bak"), LAMBDA w : "aside")
  /\ Quiet

MoveAside ==
  /\ Step("aside", LAMBDA v : f_rename(v, "kernel.img", "kernel.bak"),
          LAMBDA w : IF w.res = "ok" THEN "place" ELSE "clear")
  /\ Quiet

PutInPlace ==
  /\ pc = "place"
  /\ \E w \in Outcomes(LAMBDA v : f_rename(v, "kernel.new", "kernel.img")) :
       /\ Returns(w, IF w.res = "ok" THEN "up" ELSE "putback")
       /\ pc' # "off" => told' = IF w.res = "ok" THEN stick ELSE 0
  /\ UNCHANGED <<image, writes>> /\ (pc' # "off" => wres' = wres)

PutBack ==
  /\ Step("putback", LAMBDA v : f_rename(v, "kernel.bak", "kernel.img"), LAMBDA w : "clear")
  /\ Quiet

ClearNew ==
  /\ Step("clear", LAMBDA v : f_unlink(v, "kernel.new"), LAMBDA w : "up")
  /\ Quiet

-----------------------------------------------------------------------------
(* The card in use. *)

Idle == pc = "up" /\ ~vol.f.open

OpenImage ==
  /\ Idle /\ writes < MaxWrites
  /\ Step("up", LAMBDA v : f_open(v, "image", "write"), LAMBDA w : "up")
  /\ Quiet

\* Sector s is written; if that fails, or the power, it may be or not.
WriteImage(s) ==
  /\ vol.f.open /\ writes < MaxWrites /\ writes' = writes + 1
  /\ pc = "up"
  /\ LET x == <<1000 + writes, 1000 + s>>
     IN \E w \in Outcomes(LAMBDA v : Then(f_lseek(v, s * Half), LAMBDA y : f_write(y, x))) :
          /\ Returns(w, "up")
          /\ image' = [image EXCEPT ![s] = IF w.res = "ok" /\ pc' = "up" THEN {x} ELSE @ \cup {x}]
  /\ pc' = "up" => UNCHANGED <<wres, told>>

CloseImage ==
  /\ vol.f.open /\ Step("up", Dropped, LAMBDA w : "up")
  /\ Quiet

\* The Pi is switched off while it does nothing to the card.
PowerOff ==
  /\ pc = "up" /\ Switched(vol.disk) /\ UNCHANGED <<image, faults, cuts, writes>>

-----------------------------------------------------------------------------

Init ==
  /\ \E d \in Cards : vol = Between(Unmounted(d))
  /\ pc = "off" /\ stick = 0 /\ wres = FALSE /\ told = 0 /\ twins = FALSE
  /\ image = [s \in ImageSectors |-> {<<500 + s, 500 + s>>}]
  /\ boots = 0 /\ faults = 0 /\ cuts = 0 /\ writes = 0

Update ==
  \/ CompareKernels \/ CreateNew \/ WriteNew \/ CloseNew \/ ClearBackup \/ MoveAside
  \/ PutInPlace \/ PutBack \/ ClearNew

Next ==
  \/ PowerOn \/ Update
  \/ OpenImage \/ (\E s \in ImageSectors : WriteImage(s)) \/ CloseImage \/ PowerOff

Spec == Init /\ [][Next]_vars

-----------------------------------------------------------------------------
(* Properties. *)

\* Whatever fails, access or power, a kernel that boots is on the card, if need
\* be as kernel.bak: until the Pi is switched on with two files on the card that
\* share clusters (twins), which a rename that was cut short leaves.
KernelSurvives ==
  twins \/ \E n \in {"kernel.img", "kernel.bak"} : KernelOn(vol.disk, n) # 0

\* "Only put it in place once it is known to be complete" (main.cpp 1639): an
\* update that is reported as done needs nothing more to be written; the Pi can
\* be switched off at once and comes up with the new kernel.  Two updates after
\* a rename that was cut short this is false, though every access works.
PlacedIsComplete == pc = "up" /\ told # 0 => KernelOn(vol.disk, "kernel.img") = told

\* It is true on a card on which no two files ever shared clusters at a boot.
UpdateIsOnTheCard == twins \/ PlacedIsComplete

\* No step of an update and no trouble in one changes the image: its sectors
\* hold what was last written to them, or, when that failed, what was there before.
ImageIsKept ==
  \E f \in FilesOn(vol.disk) :
    /\ f.name = "image" /\ SoundFile(vol.disk, f.entry)
    /\ f.entry.size = Half * Cardinality(ImageSectors)
    /\ \A s \in ImageSectors :
         SubSeq(ContentOf(vol.disk, f.entry), Half * s + 1, Half * s + Half) \in image[s]

\* As long as every access to the card works, the chain of every file ends and
\* is as long as the file; two files share clusters only as the old and the new
\* name of one that was being renamed when the power failed.  Once the Pi was
\* switched on with such twins this is over: the next update removes one of them
\* and with it the chain of the other.
ChainsAreSound ==
  twins \/ faults > 0 \/ \A f \in FilesOn(vol.disk) :
    /\ SoundFile(vol.disk, f.entry)
    /\ \A g \in FilesOn(vol.disk) :
         \/ f = g \/ ClustersOf(vol.disk, f.entry) \cap ClustersOf(vol.disk, g.entry) = {}
         \/ cuts > 0 /\ f.entry.clst = g.entry.clst

\* Without trouble a cluster is free or some file's, and FatFs knows how many are free.
NoClusterIsLost ==
  cuts + faults = 0 /\ ~vol.f.open =>
    LET used == {c \in Clusters : FatOf(vol.disk, c) \notin {0, BAD}}
        free == {c \in Clusters : FatOf(vol.disk, c) = 0}
        root == Chain(vol.disk, RootClus)
    IN /\ used = UNION {ClustersOf(vol.disk, f.entry) : f \in FilesOn(vol.disk)}
                   \cup {root[i] : i \in DOMAIN root}
       /\ vol.free \in {Invalid, Cardinality(free)}

\* A listing shows the files of the card, each by its own long name, and each
\* of them is found by that name.
ListingIsTrue ==
  pc = "up" /\ ~vol.wflag =>
    LET list == f_readdir(vol).val
        there == {[name |-> f.name, size |-> f.entry.size, ro |-> f.entry.ro] : f \in FilesOn(vol.disk)}
    IN /\ {list[i] : i \in DOMAIN list} = there
       /\ \A x \in there : LET w == f_stat(vol, x.name) IN w.res = "ok"

\* What is there after an update is what should be: the new kernel, when it was
\* reported and no twins were met, and in any case the image as it was.
UpdateIsTrue == UpdateIsOnTheCard /\ ImageIsKept

\* The volume is one another system finds no fault with.
VolumeIsSound == ChainsAreSound /\ NoClusterIsLost /\ ListingIsTrue
=============================================================================
