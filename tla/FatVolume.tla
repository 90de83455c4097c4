------------------------------ MODULE FatVolume ------------------------------
(***************************************************************************)
(* A mounted FAT32 volume (src/fatfs/ff.cpp): the window on one sector of  *)
(* the card, the FAT, and the root directory with its long names.          *)
(*                                                                         *)
(* Every function of the code is an operator that takes the volume and     *)
(* returns it changed; res is the function's result and val what it found. *)
(* The volume remembers in cuts every state the card was in meanwhile:     *)
(* the power may fail in any of them.  The fail-th access to the card from *)
(* now on fails, and the disk layer says so, as ff.cpp takes for granted.  *)
(* (That the SD driver does not always is what SdCard is about.)           *)
(*                                                                         *)
(* A directory entry is a record, a long name one entry; checksum and name *)
(* hash are what they are computed from.  Half a sector is the unit of     *)
(* file sizes.  Sub-directories and exFAT are not modelled: the program    *)
(* creates, renames and removes files in the root of the SD card only, and *)
(* the Pi does not boot from exFAT.                                        *)
(***************************************************************************)
EXTENDS Integers, Sequences, FiniteSets

CONSTANTS
  CSize,       \* csize: the sectors of a cluster
  NFats,       \* n_fats
  NFatEnt,     \* n_fatent: the number of clusters and 2
  FatEntries,  \* bound: the entries in a sector of the FAT (128)
  DirEntries   \* bound: the entries in a sector of a directory (16)

ASSUME FatVolumeAssumption ==
  /\ CSize \in {1, 2, 4} /\ NFats \in {1, 2}
  /\ NFatEnt \in Nat /\ NFatEnt > 2 /\ FatEntries \in Nat \ {0} /\ DirEntries \in Nat \ {0}

-----------------------------------------------------------------------------
(* The layout of the card. *)

Clusters == 2 .. NFatEnt - 1
EOC == NFatEnt + 1          \* a value that ends a chain
BAD == NFatEnt + 2          \* a cluster that cannot be used
RootClus == 2               \* dirbase

VolBase == 0
FSInfo == VolBase + 1
FatBase == 2
FatSize == (NFatEnt + FatEntries - 1) \div FatEntries    \* fsize
DataBase == FatBase + NFats * FatSize                    \* database
Sectors == VolBase .. DataBase + (NFatEnt - 2) * CSize - 1

Invalid == -1               \* winsect when the window holds nothing

\* The contents of sectors.
Data(x) == [i \in {-1} |-> x]
Blank == [i \in 0 .. DirEntries - 1 |-> [k |-> "end"]]

Deleted == [k |-> "free"]
Lfn(name, sfn) == [k |-> "lfn", name |-> name, sum |-> sfn]
File(sfn, ro, clst, size) == [k |-> "file", sfn |-> sfn, ro |-> ro, clst |-> clst, size |-> size]

\* The short name made of a name, and whether something of it is lost.
Lossy(name) == name = "image"

clust2sect(c) == IF c \in Clusters THEN (c - 2) * CSize + DataBase ELSE 0

-----------------------------------------------------------------------------
(* The card and the window. *)

Then(v, F(_)) == IF v.res = "ok" THEN F(v) ELSE v
Result(v, res) == [v EXCEPT !.res = res]
Found(v, val) == [v EXCEPT !.val = val]

IoFails(v) == [v EXCEPT !.fail = 0, !.failed = TRUE, !.res = "disk_err"]
Counted(v) == [v EXCEPT !.fail = IF @ = 0 THEN 0 ELSE @ - 1]

disk_write(v, s, x) ==
  IF v.fail = 1 THEN IoFails(v)
  ELSE LET d == [v.disk EXCEPT ![s] = x] IN [Counted(v) EXCEPT !.disk = d, !.cuts = @ \cup {d}]

\* disk_read, of what is not kept any longer than to be looked at.
disk_read(v) == IF v.fail = 1 THEN IoFails(v) ELSE Counted(v)

\* Whether the second copy gets the change does not matter.
Reflect(v, s, x) ==
  IF NFats = 2 /\ s - FatBase \in 0 .. FatSize - 1
    THEN Result(disk_write(v, s + FatSize, x), "ok") ELSE v

sync_window(v) ==
  IF ~v.wflag THEN v
  ELSE Then(disk_write(v, v.wsect, v.win),
            LAMBDA w : Reflect([w EXCEPT !.wflag = FALSE], v.wsect, v.win))

\* The window after disk_read left v.
Filled(v, s) ==
  IF v.res = "ok" THEN [v EXCEPT !.win = v.disk[s], !.wsect = s] ELSE [v EXCEPT !.wsect = Invalid]

move_window(v, s) ==
  IF s = v.wsect THEN v ELSE Then(sync_window(v), LAMBDA w : Filled(disk_read(w), s))

\* A mutant: the window is taken for written when a file is closed.
sync_fs_lazy(v) == v

\* FSInfo replaces what is in the window; whether it is written does not matter.
sync_fs(v) ==
  Then(sync_window(v), LAMBDA w :
    IF w.fsi = 1
      THEN Result([disk_write(w, FSInfo, Data(<<w.free, w.last>>))
                     EXCEPT !.win = Data(<<w.free, w.last>>), !.wsect = FSInfo, !.fsi = 0], "ok")
      ELSE w)

-----------------------------------------------------------------------------
(* The FAT. *)

FatSect(c) == FatBase + c \div FatEntries

\* val is -1 after a failure of the card, 1 for what is no cluster.
EntryOf(v, c) == Found(v, IF v.res = "ok" THEN v.win[c % FatEntries] ELSE -1)

get_fat(v, c) ==
  IF c \notin Clusters THEN Found(v, 1) ELSE EntryOf(move_window(v, FatSect(c)), c)

put_fat(v, c, x) ==
  IF c \notin Clusters THEN Result(v, "int_err")
  ELSE Then(move_window(v, FatSect(c)), LAMBDA w : [w EXCEPT !.win[c % FatEntries] = x, !.wflag = TRUE])

\* free_clst counts while it is known.  FSInfo is to be written when it has
\* counted, and after every cluster taken; never when bit 7 is set, too.
Counts(v) == v.free \in 0 .. NFatEnt - 3
InfoDue(v) == [v EXCEPT !.fsi = IF @ = 0 THEN 1 ELSE @]
Freed(v) == IF Counts(v) THEN InfoDue([v EXCEPT !.free = @ + 1]) ELSE v
Taken(v) == InfoDue([v EXCEPT !.free = IF Counts(v) THEN @ - 1 ELSE @])

\* A mutant: only the first cluster of a chain is freed.
remove_first(v, c) ==
  IF c \notin Clusters THEN Result(v, "int_err")
  ELSE Then(put_fat(v, c, 0), LAMBDA w : Freed(w))

RECURSIVE remove_chain(_, _)
remove_chain(v, c) ==
  IF c \notin Clusters THEN Result(v, "int_err")
  ELSE Then(get_fat(v, c), LAMBDA g :
    CASE g.val = 0 -> g
      [] g.val = 1 -> Result(g, "int_err")
      [] OTHER -> Then(put_fat(g, c, 0), LAMBDA w :
                    IF g.val >= NFatEnt THEN Freed(w) ELSE remove_chain(Freed(w), g.val)))

\* Look for a free cluster behind c, up to scl.
RECURSIVE FreeBehind(_, _, _)
FreeBehind(v, scl, c) ==
  LET n == IF c + 1 >= NFatEnt THEN 2 ELSE c + 1
  IN IF n = 2 /\ scl < 2 /\ c # scl THEN Found(v, 0)
     ELSE Then(get_fat(v, n), LAMBDA g :
            CASE g.val = 0 -> Found(g, n)
              [] g.val = 1 -> g
              [] n = scl -> Found(g, 0)
              [] OTHER -> FreeBehind(g, scl, n))

Link(v, clst, n) ==
  Then(put_fat(v, n, EOC), LAMBDA w : IF clst = 0 THEN w ELSE put_fat(w, clst, n))

Allocate(v, clst, scl) ==
  Then(FreeBehind(v, scl, scl), LAMBDA w :
    IF w.val \in {0, 1} THEN w
    ELSE Then(Link(w, clst, w.val), LAMBDA x : Taken([x EXCEPT !.last = w.val, !.val = w.val])))

\* val is 0 when the card is full.
create_chain(v, clst) ==
  IF clst = 0 THEN Allocate(v, 0, IF v.last \in {0, Invalid} \/ v.last >= NFatEnt THEN 1 ELSE v.last)
  ELSE Then(get_fat(v, clst), LAMBDA g :
         CASE g.val < 2 -> Found(g, 1)
           [] g.val < NFatEnt -> g
           [] OTHER -> Allocate(g, clst, clst))

-----------------------------------------------------------------------------
(* The root directory.  dp is the DIR object: dptr, clust, sect, blk.      *)

\* What a sector of data looks like as a directory: entries of no name we know.
EntryIn(x, i) == IF i \in DOMAIN x THEN x[i] ELSE [k |-> "junk"]

Entry(v) == EntryIn(v.win, v.dp.dptr % DirEntries)
SetEntry(v, e) == [v EXCEPT !.win[v.dp.dptr % DirEntries] = e, !.wflag = TRUE]

RECURSIVE FollowChain(_, _, _)
FollowChain(v, c, n) ==
  IF n = 0 THEN Found(v, c)
  ELSE Then(get_fat(v, c), LAMBDA g :
         IF g.val \in Clusters THEN FollowChain(g, g.val, n - 1) ELSE Result(g, "int_err"))

dir_sdi(v, ofs) ==
  Then(FollowChain(v, RootClus, ofs \div (CSize * DirEntries)), LAMBDA w :
    [w EXCEPT !.dp.dptr = ofs, !.dp.clust = w.val,
              !.dp.sect = clust2sect(w.val) + ((ofs \div DirEntries) % CSize)])

\* Fill sector s and the n - 1 behind it with nothing.
RECURSIVE CleanUp(_, _, _)
CleanUp(v, s, n) ==
  IF n = 0 THEN v
  ELSE Then(sync_window([v EXCEPT !.win = Blank, !.wsect = s, !.wflag = TRUE]),
            LAMBDA w : CleanUp(w, s + 1, n - 1))

Stretch(v) ==
  Then(create_chain(v, v.dp.clust), LAMBDA w :
    CASE w.val = 0 -> Result(w, "denied")
      [] w.val = 1 -> Result(w, "int_err")
      [] OTHER -> Then(sync_window(w), LAMBDA x : Then(CleanUp(x, clust2sect(w.val), CSize),
                    LAMBDA y : [y EXCEPT !.wsect = clust2sect(w.val), !.val = w.val])))

NextCluster(v, stretch) ==
  Then(get_fat(v, v.dp.clust), LAMBDA g :
    CASE g.val \in {0, 1} -> Result(g, "int_err")
      [] g.val < NFatEnt -> g
      [] stretch -> Stretch(g)
      [] OTHER -> [g EXCEPT !.dp.sect = 0, !.res = "no_file"])

dir_next(v, stretch) ==
  LET ofs == v.dp.dptr + 1
  IN IF ofs % DirEntries # 0 THEN [v EXCEPT !.dp.dptr = ofs]
     ELSE IF (ofs \div DirEntries) % CSize # 0 THEN [v EXCEPT !.dp.dptr = ofs, !.dp.sect = @ + 1]
     ELSE Then(NextCluster(v, stretch), LAMBDA w :
            [w EXCEPT !.dp.dptr = ofs, !.dp.clust = w.val, !.dp.sect = clust2sect(w.val)])

\* Reserve one entry: that is all the names need this program creates.
RECURSIVE AllocFrom(_)
AllocFrom(v) ==
  Then(move_window(v, v.dp.sect), LAMBDA w :
    IF Entry(w).k \in {"end", "free"} THEN w ELSE Then(dir_next(w, TRUE), AllocFrom))

NoneLeft(v) == IF v.res = "no_file" THEN Result(v, "denied") ELSE v

dir_alloc(v) == NoneLeft(Then(dir_sdi(v, 0), AllocFrom))

\* The entry at dp is of the file with that name: by its long name, whose
\* checksum is of the short one, or by its short name.
cmp_lfn(e, name) == e.name = name

\* sum is the short name the long name just before belongs to, if it matched.
RECURSIVE FindFrom(_, _, _)
FindFrom(v, name, sum) ==
  Then(move_window(v, v.dp.sect), LAMBDA w :
    LET e == Entry(w)
        next(s, blk) == Then(dir_next([w EXCEPT !.dp.blk = blk], FALSE), LAMBDA x : FindFrom(x, name, s))
    IN CASE e.k = "end" -> Result(w, "no_file")
         [] e.k \in {"free", "label", "junk"} -> next("none", Invalid)
         [] e.k = "lfn" -> next(IF cmp_lfn(e, name) THEN e.sum ELSE "none", w.dp.dptr)
         [] e.k = "file" -> IF sum = e.sfn \/ (~Lossy(name) /\ e.sfn = name) THEN w
                            ELSE next("none", Invalid))

dir_find(v, name) ==
  Then(dir_sdi([v EXCEPT !.dp.blk = Invalid], 0), LAMBDA w : FindFrom(w, name, "none"))

NoName == [name |-> "none", sum |-> "none"]

\* The long name that was collected is that of e if its checksum is of e.
pick_lfn(e, l) == IF l.sum = e.sfn THEN l ELSE NoName

\* On to the entry of the next file, with its long name if it has one.
RECURSIVE dir_read(_)
dir_read(v) ==
  Then(move_window(v, v.dp.sect), LAMBDA w :
    LET e == Entry(w)
        next(l) == Then(dir_next([w EXCEPT !.lfn = l], FALSE), dir_read)
    IN CASE e.k = "end" -> Result(w, "no_file")
         [] e.k \in {"free", "label", "junk"} -> next(NoName)
         [] e.k = "lfn" -> next([name |-> e.name, sum |-> e.sum])
         [] e.k = "file" -> [w EXCEPT !.lfn = pick_lfn(e, @)])

\* What f_readdir tells of the file at dp.
get_fileinfo(v) ==
  LET e == Entry(v)
  IN [name |-> IF v.lfn.name = "none" THEN e.sfn ELSE v.lfn.name, size |-> e.size, ro |-> e.ro]

\* A new entry for a name.
dir_register(v, name) ==
  Then(dir_alloc(v), LAMBDA w : Then(move_window(w, w.dp.sect), LAMBDA x :
    SetEntry(x, File(name, FALSE, 0, 0))))

RECURSIVE RemoveUpTo(_, _)
RemoveUpTo(v, last) ==
  Then(move_window(v, v.dp.sect), LAMBDA w :
    LET x == SetEntry(w, Deleted)
    IN IF x.dp.dptr >= last THEN x ELSE Then(dir_next(x, FALSE), LAMBDA y : RemoveUpTo(y, last)))

\* Mark the entries of the long name, then that of the file, deleted.
dir_remove(v) ==
  LET last == v.dp.dptr
  IN Then(IF v.dp.blk = Invalid THEN v ELSE dir_sdi(v, v.dp.blk), LAMBDA w : RemoveUpTo(w, last))

-----------------------------------------------------------------------------
(* Mounting. *)

\* check_fs and find_volume, and what FSInfo says of the clusters; whether it
\* can be read does not matter.
Informed(v) ==
  LET info == IF v.res = "ok" THEN v.win[-1] ELSE <<Invalid, Invalid>>
  IN [v EXCEPT !.res = "ok", !.mounted = TRUE, !.fsi = IF v.res = "ok" THEN 0 ELSE 128,
               !.free = info[1], !.last = info[2]]

Mount(v) ==
  Then(disk_read([v EXCEPT !.wflag = FALSE, !.wsect = VolBase, !.win = v.disk[VolBase]]), LAMBDA w :
    Informed(move_window(w, FSInfo)))

find_volume(v) == IF v.mounted THEN v ELSE Mount(v)
=============================================================================
