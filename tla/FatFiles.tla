------------------------------- MODULE FatFiles -------------------------------
(***************************************************************************)
(* The calls of FatFs (src/fatfs/ff.cpp) on files in the root directory of *)
(* a FAT32 volume.  f is the one FIL object the program has open at a time *)
(* on that volume.  A call returns the volume with its FRESULT in res and  *)
(* what it hands back in val.                                              *)
(*                                                                         *)
(* A file is a sequence of halves of sectors: fptr, size and lengths count *)
(* those.  A sector with data is a pair, at -1 to tell it from the others. *)
(***************************************************************************)
EXTENDS FatVolume

Half == 2                    \* units in a sector
ClusterSize == Half * CSize  \* bcs

Closed == [open |-> FALSE]

Unmounted(disk) ==
  [disk |-> disk, win |-> Blank, wsect |-> Invalid, wflag |-> FALSE, mounted |-> FALSE,
   last |-> Invalid, free |-> Invalid, fsi |-> 128, f |-> Closed,
   dp |-> [dptr |-> 0, clust |-> 0, sect |-> 0, blk |-> Invalid], lfn |-> NoName,
   res |-> "ok", val |-> 0, cuts |-> {disk}, fail |-> 0, failed |-> FALSE]

\* A path of one name in the root directory.
follow_path(v, name) == dir_find(v, name)

Located(v, name) == Then(find_volume(v), LAMBDA m : follow_path(m, name))

-----------------------------------------------------------------------------
(* Opening. *)

\* The file becomes empty; the hole it leaves is used again first.
Truncate(v) ==
  LET e == Entry(v)
      w == SetEntry(v, [e EXCEPT !.ro = FALSE, !.clst = 0, !.size = 0])
  IN IF e.clst = 0 THEN w
     ELSE Then(remove_chain(w, e.clst), LAMBDA x :
            Then(move_window(x, w.wsect), LAMBDA y : [y EXCEPT !.last = e.clst - 1]))

Opened(v, mode) ==
  [v EXCEPT !.f =
     [open |-> TRUE, mode |-> mode, modified |-> mode = "create", dirty |-> FALSE, err |-> "ok",
      sect |-> 0, buf |-> <<0, 0>>, fptr |-> 0, clust |-> 0,
      sclust |-> Entry(v).clst, size |-> Entry(v).size,
      dir_sect |-> v.wsect, dir_ptr |-> v.dp.dptr % DirEntries]]

\* mode is "read", "write" (an existing file, both ways) or "create" (FA_CREATE_ALWAYS).
\* Its entry, as v found it or not, is made what mode asks for.
Prepared(v, name, mode) ==
  IF v.res = "no_file" /\ mode = "create"
    THEN Then(dir_register(Result(v, "ok"), name), Truncate)
  ELSE Then(v, LAMBDA x :
         IF Entry(x).ro /\ mode # "read" THEN Result(x, "denied")
         ELSE IF mode = "create" THEN Truncate(x) ELSE x)

f_open(v, name, mode) ==
  Then([Prepared(Located(v, name), name, mode) EXCEPT !.f = Closed], LAMBDA w : Opened(w, mode))

-----------------------------------------------------------------------------
(* Reading, writing and seeking. *)

\* Only a file that is open, and to which nothing has happened.
validate(v) ==
  IF ~v.f.open THEN Result(v, "invalid_object") ELSE v
Usable(v) == Then(validate(v), LAMBDA w : Result(w, w.f.err))

\* An error sticks to the file.
Abort(v) == IF v.res \in {"disk_err", "int_err"} /\ v.f.open THEN [v EXCEPT !.f.err = v.res] ELSE v

SectorAt(f) == clust2sect(f.clust) + ((f.fptr \div Half) % CSize)

Units(x) == IF -1 \in DOMAIN x THEN x[-1] ELSE <<0, 0>>

SaveBuf(v) ==
  IF ~v.f.dirty THEN v
  ELSE Then(disk_write(v, v.f.sect, Data(v.f.buf)), LAMBDA w : [w EXCEPT !.f.dirty = FALSE])

FillBuf(v, s) ==
  IF v.f.sect = s THEN v
  ELSE Then(disk_read(v), LAMBDA w : [w EXCEPT !.f.buf = Units(w.disk[s]), !.f.sect = s])

\* f.clust is the cluster of fptr, found in the FAT when it begins there.
ReadCluster(v) ==
  IF v.f.fptr % ClusterSize # 0 THEN v
  ELSE Then(IF v.f.fptr = 0 THEN Found(v, v.f.sclust) ELSE get_fat(v, v.f.clust), LAMBDA w :
         IF w.val \in Clusters THEN [w EXCEPT !.f.clust = w.val] ELSE Result(w, "int_err"))

\* Whole sectors are read past the buffer, which may know better.
RECURSIVE ReadOn(_, _, _)
ReadOn(v, n, got) ==
  IF n = 0 THEN Found(v, got)
  ELSE IF v.f.fptr % Half # 0
    THEN ReadOn([v EXCEPT !.f.fptr = @ + 1], n - 1, Append(got, v.f.buf[Half]))
  ELSE Then(ReadCluster(v), LAMBDA c :
    LET s == SectorAt(c.f)
    IN IF n >= Half
         THEN Then(disk_read(c), LAMBDA w :
                ReadOn([w EXCEPT !.f.fptr = @ + Half], n - Half,
                       got \o (IF w.f.dirty /\ w.f.sect = s THEN w.f.buf ELSE Units(w.disk[s]))))
         ELSE Then(IF c.f.sect = s THEN c ELSE SaveBuf(c), LAMBDA w : Then(FillBuf(w, s), LAMBDA x :
                ReadOn([x EXCEPT !.f.fptr = @ + 1], n - 1, Append(got, x.f.buf[1])))))

f_read(v, n) ==
  LET u == Usable(v)
  IN IF u.res # "ok" THEN u
     ELSE Abort(ReadOn(u, IF n > u.f.size - u.f.fptr THEN u.f.size - u.f.fptr ELSE n, <<>>))

\* The same for writing, which makes the chain longer.  val is 0 when the card is full.
WriteCluster(v) ==
  IF v.f.fptr % ClusterSize # 0 THEN Found(v, v.f.clust)
  ELSE Then(IF v.f.fptr = 0 /\ v.f.sclust # 0 THEN Found(v, v.f.sclust)
            ELSE create_chain(v, IF v.f.fptr = 0 THEN 0 ELSE v.f.clust), LAMBDA w :
         CASE w.val = 0 -> w
           [] w.val = 1 -> Result(w, "int_err")
           [] OTHER -> [w EXCEPT !.f.clust = w.val, !.f.sclust = IF @ = 0 THEN w.val ELSE @])

Advance(v, n) ==
  LET p == v.f.fptr + n
  IN [v EXCEPT !.f.fptr = p, !.f.size = IF p > @ THEN p ELSE @]

PutUnit(v, s, x) ==
  Advance([v EXCEPT !.f.buf[1 + (v.f.fptr % Half)] = x, !.f.dirty = TRUE, !.f.sect = s], 1)

\* Whole sectors are written past the buffer, what is left over into it.
RECURSIVE WriteOn(_, _)
WriteOn(v, data) ==
  IF data = <<>> THEN [v EXCEPT !.f.modified = TRUE]
  ELSE IF v.f.fptr % Half # 0 THEN WriteOn(PutUnit(v, v.f.sect, Head(data)), Tail(data))
  ELSE Then(WriteCluster(v), LAMBDA c :
    IF c.val = 0 THEN [c EXCEPT !.f.modified = TRUE]
    ELSE Then(SaveBuf(c), LAMBDA w :
      LET s == SectorAt(w.f)
          x == SubSeq(data, 1, Half)
      IN IF Len(data) >= Half
           THEN Then(disk_write(w, s, Data(x)), LAMBDA y :
                  WriteOn(Advance([y EXCEPT !.f.buf = IF y.f.sect = s THEN x ELSE @], Half),
                          SubSeq(data, Half + 1, Len(data))))
           ELSE Then(IF w.f.fptr < w.f.size THEN FillBuf(w, s) ELSE w, LAMBDA y :
                  WriteOn(PutUnit(y, s, Head(data)), Tail(data)))))

\* val is how much was written: less than asked for when the card is full.
f_write(v, data) ==
  LET u == Usable(v)
      w == Abort(WriteOn(u, data))
  IN IF u.res # "ok" THEN u
     ELSE IF u.f.mode = "read" THEN Result(u, "denied")
     ELSE Found(w, w.f.fptr - u.f.fptr)

\* Follow the chain from the cluster that begins at fptr; a file that may be
\* written gets as many as that takes.
RECURSIVE SeekOn(_, _)
SeekOn(v, ofs) ==
  IF ofs <= ClusterSize THEN [v EXCEPT !.f.fptr = @ + ofs]
  ELSE LET g == IF v.f.mode = "read" THEN get_fat(v, v.f.clust) ELSE create_chain(v, v.f.clust)
       IN Then(g, LAMBDA w :
            CASE w.val = 0 -> [w EXCEPT !.f.fptr = @ + ClusterSize]
              [] w.val \notin Clusters \cup {0} -> Result(w, "int_err")
              [] OTHER -> SeekOn([w EXCEPT !.f.clust = w.val, !.f.fptr = @ + ClusterSize],
                                 ofs - ClusterSize))

\* To the beginning of a sector, from the current cluster if it is not behind it.
f_lseek(v, ofs) ==
  LET u == Usable(v)
      here == ((u.f.fptr - 1) \div ClusterSize) * ClusterSize
      near == u.f.fptr > 0 /\ ofs > here
  IN IF u.res # "ok" THEN u
     ELSE IF ofs = 0 THEN [u EXCEPT !.f.fptr = 0]
     ELSE IF near THEN Abort(SeekOn([u EXCEPT !.f.fptr = here], ofs - here))
     ELSE Abort(SeekOn([u EXCEPT !.f.fptr = 0, !.f.clust = u.f.sclust], ofs))

-----------------------------------------------------------------------------
(* Making it last. *)

\* What is in the buffer, then the entry.  The file counts as unmodified even
\* if the entry did not reach the card.
f_sync(v) ==
  Then(validate(v), LAMBDA u :
    IF ~u.f.modified THEN u
    ELSE Then(SaveBuf(u), LAMBDA w : Then(move_window(w, w.f.dir_sect), LAMBDA x :
      [sync_fs([x EXCEPT !.win[x.f.dir_ptr] = [@ EXCEPT !.clst = x.f.sclust, !.size = x.f.size],
                         !.wflag = TRUE])
         EXCEPT !.f.modified = FALSE])))

f_close(v) == Then(f_sync(v), LAMBDA w : [w EXCEPT !.f = Closed])

-----------------------------------------------------------------------------
(* The directory. *)

f_stat(v, name) == Then(Located(v, name), LAMBDA w : Found(w, Entry(w).size))

\* f_opendir, and f_readdir until there is no more: what a listing shows.
Unless(v, list, F(_)) == IF v.res = "no_file" THEN [Found(v, list) EXCEPT !.res = "ok"] ELSE Then(v, F)

RECURSIVE ReadAll(_, _)
ReadAll(v, list) ==
  Unless(dir_read(v), list, LAMBDA w :
    LET l == Append(list, get_fileinfo(w))
    IN Unless(dir_next([w EXCEPT !.lfn = NoName], FALSE), l, LAMBDA x : ReadAll(x, l)))

f_readdir(v) ==
  Then(find_volume(v), LAMBDA m : Then(dir_sdi([m EXCEPT !.lfn = NoName], 0), LAMBDA w : ReadAll(w, <<>>)))

f_unlink(v, name) ==
  Then(Located(v, name), LAMBDA w :
    LET e == Entry(w)
    IN IF e.ro THEN Result(w, "denied")
       ELSE Then(dir_remove(w), LAMBDA x :
              Then(IF e.clst = 0 THEN x ELSE remove_chain(x, e.clst), sync_fs)))

\* A mutant: the old entry is removed before the new one is made.
RenameRemoveFirst(v, old, new) ==
  Then(Located(v, old), LAMBDA o :
    LET info == Entry(o)
        n == follow_path(o, new)
    IN IF n.res = "ok" THEN Result(n, "exist")
       ELSE IF n.res # "no_file" THEN n
       ELSE Then(move_window(Result([n EXCEPT !.dp = o.dp], "ok"), o.wsect), LAMBDA m :
              Then(dir_remove(m), LAMBDA d : Then(sync_fs(d), LAMBDA e :
                Then(dir_register(e, new), LAMBDA r :
                  sync_fs(SetEntry(r, [info EXCEPT !.sfn = new])))))))

\* The new entry is made a copy of the old one, which is then removed.
f_rename(v, old, new) ==
  Then(Located(v, old), LAMBDA o :
    LET info == Entry(o)
        n == follow_path(o, new)
    IN IF n.res = "ok" /\ n.dp.dptr # o.dp.dptr THEN Result(n, "exist")
       ELSE IF n.res \notin {"ok", "no_file"} THEN n
       ELSE Then(dir_register(Result(n, "ok"), new), LAMBDA r :
              Then(dir_remove([SetEntry(r, [info EXCEPT !.sfn = new]) EXCEPT !.dp = o.dp]), sync_fs)))
=============================================================================
