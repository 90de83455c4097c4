--------------------------- MODULE MCFirmwareUpdate ---------------------------
(***************************************************************************)
(* Small cards: ten clusters of two sectors, three entries in a sector of  *)
(* the root directory, which is in one cluster at first.  The kernel and   *)
(* the image are two clusters each, not next to each other.                *)
(***************************************************************************)
EXTENDS FirmwareUpdate

MCImageSectors == 0 .. 2
MCVersions == {1, 2}

Label == [k |-> "label"]
Kernel == File("kernel.img", FALSE, 3, KernelSize)
Image == <<Lfn("image", "image~1"), File("image~1", FALSE, 4, 6)>>

\* The chains of the kernel, the image, an old backup and a left over kernel.new.
Fat(bak, new, bad) ==
  [c \in 0 .. NFatEnt - 1 |->
     CASE c \in bad -> BAD
       [] c = 3 -> 5 [] c = 4 -> 6
       [] c = 7 -> IF bak THEN 8 ELSE 0
       [] c \in {0, 1, 2, 5, 6} \/ (c = 8 /\ bak) \/ (c = 9 /\ new) -> EOC
       [] OTHER -> 0]

Contents(s) ==
  LET c == (s - DataBase) \div CSize + 2
      i == (s - DataBase) % CSize
      pair(x, n) == <<x[n], IF n + 1 \in DOMAIN x THEN x[n + 1] ELSE 0>>
  IN CASE c = 3 -> pair(Content(1), Half * i + 1)
       [] c = 5 -> IF i = 0 THEN pair(Content(1), ClusterSize + 1) ELSE <<0, 0>>
       [] c = 4 -> <<500 + i, 500 + i>>
       [] c = 6 -> IF i = 0 THEN <<502, 502>> ELSE <<0, 0>>
       [] OTHER -> <<0, 0>>

Card(entries, bak, new, bad, last) ==
  LET fat == Fat(bak, new, bad)
      free == Cardinality({c \in Clusters : fat[c] = 0})
  IN [s \in Sectors |->
        CASE s = FSInfo -> Data(<<IF last = Invalid THEN Invalid ELSE free, last>>)
          [] s \in FatBase .. DataBase - 1 ->
               LET f == (s - FatBase) % FatSize
               IN [i \in 0 .. FatEntries - 1 |-> fat[f * FatEntries + i]]
          [] s \in DataBase .. DataBase + CSize - 1 ->
               [i \in 0 .. DirEntries - 1 |->
                  LET n == (s - DataBase) * DirEntries + i + 1
                  IN IF n \in DOMAIN entries THEN entries[n] ELSE [k |-> "end"]]
          [] s > DataBase -> Data(Contents(s))
          [] OTHER -> Data(<<0, 0>>)]

Long == <<Lfn("kernel.img", "kernel.img"), Kernel>>
Backup(ro) == File("kernel.bak", ro, 7, 5)

\* A full directory, with three, two or one cluster left; a backup that cannot
\* be removed; a long name whose file is gone; a kernel.new left over.
MCCards ==
  {Card(<<Label>> \o Long \o <<Backup(FALSE)>> \o Image, TRUE, FALSE, bad, 8) :
     bad \in {{}, {11}, {10, 11}}} \cup
  {Card(<<Label, Kernel, Backup(TRUE)>> \o Image, TRUE, FALSE, {}, Invalid),
   Card(<<Kernel, Lfn("gone", "kernel.old"), Deleted>> \o Image, FALSE, FALSE, {}, 2),
   Card(Long \o <<File("kernel.new", FALSE, 9, 2)>> \o Image, FALSE, TRUE, {}, 9)}
=============================================================================
