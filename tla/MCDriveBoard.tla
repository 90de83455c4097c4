---------------------------- MODULE MCDriveBoard ----------------------------
(* A small instance of DriveBoard for TLC. *)
EXTENDS DriveBoard

\* Bit 5 of U20, or a line in each half of port C, PC1 among them.
MCBytes == {{}, {1, 5}}

At(y, m, d, wd, h, mi, s) ==
  [year |-> y, month |-> m, day |-> d, weekday |-> wd, hours |-> h,
   minutes |-> mi, seconds |-> s]

\* The last seconds before noon, of a leap February and of the century.
MCDates ==
  {At(26, 10, 20, 2, 11, 59, 58), At(0, 2, 28, 1, 23, 59, 58),
   At(24, 2, 29, 4, 23, 58, 0), At(99, 12, 31, 4, 23, 59, 59)}

MCDisksOf ==
  LET Blank(n) == [attached |-> TRUE, size |-> n, readOnly |-> FALSE,
                   block |-> [a \in Signable |-> Unsigned]]
  IN  [scsi |-> Disks, memory |-> {Blank(7)}, clock |-> {Blank(7)},
       buttons |-> {Blank(7)}]

\* ENTER mounts, INSERT exits, BACK resets, and UP repeats.
MCHands == {{"ENTER", "INSERT"}, {"ENTER", "BACK"}, {"INSERT", "UP"}}

=============================================================================
