----------------------------- MODULE MCDiskCache -----------------------------
(* A small instance of DiskCache for TLC. *)
EXTENDS DiskCache, TLC

CONSTANTS i1, i2, f1, f2

\* A disk of two one-sector chunks, the last one short, and its companion of one,
\* for two slots: the first can fill them, and the second has to do without.
MCInFile == f1 :> {<<0, 0>>, <<1, 0>>} @@ f2 :> {<<0, 0>>}
MCStubs == f1 :> {<<1, 0>>} @@ f2 :> {}
MCCompanions == i1 :> {f1} @@ i2 :> {f2}
MCAccessed == {<<0, 0>>, <<1, 0>>}

\* Consecutive chunks and images start at consecutive slots.
MCHash == [id \in Ids |-> [c \in Chunks |-> (c + id) % NumSlots]]

==============================================================================
