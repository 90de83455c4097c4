--------------------------- MODULE WriteBehindDisk ---------------------------
(***************************************************************************)
(* What the disk cache of PiCMD promises the emulated SCSI target, without *)
(* any cache in it: every image file has one value per sector, a read of a *)
(* sector returns the value of that sector, a write replaces it, and       *)
(* nothing but a write changes it.  The one thing that may be lost is what *)
(* was acknowledged but cannot be found on the card yet: a write that is   *)
(* held in RAM, or one that made the file longer while the card still has  *)
(* the old length.  volatile[f] names those sectors.                       *)
(*                                                                         *)
(* DiskCache implements this specification (see DiskCache!Promise).        *)
(***************************************************************************)
CONSTANTS
  Files,      \* the image files on the SD card
  NoFile,     \* of a reply that is about no file
  Addresses,  \* the sector addresses a call may have
  Nowhere,    \* of a reply that is about no sector
  InFile,     \* InFile[f]: the addresses below the end of f
  Data,       \* what a sector can hold
  Zero,       \* the data of a sector beyond the end of a file
  NoData      \* the data of a reply that carries none

VARIABLES
  contents,   \* contents[f][a]: what the host believes sector a of f holds
  volatile,   \* volatile[f]: sectors whose latest write may still be lost
  reply       \* the outcome of the latest call that returned

vars == <<contents, volatile, reply>>

\* A call op on sector a of file f returned res, and read or wrote d.
Told(op, f, a, res, d) ==
  [op |-> op, file |-> f, at |-> a, res |-> res, data |-> d]

\* Of a call that is about no sector.
Said(res) == Told("other", NoFile, Nowhere, res, NoData)
NoReply == Said("none")

Init ==
  /\ contents \in [Files -> [Addresses -> Data]]
  /\ volatile = [f \in Files |-> {}]
  /\ reply = NoReply

\* A read answers with what the latest write of its own sector has left there,
\* or with zeros past the end of the file.
Read(f, a) ==
  /\ reply' = Told("read", f, a, "ok", IF a \in InFile[f] THEN contents[f][a] ELSE Zero)
  /\ UNCHANGED <<contents, volatile>>

\* A read of the medium itself, which need not know the volatile sectors yet.
ReadMedium(f, a) ==
  /\ a \in InFile[f]
  /\ \E d \in Data :
       /\ reply' = Told("medium", f, a, "ok", d)
       /\ a \in volatile[f] \/ d = contents[f][a]
  /\ UNCHANGED <<contents, volatile>>

\* An acknowledged write.  It may be held in RAM or be on the card already.
Write(f, a, d) ==
  /\ a \in InFile[f]
  /\ reply' = Told("write", f, a, "ok", d)
  /\ contents' = [contents EXCEPT ![f][a] = d]
  /\ volatile' \in {volatile, [volatile EXCEPT ![f] = @ \union {a}]}

\* A write that was refused after it may have damaged its own sector.
BotchedWrite(f, a, d) ==
  /\ reply' = Told("write", f, a, "error", NoData)
  /\ contents' = [contents EXCEPT ![f][a] = d]
  /\ UNCHANGED volatile

\* An access is refused, and has changed nothing.
Refuse(op, f, a) ==
  /\ reply' = Told(op, f, a, "error", NoData)
  /\ UNCHANGED <<contents, volatile>>

\* A call that is about no sector begins or returns.
Answer ==
  /\ reply' \in {Said("ok"), Said("error"), NoReply}
  /\ UNCHANGED <<contents, volatile>>

LessVolatile ==
  /\ volatile' \in [Files -> SUBSET Addresses]
  /\ \A f \in Files : volatile'[f] \subseteq volatile[f]

\* Volatile sectors reach the card; a call may return with it.
Settle ==
  /\ LessVolatile
  /\ reply' \in {reply, Said("ok"), Said("error")}
  /\ UNCHANGED contents

\* The contents are as they were but for volatile sectors of the files in lost.
OnlyLost(lost) ==
  /\ contents' \in [Files -> [Addresses -> Data]]
  /\ \A f \in Files, a \in Addresses :
       f \notin lost \/ a \notin volatile[f] => contents'[f][a] = contents[f][a]

\* The last attempt to save a file before it is closed failed.
Forsake(f) ==
  /\ OnlyLost({f})
  /\ LessVolatile
  /\ reply' \in {reply, Said("ok")}

\* The power fails; what is there when it comes back stays.
PowerFails ==
  /\ OnlyLost(Files)
  /\ volatile' = [f \in Files |-> {}]
  /\ reply' = NoReply

Access(f, a) ==
  \/ Read(f, a) \/ ReadMedium(f, a)
  \/ \E d \in Data : Write(f, a, d) \/ BotchedWrite(f, a, d)

Next ==
  \/ Settle
  \/ Answer
  \/ \E f \in Files, a \in Addresses : Access(f, a)
  \/ \E op \in {"read", "medium", "write"}, f \in Files \union {NoFile},
        a \in Addresses : Refuse(op, f, a)
  \/ \E f \in Files : Forsake(f)
  \/ PowerFails

Spec == Init /\ [][Next]_vars

==============================================================================
