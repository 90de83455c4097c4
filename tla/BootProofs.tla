------------------------------ MODULE BootProofs ------------------------------
(***************************************************************************)
(* Proofs about the two cores and the panel they draw on, for every size   *)
(* of panel and message, and every set of lamps: first about the cores and *)
(* the drawing (StatusScreen, LcdPanel), then about the machine of Boot.   *)
(*                                                                         *)
(* That the cores draw apart does not follow from the lock, which core 1   *)
(* does not always take: it follows from the flag, which each pass of core *)
(* 0 reads, and which is off whenever core 1 draws.                        *)
(*                                                                         *)
(* That what is drawn arrives needs to know, at each message, what the     *)
(* refresh has still to bring: the pages done are in the shadow, the       *)
(* messages left go on where the last one has put the pointer, and the     *)
(* frame is what the status will be when the drawing has ended.            *)
(*                                                                         *)
(* The machine of Boot, which loads its options, clears its panel, plots   *)
(* bytes and sends messages, does what StatusScreen says: each of its      *)
(* steps takes the two cores one step further or leaves them where they    *)
(* are.  So what is proved of StatusScreen holds on the panel of every     *)
(* size, wired and named in any way options.txt allows.  And the panel is  *)
(* right: from the clearing at start-up on, what it shows is what the      *)
(* shadow has, and at rest that is what the status says.                   *)
(***************************************************************************)
EXTENDS Boot, SequenceTheorems, WellFoundedInduction, TLAPS

USE ScreenAssumption DEF Row

\* The flag is on while core 1 emulates, and no longer.
FlagIsCore1 == emulating <=> core1 = "emulate"

\* A pass of core 0 has found the flag on; if it is off now, the pass is late.
PassIsLate == core0 # "idle" /\ ~emulating => late

\* Lamps are drawn in their rows, and where they are the line has its own.
LampsInTheirRows ==
  \A r \in Row : lcd[r] = "lamps" => r < LampRows /\ lcdTrackRow = TrackRow

-----------------------------------------------------------------------------
(* Types, in parts: flags, places and panel. *)

FlagTypes ==
  emulating \in BOOLEAN /\ locked \in BOOLEAN
  /\ refresh \in BOOLEAN /\ late \in BOOLEAN

LampTypes ==
  leds \in Lamps /\ on \in Lamps /\ shown \in Lamps
  /\ oldLamps \in Lamps \union {"none"}

PanelTypes ==
  lcdTrackRow \in Row /\ lcd \in [Row -> {"files", "info", "lamps", "track"}]

PlaceTypes ==
  /\ core0 \in {"idle", "lamps", "sample", "want lamps", "draw lamps",
                "track", "want track", "draw track"}
  /\ core1 \in {"enter", "redraw", "browse", "paint", "info", "emulate",
                "release"}

LEMMA TypeParts == TypeOK <=> FlagTypes /\ LampTypes /\ PanelTypes /\ PlaceTypes
BY DEF TypeOK, FlagTypes, LampTypes, PanelTypes, PlaceTypes

LEMMA TrackRowIsRow == TrackRow \in Row
BY DEF TrackRow, LampRows

LEMMA InitTypes == Init => TypeOK
<1>1. Init => PanelTypes BY DEF Init, PanelTypes
<1>2. Init => FlagTypes /\ LampTypes /\ PlaceTypes
  BY DEF Init, FlagTypes, LampTypes, PlaceTypes
<1> QED BY <1>1, <1>2, TypeParts

LEMMA NextTypes ==
  ASSUME TypeOK, [Next]_vars
  PROVE  TypeOK'
<1> USE DEF Next, Core0, Core1, vars, flags, sampled, panel, Acquire, Release,
    Pass, ForgetLamps, LampsUnchanged, LampsChanged, SampleLamps,
    AcquireForLamps, DrawLamps, CheckTrack, AcquireForTrack, DrawTrack,
    AcquireForBrowser, Redraw, Browse, Paint, BeginEmulating, WriteLEDs,
    ExitEmulation, ReleaseOnExit
<1>1. FlagTypes' BY TypeParts DEF FlagTypes
<1>2. LampTypes' BY TypeParts DEF LampTypes
<1>3. PlaceTypes' BY TypeParts DEF PlaceTypes
<1>4. PanelTypes'
  <2>1. CASE DrawLamps BY <2>1, TypeParts, TrackRowIsRow DEF PanelTypes
  <2>2. CASE DrawTrack BY <2>2, TypeParts DEF PanelTypes
  <2>3. CASE Redraw \/ BeginEmulating BY <2>3, TypeParts DEF PanelTypes
  <2>4. CASE Paint BY <2>4, TypeParts DEF PanelTypes
  <2>5. CASE UNCHANGED <<lcdTrackRow, lcd>>
    BY <2>5, TypeParts DEF PanelTypes
  <2> QED BY <2>1, <2>2, <2>3, <2>4, <2>5
<1> QED
  <2>1. (FlagTypes /\ LampTypes /\ PanelTypes /\ PlaceTypes)'
    BY <1>1, <1>2, <1>3, <1>4
  <2> QED
    BY ONLY <2>1 DEF TypeOK, FlagTypes, LampTypes, PanelTypes, PlaceTypes

\* Every variable of the two cores keeps its type; above all, the track line
\* has a row of the panel.
THEOREM TypeCorrect == Spec => []TypeOK
BY InitTypes, NextTypes, PTL DEF Spec

-----------------------------------------------------------------------------
(* The lock and the flag. *)

IInv == FlagIsCore1 /\ PassIsLate /\ LockComesBack

LEMMA InitIInv == Init => IInv
BY DEF Init, IInv, FlagIsCore1, PassIsLate, LockComesBack

LEMMA NextIInv ==
  ASSUME TypeOK, IInv, [Next]_vars
  PROVE  IInv'
<1> USE DEF IInv, FlagIsCore1, PassIsLate, LockComesBack, Core0Draws, flags,
    sampled, panel, Acquire, Release
<1>0. /\ emulating \in BOOLEAN /\ locked \in BOOLEAN /\ late \in BOOLEAN
      /\ emulating' \in BOOLEAN /\ locked' \in BOOLEAN /\ late' \in BOOLEAN
  BY NextTypes DEF TypeOK
<1>1. CASE Core0
  <2>1. CASE Pass BY <1>0, <2>1 DEF Pass
  <2>2. CASE ForgetLamps \/ LampsUnchanged \/ LampsChanged \/ SampleLamps
             \/ CheckTrack
    BY <1>0, <2>2 DEF ForgetLamps, LampsUnchanged, LampsChanged, SampleLamps,
       CheckTrack
  <2>3. CASE AcquireForLamps \/ AcquireForTrack
    BY <1>0, <2>3 DEF AcquireForLamps, AcquireForTrack
  <2>4. CASE DrawLamps \/ DrawTrack BY <1>0, <2>4 DEF DrawLamps, DrawTrack
  <2> QED BY <1>1, <2>1, <2>2, <2>3, <2>4 DEF Core0
<1>2. CASE Core1
  <2>1. CASE AcquireForBrowser BY <1>0, <2>1 DEF AcquireForBrowser
  <2>2. CASE Redraw BY <1>0, <2>2 DEF Redraw
  <2>3. CASE Paint BY <1>0, <2>3 DEF Paint
  <2>4. CASE BeginEmulating BY <1>0, <2>4 DEF BeginEmulating
  <2>5. CASE ReleaseOnExit BY <1>0, <2>5 DEF ReleaseOnExit
  <2> QED BY <1>2, <2>1, <2>2, <2>3, <2>4, <2>5 DEF Core1
<1>3. CASE Browse BY <1>0, <1>3 DEF Browse
<1>4. CASE WriteLEDs BY <1>0, <1>4 DEF WriteLEDs
\* The pass under way becomes the late one.
<1>5. CASE ExitEmulation BY <1>0, <1>5 DEF ExitEmulation
<1>6. CASE UNCHANGED vars BY <1>0, <1>6 DEF vars
<1> QED BY <1>1, <1>2, <1>3, <1>4, <1>5, <1>6 DEF Next

LEMMA Inductive == Spec => []IInv
BY TypeCorrect, InitIInv, NextIInv, PTL DEF Spec

\* No path of either core leaves its section with the lock taken, and outside
\* the pass in which an emulation ends the cores never draw at the same time,
\* although core 1 draws most things without the lock.
THEOREM CoresDrawApart == Spec => []CoresTakeTurns
<1>1. IInv => CoresTakeTurns
  BY DEF IInv, FlagIsCore1, PassIsLate, OnlyLatePassCollides, Core0Draws,
     Core1Draws, CoresTakeTurns
<1> QED BY Inductive, <1>1, PTL

-----------------------------------------------------------------------------
(* The rows of the panel. *)

LEMMA InitRows == Init => LampsInTheirRows
BY DEF Init, LampsInTheirRows

LEMMA NextRows ==
  ASSUME TypeOK, LampsInTheirRows, [Next]_vars
  PROVE  LampsInTheirRows'
<1> USE DEF LampsInTheirRows
<1>1. CASE DrawLamps BY <1>1 DEF DrawLamps, TypeOK
<1>2. CASE DrawTrack BY <1>2 DEF DrawTrack, TypeOK
<1>3. CASE Redraw BY <1>3 DEF Redraw
<1>4. CASE BeginEmulating BY <1>4 DEF BeginEmulating
<1>5. CASE Paint BY <1>5 DEF Paint, TypeOK
<1>6. CASE UNCHANGED <<lcdTrackRow, lcd>> BY <1>6
<1> QED
  BY <1>1, <1>2, <1>3, <1>4, <1>5, <1>6 DEF Next, Core0, Core1, vars, panel,
     Pass, ForgetLamps, LampsUnchanged, LampsChanged, SampleLamps,
     AcquireForLamps, CheckTrack, AcquireForTrack, AcquireForBrowser, Browse,
     WriteLEDs, ExitEmulation, ReleaseOnExit

LEMMA StepKeepsRows ==
  ASSUME TypeOK, LampsInTheirRows, [Next]_vars,
         NEW r \in Row, lcd[r] = "lamps", lcd'[r] = "track"
  PROVE  Rows = LampRows /\ r = 0
<1>1. r < LampRows /\ lcdTrackRow = TrackRow
  BY DEF LampsInTheirRows
<1>2. CASE DrawTrack
  <2>1. lcd' = [lcd EXCEPT ![lcdTrackRow] = "track"]
    BY <1>2 DEF DrawTrack
  <2>2. r = lcdTrackRow
    BY <2>1 DEF TypeOK
  \* The line has no row below the lamps.
  <2>3. Rows <= LampRows /\ r = 0
    BY <1>1, <2>2 DEF TrackRow, LampRows
  <2> QED BY <2>3 DEF LampRows
<1>3. CASE DrawLamps BY <1>3 DEF DrawLamps
<1>4. CASE Redraw BY <1>4 DEF Redraw
<1>5. CASE BeginEmulating BY <1>5 DEF BeginEmulating
<1>6. CASE Paint BY <1>6 DEF Paint
<1>7. CASE UNCHANGED lcd BY <1>7
<1> QED
  BY <1>2, <1>3, <1>4, <1>5, <1>6, <1>7 DEF Next, Core0, Core1, vars, panel,
     Pass, ForgetLamps, LampsUnchanged, LampsChanged, SampleLamps,
     AcquireForLamps, CheckTrack, AcquireForTrack, AcquireForBrowser, Browse,
     WriteLEDs, ExitEmulation, ReleaseOnExit

\* Whatever the number of rows, a line of core 0 covers lamps only where the panel has
\* no row below them, and of those only the first row: on a panel of two rows the
\* second row of lamps is safe, and on every other all of them are.
THEOREM LinesStayOffLamps == Spec => LampsKeepTheirRows
<1>1. TypeOK /\ LampsInTheirRows /\ [Next]_vars
      => [\A r \in Row : lcd[r] = "lamps" /\ lcd'[r] = "track"
                         => Rows = LampRows /\ r = 0]_vars
  BY StepKeepsRows
<1> QED
  BY TypeCorrect, InitRows, NextRows, <1>1, PTL DEF Spec, LampsKeepTheirRows

HIDE ScreenAssumption DEF Row

-----------------------------------------------------------------------------
(* The ends of a set of numbers, and how many messages fill a window. *)

\* A set of numbers has a least one ...
LEMMA LeastIsIn ==
  ASSUME NEW S \in SUBSET Nat, S # {}
  PROVE  LeastOf(S) \in S /\ \A m \in S : LeastOf(S) <= m
<1>1. \E n \in S : \A m \in S : <<m, n>> \notin OpToRel(<, Nat)
  BY NatLessThanWellFounded, WFMin
<1>2. \E n \in S : \A m \in S : n <= m
  <2>1. PICK n \in S : \A m \in S : <<m, n>> \notin OpToRel(<, Nat)
    BY <1>1
  <2>2. ASSUME NEW m \in S PROVE n <= m
    <3>1. m \in Nat /\ n \in Nat
      BY <2>1
    <3>2. CASE m < n
      <4>1. <<m, n>> \in OpToRel(<, Nat)
        BY <3>1, <3>2 DEF OpToRel
      <4> QED BY <2>1, <4>1
    <3> QED BY <3>1, <3>2
  <2> QED BY <2>1, <2>2
<1> QED BY <1>2 DEF LeastOf

\* ... and one that is bounded a largest.
LEMMA LargestIsIn ==
  ASSUME NEW b \in Nat, NEW S \in SUBSET (0 .. b), S # {}
  PROVE  LargestOf(S) \in S /\ \A m \in S : m <= LargestOf(S)
<1> DEFINE D == {b - m : m \in S}
<1>1. D \in SUBSET Nat /\ D # {}
  <2>1. PICK n \in S : TRUE
    OBVIOUS
  <2>2. b - n \in D
    OBVIOUS
  <2>3. \A m \in S : b - m \in Nat
    OBVIOUS
  <2>4. D \subseteq Nat
    BY <2>3
  <2> QED BY <2>2, <2>4
<1>2. \E d \in D : \A e \in D : d <= e
  BY <1>1, LeastIsIn
<1>3. \E n \in S : \A m \in S : m <= n
  <2>1. PICK d \in D : \A e \in D : d <= e
    BY <1>2
  <2>2. PICK n \in S : d = b - n
    BY <2>1
  <2>3. \A m \in S : b - m \in D
    OBVIOUS
  <2>4. \A m \in S : m \in Nat /\ n \in Nat
    BY <2>2
  <2>5. \A m \in S : b - n <= b - m
    BY <2>1, <2>2, <2>3
  <2>6. \A m \in S : m <= n
    BY <2>4, <2>5
  <2> QED BY <2>2, <2>6
<1> QED BY <1>3 DEF LargestOf

\* The columns of a message lie between its ends.
LEMMA IntervalEnds ==
  ASSUME NEW a \in Int, NEW b \in Int, a <= b
  PROVE  LeastOf(a .. b) = a /\ LargestOf(a .. b) = b
<1>1. LeastOf(a .. b) \in a .. b /\ \A m \in a .. b : LeastOf(a .. b) <= m
  <2>1. \E n \in a .. b : \A m \in a .. b : n <= m
    OBVIOUS
  <2> QED BY <2>1 DEF LeastOf
<1>2. LargestOf(a .. b) \in a .. b /\ \A m \in a .. b : m <= LargestOf(a .. b)
  <2>1. \E n \in a .. b : \A m \in a .. b : m <= n
    OBVIOUS
  <2> QED BY <2>1 DEF LargestOf
<1> QED BY <1>1, <1>2

\* A window of `size' bytes takes the last of n messages for its end.
LEMMA ChunksFill ==
  ASSUME NEW size \in Nat \ {0}, NEW n, n = (size + Chunk - 1) \div Chunk
  PROVE  n \in Nat \ {0} /\ (n - 1) * Chunk < size /\ size <= n * Chunk
<1>0. Chunk \in Nat \ {0}
  BY PanelAssumption
<1>1. n \in Nat
  BY <1>0
<1>2. n * Chunk <= size + Chunk - 1 /\ size + Chunk - 1 < (n + 1) * Chunk
  BY <1>0, <1>1
<1>3. (n + 1) * Chunk = n * Chunk + Chunk /\ (n - 1) * Chunk = n * Chunk - Chunk
  BY <1>0, <1>1
<1>4. n * Chunk \in Nat
  BY <1>0, <1>1
<1>5. n # 0
  <2>1. n = 0 => n * Chunk = 0
    BY <1>0
  <2> QED BY <2>1, <1>2, <1>3, <1>0, <1>4
<1> QED BY <1>0, <1>1, <1>2, <1>3, <1>4, <1>5

-----------------------------------------------------------------------------
(* What a refresh has still to bring to the panel. *)

\* The messages of page q, of which each goes on where the one before ends, from
\* cut[n] to cut[n + 1]; the first of them may set the pointer.
Covers(msgs, q, cut) ==
  \A n \in 1 .. Len(msgs) :
    \/ /\ msgs[n] = [kind |-> "data", page |-> q, columns |-> cut[n] .. cut[n + 1] - 1]
       /\ cut[n] < cut[n + 1]
    \/ n = 1 /\ msgs[n] = SetDataPointer(q, cut[1]) /\ cut[2] = cut[1]

\* Nothing else has changed on page q, and the pointer is where it should be.
Sends(q, msgs, cut) ==
  /\ Covers(msgs, q, cut)
  /\ msgs[1].kind = "data" => pointer.page = q /\ pointer.column = cut[1] + Offset
  /\ Changed(q) \subseteq cut[1] .. cut[Len(msgs) + 1] - 1

\* The pages the refresh of core c has done, and those it does not mean to, are
\* what the panel is taken to show.
Refreshes(c) ==
  LET msgs == job[c].msgs
      done == Page \ job[c].pages
  IN IF msgs = <<>> THEN \A p \in done : Changed(p) = {}
     ELSE \E q \in done, cut \in [1 .. Len(msgs) + 1 -> 0 .. Width] :
            Sends(q, msgs, cut) /\ \A p \in done \ {q} : Changed(p) = {}

\* What the bus carries, what a core has to do, and what they leave behind.
Message == [kind : {"point"}, page : Page, column : Nat]
             \cup [kind : {"data"}, page : Page, columns : SUBSET Column]

Job == [open : BOOLEAN, next : {<<>>, <<"info">>, <<"logo">>},
        pages : SUBSET Page, msgs : Seq(Message)]

BusTypes ==
  /\ DOMAIN oldFrame = Page /\ DOMAIN ram = Page
  /\ job \in [Core -> Job]
  /\ pointer \in [page : Page, column : Nat]

\* The shadow is what the panel shows, or differs from any frame.
Shadow ==
  \A p \in Page, k \in Column : oldFrame[p][k] = "ff" \/ ram[p][k + Offset] = oldFrame[p][k]

\* One core refreshes at a time.
OneRefreshes == \E c \in Core : job[1 - c] = NoJob /\ Refreshes(c)

\* What row r says when the drawing that is under way has come to its end ...
Will(r) ==
  IF job[0].open
  THEN IF core0 = "draw lamps" THEN (IF r < LampRows THEN "lamps" ELSE lcd[r])
       ELSE (IF r = lcdTrackRow THEN "track" ELSE lcd[r])
  ELSE IF job[1].open
       THEN IF core1 # "info" THEN "files"
            ELSE IF job[1].next = <<>> THEN "info" ELSE "blank"
       ELSE lcd[r]

\* ... and with which lamps.
WillLight == IF job[0].open /\ core0 = "draw lamps" THEN on ELSE shown

\* A core has a job while it is in a section that draws, and no other.
ClosedAreEmpty == \A c \in Core : ~job[c].open => job[c] = NoJob

JobsAreSections ==
  /\ ClosedAreEmpty
  /\ job[0].open => core0 \in {"draw lamps", "draw track"} /\ job[0].next = <<>>
  /\ job[1].open => /\ core1 \in {"redraw", "paint", "info"}
                    /\ core1 # "info" => job[1].next = <<>>
                    /\ job[1].next \in {<<>>, <<"info">>}

\* The frame is ahead of the panel by what is under way.
FrameFollows ==
  view # NoList => \A p \in Page : frame[p] = Text(Will(RowOf(p)), RowOf(p), WillLight, view)


\* The pages and columns of either height, and of either controller.
LEMMA PagesAndColumns ==
  /\ Page \in SUBSET Nat /\ 0 \in Page /\ Page # {}
  /\ Offset \in Nat
  /\ \A k \in Column : k \in Nat /\ k + Offset \in RamColumn
<1>1. Page = 0 .. 3 \/ Page = 0 .. 7
  BY DEF Page, Height
<1>2. Width \in Nat \ {0} /\ Shift \in Nat
  BY PanelAssumption
<1>3. Offset = 0 \/ Offset = Shift
  BY DEF Offset
<1> QED BY <1>1, <1>2, <1>3 DEF Column, RamColumn

\* Everything about the panel hangs on its model.
LEMMA SamePanel ==
  ASSUME UNCHANGED type
  PROVE  Page' = Page /\ Offset' = Offset /\ Message' = Message /\ Job' = Job
BY DEF Page, Height, Offset, Message, Job

\* The window begins and ends with a byte that has changed.
LEMMA WindowEnds ==
  ASSUME NEW p, Changed(p) # {}
  PROVE  LET start == LeastOf(Changed(p))
             end == LargestOf(Changed(p)) + 1
         IN /\ start \in 0 .. Width /\ end \in 0 .. Width /\ start < end
            /\ Changed(p) \subseteq start .. end - 1
<1> DEFINE start == LeastOf(Changed(p))
           last == LargestOf(Changed(p))
<1>1. Width \in Nat \ {0} /\ Width - 1 \in Nat
  BY PanelAssumption
<1>2. Changed(p) \in SUBSET (0 .. Width - 1) /\ Changed(p) \in SUBSET Nat
  BY <1>1 DEF Changed, Column
<1>3. start \in Changed(p) /\ \A m \in Changed(p) : start <= m
  BY <1>2, LeastIsIn
<1>4. last \in Changed(p) /\ \A m \in Changed(p) : m <= last
  BY <1>1, <1>2, LargestIsIn
<1> HIDE DEF start, last
<1>5. start \in 0 .. Width - 1 /\ last \in 0 .. Width - 1 /\ start <= last
  BY <1>2, <1>3, <1>4
<1>6. \A m \in Changed(p) : m \in start .. (last + 1) - 1
  BY <1>2, <1>3, <1>4, <1>5
<1> QED BY <1>1, <1>5, <1>6 DEF start, last

\* Whole messages that set the pointer and bring page p what is from `first' on.
Brings(msgs, p, first, end) ==
  /\ msgs \in Seq(Message) /\ msgs # <<>> /\ msgs[1].kind = "point"
  /\ \E cut \in [1 .. Len(msgs) + 1 -> 0 .. Width] :
       Covers(msgs, p, cut) /\ cut[1] = first /\ cut[Len(msgs) + 1] = end

\* The messages take in every byte from `first' up to `end', and none is empty.
LEMMA MessagesCover ==
  ASSUME NEW p \in Page, NEW first \in 0 .. Width, NEW end \in 0 .. Width, first < end,
         NEW msgs, msgs = <<SetDataPointer(p, first)>> \o DataMessages(p, first, end)
  PROVE  Brings(msgs, p, first, end)
<1> DEFINE size == end - first
           n == (size + Chunk - 1) \div Chunk
           from(i) == first + (i - 1) * Chunk
           to(i) == IF i = n THEN end ELSE first + i * Chunk
           data == DataMessages(p, first, end)
           cut == [i \in 1 .. n + 2 |->
                    IF i = 1 THEN first ELSE IF i = n + 2 THEN end ELSE from(i - 1)]
<1>0. /\ Width \in Nat \ {0} /\ Chunk \in Nat \ {0} /\ Offset \in Nat
      /\ first \in Nat /\ end \in Nat
  BY PanelAssumption, PagesAndColumns
<1>1. size \in Nat \ {0} /\ end = first + size
  BY <1>0
<1>2. data = [i \in 1 .. n |-> [kind |-> "data", page |-> p, columns |-> from(i) .. to(i) - 1]]
  BY DEF DataMessages
<1> HIDE DEF size, data
<1>3. n \in Nat \ {0} /\ (n - 1) * Chunk < size /\ size <= n * Chunk
  BY <1>1, ChunksFill
<1> HIDE DEF n
<1>4. \A i \in 1 .. n : /\ from(i) \in Nat /\ to(i) \in Nat
                        /\ from(i) < to(i) /\ to(i) <= end
  <2> SUFFICES ASSUME NEW i \in 1 .. n
               PROVE  /\ from(i) \in Nat /\ to(i) \in Nat
                      /\ from(i) < to(i) /\ to(i) <= end
    OBVIOUS
  <2>1. /\ (i - 1) * Chunk \in Nat /\ i * Chunk = (i - 1) * Chunk + Chunk
        /\ i * Chunk \in Nat
    BY <1>0, <1>3
  <2>2. CASE i = n BY <1>0, <1>1, <1>3, <2>1, <2>2
  <2>3. CASE i # n
    <3>1. i \in 1 .. n - 1
      BY <2>3, <1>3
    <3>2. i * Chunk <= (n - 1) * Chunk
      BY <1>0, <1>3, <3>1
    <3>3. (n - 1) * Chunk \in Nat
      BY <1>0, <1>3
    <3> QED BY <1>0, <1>1, <1>3, <2>1, <2>3, <3>2, <3>3
  <2> QED BY <2>2, <2>3
<1>5. /\ \A i \in 1 .. n : i # n => from(i + 1) = to(i)
      /\ from(1) = first /\ to(n) = end
  BY <1>0, <1>3
<1> HIDE DEF from, to
<1>6. data \in Seq(Message) /\ Len(data) = n
  <2>1. \A i \in 1 .. n : data[i] \in Message
    <3> SUFFICES ASSUME NEW i \in 1 .. n PROVE data[i] \in Message
      OBVIOUS
    <3>1. from(i) .. to(i) - 1 \subseteq Column
      BY <1>0, <1>3, <1>4 DEF Column
    <3> QED BY <3>1, <1>2 DEF Message
  <2> QED BY <2>1, <1>2, <1>3
<1>7. <<SetDataPointer(p, first)>> \in Seq(Message)
  BY <1>0 DEF SetDataPointer, Message
<1>8. /\ msgs \in Seq(Message) /\ Len(msgs) = n + 1
      /\ msgs[1] = SetDataPointer(p, first)
      /\ \A i \in 2 .. n + 1 : msgs[i] = data[i - 1]
  BY <1>3, <1>6, <1>7, ConcatProperties DEF data
<1>9. cut \in [1 .. n + 2 -> 0 .. Width]
  <2>1. ASSUME NEW i \in 1 .. n + 2, i # 1, i # n + 2
        PROVE  from(i - 1) \in 0 .. Width
    <3>1. i - 1 \in 1 .. n
      BY <2>1, <1>3
    <3> QED BY <3>1, <1>0, <1>4
  <2> QED BY <2>1
<1>10. cut[1] = first /\ cut[2] = first /\ cut[n + 2] = end
  BY <1>3, <1>5
<1>11. Covers(msgs, p, cut)
  <2> SUFFICES ASSUME NEW i \in 1 .. n + 1
               PROVE  \/ /\ msgs[i] = [kind |-> "data", page |-> p,
                                       columns |-> cut[i] .. cut[i + 1] - 1]
                         /\ cut[i] < cut[i + 1]
                      \/ i = 1 /\ msgs[i] = SetDataPointer(p, cut[1]) /\ cut[2] = cut[1]
    BY <1>8 DEF Covers
  <2>1. CASE i = 1 BY <2>1, <1>8, <1>10
  <2>2. CASE i # 1
    <3>1. i - 1 \in 1 .. n /\ i \in 2 .. n + 1
      BY <2>2, <1>3
    <3>2. msgs[i] = [kind |-> "data", page |-> p, columns |-> from(i - 1) .. to(i - 1) - 1]
      BY <1>2, <1>8, <3>1
    <3>3. cut[i] = from(i - 1)
      BY <2>2, <3>1, <1>3
    <3>4. cut[i + 1] = to(i - 1)
      <4>1. CASE i = n + 1 BY <4>1, <1>3, <1>5, <1>10
      <4>2. CASE i # n + 1
        <5>1. i + 1 \in 1 .. n + 2 /\ i + 1 # 1 /\ i + 1 # n + 2 /\ i - 1 # n
              /\ (i + 1) - 1 = (i - 1) + 1
          BY <4>2, <3>1, <1>3
        <5>2. cut[i + 1] = from((i + 1) - 1)
          BY <5>1
        <5>3. from((i - 1) + 1) = to(i - 1)
          BY <5>1, <3>1, <1>5
        <5> QED BY <5>1, <5>2, <5>3
      <4> QED BY <4>1, <4>2
    <3>5. from(i - 1) < to(i - 1)
      BY <3>1, <1>4
    <3> QED BY <3>2, <3>3, <3>4, <3>5
  <2> QED BY <2>1, <2>2
<1>12. Len(msgs) + 1 = n + 2
  <2>1. n \in Nat
    BY <1>3
  <2> QED BY <2>1, <1>8
<1>13. msgs # <<>> /\ msgs[1].kind = "point"
  BY <1>8, <1>3 DEF SetDataPointer
<1> HIDE DEF cut
<1> QED BY <1>8, <1>9, <1>10, <1>11, <1>12, <1>13 DEF Brings

-----------------------------------------------------------------------------
(* RefreshPage and RPI_I2CWrite. *)

\* A core's job is a record; what a step leaves of it stays.
LEMMA JobFields ==
  ASSUME BusTypes, NEW c \in Core, NEW pages, NEW msgs,
         job' = [job EXCEPT ![c].pages = pages, ![c].msgs = msgs]
  PROVE  /\ job'[c].pages = pages /\ job'[c].msgs = msgs
         /\ job'[c].open = job[c].open /\ job'[c].next = job[c].next
         /\ \A d \in Core \ {c} : job'[d] = job[d]
         /\ pages \in SUBSET Page /\ msgs \in Seq(Message) => job' \in [Core -> Job]
<1>1. job \in [Core -> Job]
  BY DEF BusTypes
<1>2. job' = [job EXCEPT ![c] = [[job[c] EXCEPT !.pages = pages] EXCEPT !.msgs = msgs]]
  BY <1>1
<1>3. job[c] \in Job
  BY <1>1
<1> DEFINE new == [[job[c] EXCEPT !.pages = pages] EXCEPT !.msgs = msgs]
<1>4. /\ new.pages = pages /\ new.msgs = msgs
      /\ new.open = job[c].open /\ new.next = job[c].next
      /\ pages \in SUBSET Page /\ msgs \in Seq(Message) => new \in Job
  BY <1>3 DEF Job
<1> HIDE DEF new
<1>5. job'[c] = new /\ \A d \in Core \ {c} : job'[d] = job[d]
  BY <1>1, <1>2 DEF new
<1>6. new \in Job => job' \in [Core -> Job]
  BY <1>1, <1>2 DEF new
<1> QED BY <1>4, <1>5, <1>6

\* There are two.
LEMMA OtherCore == \A c \in Core : 1 - c \in Core \ {c} /\ 1 - (1 - c) = c
BY DEF Core

\* The messages of a refresh of one page.
LEMMA WindowSends ==
  ASSUME NEW p \in Page, Changed(p) # {}
  PROVE  \E msgs \in Seq(Message) :
           /\ msgs = Window(p) /\ msgs # <<>> /\ msgs[1].kind = "point"
           /\ \E cut \in [1 .. Len(msgs) + 1 -> 0 .. Width] :
                /\ Covers(msgs, p, cut)
                /\ Changed(p) \subseteq cut[1] .. cut[Len(msgs) + 1] - 1
<1>1. PICK first, end : first = LeastOf(Changed(p)) /\ end = LargestOf(Changed(p)) + 1
  OBVIOUS
<1>2. /\ first \in 0 .. Width /\ end \in 0 .. Width /\ first < end
      /\ Changed(p) \subseteq first .. end - 1
  BY <1>1, WindowEnds
<1>3. PICK msgs : msgs = <<SetDataPointer(p, first)>> \o DataMessages(p, first, end)
  OBVIOUS
<1>4. Window(p) = msgs
  BY <1>1, <1>3 DEF Window
<1>5. Brings(msgs, p, first, end)
  BY <1>2, <1>3, MessagesCover
<1> QED
  <2>1. \E cut \in [1 .. Len(msgs) + 1 -> 0 .. Width] :
          /\ Covers(msgs, p, cut)
          /\ Changed(p) \subseteq cut[1] .. cut[Len(msgs) + 1] - 1
    BY <1>2, <1>5 DEF Brings
  <2> QED BY <2>1, <1>4, <1>5 DEF Brings

\* The messages of a refresh do not depend on anything but the model of the panel.
LEMMA CoversKept ==
  ASSUME UNCHANGED type, NEW msgs, NEW q, NEW cut
  PROVE  Covers(msgs, q, cut)' <=> Covers(msgs, q, cut)
<1>1. Offset' = Offset
  BY SamePanel
<1> QED BY <1>1 DEF Covers, SetDataPointer

\* Page by page, from the least.
LEMMA RefreshPageKeeps ==
  ASSUME NEW c \in Core, BusTypes, Refreshes(c), RefreshPage(c)
  PROVE  /\ BusTypes' /\ Refreshes(c)'
         /\ \A d \in Core \ {c} : job'[d] = job[d]
         /\ job'[c].open = job[c].open /\ job'[c].next = job[c].next
<1>1. job[c].pages # {} /\ job[c].pages \in SUBSET Page /\ job[c].msgs = <<>>
  BY DEF RefreshPage, BusTypes, Job
<1>2. PICK p \in job[c].pages : p = LeastOf(job[c].pages)
  BY <1>1, PagesAndColumns, LeastIsIn
<1>3. PICK new : new = IF Changed(p) = {} THEN <<>> ELSE Window(p)
  OBVIOUS
<1>4. /\ job' = [job EXCEPT ![c].pages = job[c].pages \ {p}, ![c].msgs = new]
      /\ UNCHANGED <<type, oldFrame, frame, ram, pointer>>
  BY <1>2, <1>3 DEF RefreshPage, wiring, memory, BusTypes
<1>5. \A q \in Page \ job[c].pages : Changed(q) = {}
  BY <1>1 DEF Refreshes
<1>6. Page' = Page /\ Offset' = Offset /\ Message' = Message /\ Job' = Job
  BY <1>4, SamePanel
<1>7. \A q : Changed(q)' = Changed(q)
  BY <1>4 DEF Changed
<1>8. p \in Page
  BY <1>1, <1>2
<1>9. Changed(p) # {} =>
        /\ new \in Seq(Message) /\ new # <<>> /\ new[1].kind = "point"
        /\ \E cut \in [1 .. Len(new) + 1 -> 0 .. Width] :
             Covers(new, p, cut) /\ Changed(p) \subseteq cut[1] .. cut[Len(new) + 1] - 1
  BY <1>3, <1>8, WindowSends
<1>10. Changed(p) = {} => new = <<>>
  BY <1>3
<1>11. /\ job'[c].pages = job[c].pages \ {p} /\ job'[c].msgs = new
       /\ job'[c].open = job[c].open /\ job'[c].next = job[c].next
       /\ \A d \in Core \ {c} : job'[d] = job[d]
       /\ job' \in [Core -> Job]
  <2>1. <<>> \in Seq(Message)
    OBVIOUS
  <2>2. new \in Seq(Message)
    BY <1>9, <1>10, <2>1
  <2>3. PICK pages : pages = job[c].pages \ {p}
    OBVIOUS
  <2>4. pages \in SUBSET Page
    BY <1>1, <2>3
  <2>5. job' = [job EXCEPT ![c].pages = pages, ![c].msgs = new]
    BY <1>4, <2>3
  <2>6. /\ job'[c].pages = pages /\ job'[c].msgs = new
        /\ job'[c].open = job[c].open /\ job'[c].next = job[c].next
        /\ \A d \in Core \ {c} : job'[d] = job[d]
        /\ pages \in SUBSET Page /\ new \in Seq(Message) => job' \in [Core -> Job]
    BY <2>5, JobFields, Zenon
  <2> QED BY <2>2, <2>3, <2>4, <2>6
<1>12. BusTypes'
  BY <1>4, <1>6, <1>11 DEF BusTypes
<1>13. Page \ (job[c].pages \ {p}) = (Page \ job[c].pages) \cup {p}
  BY <1>8, <1>2
<1>14. Refreshes(c)'
  <2>1. CASE Changed(p) = {}
    <3>1. \A q \in Page \ (job[c].pages \ {p}) : Changed(q) = {}
      BY <1>5, <1>13, <2>1
    <3>2. \A q \in Page' \ job'[c].pages : Changed(q)' = {}
      BY <3>1, <1>6, <1>7, <1>11
    <3> QED BY <3>2, <1>10, <1>11, <2>1 DEF Refreshes
  <2>2. CASE Changed(p) # {}
    <3>1. PICK cut \in [1 .. Len(new) + 1 -> 0 .. Width] :
            Covers(new, p, cut) /\ Changed(p) \subseteq cut[1] .. cut[Len(new) + 1] - 1
      BY <1>9, <2>2
    <3>2. Covers(new, p, cut)'
      BY <1>4, <3>1, CoversKept
    <3>3. Sends(p, new, cut)'
      BY <1>7, <1>9, <2>2, <3>1, <3>2 DEF Sends
    <3>4. \A q \in (Page' \ job'[c].pages) \ {p} : Changed(q)' = {}
      BY <1>5, <1>6, <1>7, <1>11, <1>13
    <3>5. p \in Page' \ job'[c].pages
      BY <1>6, <1>11, <1>13
    <3>6. job'[c].msgs # <<>> /\ job'[c].msgs = new
      BY <1>9, <1>11, <2>2
    <3> QED BY <3>1, <3>3, <3>4, <3>5, <3>6 DEF Refreshes
  <2> QED BY <2>1, <2>2
<1> QED BY <1>11, <1>12, <1>14

\* The same for a step that sends.
LEMMA JobMessages ==
  ASSUME BusTypes, NEW c \in Core, NEW msgs, job' = [job EXCEPT ![c].msgs = msgs]
  PROVE  /\ job'[c].pages = job[c].pages /\ job'[c].msgs = msgs
         /\ job'[c].open = job[c].open /\ job'[c].next = job[c].next
         /\ \A d \in Core \ {c} : job'[d] = job[d]
         /\ msgs \in Seq(Message) => job' \in [Core -> Job]
<1>1. job \in [Core -> Job] /\ job[c] \in Job
  BY DEF BusTypes
<1>2. PICK new : new = [job[c] EXCEPT !.msgs = msgs]
  OBVIOUS
<1>3. /\ new.pages = job[c].pages /\ new.msgs = msgs
      /\ new.open = job[c].open /\ new.next = job[c].next
      /\ msgs \in Seq(Message) => new \in Job
  BY <1>1, <1>2 DEF Job
<1>4. job' = [job EXCEPT ![c] = new]
  BY <1>2
<1> QED BY <1>1, <1>3, <1>4

\* The messages in `rest' go on where the first of msgs ends.
GoesOn(rest, left, msgs, cut, q) ==
  /\ rest \in Seq(Message) /\ (rest = <<>> <=> Len(msgs) = 1)
  /\ left \in [1 .. Len(rest) + 1 -> 0 .. Width]
  /\ left[1] = cut[2] /\ left[Len(rest) + 1] = cut[Len(msgs) + 1]
  /\ Covers(rest, q, left)
  /\ rest # <<>> => rest[1].kind = "data"

\* What is left of the messages once the first has gone out.
LEMMA RestCovers ==
  ASSUME NEW msgs \in Seq(Message), msgs # <<>>, NEW q,
         NEW cut \in [1 .. Len(msgs) + 1 -> 0 .. Width], Covers(msgs, q, cut),
         NEW rest, rest = Tail(msgs),
         NEW left, left = [n \in 1 .. Len(rest) + 1 |-> cut[n + 1]]
  PROVE  GoesOn(rest, left, msgs, cut, q)
<1> DEFINE L == Len(msgs)
<1>2. /\ rest \in Seq(Message) /\ Len(rest) = L - 1 /\ L \in Nat \ {0}
      /\ \A n \in 1 .. Len(rest) : rest[n] = msgs[n + 1]
  <2>1. L \in Nat \ {0}
    OBVIOUS
  <2> QED BY <2>1, HeadTailProperties
<1>3. rest = <<>> <=> L = 1
  <2>1. rest = <<>> <=> Len(rest) = 0
    BY ONLY <1>2, EmptySeq
  <2> QED BY ONLY <1>2, <2>1
<1>4. left = [n \in 1 .. L |-> cut[n + 1]]
  BY <1>2
<1>5. /\ left \in [1 .. L -> 0 .. Width]
      /\ left[1] = cut[2] /\ left[L] = cut[L + 1]
  BY <1>2, <1>4
<1>6. \A n \in 1 .. Len(rest) :
        /\ rest[n] = [kind |-> "data", page |-> q, columns |-> left[n] .. left[n + 1] - 1]
        /\ left[n] < left[n + 1]
  <2> SUFFICES ASSUME NEW n \in 1 .. L - 1
               PROVE  /\ rest[n] = [kind |-> "data", page |-> q,
                                    columns |-> left[n] .. left[n + 1] - 1]
                      /\ left[n] < left[n + 1]
    BY <1>2
  <2>1. n + 1 \in 1 .. L /\ n + 1 # 1 /\ n \in 1 .. L
    BY <1>2
  <2>2. left[n] = cut[n + 1] /\ left[n + 1] = cut[(n + 1) + 1]
    BY <1>4, <2>1
  <2>3. /\ msgs[n + 1] = [kind |-> "data", page |-> q,
                          columns |-> cut[n + 1] .. cut[(n + 1) + 1] - 1]
        /\ cut[n + 1] < cut[(n + 1) + 1]
    BY <2>1 DEF Covers
  <2> QED BY <1>2, <2>1, <2>2, <2>3
<1>7. Covers(rest, q, left)
  BY <1>6 DEF Covers
<1>8. rest # <<>> => rest[1].kind = "data"
  <2>1. rest # <<>> => 1 \in 1 .. Len(rest)
    BY <1>2, <1>3
  <2>2. ASSUME NEW n \in 1 .. Len(rest) PROVE rest[n].kind = "data"
    <3>1. rest[n] = [kind |-> "data", page |-> q, columns |-> left[n] .. left[n + 1] - 1]
      BY <1>6
    <3> QED BY ONLY <3>1
  <2> QED BY <2>1, <2>2
<1>9. Len(rest) + 1 = L
  BY <1>2
<1> QED BY <1>2, <1>3, <1>5, <1>7, <1>8, <1>9 DEF GoesOn

\* A byte that goes out is in the panel and in the shadow, and it is the frame's.
LEMMA WriteSends ==
  ASSUME NEW c \in Core, BusTypes, Refreshes(c), RPI_I2CWrite(c)
  PROVE  /\ BusTypes' /\ Refreshes(c)'
         /\ \A d \in Core \ {c} : job'[d] = job[d]
         /\ job'[c].open = job[c].open /\ job'[c].next = job[c].next
         /\ \A p \in Page, k \in Column :
              \/ ram'[p][k + Offset] = ram[p][k + Offset] /\ oldFrame'[p][k] = oldFrame[p][k]
              \/ ram'[p][k + Offset] = oldFrame'[p][k]
<1>1. PICK msgs \in Seq(Message) : msgs = job[c].msgs /\ msgs # <<>>
  BY DEF RPI_I2CWrite, BusTypes, Job
<1>2. PICK q \in Page \ job[c].pages, cut \in [1 .. Len(msgs) + 1 -> 0 .. Width] :
        /\ Sends(q, msgs, cut)
        /\ \A p \in (Page \ job[c].pages) \ {q} : Changed(p) = {}
  BY <1>1 DEF Refreshes
<1>3. PICK rest, left : /\ rest = Tail(msgs)
                        /\ left = [n \in 1 .. Len(rest) + 1 |-> cut[n + 1]]
  OBVIOUS
<1>4. Len(msgs) \in Nat \ {0}
  BY <1>1
<1>5. /\ rest \in Seq(Message) /\ (rest = <<>> <=> Len(msgs) = 1)
      /\ left \in [1 .. Len(rest) + 1 -> 0 .. Width]
      /\ left[1] = cut[2] /\ left[Len(rest) + 1] = cut[Len(msgs) + 1]
      /\ Covers(rest, q, left)
      /\ rest # <<>> => rest[1].kind = "data"
  <2>1. GoesOn(rest, left, msgs, cut, q)
    BY <1>1, <1>2, <1>3, RestCovers DEF Sends
  <2> QED BY <2>1 DEF GoesOn
<1>6. /\ job' = [job EXCEPT ![c].msgs = rest]
      /\ UNCHANGED <<type, frame>>
  BY <1>1, <1>3 DEF RPI_I2CWrite, wiring
<1>7. /\ job'[c].pages = job[c].pages /\ job'[c].msgs = rest
      /\ job'[c].open = job[c].open /\ job'[c].next = job[c].next
      /\ \A d \in Core \ {c} : job'[d] = job[d]
      /\ job' \in [Core -> Job]
  BY <1>5, <1>6, JobMessages
<1>8. Page' = Page /\ Offset' = Offset /\ Message' = Message /\ Job' = Job
  BY <1>6, SamePanel
<1>9. /\ cut[1] \in 0 .. Width /\ cut[2] \in 0 .. Width /\ Offset \in Nat /\ Width \in Nat
      /\ cut[1] \in Nat /\ cut[2] \in Nat /\ cut[Len(msgs) + 1] \in Nat
  BY <1>2, <1>4, PagesAndColumns, PanelAssumption
<1>10. \/ /\ msgs[1] = [kind |-> "data", page |-> q, columns |-> cut[1] .. cut[2] - 1]
          /\ cut[1] < cut[2]
       \/ msgs[1] = SetDataPointer(q, cut[1]) /\ cut[2] = cut[1]
  BY <1>2, <1>4 DEF Sends, Covers
<1>11. Head(msgs) = msgs[1]
  BY <1>1
\* What each kind of message leaves to be done.
<1>12. /\ DOMAIN oldFrame' = Page /\ DOMAIN ram' = Page
       /\ pointer' \in [page : Page, column : Nat]
       /\ pointer'.page = q /\ pointer'.column = cut[2] + Offset
       /\ Changed(q)' \subseteq cut[2] .. cut[Len(msgs) + 1] - 1
       /\ \A p \in Page \ {q} : Changed(p)' = Changed(p)
       /\ \A p \in Page, k \in Column :
            \/ ram'[p][k + Offset] = ram[p][k + Offset] /\ oldFrame'[p][k] = oldFrame[p][k]
            \/ ram'[p][k + Offset] = oldFrame'[p][k]
  <2>1. CASE msgs[1] = SetDataPointer(q, cut[1]) /\ cut[2] = cut[1]
    <3>1. /\ pointer' = [page |-> q, column |-> cut[1] + Offset]
          /\ UNCHANGED <<ram, oldFrame>>
      BY <1>1, <1>11, <2>1 DEF RPI_I2CWrite, SetDataPointer
    <3>2. \A p : Changed(p)' = Changed(p)
      BY <1>6, <3>1 DEF Changed
    <3> QED BY <1>2, <1>9, <2>1, <3>1, <3>2 DEF BusTypes, Sends
  <2>2. CASE /\ msgs[1] = [kind |-> "data", page |-> q, columns |-> cut[1] .. cut[2] - 1]
             /\ cut[1] < cut[2]
    <3>1. PICK columns : columns = cut[1] .. cut[2] - 1
      OBVIOUS
    <3>2. pointer.page = q /\ pointer.column = cut[1] + Offset
      BY <1>2, <2>2 DEF Sends
    <3>3. LeastOf(columns) = cut[1] /\ LargestOf(columns) = cut[2] - 1
      BY <1>9, <2>2, <3>1, IntervalEnds
    <3>4. PICK at : at = pointer.column - LeastOf(columns)
      OBVIOUS
    <3>5. /\ ram' = [ram EXCEPT ![q] =
               [k \in RamColumn |-> IF k - at \in columns THEN frame[q][k - at] ELSE ram[q][k]]]
          /\ pointer' = [pointer EXCEPT !.column = LargestOf(columns) + at + 1]
          /\ oldFrame' = [oldFrame EXCEPT ![q] =
               [k \in Column |-> IF k \in columns THEN frame[q][k] ELSE oldFrame[q][k]]]
      <4>1. PICK m : m = Head(job[c].msgs)
        OBVIOUS
      <4>2. m.kind = "data" /\ m.page = q /\ m.columns = columns
        BY <1>1, <1>11, <2>2, <3>1, <4>1
      <4>3. /\ ram' = Written(m, frame[q]).r /\ pointer' = Written(m, frame[q]).p
            /\ oldFrame' = [oldFrame EXCEPT ![q] =
                 [k \in Column |-> IF k \in columns THEN frame[q][k] ELSE oldFrame[q][k]]]
        BY <4>1, <4>2 DEF RPI_I2CWrite
      <4> QED BY <3>2, <3>4, <4>2, <4>3 DEF Written
    <3>6. /\ pointer' \in [page : Page, column : Nat]
          /\ pointer'.page = q /\ pointer'.column = cut[2] + Offset
      <4>1. at = Offset
        BY <1>9, <3>2, <3>3, <3>4
      <4>2. LargestOf(columns) + at + 1 = cut[2] + Offset /\ cut[2] + Offset \in Nat
        BY <1>9, <3>3, <4>1
      <4>3. pointer' = [pointer EXCEPT !.column = cut[2] + Offset]
        BY <3>5, <4>2
      <4> QED BY <3>2, <4>2, <4>3 DEF BusTypes
    <3>7. /\ DOMAIN oldFrame' = Page /\ DOMAIN ram' = Page
          /\ \A p \in Page \ {q} : oldFrame'[p] = oldFrame[p] /\ ram'[p] = ram[p]
      BY <3>5 DEF BusTypes
    <3>8. \A k \in Column :
            oldFrame'[q][k] = IF k \in columns THEN frame[q][k] ELSE oldFrame[q][k]
      BY <1>2, <3>5 DEF BusTypes
    <3>9. \A k \in Column :
            ram'[q][k + Offset] = IF k \in columns THEN frame[q][k] ELSE ram[q][k + Offset]
      <4> SUFFICES ASSUME NEW k \in Column
                   PROVE  ram'[q][k + Offset] =
                            IF k \in columns THEN frame[q][k] ELSE ram[q][k + Offset]
        OBVIOUS
      <4>1. k + Offset \in RamColumn /\ (k + Offset) - Offset = k
        BY <1>9, PagesAndColumns
      <4>2. ram'[q] = [j \in RamColumn |-> IF j - at \in columns THEN frame[q][j - at]
                                           ELSE ram[q][j]]
        BY <1>2, <3>5 DEF BusTypes
      <4>3. at = Offset
        BY <1>9, <3>2, <3>3, <3>4
      <4> QED BY <4>1, <4>2, <4>3
    <3>10. Changed(q)' \subseteq cut[2] .. cut[Len(msgs) + 1] - 1
      <4>1. Changed(q) \subseteq cut[1] .. cut[Len(msgs) + 1] - 1
        BY <1>2 DEF Sends
      <4>2. ASSUME NEW k \in Changed(q)'
            PROVE  k \in cut[2] .. cut[Len(msgs) + 1] - 1
        <5>1. k \in Column /\ oldFrame'[q][k] # frame[q][k]
          BY <1>6, <4>2 DEF Changed
        <5>2. k \notin columns /\ oldFrame[q][k] # frame[q][k]
          BY <3>8, <5>1
        <5>3. k \in cut[1] .. cut[Len(msgs) + 1] - 1
          BY <4>1, <5>1, <5>2 DEF Changed
        <5> QED BY <1>9, <2>2, <3>1, <5>2, <5>3
      <4> QED BY <4>2
    <3>11. \A p \in Page \ {q} : Changed(p)' = Changed(p)
      BY <1>6, <3>7 DEF Changed
    <3> QED BY <3>6, <3>7, <3>8, <3>9, <3>10, <3>11
  <2> QED BY <1>10, <2>1, <2>2
<1>13. BusTypes'
  BY <1>7, <1>8, <1>12 DEF BusTypes
<1>14. \A p \in (Page \ job[c].pages) \ {q} : Changed(p)' = {}
  BY <1>2, <1>12
<1>15. Refreshes(c)'
  <2>1. CASE rest = <<>>
    <3>1. Changed(q)' = {}
      BY <1>5, <1>9, <1>12, <2>1
    <3>2. \A p \in Page' \ job'[c].pages : Changed(p)' = {}
      BY <1>7, <1>8, <1>14, <3>1
    <3> QED BY <1>7, <2>1, <3>2 DEF Refreshes
  <2>2. CASE rest # <<>>
    <3>1. Covers(rest, q, left)'
      BY <1>5, <1>6, CoversKept
    <3>2. Sends(q, rest, left)'
      BY <1>5, <1>8, <1>12, <3>1 DEF Sends
    <3>3. q \in Page' \ job'[c].pages
          /\ \A p \in (Page' \ job'[c].pages) \ {q} : Changed(p)' = {}
      BY <1>2, <1>7, <1>8, <1>14
    <3> QED BY <1>5, <1>7, <2>2, <3>2, <3>3 DEF Refreshes
  <2> QED BY <2>1, <2>2
<1> QED BY <1>7, <1>12, <1>13, <1>15

-----------------------------------------------------------------------------
(* Plot, the end of a section, and who draws. *)

\* When neither core has anything left to send, the shadow is the frame.
LEMMA NothingLeft ==
  ASSUME OneRefreshes, \A c \in Core : Drawn(c)
  PROVE  \A p \in Page : Changed(p) = {}
BY DEF OneRefreshes, Refreshes, Drawn

\* A plotting whose refresh takes in all the pages that it touches.
Plots(c, what, rows, pages, next) ==
  /\ Plot(c, what, rows, pages, next) /\ Drawn(c)
  /\ pages \in SUBSET Page /\ next \in {<<>>, <<"info">>, <<"logo">>}
  /\ \A p \in Page \ pages : RowOf(p) \notin rows

\* A core that plots is the one that refreshes next, unless the drawings meet.
LEMMA PlotKeeps ==
  ASSUME BusTypes, OneRefreshes, ClosedAreEmpty, NEW c \in Core,
         NEW what, NEW rows, NEW pages, NEW next,
         Plots(c, what, rows, pages, next), ~collided'
  PROVE  /\ BusTypes' /\ OneRefreshes'
         /\ job'[c] = [open |-> TRUE, next |-> next, pages |-> pages, msgs |-> <<>>]
         /\ \A d \in Core \ {c} : job[d] = NoJob /\ job'[d] = NoJob
<1>1. /\ UNCHANGED <<type, useCBMFont, oldFrame, ram, pointer>>
      /\ job' = [job EXCEPT ![c] =
                   [open |-> TRUE, next |-> next, pages |-> pages, msgs |-> <<>>]]
      /\ \A p \in Page : RowOf(p) \notin rows => frame'[p] = frame[p]
  BY DEF Plots, Plot, wiring, memory
<1>2. \A d \in Core \ {c} : job[d] = NoJob
  BY DEF Plots, Plot, BusTypes, Job, ClosedAreEmpty
<1>3. \A d \in Core : Drawn(d)
  BY <1>2 DEF Plots, Drawn, NoJob
<1>4. \A p \in Page : Changed(p) = {}
  BY <1>3, NothingLeft
<1>5. Page' = Page /\ Offset' = Offset /\ Message' = Message /\ Job' = Job
  BY <1>1, SamePanel
<1>6. <<>> \in Seq(Message)
  OBVIOUS
<1>7. /\ job'[c] = [open |-> TRUE, next |-> next, pages |-> pages, msgs |-> <<>>]
      /\ \A d \in Core \ {c} : job'[d] = NoJob
      /\ job' \in [Core -> Job]
  <2>1. job \in [Core -> Job]
    BY DEF BusTypes
  <2>2. [open |-> TRUE, next |-> next, pages |-> pages, msgs |-> <<>>] \in Job
    BY <1>6 DEF Plots, Job
  <2> QED BY <1>1, <1>2, <2>1, <2>2
<1>8. BusTypes'
  BY <1>1, <1>5, <1>7 DEF BusTypes
<1>9. \A p \in Page \ pages : Changed(p)' = {}
  BY <1>1, <1>4 DEF Plots, Changed
<1>10. Refreshes(c)'
  <2>1. \A p \in Page' \ job'[c].pages : Changed(p)' = {}
    BY <1>5, <1>7, <1>9
  <2> QED BY <1>7, <2>1 DEF Refreshes
<1>11. OneRefreshes'
  <2>1. 1 - c \in Core \ {c}
    BY OtherCore
  <2> QED BY <1>7, <1>10, <2>1 DEF OneRefreshes
<1> QED BY <1>2, <1>7, <1>8, <1>11

\* When its refresh has ended the core has no job, and nothing has changed since.
LEMMA FinishKeeps ==
  ASSUME BusTypes, OneRefreshes, NEW c \in Core, Finish(c)
  PROVE  /\ BusTypes' /\ OneRefreshes'
         /\ \A d \in Core : job'[d] = NoJob
         /\ \A d \in Core \ {c} : job[d] = NoJob
<1>1. /\ job[c].open /\ Drawn(c) /\ job' = [job EXCEPT ![c] = NoJob]
      /\ UNCHANGED <<type, frame, oldFrame, ram, pointer>>
  BY DEF Finish, wiring, memory
<1>2. job[c] # NoJob
  BY <1>1 DEF NoJob
<1>3. \A d \in Core \ {c} : job[d] = NoJob
  BY <1>2 DEF OneRefreshes, Core
<1>4. \A p \in Page : Changed(p) = {}
  <2>1. \A d \in Core : Drawn(d)
    BY <1>1, <1>3 DEF Drawn, NoJob
  <2> QED BY <2>1, NothingLeft
<1>5. Page' = Page /\ Offset' = Offset /\ Message' = Message /\ Job' = Job
  BY <1>1, SamePanel
<1>6. (\A d \in Core : job'[d] = NoJob) /\ job' \in [Core -> Job]
  <2>1. NoJob \in Job
    <3>1. <<>> \in Seq(Message)
      OBVIOUS
    <3> QED BY <3>1 DEF NoJob, Job
  <2>2. job \in [Core -> Job]
    BY DEF BusTypes
  <2> QED BY <1>1, <1>3, <2>1, <2>2
<1>7. BusTypes'
  BY <1>1, <1>5, <1>6 DEF BusTypes
<1>8. \A p \in Page : Changed(p)' = {}
  BY <1>1, <1>4 DEF Changed
<1>9. Refreshes(c)'
  <2>1. \A p \in Page' \ job'[c].pages : Changed(p)' = {}
    BY <1>5, <1>8
  <2>2. job'[c].msgs = <<>>
    BY <1>6 DEF NoJob
  <2> QED BY <2>1, <2>2 DEF Refreshes
<1>10. OneRefreshes'
  BY <1>6, <1>9, OtherCore DEF OneRefreshes
<1> QED BY <1>3, <1>6, <1>7, <1>10

-----------------------------------------------------------------------------
(* The two cores: what is drawn is what the status will be. *)

\* All that holds while the two cores draw, until they meet.
DrawInv ==
  /\ BusTypes /\ OneRefreshes
  /\ \A p \in Page : RowOf(p) \in Row
  /\ \A p \in Page, k \in Column : ram[p][k + Offset] = oldFrame[p][k]
  /\ JobsAreSections /\ FrameFollows

\* Only what the lamps show depends on them.
LEMMA OnlyLampsAreLit ==
  ASSUME NEW what \in {"files", "info", "track", "blank"},
         NEW row, NEW one, NEW other, NEW list
  PROVE  Text(what, row, one, list) = Text(what, row, other, list)
BY DEF Text

\* A core without a job has nothing to plot, to refresh or to send.
LEMMA NoJobIsClosed == ~NoJob.open /\ NoJob.next = <<>> /\ NoJob.pages = {} /\ NoJob.msgs = <<>>
BY DEF NoJob

\* While nothing is being drawn the frame has the status.
LEMMA IdleFrame ==
  ASSUME DrawInv, \A c \in Core : ~job[c].open, view # NoList, NEW p \in Page
  PROVE  frame[p] = Text(lcd[RowOf(p)], RowOf(p), shown, view)
<1>1. ~job[0].open /\ ~job[1].open
  BY DEF Core
<1> QED BY <1>1 DEF DrawInv, FrameFollows, Will, WillLight

\* The jobs of the two cores of which one plots.
LEMMA PlotJobs ==
  ASSUME DrawInv, NEW c \in Core, NEW what, NEW rows, NEW pages, NEW next,
         Plots(c, what, rows, pages, next), ~collided'
  PROVE  /\ job'[c].open /\ job'[c].next = next /\ job'[1 - c] = NoJob /\ job[1 - c] = NoJob
         /\ UNCHANGED <<vars, type, useCBMFont, oldFrame, ram>>
         /\ Page' = Page /\ Offset' = Offset /\ \A p : RowOf(p)' = RowOf(p)
<1>0. BusTypes /\ OneRefreshes /\ ClosedAreEmpty
  BY DEF DrawInv, JobsAreSections
<1>1. /\ job'[c] = [open |-> TRUE, next |-> next, pages |-> pages, msgs |-> <<>>]
      /\ \A d \in Core \ {c} : job[d] = NoJob /\ job'[d] = NoJob
  BY <1>0, PlotKeeps, Zenon
<1>2. UNCHANGED <<vars, type, useCBMFont, oldFrame, ram>>
  BY DEF Plots, Plot, wiring, memory
<1>3. \A p : RowOf(p)' = RowOf(p)
  BY <1>2 DEF RowOf, PagesPerRow
<1> QED BY <1>1, <1>2, <1>3, OtherCore, SamePanel

\* A section may plot, if the frame follows.
LEMMA PlotDraws ==
  ASSUME DrawInv, NEW c \in Core, NEW what, NEW rows, NEW pages, NEW next,
         Plots(c, what, rows, pages, next), ~collided', FrameFollows',
         c = 0 => Core0Draws /\ next = <<>>,
         c = 1 => Core1Draws /\ next \in {<<>>, <<"info">>} /\ (core1 # "info" => next = <<>>)
  PROVE  DrawInv'
<1>1. BusTypes' /\ OneRefreshes'
  BY PlotKeeps DEF DrawInv, JobsAreSections
<1>2. /\ job'[c].open /\ job'[c].next = next /\ job'[1 - c] = NoJob
      /\ UNCHANGED <<oldFrame, ram>> /\ core0' = core0 /\ core1' = core1
      /\ Page' = Page /\ Offset' = Offset /\ \A p : RowOf(p)' = RowOf(p)
  BY PlotJobs DEF vars
<1>3. (\A p \in Page : RowOf(p) \in Row)'
  BY <1>2 DEF DrawInv
<1>4. (\A p \in Page, k \in Column : ram[p][k + Offset] = oldFrame[p][k])'
  BY <1>2 DEF DrawInv
<1>5. JobsAreSections'
  <2>1. CASE c = 0
    <3>1. job'[1] = NoJob /\ job'[0].open /\ job'[0].next = <<>>
      BY <1>2, <2>1
    <3> QED BY <1>2, <2>1, <3>1, NoJobIsClosed
            DEF JobsAreSections, ClosedAreEmpty, Core0Draws, Core
  <2>2. CASE c = 1
    <3>1. job'[0] = NoJob /\ job'[1].open /\ job'[1].next = next
      BY <1>2, <2>2
    <3> QED BY <1>2, <2>2, <3>1, NoJobIsClosed
            DEF JobsAreSections, ClosedAreEmpty, Core1Draws, Core
  <2> QED BY <2>1, <2>2 DEF Core
<1> QED BY <1>1, <1>3, <1>4, <1>5 DEF DrawInv

\* The lamps leave the other rows alone, whatever they show now.
LEMMA PlotLampsDraws ==
  ASSUME DrawInv, TypeOK, LampsInTheirRows, PlotLamps, ~collided'
  PROVE  DrawInv'
<1>1. PICK rows, pages : /\ rows = 0 .. LampRows - 1
                         /\ pages = {p \in Page : RowOf(p) \in rows}
  OBVIOUS
<1>2. core0 = "draw lamps" /\ ~job[0].open /\ view' = view
  BY DEF PlotLamps
<1>3. 0 \in Core /\ Plots(0, "lamps", rows, pages, <<>>)
  BY <1>1, <1>2, NoJobIsClosed
     DEF PlotLamps, Plots, DrawInv, JobsAreSections, ClosedAreEmpty, Drawn, Core
<1>4. /\ job'[0].open /\ job[1] = NoJob /\ UNCHANGED <<core0, lcd, on>>
      /\ \A p : RowOf(p)' = RowOf(p)
      /\ Page' = Page
  BY <1>3, PlotJobs DEF vars, panel, sampled
<1>5. FrameFollows'
  <2> SUFFICES ASSUME view # NoList, NEW p \in Page
               PROVE  frame'[p] = Text(Will(RowOf(p)), RowOf(p), WillLight, view)'
    BY <1>2, <1>4 DEF FrameFollows
  <2>1. PICK r \in Row : r = RowOf(p)
    BY DEF DrawInv
  <2>2. RowOf(p)' = r
    BY <1>4, <2>1
  <2>3. WillLight' = on
    BY <1>2, <1>4 DEF WillLight
  <2>4. (Will(r))' = IF r < LampRows THEN "lamps" ELSE lcd[r]
    BY <1>2, <1>4 DEF Will
  <2>5. frame'[p] = Text(IF r < LampRows THEN "lamps" ELSE lcd[r], r, on, view)
    <3>1. CASE r < LampRows
      <4>1. r \in rows
        BY <1>1, <3>1, ScreenAssumption DEF LampRows, Row
      <4> QED BY <1>2, <1>3, <2>1, <3>1, <4>1 DEF Plots, Plot
    <3>2. CASE ~(r < LampRows)
      <4>1. r \notin rows
        BY <1>1, <3>2, ScreenAssumption DEF LampRows, Row
      <4>2. frame'[p] = frame[p]
        BY <1>3, <2>1, <4>1 DEF Plots, Plot
      <4>3. frame[p] = Text(lcd[r], r, shown, view)
        BY <1>2, <1>4, <2>1, IdleFrame, NoJobIsClosed DEF Core
      <4>4. lcd[r] \in {"files", "info", "track", "blank"}
        BY <3>2 DEF TypeOK, LampsInTheirRows
      <4>5. Text(lcd[r], r, shown, view) = Text(lcd[r], r, on, view)
        BY <4>4, OnlyLampsAreLit
      <4> QED BY <3>2, <4>2, <4>3, <4>5
    <3> QED BY <3>1, <3>2
  <2> QED BY <1>2, <2>2, <2>3, <2>4, <2>5
<1>6. Core0Draws
  BY <1>2 DEF Core0Draws
<1> QED BY <1>3, <1>5, <1>6, PlotDraws

\* The line with the track leaves the other rows alone.
LEMMA PlotTrackDraws ==
  ASSUME DrawInv, TypeOK, PlotTrack, ~collided'
  PROVE  DrawInv'
<1>1. PICK rows, pages : /\ rows = {lcdTrackRow}
                         /\ pages = {p \in Page : RowOf(p) = lcdTrackRow}
  OBVIOUS
<1>2. core0 = "draw track" /\ ~job[0].open /\ view' = view
  BY DEF PlotTrack
<1>3. 0 \in Core /\ Plots(0, "track", rows, pages, <<>>)
  BY <1>1, <1>2, NoJobIsClosed
     DEF PlotTrack, Plots, DrawInv, JobsAreSections, ClosedAreEmpty, Drawn, Core
<1>4. /\ job'[0].open /\ job[1] = NoJob /\ UNCHANGED <<core0, lcd, lcdTrackRow, shown>>
      /\ \A p : RowOf(p)' = RowOf(p)
      /\ Page' = Page
  BY <1>3, PlotJobs DEF vars, panel
<1>5. FrameFollows'
  <2> SUFFICES ASSUME view # NoList, NEW p \in Page
               PROVE  frame'[p] = Text(Will(RowOf(p)), RowOf(p), WillLight, view)'
    BY <1>2, <1>4 DEF FrameFollows
  <2>1. PICK r \in Row : r = RowOf(p)
    BY DEF DrawInv
  <2>2. RowOf(p)' = r
    BY <1>4, <2>1
  <2>3. WillLight' = shown
    BY <1>2, <1>4 DEF WillLight
  <2>4. (Will(r))' = IF r = lcdTrackRow THEN "track" ELSE lcd[r]
    BY <1>2, <1>4 DEF Will
  <2>5. frame'[p] = Text(IF r = lcdTrackRow THEN "track" ELSE lcd[r], r, shown, view)
    <3>1. CASE r = lcdTrackRow
      <4>1. frame'[p] = Text("track", r, on, view)
        BY <1>1, <1>2, <1>3, <2>1, <3>1 DEF Plots, Plot
      <4>2. Text("track", r, on, view) = Text("track", r, shown, view)
        BY OnlyLampsAreLit
      <4> QED BY <3>1, <4>1, <4>2
    <3>2. CASE r # lcdTrackRow
      <4>1. frame'[p] = frame[p]
        BY <1>1, <1>3, <2>1, <3>2 DEF Plots, Plot
      <4>2. frame[p] = Text(lcd[r], r, shown, view)
        BY <1>2, <1>4, <2>1, IdleFrame, NoJobIsClosed DEF Core
      <4> QED BY <3>2, <4>1, <4>2
    <3> QED BY <3>1, <3>2
  <2> QED BY <1>2, <2>2, <2>3, <2>4, <2>5
<1>6. Core0Draws
  BY <1>2 DEF Core0Draws
<1> QED BY <1>3, <1>5, <1>6, PlotDraws

\* Core 1 always plots the whole panel.
LEMMA BrowserDraws ==
  ASSUME DrawInv, NEW what \in {"files", "info", "blank"}, NEW next \in {<<>>, <<"info">>},
         Plots(1, what, Row, Page, next), Core1Draws, core1 # "info" => next = <<>>, ~collided',
         what = IF core1 # "info" THEN "files" ELSE IF next = <<>> THEN "info" ELSE "blank"
  PROVE  DrawInv'
<1>0. 1 \in Core
  BY DEF Core
<1>1. /\ job'[1].open /\ job'[1].next = next /\ ~job'[0].open
      /\ UNCHANGED <<core1, shown>>
      /\ \A p : RowOf(p)' = RowOf(p)
      /\ Page' = Page
  BY <1>0, PlotJobs, NoJobIsClosed DEF vars, panel
<1>2. FrameFollows'
  <2> SUFFICES ASSUME NEW p \in Page
               PROVE  frame'[p] = Text(Will(RowOf(p)), RowOf(p), WillLight, view)'
    BY <1>1 DEF FrameFollows
  <2>1. PICK r \in Row : r = RowOf(p)
    BY DEF DrawInv
  <2>2. RowOf(p)' = r
    BY <1>1, <2>1
  <2>3. WillLight' = shown
    BY <1>1 DEF WillLight
  <2>4. (Will(r))' = what
    BY <1>1 DEF Will
  <2>5. frame'[p] = Text(what, r, on, view')
    BY <2>1 DEF Plots, Plot
  <2>6. Text(what, r, on, view') = Text(what, r, shown, view')
    BY OnlyLampsAreLit
  <2> QED BY <2>2, <2>3, <2>4, <2>5, <2>6
<1> QED BY <1>0, <1>2, PlotDraws

\* All the rows are on all the pages.
LEMMA WholePanel ==
  ASSUME DrawInv, NEW c \in Core, NEW what, NEW next \in {<<>>, <<"info">>},
         Plot(c, what, Row, Page, next), Drawn(c)
  PROVE  Plots(c, what, Row, Page, next)
BY DEF Plots

\* The list of the browser ...
LEMMA PlotListDraws ==
  ASSUME DrawInv, PlotList, ~collided'
  PROVE  DrawInv'
<1>1. core1 \in {"redraw", "paint"} /\ ~job[1].open /\ Plot(1, "files", Row, Page, <<>>)
  BY DEF PlotList
<1>2. 1 \in Core /\ Drawn(1)
  BY <1>1, NoJobIsClosed DEF DrawInv, JobsAreSections, ClosedAreEmpty, Drawn, Core
<1>3. Plots(1, "files", Row, Page, <<>>)
  BY <1>1, <1>2, WholePanel
<1> QED BY <1>1, <1>3, BrowserDraws DEF Core1Draws

\* ... and the dark panel before the name of an image.
LEMMA PlotInfoDraws ==
  ASSUME DrawInv, PlotInfo, ~collided'
  PROVE  DrawInv'
<1>1. core1 = "info" /\ ~job[1].open /\ Plot(1, "blank", Row, Page, <<"info">>)
  BY DEF PlotInfo
<1>2. 1 \in Core /\ Drawn(1)
  BY <1>1, NoJobIsClosed DEF DrawInv, JobsAreSections, ClosedAreEmpty, Drawn, Core
<1>3. Plots(1, "blank", Row, Page, <<"info">>)
  BY <1>1, <1>2, WholePanel
<1> QED BY <1>1, <1>3, BrowserDraws DEF Core1Draws

\* The name of the image goes on the panel that was cleared for it.
LEMMA PlotNextDraws ==
  ASSUME DrawInv, PlotNext(1), ~collided'
  PROVE  DrawInv'
<1>1. 1 \in Core /\ job[1].next # <<>> /\ Drawn(1)
  BY DEF PlotNext, Core
<1>2. core1 = "info" /\ job[1].next = <<"info">>
  BY <1>1, NoJobIsClosed DEF DrawInv, JobsAreSections, ClosedAreEmpty
<1>3. Head(job[1].next) = "info" /\ Tail(job[1].next) = <<>>
  BY <1>2
<1>4. Plot(1, "info", Row, Page, <<>>)
  BY <1>3 DEF PlotNext
<1>5. Plots(1, "info", Row, Page, <<>>)
  BY <1>1, <1>4, WholePanel
<1> QED BY <1>2, <1>5, BrowserDraws DEF Core1Draws

-----------------------------------------------------------------------------
(* Sending, ending a section, and waiting. *)

\* The core that refreshes is the one with a job.
LEMMA SendingKeeps ==
  ASSUME BusTypes, OneRefreshes, NEW c \in Core, RefreshPage(c) \/ RPI_I2CWrite(c)
  PROVE  /\ BusTypes' /\ OneRefreshes'
         /\ \A d \in Core : job'[d].open = job[d].open /\ job'[d].next = job[d].next
         /\ \A d \in Core : job[d] = NoJob => job'[d] = NoJob
         /\ \A p \in Page, k \in Column :
              \/ ram'[p][k + Offset] = ram[p][k + Offset] /\ oldFrame'[p][k] = oldFrame[p][k]
              \/ ram'[p][k + Offset] = oldFrame'[p][k]
         /\ UNCHANGED <<vars, wiring, frame, view, collided>>
<1>1. job[c] # NoJob
  BY NoJobIsClosed DEF RefreshPage, RPI_I2CWrite
<1>2. job[1 - c] = NoJob /\ Refreshes(c)
  BY <1>1 DEF OneRefreshes, Core
<1>3. /\ BusTypes' /\ Refreshes(c)'
      /\ \A d \in Core \ {c} : job'[d] = job[d]
      /\ job'[c].open = job[c].open /\ job'[c].next = job[c].next
      /\ \A p \in Page, k \in Column :
           \/ ram'[p][k + Offset] = ram[p][k + Offset] /\ oldFrame'[p][k] = oldFrame[p][k]
           \/ ram'[p][k + Offset] = oldFrame'[p][k]
  <2>1. CASE RefreshPage(c)
    <3>1. UNCHANGED <<ram, oldFrame>>
      BY <2>1 DEF RefreshPage, memory
    <3> QED BY <1>2, <2>1, <3>1, RefreshPageKeeps
  <2>2. CASE RPI_I2CWrite(c) BY <1>2, <2>2, WriteSends
  <2> QED BY <2>1, <2>2
<1>4. UNCHANGED <<vars, wiring, frame, view, collided>>
  BY DEF RefreshPage, RPI_I2CWrite
<1>5. OneRefreshes'
  <2>1. job'[1 - c] = NoJob
    BY <1>2, <1>3, OtherCore
  <2> QED BY <1>3, <2>1 DEF OneRefreshes
<1> QED BY <1>1, <1>3, <1>4, <1>5

\* What is on its way changes neither the frame nor the status.
LEMMA SendingDraws ==
  ASSUME DrawInv, NEW c \in Core, RefreshPage(c) \/ RPI_I2CWrite(c)
  PROVE  DrawInv'
<1>0. BusTypes /\ OneRefreshes
  BY DEF DrawInv
<1>1. /\ BusTypes' /\ OneRefreshes'
      /\ \A d \in Core : job'[d].open = job[d].open /\ job'[d].next = job[d].next
      /\ \A d \in Core : job[d] = NoJob => job'[d] = NoJob
      /\ \A p \in Page, k \in Column :
           \/ ram'[p][k + Offset] = ram[p][k + Offset] /\ oldFrame'[p][k] = oldFrame[p][k]
           \/ ram'[p][k + Offset] = oldFrame'[p][k]
      /\ UNCHANGED <<vars, wiring, frame, view, collided>>
  BY <1>0, SendingKeeps
<1>2. Page' = Page /\ Offset' = Offset /\ \A p : RowOf(p)' = RowOf(p)
  BY <1>1, SamePanel DEF wiring, RowOf, PagesPerRow
<1>3. (\A p \in Page : RowOf(p) \in Row)'
  BY <1>2 DEF DrawInv
<1>4. (\A p \in Page, k \in Column : ram[p][k + Offset] = oldFrame[p][k])'
  BY <1>1, <1>2 DEF DrawInv
<1>5. JobsAreSections'
  BY <1>1 DEF DrawInv, JobsAreSections, ClosedAreEmpty, vars, Core
<1>6. FrameFollows'
  <2>1. WillLight' = WillLight
    BY <1>1 DEF WillLight, vars, sampled, panel, Core
  <2>2. \A r : (Will(r))' = Will(r)
    BY <1>1 DEF Will, vars, panel, Core
  <2> QED BY <1>1, <1>2, <2>1, <2>2 DEF DrawInv, FrameFollows
<1> QED BY <1>1, <1>3, <1>4, <1>5, <1>6 DEF DrawInv

\* A section ends when the panel has what the status is from then on.
LEMMA FinishDraws ==
  ASSUME DrawInv, NEW c \in Core, Finish(c),
         \A r \in Row : lcd'[r] = Will(r), shown' = WillLight
  PROVE  DrawInv'
<1>0. BusTypes /\ OneRefreshes
  BY DEF DrawInv
<1>1. /\ BusTypes' /\ OneRefreshes' /\ \A d \in Core : job'[d] = NoJob
      /\ UNCHANGED <<type, useCBMFont, frame, oldFrame, ram, view>>
  BY <1>0, FinishKeeps DEF Finish, wiring, memory
<1>2. Page' = Page /\ Offset' = Offset /\ \A p : RowOf(p)' = RowOf(p)
  BY <1>1, SamePanel DEF RowOf, PagesPerRow
<1>3. (\A p \in Page : RowOf(p) \in Row)'
  BY <1>2 DEF DrawInv
<1>4. (\A p \in Page, k \in Column : ram[p][k + Offset] = oldFrame[p][k])'
  BY <1>1, <1>2 DEF DrawInv
<1>5. ~job'[0].open /\ ~job'[1].open
  BY <1>1, NoJobIsClosed DEF Core
<1>6. JobsAreSections'
  BY <1>1, <1>5 DEF JobsAreSections, ClosedAreEmpty
<1>7. FrameFollows'
  <2>1. WillLight' = WillLight
    BY <1>5 DEF WillLight
  <2>2. \A r \in Row : (Will(r))' = Will(r)
    BY <1>5 DEF Will
  <2> QED BY <1>1, <1>2, <2>1, <2>2 DEF DrawInv, FrameFollows
<1> QED BY <1>1, <1>3, <1>4, <1>6, <1>7 DEF DrawInv

\* The sections of core 0 end with their rows drawn ...
LEMMA Section0Ends ==
  ASSUME DrawInv, TypeOK, Finish(0), DrawLamps \/ DrawTrack
  PROVE  DrawInv'
<1>1. 0 \in Core /\ job[0].open
  BY DEF Finish, Core
<1>2. (\A r \in Row : lcd'[r] = Will(r)) /\ shown' = WillLight
  <2>1. CASE DrawLamps BY <1>1, <2>1 DEF DrawLamps, Will, WillLight
  <2>2. CASE DrawTrack BY <1>1, <2>2 DEF DrawTrack, Will, WillLight, TypeOK
  <2> QED BY <2>1, <2>2
<1> QED BY <1>1, <1>2, FinishDraws

\* ... and those of core 1 with all of them.
LEMMA Section1Ends ==
  ASSUME DrawInv, Finish(1), Redraw \/ PaintAll \/ BeginEmulating
  PROVE  DrawInv'
<1>1. 1 \in Core /\ job[1].open /\ job[1].next = <<>>
  BY DEF Finish, Core
<1>2. ~job[0].open
  <2>1. BusTypes /\ OneRefreshes
    BY DEF DrawInv
  <2>2. job[0] = NoJob
    BY <1>1, <2>1, FinishKeeps DEF Core
  <2> QED BY <2>2, NoJobIsClosed
<1>3. (\A r \in Row : lcd'[r] = Will(r)) /\ shown' = WillLight
  <2>1. CASE Redraw BY <1>1, <1>2, <2>1 DEF Redraw, Will, WillLight
  <2>2. CASE PaintAll BY <1>1, <1>2, <2>2 DEF PaintAll, Paint, Will, WillLight
  <2>3. CASE BeginEmulating BY <1>1, <1>2, <2>3 DEF BeginEmulating, Will, WillLight
  <2> QED BY <2>1, <2>2, <2>3
<1> QED BY <1>1, <1>3, FinishDraws

\* Whatever else changes, what the bus has to bring does not.
LEMMA BusStays ==
  ASSUME BusTypes, OneRefreshes, UNCHANGED <<type, frame, oldFrame, ram, pointer, job>>
  PROVE  BusTypes' /\ OneRefreshes'
<1>1. Page' = Page /\ Offset' = Offset /\ Message' = Message /\ Job' = Job
  BY SamePanel
<1>2. BusTypes'
  BY <1>1 DEF BusTypes
<1>3. \A p : Changed(p)' = Changed(p)
  BY DEF Changed
<1>4. PICK c \in Core : job[1 - c] = NoJob /\ Refreshes(c)
  BY DEF OneRefreshes
<1>5. Refreshes(c)'
  <2>1. CASE job[c].msgs = <<>>
    BY <1>1, <1>3, <1>4, <2>1 DEF Refreshes
  <2>2. CASE job[c].msgs # <<>>
    <3>1. PICK msgs : msgs = job[c].msgs
      OBVIOUS
    <3>2. PICK q \in Page \ job[c].pages, cut \in [1 .. Len(msgs) + 1 -> 0 .. Width] :
            Sends(q, msgs, cut) /\ \A p \in (Page \ job[c].pages) \ {q} : Changed(p) = {}
      BY <1>4, <2>2, <3>1 DEF Refreshes
    <3>3. Covers(msgs, q, cut)'
      BY <3>2, CoversKept DEF Sends
    <3>4. Sends(q, msgs, cut)'
      BY <1>1, <1>3, <3>2, <3>3 DEF Sends
    <3> QED BY <1>1, <1>3, <2>2, <3>1, <3>2, <3>4 DEF Refreshes
  <2> QED BY <2>1, <2>2
<1> QED BY <1>2, <1>4, <1>5 DEF OneRefreshes

\* A core that goes on without drawing has nothing on the way.
LEMMA WaitingDraws ==
  ASSUME DrawInv, UNCHANGED <<panelVars, lcd, lcdTrackRow, shown>>,
         job[0].open => UNCHANGED <<core0, on>>, job[1].open => UNCHANGED core1
  PROVE  DrawInv'
<1>1. UNCHANGED <<type, useCBMFont, frame, oldFrame, ram, pointer, job, view>>
  BY DEF panelVars, wiring, memory
<1>2. /\ Page' = Page /\ Offset' = Offset /\ Message' = Message /\ Job' = Job
      /\ \A p : RowOf(p)' = RowOf(p)
  BY <1>1, SamePanel DEF RowOf, PagesPerRow
<1>3. BusTypes' /\ OneRefreshes'
  BY <1>1, BusStays DEF DrawInv
<1>5. (\A p \in Page : RowOf(p) \in Row)'
  BY <1>2 DEF DrawInv
<1>6. (\A p \in Page, k \in Column : ram[p][k + Offset] = oldFrame[p][k])'
  BY <1>1, <1>2 DEF DrawInv
<1>7. JobsAreSections'
  BY <1>1 DEF DrawInv, JobsAreSections, ClosedAreEmpty
<1>8. FrameFollows'
  <2>1. WillLight' = WillLight
    BY <1>1 DEF WillLight
  <2>2. \A r : (Will(r))' = Will(r)
    BY <1>1 DEF Will
  <2> QED BY <1>1, <1>2, <2>1, <2>2 DEF DrawInv, FrameFollows
<1> QED BY <1>3, <1>5, <1>6, <1>7, <1>8 DEF DrawInv

\* A core that samples, waits for the lock or sees the flag draws nothing.
LEMMA CoresWait ==
  ASSUME DrawInv, Waits0 \/ Waits1 \/ UserActs
  PROVE  DrawInv'
<1>1. /\ job[0].open => core0 \in {"draw lamps", "draw track"}
      /\ job[1].open => core1 \in {"redraw", "paint", "info"}
  BY DEF DrawInv, JobsAreSections
<1>2. CASE Waits0
  <2>1. ~job[0].open /\ UNCHANGED <<core1, panel, panelVars>>
    BY <1>1, <1>2 DEF Waits0, Pass, ForgetLamps, LampsUnchanged, LampsChanged, SampleLamps,
                      AcquireForLamps, CheckTrack, AcquireForTrack
  <2> QED BY <2>1, WaitingDraws DEF panel
<1>3. CASE Waits1
  <2>1. ~job[1].open /\ UNCHANGED <<core0, sampled, panel, panelVars>>
    BY <1>1, <1>3 DEF Waits1, AcquireForBrowser, ReleaseOnExit
  <2> QED BY <2>1, WaitingDraws DEF panel, sampled
<1>4. CASE UserActs
  <2>1. (job[1].open => UNCHANGED core1) /\ UNCHANGED <<core0, sampled, panel, panelVars>>
    BY <1>1, <1>4 DEF UserActs, Browse, WriteLEDs, ExitEmulation
  <2> QED BY <2>1, WaitingDraws DEF panel, sampled
<1> QED BY <1>2, <1>3, <1>4

\* Every step of two cores that have not met keeps what the drawing relies on.
LEMMA PanelNextDraws ==
  ASSUME DrawInv, TypeOK, LampsInTheirRows, PanelNext, ~collided'
  PROVE  DrawInv'
<1>0. 0 \in Core /\ 1 \in Core
  BY DEF Core
<1>1. CASE Draws0
  BY <1>0, <1>1, PlotLampsDraws, PlotTrackDraws, SendingDraws, Section0Ends DEF Draws0
<1>2. CASE Draws1
  BY <1>0, <1>2, PlotListDraws, PlotInfoDraws, PlotNextDraws, SendingDraws, Section1Ends
     DEF Draws1
<1>3. CASE Waits0 \/ Waits1 \/ UserActs BY <1>3, CoresWait
<1> QED BY <1>1, <1>2, <1>3 DEF PanelNext

-----------------------------------------------------------------------------
(* The machine of Boot. *)

\* Drawing and sending leave the cores where they are.
LEMMA DrawingIsInside ==
  ASSUME NEW c \in Core,
         PlotLamps \/ PlotTrack \/ PlotList \/ PlotInfo \/ PlotNext(c)
           \/ RefreshPage(c) \/ RPI_I2CWrite(c)
  PROVE  UNCHANGED vars
<1>1. CASE PlotLamps BY <1>1 DEF PlotLamps, Plot
<1>2. CASE PlotTrack BY <1>2 DEF PlotTrack, Plot
<1>3. CASE PlotList BY <1>3 DEF PlotList, Plot
<1>4. CASE PlotInfo BY <1>4 DEF PlotInfo, Plot
<1>5. CASE PlotNext(c) BY <1>5 DEF PlotNext, Plot
<1>6. CASE RefreshPage(c) BY <1>6 DEF RefreshPage
<1>7. CASE RPI_I2CWrite(c) BY <1>7 DEF RPI_I2CWrite
<1> QED BY <1>1, <1>2, <1>3, <1>4, <1>5, <1>6, <1>7

\* The refreshes of LcdPanel lie inside the sections of StatusScreen.
LEMMA PanelImplements == PanelNext => [Next]_vars
<1> SUFFICES ASSUME PanelNext PROVE [Next]_vars
  OBVIOUS
<1>0. 0 \in Core /\ 1 \in Core
  BY DEF Core
<1>1. CASE Draws0
  <2>1. CASE DrawLamps \/ DrawTrack BY <2>1 DEF Next, Core0
  <2>2. CASE ~(DrawLamps \/ DrawTrack)
    BY <1>0, <1>1, <2>2, DrawingIsInside DEF Draws0
  <2> QED BY <2>1, <2>2
<1>2. CASE Draws1
  <2>1. CASE Redraw \/ Paint \/ BeginEmulating BY <2>1 DEF Next, Core1
  <2>2. CASE ~(Redraw \/ Paint \/ BeginEmulating)
    BY <1>0, <1>2, <2>2, DrawingIsInside DEF Draws1, PaintAll
  <2> QED BY <2>1, <2>2
<1>3. CASE Waits0 BY <1>3 DEF Waits0, Next, Core0
<1>4. CASE Waits1 BY <1>4 DEF Waits1, Next, Core1
<1>5. CASE UserActs BY <1>5 DEF UserActs, Next
<1> QED BY <1>1, <1>2, <1>3, <1>4, <1>5 DEF PanelNext

LEMMA BootImplements == [BootNext]_everything => [Next]_vars
<1> SUFFICES ASSUME [BootNext]_everything PROVE [Next]_vars
  OBVIOUS
<1>1. CASE Running BY <1>1, PanelImplements DEF Running
<1>2. CASE BootDraws
  <2>1. 0 \in Core BY DEF Core
  <2> QED BY <1>2, <2>1, DrawingIsInside DEF BootDraws
<1>3. CASE LoadOptions BY <1>3 DEF LoadOptions, allVars
<1>4. CASE InitialiseLCD BY <1>4 DEF InitialiseLCD
<1>5. CASE CheckOptions BY <1>5 DEF CheckOptions
<1>6. CASE ClearInit BY <1>6 DEF ClearInit
<1>7. CASE StartCores BY <1>7 DEF StartCores
<1>8. CASE UNCHANGED everything BY <1>8 DEF everything, allVars
<1> QED
  BY <1>1, <1>2, <1>3, <1>4, <1>5, <1>6, <1>7, <1>8 DEF BootNext

\* The machine, from options.txt to the last message of the I2C bus, is an
\* implementation of the two cores of StatusScreen.
THEOREM MachineIsTwoCores == BootSpec => Spec
<1>1. BootInit => Init
  BY DEF BootInit
<1> QED BY <1>1, BootImplements, PTL DEF BootSpec, Spec

\* On whatever panel, however long its messages take: no core leaves its section
\* with the lock taken, and the drawings meet only in the pass of core 0 in which
\* an emulation ends.
THEOREM MachineTakesTurns == BootSpec => []CoresTakeTurns
BY MachineIsTwoCores, CoresDrawApart, PTL

\* So do the lamps of the machine, whichever panel options.txt names: on one of two
\* rows the track line covers their first row and no other.
THEOREM MachineKeepsLamps == BootSpec => LampsKeepTheirRows
BY MachineIsTwoCores, LinesStayOffLamps, PTL

-----------------------------------------------------------------------------
(* The machine, from the switch on. *)

\* Once there is a panel its bus is in order, and its shadow true.
BusInv == type # "unknown" /\ ~collided => BusTypes /\ Shadow /\ OneRefreshes

\* How far the panel is when kernel_main gets there; until the cores run nothing but
\* core 0 draws.
BootInv ==
  /\ phase \in {"power", "read", "no panel"} => type = "unknown"
  /\ phase \in {"logo", "ready", "clear", "running"} => type # "unknown"
  /\ phase # "running" => view = NoList /\ ~collided
  /\ phase \in {"logo", "ready", "clear"} => job[0].open /\ job[1] = NoJob
  /\ phase = "ready" => Drawn(0)
  /\ phase \in {"ready", "clear"} => job[0].next = <<>>
  /\ phase = "clear" => \A p \in Page : frame[p] = Blank

\* Once the cores run the frame has the status as well, until two drawings meet.
PInv ==
  /\ BusInv /\ BootInv
  /\ phase = "running" /\ ~collided => DrawInv

\* The new panel is to be cleared, and the shadow of it matches nothing.
LEMMA NewPanel ==
  ASSUME BootInv, InitialiseLCD
  PROVE  PInv'
<1>1. phase = "read" /\ type' = options.i2cLcdModel /\ view = NoList /\ ~collided
  BY DEF InitialiseLCD, BootInv
<1>2. CASE options.i2cLcdModel = "unknown"
  <2>1. type' = "unknown" /\ phase' = "no panel" /\ view' = NoList /\ ~collided'
    BY <1>1, <1>2 DEF InitialiseLCD
  <2> QED BY <2>1 DEF PInv, BusInv, BootInv
<1>3. CASE options.i2cLcdModel # "unknown"
  <2>1. type' # "unknown" /\ phase' = "logo" /\ Constructed
    BY <1>1, <1>3 DEF InitialiseLCD
  <2>2. /\ job'[0] = [open |-> TRUE, next |-> <<"logo">>, pages |-> Page', msgs |-> <<>>]
        /\ job'[1] = NoJob /\ job' \in [Core -> Job']
    <3>1. <<>> \in Seq(Message')
      OBVIOUS
    <3>2. NoJob \in Job'
      BY <3>1 DEF NoJob, Job
    <3>3. [open |-> TRUE, next |-> <<"logo">>, pages |-> Page', msgs |-> <<>>] \in Job'
      BY <3>1 DEF Job
    <3> QED BY <2>1, <3>2, <3>3 DEF Constructed, Core
  <2>3. BusTypes'
    <3>1. 0 \in Page'
      BY DEF Page, Height
    <3> QED BY <2>1, <2>2, <3>1 DEF Constructed, BusTypes
  <2>4. Shadow'
    BY <2>1 DEF Constructed, Shadow, Line
  <2>5. OneRefreshes'
    <3>1. Refreshes(0)'
      BY <2>2 DEF Refreshes
    <3> QED BY <2>2, <3>1 DEF OneRefreshes, Core
  <2>6. BootInv'
    <3>1. view' = NoList /\ ~collided' /\ job'[0].open /\ job'[1] = NoJob
      BY <2>1, <2>2 DEF Constructed
    <3> QED BY <2>1, <3>1 DEF BootInv
  <2> QED BY <2>1, <2>3, <2>4, <2>5, <2>6 DEF PInv, BusInv
<1> QED BY <1>2, <1>3

\* Reading, and finding or not finding a ROM, leave the panel alone.
LEMMA PanelAlone ==
  ASSUME PInv, LoadOptions \/ CheckOptions
  PROVE  PInv'
<1>1. UNCHANGED <<type, frame, oldFrame, memory, job, view, collided>>
  BY DEF LoadOptions, CheckOptions, allVars, panelVars, wiring
<1>2. BusInv'
  <2> SUFFICES ASSUME type # "unknown", ~collided PROVE BusTypes' /\ Shadow' /\ OneRefreshes'
    BY <1>1 DEF BusInv
  <2>1. BusTypes /\ Shadow /\ OneRefreshes
    BY DEF PInv, BusInv
  <2>2. BusTypes' /\ OneRefreshes'
    BY <1>1, <2>1, BusStays DEF memory
  <2>3. Shadow'
    BY <1>1, <2>1, SamePanel DEF Shadow, memory
  <2> QED BY <2>2, <2>3
<1>3. BootInv' /\ phase' # "running"
  BY <1>1 DEF PInv, BootInv, LoadOptions, CheckOptions, Drawn
<1> QED BY <1>2, <1>3 DEF PInv

\* The panel is cleared through the shadow: a page that is dark already is not sent.
LEMMA PanelCleared ==
  ASSUME PInv, ClearInit
  PROVE  PInv'
<1>1. /\ BusTypes /\ Shadow /\ OneRefreshes /\ ~collided /\ view = NoList
      /\ type # "unknown" /\ Drawn(0)
      /\ job[0].open /\ job[0].next = <<>> /\ job[1] = NoJob
  BY DEF PInv, BusInv, BootInv, ClearInit
<1>2. /\ UNCHANGED <<type, oldFrame, ram, view, collided>> /\ phase' = "clear"
      /\ frame' = [p \in Page |-> Blank]
      /\ pointer' = [page |-> 0, column |-> Offset]
  BY DEF ClearInit, wiring
<1>3. Page' = Page /\ Offset' = Offset /\ Message' = Message /\ Job' = Job
  BY <1>2, SamePanel
<1>4. /\ job'[0].open /\ job'[0].next = <<>> /\ job'[0].pages = Page /\ job'[0].msgs = <<>>
      /\ job'[1] = NoJob /\ job' \in [Core -> Job]
  <2>1. job \in [Core -> Job] /\ job[0] \in Job
    BY <1>1 DEF BusTypes, Core
  <2>2. PICK new : new = [job[0] EXCEPT !.pages = Page]
    OBVIOUS
  <2>3. /\ new.open = job[0].open /\ new.next = job[0].next
        /\ new.pages = Page /\ new.msgs = job[0].msgs /\ new \in Job
    BY <2>1, <2>2 DEF Job
  <2>4. job' = [job EXCEPT ![0] = new]
    BY <2>2 DEF ClearInit
  <2>5. 0 \in Core /\ 1 \in Core
    BY DEF Core
  <2>6. job'[0] = new /\ job'[1] = job[1] /\ job' \in [Core -> Job]
    BY <2>1, <2>3, <2>4, <2>5
  <2> QED BY <1>1, <2>3, <2>6 DEF Drawn
<1>5. BusTypes' /\ Shadow'
  BY <1>1, <1>2, <1>3, <1>4, PagesAndColumns DEF BusTypes, Shadow
<1>6. OneRefreshes'
  <2>1. Refreshes(0)'
    BY <1>3, <1>4 DEF Refreshes
  <2> QED BY <1>4, <2>1 DEF OneRefreshes, Core
<1>7. BootInv'
  BY <1>1, <1>2, <1>3, <1>4 DEF BootInv
<1> QED BY <1>2, <1>5, <1>6, <1>7 DEF PInv, BusInv

\* The panel the cores start with is dark, in its memory as in the frame.
LEMMA CoresStart ==
  ASSUME PInv, StartCores
  PROVE  PInv'
<1>1. /\ BusTypes /\ Shadow /\ OneRefreshes /\ ~collided /\ view = NoList
      /\ type # "unknown" /\ Drawn(0) /\ job[1] = NoJob
      /\ \A p \in Page : frame[p] = Blank
  BY DEF PInv, BusInv, BootInv, StartCores
<1>2. /\ UNCHANGED <<type, useCBMFont, frame, oldFrame, ram, pointer, view, collided>>
      /\ job' = [job EXCEPT ![0] = NoJob]
      /\ phase' \in {"running", "other panel"}
      /\ phase' = "running" => Suits
  BY DEF StartCores, wiring, memory
<1>3. /\ Page' = Page /\ Offset' = Offset /\ Message' = Message /\ Job' = Job
      /\ \A p : RowOf(p)' = RowOf(p)
  BY <1>2, SamePanel DEF RowOf, PagesPerRow
<1>4. \A p \in Page : Changed(p) = {}
  <2>1. \A c \in Core : Drawn(c)
    BY <1>1, NoJobIsClosed DEF Core, Drawn
  <2> QED BY <1>1, <2>1, NothingLeft
<1>5. job'[0] = NoJob /\ job'[1] = NoJob /\ job' \in [Core -> Job]
  <2>1. <<>> \in Seq(Message)
    OBVIOUS
  <2>2. NoJob \in Job
    BY <2>1 DEF NoJob, Job
  <2>3. job \in [Core -> Job]
    BY <1>1 DEF BusTypes
  <2> QED BY <1>1, <1>2, <2>2, <2>3 DEF Core
<1>6. BusTypes' /\ Shadow'
  BY <1>1, <1>2, <1>3, <1>5 DEF BusTypes, Shadow
<1>7. OneRefreshes'
  <2>1. \A p \in Page' : Changed(p)' = {}
    BY <1>2, <1>3, <1>4 DEF Changed
  <2>2. Refreshes(0)'
    BY <1>5, <2>1, NoJobIsClosed DEF Refreshes
  <2> QED BY <1>5, <2>2 DEF OneRefreshes, Core
<1>8. BootInv'
  BY <1>1, <1>2 DEF BootInv
<1>9. phase' = "running" => DrawInv'
  <2> SUFFICES ASSUME Suits PROVE DrawInv'
    BY <1>2
  <2>1. \A p \in Page : RowOf(p) \in Row
    BY ScreenAssumption DEF Suits, Page, Height, RowOf, PagesPerRow, Row
  <2>2. \A p \in Page, k \in Column : ram[p][k + Offset] = oldFrame[p][k]
    <3> SUFFICES ASSUME NEW p \in Page, NEW k \in Column
                 PROVE  ram[p][k + Offset] = oldFrame[p][k]
      OBVIOUS
    <3>1. oldFrame[p][k] = frame[p][k]
      BY <1>4 DEF Changed
    <3>2. frame[p][k] = " "
      BY <1>1 DEF Blank, Line
    <3> QED BY <1>1, <3>1, <3>2 DEF Shadow
  <2>3. JobsAreSections'
    BY <1>5, NoJobIsClosed DEF JobsAreSections, ClosedAreEmpty, Core
  <2>4. FrameFollows'
    BY <1>1, <1>2 DEF FrameFollows
  <2> QED BY <1>2, <1>3, <1>6, <1>7, <2>1, <2>2, <2>3, <2>4 DEF DrawInv
<1> QED BY <1>6, <1>7, <1>8, <1>9 DEF PInv, BusInv

\* A byte sent is in both, and one that is not is as it was.
LEMMA ShadowKept ==
  ASSUME Shadow, UNCHANGED type,
         \A p \in Page, k \in Column :
           \/ ram'[p][k + Offset] = ram[p][k + Offset] /\ oldFrame'[p][k] = oldFrame[p][k]
           \/ ram'[p][k + Offset] = oldFrame'[p][k]
  PROVE  Shadow'
BY SamePanel DEF Shadow

\* The logo and the clearing of the panel are refreshes like any other.
LEMMA LogoDraws ==
  ASSUME PInv, BootDraws
  PROVE  PInv'
<1>1. /\ BusTypes /\ Shadow /\ OneRefreshes /\ ~collided /\ view = NoList
      /\ type # "unknown" /\ phase \in {"logo", "clear"} /\ phase' = phase
      /\ job[0].open /\ job[1] = NoJob
      /\ phase = "clear" => job[0].next = <<>> /\ \A p \in Page : frame[p] = Blank
      /\ 0 \in Core
  BY DEF PInv, BusInv, BootInv, BootDraws, bootVars, Core
<1>2. CASE PlotNext(0)
  <2>1. PICK what, next : what = Head(job[0].next) /\ next = Tail(job[0].next)
    OBVIOUS
  <2>2. next = <<>> /\ phase = "logo"
    <3>1. job[0].next \in {<<"info">>, <<"logo">>} /\ job[0].next # <<>>
      BY <1>1, <1>2 DEF PlotNext, BusTypes, Job
    <3>2. Tail(<<"info">>) = <<>> /\ Tail(<<"logo">>) = <<>>
      OBVIOUS
    <3>3. CASE job[0].next = <<"info">> BY <1>1, <2>1, <3>1, <3>2, <3>3
    <3>4. CASE job[0].next = <<"logo">> BY <1>1, <2>1, <3>1, <3>2, <3>4
    <3> QED BY <3>1, <3>3, <3>4
  <2>3. Plots(0, what, Row, Page, next)
    BY <1>2, <2>1, <2>2 DEF PlotNext, Plots
  <2>4. ~collided' /\ UNCHANGED <<type, oldFrame, ram>> /\ view' = NoList
    BY <1>1, <1>2, NoJobIsClosed DEF PlotNext, Plot, Core, wiring, memory
  <2>5. ClosedAreEmpty
    BY <1>1 DEF ClosedAreEmpty, Core
  <2>6. /\ BusTypes' /\ OneRefreshes'
        /\ job'[0] = [open |-> TRUE, next |-> next, pages |-> Page, msgs |-> <<>>]
        /\ \A d \in Core \ {0} : job[d] = NoJob /\ job'[d] = NoJob
    BY <1>1, <2>3, <2>4, <2>5, PlotKeeps, Zenon
  <2>7. job'[0].open /\ job'[1] = NoJob
    BY <2>6 DEF Core
  <2>8. Shadow'
    BY <1>1, <2>4, ShadowKept
  <2>9. BootInv'
    BY <1>1, <2>2, <2>4, <2>7 DEF BootInv
  <2> QED BY <1>1, <2>6, <2>8, <2>9 DEF PInv, BusInv
<1>3. CASE RefreshPage(0) \/ RPI_I2CWrite(0)
  <2>1. /\ BusTypes' /\ OneRefreshes'
        /\ \A d \in Core : job'[d].open = job[d].open /\ job'[d].next = job[d].next
        /\ \A d \in Core : job[d] = NoJob => job'[d] = NoJob
        /\ \A p \in Page, k \in Column :
             \/ ram'[p][k + Offset] = ram[p][k + Offset] /\ oldFrame'[p][k] = oldFrame[p][k]
             \/ ram'[p][k + Offset] = oldFrame'[p][k]
        /\ UNCHANGED <<vars, wiring, frame, view, collided>>
    BY <1>1, <1>3, SendingKeeps
  <2>2. Shadow'
    BY <1>1, <2>1, ShadowKept DEF wiring
  <2>3. job'[0].open /\ job'[0].next = job[0].next /\ job'[1] = NoJob
    BY <1>1, <2>1 DEF Core
  <2>4. BootInv'
    BY <1>1, <2>1, <2>3, SamePanel DEF BootInv, wiring
  <2> QED BY <1>1, <2>1, <2>2, <2>4 DEF PInv, BusInv
<1> QED BY <1>2, <1>3 DEF BootDraws

\* The panel is the one that was set up.
LEMMA WiringStays ==
  ASSUME PanelNext
  PROVE  UNCHANGED type
BY DEF PanelNext, Draws0, Draws1, Waits0, Waits1, UserActs, PlotLamps, PlotTrack, PlotList,
       PlotInfo, PlotNext, Plot, RefreshPage, RPI_I2CWrite, Finish, panelVars, wiring

\* The two cores at work.
LEMMA RunningDraws ==
  ASSUME PInv, TypeOK, LampsInTheirRows, Running
  PROVE  PInv'
<1>1. phase = "running" /\ phase' = "running" /\ DrawInv /\ type # "unknown" /\ PanelNext
  BY DEF PInv, BootInv, Running, bootVars
<1>2. type' # "unknown"
  BY <1>1, WiringStays
<1>3. ~collided' => DrawInv'
  BY <1>1, PanelNextDraws
<1>4. BootInv'
  BY <1>1, <1>2 DEF BootInv
<1>5. DrawInv' => BusTypes' /\ Shadow' /\ OneRefreshes'
  BY DEF DrawInv, Shadow
<1> QED BY <1>1, <1>3, <1>4, <1>5 DEF PInv, BusInv

\* Nothing happens.
LEMMA StutterDraws ==
  ASSUME PInv, UNCHANGED everything
  PROVE  PInv'
<1>1. /\ UNCHANGED <<vars, panelVars, bootVars>>
      /\ UNCHANGED <<type, frame, oldFrame, ram, pointer, job, view, collided, phase>>
  BY DEF everything, allVars, panelVars, bootVars, wiring, memory
<1>2. BusInv'
  <2> SUFFICES ASSUME type # "unknown", ~collided PROVE BusTypes' /\ Shadow' /\ OneRefreshes'
    BY <1>1 DEF BusInv
  <2>1. BusTypes /\ Shadow /\ OneRefreshes
    BY DEF PInv, BusInv
  <2>2. BusTypes' /\ OneRefreshes'
    BY <1>1, <2>1, BusStays
  <2>3. Shadow'
    BY <1>1, <2>1, ShadowKept
  <2> QED BY <2>2, <2>3
<1>3. BootInv'
  BY <1>1, SamePanel DEF PInv, BootInv, Drawn
<1>4. phase' = "running" /\ ~collided' => DrawInv'
  <2> SUFFICES ASSUME DrawInv PROVE DrawInv'
    BY <1>1 DEF PInv
  <2> QED BY <1>1, WaitingDraws DEF vars, panel, sampled
<1> QED BY <1>2, <1>3, <1>4 DEF PInv

\* The invariant is inductive, with what StatusScreen gives.
LEMMA BootKeeps ==
  ASSUME TypeOK, LampsInTheirRows, PInv, [BootNext]_everything
  PROVE  PInv'
<1>1. CASE InitialiseLCD BY <1>1, NewPanel DEF PInv
<1>2. CASE LoadOptions \/ CheckOptions BY <1>2, PanelAlone
<1>3. CASE ClearInit BY <1>3, PanelCleared
<1>4. CASE StartCores BY <1>4, CoresStart
<1>5. CASE BootDraws BY <1>5, LogoDraws
<1>6. CASE Running BY <1>6, RunningDraws
<1>7. CASE UNCHANGED everything BY <1>7, StutterDraws
<1> QED BY <1>1, <1>2, <1>3, <1>4, <1>5, <1>6, <1>7 DEF BootNext

\* It says that the panel is right: with no drawing under way the frame is the
\* status, the shadow the frame and the panel the shadow.
LEMMA PInvIsRight == PInv => PanelIsRight
<1> SUFFICES ASSUME PInv PROVE PanelIsRight
  OBVIOUS
<1>1. PanelIsTheShadow
  BY DEF PInv, BusInv, Shadow, PanelIsTheShadow
<1>2. PanelShowsTheStatus
  <2> SUFFICES ASSUME view # NoList, ~collided, \A c \in Core : ~job[c].open,
                      NEW p \in Page, NEW k \in Column
               PROVE  ram[p][k + Offset] = Text(lcd[RowOf(p)], RowOf(p), shown, view)[k]
    BY DEF PanelShowsTheStatus
  <2>1. DrawInv
    BY DEF PInv, BootInv
  <2>2. frame[p] = Text(lcd[RowOf(p)], RowOf(p), shown, view)
    BY <2>1, IdleFrame
  <2>3. Changed(p) = {}
    <3>1. OneRefreshes /\ \A c \in Core : Drawn(c)
      BY <2>1, NoJobIsClosed DEF DrawInv, JobsAreSections, ClosedAreEmpty, Drawn
    <3> QED BY <3>1, NothingLeft
  <2>4. oldFrame[p][k] = frame[p][k]
    BY <2>3 DEF Changed
  <2>5. ram[p][k + Offset] = oldFrame[p][k]
    BY <2>1 DEF DrawInv
  <2> QED BY <2>2, <2>4, <2>5
<1> QED BY <1>1, <1>2 DEF PanelIsRight

\* The refreshes that send only what differs, in windows cut into messages, leave no
\* stale byte on any panel: from the clearing at start-up to the last update of the
\* status, the shadow is what the panel shows, and at rest both are the status.
THEOREM PanelStaysRight == BootSpec => []PanelIsRight
<1>1. BootInit => PInv
  BY DEF BootInit, PInv, BusInv, BootInv
<1>2. Spec => []LampsInTheirRows
  BY TypeCorrect, InitRows, NextRows, PTL DEF Spec
<1>3. BootSpec => []PInv
  BY MachineIsTwoCores, TypeCorrect, <1>1, <1>2, BootKeeps, PTL DEF BootSpec
<1> QED BY <1>3, PInvIsRight, PTL

=============================================================================
