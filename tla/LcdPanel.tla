------------------------------ MODULE LcdPanel -------------------------------
(***************************************************************************)
(* What the drawing of StatusScreen does to the panel: class SSD1306 of    *)
(* src/ui/ssd1306.cpp and the I2C transfers of src/rpi/rpi-i2c.c.  Text is *)
(* plotted into frame; a refresh compares each page of it with oldFrame,   *)
(* "what the panel is already showing", sends the window between the first *)
(* and the last byte that differ in messages of a few bytes, and notes in  *)
(* oldFrame what it has sent.  A message is one transfer of the I2C        *)
(* controller, for the end of which the core that started it polls.        *)
(*                                                                         *)
(* Every step is a step of StatusScreen or leaves its variables alone: a   *)
(* section of StatusScreen ends when its refresh has.                      *)
(*                                                                         *)
(* SetDataPointer's three commands are one message.  The cores share the   *)
(* controller, frame and oldFrame without a lock of their own: once two    *)
(* drawings have met, `collided', nothing is promised any more.            *)
(***************************************************************************)
EXTENDS StatusScreen, Sequences

CONSTANTS
  Width,        \* columns of the panel
  Chunk,        \* bytes of data in a message: 15 in the code
  Shift         \* columns of an SH1106's memory left of the panel: 2

ASSUME PanelAssumption == Width \in Nat \ {0} /\ Chunk \in Nat \ {0} /\ Shift \in Nat

VARIABLES
  type,         \* the model of the panel, or "unknown"
  useCBMFont,   \* is a text row one page high, or two?
  frame, oldFrame,
  ram,          \* the panel's memory ...
  pointer,      \* ... and where its next byte goes
  job,          \* what each core's drawing still has to do
  view,         \* which of two lists the browser shows, or none yet
  collided      \* have two drawings ever overlapped?

wiring == <<type, useCBMFont>>
memory == <<ram, pointer>>
panelVars == <<wiring, frame, oldFrame, memory, job, view, collided>>
allVars == <<vars, panelVars>>

Core == {0, 1}
NoList == -1
Column == 0 .. Width - 1

PagesPerRow == IF useCBMFont THEN 1 ELSE 2
Height(model) == IF model = "1306_128x32" THEN 32 ELSE 64
Page == 0 .. Height(type) \div 8 - 1
RowOf(page) == page \div PagesPerRow

Offset == IF type = "1106_128x64" THEN Shift ELSE 0
RamColumn == 0 .. Width + 2 * Shift - 1

LeastOf(S) == CHOOSE n \in S : \A m \in S : n <= m
LargestOf(S) == CHOOSE n \in S : \A m \in S : m <= n

-----------------------------------------------------------------------------
(* What is plotted: the bytes of a page of a text row. *)

\* A byte stands for all that the first column, the last or those between show.
Line(first, middle, last) ==
  [c \in Column |-> IF c = 0 THEN first ELSE IF c = Width - 1 THEN last ELSE middle]

Blank == Line(" ", " ", " ")

\* The selected entry of a list is in inverse video, and so is a lit lamp; the
\* name of the ROM is written over that of the image.
Text(what, row, lamps, list) ==
  CASE what = "files" -> IF row = list THEN Line("E", "E", "B") ELSE Line("e", "e", " ")
    [] what = "info"  -> IF row = 0 THEN Line("r", "r", "n") ELSE Blank
    [] what = "lamps" -> Line("l", lamps, "l")
    [] what = "track" -> Line("t", "t", " ")
    [] what = "logo"  -> Line("g", "g", "g")
    [] what = "blank" -> Blank

NoJob == [open |-> FALSE, next |-> <<>>, pages |-> {}, msgs |-> <<>>]

Drawn(c) == job[c].pages = {} /\ job[c].msgs = <<>>

\* PlotText in each of the rows, then the refresh of the pages in `pages'.
Plot(c, what, rows, pages, next) ==
  /\ frame' = [p \in Page |->
       IF RowOf(p) \in rows THEN Text(what, RowOf(p), on, view') ELSE frame[p]]
  /\ job' = [job EXCEPT ![c] =
       [open |-> TRUE, next |-> next, pages |-> pages, msgs |-> <<>>]]
  /\ collided' = (collided \/ \E d \in Core \ {c} : job[d].open)
  /\ UNCHANGED <<vars, wiring, oldFrame, memory>>

PlotLamps ==
  /\ core0 = "draw lamps" /\ ~job[0].open
  /\ view' = view
  /\ LET rows == 0 .. LampRows - 1 IN
       Plot(0, "lamps", rows, {p \in Page : RowOf(p) \in rows}, <<>>)

PlotTrack ==
  /\ core0 = "draw track" /\ ~job[0].open
  /\ view' = view
  /\ Plot(0, "track", {lcdTrackRow}, {p \in Page : RowOf(p) = lcdTrackRow}, <<>>)

\* BrowsableListView::Refresh: the folder again, or another entry selected.
PlotList ==
  /\ core1 \in {"redraw", "paint"} /\ ~job[1].open
  /\ view' = CASE view = NoList -> 0
               [] core1 = "paint" -> 1 - view
               [] OTHER -> view
  /\ Plot(1, "files", Row, Page, <<>>)

\* DisplayDHDInfo clears the panel before it prints.
PlotInfo ==
  /\ core1 = "info" /\ ~job[1].open
  /\ view' = view
  /\ Plot(1, "blank", Row, Page, <<"info">>)

PlotNext(c) ==
  /\ job[c].next # <<>> /\ Drawn(c)
  /\ view' = view
  /\ Plot(c, Head(job[c].next), Row, Page, Tail(job[c].next))

-----------------------------------------------------------------------------
(* SSD1306::RefreshPage. *)

Changed(p) == {k \in Column : oldFrame[p][k] # frame[p][k]}

SetDataPointer(p, k) == [kind |-> "point", page |-> p, column |-> k + Offset]

\* The bytes from `first' up to `end', a message for each Chunk of them.
DataMessages(p, first, end) ==
  LET n == (end - first + Chunk - 1) \div Chunk
  IN [i \in 1 .. n |->
       [kind |-> "data", page |-> p,
        columns |-> first + (i - 1) * Chunk .. (IF i = n THEN end ELSE first + i * Chunk) - 1]]

\* Mutant of Window: the last column that differs stays behind.
WindowShort(p) ==
  LET start == LeastOf(Changed(p)) IN
  <<SetDataPointer(p, start)>> \o DataMessages(p, start, LargestOf(Changed(p)))

\* The messages that bring the window of page p to the panel.
Window(p) ==
  LET start == LeastOf(Changed(p)) IN
  <<SetDataPointer(p, start)>> \o DataMessages(p, start, LargestOf(Changed(p)) + 1)

RefreshPage(c) ==
  /\ job[c].pages # {} /\ job[c].msgs = <<>>
  /\ LET p == LeastOf(job[c].pages) IN
       job' = [job EXCEPT ![c].pages = @ \ {p},
                          ![c].msgs = IF Changed(p) = {} THEN <<>> ELSE Window(p)]
  /\ UNCHANGED <<vars, wiring, frame, oldFrame, memory, view, collided>>

-----------------------------------------------------------------------------
(* RPI_I2CWrite, and the panel at the other end. *)

\* The panel takes bytes one after the other from where its pointer is.
Written(m, bytes) ==
  LET at == pointer.column - LeastOf(m.columns) IN
  [r |-> [ram EXCEPT ![pointer.page] =
           [k \in RamColumn |-> IF k - at \in m.columns THEN bytes[k - at] ELSE @[k]]],
   p |-> [pointer EXCEPT !.column = LargestOf(m.columns) + at + 1]]

\* The message goes out, and the shadow has what was sent, whether or not the
\* panel acknowledged it.
RPI_I2CWrite(c) ==
  /\ job[c].msgs # <<>>
  /\ job' = [job EXCEPT ![c].msgs = Tail(@)]
  /\ LET m == Head(job[c].msgs) IN
       IF m.kind = "point"
       THEN /\ pointer' = [page |-> m.page, column |-> m.column]
            /\ UNCHANGED <<ram, oldFrame>>
       ELSE LET w == Written(m, frame[m.page]) IN
            /\ ram' = w.r /\ pointer' = w.p
            /\ oldFrame' = [oldFrame EXCEPT ![m.page] =
                 [k \in Column |-> IF k \in m.columns THEN frame[m.page][k] ELSE @[k]]]
  /\ UNCHANGED <<vars, wiring, frame, view, collided>>

-----------------------------------------------------------------------------
(* The sections of StatusScreen end when their refresh has. *)

Finish(c) ==
  /\ job[c].open /\ job[c].next = <<>> /\ Drawn(c)
  /\ job' = [job EXCEPT ![c] = NoJob]
  /\ UNCHANGED <<wiring, frame, oldFrame, memory, view, collided>>

\* All the rows: what was there before is not in the browser's new list.
PaintAll == Paint /\ lcd' = [r \in Row |-> "files"]

Draws0 == \/ PlotLamps \/ PlotTrack
          \/ RefreshPage(0) \/ RPI_I2CWrite(0)
          \/ Finish(0) /\ (DrawLamps \/ DrawTrack)

Draws1 == \/ PlotList \/ PlotInfo \/ PlotNext(1)
          \/ RefreshPage(1) \/ RPI_I2CWrite(1)
          \/ Finish(1) /\ (Redraw \/ PaintAll \/ BeginEmulating)

Waits0 ==
  /\ \/ Pass \/ ForgetLamps \/ LampsUnchanged \/ LampsChanged
     \/ SampleLamps \/ AcquireForLamps \/ CheckTrack \/ AcquireForTrack
  /\ UNCHANGED panelVars

Waits1 == (AcquireForBrowser \/ ReleaseOnExit) /\ UNCHANGED panelVars

UserActs == (Browse \/ WriteLEDs \/ ExitEmulation) /\ UNCHANGED panelVars

PanelNext == Draws0 \/ Draws1 \/ Waits0 \/ Waits1 \/ UserActs

-----------------------------------------------------------------------------
(* Properties. *)

\* "oldFrame is the what the panel is already showing shadow, and refreshes only
\* send the bytes that differ from it": as long as no two drawings have met it
\* is that.  A byte it has wrong is skipped for ever.
PanelIsTheShadow ==
  type # "unknown" /\ ~collided =>
    \A p \in Page, k \in Column :
      \/ oldFrame[p][k] = "ff"
      \/ ram[p][k + Offset] = oldFrame[p][k]

\* What StatusScreen says is on the LCD is what the panel's memory shows, when no
\* core draws: no byte of what is not there any more, and none of what should be
\* left out.
PanelShowsTheStatus ==
  view # NoList /\ ~collided /\ (\A c \in Core : ~job[c].open) =>
    \A p \in Page, k \in Column :
      ram[p][k + Offset] = Text(lcd[RowOf(p)], RowOf(p), shown, view)[k]

\* What is drawn arrives, in the order of any number of refreshes.
PanelIsRight == PanelIsTheShadow /\ PanelShowsTheStatus

==============================================================================
