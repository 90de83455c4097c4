---------------------------- MODULE FileBrowser ----------------------------
(***************************************************************************)
(* The browser in which the user picks the disk image to mount:            *)
(* src/ui/filebrowser.cpp, with the loop of src/main.cpp that runs it, the *)
(* volumes and current directories it uses, and the keys and buttons that  *)
(* reach it through InputMappings.                                         *)
(*                                                                         *)
(* The state of the browser is one record, and an operation of the code is *)
(* an operator from such a record to the next: they call each other as the *)
(* functions do.  A step is one pass of the loop.  Files and folders are   *)
(* nodes; a path is the folder it starts in and a name, as SetSelectedDHD  *)
(* builds it; what the screen shows is what Refresh drew last.             *)
(***************************************************************************)
EXTENDS Integers, SequencesExt

CONSTANTS
  Drives,        \* the roots of the volumes, in the order of their numbers
  Folders,       \* the other folders
  Files,         \* the disk images
  Up,            \* the folder a folder or file is in
  NameOf,        \* its name, a sequence of letters
  Rank,          \* where strcasecmp puts it among the nodes
  ImageFolder,   \* /cmd-images of a volume, or None
  AutoImage,     \* the name AutoMountImage gives
  Rows,          \* rows of the views: of the screen, and of the LCD
  LcdPaging,     \* keyboardBrowseLCDScreen: page keys are the LCD's
  Letters,       \* the keys that are typed
  Buttons,       \* those of enter, back, up, down and insert that are pressed
  PrefixSize,    \* KEYBOARD_SEARCH_BUFFER_SIZE - 1
  MaxPulls,      \* bound: how often a card or stick is pulled
  MaxProtected   \* bound: how many are write protected at once

None == "none"
DotDot == ".."
Roots == Range(Drives)

VARIABLES
  b,             \* the browser, and the volumes' current directories
  buttonFlags,   \* InputMappings::buttonFlags
  emulating,     \* the image that is mounted, or Nothing while browsing
  pulls          \* how often a card or stick was pulled

Nothing == [image |-> None, readOnly |-> FALSE]
Emulating == emulating # Nothing

vars == <<b, buttonFlags, emulating, pulls>>

-----------------------------------------------------------------------------
(* The volumes. *)

Cwd(s) == s.cwd[s.vol]
Readable(s) == s.vol \notin s.gone

Chdir(s, to) == IF Readable(s) /\ to # None THEN [s EXCEPT !.cwd[s.vol] = to] ELSE s

ChangeToImageFolder(s) == Chdir(s, ImageFolder[s.vol])

\* f_getcwd walks to the root through the folders' parents.
CwdKnown(s) == Cwd(s) \in Roots \/ Readable(s)

\* f_chmod, when the card takes it.
Chmod(s, node, rdo) ==
  IF Readable(s) /\ node \in Folders \union Files
  THEN [s EXCEPT !.protected = IF rdo THEN @ \union {node} ELSE @ \ {node}]
  ELSE s

-----------------------------------------------------------------------------
(* The lists and their views. *)

Entry(node, rdo) == [node |-> node, rdo |-> rdo, caddyIndex |-> -1]
IsDir(node) == node \notin Files
Size(s) == Len(s.entries)
At(s, i) == s.entries[i + 1]
Current(s) == At(s, s.current)

SetCurrent(s) == [s EXCEPT !.current = IF Size(s) > 0 THEN s.currentIndex ELSE -1]

Clear(s) ==
  [s EXCEPT !.entries = <<>>, !.current = -1, !.currentIndex = 0,
            !.offset = [v \in DOMAIN @ |-> 0]]

\* Folders before files, each by name.
Sorted(nodes) == SetToSortSeq(nodes, LAMBDA m, n : Rank[m] < Rank[n])
Listing(s) ==
  LET of(kind) == Sorted({n \in kind : Up[n] = Cwd(s)})
      entry(n) == Entry(n, n \in s.protected)
  IN  <<Entry(DotDot, FALSE)>> \o [i \in DOMAIN of(Folders) |-> entry(of(Folders)[i])]
                               \o [i \in DOMAIN of(Files) |-> entry(of(Files)[i])]

Refilled(s) ==
  IF s.displayingDevices
  THEN [Clear(s) EXCEPT !.entries = [i \in DOMAIN Drives |-> Entry(Drives[i], FALSE)]]
  ELSE IF Readable(s) THEN SetCurrent([Clear(s) EXCEPT !.entries = Listing(s)])
  ELSE Clear(s)

\* Mutant of RefreshFolderEntries: what was in the caddy stays in it.
RefreshKeepsCaddy(s) == Refilled(s)

RefreshFolderEntries(s) == [Refilled(s) EXCEPT !.caddy = <<>>]

\* The offset a view is drawn with.  The difference is unsigned, so that an
\* entry above the window is as far out of it as one below.
Visible(s, v) ==
  IF (s.currentIndex - s.offset[v]) \in 0 .. Rows[v] - 1 THEN s.offset[v]
  ELSE IF s.currentIndex - Rows[v] + 1 < 0 THEN 0
  ELSE s.currentIndex - Rows[v] + 1

RefeshDisplay(s) ==
  [s EXCEPT !.offset = [v \in DOMAIN Rows |-> Visible(s, v)],
            !.shown = [entries |-> s.entries, index |-> s.currentIndex]]

-----------------------------------------------------------------------------
(* Moving the highlight. *)

LastIndex(s) == Size(s) - 1
Goto(s, i) == SetCurrent([s EXCEPT !.currentIndex = i])

Down(s, v, pageOnly) ==
  IF s.currentIndex < LastIndex(s)
  THEN LET moved == IF pageOnly THEN s ELSE Goto(s, s.currentIndex + 1)
       IN  IF moved.currentIndex >= s.offset[v] + Rows[v]
           THEN [moved EXCEPT !.offset[v] = @ + 1] ELSE moved
  ELSE IF pageOnly THEN s ELSE Goto(s, 0)

UpOne(s, v, pageOnly) ==
  IF s.currentIndex > 0
  THEN LET moved == IF pageOnly THEN s ELSE Goto(s, s.currentIndex - 1)
       IN  IF s.offset[v] > 0 /\ moved.currentIndex < s.offset[v]
           THEN [moved EXCEPT !.offset[v] = @ - 1] ELSE moved
  ELSE IF pageOnly THEN s ELSE Goto(s, LastIndex(s))

PageDown(s, v) ==
  LET top == IF s.currentIndex = s.offset[v] + Rows[v] - 1
             THEN s.currentIndex ELSE s.offset[v]
      bottom == top + Rows[v] - 1
  IN  Goto([s EXCEPT !.offset[v] = top], IF bottom > LastIndex(s) THEN LastIndex(s) ELSE bottom)

PageUp(s, v) ==
  LET above == IF s.currentIndex < Rows[v] THEN 0 ELSE s.currentIndex - Rows[v]
      top == IF s.currentIndex = s.offset[v] THEN above ELSE s.offset[v]
  IN  Goto([s EXCEPT !.offset[v] = top], top)

\* BrowsableListView::CheckBrowseNavigation; the page keys are the one view's
\* or the other's.
Paged(s, flags, v) ==
  LET down == IF "pageDown" \in flags THEN PageDown(s, v) ELSE s
  IN  IF "pageUp" \in flags THEN PageUp(down, v) ELSE down

Stepped(s, flags, v) ==
  LET down == IF "down" \in flags THEN Down(s, v, v # 1) ELSE s
  IN  IF "up" \in flags THEN UpOne(down, v, v # 1) ELSE down

Navigate(s, flags, v) ==
  Paged(Stepped(s, flags, v), IF (v = 2) <=> LcdPaging THEN flags ELSE {}, v)

Found(s, i) == IF i = 0 THEN s ELSE Goto(s, i)

\* The highlight goes to the next entry whose name starts with what has been
\* typed, but never to the first: 0 stands for not found.
Search(s, letter) ==
  LET typed == IF Len(s.typed) < PrefixSize THEN Append(s.typed, letter) ELSE s.typed
      hits == {i \in 0 .. LastIndex(s) : IsPrefix(typed, NameOf[At(s, i).node])}
      later == {i \in hits : i > s.currentIndex}
  IN  Found([s EXCEPT !.typed = typed],
            IF later # {} THEN Min(later) ELSE IF hits # {} THEN Min(hits) ELSE 0)

\* Half a second after the last letter the next one starts anew.
Quiet(s, flags, late) ==
  LET w == IF late THEN [s EXCEPT !.typed = <<>>] ELSE s
  IN  IF "home" \in flags THEN Goto(w, 0)
      ELSE IF "end" \in flags THEN Goto(w, LastIndex(w)) ELSE w

Searched(s, flags, late) ==
  IF flags \intersect Letters # {}
  THEN Search(s, CHOOSE l \in flags \intersect Letters : TRUE)
  ELSE Quiet(s, flags, late)

RedrawnIf(Dirty(_), s) == IF Dirty(s) THEN RefeshDisplay(s) ELSE s

CheckBrowseNavigation(s, flags, late) ==
  IF Size(s) = 0 THEN s
  ELSE RedrawnIf(LAMBDA moved : flags \ Letters # {} \/ late \/ moved # s,
         Searched(Navigate(Navigate(s, flags, 1), IF Len(Rows) = 1 THEN {} ELSE flags, 2),
                  flags, late))

-----------------------------------------------------------------------------
(* Folders. *)

RootNumber(s) == CHOOSE i \in 0 .. Len(Drives) - 1 : Drives[i + 1] = s.vol

\* The highlight is put on the folder that was left.
Reselected(s, left) ==
  LET hits == {i \in 0 .. LastIndex(s) : NameOf[At(s, i).node] = NameOf[left]}
  IN  IF hits = {} \/ Min(hits) = 0 THEN s ELSE Goto(s, Min(hits))

PopFolder(s) ==
  IF ~CwdKnown(s) THEN s
  ELSE IF Cwd(s) \in Roots
  THEN RefeshDisplay(SetCurrent([RefreshFolderEntries([s EXCEPT !.displayingDevices = TRUE])
                                 EXCEPT !.currentIndex = RootNumber(s)]))
  ELSE RefeshDisplay(Reselected(RefreshFolderEntries(Chdir(s, Up[Cwd(s)])), Cwd(s)))

-----------------------------------------------------------------------------
(* Choosing an image. *)

NoChoice == [made |-> FALSE, folder |-> None, name |-> <<>>, rdo |-> FALSE]

ClearSelections(s) ==
  [s EXCEPT !.choice = NoChoice, !.caddy = <<>>,
            !.entries = [i \in DOMAIN @ |-> [@[i] EXCEPT !.caddyIndex = -1]]]

AddImageToCaddy(s, i) ==
  LET e == At(s, i)
  IN  IF IsDir(e.node) \/ \E k \in DOMAIN s.caddy : NameOf[s.caddy[k].node] = NameOf[e.node]
      THEN s
      ELSE LET marked == [e EXCEPT !.caddyIndex = Len(s.caddy)]
           IN  [s EXCEPT !.entries[i + 1] = marked, !.caddy = Append(@, marked)]

AtLast(s) == SetCurrent([s EXCEPT !.currentIndex = IF Size(s) = 0 THEN 0 ELSE LastIndex(s)])

\* One image, or all those of a folder, which is entered for it.
AddToCaddy(s) ==
  LET node == Current(s).node
      inside == RefreshFolderEntries(IF node \in Roots THEN s ELSE Chdir(s, node))
  IN  IF ~IsDir(node) THEN AddImageToCaddy(s, s.current)
      ELSE IF node = DotDot THEN s
      ELSE RefeshDisplay(AtLast(
             FoldLeft(AddImageToCaddy, inside, [i \in 1 .. Size(inside) |-> i - 1])))

\* The first image of the caddy is the one that is mounted.
FillCaddyWithSelections(s) ==
  IF s.caddy = <<>> THEN [s EXCEPT !.choice.made = FALSE]
  ELSE [s EXCEPT !.choice = [made |-> TRUE, folder |-> Cwd(s),
                             name |-> NameOf[s.caddy[1].node], rdo |-> s.caddy[1].rdo],
                 !.caddy = <<>>]

AutoMount(s) ==
  LET hits == {i \in 0 .. LastIndex(s) : NameOf[At(s, i).node] = AutoImage}
  IN  IF hits = {} THEN s
      ELSE FillCaddyWithSelections([ClearSelections(s) EXCEPT !.caddy = <<At(s, Min(hits))>>])

SelectAutoMountImage(s) == AutoMount(RefreshFolderEntries(ChangeToImageFolder(s)))

-----------------------------------------------------------------------------
(* A pass of the loop. *)

Select(s) ==
  LET node == Current(s).node
  IN  IF s.current = -1 THEN s
      ELSE RefeshDisplay(
        IF s.displayingDevices
        THEN RefreshFolderEntries([s EXCEPT !.vol = node, !.displayingDevices = FALSE])
        ELSE IF node = DotDot THEN PopFolder(s)
        ELSE IF IsDir(node) THEN RefreshFolderEntries(Chdir(s, node))
        ELSE FillCaddyWithSelections(AddToCaddy(s)))

Insert(s) ==
  IF s.current = -1 THEN s
  ELSE RedrawnIf(LAMBDA added : added.caddy # s.caddy, AddToCaddy(s))

WriteProtect(s) ==
  IF s.current = -1 THEN s
  ELSE LET e == Current(s)
       IN  RefeshDisplay([Chmod(s, e.node, ~e.rdo)
                          EXCEPT !.entries[s.current + 1].rdo = ~e.rdo])

\* Mutant of UpdateInputFolders: after ENTER the list is not drawn again.
UpdateInputFoldersUndrawn(s, flags, late) ==
  CASE "enter" \in flags -> [Select(s) EXCEPT !.shown = s.shown]
    [] "space" \in flags -> FillCaddyWithSelections(s)
    [] "back" \in flags -> RefeshDisplay(PopFolder(s))
    [] "esc" \in flags -> RefeshDisplay(ClearSelections(s))
    [] "insert" \in flags -> Insert(s)
    [] "protect" \in flags -> WriteProtect(s)
    [] "autoload" \in flags -> SelectAutoMountImage(s)
    [] OTHER -> CheckBrowseNavigation(s, flags, late)

UpdateInputFolders(s, flags, late) ==
  CASE "enter" \in flags -> Select(s)
    [] "space" \in flags -> FillCaddyWithSelections(s)
    [] "back" \in flags -> RefeshDisplay(PopFolder(s))
    [] "esc" \in flags -> RefeshDisplay(ClearSelections(s))
    [] "insert" \in flags -> Insert(s)
    [] "protect" \in flags -> WriteProtect(s)
    [] "autoload" \in flags -> SelectAutoMountImage(s)
    [] OTHER -> CheckBrowseNavigation(s, flags, late)

Keys == {"enter", "space", "back", "esc", "insert", "protect", "autoload", "up",
         "down", "pageUp", "pageDown", "home", "end"} \union Letters
AtMostOne(S) == {{}} \union {{x} : x \in S}

\* The file a path leads to.
Opened(s) ==
  LET hits == {f \in Files : Up[f] = s.choice.folder /\ NameOf[f] = s.choice.name}
  IN  IF hits = {} \/ ~Readable(s) THEN None ELSE CHOOSE f \in hits : TRUE

BeginEmulating(s) ==
  \/ /\ Opened(s) # None
     /\ emulating' = [image |-> Opened(s), readOnly |-> s.choice.rdo \/ Opened(s) \in s.protected]
     /\ b' = s
  \/ /\ Opened(s) = None
     /\ b' = ClearSelections(s)
     /\ UNCHANGED emulating

GoesOn(s, pressed) ==
  /\ Cardinality(s.protected) <= MaxProtected
  /\ Len(SelectSeq(s.entries, LAMBDA e : e.rdo)) <= MaxProtected
  /\ \/ /\ s.choice.made
        /\ BeginEmulating(s)
        /\ buttonFlags' = {}
     \/ /\ ~s.choice.made
        /\ b' = s
        /\ buttonFlags' = pressed
        /\ UNCHANGED emulating

\* FileBrowser::Update and what the loop makes of it.  The buttons are only
\* looked at when the keyboard has nothing; until then their flags are those
\* of an earlier pass.
Pass(keys, buttons, late) ==
  LET pressed == IF keys = {} THEN buttons ELSE buttonFlags
      flags == keys \union pressed
  IN  /\ ~Emulating
      /\ keys = {} \/ buttons = {}
      /\ late => b.typed # <<>> /\ keys = {}
      /\ GoesOn(IF flags = {} /\ b.typed = <<>> THEN b ELSE UpdateInputFolders(b, flags, late),
                pressed)
      /\ UNCHANGED pulls

\* After EXIT and Escape the browser stays where it was.
CheckAutoMountImage(s, autoload) == IF autoload THEN SelectAutoMountImage(s) ELSE s

\* The loop is entered anew after an emulation, and with AUTOLOAD it mounts.
EmulationEnds(autoload) ==
  LET redrawn == RefeshDisplay(ClearSelections(b))
  IN  /\ Emulating
      /\ emulating' = Nothing
      /\ b' = CheckAutoMountImage(redrawn, autoload)
      /\ buttonFlags' = {}
      /\ UNCHANGED pulls

\* The card or stick in use is pulled out, and put back.
Pull ==
  /\ Readable(b)
  /\ pulls < MaxPulls
  /\ pulls' = pulls + 1
  /\ b' = [b EXCEPT !.gone = @ \union {b.vol}]
  /\ UNCHANGED <<buttonFlags, emulating>>

PutBack ==
  /\ b.gone # {}
  /\ b' = [b EXCEPT !.gone = {}]
  /\ UNCHANGED <<buttonFlags, emulating, pulls>>

\* The constructor of FileBrowser, and the loop's first lines.
Started(drive) ==
  LET new == [vol |-> drive, cwd |-> [r \in Roots |-> r], gone |-> {}, protected |-> {},
              displayingDevices |-> FALSE, entries |-> <<>>, current |-> -1,
              currentIndex |-> 0, offset |-> [v \in DOMAIN Rows |-> 0], caddy |-> <<>>,
              typed |-> <<>>, choice |-> NoChoice,
              shown |-> [entries |-> <<>>, index |-> 0]]
      opened == RefreshFolderEntries(ChangeToImageFolder(ChangeToImageFolder(new)))
  IN  CheckAutoMountImage(RefeshDisplay(ClearSelections(opened)), TRUE)

\* The volume is the stick's when there is one.
Init ==
  /\ \E drive \in Roots : b = Started(drive)
  /\ buttonFlags = {}
  /\ emulating = Nothing
  /\ pulls = 0

Next ==
  \/ \E keys \in AtMostOne(Keys), buttons \in AtMostOne(Buttons), late \in BOOLEAN :
       Pass(keys, buttons, late)
  \/ \E autoload \in BOOLEAN : EmulationEnds(autoload)
  \/ Pull
  \/ PutBack

Spec == Init /\ [][Next]_vars

-----------------------------------------------------------------------------
(* Properties. *)

\* The highlight is an entry of the list, when it has any, and each view is
\* scrolled to where it can be seen, whichever view moved it.
CursorIsOnScreen ==
  /\ b.currentIndex \in 0 .. LastIndex(b) \/ b.currentIndex = 0
  /\ b.current \in -1 .. LastIndex(b)
  /\ \A v \in DOMAIN Rows : b.currentIndex - b.offset[v] \in 0 .. Rows[v] - 1

\* The screen shows the list as it is, and what ENTER acts on, if it does act,
\* is highlighted.
WhatIsSeen(entries) == [i \in DOMAIN entries |-> <<entries[i].node, entries[i].rdo>>]
Shown ==
  /\ WhatIsSeen(b.shown.entries) = WhatIsSeen(b.entries)
  /\ Size(b) > 0 => b.shown.index = b.currentIndex /\ b.current \in {-1, b.currentIndex}

\* Whatever is pressed, also two things at once and after a card was pulled,
\* the screen goes on showing the list: only an AUTOLOAD that does not find
\* its image changes the folder behind it.
ListIsShown ==
  [][Shown => Shown' \/ Pass({"autoload"}, {}, FALSE) \/ EmulationEnds(TRUE)]_vars

\* What is mounted is the file that was picked first, or else the one that is
\* highlighted on the screen, or the one AutoMountImage names, in the folder
\* it was picked in, though only its name is kept; and one the screen shows as
\* protected is mounted read only.
Highlighted == b.shown.entries[b.shown.index + 1]
AutoMounted ==
  /\ NameOf[emulating'.image] = AutoImage
  /\ Up[emulating'.image] = ImageFolder[b.vol]
MountIsWhatWasChosen ==
  [][~Emulating /\ Emulating' =>
      \/ AutoMounted
      \/ b.caddy # <<>> /\ emulating'.image = b.caddy[1].node
      \/ /\ b.caddy = <<>>
         /\ Shown => /\ emulating'.image = Highlighted.node
                     /\ Highlighted.rdo => emulating'.readOnly]_vars

\* The entries that are marked are the images in the caddy, in their order.
MarksAreTheCaddy ==
  ~Emulating /\ ~b.choice.made =>
    /\ \A i \in DOMAIN b.entries :
         LET k == b.entries[i].caddyIndex + 1
         IN  k # 0 => k \in DOMAIN b.caddy /\ b.caddy[k].node = b.entries[i].node
    /\ \A k \in DOMAIN b.caddy : \E i \in DOMAIN b.entries :
         b.entries[i].caddyIndex + 1 = k

\* BACK leads to the folder above with the highlight on the folder it left, and
\* from a root to the drives with the highlight on the drive.
BackGoesUp ==
  [][Pass({"back"}, {}, FALSE) /\ buttonFlags = {} /\ Readable(b) /\ ~b.displayingDevices =>
      /\ Cwd(b)' = IF Cwd(b) \in Roots THEN Cwd(b) ELSE Up[Cwd(b)]
      /\ b'.displayingDevices <=> Cwd(b) \in Roots
      /\ Current(b)'.node = Cwd(b)]_vars

\* The list on the screen is the folder that is open, with the marks of the caddy.
ScreenIsTrue == []CursorIsOnScreen /\ []MarksAreTheCaddy /\ ListIsShown /\ BackGoesUp
============================================================================
