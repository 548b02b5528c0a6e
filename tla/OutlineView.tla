------------------------------ MODULE OutlineView ------------------------------
(***************************************************************************)
(* The rows of a BColumnListView: the outline with its open and closed     *)
(* rows, the selection, the row with the focus, what the mouse has hold    *)
(* of, and the thread that sorts (ColumnListView.cpp, OutlineView).        *)
(*                                                                         *)
(* The window's lock makes each method a step.  The sorting thread gives   *)
(* the lock up after each list that is on the screen, so methods run       *)
(* between its steps; StartSorting gives it up too while it waits for an   *)
(* earlier thread to end.  A row has one field to sort by, which may be    *)
(* set to any value before the row is added; all rows are one line high,   *)
(* and nothing is scrolled out of sight.                                   *)
(*                                                                         *)
(* Where the code loses track of a part of its state, `missed' names the   *)
(* part: the properties say that these are the only places where it does.  *)
(***************************************************************************)
EXTENDS Integers, Sequences, FiniteSets, SequencesExt

CONSTANTS
  Rows,       \* the rows an application adds and removes
  MayHold,    \* pairs <<parent, row>> it uses; it opens and closes such parents
  Values,     \* the values of the field
  Orders,     \* of the columns it sorts by: 1 ascending, -1 descending
  Modes,      \* of selection: "single", "multiple"
  UserActs,   \* whether there is a user with a mouse and a keyboard
  MaxMissed   \* a behaviour goes on until more than so many parts of the state are wrong

VARIABLES
  kids,       \* fRows, and the fChildList of each row
  expanded,   \* the rows with fIsExpanded
  itemsHeight,
  selection,  \* [mode, rows, first, last]: the list, fFirst- and fLastSelectedItem
  focus,      \* [row, line]: fFocusRow, and the line fFocusRowRect has it on
  mouse,      \* [held, down, field, target, state]: a button, fMouseDown, fCurrentRow, and
              \* fTargetRow (while it is of use) and fCurrentState
  sorting,    \* [enabled, order, value]: fSortingEnabled, fSortColumns (0: none), the fields
  sorter,     \* [at, stack, waiting, cancelled]: the thread, StartSorting, fSortCancelled
  missed

rowVars == <<kids, expanded, itemsHeight, selection, focus, mouse, sorting, sorter, missed>>

Root  == "root"
NoRow == "none"
Unset == CHOOSE v \in Values : TRUE    \* the field of a row that is not in the list

(***************************************************************************)
(* The outline.                                                            *)
(***************************************************************************)
\* The rows of the lists `held' of the rows in S and below them, through the rows in `through'.
Order(held, through) ==
  LET From[r \in Rows \cup {Root}] ==
        (IF r = Root THEN <<>> ELSE <<r>>) \o
        (IF r \in through \cup {Root}
         THEN FlattenSeq([i \in DOMAIN held[r] |-> From[held[r][i]]]) ELSE <<>>)
  IN From

Shown(held, open) == Order(held, open)[Root]
InTree  == UNION {ToSet(kids[p]) : p \in DOMAIN kids}
IsShown(r) == r \in ToSet(Shown(kids, expanded))
Below(r) == ToSet(Order(kids, Rows)[r]) \ {r}
OpenBelow(r, open) == Len(Order(kids, open \cup {r})[r]) - 1
Parent(r) == CHOOSE p \in DOMAIN kids : r \in ToSet(kids[p])
Line(lines, r) == CHOOSE i \in DOMAIN lines : lines[i] = r

\* FindRect: the line of the row with the focus, if it is shown.
Located(f, lines) ==
  IF f.row \in ToSet(lines) THEN [f EXCEPT !.line = Line(lines, f.row)] ELSE f
HasFocus(lines, r) == Located([row |-> r, line |-> focus.line], lines)

Init ==
  /\ kids = [r \in Rows \cup {Root} |-> <<>>]
  /\ expanded = {} /\ itemsHeight = 0
  /\ selection = [mode |-> "multiple", rows |-> {}, first |-> NoRow, last |-> NoRow]
  /\ focus = [row |-> NoRow, line |-> 0]
  /\ mouse = [held |-> FALSE, down |-> FALSE, field |-> NoRow, target |-> NoRow, state |-> "INACTIVE"]
  /\ sorting = [enabled |-> TRUE, order |-> 0, value |-> [r \in Rows |-> Unset]]
  /\ sorter = [at |-> "none", stack |-> <<>>, waiting |-> "no", cancelled |-> FALSE]
  /\ missed = {}

\* The window's thread has the lock.
Locked == sorter.at # "locked" /\ sorter.waiting = "no"

(***************************************************************************)
(* The order of a list.                                                    *)
(***************************************************************************)
\* CompareRows.
Compare(s, r, q) == s.order * (s.value[r] - s.value[q])

IsInOrder(s, list) == \A i \in 1 .. Len(list) - 1 : Compare(s, list[i], list[i + 1]) <= 0

\* SortList: an insertion sort (for fewer than nine rows), which keeps the order of equals.
SortList(s, list) ==
  FoldLeft(LAMBDA done, r :
             InsertAt(done, Cardinality({i \in DOMAIN done : Compare(s, r, done[i]) >= 0}) + 1, r),
           <<>>, list)

\* AddSorted: a binary search for the place of r.
AddSorted(s, list, r) ==
  LET Find[lower \in Int, upper \in Int] ==
        LET middle == lower + (upper - lower + 1) \div 2
            cmp    == Compare(s, r, list[middle + 1])
        IN CASE lower >= upper -> upper
             [] lower < upper /\ cmp < 0 -> Find[lower, middle - 1]
             [] lower < upper /\ cmp > 0 -> Find[middle + 1, upper]
             [] OTHER -> middle
      found == Find[0, Len(list) - 1]
      place == IF found < 0 THEN 0
               ELSE IF found < Len(list) /\ Compare(s, r, list[found + 1]) > 0 THEN found + 1
               ELSE found
  IN InsertAt(list, place + 1, r)

(***************************************************************************)
(* Rows come and go.                                                       *)
(***************************************************************************)
\* The row below which row is added makes the outline higher.
AddsHeight(p) == p = Root \/ p \in expanded

\* AddRow: the row starts without children; it is sorted in, or put anywhere when sorting is
\* off.  The line of the focus is looked up again only if it was after the new row's.
AddRow(r, p) ==
  /\ Locked
  /\ r \notin InTree /\ p \in InTree \cup {Root} /\ <<p, r>> \in MayHold
  /\ \E v \in Values :
     \E list \in IF sorting.enabled
                 THEN {AddSorted([sorting EXCEPT !.value[r] = v], kids[p], r)}
                 ELSE {InsertAt(kids[p], i, r) : i \in 1 .. Len(kids[p]) + 1} :
       LET lines == Shown([kids EXCEPT ![p] = list], expanded)
           isAbove == focus.row # NoRow /\ r \in ToSet(lines) /\ focus.line = Line(lines, r)
       IN /\ kids' = [kids EXCEPT ![p] = list]
          /\ sorting' = [sorting EXCEPT !.value[r] = v]
          /\ focus' = IF focus.row = NoRow \/ isAbove
                         \/ (r \in ToSet(lines) /\ focus.line < Line(lines, r))
                      THEN focus ELSE Located(focus, lines)
          /\ missed' = missed \cup
               (IF p # Root /\ p \in expanded /\ ~IsShown(p) THEN {"height"} ELSE {}) \cup
               (IF isAbove /\ focus.row \in ToSet(lines) THEN {"line"} ELSE {})
  /\ itemsHeight' = IF AddsHeight(p) THEN itemsHeight + 1 ELSE itemsHeight
  /\ UNCHANGED <<expanded, selection, mouse, sorter>>

\* The fields without those of the rows that leave.
Without(gone) == [sorting EXCEPT !.value = [r \in Rows |-> IF r \in gone THEN Unset ELSE @[r]]]

RemovedFocus_Kept(p, lines) == focus
\* The focus moves from a row that is gone to the parent of the one that was removed.
RemovedFocus(p, lines) ==
  IF focus.row = NoRow THEN focus
  ELSE IF focus.row \in ToSet(lines) THEN Located(focus, lines)
  ELSE HasFocus(lines, IF p = Root THEN NoRow ELSE p)

\* RemoveRow: the rows below leave the list too, but only the row itself leaves the selection,
\* and only the field under the mouse is forgotten.  A sorting thread may have the list, or a
\* place in it, on its stack.
RemoveRow(r) ==
  /\ Locked
  /\ r \in InTree
  /\ LET left == [q \in Rows \cup {Root} |-> IF q \in Below(r) \cup {r} THEN <<>>
                                            ELSE SelectSeq(kids[q], LAMBDA c : c # r)]
     IN /\ kids' = left
        /\ focus' = RemovedFocus(Parent(r), Shown(left, expanded))
  /\ itemsHeight' = itemsHeight - (IF ~IsShown(r) THEN 0
                                   ELSE IF r \in expanded THEN 1 + OpenBelow(r, expanded) ELSE 1)
  /\ selection' = [selection EXCEPT !.rows = @ \ {r}]
  /\ mouse' = [mouse EXCEPT !.field = NoRow]
  /\ sorting' = Without(Below(r) \cup {r})
  /\ missed' = missed \cup
       (IF selection.rows \cap Below(r) # {} THEN {"selection"} ELSE {}) \cup
       (IF mouse.down /\ mouse.field # NoRow THEN {"mouse"} ELSE {}) \cup
       (IF mouse.state # "INACTIVE" /\ mouse.target \in Below(r) \cup {r} THEN {"target"} ELSE {}) \cup
       (IF sorter.at # "none" THEN {"sort"} ELSE {})
  /\ UNCHANGED <<expanded, sorter>>

\* Clear deletes the rows; the row that had the focus still has it.
Clear ==
  /\ Locked
  /\ InTree # {}
  /\ kids' = [r \in Rows \cup {Root} |-> <<>>]
  /\ expanded' = expanded \ InTree
  /\ itemsHeight' = 0
  /\ selection' = [selection EXCEPT !.rows = {}]
  /\ sorting' = Without(InTree)
  /\ missed' = missed \cup
       (IF focus.row # NoRow THEN {"focus", "line"} ELSE {}) \cup
       (IF mouse.field # NoRow THEN {"mouse"} ELSE {}) \cup
       (IF mouse.state # "INACTIVE" THEN {"target"} ELSE {}) \cup
       (IF sorter.at # "none" THEN {"sort"} ELSE {})
  /\ UNCHANGED <<focus, mouse, sorter>>

\* UpdateRow: the list is sorted again if the row is out of order with its neighbours.
UpdateRow(r) ==
  /\ Locked
  /\ r \in InTree
  /\ \E v \in Values \ {sorting.value[r]} :
       LET s == [sorting EXCEPT !.value[r] = v]
           p == Parent(r)
           i == Line(kids[p], r)
           isMoved == \/ i > 1 /\ Compare(s, kids[p][i - 1], r) > 0
                      \/ i < Len(kids[p]) /\ Compare(s, kids[p][i + 1], r) < 0
           done == IF isMoved THEN [kids EXCEPT ![p] = SortList(s, @)] ELSE kids
       IN /\ sorting' = s
          /\ kids' = done
          /\ focus' = IF isMoved /\ (p = Root \/ (IsShown(p) /\ p \in expanded))
                      THEN Located(focus, Shown(done, expanded)) ELSE focus
          /\ missed' = IF isMoved /\ sorter.at # "none" THEN missed \cup {"sort"} ELSE missed
  /\ UNCHANGED <<expanded, itemsHeight, selection, mouse, sorter>>

(***************************************************************************)
(* Opening and closing.                                                    *)
(***************************************************************************)
\* ExpandOrCollapse: the focus moves to the row where it is not on a shown one.
Expanded(r, opens) ==
  LET open  == IF opens THEN expanded \cup {r} ELSE expanded \ {r}
      lines == Shown(kids, open)
  IN IF (r \in expanded) = opens THEN UNCHANGED <<expanded, itemsHeight, focus>>
     ELSE /\ expanded' = open
          /\ IF ~IsShown(r) THEN UNCHANGED <<itemsHeight, focus>>
             ELSE /\ itemsHeight' = IF opens THEN itemsHeight + OpenBelow(r, open)
                                    ELSE itemsHeight - OpenBelow(r, open)
                  /\ focus' = IF focus.row \in ToSet(lines) THEN Located(focus, lines)
                              ELSE HasFocus(lines, r)

ExpandOrCollapse(r) ==
  /\ Locked /\ r \in InTree /\ \E q \in Rows : <<r, q>> \in MayHold
  /\ \E opens \in BOOLEAN : (r \in expanded) # opens /\ Expanded(r, opens)
  /\ UNCHANGED <<kids, selection, mouse, sorting, sorter, missed>>

ToggleFocusRowOpen ==
  /\ Locked /\ UserActs
  /\ focus.row \in InTree
  /\ Expanded(focus.row, focus.row \notin expanded)
  /\ UNCHANGED <<kids, selection, mouse, sorting, sorter, missed>>

(***************************************************************************)
(* The selection.                                                          *)
(***************************************************************************)
Selected(sel, r) ==
  IF r \in sel THEN sel ELSE IF selection.mode = "single" THEN {r} ELSE sel \cup {r}

Toggled(sel, r) == IF r \in sel THEN sel \ {r} ELSE Selected(sel, r)

\* SelectRange: from one row to the other, in either direction, through closed rows as well;
\* to the end if the first is not there any more.
SelectRange(sel, from, to) ==
  LET order == Order(kids, Rows)[Root]
      i == IF from \in InTree THEN Line(order, from) ELSE Len(order)
      j == Line(order, to)
      lo == IF i < j THEN i ELSE j
      hi == IF i < j THEN j ELSE i
  IN IF from = NoRow \/ from = to THEN sel ELSE sel \cup {order[k] : k \in lo .. hi}

SetSelectionMode(m) ==
  /\ Locked /\ m # selection.mode
  /\ selection' = [selection EXCEPT !.mode = m, !.rows = {}]
  /\ UNCHANGED <<kids, expanded, itemsHeight, focus, mouse, sorting, sorter, missed>>

\* AddToSelection, Deselect, DeselectAll.
Select(r) ==
  /\ Locked /\ r \in InTree
  /\ \E sel \in {Selected(selection.rows, r), selection.rows \ {r}, {}} :
       sel # selection.rows /\ selection' = [selection EXCEPT !.rows = sel]
  /\ UNCHANGED <<kids, expanded, itemsHeight, focus, mouse, sorting, sorter, missed>>

\* SetFocusRow: it may be a row that is not shown.
SetFocusRow(r) ==
  /\ Locked /\ r \in InTree
  /\ \E selects \in BOOLEAN :
       selection' = IF selects THEN [selection EXCEPT !.rows = Selected(@, r)] ELSE selection
  /\ IF focus.row = r THEN UNCHANGED <<focus, mouse>>
     ELSE /\ focus' = HasFocus(Shown(kids, expanded), r)
          /\ mouse' = [mouse EXCEPT !.target = IF mouse.state = "INACTIVE" THEN NoRow ELSE r]
  /\ missed' = IF IsShown(r) THEN missed ELSE missed \cup {"line"}
  /\ UNCHANGED <<kids, expanded, itemsHeight, sorting, sorter>>

\* ChangeFocusRow, for the arrow keys: the row one line above or below the line the focus is
\* thought to be on.  MoveFocusToVisibleRect starts without a focus, from the first line.
ChangeFocusRow(starts) ==
  /\ Locked /\ UserActs
  /\ \E step \in {-1, 1}, updates, adds \in BOOLEAN :
       LET lines == Shown(kids, expanded)
           at    == IF starts \/ focus.row = NoRow THEN 1 ELSE focus.line + step
       IN IF at \notin DOMAIN lines
          THEN focus' = (IF starts THEN [focus EXCEPT !.row = NoRow] ELSE focus) /\ UNCHANGED selection
          ELSE /\ focus' = [row |-> lines[at], line |-> at]
               /\ selection' =
                    IF ~updates THEN selection
                    ELSE [selection EXCEPT
                           !.rows = (IF adds /\ selection.mode = "multiple" THEN @ ELSE {}) \cup {lines[at]},
                           !.last = lines[at]]
  /\ UNCHANGED <<kids, expanded, itemsHeight, mouse, sorting, sorter, missed>>

ToggleFocusRowSelection ==
  /\ Locked /\ UserActs
  /\ focus.row \in InTree
  /\ \E range \in BOOLEAN :
       selection' = [selection EXCEPT
         !.rows = IF range /\ selection.mode = "multiple"
                  THEN SelectRange(@, selection.last, focus.row) ELSE Toggled(@, focus.row),
         !.last = focus.row]
  /\ UNCHANGED <<kids, expanded, itemsHeight, focus, mouse, sorting, sorter, missed>>

(***************************************************************************)
(* The mouse.                                                              *)
(***************************************************************************)
\* What a click on a row selects.
Clicked(r, ctrl, shift) ==
  LET sel == IF ctrl THEN selection.rows ELSE {}
      ranges == shift /\ selection.first # NoRow /\ selection.mode = "multiple"
  IN [selection EXCEPT
        !.rows  = IF ranges THEN SelectRange(sel, selection.first, r) ELSE Toggled(sel, r),
        !.first = IF ranges THEN @ ELSE IF r \in sel THEN NoRow ELSE r,
        !.last  = r]

\* MouseDown on a row, on its latch or elsewhere, and on a field that wants events or not.
MouseDown(r) ==
  /\ Locked /\ UserActs
  /\ ~mouse.held /\ IsShown(r)
  /\ \E onField, onLatch, ctrl, shift \in BOOLEAN :
       LET field == IF onField THEN [mouse EXCEPT !.down = TRUE, !.field = r] ELSE mouse
       IN IF onLatch /\ kids[r] # <<>>
          THEN /\ mouse' = [field EXCEPT !.held = TRUE, !.target = r, !.state = "LATCH_CLICKED"]
               /\ focus' = Located(focus, Shown(kids, expanded))
               /\ UNCHANGED selection
          ELSE /\ mouse' = [field EXCEPT !.held = TRUE, !.target = r, !.state = "ROW_CLICKED"]
               /\ focus' = HasFocus(Shown(kids, expanded), r)
               /\ selection' = Clicked(r, ctrl, shift)
  /\ UNCHANGED <<kids, expanded, itemsHeight, sorting, sorter, missed>>

\* MouseDown below the last row.
MouseDownInOpenSpace ==
  /\ Locked /\ UserActs
  /\ focus.row # NoRow /\ ~mouse.held
  /\ focus' = [Located(focus, Shown(kids, expanded)) EXCEPT !.row = NoRow]
  /\ mouse' = [mouse EXCEPT !.held = TRUE]
  /\ UNCHANGED <<kids, expanded, itemsHeight, selection, sorting, sorter, missed>>

\* MouseMoved: the field under the mouse, unless a button went down on another.
MouseMoved ==
  /\ Locked /\ UserActs
  /\ \E over \in {r \in Rows : IsShown(r)} \cup {NoRow} :
       mouse' = [mouse EXCEPT !.field = IF mouse.down THEN @ ELSE over,
                              !.state = IF @ = "ROW_CLICKED" THEN "DRAGGING_ROWS" ELSE @]
  /\ UNCHANGED <<kids, expanded, itemsHeight, selection, focus, sorting, sorter, missed>>

MouseReleased == IF mouse.field # NoRow THEN [mouse EXCEPT !.down = FALSE] ELSE mouse

\* MouseUp, on the latch that was clicked or elsewhere.
MouseUp ==
  /\ Locked /\ UserActs
  /\ mouse.held
  /\ mouse' = [MouseReleased EXCEPT !.held = FALSE, !.state = "INACTIVE", !.target = NoRow]
  /\ \/ mouse.state = "LATCH_CLICKED" /\ mouse.target \in InTree
        /\ Expanded(mouse.target, mouse.target \notin expanded)
     \/ UNCHANGED <<expanded, itemsHeight, focus>>
  /\ UNCHANGED <<kids, selection, sorting, sorter, missed>>

(***************************************************************************)
(* Sorting.                                                                *)
(***************************************************************************)
SetSortingEnabled ==
  /\ Locked /\ Orders # {}
  /\ sorting' = [sorting EXCEPT !.enabled = ~@, !.order = 0]
  /\ UNCHANGED <<kids, expanded, itemsHeight, selection, focus, mouse, sorter, missed>>

Spawned == [at |-> "starting", stack |-> <<>>, waiting |-> "no", cancelled |-> FALSE]

StartSorting_Ignored == IF sorter.at = "none" THEN Spawned ELSE sorter
\* StartSorting: an earlier thread is cancelled and waited for, with the window unlocked.
StartSorting == IF sorter.at = "none" THEN Spawned ELSE [sorter EXCEPT !.waiting = "unlocked"]

SetSortColumn(o) ==
  /\ Locked
  /\ sorting.enabled
  /\ sorting' = [sorting EXCEPT !.order = o]
  /\ sorter' = StartSorting
  /\ UNCHANGED <<kids, expanded, itemsHeight, selection, focus, mouse, missed>>

CancelSorting ==
  /\ sorter.waiting = "unlocked"
  /\ sorter' = [sorter EXCEPT !.cancelled = TRUE, !.waiting = "cancelled"]
  /\ UNCHANGED <<kids, expanded, itemsHeight, selection, focus, mouse, sorting, missed>>

SortAgain ==
  /\ sorter.waiting = "cancelled" /\ sorter.at = "none"
  /\ sorter' = Spawned
  /\ UNCHANGED <<kids, expanded, itemsHeight, selection, focus, mouse, sorting, missed>>

\* DeepSort sorts the list of the entry on top, and gives up the lock if it is on the screen.
Sorts(stack) ==
  LET entry == stack[Len(stack)] IN
  /\ kids' = [kids EXCEPT ![entry.list] = SortList(sorting, @)]
  /\ sorter' = [sorter EXCEPT !.stack = stack,
                              !.at = IF entry.isVisible THEN "unlocked" ELSE "locked"]
  /\ focus' = Located(focus, Shown(kids', expanded))

Ended == sorter' = [sorter EXCEPT !.at = "none", !.stack = <<>>]

DeepSort ==
  /\ sorter.at = "starting"
  /\ IF sorter.cancelled THEN Ended /\ UNCHANGED <<kids, focus>>
     ELSE Sorts(<<[list |-> Root, index |-> 0, isVisible |-> TRUE]>>)
  /\ UNCHANGED <<expanded, itemsHeight, selection, mouse, sorting, missed>>

\* The rows of an entry's list that have a list and were not looked at.
ListsLeft(entry) ==
  {i \in entry.index + 1 .. Len(kids[entry.list]) : kids[kids[entry.list][i]] # <<>>}

Descended(entry, i) == [entry EXCEPT !.index = i]

\* The deepest entry that has a list left, and that list on top of it.
NextStack ==
  LET depth == CHOOSE d \in DOMAIN sorter.stack :
                 /\ ListsLeft(sorter.stack[d]) # {}
                 /\ \A e \in d + 1 .. Len(sorter.stack) : ListsLeft(sorter.stack[e]) = {}
      entry == sorter.stack[depth]
      i     == CHOOSE i \in ListsLeft(entry) : \A j \in ListsLeft(entry) : i <= j
      row   == kids[entry.list][i]
  IN Append([SubSeq(sorter.stack, 1, depth) EXCEPT ![depth] = Descended(entry, i)],
            [list |-> row, index |-> 0, isVisible |-> entry.isVisible /\ row \in expanded])

DeepSortNext ==
  /\ sorter.at \in {"locked", "unlocked"}
  /\ mouse' = [mouse EXCEPT !.state = "INACTIVE", !.target = NoRow]
  /\ IF sorter.cancelled \/ \A d \in DOMAIN sorter.stack : ListsLeft(sorter.stack[d]) = {}
     THEN Ended /\ focus' = Located(focus, Shown(kids, expanded)) /\ UNCHANGED kids
     ELSE Sorts(NextStack)
  /\ UNCHANGED <<expanded, itemsHeight, selection, sorting, missed>>

Step ==
  \/ \E r \in Rows : \/ \E p \in Rows \cup {Root} : AddRow(r, p)
                     \/ RemoveRow(r) \/ UpdateRow(r) \/ ExpandOrCollapse(r)
                     \/ (UserActs /\ (Select(r) \/ SetFocusRow(r))) \/ MouseDown(r)
  \/ \E m \in Modes : SetSelectionMode(m)
  \/ \E starts \in BOOLEAN : ChangeFocusRow(starts)
  \/ Clear \/ ToggleFocusRowOpen \/ ToggleFocusRowSelection
  \/ MouseDownInOpenSpace \/ MouseMoved \/ MouseUp
  \/ SetSortingEnabled \/ (\E o \in Orders : SetSortColumn(o))
  \/ CancelSorting \/ SortAgain \/ DeepSort \/ DeepSortNext

Next == Cardinality(missed) <= MaxMissed /\ Step

Spec == Init /\ [][Next]_rowVars

(***************************************************************************)
(* Properties.                                                             *)
(***************************************************************************)
TypeOK ==
  /\ kids \in [Rows \cup {Root} -> Seq(Rows)] /\ expanded \subseteq Rows /\ itemsHeight \in Int
  /\ selection.rows \subseteq Rows /\ focus.row \in Rows \cup {NoRow}
  /\ sorter.at \in {"none", "starting", "unlocked", "locked"}

\* The height of the outline, which the scroll bar shows, is that of the rows that are shown.
HeightIsExact == "height" \in missed \/ itemsHeight = Len(Shown(kids, expanded))

\* What is selected is in the outline, a single row where only one may be.
SelectionIsListed ==
  /\ "selection" \in missed \/ selection.rows \subseteq InTree
  /\ selection.mode = "single" => Cardinality(selection.rows) <= 1

\* The focus is on a row of the outline, on the line it was last drawn on.
FocusIsListed ==
  /\ "focus" \in missed \/ focus.row \in InTree \cup {NoRow}
  /\ missed \cap {"focus", "line"} # {} \/ focus.row = NoRow \/ ~IsShown(focus.row)
       \/ Shown(kids, expanded)[focus.line] = focus.row

\* What the mouse has hold of is there, and no button is thought to be down that is not.
MouseHoldsRows ==
  /\ "target" \in missed \/ mouse.state = "INACTIVE" \/ mouse.target \in InTree
  /\ "mouse" \in missed \/ (mouse.field \in InTree \cup {NoRow} /\ (mouse.down => mouse.held))

\* When no thread sorts, every list is sorted by the columns that were chosen last, whatever
\* was added in the meantime.
SortIsComplete ==
  \/ "sort" \in missed \/ sorter.at # "none" \/ sorter.waiting # "no"
  \/ \A p \in InTree \cup {Root} : IsInOrder(sorting, kids[p])
================================================================================
