-------------------------------- MODULE Columns --------------------------------
(***************************************************************************)
(* The columns of a BColumnListView and its title (ColumnListView.cpp,     *)
(* BColumnListView and TitleView): which there are and in what order,      *)
(* their widths, which the rows are sorted by, what the mouse does with    *)
(* them, and the state that an application saves and loads again.          *)
(***************************************************************************)
EXTENDS Integers, Sequences, FiniteSets, SequencesExt

CONSTANTS
  AllColumns,          \* the columns of the application, each with a field of its own
  MinWidth, MaxWidth,  \* of every column
  Messages             \* what SaveState may have written in an earlier run of the application

VARIABLES
  columns,    \* fColumns
  column,     \* [visible, width, ascending] of each
  sortBy,     \* [enabled, columns]: fSortingEnabled, fSortColumns
  title,      \* [state, selected]: fCurrentState, fSelectedColumn
  added,      \* history: the columns added and not removed
  forgotten   \* history: the parts of the state the code lost track of

columnVars == <<columns, column, sortBy, title, added, forgotten>>

NoColumn == "none"

\* SaveState: the message it makes.
Archived ==
  [columns |-> [i \in DOMAIN columns |->
                  [id |-> columns[i], width |-> column[columns[i]].width,
                   visible |-> column[columns[i]].visible]],
   enabled |-> sortBy.enabled,
   sortBy  |-> [i \in DOMAIN sortBy.columns |->
                  [id |-> sortBy.columns[i], ascending |-> column[sortBy.columns[i]].ascending]]]

Init ==
  /\ columns = <<>>
  /\ column = [c \in AllColumns |-> [visible |-> TRUE, width |-> MinWidth, ascending |-> TRUE]]
  /\ sortBy = [enabled |-> TRUE, columns |-> <<>>]
  /\ title = [state |-> "INACTIVE", selected |-> NoColumn]
  /\ added = {} /\ forgotten = {}

(***************************************************************************)
(* What the application does.                                              *)
(***************************************************************************)
\* AddColumn: a width is made to fit; a column that was removed is still hidden.
AddColumn(c) ==
  /\ c \notin added
  /\ columns' = Append(columns, c)
  /\ added' = added \cup {c}
  /\ column' = [column EXCEPT ![c].width = IF @ < MinWidth THEN MinWidth
                                           ELSE IF @ > MaxWidth THEN MaxWidth ELSE @]
  /\ UNCHANGED <<sortBy, title, forgotten>>

\* RemoveColumn: the column stays one that is sorted by, and the one the mouse has hold of.
RemoveColumn(c) ==
  /\ c \in ToSet(columns)
  /\ columns' = SelectSeq(columns, LAMBDA d : d # c)
  /\ column' = [column EXCEPT ![c].visible = FALSE]
  /\ added' = added \ {c}
  /\ forgotten' = forgotten \cup (IF c \in ToSet(sortBy.columns) THEN {"sort"} ELSE {})
                            \cup (IF title.state # "INACTIVE" /\ title.selected = c THEN {"mouse"} ELSE {})
  /\ UNCHANGED <<sortBy, title>>

\* SetVisible, also from the menu of the title (kToggleColumn).
SetVisible(c) ==
  /\ c \in ToSet(columns)
  /\ column' = [column EXCEPT ![c].visible = ~@]
  /\ UNCHANGED <<columns, sortBy, title, added, forgotten>>

\* MoveColumn: an index past the end of the list loses the column.
Moved(list, c, index) ==
  LET rest == SelectSeq(list, LAMBDA d : d # c)
  IN IF index = -1 THEN Append(rest, c)
     ELSE IF index > Len(rest) THEN rest ELSE InsertAt(rest, index + 1, c)

MoveColumn(c, index) ==
  /\ c \in ToSet(columns) /\ index < Len(columns)
  /\ columns' = Moved(columns, c, index)
  /\ UNCHANGED <<column, sortBy, title, added, forgotten>>

SetSortingEnabled ==
  /\ sortBy' = [enabled |-> ~sortBy.enabled, columns |-> <<>>]
  /\ UNCHANGED <<columns, column, title, added, forgotten>>

\* SetSortColumn.
SortedBy(by, c, adds) ==
  IF ~by.enabled THEN by
  ELSE LET kept == IF adds THEN by.columns ELSE <<>>
       IN [by EXCEPT !.columns = IF c \in ToSet(kept) THEN kept ELSE Append(kept, c)]

SetSortColumn(c, adds, ascending) ==
  /\ c \in ToSet(columns) /\ sortBy.enabled
  /\ sortBy' = SortedBy(sortBy, c, adds)
  /\ column' = [column EXCEPT ![c].ascending = ascending]
  /\ UNCHANGED <<columns, title, added, forgotten>>

(***************************************************************************)
(* LoadState, on the list s == [columns, column, sortBy], moves each       *)
(* column that the message m names to the place it is named at, and then   *)
(* sorts by the columns that were sorted by, in their order.               *)
(***************************************************************************)
ColumnLoaded_OneTooFar(m, s, i) ==
  LET e == m.columns[i]
  IN IF e.id \notin ToSet(s.columns) THEN s
     ELSE [s EXCEPT !.columns = Moved(@, e.id, i),
                    !.column[e.id].width = e.width, !.column[e.id].visible = e.visible]
ColumnLoaded(m, s, i) ==
  LET e == m.columns[i]
  IN IF e.id \notin ToSet(s.columns) THEN s
     ELSE [s EXCEPT !.columns = Moved(@, e.id, i - 1),
                    !.column[e.id].width = e.width, !.column[e.id].visible = e.visible]

SortLoaded(s, f) ==
  IF f.id \notin ToSet(s.columns) \/ ~s.sortBy.enabled THEN s
  ELSE [s EXCEPT !.sortBy = SortedBy(@, f.id, TRUE), !.column[f.id].ascending = f.ascending]

Loaded(m, s) ==
  LET placed == FoldLeftDomain(LAMBDA l, i : ColumnLoaded(m, l, i), s, m.columns)
  IN FoldLeft(SortLoaded, [placed EXCEPT !.sortBy = [enabled |-> m.enabled, columns |-> <<>>]], m.sortBy)

\* A message that names columns of the list only, each once, and one that has good widths.
Fits(m, list) ==
  LET ids == [i \in DOMAIN m.columns |-> m.columns[i].id]
  IN IsInjective(ids) /\ ToSet(ids) \subseteq ToSet(list)
HasGoodWidths(m) == \A i \in DOMAIN m.columns : m.columns[i].width \in MinWidth .. MaxWidth

\* A column that is named twice, or behind one that is not there, may be lost; no width is made
\* to fit.
LoadState(m) ==
  \E s \in {Loaded(m, [columns |-> columns, column |-> column, sortBy |-> sortBy])} :
    /\ columns' = s.columns /\ column' = s.column /\ sortBy' = s.sortBy
    /\ forgotten' = forgotten \cup (IF Fits(m, columns) \/ Len(s.columns) = Len(columns) THEN {} ELSE {"column"})
                              \cup (IF HasGoodWidths(m) THEN {} ELSE {"width"})
    /\ UNCHANGED <<title, added>>

(***************************************************************************)
(* What the user does with the mouse.                                      *)
(***************************************************************************)
\* MouseDown at the edge of a column's title, or on it.
MouseDown(c, state) ==
  /\ title.state = "INACTIVE"
  /\ c \in ToSet(columns) /\ column[c].visible
  /\ title' = [state |-> state, selected |-> c]
  /\ UNCHANGED <<columns, column, sortBy, added, forgotten>>

\* ResizeSelectedColumn, to a place so far from the column's left edge.
WidthAt(x) == IF x > MaxWidth THEN MaxWidth ELSE IF x < MinWidth THEN MinWidth ELSE x - 1

\* MouseMoved and MouseUp while the edge is held; the second of two clicks resizes as well.
Resize ==
  /\ title.state = "RESIZING_COLUMN"
  /\ \/ \E x \in MinWidth - 1 .. MaxWidth + 1, state \in {"RESIZING_COLUMN", "INACTIVE"} :
          /\ column' = [column EXCEPT ![title.selected].width = WidthAt(x)]
          /\ title' = [title EXCEPT !.state = state]
          /\ forgotten' = IF x = MinWidth THEN forgotten \cup {"width"} ELSE forgotten
     \/ \E preferred \in MinWidth .. MaxWidth :
          /\ column' = [column EXCEPT ![title.selected].width = preferred]
          /\ title' = [title EXCEPT !.state = "INACTIVE"]
          /\ UNCHANGED forgotten
  /\ UNCHANGED <<columns, sortBy, added>>

\* MouseMoved: a title that is dragged hides its column while it is outside of the view.
Drag ==
  \/ /\ title.state = "PRESSING_COLUMN"
     /\ title' = [title EXCEPT !.state = "DRAG_COLUMN_INSIDE_TITLE"]
     /\ UNCHANGED <<columns, column>>
  \/ /\ title.state \in {"PRESSING_COLUMN", "DRAG_COLUMN_INSIDE_TITLE"}
     /\ title' = [title EXCEPT !.state = "DRAG_COLUMN_OUTSIDE_TITLE"]
     /\ column' = [column EXCEPT ![title.selected].visible = FALSE]
     /\ UNCHANGED columns
  \/ /\ title.state \in {"DRAG_COLUMN_INSIDE_TITLE", "DRAG_COLUMN_OUTSIDE_TITLE"}
     /\ title.selected \in ToSet(columns)
     /\ title' = [title EXCEPT !.state = "DRAG_COLUMN_INSIDE_TITLE"]
     /\ \E index \in 0 .. Len(columns) - 1 : columns' = Moved(columns, title.selected, index)
     /\ column' = [column EXCEPT ![title.selected].visible = TRUE]

DragColumn == Drag /\ UNCHANGED <<sortBy, added, forgotten>>

\* MouseUp on a title sorts by its column: by it alone unless Control is held; again by the
\* same, the other way round.
Clicked(c, ctrl) ==
  IF c \in ToSet(sortBy.columns) /\ (ctrl \/ Len(sortBy.columns) = 1) THEN sortBy
  ELSE IF c \notin ToSet(sortBy.columns) /\ ctrl
       THEN [sortBy EXCEPT !.columns = Append(@, c)]
       ELSE [sortBy EXCEPT !.columns = <<c>>]

MouseUp ==
  /\ title.state \notin {"INACTIVE", "RESIZING_COLUMN"}
  /\ title' = [title EXCEPT !.state = "INACTIVE"]
  /\ IF title.state = "PRESSING_COLUMN" /\ sortBy.enabled
     THEN /\ \E ctrl \in BOOLEAN : sortBy' = Clicked(title.selected, ctrl)
          /\ column' = [column EXCEPT ![title.selected].ascending =
                          IF title.selected \in ToSet(sortBy.columns) THEN ~@ ELSE TRUE]
          /\ forgotten' = IF title.selected \in ToSet(columns) THEN forgotten ELSE forgotten \cup {"sort"}
     ELSE UNCHANGED <<sortBy, column, forgotten>>
  /\ UNCHANGED <<columns, added>>

Step ==
  \/ \E c \in AllColumns :
       \/ AddColumn(c) \/ RemoveColumn(c) \/ SetVisible(c)
       \/ \E index \in -1 .. Cardinality(AllColumns) : MoveColumn(c, index)
       \/ \E adds, ascending \in BOOLEAN : SetSortColumn(c, adds, ascending)
       \/ \E state \in {"RESIZING_COLUMN", "PRESSING_COLUMN"} : MouseDown(c, state)
  \/ SetSortingEnabled \/ (\E m \in Messages : LoadState(m))
  \/ Resize \/ DragColumn \/ MouseUp

Next == forgotten = {} /\ Step

Spec == Init /\ [][Next]_columnVars

(***************************************************************************)
(* Properties.                                                             *)
(***************************************************************************)
TypeOK ==
  /\ columns \in Seq(AllColumns) /\ added \subseteq AllColumns
  /\ \A c \in AllColumns : column[c].width \in Int
  /\ sortBy.columns \in Seq(AllColumns) /\ title.selected \in AllColumns \cup {NoColumn}

\* No column is lost or doubled, however it is moved, dragged or loaded from a message that
\* fits; those that are sorted by and those the mouse has hold of are among them.
ColumnsAreKept ==
  /\ "column" \in forgotten \/ (ToSet(columns) = added /\ Len(columns) = Cardinality(added))
  /\ "sort" \in forgotten \/ ToSet(sortBy.columns) \subseteq added
  /\ IsInjective(columns) /\ IsInjective(sortBy.columns)
  /\ "mouse" \in forgotten \/ title.state = "INACTIVE" \/ title.selected \in added
  /\ "width" \in forgotten \/ \A c \in added : column[c].width \in MinWidth .. MaxWidth

\* The lists that a later run of the application may have when it loads what is saved now: the
\* same columns in any order and shape, sorted by any one of them, by none or not at all.
LaterLists ==
  [columns : SetToSeqs(added),
   column  : [AllColumns -> [visible : BOOLEAN, width : {MinWidth}, ascending : BOOLEAN]],
   sortBy  : [enabled : BOOLEAN, columns : {<<>>}] \cup [enabled : {TRUE}, columns : {<<c>> : c \in added}]]

\* What SaveState writes, LoadState brings back in any of them: the order, the widths, what is
\* hidden, and the order of the rows.
StateRoundTrips ==
  forgotten \subseteq {"width"} =>
    \A s \in LaterLists :
      \E l \in {Loaded(Archived, s)} :
        /\ l.columns = columns /\ l.sortBy = sortBy
        /\ \A c \in added : l.column[c].width = column[c].width /\ l.column[c].visible = column[c].visible
        /\ \A c \in ToSet(sortBy.columns) : l.column[c].ascending = column[c].ascending
================================================================================
