------------------------------- MODULE Interface -------------------------------
(***************************************************************************)
(* The user interface: the list view of InterfaceKitEx with its rows       *)
(* (OutlineView) and its columns (Columns), the windows of Torrentor       *)
(* (Application), the requests of a client that is far away (Rpc), and the *)
(* values that they carry and that files keep (Bencode).                   *)
(*                                                                         *)
(* The parts share nothing but the calls of an application, which may come *)
(* in any order: a behaviour is one of the part that `part' names, and the *)
(* variables of the others are Absent.  OutlineView appears three times: a *)
(* list whose user moves about in it ("rows"), and two whose rows are      *)
(* sorted while they come and go, in every shape of three rows ("sorting") *)
(* and with a list of several below one of several rows ("nested").  Rpc   *)
(* appears twice: a torrent that is added, watched and removed over two    *)
(* connections ("rpc"), and all the methods, one after the other, on two   *)
(* torrents ("methods").                                                   *)
(***************************************************************************)
EXTENDS Integers

CONSTANTS
  Rows, MayHold, Modes, SortedRows, MayHoldSorted, NestedRows, MayHoldNested, Values, Orders,
  AllColumns, MinWidth, MaxWidth, Messages,
  Torrents, Magnets, Saved, MaxMissed,
  Questions, Window, Expiry, MaxRestarts, Changes, Arguments, Urls,
  Keys, Scalars, Updates, Incoming, MaxEdits, MaxMerges, MaxIncoming

VARIABLES
  part,
  kids, expanded, itemsHeight, selection, focus, mouse, sorting, sorter, missed,
  columns, column, sortBy, title, added, forgotten,
  tor, torrentList, items, adding, addWindows, infoWindows, selectedItem, menuEnabled, alert,
  appQueue, windowQueue, lost,
  remote, info, server, req, tasks, client, polled, restarts,
  val, doing, walk, writer, temp, text, source, parser, rest, count

Outline == INSTANCE OutlineView WITH Values <- {1}, Orders <- {}, UserActs <- TRUE, MaxMissed <- 0
Sorted  == INSTANCE OutlineView WITH Rows <- SortedRows, MayHold <- MayHoldSorted, Modes <- {},
                                     UserActs <- FALSE, MaxMissed <- 0
Nested  == INSTANCE OutlineView WITH Rows <- NestedRows, MayHold <- MayHoldNested, Modes <- {},
                                     UserActs <- FALSE, MaxMissed <- 0
Titles  == INSTANCE Columns
App     == INSTANCE Application WITH missed <- lost
Far     == INSTANCE Rpc WITH tor <- remote, Ids <- {1}, New <- {1}, Broken <- {}, Requests <- {1, 2},
                             Settings <- {}, FileCount <- 0, BadUrl <- "bad"
Each    == INSTANCE Rpc WITH tor <- remote, Ids <- {1, 2}, New <- {2}, Broken <- {2}, Requests <- {1},
                             Questions <- Changes, Settings <- Arguments, FileCount <- 2,
                             BadUrl <- "bad", Window <- 0, Expiry <- 1, MaxRestarts <- 0
Benc    == INSTANCE Bencode WITH file <- text

rowVars == <<kids, expanded, itemsHeight, selection, focus, mouse, sorting, sorter, missed>>
columnVars == <<columns, column, sortBy, title, added, forgotten>>
appVars == <<tor, torrentList, items, adding, addWindows, infoWindows, selectedItem,
             menuEnabled, alert, appQueue, windowQueue, lost>>
rpcVars == <<remote, info, server, req, tasks, client, polled, restarts>>
bencVars == <<val, doing, walk, writer, temp, text, source, parser, rest, count>>
vars == <<part, rowVars, columnVars, appVars, rpcVars, bencVars>>

Absent == "absent"
NoRows == /\ kids = Absent /\ expanded = Absent /\ itemsHeight = Absent /\ selection = Absent
          /\ focus = Absent /\ mouse = Absent /\ sorting = Absent /\ sorter = Absent
          /\ missed = Absent
NoTitles == /\ columns = Absent /\ column = Absent /\ sortBy = Absent /\ title = Absent
            /\ added = Absent /\ forgotten = Absent
NoApp == /\ tor = Absent /\ torrentList = Absent /\ items = Absent /\ adding = Absent
         /\ addWindows = Absent /\ infoWindows = Absent /\ selectedItem = Absent
         /\ menuEnabled = Absent /\ alert = Absent /\ appQueue = Absent /\ windowQueue = Absent
         /\ lost = Absent
NoRpc == /\ remote = Absent /\ info = Absent /\ server = Absent /\ req = Absent /\ tasks = Absent
         /\ client = Absent /\ polled = Absent /\ restarts = Absent
NoBenc == /\ val = Absent /\ doing = Absent /\ walk = Absent /\ writer = Absent /\ temp = Absent
          /\ text = Absent /\ source = Absent /\ parser = Absent /\ rest = Absent /\ count = Absent

Init ==
  \/ part = "rows" /\ Outline!Init /\ NoTitles /\ NoApp /\ NoRpc /\ NoBenc
  \/ part = "sorting" /\ Sorted!Init /\ NoTitles /\ NoApp /\ NoRpc /\ NoBenc
  \/ part = "nested" /\ Nested!Init /\ NoTitles /\ NoApp /\ NoRpc /\ NoBenc
  \/ part = "columns" /\ Titles!Init /\ NoRows /\ NoApp /\ NoRpc /\ NoBenc
  \/ part = "application" /\ App!Init /\ NoRows /\ NoTitles /\ NoRpc /\ NoBenc
  \/ part = "rpc" /\ Far!Init /\ NoRows /\ NoTitles /\ NoApp /\ NoBenc
  \/ part = "methods" /\ Each!Init /\ NoRows /\ NoTitles /\ NoApp /\ NoBenc
  \/ part = "values" /\ Benc!Init /\ NoRows /\ NoTitles /\ NoApp /\ NoRpc

Next ==
  /\ UNCHANGED part
  /\ \/ part = "rows" /\ Outline!Next /\ UNCHANGED <<columnVars, appVars, rpcVars, bencVars>>
     \/ part = "sorting" /\ Sorted!Next /\ UNCHANGED <<columnVars, appVars, rpcVars, bencVars>>
     \/ part = "nested" /\ Nested!Next /\ UNCHANGED <<columnVars, appVars, rpcVars, bencVars>>
     \/ part = "columns" /\ Titles!Next /\ UNCHANGED <<rowVars, appVars, rpcVars, bencVars>>
     \/ part = "application" /\ App!Next /\ UNCHANGED <<rowVars, columnVars, rpcVars, bencVars>>
     \/ part = "rpc" /\ Far!Next /\ UNCHANGED <<rowVars, columnVars, appVars, bencVars>>
     \/ part = "methods" /\ Each!Next /\ UNCHANGED <<rowVars, columnVars, appVars, bencVars>>
     \/ part = "values" /\ Benc!Next /\ UNCHANGED <<rowVars, columnVars, appVars, rpcVars>>

Spec == Init /\ [][Next]_vars

(***************************************************************************)
(* Properties: those of the parts, each with the types of its part.        *)
(***************************************************************************)
\* The height, the selection, the focus and what the mouse has hold of go with the rows that
\* are shown, until one of the calls that lose track of them (AddRow, RemoveRow, Clear).
OutlineIsTrue ==
  /\ part = "rows" => /\ Outline!TypeOK /\ Outline!HeightIsExact /\ Outline!SelectionIsListed
                      /\ Outline!FocusIsListed /\ Outline!MouseHoldsRows
  /\ part = "sorting" => /\ Sorted!TypeOK /\ Sorted!HeightIsExact /\ Sorted!SelectionIsListed
                         /\ Sorted!FocusIsListed /\ Sorted!MouseHoldsRows
  /\ part = "nested" => /\ Nested!TypeOK /\ Nested!HeightIsExact /\ Nested!SelectionIsListed
                        /\ Nested!FocusIsListed /\ Nested!MouseHoldsRows

\* When the sorting thread ends, every list is in the order that was asked for last, whatever
\* was added or changed in the meantime (DeepSort, StartSorting, AddSorted); unless a row was
\* removed, or a list was sorted otherwise, while the thread was under way (see OutlineView).
SortIsComplete ==
  /\ part = "rows" => Outline!SortIsComplete
  /\ part = "sorting" => Sorted!SortIsComplete
  /\ part = "nested" => Nested!SortIsComplete

\* No column is lost, and a list comes back as it was saved (SaveState, LoadState).
ColumnsAreKept ==
  part = "columns" => Titles!TypeOK /\ Titles!ColumnsAreKept /\ Titles!StateRoundTrips

\* Every torrent of the library can be reached from a window; one item is selected, and its
\* name and its button say what is true (OpenTorrentResult, DownloadView, DownloadItem).  A
\* client gets one answer to a request, but for those that get none or two, and a success of
\* torrent-set holds for all the torrents that it names, but for trackers that cannot be saved;
\* who asks often enough for what was active lately knows what is true (request_exec).  A value
\* that is saved is read as it was, to the digits that are written, and one that is merged is
\* there (tr_bencToFile, tr_bencLoadFile, tr_bencMergeDicts).
WhatIsShownIsTrue ==
  /\ part = "application" => /\ App!TypeOK /\ App!TorrentsAreReachable /\ App!OneIsSelected
                             /\ App!MetadataIsShown /\ App!ButtonsAreTrue
  /\ part = "rpc" => Far!TypeOK /\ Far!EachIsAnswered /\ Far!RecentIsEnough
  /\ part = "methods" => Each!TypeOK /\ Each!EachIsAnswered /\ Each!SetIsKept
  /\ part = "values" => Benc!TypeOK /\ Benc!FileReadsAsSaved /\ Benc!MergeIsDone
================================================================================
