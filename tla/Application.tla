------------------------------ MODULE Application ------------------------------
(***************************************************************************)
(* The torrents of the library as the windows of Torrentor show them: the  *)
(* list of TorrentObjects, the DownloadItems of the main window, the       *)
(* windows that add a torrent or tell of one, and the messages between the *)
(* loopers (Application.cpp, TorrentObject.cpp, MainWindow.cpp,            *)
(* DownloadView.cpp, DownloadItem.cpp, AddTorrentWindow.cpp).              *)
(*                                                                         *)
(* The application, each window and the library's event thread run in      *)
(* threads of their own; each handles one message or event at a time.      *)
(* Where the code loses track of a part of its state, `missed' names it.   *)
(***************************************************************************)
EXTENDS Integers, Sequences, FiniteSets, SequencesExt

CONSTANTS
  Torrents, Magnets, \* the torrents, and those of them that are added by a link
  Saved,             \* those of earlier runs
  MaxMissed          \* a behaviour goes on until more than so many things were missed

VARIABLES
  tor,         \* the library's: [at, activity, metadata, whole, notify, handler]
  torrentList, \* fTorrentList
  items,       \* the DownloadItems, [named, button, selected] each
  adding,      \* the DownloadItem that the application constructs
  addWindows, infoWindows,
  selectedItem, menuEnabled, alert,
  appQueue, windowQueue, \* the messages for the application and the main window
  missed

appVars == <<tor, torrentList, items, adding, addWindows, infoWindows, selectedItem,
             menuEnabled, alert, appQueue, windowQueue, missed>>

NoTorrent == "none"
Items == DOMAIN items
Misses(what, t, cond) == missed' = IF cond THEN missed \cup {<<what, t>>} ELSE missed

(***************************************************************************)
(* A torrent of an earlier run may be running, and the metadata of a link  *)
(* be there.  The main window's thread runs when all of them are listed.   *)
(***************************************************************************)
Init ==
  /\ \E active, known \in SUBSET Saved :
       tor = [t \in Torrents |->
               [at |-> IF t \in Saved THEN "session" ELSE NoTorrent,
                activity |-> IF t \in active THEN "running" ELSE "stopped",
                metadata |-> t \in known \/ t \notin Magnets, whole |-> FALSE, notify |-> FALSE,
                handler |-> "none"]]
  /\ torrentList = {} /\ items = <<>> /\ adding = [torrent |-> NoTorrent, active |-> FALSE]
  /\ addWindows = {} /\ infoWindows = {}
  /\ selectedItem = NoTorrent /\ menuEnabled = FALSE /\ alert = NoTorrent
  /\ appQueue = <<>> /\ windowQueue = <<>> /\ missed = {}

IsActive(t) == tor[t].activity # "stopped"
AppIsIdle == adding.torrent = NoTorrent
HasLoaded == AppIsIdle /\ Saved \subseteq torrentList

\* DownloadView::AddItem with an item whose constructor read `active'.
Shown(t, active) ==
  [u \in Items \cup {t} |-> IF u # t THEN items[u]
     ELSE [named |-> tor[t].metadata, button |-> active, selected |-> FALSE]]

AddTorrent_Unhandled(t, tors) ==
  items' = Shown(t, tors[t].activity # "stopped") /\ UNCHANGED adding
\* MainWindow::AddTorrent, up to where the constructor asks whether this is a magnet.
AddTorrent(t, tors) ==
  IF tors[t].metadata
  THEN /\ items' = Shown(t, tors[t].activity # "stopped")
       /\ UNCHANGED adding
  ELSE /\ adding' = [torrent |-> t, active |-> tors[t].activity # "stopped"]
       /\ UNCHANGED items

\* SetMetadataCallbackHandler, and the rest of DownloadView::AddItem.  The name was read before.
AddItem ==
  /\ ~AppIsIdle
  /\ LET t == adding.torrent IN
     /\ tor' = [tor EXCEPT ![t].handler = "item"]
     /\ items' = [Shown(t, adding.active) EXCEPT ![t].named = FALSE]
     /\ Misses("metadata", t, tor[t].metadata)
  /\ adding' = [torrent |-> NoTorrent, active |-> FALSE]
  /\ UNCHANGED <<torrentList, addWindows, infoWindows, selectedItem, menuEnabled, alert,
                 appQueue, windowQueue>>

\* Only the torrents of earlier runs get a completeness callback.
LoadTorrentList(t) ==
  /\ AppIsIdle /\ t \in Saved \ torrentList
  /\ torrentList' = torrentList \cup {t}
  /\ tor' = [tor EXCEPT ![t].notify = TRUE]
  /\ AddTorrent(t, tor')
  /\ UNCHANGED <<addWindows, infoWindows, selectedItem, menuEnabled, alert, appQueue,
                 windowQueue, missed>>

\* A torrent that is new to the library is checked, and not started.  A magnet's window waits
\* for the metadata, which a torrent that was not started does not get.
NewTorrent(t) ==
  [tor EXCEPT ![t].at = "session", ![t].activity = "checking",
              ![t].handler = IF t \in Magnets THEN "window" ELSE "none"]

LoadTorrent(t) ==
  /\ HasLoaded /\ tor[t].at = NoTorrent
  /\ tor' = NewTorrent(t)
  /\ addWindows' = addWindows \cup {t}
  /\ UNCHANGED <<torrentList, items, adding, infoWindows, selectedItem, menuEnabled, alert,
                 appQueue, windowQueue, missed>>

(***************************************************************************)
(* AddTorrentWindow: Add, with or without `Start when added', or Cancel.   *)
(***************************************************************************)
CloseAddWindow(t) ==
  /\ t \in addWindows /\ addWindows' = addWindows \ {t}
  /\ \E add, start \in BOOLEAN :
       appQueue' = Append(appQueue, [what |-> "result", torrent |-> t, add |-> add,
                                     start |-> add /\ start])
  /\ UNCHANGED <<tor, torrentList, items, adding, infoWindows, selectedItem, menuEnabled, alert,
                 windowQueue, missed>>

\* StartTransfer does nothing for a torrent that is checked: it is active.
StartTransfer(t) == [tor EXCEPT ![t].activity = IF @ = "stopped" THEN "running" ELSE @]
StopTransfer(t)  == [tor EXCEPT ![t].activity = "stopped"]

OpenTorrentResult ==
  /\ HasLoaded /\ appQueue # <<>> /\ Head(appQueue).what = "result"
  /\ LET m == Head(appQueue)
         t == m.torrent
     IN IF m.add
        THEN /\ torrentList' = torrentList \cup {t}
             /\ tor' = IF m.start THEN StartTransfer(t) ELSE tor
             /\ Misses("start", t, m.start /\ tor'[t].activity # "running")
             /\ AddTorrent(t, tor')
        ELSE /\ tor' = [tor EXCEPT ![t].at = "removing"]
             /\ UNCHANGED <<torrentList, items, adding, missed>>
  /\ appQueue' = Tail(appQueue)
  /\ UNCHANGED <<addWindows, infoWindows, selectedItem, menuEnabled, alert, windowQueue>>

\* A torrent that was removed in the meantime is still in the list.
OnTorrentComplete ==
  /\ HasLoaded /\ appQueue # <<>> /\ Head(appQueue).what = "completeness"
  /\ LET t == Head(appQueue).torrent IN Misses("torrent", t, tor[t].at = "freed")
  /\ appQueue' = Tail(appQueue)
  /\ UNCHANGED <<tor, torrentList, items, adding, addWindows, infoWindows, selectedItem,
                 menuEnabled, alert, windowQueue>>

(***************************************************************************)
(* The main window; an alert holds up its thread.                          *)
(***************************************************************************)
WindowRuns == HasLoaded /\ alert = NoTorrent
Deselected == [t \in Items |-> [items[t] EXCEPT !.selected = @ /\ t # selectedItem]]

\* A click on an item, or (NoTorrent) beside them.
ItemClick(t) ==
  /\ WindowRuns /\ t \in Items \cup {NoTorrent}
  /\ items' = [u \in Items |-> [Deselected[u] EXCEPT !.selected = @ \/ u = t]]
  /\ selectedItem' = t
  /\ windowQueue' = Append(windowQueue, [what |-> "selection", torrent |-> NoTorrent])
  /\ UNCHANGED <<tor, torrentList, adding, addWindows, infoWindows, menuEnabled, alert,
                 appQueue, missed>>

SelectionChanged ==
  /\ WindowRuns /\ windowQueue # <<>> /\ Head(windowQueue).what = "selection"
  /\ menuEnabled' = (selectedItem # NoTorrent)
  /\ windowQueue' = Tail(windowQueue)
  /\ missed' = missed \ {<<"menu", NoTorrent>>}
  /\ UNCHANGED <<tor, torrentList, items, adding, addWindows, infoWindows, selectedItem, alert,
                 appQueue>>

\* The message is dropped when its item is gone.
OnMetadataComplete ==
  /\ WindowRuns /\ windowQueue # <<>> /\ Head(windowQueue).what = "metadata"
  /\ items' = [t \in Items |-> [items[t] EXCEPT !.named = @ \/ t = Head(windowQueue).torrent]]
  /\ windowQueue' = Tail(windowQueue)
  /\ UNCHANGED <<tor, torrentList, adding, addWindows, infoWindows, selectedItem, menuEnabled,
                 alert, appQueue, missed>>

\* The button changes its shape, whatever it was.
PressControlButton(t) ==
  /\ WindowRuns /\ t \in Items
  /\ items' = [items EXCEPT ![t].button = ~@]
  /\ tor' = IF IsActive(t) THEN StopTransfer(t) ELSE StartTransfer(t)
  /\ UNCHANGED <<torrentList, adding, addWindows, infoWindows, selectedItem, menuEnabled, alert,
                 appQueue, windowQueue, missed>>

OnTorrentInspect ==
  /\ WindowRuns /\ menuEnabled /\ selectedItem # NoTorrent
  /\ infoWindows' = infoWindows \cup {selectedItem}
  /\ UNCHANGED <<tor, torrentList, items, adding, addWindows, selectedItem, menuEnabled, alert,
                 appQueue, windowQueue, missed>>

CloseInfoWindow(t) ==
  /\ t \in infoWindows /\ infoWindows' = infoWindows \ {t}
  /\ UNCHANGED <<tor, torrentList, items, adding, addWindows, selectedItem, menuEnabled, alert,
                 appQueue, windowQueue, missed>>

OnMenuTorrentRemove ==
  /\ WindowRuns /\ menuEnabled /\ selectedItem # NoTorrent
  /\ alert' = selectedItem
  /\ UNCHANGED <<tor, torrentList, items, adding, addWindows, infoWindows, selectedItem,
                 menuEnabled, appQueue, windowQueue, missed>>

\* The alert was cancelled, or the item and the torrent are removed.  The TorrentObject stays
\* in the list, and no message tells that the selection is gone.
AnswerRemove ==
  /\ alert # NoTorrent /\ alert' = NoTorrent
  /\ \/ UNCHANGED <<tor, items, selectedItem, missed>>
     \/ /\ items' = [t \in Items \ {alert} |-> items[t]]
        /\ selectedItem' = NoTorrent
        /\ tor' = [tor EXCEPT ![alert].at = "removing"]
        /\ Misses("menu", NoTorrent, TRUE)
  /\ UNCHANGED <<torrentList, adding, addWindows, infoWindows, menuEnabled, appQueue,
                 windowQueue>>

(***************************************************************************)
(* The event thread.                                                       *)
(***************************************************************************)
InSession(t) == tor[t].at \in {"session", "removing"}

\* TorrentMetadataCallback: the handler is a window that was closed, or an item, or one that
\* was removed.
MetadataCompletes(t) ==
  /\ InSession(t) /\ tor[t].activity = "running" /\ ~tor[t].metadata
  /\ tor' = [tor EXCEPT ![t].metadata = TRUE]
  /\ windowQueue' = IF tor[t].handler = "item" /\ t \in Items
                    THEN Append(windowQueue, [what |-> "metadata", torrent |-> t])
                    ELSE windowQueue
  /\ Misses("handler", t, tor[t].handler = "window" \/ (tor[t].handler = "item" /\ t \notin Items))
  /\ UNCHANGED <<torrentList, items, adding, addWindows, infoWindows, selectedItem, menuEnabled,
                 alert, appQueue>>

\* TorrentCompletenessHandler.
Completes(t) ==
  /\ InSession(t) /\ tor[t].activity = "running" /\ tor[t].metadata /\ ~tor[t].whole
  /\ tor' = [tor EXCEPT ![t].whole = TRUE]
  /\ appQueue' = IF tor[t].notify
                 THEN Append(appQueue, [what |-> "completeness", torrent |-> t]) ELSE appQueue
  /\ UNCHANGED <<torrentList, items, adding, addWindows, infoWindows, selectedItem, menuEnabled,
                 alert, windowQueue, missed>>

\* The check is over, or the torrent has reached its ratio or an error: its button says
\* otherwise from now on.
StopsByItself(t) ==
  /\ InSession(t) /\ IsActive(t)
  /\ tor' = StopTransfer(t)
  /\ Misses("button", t, t \in Items \/ adding.torrent = t)
  /\ UNCHANGED <<torrentList, items, adding, addWindows, infoWindows, selectedItem, menuEnabled,
                 alert, appQueue, windowQueue>>

\* removeTorrent.
Freed(t) ==
  /\ tor[t].at = "removing"
  /\ tor' = [tor EXCEPT ![t].at = "freed", ![t].notify = FALSE, ![t].activity = "stopped"]
  /\ Misses("window", t, t \in infoWindows)
  /\ UNCHANGED <<torrentList, items, adding, addWindows, infoWindows, selectedItem, menuEnabled,
                 alert, appQueue, windowQueue>>

Step ==
  \/ \E t \in Torrents :
       \/ LoadTorrentList(t) \/ LoadTorrent(t) \/ CloseAddWindow(t) \/ PressControlButton(t)
       \/ CloseInfoWindow(t) \/ MetadataCompletes(t) \/ Completes(t) \/ StopsByItself(t) \/ Freed(t)
  \/ \E t \in Torrents \cup {NoTorrent} : ItemClick(t)
  \/ AddItem \/ OpenTorrentResult \/ OnTorrentComplete
  \/ SelectionChanged \/ OnMetadataComplete \/ OnTorrentInspect
  \/ OnMenuTorrentRemove \/ AnswerRemove

\* Each queue holds two messages at most.
Next ==
  /\ Cardinality(missed) <= MaxMissed /\ Len(windowQueue) <= 1 /\ Len(appQueue) <= 1
  /\ Step

Spec == Init /\ [][Next]_appVars

(***************************************************************************)
(* Properties.                                                             *)
(***************************************************************************)
TypeOK ==
  /\ torrentList \subseteq Torrents /\ Items \subseteq torrentList
  /\ selectedItem \in Torrents \cup {NoTorrent} /\ addWindows \subseteq Torrents
  /\ \A t \in Torrents : tor[t].activity \in {"stopped", "checking", "running"}

Posted(queue, what, t) == \E i \in DOMAIN queue : queue[i].what = what /\ queue[i].torrent = t

\* The user can reach every torrent of the library: it is listed with an item, or in a window
\* whose answer, however the messages cross, leads there or removes it.
TorrentsAreReachable ==
  \A t \in Torrents : tor[t].at = "session" =>
    \/ t \in torrentList /\ (t \in Items \/ adding.torrent = t)
    \/ t \in addWindows \/ Posted(appQueue, "result", t) \/ t \in Saved \ torrentList

\* One item at most is drawn as selected, it is the one the menu is about, and when no message
\* is on its way the menu is enabled if there is one.
OneIsSelected ==
  /\ {t \in Items : items[t].selected} = {selectedItem} \ {NoTorrent}
  /\ \/ Posted(windowQueue, "selection", NoTorrent) \/ <<"menu", NoTorrent>> \in missed
     \/ menuEnabled = (selectedItem # NoTorrent)

\* An item shows the name of its torrent as soon as there is one.
MetadataIsShown ==
  \A t \in Items : items[t].named \/ ~tor[t].metadata \/ Posted(windowQueue, "metadata", t)
                     \/ missed \cap {<<"metadata", t>>, <<"handler", t>>} # {}

\* The button of an item shows what a click would change.
ButtonsAreTrue ==
  \A t \in Items : items[t].button = IsActive(t) \/ <<"button", t>> \in missed
================================================================================
