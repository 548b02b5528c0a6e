-------------------------------- MODULE OpenFiles --------------------------------
(***************************************************************************)
(* The open files (fdlimit.c): a cache of descriptors that closes the one  *)
(* used least recently when it is full.  The event thread uses it.         *)
(*                                                                         *)
(* A path is named by its torrent and its index.  The file system is       *)
(* external: a file may be missing, as long as it should be or too long,   *)
(* and any call may fail.                                                  *)
(***************************************************************************)
EXTENDS Integers, FiniteSets

CONSTANTS
  Files,    \* pairs of a torrent and an index
  Slots,    \* 1 .. FILE_CACHE_SIZE, in the order of the array
  MaxTime,  \* bounds the clock
  MaxStale

VARIABLES
  slot,     \* tr_cached_file: [key, file, writable, used]; file is what the descriptor is of
  disk,     \* each file: "none", "empty", "partial", "right" or "long"
  now,
  stale     \* history: slots that stayed open when cutting their file had failed, and Once

fileVars == <<slot, disk, now, stale>>

NoFile == <<"no", "file">>
Once == 0  \* it has happened
IsOpen(s) == slot[s].file # NoFile

Init ==
  /\ slot = [s \in Slots |-> [key |-> NoFile, file |-> NoFile, writable |-> FALSE, used |-> 0]]
  /\ disk \in [Files -> {"none", "right", "long"}] /\ now = 0
  /\ stale = {}

(***************************************************************************)
(* The files.                                                              *)
(***************************************************************************)
\* fileset_lookup.
Holding(f) == {s \in Slots : slot[s].key = f /\ IsOpen(s)}
Found(f) == CHOOSE s \in Holding(f) : \A t \in Holding(f) : s <= t

\* fileset_get_empty_slot: the first that is free, else the first of those used longest ago.
First(S) == CHOOSE s \in S : \A t \in S : s <= t
Recycled == First({s \in Slots : \A t \in Slots : slot[s].used <= slot[t].used})
EmptySlot ==
  IF \A s \in Slots : IsOpen(s) THEN Recycled ELSE First({s \in Slots : ~IsOpen(s)})

\* tr_fdFileGetCached, and tr_fdFileCheckout of a file that is open as it is asked for.
GetCached(f, write) ==
  /\ Holding(f) # {} /\ (write => slot[Found(f)].writable)
  /\ slot' = [slot EXCEPT ![Found(f)].used = now]
  /\ UNCHANGED <<disk, now, stale>>

\* cached_file_open in the slot s, whose file was closed before.  A file that is opened for
\* writing is made, at its full length at once or when it is written to, and cut when it is
\* too long.
Opened(s, f, write) ==
  LET made == IF disk[f] # "none" THEN {"right"} ELSE {"right", "empty", "partial"}
  IN /\ disk[f] \in {"none", "long"} => write
     /\ \E d \in made :
          disk' = [disk EXCEPT ![f] = IF @ \in {"none", "long"} THEN d ELSE @]
     /\ slot' = [slot EXCEPT ![s] = [key |-> f, file |-> f, writable |-> write, used |-> now]]
     /\ stale' = stale \ {s}

\* It fails before there is a descriptor; a file may have been made at its length.
NotOpened(s, f, write) ==
  /\ slot' = [slot EXCEPT ![s].file = NoFile]
  /\ disk' \in {disk} \cup (IF write /\ disk[f] = "none" THEN {[disk EXCEPT ![f] = "partial"]} ELSE {})
  /\ stale' = stale \ {s}

\* It fails when a file that is too long cannot be cut, as it never can by a descriptor for
\* reading: it stays open in the slot, under the key of the file that was there before.
NotCut(s, f) ==
  /\ disk[f] = "long" /\ Cardinality((stale \ {Once}) \cup {s}) <= MaxStale
  /\ slot' = [slot EXCEPT ![s].file = f]
  /\ stale' = stale \cup {s, Once} /\ UNCHANGED disk

\* tr_fdFileCheckout: a file that is open for reading is closed and opened again for writing.
Checkout(f, write) ==
  /\ Holding(f) # {} => write /\ ~slot[Found(f)].writable
  /\ LET s == IF Holding(f) = {} THEN EmptySlot ELSE Found(f)
     IN Opened(s, f, write) \/ NotOpened(s, f, write) \/ NotCut(s, f)
  /\ UNCHANGED now

Closed(S) == [s \in Slots |-> IF s \in S THEN [slot[s] EXCEPT !.file = NoFile] ELSE slot[s]]

\* tr_fdFileClose and tr_fdTorrentClose.
FileClose(f) ==
  /\ Holding(f) # {}
  /\ slot' = Closed({Found(f)}) /\ stale' = stale \ {Found(f)}
  /\ UNCHANGED <<disk, now>>
TorrentClose(t) ==
  LET S == {s \in Slots : slot[s].key[1] = t}
  IN /\ slot' = Closed(S) /\ stale' = stale \ S
     /\ UNCHANGED <<disk, now>>

\* The user, or another program, changes what is on the disk.
DiskChanges(f) ==
  /\ \A s \in Slots : slot[s].file # f
  /\ \E d \in {"none", "right", "long"} : disk' = [disk EXCEPT ![f] = d]
  /\ UNCHANGED <<slot, now, stale>>

Tick == now < MaxTime /\ now' = now + 1 /\ UNCHANGED <<slot, disk, stale>>

Next ==
  \/ \E f \in Files :
       \/ FileClose(f) \/ DiskChanges(f)
       \/ \E write \in BOOLEAN : GetCached(f, write) \/ Checkout(f, write)
       \/ TorrentClose(f[1])
  \/ Tick

Spec == Init /\ [][Next]_fileVars

(***************************************************************************)
(* Properties.                                                             *)
(***************************************************************************)
TypeOK ==
  /\ \A s \in Slots : slot[s].key \in Files \cup {NoFile} /\ slot[s].file \in Files \cup {NoFile}
  /\ stale \subseteq Slots \cup {Once}

\* A descriptor that is handed out is of the file that was asked for, unless its slot stayed
\* open when its file could not be cut.
HandleIsOfFile == \A s \in Slots \ stale : IsOpen(s) => slot[s].file = slot[s].key

\* No file is open twice, what is written by one descriptor being cut or closed by another,
\* unless a file that was too long could not be cut at some time before.
OpenOnce == Once \notin stale => \A s, t \in Slots : IsOpen(s) /\ slot[s].file = slot[t].file => s = t

\* A file that can be written to is not too long, and is there.
OpenIsThere ==
  \A s \in Slots \ stale : IsOpen(s) => /\ disk[slot[s].file] # "none"
                                        /\ slot[s].writable => disk[slot[s].file] # "long"
================================================================================
