-------------------------------- MODULE Location --------------------------------
(***************************************************************************)
(* Where the files of a torrent are (torrent.c, utils.c, inout.c): in the  *)
(* folder for downloads or in the one for what is incomplete, under their  *)
(* names or with ".part" behind it, and what becomes of them when a file   *)
(* is complete, when all are, when the user sets another location, and     *)
(* when the torrent is removed with its data.                              *)
(*                                                                         *)
(* All is done by the event thread.  A path is a folder, a file and what   *)
(* is behind its name; a file that is open and was unlinked is at Gone.    *)
(* Every descriptor may be written to; it may be closed at any time        *)
(* (OpenFiles), and the cache may write a block at any time (BlockCache).  *)
(***************************************************************************)
EXTENDS Integers, Sequences, SequencesExt, FiniteSets, TLC

CONSTANTS
  Folders,        \* all that may be set
  Volume,         \* the file system of each
  BlocksPerFile,  \* how many blocks each file has
  Incomplete      \* the folder for incomplete torrents, when there is to be one

VARIABLES
  tree,    \* the blocks in each file that there is
  fd,      \* the path that each file is open at, or NoPath
  dirs,    \* [download, incomplete, current]: downloadDir, incompleteDir, currentDir
  have,
  cached,  \* those that are in the cache and not in a file
  life,    \* "leech", "seed" or "removed"
  missed   \* history: how the code has lost track of files

locationVars == <<tree, fd, dirs, have, cached, life, missed>>

Files == 1 .. Len(BlocksPerFile)
BlocksOf(f) == {f} \X (1 .. BlocksPerFile[f])
All == UNION {BlocksOf(f) : f \in Files}
NoDir == "none"
Gone(f) == <<"gone", f, "">>
NoPath == <<"none", 0, "">>

(***************************************************************************)
(* The files and their descriptors, as a record x of both.                 *)
(***************************************************************************)
\* tr_torrentFindFile2: where the file is, in the order in which it is looked for.
FindFile2(x, d, f) ==
  SelectSeq(<<<<d.download, f, "">>, <<d.incomplete, f, "">>,
              <<d.incomplete, f, ".part">>, <<d.download, f, ".part">>>>,
            LAMBDA p : p \in DOMAIN x.tree)

\* The descriptor that is open is used, wherever the file is by now.
InUse(x, d, f) ==
  IF x.fd[f] # NoPath THEN x.fd[f]
  ELSE IF FindFile2(x, d, f) # <<>> THEN Head(FindFile2(x, d, f)) ELSE NoPath

Put(t, p, content) == (p :> content) @@ t
Without(t, P) == [p \in DOMAIN t \ P |-> t[p]]
Closed(x, f) == [tree |-> Without(x.tree, {Gone(f)}), fd |-> [x.fd EXCEPT ![f] = NoPath]]
AllClosed(x) == FoldLeft(Closed, x, [f \in Files |-> f])

\* readOrWriteBytes, of the blocks b of the file f: a file that is not there is made.
Written(x, d, f, b, ext) ==
  LET p == IF InUse(x, d, f) = NoPath THEN <<d.current, f, ext>> ELSE InUse(x, d, f)
  IN [tree |-> Put(x.tree, p, b \cup (IF p \in DOMAIN x.tree THEN x.tree[p] ELSE {})),
      fd |-> [x.fd EXCEPT ![f] = p]]
Flushed(x, d, b, ext) ==
  FoldLeft(LAMBDA y, f : IF b \cap BlocksOf(f) = {} THEN y ELSE Written(y, d, f, b \cap BlocksOf(f), ext),
           x, [f \in Files |-> f])

\* rename: an open file stays open, and so does one that is replaced.
Renamed(x, f, p, q) ==
  LET replaced == x.fd[f] = q /\ q \in DOMAIN x.tree
      kept == IF replaced THEN Put(x.tree, Gone(f), x.tree[q]) ELSE x.tree
  IN [tree |-> Put(Without(kept, {p}), q, x.tree[p]),
      fd |-> [x.fd EXCEPT ![f] = IF @ = p THEN q ELSE IF replaced THEN Gone(f) ELSE @]]
\* A copy, after which the file is unlinked.
Copied(x, f, p, q) ==
  LET kept == IF x.fd[f] = p THEN Put(x.tree, Gone(f), x.tree[p]) ELSE x.tree
  IN [tree |-> Put(Without(kept, {p}), q, x.tree[p]),
      fd |-> [x.fd EXCEPT ![f] = IF @ = p THEN Gone(f) ELSE @]]

\* tr_moveFile: the folder cannot be made, or the copy breaks off and is left.
tr_moveFile(x, f, p, q) ==
  {[x |-> x, ok |-> FALSE, half |-> FALSE]} \cup
  (IF Volume[p[1]] = Volume[q[1]] THEN {[x |-> Renamed(x, f, p, q), ok |-> TRUE, half |-> FALSE]}
   ELSE {[x |-> Copied(x, f, p, q), ok |-> TRUE, half |-> FALSE],
         [x |-> [x EXCEPT !.tree = Put(@, q, {})], ok |-> FALSE, half |-> TRUE]})

\* deleteLocalData, in the current folder: of each file the one without ".part", if there is one.
\* (By way of a temporary folder, and with the folders that are then empty, which are not
\* modelled.  Nor are torrents without metadata, which have no files.)
deleteLocalData(x, d) ==
  LET named(f) == <<d.current, f, "">>
      mine == {IF named(f) \in DOMAIN x.tree THEN named(f) ELSE <<d.current, f, ".part">> : f \in Files}
  IN [x EXCEPT !.tree = Without(@, mine)]
tr_torrentDeleteLocalData(x, d, ext) ==
  deleteLocalData(AllClosed(Flushed(x, d, cached, ext)), d)

refreshCurrentDir(x, d) ==
  [d EXCEPT !.current = IF d.incomplete = NoDir THEN d.download
                        ELSE IF FindFile2(x, d, 1) = <<>> THEN d.incomplete
                        ELSE Head(FindFile2(x, d, 1))[1]]

(***************************************************************************)
(* setLocation.                                                            *)
(***************************************************************************)
\* The files are moved one by one until one of them cannot be.
Moved(x, d, location) ==
  FoldLeft(LAMBDA S, f :
             UNION {LET p == FindFile2(o.x, d, f)
                        q == <<location, f, p[1][3]>>
                    IN IF ~o.ok \/ p = <<>> THEN {o}
                       ELSE IF p[1] = q THEN {o} ELSE tr_moveFile(o.x, f, p[1], q) : o \in S},
           {[x |-> x, ok |-> TRUE, half |-> FALSE]}, [f \in Files |-> f])

\* A block that is in the cache when its file has been moved is written to a new file, or to
\* the unlinked one, and deleted with it.
LosesCached(x, d) ==
  \E f \in Files : cached \cap BlocksOf(f) # {} /\ InUse(x, d, f) \in {NoPath, Gone(f)}

Outcome(x, d, c, lost) == [x |-> x, dirs |-> d, cached |-> c, missed |-> lost]
Unless(condition, name) == IF condition THEN {name} ELSE {}

AnyOutside(x, known) == \E p \in DOMAIN x.tree : p[1] \notin known \cup {"gone"}

\* When the location is that of now, nothing is moved, but the other folder is forgotten.
StaysWhereItIs(x, d, move) ==
  IF ~move THEN Outcome(x, d, cached, {})
  ELSE Outcome(x, [d EXCEPT !.incomplete = NoDir, !.current = d.download], cached,
               Unless(AnyOutside(x, {d.download}), "forgotten"))

Relocated(x, d, location, ext) ==
  Outcome(tr_torrentDeleteLocalData(x, d, ext),
          [download |-> location, incomplete |-> NoDir, current |-> location], {},
          Unless(LosesCached(x, d), "flushed late"))

\* The files that were moved before one could not be are found only in a folder that is known,
\* half a copy is found there before the whole file, and a file that was copied while it was
\* open goes on being written to where it was.
BreaksOff(o, d) ==
  Outcome(o.x, d, cached,
          Unless(\/ o.half \/ AnyOutside(o.x, {d.download, d.incomplete})
                 \/ \E f \in Files : o.x.fd[f] = Gone(f), "halfway"))

\* Without a move, files that are elsewhere are not found any more, nor verified again.
Renounced(x, d, location) ==
  Outcome(x, refreshCurrentDir(x, [d EXCEPT !.download = location]), cached,
          Unless(AnyOutside(x, {location, d.incomplete}), "not moved"))

setLocation(x, d, location, move) ==
  IF location = d.current THEN {StaysWhereItIs(x, d, move)}
  ELSE IF ~move THEN {Renounced(x, d, location)}
  ELSE {IF o.ok THEN Relocated(o.x, d, location, ext)
        ELSE BreaksOff(o, d) :
          o \in Moved(x, d, location), ext \in {"", ".part"}}

(***************************************************************************)
(* The steps.                                                              *)
(***************************************************************************)
Now == [tree |-> tree, fd |-> fd]
Becomes(x) == tree' = x.tree /\ fd' = x.fd

Init ==
  /\ tree = <<>> /\ fd = [f \in Files |-> NoPath] /\ have = {} /\ cached = {}
  /\ \E download \in Folders \ {Incomplete}, incomplete \in {NoDir, Incomplete} :
       dirs = [download |-> download, incomplete |-> incomplete,
               current |-> IF incomplete = NoDir THEN download ELSE incomplete]
  /\ life = "leech" /\ missed = {}

\* tr_torrentFileCompleted: a file that is complete loses its ".part".
tr_torrentFileCompleted(x, d, f) ==
  LET y == Closed(x, f)
      p == Head(FindFile2(y, d, f))
  IN IF p[3] = "" THEN y ELSE Renamed(y, f, p, <<p[1], f, "">>)

\* tr_cacheWriteBlock and TR_PEER_CLIENT_GOT_BLOCK: a file that is complete by it is flushed.
GotBlock(b) ==
  /\ b \notin have /\ have' = have \cup {b}
  /\ IF BlocksOf(b[1]) \subseteq have'
     THEN /\ \E ext \in {"", ".part"} :
               Becomes(tr_torrentFileCompleted(
                 Flushed(Now, dirs, (cached \cap BlocksOf(b[1])) \cup {b}, ext), dirs, b[1]))
          /\ cached' = cached \ BlocksOf(b[1])
     ELSE cached' = cached \cup {b} /\ UNCHANGED <<tree, fd>>
  /\ UNCHANGED <<dirs, life, missed>>

\* cacheTrim, tr_cacheFlushDone.
Flush(b) ==
  /\ \E ext \in {"", ".part"} : Becomes(Flushed(Now, dirs, {b}, ext))
  /\ cached' = cached \ {b}
  /\ UNCHANGED <<dirs, have, life, missed>>

\* A block is read; another file is opened in the place of this one.
Open(f) ==
  /\ fd[f] = NoPath /\ FindFile2(Now, dirs, f) # <<>>
  /\ fd' = [fd EXCEPT ![f] = InUse(Now, dirs, f)]
  /\ UNCHANGED <<tree, dirs, have, cached, life, missed>>
Close(f) ==
  /\ fd[f] # NoPath /\ Becomes(Closed(Now, f))
  /\ UNCHANGED <<dirs, have, cached, life, missed>>

\* stopTorrent, and also the end of the session: torrentInit and the .resume file bring the
\* torrent back, with the session's folder for what is incomplete if it had none of its own;
\* when it is complete by then, no change of that is noticed.
stopTorrent ==
  /\ \E ext \in {"", ".part"}, again \in BOOLEAN, setting \in {NoDir, Incomplete} :
       LET x == AllClosed(Flushed(Now, dirs, cached, ext))
           own == [dirs EXCEPT !.incomplete = IF @ = NoDir THEN setting ELSE @]
       IN /\ Becomes(x)
          /\ IF again THEN /\ dirs' = refreshCurrentDir(x, own)
                           /\ life' = IF have = All THEN "seed" ELSE life
             ELSE UNCHANGED <<dirs, life>>
  /\ cached' = {}
  /\ UNCHANGED <<have, missed>>

Apply(o) == /\ Becomes(o.x) /\ dirs' = o.dirs /\ cached' = o.cached
            /\ missed' = missed \cup o.missed

\* tr_torrentRecheckCompleteness: what was incomplete goes to the folder for downloads.
RecheckCompleteness ==
  /\ life = "leech" /\ have = All /\ life' = "seed"
  /\ IF dirs.current = dirs.incomplete
     THEN \E o \in setLocation(AllClosed(Now), dirs, dirs.download, TRUE) : Apply(o)
     ELSE Becomes(AllClosed(Now)) /\ UNCHANGED <<dirs, cached, missed>>
  /\ UNCHANGED have

tr_torrentSetLocation ==
  /\ \E location \in Folders, move \in BOOLEAN :
       \E o \in setLocation(Now, dirs, location, move) : Apply(o)
  /\ UNCHANGED <<have, life>>

\* removeTorrent, with its data: those in the other folder are not deleted.
removeTorrent ==
  /\ \E ext \in {"", ".part"} : Becomes(tr_torrentDeleteLocalData(Now, dirs, ext))
  /\ life' = "removed" /\ cached' = {}
  /\ missed' = missed \cup Unless(AnyOutside(Now, {dirs.current}), "left behind")
  /\ UNCHANGED <<dirs, have>>

Next ==
  /\ life # "removed" /\ missed = {}
  /\ \/ \E b \in All : GotBlock(b)
     \/ \E b \in cached : Flush(b)
     \/ \E f \in Files : Open(f) \/ Close(f)
     \/ stopTorrent \/ RecheckCompleteness \/ tr_torrentSetLocation \/ removeTorrent

Spec == Init /\ [][Next]_locationVars

(***************************************************************************)
(* Properties.                                                             *)
(***************************************************************************)
\* What the assertions of refreshCurrentDir say, and at most one file of a name is known.
TypeOK ==
  /\ dirs.current \in {dirs.download, dirs.incomplete} \ {NoDir}
  /\ cached \subseteq have /\ have \subseteq All
  /\ \A f \in Files : fd[f] = NoPath \/ fd[f] \in DOMAIN tree

\* A block that the client has is in the cache, or in the file that is open or would be found,
\* through all moves, unless the code has lost track of the file in one of the ways that
\* `missed' names (tr_torrentFindFile2, setLocation).
DataAreFound ==
  life # "removed" /\ missed = {} =>
    \A b \in have \ cached : LET p == InUse(Now, dirs, b[1])
                             IN p # NoPath /\ b \in tree[p]

\* A file that is complete has its name (tr_torrentFileCompleted).
CompleteHasItsName ==
  life # "removed" /\ missed = {} =>
    \A f \in Files : BlocksOf(f) \subseteq have => InUse(Now, dirs, f)[3] = ""

\* No file is there twice or where it is not looked for, and none is left of a torrent that is
\* removed (deleteLocalData).
NothingIsLeftBehind ==
  missed = {} =>
    /\ life = "removed" => tree = <<>>
    /\ \A f \in Files : Cardinality({p \in DOMAIN tree : p[2] = f /\ p[1] # "gone"}) <= 1
    /\ ~AnyOutside(Now, {dirs.download, dirs.incomplete})
================================================================================
