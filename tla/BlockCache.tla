------------------------------ MODULE BlockCache ------------------------------
(***************************************************************************)
(* The write cache of libtransmission (cache.c) over the files of the      *)
(* torrents (inout.c), with the callers that decide when it is flushed:    *)
(* the block handlers of peer-msgs.c, webseed.c and peer-mgr.c, the save   *)
(* timer and the close of session.c, the stop of torrent.c.                *)
(*                                                                         *)
(* The cache is an array of blocks sorted by torrent and block.  Adjacent  *)
(* blocks form a run; a run is flushed with one write.  When the array is  *)
(* over its limit runs are flushed in the order of their rank; finished    *)
(* pieces are flushed when the file is complete and by the timer.          *)
(*                                                                         *)
(* Abstractions.  The content of a block is whether it is what the         *)
(* metainfo's hashes ask for.  Of the rank of a run its two flags are      *)
(* kept; its length and its age are left open (they stay below the flags   *)
(* for a block younger than 36 hours).  In one step at most one write to   *)
(* the disk fails.                                                         *)
(***************************************************************************)
EXTENDS Integers, FiniteSets, Sequences, SequencesExt

CONSTANTS
  BlockCount,     \* tr_torrent::blockCount of each torrent, by tr_torrent::uniqueId
  BlocksInPiece,  \* tr_torrent::blockCountInPiece
  Files,          \* the files of each torrent: <<first block, last block>>
  Startable,      \* the torrents that the user starts
  Limits,         \* the values of tr_cache::max_blocks that the user sets
  WebseedData,    \* the content that webseeds deliver
  DiskMayFail,    \* a write may fail
  MayWriteShort,  \* a write may stop early and report success
  MayClose        \* torrents may be removed

Torrents == DOMAIN BlockCount
Blocks(t) == 0 .. BlockCount[t] - 1
Keys == UNION {{t} \X Blocks(t) : t \in Torrents}

PieceOf(b) == b \div BlocksInPiece
Pieces(t)  == {PieceOf(b) : b \in Blocks(t)}
PieceBlocks(t, i) == {b \in Blocks(t) : PieceOf(b) = i}

ASSUME CacheAssumption ==
  /\ Torrents \subseteq Nat /\ Torrents # {} /\ IsFiniteSet(Torrents)
  /\ BlockCount \in [Torrents -> Nat \ {0}]
  /\ BlocksInPiece \in Nat \ {0}
  /\ Limits \subseteq Nat /\ Limits # {}
  /\ WebseedData \subseteq BOOLEAN
  /\ \A t \in Torrents :
       /\ IsFiniteSet(Files[t])
       /\ \A f \in Files[t] : f[1] \in Blocks(t) /\ f[2] \in Blocks(t)

VARIABLES
  blocks,     \* tr_cache::blocks
  maxBlocks,  \* tr_cache::max_blocks
  disk,       \* the content of the files
  have,       \* completion.blockBitfield of each torrent
  localError, \* the torrents whose error is TR_STAT_LOCAL_ERROR
  forgiven,   \* history: the torrents that a start rid of that error
  freed       \* the torrents that freeTorrent has freed

vars == <<blocks, maxBlocks, disk, have, localError, forgiven, freed>>

PieceIsComplete(h, t, i) == PieceBlocks(t, i) \subseteq h[t]

-----------------------------------------------------------------------------
(* A handler works on the cache, the disk and the error marks, with at most *)
(* one failing write, planned in advance: which, how much of it gets to the *)
(* disk, whether it spoils the block it breaks off in, whether it reports.  *)

Work(plan) == [blocks |-> blocks, disk |-> disk, marked |-> localError,
               writes |-> 0, err |-> FALSE, plan |-> plan]

\* findBlock, and what tr_cacheReadBlock finds at the start of a block.
InCache(bs, k) == \E n \in DOMAIN bs : bs[n].key = k
ContentIn(bs, d, k) ==
  IF InCache(bs, k) THEN bs[CHOOSE n \in DOMAIN bs : bs[n].key = k].good ELSE d[k]

Precedes(k, l) == k[1] < l[1] \/ (k[1] = l[1] /\ k[2] < l[2])

\* findBlockPos: the first position whose block is not before k.
LowerBound(bs, k) == Cardinality({n \in DOMAIN bs : Precedes(bs[n].key, k)}) + 1

-----------------------------------------------------------------------------
(* Runs. *)

\* Mutant: only the block numbers are compared.
RunLength_AcrossTorrents(bs, pos) ==
  Max({n \in 1 .. Len(bs) - pos + 1 :
         \A m \in 0 .. n - 1 : bs[pos + m].key[2] = bs[pos].key[2] + m})

\* getBlockRun: how many adjacent blocks start at pos.
RunLength(bs, pos) ==
  Max({n \in 1 .. Len(bs) - pos + 1 :
         \A m \in 0 .. n - 1 : bs[pos + m].key = <<bs[pos].key[1], bs[pos].key[2] + m>>})

RunAt(bs, pos) ==
  LET n     == RunLength(bs, pos)
      first == bs[pos].key
      last  == bs[pos + n - 1].key
  IN  [pos |-> pos, len |-> n,
       done  |-> PieceIsComplete(have, last[1], PieceOf(last[2])),
       multi |-> PieceOf(first[2]) # PieceOf(last[2])]

RunsOf(bs) ==
  {RunAt(bs, pos) : pos \in {n \in DOMAIN bs :
     n > 1 => bs[n].key # <<bs[n - 1].key[1], bs[n - 1].key[2] + 1>>}}

\* DONEFLAG and MULTIFLAG of the rank.
Rank(r) == (IF r.done THEN 2 ELSE 0) + (IF r.multi THEN 1 ELSE 0)

\* Mutant: the runs are not ranked.
calcRuns_Unranked(bs) == SetToSeqs(RunsOf(bs))

\* calcRuns: the orders in which the runs may come out of the sort.
calcRuns(bs) ==
  {q \in SetToSeqs(RunsOf(bs)) : \A m, n \in DOMAIN q : m < n => Rank(q[m]) >= Rank(q[n])}

NoFault == [at |-> 0, written |-> 0, torn |-> FALSE, reported |-> TRUE]

FaultPlans(bs) ==
  {NoFault} \cup
    [at : 1 .. Cardinality(RunsOf(bs)), written : UNION {0 .. r.len - 1 : r \in RunsOf(bs)}, torn : BOOLEAN,
     reported : (IF DiskMayFail THEN {TRUE} ELSE {}) \cup (IF MayWriteShort THEN {FALSE} ELSE {})]

\* Mutant: the torrent is not marked.
SetLocalError_Dropped(w, t) == w

\* tr_torrentSetLocalError.
SetLocalError(w, t) == [w EXCEPT !.marked = @ \cup {t}]

\* tr_ioWrite of a run, where its first block says and as far as the write gets.
tr_ioWrite(w, run) ==
  LET t     == run[1].key[1]
      first == run[1].key[2]
      fails == w.plan.at = w.writes + 1 /\ w.plan.written < Len(run)
      done  == IF fails THEN w.plan.written ELSE Len(run)
      v == [w EXCEPT
              !.disk   = [k \in Keys |->
                            IF k[1] = t /\ k[2] \in first .. first + done - 1
                              THEN run[k[2] - first + 1].good
                            ELSE IF fails /\ w.plan.torn /\ k = <<t, first + done>> THEN FALSE
                            ELSE @[k]],
              !.writes = @ + 1,
              !.err    = fails /\ w.plan.reported]
  IN  IF v.err THEN SetLocalError(v, t) ELSE v

\* flushContiguous: the run leaves the cache before its data go to the disk.
flushContiguous(w, pos, n) ==
  tr_ioWrite([w EXCEPT !.blocks = SubSeq(@, 1, pos - 1) \o SubSeq(@, pos + n, Len(@))],
             SubSeq(w.blocks, pos, pos + n - 1))

\* The positions that the first n runs take, in the array in which they were found.
Taken(runs, n) == UNION {runs[j].pos .. runs[j].pos + runs[j].len - 1 : j \in 1 .. n}

\* The run i has moved by as much as was flushed before it.
FlushRun(v, runs, i) ==
  LET moved == Cardinality({p \in Taken(runs, i - 1) : p < runs[i].pos})
  IN  IF v.err THEN v ELSE flushContiguous(v, runs[i].pos - moved, runs[i].len)

\* flushRuns: one run after the other up to the first error.
flushRuns(w, runs) ==
  LET after[i \in 0 .. Len(runs)] == IF i = 0 THEN w ELSE FlushRun(after[i - 1], runs, i)
  IN  after[Len(runs)]

\* The run at pos, if its first block belongs to what is flushed.
FlushAt(v, pos, first, last) ==
  IF /\ ~v.err
     /\ pos <= Len(v.blocks)
     /\ v.blocks[pos].key[1] = first[1] /\ v.blocks[pos].key[2] \in first[2] .. last
  THEN flushContiguous(v, pos, RunLength(v.blocks, pos))
  ELSE v

\* tr_cacheFlushFile and tr_cacheFlushTorrent: run after run from where first is or
\* would be, of which there are no more than blocks.
FlushFrom(w, first, last) ==
  LET pos == LowerBound(w.blocks, first)
      after[i \in 0 .. Len(w.blocks)] ==
        IF i = 0 THEN w ELSE FlushAt(after[i - 1], pos, first, last)
  IN  after[Len(w.blocks)]

tr_cacheFlushTorrent(w, t) == FlushFrom([w EXCEPT !.err = FALSE], <<t, 0>>, BlockCount[t] - 1)

tr_cacheFlushFile(w, t, f) == FlushFrom([w EXCEPT !.err = FALSE], <<t, f[1]>>, f[2])

\* tr_cacheFlushDone: the runs that come first in the order and have a flag.
FlushDone(w, runs) ==
  LET flagged == {n \in DOMAIN runs : \A m \in 1 .. n : runs[m].done \/ runs[m].multi}
  IN  flushRuns(w, SubSeq(runs, 1, Cardinality(flagged)))

\* Mutant: one block over the limit is tolerated.
cacheTrim_Late(w, runs, limit) ==
  LET cutoff == 1 + limit \div 4
      n == Cardinality({i \in DOMAIN runs : Cardinality(Taken(runs, i - 1)) < cutoff})
  IN  IF Len(w.blocks) > limit + 1 THEN flushRuns(w, SubSeq(runs, 1, n)) ELSE w

\* cacheTrim: over the limit, runs are flushed until they make a quarter of it.
cacheTrim(w, runs, limit) ==
  LET cutoff == 1 + limit \div 4
      n == Cardinality({i \in DOMAIN runs : Cardinality(Taken(runs, i - 1)) < cutoff})
  IN  IF Len(w.blocks) > limit THEN flushRuns(w, SubSeq(runs, 1, n)) ELSE w

\* The insertion of tr_cacheWriteBlock, or the replacement of the block's data.
Inserted(bs, k, good) ==
  LET pos == LowerBound(bs, k)
      new == [key |-> k, good |-> good]
  IN  IF InCache(bs, k) THEN [bs EXCEPT ![pos] = new] ELSE InsertAt(bs, pos, new)

-----------------------------------------------------------------------------
(* The callers. *)

Finish(w) ==
  /\ blocks' = w.blocks
  /\ disk' = w.disk
  /\ localError' = w.marked
  /\ UNCHANGED forgiven

\* tr_ioTestPiece: the piece is read through the cache.
PieceIsGood(w, t, i) == \A b \in PieceBlocks(t, i) : ContentIn(w.blocks, w.disk, <<t, b>>)

\* The files q, one after the other.
FlushFiles(w, t, q) ==
  LET after[i \in 0 .. Len(q)] == IF i = 0 THEN w ELSE tr_cacheFlushFile(after[i - 1], t, q[i])
  IN  after[Len(q)]

\* TR_PEER_CLIENT_GOT_BLOCK: a piece that completes is hashed.  If it is bad its blocks
\* are to be had again; if it is good the files that it completes are flushed.
GotBlock(w, t, b) ==
  LET i        == PieceOf(b)
      now      == [have EXCEPT ![t] = @ \cup {b}]
      complete == b \notin have[t] /\ PieceIsComplete(now, t, i)
      touches(f) == PieceOf(f[1]) <= i /\ i <= PieceOf(f[2])
      finished == {f \in Files[t] : touches(f) /\ f[1] .. f[2] \subseteq now[t]}
  IN  IF ~complete THEN Finish(w) /\ have' = now
      ELSE IF PieceIsGood(w, t, i)
        THEN /\ \E q \in SetToSeqs(finished) :
                  /\ \A m, n \in DOMAIN q : m < n => q[m][1] <= q[n][1]
                  /\ Finish(FlushFiles(w, t, q))
             /\ have' = now
        ELSE Finish(w) /\ have' = [have EXCEPT ![t] = @ \ PieceBlocks(t, i)]

\* clientGotBlock: the error of the flush, whatever torrent it is about, ends the
\* handler before the block is accounted for.
PeerBlock(t, b, good) ==
  /\ t \notin freed
  /\ b \notin have[t]
  /\ LET bs == Inserted(blocks, <<t, b>>, good) IN
     \E plan \in FaultPlans(bs), runs \in calcRuns(bs) :
         LET w == cacheTrim([Work(plan) EXCEPT !.blocks = bs], runs, maxBlocks)
         IN  IF w.err THEN Finish(w) /\ UNCHANGED have ELSE GotBlock(w, t, b)
  /\ UNCHANGED <<maxBlocks, freed>>

\* write_block_func of webseed.c: the error is ignored, and the block may be one that we
\* have.
WebseedBlock(t, b, good) ==
  /\ t \notin freed
  /\ LET bs == Inserted(blocks, <<t, b>>, good) IN
     \E plan \in FaultPlans(bs), runs \in calcRuns(bs) :
         GotBlock(cacheTrim([Work(plan) EXCEPT !.blocks = bs], runs, maxBlocks), t, b)
  /\ UNCHANGED <<maxBlocks, freed>>

\* onSaveTimer: finished pieces are flushed; tr_cacheFlushDone returns err.
FlushFinished(err) ==
  /\ \E plan \in FaultPlans(blocks), runs \in calcRuns(blocks) :
       LET w == FlushDone(Work(plan), runs) IN Finish(w) /\ err = w.err
  /\ UNCHANGED <<maxBlocks, have, freed>>

SaveTimer == \E err \in BOOLEAN : FlushFinished(err)

\* tr_cacheSetLimit.
SetLimit(n) ==
  /\ n # maxBlocks
  /\ maxBlocks' = n
  /\ \E plan \in FaultPlans(blocks), runs \in calcRuns(blocks) : Finish(cacheTrim(Work(plan), runs, n))
  /\ UNCHANGED <<have, freed>>

\* stopTorrent: the torrent is flushed up to the first error.
stopTorrent(t) ==
  /\ t \notin freed
  /\ \E plan \in FaultPlans(blocks) : Finish(tr_cacheFlushTorrent(Work(plan), t))
  /\ UNCHANGED <<maxBlocks, have>>

Stop(t) == stopTorrent(t) /\ UNCHANGED freed

\* torrentStartImpl clears the error, and keeps what the torrent claims to have.
Start(t) ==
  /\ t \in Startable \ freed
  /\ localError' = localError \ {t}
  /\ forgiven' = forgiven \cup ({t} \cap localError)
  /\ UNCHANGED <<blocks, maxBlocks, disk, have, freed>>

\* closeTorrent, from tr_torrentFree: the torrent is stopped and freed.
Close(t) ==
  /\ MayClose
  /\ stopTorrent(t)
  /\ freed' = freed \cup {t}

-----------------------------------------------------------------------------
Init ==
  /\ blocks = <<>>
  /\ maxBlocks \in Limits
  /\ disk = [k \in Keys |-> FALSE]
  /\ have = [t \in Torrents |-> {}]
  /\ localError = {}
  /\ forgiven = {}
  /\ freed = {}

\* A cached block of a freed torrent: what the cache does from then on is undefined.
Dangling == \E n \in DOMAIN blocks : blocks[n].key[1] \in freed

Next ==
  /\ ~Dangling
  /\ \/ \E k \in Keys, good \in BOOLEAN : PeerBlock(k[1], k[2], good)
     \/ \E k \in Keys, good \in WebseedData : WebseedBlock(k[1], k[2], good)
     \/ \E n \in Limits : SetLimit(n)
     \/ \E t \in Torrents : Start(t) \/ Stop(t) \/ Close(t)
     \/ SaveTimer

Spec == Init /\ [][Next]_vars

-----------------------------------------------------------------------------
(* Properties. *)

\* The type invariant; the array is sorted, as its binary searches need.
TypeOK ==
  /\ blocks \in Seq([key : Keys, good : BOOLEAN])
  /\ \A m, n \in DOMAIN blocks : m < n => Precedes(blocks[m].key, blocks[n].key)
  /\ maxBlocks \in Limits
  /\ disk \in [Keys -> BOOLEAN]
  /\ DOMAIN have = Torrents /\ \A t \in Torrents : have[t] \subseteq Blocks(t)
  /\ localError \subseteq Torrents
  /\ forgiven \subseteq Torrents
  /\ freed \subseteq Torrents

content == [k \in Keys |-> ContentIn(blocks, disk, k)]
Store == INSTANCE BlockStore WITH Keys <- Keys, content <- content, localError <- localError

\* The cache and the disk together are a store of blocks: a flush moves data without
\* changing what is read, and what a failed write loses is charged to its torrent, as
\* tr_ioWrite promises ("0 on success, or an errno value on failure"). A start takes the mark
\* away and brings nothing back.
IsStore == Store!Spec

\* A disk has failed for these torrents: they are marked with an error, or were until a start
\* took the mark away, without a look at the pieces that they still claim (torrent.c:1593).
Failed == localError \cup forgiven

\* A torrent whose disk has not failed has, of every piece that it claims, the data that was
\* hashed, in the cache or on the disk.
CompletePiecesAreGood ==
  \A t \in Torrents \ (Failed \cup freed) : \A i \in Pieces(t) :
    PieceIsComplete(have, t, i) => \A b \in PieceBlocks(t, i) : content[<<t, b>>]

\* A file whose last piece has come in is on the disk, if that has not failed.
CompleteFilesAreOnDisk ==
  \A t \in Torrents \ Failed : \A f \in Files[t] :
    (\A b \in f[1] .. f[2] : PieceIsComplete(have, t, PieceOf(b)))
      => \A b \in f[1] .. f[2] : disk[<<t, b>>]

\* No step leaves the cache over its limit and longer than before, even if writes fail.
LimitIsKept == [][Len(blocks') <= Max({maxBlocks', Len(blocks)}) \/ blocks' = <<>>]_vars

\* A freed torrent leaves no blocks in the cache, whose pointers to it would dangle; a
\* torrent whose disk has failed may (tr_cacheFlushTorrent stops at the first error).
FlushedWhenFreed ==
  \A n \in DOMAIN blocks : blocks[n].key[1] \in freed => blocks[n].key[1] \in localError

\* What a finished piece, a finished file and a freed torrent leave behind, for the torrents
\* whose writes have not failed: a torrent that is started after a failed write bears no mark
\* and still claims the pieces that were lost (torrentStartImpl), until they are verified.
FinishedDataIsSafe == TypeOK /\ CompletePiecesAreGood /\ CompleteFilesAreOnDisk /\ FlushedWhenFreed

-----------------------------------------------------------------------------
(* An instance for TLC: a torrent of one block and, next in the cache, a torrent of three *)
(* blocks in two pieces, whose two files meet inside piece 0.                              *)
ShortAndLong == <<1, 3>>
ShortAndLongFiles == <<{<<0, 0>>}, {<<0, 0>>, <<1, 2>>}>>
=============================================================================
