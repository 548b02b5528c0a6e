------------------------------ MODULE PieceList ------------------------------
(***************************************************************************)
(* The order in which a torrent asks for its pieces (peer-mgr.c): the list *)
(* Torrent::pieces, sorted by weight, and the replication count of each    *)
(* piece, which the weight is made of.  Peers come and go, tell what they  *)
(* have, get requests and answer them.                                     *)
(*                                                                         *)
(* The list is never sorted as a whole while it is valid: each change of a *)
(* weight moves the piece, or declares the list invalid.                   *)
(*                                                                         *)
(* Abstractions.  Of the blocks of a piece only the number counts that is  *)
(* missing and that is requested from each peer (BlockRequests knows them  *)
(* by name); before the endgame, where no block is requested twice.  All   *)
(* files are wanted, each has pieces of its own, and there are no webseeds *)
(* (BlockRequests) and no verification (Lifecycle).  The salt, random in   *)
(* the code, is the number of the piece.  A peer keeps to the protocol:    *)
(* what it has comes before its first HAVE, and once.                      *)
(***************************************************************************)
EXTENDS Naturals, FiniteSets, Sequences, SequencesExt

CONSTANTS
  Peers,
  pieceCount,         \* tr_info::pieceCount
  blockCountInPiece,  \* tr_torrent::blockCountInPiece
  blockCountInLast,   \* tr_torrent::blockCountInLastPiece
  Priorities,         \* the values of tr_piece::priority
  Wanted              \* numwant of tr_peerMgrGetNextRequests

VARIABLES
  pieces,    \* Torrent::pieces, pieceSortState and pieceReplication (<<>> for NULL)
  missing,   \* tr_cpMissingBlocksInPiece
  priority,  \* tr_piece::priority
  swarm,     \* Torrent::peers: what each has (tr_peer::have) and was asked for
  isRunning, \* Torrent::isRunning
  stopped,   \* history: the torrent was stopped while requests were open
  shortBad   \* history: a last piece that is shorter than the others was bad

listVars == <<pieces, missing, priority, swarm, isRunning, stopped, shortBad>>

Pieces == 1 .. pieceCount

\* torrentInitFromInfo: the last piece may be shorter.
BlocksIn(i) == IF i = pieceCount THEN blockCountInLast ELSE blockCountInPiece

Without(f, x)     == [y \in DOMAIN f \ {x} |-> f[y]]
With(f, x, value) == [y \in DOMAIN f \cup {x} |-> IF y = x THEN value ELSE f[y]]

(***************************************************************************)
(* The weight.                                                             *)
(***************************************************************************)
\* replicationNew
replicationNew(s) == [i \in Pieces |-> Cardinality({p \in DOMAIN s : i \in s[p].have})]

\* What the weights depend on beside the list and the counts.
Torrent(s, m, prio) == [peers |-> s, missing |-> m, priority |-> prio]

\* comparePieceByWeight: what comes first is smaller, key by key.
Weight(p, t, e) ==
  LET m == e.missing[p.index] IN
  <<IF m > p.requestCount THEN m - p.requestCount ELSE blockCountInPiece + p.requestCount,
    2 - e.priority[p.index], t.replication[p.index], p.index>>
NotAfter(p, q, t, e) ==
  LET v == Weight(p, t, e)
      w == Weight(q, t, e)
  IN v = w \/ \E k \in 1 .. 4 : v[k] < w[k] /\ \A j \in 1 .. k - 1 : v[j] = w[j]

\* setComparePieceByWeightTorrent
Counted(t, e) == IF t.replication = <<>> THEN [t EXCEPT !.replication = replicationNew(e.peers)] ELSE t

\* pieceListSort
pieceListSort(t0, e) ==
  LET t == Counted(t0, e) IN
  [t EXCEPT !.sorted = TRUE,
            !.list = SetToSortSeq(ToSet(@), LAMBDA p, q : p # q /\ NotAfter(p, q, t, e))]

\* tr_lowerBound: where in the list the piece belongs, by bisection.
tr_lowerBound(p, list, t, e) ==
  LET find[first \in 0 .. Len(list), n \in 0 .. Len(list)] ==
        LET half == n \div 2 IN
        IF n = 0 THEN first
        ELSE IF NotAfter(p, list[first + half + 1], t, e) THEN find[first, half]
        ELSE find[first + half + 1, n - half - 1]
  IN find[0, Len(list)]

pieceListLookup(t, i) == SelectInSeq(t.list, LAMBDA p : p.index = i)

\* pieceListResortPiece
pieceListResortPiece(t0, i, e) ==
  LET pos  == pieceListLookup(t0, i)
      t    == Counted(t0, e)
      rest == RemoveAt(t.list, pos)
      InOrder(k) == NotAfter(t.list[k], t.list[k + 1], t, e)
  IN IF pos = 0 THEN t0
     ELSE IF ~t.sorted THEN pieceListSort(t, e)
     ELSE IF (pos > 1 => InOrder(pos - 1)) /\ (pos < Len(t.list) => InOrder(pos)) THEN t
     ELSE [t EXCEPT !.list = InsertAt(rest, tr_lowerBound(t.list[pos], rest, t, e) + 1, t.list[pos])]

\* pieceListRebuild of a torrent that is no seed: all that is not complete, the known ones as
\* they were.  A torrent that is complete is no seed until that is noticed
\* (tr_torrentRecheckCompleteness), so that its list may be empty and sorted.
pieceListRebuild(t, e) ==
  LET wanted   == {i \in Pieces : e.missing[i] > 0}
      Entry(i) == IF pieceListLookup(t, i) # 0 THEN t.list[pieceListLookup(t, i)]
                  ELSE [index |-> i, requestCount |-> 0] IN
  pieceListSort([t EXCEPT !.list = SetToSeq({Entry(i) : i \in wanted})], e)

\* pieceListRemoveRequest, once for each of n blocks of the piece
pieceListRemoveRequests(t, i, n, e) ==
  FoldLeft(LAMBDA u, k :
             LET pos == pieceListLookup(u, i) IN
             IF pos = 0 THEN u
             ELSE IF u.list[pos].requestCount = 0 THEN u
             ELSE pieceListResortPiece([u EXCEPT !.list[pos].requestCount = @ - 1], i, e),
           t, [k \in 1 .. n |-> k])

\* peerDeclinedAllRequests: all that peer p was asked for, s being the peers that are left.
peerDeclinedAllRequests(t, asked, s) ==
  FoldLeft(LAMBDA u, i : pieceListRemoveRequests(u, i, asked[i], Torrent(s, missing, priority)), t, [i \in Pieces |-> i])

(***************************************************************************)
(* Peers.                                                                  *)
(***************************************************************************)
NewPeer == [have |-> {}, told |-> FALSE, asked |-> [i \in Pieces |-> 0]]

Connect(p) ==
  /\ isRunning /\ p \notin DOMAIN swarm
  /\ swarm' = With(swarm, p, NewPeer)
  /\ UNCHANGED <<pieces, missing, priority, isRunning, stopped, shortBad>>

\* tr_incrReplicationFromBitfield
incrReplicationFromBitfield(t, S) ==
  IF t.replication = <<>> THEN t
  ELSE [t EXCEPT !.replication = [i \in Pieces |-> IF i \in S THEN @[i] + 1 ELSE @[i]], !.sorted = FALSE]

\* tr_incrReplication: the order stays what it is.
incrReplication(t) ==
  IF t.replication = <<>> THEN t ELSE [t EXCEPT !.replication = [i \in Pieces |-> @[i] + 1]]

\* What a peer has when it connects: TR_PEER_CLIENT_GOT_BITFIELD, TR_PEER_CLIENT_GOT_HAVE_ALL,
\* TR_PEER_CLIENT_GOT_HAVE_NONE.
Bitfield(p, S) ==
  /\ p \in DOMAIN swarm /\ ~swarm[p].told
  /\ swarm' = [swarm EXCEPT ![p].have = S, ![p].told = TRUE]
  /\ \/ pieces' = incrReplicationFromBitfield(pieces, S)
     \/ S = Pieces /\ pieces' = incrReplication(pieces)
     \/ S = {} /\ UNCHANGED pieces
  /\ UNCHANGED <<missing, priority, isRunning, stopped, shortBad>>

\* TR_PEER_CLIENT_GOT_HAVE, tr_incrReplicationOfPiece
Have(p, i) ==
  LET s == [swarm EXCEPT ![p].have = @ \cup {i}, ![p].told = TRUE]
      t == [pieces EXCEPT !.replication[i] = @ + 1] IN
  /\ p \in DOMAIN swarm /\ i \notin swarm[p].have
  /\ swarm' = s
  /\ pieces' = IF pieces.replication = <<>> THEN pieces
               ELSE IF t.sorted THEN pieceListResortPiece(t, i, Torrent(s, missing, priority)) ELSE t
  /\ UNCHANGED <<missing, priority, isRunning, stopped, shortBad>>

\* Mutant: a peer that had all the pieces is still counted.
decrReplicationFromBitfield_Seed(t, S) ==
  IF t.replication = <<>> \/ S \in {{}, Pieces} THEN t
  ELSE [t EXCEPT !.replication = [i \in Pieces |-> IF i \in S THEN @[i] - 1 ELSE @[i]], !.sorted = FALSE]

\* tr_decrReplicationFromBitfield
decrReplicationFromBitfield(t, S) ==
  IF t.replication = <<>> \/ S = {} THEN t
  ELSE [t EXCEPT !.replication = [i \in Pieces |-> IF i \in S THEN @[i] - 1 ELSE @[i]],
                 !.sorted = @ /\ S = Pieces]

\* removePeer
removePeer(p) ==
  LET s == Without(swarm, p) IN
  /\ p \in DOMAIN swarm
  /\ swarm' = s
  /\ pieces' = peerDeclinedAllRequests(decrReplicationFromBitfield(pieces, swarm[p].have), swarm[p].asked, s)
  /\ UNCHANGED <<missing, priority, isRunning, stopped, shortBad>>

(***************************************************************************)
(* Requests.                                                               *)
(***************************************************************************)
Asked(i) == FoldSet(LAMBDA p, n : swarm[p].asked[i] + n, 0, DOMAIN swarm)

\* The pieces that get requests, in the order of the list, the first numwant free blocks.
Walk(t, p, numwant) ==
  FoldLeft(LAMBDA a, k :
             LET i    == t.list[k].index
                 free == IF i \in swarm[p].have THEN missing[i] - Asked(i) ELSE 0
                 n    == IF free < numwant - a.got THEN free ELSE numwant - a.got
             IN IF n = 0 THEN a
                ELSE [got |-> a.got + n, last |-> k, asked |-> [a.asked EXCEPT ![i] = n],
                      list |-> [a.list EXCEPT ![k].requestCount = @ + n]],
           [got |-> 0, last |-> 0, asked |-> [i \in Pieces |-> 0], list |-> t.list],
           [k \in DOMAIN t.list |-> k])

\* The insertion sort after it: from the last piece that was changed to the first.
Reinsert(t, last) ==
  FoldLeft(LAMBDA u, j :
             LET k    == last + 1 - j
                 rest == SubSeq(u.list, k + 1, Len(u.list))
                 n    == tr_lowerBound(u.list[k], rest, u, Torrent(swarm, missing, priority)) IN
             [u EXCEPT !.list = InsertAt(RemoveAt(@, k), k + n, u.list[k])],
           t, [j \in 1 .. last |-> j])

\* tr_peerMgrGetNextRequests
GetNextRequests(p, numwant) ==
  LET e  == Torrent(swarm, missing, priority)
      t0 == IF pieces.list = <<>> THEN pieceListRebuild(pieces, e) ELSE pieces
      t  == IF t0.sorted THEN t0 ELSE pieceListSort(t0, e)
      w  == Walk(t, p, numwant) IN
  /\ p \in DOMAIN swarm
  /\ pieces' = Reinsert([t EXCEPT !.list = w.list], w.last)
  /\ swarm' = [swarm EXCEPT ![p].asked = [i \in Pieces |-> @[i] + w.asked[i]]]
  /\ UNCHANGED <<missing, priority, isRunning, stopped, shortBad>>

\* TR_PEER_CLIENT_GOT_REJ, or a request that was given up (refillUpkeep).  A rejection of a
\* request that is no longer open still takes one from the count of the piece.
Reject(p, i) ==
  LET s == [swarm EXCEPT ![p].asked[i] = IF @ > 0 THEN @ - 1 ELSE 0] IN
  /\ p \in DOMAIN swarm
  /\ swarm' = s
  /\ pieces' = pieceListRemoveRequests(pieces, i, 1, Torrent(s, missing, priority))
  /\ UNCHANGED <<missing, priority, isRunning, stopped, shortBad>>

\* TR_PEER_CLIENT_GOT_CHOKE
Choke(p) ==
  LET s == [swarm EXCEPT ![p].asked = [i \in Pieces |-> 0]] IN
  /\ p \in DOMAIN swarm /\ s # swarm
  /\ swarm' = s
  /\ pieces' = peerDeclinedAllRequests(pieces, swarm[p].asked, s)
  /\ UNCHANGED <<missing, priority, isRunning, stopped, shortBad>>

\* TR_PEER_CLIENT_GOT_BLOCK, of a block that was missing: with the last one the piece is
\* tested, and leaves the list (pieceListRemovePiece) or is missing again (tr_cpPieceRem).
\* A piece that is missing again stays where it was.
GotBlock(p, i, ok) ==
  LET s  == [swarm EXCEPT ![p].asked[i] = @ - 1]
      m  == [missing EXCEPT ![i] = @ - 1]
      t1 == pieceListRemoveRequests(pieces, i, 1, Torrent(s, missing, priority))
      t2 == pieceListResortPiece(t1, i, Torrent(s, m, priority)) IN
  /\ p \in DOMAIN swarm /\ swarm[p].asked[i] > 0
  /\ swarm' = s
  /\ \/ m[i] > 0 /\ ok /\ missing' = m /\ pieces' = t2 /\ UNCHANGED shortBad
     \/ m[i] = 0 /\ ok /\ missing' = m
        /\ pieces' = [t2 EXCEPT !.list = SelectSeq(@, LAMBDA e : e.index # i)] /\ UNCHANGED shortBad
     \/ m[i] = 0 /\ ~ok /\ missing' = [missing EXCEPT ![i] = BlocksIn(i)] /\ pieces' = t2
        /\ shortBad' = (shortBad \/ BlocksIn(i) # blockCountInPiece)
  /\ UNCHANGED <<priority, isRunning, stopped>>

\* tr_torrentSetFilePriorities, of the files that have the pieces S.  A torrent that is known to
\* be complete keeps its list.
SetPriority(S, v) ==
  LET prio == [i \in Pieces |-> IF i \in S THEN v ELSE priority[i]] IN
  /\ priority' = prio
  /\ \/ pieces' = pieceListRebuild(pieces, Torrent(swarm, missing, prio))
     \/ (\A i \in Pieces : missing[i] = 0) /\ UNCHANGED pieces
  /\ UNCHANGED <<missing, swarm, isRunning, stopped, shortBad>>

(***************************************************************************)
(* Start and stop.                                                         *)
(***************************************************************************)
Start ==
  /\ ~isRunning /\ isRunning' = TRUE
  /\ pieces' = [pieces EXCEPT !.sorted = FALSE]
  /\ UNCHANGED <<missing, priority, swarm, stopped, shortBad>>

\* stopTorrent: the counts are freed first, and the peers then go one by one; the requests of
\* one that goes are taken from the list, which is sorted, and counts the peers still there.
Stop(order) ==
  LET Gone(k) == [p \in DOMAIN swarm \ {order[j] : j \in 1 .. k} |-> swarm[p]] IN
  /\ isRunning /\ isRunning' = FALSE
  /\ swarm' = [p \in {} |-> 0]
  /\ pieces' = FoldLeft(LAMBDA t, k : peerDeclinedAllRequests(t, swarm[order[k]].asked, Gone(k)),
                        [pieces EXCEPT !.replication = <<>>, !.sorted = FALSE], [k \in DOMAIN order |-> k])
  /\ stopped' = (stopped \/ \E p \in DOMAIN swarm, i \in Pieces : swarm[p].asked[i] > 0)
  /\ UNCHANGED <<missing, priority, shortBad>>

Init ==
  /\ pieces = [list |-> <<>>, sorted |-> FALSE, replication |-> <<>>]
  /\ missing = [i \in Pieces |-> BlocksIn(i)]
  /\ priority \in {[i \in Pieces |-> v] : v \in Priorities}
  /\ swarm = [p \in {} |-> 0]
  /\ isRunning = FALSE /\ stopped = FALSE /\ shortBad = FALSE

Next ==
  \/ \E p \in Peers :
       \/ Connect(p) \/ removePeer(p) \/ Choke(p)
       \/ \E S \in SUBSET Pieces : Bitfield(p, S)
       \/ \E n \in Wanted : GetNextRequests(p, n)
       \/ \E i \in Pieces : \/ Have(p, i) \/ Reject(p, i)
                            \/ \E ok \in BOOLEAN : GotBlock(p, i, ok)
  \/ \E S \in SUBSET Pieces, v \in Priorities : SetPriority(S, v)
  \/ Start
  \/ \E order \in SetToSeqs(DOMAIN swarm) : Stop(order)

(***************************************************************************)
(* Properties.                                                             *)
(***************************************************************************)
TypeOK ==
  /\ pieces.sorted \in BOOLEAN /\ {isRunning, stopped, shortBad} \subseteq BOOLEAN
  /\ missing \in [Pieces -> 0 .. blockCountInPiece]
  /\ DOMAIN swarm \subseteq Peers

\* assertWeightedPiecesAreSorted, which is compiled out: whatever changes a weight, of one
\* piece or of many, while the list is taken for sorted (PIECES_SORTED_BY_WEIGHT) keeps it
\* sorted, so that bisection finds the place of the next one.  A last piece that is bad and
\* shorter than the others is the one change that is forgotten (TR_PEER_CLIENT_GOT_BLOCK).
ListStaysSorted ==
  pieces.sorted /\ ~shortBad => \A k \in 1 .. Len(pieces.list) - 1 :
    NotAfter(pieces.list[k], pieces.list[k + 1], pieces, Torrent(swarm, missing, priority))

\* assertReplicationCountIsExact, also compiled out: each piece is counted once for every peer
\* that has it, however peers come and go.  A stop that finds requests open counts peers that
\* are just leaving (stopTorrent), after which the counts may be too high but never too low,
\* so that they never wrap.
ReplicationIsExact ==
  pieces.replication # <<>> =>
    \A i \in Pieces : LET n == replicationNew(swarm)[i] IN
      pieces.replication[i] >= n /\ (stopped \/ pieces.replication[i] = n)
=============================================================================
