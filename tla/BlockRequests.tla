---------------------------- MODULE BlockRequests ----------------------------
(***************************************************************************)
(* The block requests of one torrent: libtransmission/peer-mgr.c with the  *)
(* callers that feed it (peer-msgs.c, webseed.c, torrent.c, verify.c).     *)
(*                                                                         *)
(* peer-mgr.c keeps two tables.  Torrent::requests says which block was    *)
(* requested from which peer; Torrent::pieces lists the pieces that are    *)
(* wanted, each with a count of its requests.  tr_peer::pendingReqsToPeer  *)
(* counts the requests of a peer.  Everything runs under the session lock, *)
(* so a handler is one step; what interleaves are the handlers: messages   *)
(* of several peers, web transfers, timers, the user, the verifier.        *)
(*                                                                         *)
(* Abstractions.  Blocks have one size.  The order of the piece list (its  *)
(* weights) is left open: every order is considered.  Time is left open:   *)
(* any request may be found too old.  Whether a completed piece passes its *)
(* hash is left open.  A peer's bitfield does not change.                  *)
(***************************************************************************)
EXTENDS Integers, FiniteSets, Sequences, SequencesExt

CONSTANTS
  BlockCount,     \* tr_torrent::blockCount
  BlocksInPiece,  \* tr_torrent::blockCountInPiece
  BtPeers,        \* the BitTorrent peers that may connect
  FastPeers,      \* those that use the fast extension (a choke keeps requests)
  ReliablePeers,  \* those whose answers liveness counts on
  Webseeds,       \* the torrent's webseeds
  PeerHas,        \* tr_peer::have, the pieces that each peer can send
  Desired,        \* the values of tr_peermsgs::desiredRequestCount
  MaxTasks        \* MAX_WEBSEED_CONNECTIONS

AllPeers == BtPeers \cup Webseeds
Blocks   == 0 .. BlockCount - 1

PieceOf(b) == b \div BlocksInPiece
Pieces     == {PieceOf(b) : b \in Blocks}
Tasks      == Blocks \X Blocks

ASSUME CountsAssumption ==
  /\ BlockCount \in Nat \ {0}
  /\ BlocksInPiece \in Nat \ {0}
  /\ MaxTasks \in Nat
  /\ Desired \subseteq Nat \ {0}

ASSUME PeersAssumption ==
  /\ IsFiniteSet(AllPeers)
  /\ BtPeers \cap Webseeds = {}
  /\ FastPeers \subseteq BtPeers
  /\ ReliablePeers \subseteq BtPeers
  /\ PeerHas \in [AllPeers -> SUBSET Pieces]

VARIABLES
  have,        \* completion.blockBitfield: the blocks that we have
  requests,    \* Torrent::requests: the blocks requested from each peer
  pending,     \* tr_peer::pendingReqsToPeer
  pieces,      \* Torrent::pieces: wanted piece -> requestCount, empty when NULL
  endgame,     \* Torrent::endgame
  peers,       \* Torrent::peers: the connected BitTorrent peers
  isRunning,   \* tr_torrent::isRunning
  dnd,         \* the pieces whose tr_piece::dnd is set
  isSeed,      \* tr_torrent::completeness # TR_LEECH
  needsCompletenessCheck,  \* Torrent::needsCompletenessCheck
  tasks        \* tr_webseed::tasks: the runs of blocks still to be fetched

vars == <<have, requests, pending, pieces, endgame, peers, isRunning, dnd,
          isSeed, needsCompletenessCheck, tasks>>

tables == <<requests, pending, pieces>>

-----------------------------------------------------------------------------
(* What the torrent has and what it lacks. *)

BlocksOf(i)         == {b \in Blocks : PieceOf(b) = i}
PieceIsComplete(i)  == BlocksOf(i) \subseteq have
WantedPieces(skip)  == {i \in Pieces \ skip : ~PieceIsComplete(i)}
LeftUntilDone(h)    == {b \in Blocks \ h : PieceOf(b) \notin dnd}
Requesters(b)       == {p \in AllPeers : b \in requests[p]}
requestCount        == Cardinality({r \in Blocks \X AllPeers : r[1] \in requests[r[2]]})

\* Mutant: a count may fall below zero.
Monus_NoFloor(m, n) == m - n

\* Subtraction that stops at zero, as every decrement of a count here does.
Monus(m, n) == IF m > n THEN m - n ELSE 0

-----------------------------------------------------------------------------
(* The tables. *)

\* pieceListRebuild: nothing is rebuilt for a seed; the counts are kept.
pieceListRebuild(skip) ==
  IF isSeed
    THEN pieces
    ELSE [i \in WantedPieces(skip) |-> IF i \in DOMAIN pieces THEN pieces[i] ELSE 0]

\* removeRequestFromTables for every <<block, peer>> of R.  A piece's count goes
\* down whether or not the request was in the list.
removeRequestFromTables(R) ==
  /\ requests' = [p \in AllPeers |-> {b \in requests[p] : <<b, p>> \notin R}]
  /\ pending'  = [p \in AllPeers |->
                    Monus(pending[p], Cardinality({b \in requests[p] : <<b, p>> \in R}))]
  /\ pieces'   = [i \in DOMAIN pieces |->
                    Monus(pieces[i], Cardinality({r \in R : PieceOf(r[1]) = i}))]

RequestsOf(P) == {r \in Blocks \X P : r[1] \in requests[r[2]]}

\* updateEndgame: the average number of requests per peer that is downloading.
updateEndgame(activeWebseeds) ==
  LET downloading == {p \in peers : pending[p] > 0} \cup activeWebseeds
  IN  IF requestCount < Cardinality(LeftUntilDone(have)) THEN 0
      ELSE IF endgame # 0 THEN endgame
      ELSE requestCount \div Max({1, Cardinality(downloading)})

-----------------------------------------------------------------------------
(* tr_peerMgrGetNextRequests. *)

\* A second request for a block is made in the endgame only.
Requestable(p, list, eg) ==
  {b \in Blocks \ have :
     /\ PieceOf(b) \in DOMAIN list \cap PeerHas[p]
     /\ b \notin requests[p]
     /\ Requesters(b) # {} => eg # 0 /\ Cardinality(Requesters(b)) <= 1}

\* The requestable blocks as the walk meets them: pieces as ordered, blocks upwards.
InWalkOrder(S, order) ==
  LET blocksOf(i) == [k \in 1 .. Cardinality(BlocksOf(i)) |-> i * BlocksInPiece + k - 1]
  IN  SelectSeq(FlattenSeq([k \in DOMAIN order |-> blocksOf(order[k])]), LAMBDA b : b \in S)

\* A webseed is asked for runs of blocks, and a block that goes on with the last
\* run is free; a peer is asked for single blocks.  A block that someone else was
\* asked for is taken if the peer is relatively fast.
Walk(p, want, eg, walk) ==
  LET prolongs(t, b) == p \in Webseeds /\ b - 1 \in t.blocks /\ PieceOf(b - 1) = PieceOf(b)
      isFast(t) == pending[p] + Cardinality(t.blocks) + want - t.got >= eg
      visit(t, b) ==
        IF /\ t.got < want \/ prolongs(t, b)
           /\ Requesters(b) # {} => isFast(t)
        THEN [blocks |-> t.blocks \cup {b},
              got    |-> IF prolongs(t, b) THEN t.got ELSE t.got + 1]
        ELSE t
  IN  FoldLeft(visit, [blocks |-> {}, got |-> 0], walk).blocks

\* The maximal runs of blocks of one piece: the intervals handed to a webseed.
Runs(S) ==
  LET joined(b, c) == b \in S /\ c \in S /\ PieceOf(b) = PieceOf(c)
  IN  {t \in S \X S : /\ t[1] <= t[2] /\ PieceOf(t[1]) = PieceOf(t[2])
                      /\ t[1] .. t[2] \subseteq S
                      /\ ~joined(t[1] - 1, t[1]) /\ ~joined(t[2], t[2] + 1)}

GetNextRequests(p, want) ==
  LET list == IF DOMAIN pieces = {} THEN pieceListRebuild(dnd) ELSE pieces
  IN  \E order \in SetToSeqs(DOMAIN list),
         active \in SUBSET {w \in Webseeds : tasks[w] # EmptyBag} :
        LET eg    == updateEndgame(active)
            may   == Requestable(p, list, eg)
            setme == may \cap Walk(p, want, eg, InWalkOrder(may, order))
        IN  /\ endgame'  = eg
            /\ requests' = [requests EXCEPT ![p] = @ \cup setme]
            /\ pending'  = [pending EXCEPT ![p] = @ + Cardinality(setme)]
            /\ pieces'   = [i \in DOMAIN list |->
                              list[i] + Cardinality({b \in setme : PieceOf(b) = i})]
            /\ tasks'    = [w \in Webseeds |->
                              IF w = p THEN tasks[w] (+) SetToBag(Runs(setme)) ELSE tasks[w]]

\* updateBlockRequests of peer-msgs.c, for a peer that is interesting and unchokes us.
RequestBlocks(p) ==
  /\ p \in peers
  /\ ~isSeed
  /\ \E desired \in Desired :
       /\ 100 * pending[p] <= 66 * desired
       /\ GetNextRequests(p, desired - pending[p])
  /\ UNCHANGED <<have, peers, isRunning, dnd, isSeed, needsCompletenessCheck>>

\* on_idle of webseed.c.  After failures it asks for less than it could run.
WebseedIdle(w) ==
  /\ isRunning
  /\ ~isSeed
  /\ \E want \in 1 .. MaxTasks :
       /\ want + BagCardinality(tasks[w]) <= MaxTasks
       /\ GetNextRequests(w, want)
  /\ UNCHANGED <<have, peers, isRunning, dnd, isSeed, needsCompletenessCheck>>

-----------------------------------------------------------------------------
(* What the peers answer. *)

\* TR_PEER_CLIENT_GOT_BLOCK: p delivered b and b is in the cache.  The requests of
\* the others for b are cancelled.  A completed piece is hashed: it leaves the list
\* or, if bad, loses all its blocks.
GotBlock(p, b, ok) ==
  LET i == PieceOf(b)
      completes == b \notin have /\ BlocksOf(i) \subseteq have \cup {b}
      counted   == [j \in DOMAIN pieces |->
                      Monus(pieces[j],
                            IF j = i THEN Cardinality(Requesters(b) \cup {p}) ELSE 0)]
  IN  /\ requests' = [q \in AllPeers |-> requests[q] \ {b}]
      /\ pending'  = [q \in AllPeers |->
                        IF b \in requests[q] THEN Monus(pending[q], 1) ELSE pending[q]]
      /\ pieces'   = [j \in DOMAIN pieces \ (IF completes /\ ok THEN {i} ELSE {}) |-> counted[j]]
      /\ have'     = IF completes /\ ~ok THEN have \ BlocksOf(i) ELSE have \cup {b}
      /\ needsCompletenessCheck' = (needsCompletenessCheck \/ b \notin have)

\* clientGotBlock of peer-msgs.c: a block that was not asked for, or of a piece that
\* is complete, is dropped.
PeerSendsBlock(p, b, ok) ==
  /\ p \in peers
  /\ b \in requests[p]
  /\ ~PieceIsComplete(PieceOf(b))
  /\ GotBlock(p, b, ok)
  /\ UNCHANGED <<endgame, peers, isRunning, dnd, isSeed, tasks>>

\* write_block_func of webseed.c: the next block of a transfer, wanted or not.
WebseedSendsBlock(w, task, ok) ==
  LET rest == IF task[1] < task[2] THEN SetToBag({<<task[1] + 1, task[2]>>}) ELSE EmptyBag
  IN  /\ BagIn(task, tasks[w])
      /\ GotBlock(w, task[1], ok)
      /\ tasks' = [tasks EXCEPT ![w] = (@ (-) SetToBag({task})) (+) rest]
      /\ UNCHANGED <<endgame, peers, isRunning, dnd, isSeed>>

\* Mutant: the transfer ends without rejecting its blocks.
WebseedFails_NoReject(w, task) ==
  /\ BagIn(task, tasks[w])
  /\ tasks' = [tasks EXCEPT ![w] = @ (-) SetToBag({task})]
  /\ UNCHANGED <<have, tables, endgame, peers, isRunning, dnd, isSeed, needsCompletenessCheck>>

\* web_response_func of webseed.c, without success: the rest of the run is rejected.
WebseedFails(w, task) ==
  /\ BagIn(task, tasks[w])
  /\ removeRequestFromTables((task[1] .. task[2]) \X {w})
  /\ tasks' = [tasks EXCEPT ![w] = @ (-) SetToBag({task})]
  /\ UNCHANGED <<have, endgame, peers, isRunning, dnd, isSeed, needsCompletenessCheck>>

\* TR_PEER_CLIENT_GOT_REJ: a peer may reject any block, one it was never asked for too.
PeerRejects(p, b) ==
  /\ p \in peers \cap FastPeers
  /\ removeRequestFromTables({<<b, p>>})
  /\ UNCHANGED <<have, endgame, peers, isRunning, dnd, isSeed, needsCompletenessCheck, tasks>>

\* TR_PEER_CLIENT_GOT_CHOKE, sent up for the peers without the fast extension only.
PeerChokes(p) ==
  /\ p \in peers \ FastPeers
  /\ removeRequestFromTables(RequestsOf({p}))
  /\ UNCHANGED <<have, endgame, peers, isRunning, dnd, isSeed, needsCompletenessCheck, tasks>>

\* Mutant: the peer keeps its count.
RefillUpkeep_PendingKept(old) ==
  /\ old # {}
  /\ requests' = [p \in AllPeers |-> {b \in requests[p] : <<b, p>> \notin old}]
  /\ UNCHANGED <<have, pending, pieces, endgame, peers, isRunning, dnd, isSeed,
                 needsCompletenessCheck, tasks>>

\* refillUpkeep: requests of BitTorrent peers that are too old are cancelled.
RefillUpkeep(old) ==
  /\ old # {}
  /\ old \subseteq RequestsOf(BtPeers)
  /\ removeRequestFromTables(old)
  /\ UNCHANGED <<have, endgame, peers, isRunning, dnd, isSeed, needsCompletenessCheck, tasks>>

-----------------------------------------------------------------------------
(* Peers and the torrent. *)

\* myHandshakeDoneCB: a new tr_peer, without requests.
Connect(p) ==
  /\ isRunning
  /\ p \in BtPeers \ peers
  /\ peers' = peers \cup {p}
  /\ pending' = [pending EXCEPT ![p] = 0]
  /\ UNCHANGED <<have, requests, pieces, endgame, isRunning, dnd, isSeed,
                 needsCompletenessCheck, tasks>>

\* Mutant: the peer is freed, its requests stay.
Disconnect_RequestsKept(p) ==
  /\ p \in peers
  /\ peers' = peers \ {p}
  /\ UNCHANGED <<have, tables, endgame, isRunning, dnd, isSeed, needsCompletenessCheck, tasks>>

\* removePeer: tr_peerDestruct declines all the peer's requests.
Disconnect(p) ==
  /\ p \in peers
  /\ peers' = peers \ {p}
  /\ removeRequestFromTables(RequestsOf({p}))
  /\ UNCHANGED <<have, endgame, isRunning, dnd, isSeed, needsCompletenessCheck, tasks>>

\* torrentStartImpl.
Start ==
  /\ ~isRunning
  /\ isRunning' = TRUE
  /\ isSeed' = (LeftUntilDone(have) = {})
  /\ UNCHANGED <<have, tables, endgame, peers, dnd, needsCompletenessCheck, tasks>>

\* stopTorrent of peer-mgr.c: every peer goes; the webseeds' transfers go on.
Stop ==
  /\ isRunning
  /\ isRunning' = FALSE
  /\ peers' = {}
  /\ removeRequestFromTables(RequestsOf(BtPeers))
  /\ UNCHANGED <<have, endgame, dnd, isSeed, needsCompletenessCheck, tasks>>

\* bandwidthPulse.
CompletenessCheck ==
  /\ needsCompletenessCheck
  /\ needsCompletenessCheck' = FALSE
  /\ isSeed' = (LeftUntilDone(have) = {})
  /\ UNCHANGED <<have, tables, endgame, peers, isRunning, dnd, tasks>>

\* Mutant: the list is not rebuilt.
SetFileDLs_NoRebuild(F, doDownload) ==
  /\ dnd' = IF doDownload THEN dnd \ F ELSE dnd \cup F
  /\ UNCHANGED <<have, tables, endgame, peers, isRunning, isSeed,
                 needsCompletenessCheck, tasks>>

\* tr_torrentSetFileDLs for files made of the pieces F.
SetFileDLs(F, doDownload) ==
  /\ dnd' = IF doDownload THEN dnd \ F ELSE dnd \cup F
  /\ dnd' # dnd
  /\ pieces' = pieceListRebuild(dnd')
  /\ UNCHANGED <<have, requests, pending, endgame, peers, isRunning, isSeed,
                 needsCompletenessCheck, tasks>>

\* tr_torrentSetFilePriorities.
SetFilePriorities ==
  /\ pieces' = pieceListRebuild(dnd)
  /\ UNCHANGED <<have, requests, pending, endgame, peers, isRunning, dnd, isSeed,
                 needsCompletenessCheck, tasks>>

\* verifyTorrent of verify.c: the hash of one piece, while the torrent is stopped.  A
\* piece that fails and was not complete keeps its blocks.
VerifyPiece(i, hasPiece) ==
  /\ ~isRunning
  /\ hasPiece \/ PieceIsComplete(i)
  /\ have' = IF hasPiece THEN have \cup BlocksOf(i) ELSE have \ BlocksOf(i)
  /\ UNCHANGED <<tables, endgame, peers, isRunning, dnd, isSeed, needsCompletenessCheck, tasks>>

\* torrentRecheckDoneImpl: what the verifier's end does for a torrent that stays stopped.
RecheckDone ==
  /\ ~isRunning
  /\ isSeed' = (LeftUntilDone(have) = {})
  /\ UNCHANGED <<have, tables, endgame, peers, isRunning, dnd, needsCompletenessCheck, tasks>>

-----------------------------------------------------------------------------
(* The specification.  At first the resume file has been read: some blocks, some *)
(* pieces not wanted, the torrent stopped.                                        *)

Init ==
  /\ have \in SUBSET Blocks
  /\ dnd \in SUBSET Pieces
  /\ requests = [p \in AllPeers |-> {}]
  /\ pending = [p \in AllPeers |-> 0]
  /\ pieces = [i \in {} |-> 0]
  /\ endgame = 0
  /\ peers = {}
  /\ isRunning = FALSE
  /\ isSeed = (LeftUntilDone(have) = {})
  /\ needsCompletenessCheck = FALSE
  /\ tasks = [w \in Webseeds |-> EmptyBag]

PeerStep ==
  \E p \in BtPeers :
    \/ Connect(p)
    \/ Disconnect(p)
    \/ RequestBlocks(p)
    \/ PeerChokes(p)
    \/ \E b \in Blocks : PeerRejects(p, b)
    \/ \E b \in Blocks, ok \in BOOLEAN : PeerSendsBlock(p, b, ok)

WebseedStep ==
  \E w \in Webseeds :
    \/ WebseedIdle(w)
    \/ \E task \in Tasks : WebseedFails(w, task)
    \/ \E task \in Tasks, ok \in BOOLEAN : WebseedSendsBlock(w, task, ok)

TimerStep ==
  \/ \E old \in SUBSET RequestsOf(BtPeers) : RefillUpkeep(old)
  \/ CompletenessCheck

UserStep ==
  \/ Start
  \/ Stop
  \/ SetFilePriorities
  \/ \E F \in SUBSET Pieces, doDownload \in BOOLEAN : SetFileDLs(F, doDownload)

VerifyStep ==
  \/ \E i \in Pieces, hasPiece \in BOOLEAN : VerifyPiece(i, hasPiece)
  \/ RecheckDone

Next == PeerStep \/ WebseedStep \/ TimerStep \/ UserStep \/ VerifyStep

Spec == Init /\ [][Next]_vars

\* What the code's own timers do sooner or later: the pulse of each connection, the
\* completeness check, the upkeep of each old request.
TimersAreFair ==
  /\ \A p \in BtPeers : WF_vars(RequestBlocks(p))
  /\ WF_vars(CompletenessCheck)
  /\ \A r \in Blocks \X BtPeers : WF_vars(RefillUpkeep({r}))

TimedSpec == Spec /\ TimersAreFair

\* A download left alone: not verified, its files not reselected, no data corrupt (a
\* peer that keeps sending bad data is banned).  A reliable peer stays, declines
\* nothing, and in the end sends each block it is asked for; the others do as they like.
DownloadStep ==
  \/ Start
  \/ TimerStep
  \/ \E w \in Webseeds, task \in Tasks :
       WebseedIdle(w) \/ WebseedFails(w, task) \/ WebseedSendsBlock(w, task, TRUE)
  \/ \E p \in BtPeers, b \in Blocks :
       Connect(p) \/ RequestBlocks(p) \/ PeerSendsBlock(p, b, TRUE)
  \/ \E p \in BtPeers \ ReliablePeers, b \in Blocks :
       Disconnect(p) \/ PeerChokes(p) \/ PeerRejects(p, b)

DownloadSpec ==
  /\ Init
  /\ [][DownloadStep]_vars
  /\ TimersAreFair
  /\ WF_vars(Start)
  /\ \A p \in ReliablePeers :
       /\ WF_vars(Connect(p))
       /\ SF_vars(RequestBlocks(p) /\ requests' # requests)
       /\ \A b \in Blocks : SF_vars(PeerSendsBlock(p, b, TRUE))

-----------------------------------------------------------------------------
(* Safety. *)

IsTaskBag(B) == IsABag(B) /\ BagToSet(B) \subseteq Tasks

\* The type invariant.
TypeOK ==
  /\ have \subseteq Blocks
  /\ requests \in [AllPeers -> SUBSET Blocks]
  /\ pending \in [AllPeers -> Nat]
  /\ DOMAIN pieces \subseteq Pieces
  /\ pieces \in [DOMAIN pieces -> Nat]
  /\ endgame \in Nat
  /\ peers \subseteq BtPeers
  /\ isRunning \in BOOLEAN
  /\ dnd \subseteq Pieces
  /\ isSeed \in BOOLEAN
  /\ needsCompletenessCheck \in BOOLEAN
  /\ DOMAIN tasks = Webseeds
  /\ \A w \in Webseeds : IsTaskBag(tasks[w])

\* tr_peer::pendingReqsToPeer, kept by hand on every path that adds or drops a
\* request, is the number of the peer's requests in Torrent::requests.  Were it too
\* high, updateBlockRequests would starve the peer for good.
PendingExact == \A p \in AllPeers : pending[p] = Cardinality(requests[p])

\* A piece's requestCount, which ranks the piece, never exceeds its requests in the
\* list (rejections of what was not asked for can make it too low).
CountBounded ==
  \A i \in DOMAIN pieces :
    pieces[i] <= Cardinality({r \in RequestsOf(AllPeers) : PieceOf(r[1]) = i})

\* Torrent::requests holds tr_peer pointers: none to a peer that was freed, and a
\* stopped torrent has no peers.
NoRequestOfDeadPeer ==
  /\ peers # {} => isRunning
  /\ \A p \in BtPeers \ peers : requests[p] = {}

\* No BitTorrent peer owes us a block that we have, whoever delivered it, and even if
\* a verification found it.
NoRequestForOwnedBlock == \A p \in BtPeers : requests[p] \cap have = {}

\* A webseed's requests are never too old, so each must belong to a transfer that will
\* answer it, or the block would stay requested for good.
WebseedRequestsAreServed ==
  \A w \in Webseeds : \A b \in requests[w] :
    \E task \in BagToSet(tasks[w]) : b \in task[1] .. task[2]

\* Endgame or not, no block is requested from more than two peers.
AtMostTwoRequests == \A b \in Blocks : Cardinality(Requesters(b)) <= 2

\* The list, unless it is to be rebuilt or there is nothing to download, "lists the pieces
\* that we want to request": no wanted piece is forgotten, whatever arrives, fails its hash, stops or is selected:
\* only a verification may find a piece missing that the list does not have.
WantedPiecesStayListed ==
  [][have \subseteq have' \/ isRunning =>
       LET unlisted == WantedPieces(dnd) \ DOMAIN pieces IN
       DOMAIN pieces' # {} /\ ~isSeed' => WantedPieces(dnd)' \ DOMAIN pieces' \subseteq unlisted]_vars

\* The list of requests agrees with the piece list, with what we have, and with the transfers
\* of the webseeds.
RequestsAreExact ==
  CountBounded /\ NoRequestForOwnedBlock /\ WebseedRequestsAreServed /\ AtMostTwoRequests

-----------------------------------------------------------------------------
(* Liveness. *)

\* A download left alone completes: no wanted block stays requested from a silent peer,
\* left out of the list, or forgotten after a failed hash.
DownloadCompletes == <>(LeftUntilDone(have) = {})

\* TR_PARTIAL_SEED "has the desired pieces", TR_LEECH "doesn't have all the desired
\* pieces": a running torrent is not called a seed for good while it lacks a wanted block.
SeedHasDesiredPieces == []<>(isRunning /\ isSeed => LeftUntilDone(have) = {})

-----------------------------------------------------------------------------
(* The instances that are checked. *)

\* All peers are seeds, as the webseeds are.
AllAreSeeds == [p \in AllPeers |-> Pieces]
=============================================================================
