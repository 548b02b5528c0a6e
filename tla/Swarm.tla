-------------------------------- MODULE Swarm --------------------------------
(***************************************************************************)
(* What a client has to do with the other peers of its torrents, beside    *)
(* the requests for blocks (BlockRequests): the handshake, the messages,   *)
(* the exchange of peers and of metadata, the connections, the choking and *)
(* the order of the piece list.                                            *)
(*                                                                         *)
(* The parts share no state but the connection they are about, and each    *)
(* takes from the others what its inputs say (a peer connects, a piece is  *)
(* complete, a piece was bad), in any order.  Their product would only     *)
(* multiply their states: a behaviour of this module is one of the part    *)
(* that `focus' names, and the variables of the other parts are Absent.    *)
(***************************************************************************)
EXTENDS Naturals, FiniteSets

CONSTANTS
  Clients, Askers, TorrentPieces, REQQ, MaxInFlight,
  Ends, Known, MaxPex, MaxMessages,
  MetadataPeers, Honest, Liars, Size, SizeHints, METADATA_REQQ, MaxUnanswered,
  Addresses, Blocklists, maxConnectedPeers, peerLimit, MAX_CONNECTIONS_PER_PULSE,
  MAX_BAD_PIECES_PER_PEER, maxAtomCount,
  Owners, pieceCount, blockCountInPiece, blockCountInLast, Priorities, Wanted,
  Peers, uploadSlotsPerTorrent, OPTIMISTIC_UNCHOKE_MULTIPLIER,
  MIN_INTERESTING_PEERS, maxWanted, maxIncrease,
  MaxConnections

VARIABLES
  focus,
  msgs, wire, fext,
  end, channel,
  incomplete, hasMetadata, source,
  isRunning, pool, peers, outgoing, incoming, open, blocklist, replaced,
  pieces, missing, priority, swarm, started, stopped, shortBad,
  peer, optimistic,
  wanted, interest,
  conf, a, b, toA, toB, isOpen, tries

\* Sizes are counted in pieces, and a negative size is not modelled.
ASSUME MetadataAssumption == Size \in Nat /\ SizeHints \subseteq Nat /\ METADATA_REQQ \in Nat

ASSUME PeersAssumption ==
  IsFiniteSet(Peers) /\ "nobody" \notin Peers /\ "a peer that is gone" \notin Peers

ASSUME SlotsAssumption == uploadSlotsPerTorrent \in Nat /\ OPTIMISTIC_UNCHOKE_MULTIPLIER \in Nat

ASSUME InterestAssumption ==
  MIN_INTERESTING_PEERS \in Nat /\ maxWanted \in Nat /\ maxIncrease \in Nat

\* The two ends of a connection.
ASSUME EndsAssumption ==
  (\E x, y \in Ends : x # y /\ Ends = {x, y}) /\ MaxMessages \in Nat \ {0}

\* The code knows no bound on how often it connects: once more is always possible.
ASSUME TriesAssumption == MaxConnections \in Nat /\ MaxConnections > 1

\* A connection has two ends, and REQQ is 512.
ASSUME WireAssumption ==
  (\E x, y \in Clients : x # y /\ Clients = {x, y}) /\ REQQ \in Nat \ {0}

\* A torrent has finitely many pieces, which have numbers.
ASSUME PiecesAssumption == TorrentPieces \subseteq Nat /\ IsFiniteSet(TorrentPieces)

Wire     == INSTANCE PeerMsgs WITH Pieces <- TorrentPieces
Exchange == INSTANCE PeerExchange WITH Addresses <- Known
Metadata == INSTANCE Magnet WITH Peers <- MetadataPeers, peer <- source
Conns    == INSTANCE Connections
Order    == INSTANCE PieceList WITH Peers <- Owners, isRunning <- started
Choking  == INSTANCE Rechoke
Shake    == INSTANCE Handshake WITH open <- isOpen

wireVars   == <<msgs, wire, fext>>
pexVars    == <<end, channel>>
magnetVars == <<incomplete, hasMetadata, source>>
connVars   == <<isRunning, pool, peers, outgoing, incoming, open, blocklist, replaced>>
listVars   == <<pieces, missing, priority, swarm, started, stopped, shortBad>>
chokeVars  == <<peer, optimistic>>
interestVars == <<wanted, interest>>
shakeVars  == <<conf, a, b, toA, toB, isOpen, tries>>
vars == <<focus, wireVars, pexVars, magnetVars, connVars, listVars, chokeVars,
          interestVars, shakeVars>>

Absent  == "absent"
NoWire        == msgs = Absent /\ wire = Absent /\ fext = Absent
NoExchange    == end = Absent /\ channel = Absent
NoMetadata    == incomplete = Absent /\ hasMetadata = Absent /\ source = Absent
NoConnections == /\ isRunning = Absent /\ pool = Absent /\ peers = Absent /\ outgoing = Absent
                 /\ incoming = Absent /\ open = Absent /\ blocklist = Absent /\ replaced = Absent
NoOrder       == /\ pieces = Absent /\ missing = Absent /\ priority = Absent /\ swarm = Absent
                 /\ started = Absent /\ stopped = Absent /\ shortBad = Absent
NoChoking     == peer = Absent /\ optimistic = Absent
NoInterest    == wanted = Absent /\ interest = Absent
NoHandshake   == /\ conf = Absent /\ a = Absent /\ b = Absent /\ toA = Absent /\ toB = Absent
                 /\ isOpen = Absent /\ tries = Absent

Init ==
  \/ focus = "wire" /\ Wire!Init
     /\ NoExchange /\ NoMetadata /\ NoConnections /\ NoOrder /\ NoChoking /\ NoInterest /\ NoHandshake
  \/ focus = "exchange" /\ Exchange!Init
     /\ NoWire /\ NoMetadata /\ NoConnections /\ NoOrder /\ NoChoking /\ NoInterest /\ NoHandshake
  \/ focus = "metadata" /\ Metadata!Init
     /\ NoWire /\ NoExchange /\ NoConnections /\ NoOrder /\ NoChoking /\ NoInterest /\ NoHandshake
  \/ focus = "connections" /\ Conns!Init
     /\ NoWire /\ NoExchange /\ NoMetadata /\ NoOrder /\ NoChoking /\ NoInterest /\ NoHandshake
  \/ focus = "order" /\ Order!Init
     /\ NoWire /\ NoExchange /\ NoMetadata /\ NoConnections /\ NoChoking /\ NoInterest /\ NoHandshake
  \/ focus = "choking" /\ Choking!Init
     /\ NoWire /\ NoExchange /\ NoMetadata /\ NoConnections /\ NoOrder /\ NoInterest /\ NoHandshake
  \/ focus = "interest" /\ Choking!InterestInit
     /\ NoWire /\ NoExchange /\ NoMetadata /\ NoConnections /\ NoOrder /\ NoChoking /\ NoHandshake
  \/ focus = "handshake" /\ Shake!Init
     /\ NoWire /\ NoExchange /\ NoMetadata /\ NoConnections /\ NoOrder /\ NoChoking /\ NoInterest

(***************************************************************************)
(* A step is one of the part in focus.                                     *)
(***************************************************************************)
Next ==
  /\ UNCHANGED focus
  /\ \/ focus = "wire" /\ Wire!Next
        /\ UNCHANGED <<pexVars, magnetVars, connVars,
                       listVars, chokeVars, interestVars, shakeVars>>
     \/ focus = "exchange" /\ Exchange!Next
        /\ UNCHANGED <<wireVars, magnetVars, connVars,
                       listVars, chokeVars, interestVars, shakeVars>>
     \/ focus = "metadata" /\ Metadata!Next
        /\ UNCHANGED <<wireVars, pexVars, connVars,
                       listVars, chokeVars, interestVars, shakeVars>>
     \/ focus = "connections" /\ Conns!Next
        /\ UNCHANGED <<wireVars, pexVars, magnetVars,
                       listVars, chokeVars, interestVars, shakeVars>>
     \/ focus = "order" /\ Order!Next
        /\ UNCHANGED <<wireVars, pexVars, magnetVars,
                       connVars, chokeVars, interestVars, shakeVars>>
     \/ focus = "choking" /\ Choking!Next
        /\ UNCHANGED <<wireVars, pexVars, magnetVars,
                       connVars, listVars, interestVars, shakeVars>>
     \/ focus = "interest" /\ Choking!InterestNext
        /\ UNCHANGED <<wireVars, pexVars, magnetVars,
                       connVars, listVars, chokeVars, shakeVars>>
     \/ focus = "handshake" /\ Shake!Next
        /\ UNCHANGED <<wireVars, pexVars, magnetVars,
                       connVars, listVars, chokeVars, interestVars>>

Spec == Init /\ [][Next]_vars

(***************************************************************************)
(* Properties: those of the parts, each with the types of its part.        *)
(***************************************************************************)
\* What an end believes of the other is what the other last said, and no piece is kept from a
\* peer, however the messages cross (readBtMessage, tr_peerMsgsSetChoke, tr_peerMsgsHave).
EndsAgree == focus = "wire" => Wire!TypeOK /\ Wire!EndsAgree /\ Wire!PiecesAreTold

\* With the fast extension every request that waits for a block is on its way, served or
\* rejected; without it, nothing is served to a choked peer (cancelAllRequestsToClient).
NoRequestIsForgotten == focus = "wire" => Wire!NoRequestIsForgotten /\ Wire!NothingForChoked

\* What one end was told of connected peers adds up to what the other end said (sendPex), but
\* for lists it did not take after its user had moved the switch (parseUtPex).
ToldIsHeard == focus = "exchange" => Exchange!TypeOK /\ Exchange!ToldIsHeard

\* Peers that send wrong metadata do not stop the download of it: what is not there is on the
\* list of what is asked for, unless the first peer said that there is nothing
\* (tr_torrentSetMetadataPiece, tr_torrentSetMetadataSizeHint).
MetadataAreAskedFor == focus = "metadata" => Metadata!TypeOK /\ Metadata!MetadataAreAskedFor

\* Each open connection belongs to one handshake or one peer, and each of those to an atom
\* (myHandshakeDoneCB, atomPulse, stopTorrent).
ConnectionsAreOwned ==
  focus = "connections" => Conns!TypeOK /\ Conns!ConnectionsAreOwned /\ Conns!AtomsOutliveTheirUsers

\* No connection is begun with an address that is blocked, and a banned one is not a peer
\* again (tr_peerMgrOnBlocklistChanged, isPeerCandidate).
BlockedAreLeftAlone == [][focus = "connections" => Conns!LeavesBlockedAlone]_vars

\* The piece list stays sorted by weight, and the replication counts are those of the peers:
\* assertWeightedPiecesAreSorted and assertReplicationCountIsExact.
PieceListIsExact ==
  focus = "order" => Order!TypeOK /\ Order!ListStaysSorted /\ Order!ReplicationIsExact

\* No more peers are unchoked than there are slots, but for the optimistic one and those that
\* do not use theirs (rechokeUploads); and we are interested in no more than were counted, and
\* in none once all is there (rechokeDownloads).
SlotsAreKept ==
  /\ focus = "choking" => Choking!TypeOK /\ Choking!SlotsAreKept
  /\ focus = "interest" => Choking!InterestTypeOK /\ Choking!InterestIsCounted

\* Both sides of a handshake end up with the same encryption, one that both want, and where
\* nothing goes wrong they succeed (readHandshake, gotError).
HandshakesAgree == focus = "handshake" => Shake!TypeOK /\ Shake!SidesAgree /\ Shake!Succeeds

-----------------------------------------------------------------------------
(* An instance for TLC: two clients, peers and addresses, or three.  One end knows two   *)
(* addresses, the other one; a blocklist blocks one address or none.                     *)
KnownAtTheEnds == [h |-> {"x", "y"}, l |-> {"w"}]
NoneOrOneBlocked == {{}, {"addr1"}}
=============================================================================
