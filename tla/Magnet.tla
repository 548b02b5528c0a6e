-------------------------------- MODULE Magnet --------------------------------
(***************************************************************************)
(* The metadata of a torrent that was added by a magnet link               *)
(* (torrent-magnet.c), fetched in pieces from the peers with the           *)
(* ut_metadata extension (peer-msgs.c).                                    *)
(*                                                                         *)
(* Some peers have the metadata and answer truly, some have none and       *)
(* reject, some send wrong data; each may disconnect and come back.  The   *)
(* same code serves the requests at the other end.                         *)
(*                                                                         *)
(* Abstractions.  A piece of metadata is good or bad, and the checksum     *)
(* passes if all are good and the size is the true one.  A request is      *)
(* recent (less than MIN_REPEAT_INTERVAL_SECS old) or not.                 *)
(***************************************************************************)
EXTENDS Naturals, FiniteSets, Sequences, SequencesExt, FiniteSetsExt

CONSTANTS
  Peers,            \* the peers of the torrent
  Honest, Liars,    \* those that have the metadata; those that send wrong data
  Size,             \* how many pieces the metadata has
  SizeHints,        \* the sizes, in pieces, that liars tell
  METADATA_REQQ,    \* METADATA_REQQ: the size of peerAskedForMetadata
  MaxUnanswered     \* bound: requests on their way to a peer and answers on their way back

VARIABLES
  incomplete,   \* tr_torrent::incompleteMetadata, <<>> for NULL
  hasMetadata,  \* tr_torrentHasMetadata
  peer          \* each connection: the handshake, what we asked, its queue, its answers

magnetVars == <<incomplete, hasMetadata, peer>>

NoPeer == [connected |-> FALSE, supports |-> FALSE, toPeer |-> <<>>, asked |-> <<>>, fromPeer |-> <<>>]

Init ==
  /\ incomplete = <<>>
  /\ hasMetadata = FALSE
  /\ peer = [p \in Peers |-> NoPeer]

Connect(p) ==
  /\ ~peer[p].connected
  /\ peer' = [peer EXCEPT ![p].connected = TRUE]
  /\ UNCHANGED <<incomplete, hasMetadata>>

Disconnect(p) ==
  /\ peer[p].connected
  /\ peer' = [peer EXCEPT ![p] = NoPeer]
  /\ UNCHANGED <<incomplete, hasMetadata>>

(***************************************************************************)
(* Our end.                                                                *)
(***************************************************************************)
AllNeeded(n) == [i \in 1 .. n |-> [piece |-> i, recent |-> FALSE]]

\* tr_torrentSetMetadataSizeHint: the first hint counts, also if it is that there is nothing.
tr_torrentSetMetadataSizeHint(n) ==
  IF hasMetadata \/ incomplete # <<>> THEN UNCHANGED incomplete
  ELSE incomplete' = <<[pieceCount |-> n, needed |-> AllNeeded(n), metadata |-> [i \in 1 .. n |-> "none"]]>>

\* parseLtepHandshake, of a peer that has the extension; one that has the metadata tells the size.
GetHandshake(p) ==
  /\ peer[p].connected /\ ~peer[p].supports
  /\ peer' = [peer EXCEPT ![p].supports = TRUE]
  /\ IF p \in Honest \cup Liars
     THEN \E n \in (IF p \in Honest THEN {Size} ELSE SizeHints) : tr_torrentSetMetadataSizeHint(n)
     ELSE UNCHANGED incomplete
  /\ UNCHANGED hasMetadata

\* updateMetadataRequests, tr_torrentGetNextMetadataRequest: the piece that was asked for the
\* longest ago, if not just now, goes to the end of the list.
Unanswered == MapThenSumSet(LAMBDA q : Len(peer[q].toPeer) + Len(peer[q].asked) + Len(peer[q].fromPeer), Peers)
CanRequest(p) == /\ peer[p].supports
                 /\ incomplete # <<>> /\ incomplete[1].needed # <<>>
                 /\ ~Head(incomplete[1].needed).recent
                 /\ Unanswered < MaxUnanswered
Request(p) ==
  LET m == incomplete[1] IN
  /\ CanRequest(p)
  /\ incomplete' = <<[m EXCEPT !.needed = Append(Tail(@), [Head(@) EXCEPT !.recent = TRUE])]>>
  /\ peer' = [peer EXCEPT ![p].toPeer = Append(@, Head(m.needed).piece)]
  /\ UNCHANGED hasMetadata

\* More than MIN_REPEAT_INTERVAL_SECS go by.
Wait ==
  /\ incomplete # <<>> /\ \E i \in DOMAIN incomplete[1].needed : incomplete[1].needed[i].recent
  /\ incomplete' = <<[incomplete[1] EXCEPT !.needed = [i \in DOMAIN @ |-> [@[i] EXCEPT !.recent = FALSE]]]>>
  /\ UNCHANGED <<hasMetadata, peer>>

ChecksumPasses(m) == m.pieceCount = Size /\ \A i \in 1 .. m.pieceCount : m.metadata[i] = "good"

\* Mutant: the pieces that came before a failed checksum are kept.
tr_torrentSetMetadataPiece_NoReset(piece, data) ==
  LET m == incomplete[1]
      i == SelectInSeq(m.needed, LAMBDA n : n.piece = piece)
      g == [m EXCEPT !.metadata[piece] = data, !.needed = RemoveAt(@, i)] IN
  IF incomplete = <<>> THEN UNCHANGED <<incomplete, hasMetadata>>
  ELSE IF i = 0 THEN UNCHANGED <<incomplete, hasMetadata>>
  ELSE IF g.needed = <<>> /\ ChecksumPasses(g) THEN incomplete' = <<>> /\ hasMetadata' = TRUE
  ELSE incomplete' = <<g>> /\ UNCHANGED hasMetadata

\* tr_torrentSetMetadataPiece: with the last piece the checksum is tested, and all pieces are
\* needed again if it fails.
tr_torrentSetMetadataPiece(piece, data) ==
  LET m == incomplete[1]
      i == SelectInSeq(m.needed, LAMBDA n : n.piece = piece)
      g == [m EXCEPT !.metadata[piece] = data, !.needed = RemoveAt(@, i)] IN
  IF incomplete = <<>> THEN UNCHANGED <<incomplete, hasMetadata>>
  ELSE IF i = 0 THEN UNCHANGED <<incomplete, hasMetadata>>
  ELSE IF g.needed # <<>> THEN incomplete' = <<g>> /\ UNCHANGED hasMetadata
  ELSE IF ChecksumPasses(g) THEN incomplete' = <<>> /\ hasMetadata' = TRUE
  ELSE incomplete' = <<[g EXCEPT !.needed = AllNeeded(g.pieceCount)]>> /\ UNCHANGED hasMetadata

\* parseUtMetadata, of an answer: a reject is not even noticed.
GetAnswer(p) ==
  LET m == Head(peer[p].fromPeer) IN
  /\ peer[p].fromPeer # <<>>
  /\ peer' = [peer EXCEPT ![p].fromPeer = Tail(@)]
  /\ IF m.data = "reject" \/ hasMetadata THEN UNCHANGED <<incomplete, hasMetadata>>
     ELSE tr_torrentSetMetadataPiece(m.piece, m.data)

(***************************************************************************)
(* The peer's end.                                                         *)
(***************************************************************************)
\* parseUtMetadata, of a request: queued, or rejected at once.
GetRequest(p) ==
  LET q == Head(peer[p].toPeer) IN
  /\ peer[p].toPeer # <<>>
  /\ peer' = [peer EXCEPT ![p].toPeer = Tail(@),
       ![p].asked    = IF p \in Honest \cup Liars /\ Len(@) < METADATA_REQQ THEN Append(@, q) ELSE @,
       ![p].fromPeer = IF p \in Honest \cup Liars /\ Len(peer[p].asked) < METADATA_REQQ THEN @
                       ELSE Append(@, [piece |-> q, data |-> "reject"])]
  /\ UNCHANGED <<incomplete, hasMetadata>>

\* fillOutputBuffer, tr_torrentGetMetadataPiece: there is no piece beyond the true size.
SendMetadata(p) ==
  LET q == Head(peer[p].asked) IN
  /\ peer[p].asked # <<>>
  /\ \E data \in (IF p \in Liars THEN {"good", "bad"} ELSE IF q <= Size THEN {"good"} ELSE {"reject"}) :
       peer' = [peer EXCEPT ![p].asked = Tail(@), ![p].fromPeer = Append(@, [piece |-> q, data |-> data])]
  /\ UNCHANGED <<incomplete, hasMetadata>>

Next ==
  \/ \E p \in Peers : \/ Connect(p) \/ Disconnect(p) \/ GetHandshake(p) \/ Request(p)
                      \/ GetAnswer(p) \/ GetRequest(p) \/ SendMetadata(p)
  \/ Wait

(***************************************************************************)
(* Properties.                                                             *)
(***************************************************************************)
TypeOK ==
  /\ hasMetadata \in BOOLEAN
  /\ \A p \in Peers : /\ {peer[p].connected, peer[p].supports} \subseteq BOOLEAN
                      /\ Len(peer[p].asked) <= METADATA_REQQ

\* Once there are metadata nothing is fetched any more, and until then every piece of the size
\* that is believed is there or on the list of what is needed, once and in the order of the
\* requests; and the list is not empty, so that a failed checksum, with answers to older
\* requests on their way, leaves the client with something to do (tr_torrentSetMetadataPiece).
\* The exception is a first hint of no size, by which nothing is ever needed.
MetadataAreAskedFor ==
  /\ hasMetadata => incomplete = <<>>
  /\ incomplete # <<>> =>
       LET m == incomplete[1]
           needed == {m.needed[i].piece : i \in DOMAIN m.needed} IN
       /\ m.pieceCount > 0 => needed # {}
       /\ Cardinality(needed) = Len(m.needed)
       /\ \A i \in (1 .. m.pieceCount) \ needed : m.metadata[i] # "none"
       /\ \A i, j \in DOMAIN m.needed : i < j /\ m.needed[i].recent => m.needed[j].recent
=============================================================================
