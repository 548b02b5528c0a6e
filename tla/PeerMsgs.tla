------------------------------- MODULE PeerMsgs -------------------------------
(***************************************************************************)
(* The peer wire protocol (peer-msgs.c) between two clients that both run  *)
(* this code, over a connection that has just been shaken hands on.        *)
(*                                                                         *)
(* Each end has a buffer of protocol messages, which the pulse flushes     *)
(* after a while, and writes blocks past that buffer; the connection keeps *)
(* the order of what is written.  The ends choke, unchoke, lose interest   *)
(* and give up requests at any time, so that messages cross.               *)
(*                                                                         *)
(* Abstractions.  A piece is a block.  The batch period, the speed that    *)
(* the number of requests depends on, and the room in the write buffer are *)
(* left open, as are the decisions of the peer manager (whom to choke, in  *)
(* whom to be interested, which block to ask for or to give up).           *)
(***************************************************************************)
EXTENDS Naturals, FiniteSets, Sequences, SequencesExt

CONSTANTS
  Clients,     \* the two ends
  Askers,      \* bound: the ends that ask for pieces, and whose peer chokes them or not
  Pieces,      \* the pieces of the torrent
  REQQ,        \* REQQ: the size of peerAskedFor
  MaxInFlight  \* bound: unread messages, from which on the ends only answer

VARIABLES
  msgs,   \* struct tr_peermsgs and struct tr_peer at each end
  wire,   \* what each end has written and the other has not read
  fext    \* whether both support the fast extension

wireVars == <<msgs, wire, fext>>

Peer(c) == CHOOSE d \in Clients : d # c

Flags     == {"choke", "unchoke", "interested", "not interested"}
OfPiece   == {"have", "request", "cancel", "reject", "piece"}
Ids       == Flags \cup OfPiece \cup {"bitfield", "have all", "have none"}
Msg(id, pieces) == [id |-> id, pieces |-> pieces]
Send(e, id, pieces) == [e EXCEPT !.outMessages = Append(@, Msg(id, pieces))]
Each(id, ps) == [i \in 1 .. Len(ps) |-> Msg(id, {ps[i]})]

\* The numbers of a set, in order.
InOrder(S) == [i \in 1 .. Cardinality(S) |-> CHOOSE x \in S : Cardinality({y \in S : y < x}) = i - 1]

\* All that c has to say and its peer has not heard, in the order it will hear it.
InFlight(c) == wire[c] \o msgs[c].outMessages

(***************************************************************************)
(* A connection begins (tr_peerMsgsNew).                                   *)
(***************************************************************************)
\* tellPeerWhatWeHave
tellPeerWhatWeHave(have, ext) ==
  IF ext /\ have = Pieces  THEN <<Msg("have all", {})>>
  ELSE IF ext /\ have = {} THEN <<Msg("have none", {})>>
  ELSE IF have # {}        THEN <<Msg("bitfield", have)>> ELSE <<>>

tr_peerMsgsNew(have, ext) ==
  [have |-> have, peerHas |-> {},
   peerIsChoked |-> TRUE, clientIsChoked |-> TRUE,
   peerIsInterested |-> FALSE, clientIsInterested |-> FALSE,
   peerAskedFor |-> <<>>, requested |-> {}, reading |-> {},
   outMessages |-> tellPeerWhatWeHave(have, ext)]

Init ==
  \E have \in [Clients -> SUBSET Pieces], ext \in BOOLEAN :
    /\ \A c \in Clients \ Askers : have[c] # {}
    /\ msgs = [c \in Clients |-> tr_peerMsgsNew(have[c], ext)]
    /\ wire = [c \in Clients |-> <<>>]
    /\ fext = ext

(***************************************************************************)
(* What the peer manager tells an end to do.                               *)
(***************************************************************************)
Talkative(c) == Len(InFlight(c)) + Len(InFlight(Peer(c))) < MaxInFlight
Set(c, e) == msgs' = [msgs EXCEPT ![c] = e] /\ UNCHANGED <<wire, fext>>

SetInterested(c, b) ==
  LET e == msgs[c] IN
  /\ c \in Askers /\ Talkative(c) /\ e.clientIsInterested # b
  /\ Set(c, Send([e EXCEPT !.clientIsInterested = b], IF b THEN "interested" ELSE "not interested", {}))

\* cancelAllRequestsToClient: the rejects go out before the choke.
cancelAllRequestsToClient(e) ==
  [e EXCEPT !.peerAskedFor = <<>>,
            !.outMessages = IF fext THEN @ \o Each("reject", e.peerAskedFor) ELSE @]

\* Mutant: the requests of a choked peer are dropped and not rejected.
SetChoke_Silent(c, b) ==
  LET e == msgs[c] IN
  /\ Peer(c) \in Askers /\ Talkative(c) /\ e.peerIsChoked # b
  /\ Set(c, Send([e EXCEPT !.peerIsChoked = b, !.peerAskedFor = IF b THEN <<>> ELSE @],
                 IF b THEN "choke" ELSE "unchoke", {}))

\* tr_peerMsgsSetChoke
SetChoke(c, b) ==
  LET e  == msgs[c]
      e1 == [e EXCEPT !.peerIsChoked = b] IN
  /\ Peer(c) \in Askers /\ Talkative(c) /\ e.peerIsChoked # b
  /\ Set(c, Send(IF b THEN cancelAllRequestsToClient(e1) ELSE e1, IF b THEN "choke" ELSE "unchoke", {}))

\* tr_peerMsgsCancel, for a request that has waited too long (refillUpkeep), unless the
\* block is just coming in (tr_peerMsgsIsReadingBlock).
Cancel(c, p) ==
  LET e == msgs[c] IN
  /\ Talkative(c) /\ p \in e.requested \ e.reading
  /\ Set(c, Send([e EXCEPT !.requested = @ \ {p}], "cancel", {p}))

\* The client gets a piece, from this peer or from another one: a request for it that is
\* still open is cancelled, and the peer is told (peerCallbackFunc).
tr_peerMsgsHave(e, p) == Send([e EXCEPT !.have = @ \cup {p}, !.requested = @ \ {p}], "have", {p})

GotElsewhere(c, p) ==
  LET e == msgs[c] IN
  /\ c \in Askers /\ Talkative(c) /\ p \notin e.have
  /\ Set(c, tr_peerMsgsHave(IF p \in e.requested THEN Send(e, "cancel", {p}) ELSE e, p))

(***************************************************************************)
(* The pulse (peerPulse): new requests, then what is due is written.       *)
(***************************************************************************)
\* updateDesiredRequestCount, updateBlockRequests
MayRequest(e) == e.have # Pieces /\ ~e.clientIsChoked /\ e.clientIsInterested
updateBlockRequests(e, R) ==
  [e EXCEPT !.requested = @ \cup R, !.outMessages = @ \o Each("request", InOrder(R))]

\* fillOutputBuffer, called until it writes nothing: the buffer if it is flushed, then n of
\* the blocks the peer asked for, the last of which cannot be read if bad.  A piece that was
\* lost in the meantime is rejected.
Served(e, n, bad) == {i \in 1 .. n : e.peerAskedFor[i] \in e.have /\ ~(bad /\ i = n)}
fillOutputBuffer(c, e, flush, n, bad) ==
  LET good     == Served(e, n, bad)
      Asked(S) == LET s == InOrder(S) IN [i \in 1 .. Len(s) |-> e.peerAskedFor[s[i]]] IN
  /\ msgs' = [msgs EXCEPT ![c] =
       [e EXCEPT !.peerAskedFor = SubSeq(@, n + 1, Len(@)),
                 !.have = IF bad THEN @ \ {e.peerAskedFor[n]} ELSE @,
                 !.outMessages = (IF flush THEN <<>> ELSE @)
                                 \o (IF fext THEN Each("reject", Asked((1 .. n) \ good)) ELSE <<>>)]]
  /\ wire' = [wire EXCEPT ![c] = @ \o (IF flush THEN e.outMessages ELSE <<>>) \o Each("piece", Asked(good))]
  /\ UNCHANGED fext

Pulse(c, R, flush, n, bad) ==
  LET e == msgs[c] IN
  /\ R \subseteq e.peerHas \ (e.have \cup e.requested)
  /\ R # {} => MayRequest(e) /\ Talkative(c)
  /\ n <= Len(e.peerAskedFor) /\ (bad => n > 0)
  /\ fillOutputBuffer(c, updateBlockRequests(e, R), flush, n, bad)

(***************************************************************************)
(* A message is read (canRead, readBtLength, readBtId, readBtMessage).     *)
(***************************************************************************)
Next1(c) == Head(wire[Peer(c)])
Incoming(c, ids) == wire[Peer(c)] # <<>> /\ Next1(c).id \in ids
Read(c, e) ==
  /\ msgs' = [msgs EXCEPT ![c] = e]
  /\ wire' = [wire EXCEPT ![Peer(c)] = Tail(@)]
  /\ UNCHANGED fext
ThePiece(c) == CHOOSE p \in Next1(c).pieces : TRUE

ReadChoke(c) ==
  LET e == msgs[c] IN
  /\ Incoming(c, {"choke"})
  /\ Read(c, [e EXCEPT !.clientIsChoked = TRUE, !.requested = IF fext THEN @ ELSE {}])

\* Mutant: losing interest is taken for having it.
ReadFlag_Interest(c) ==
  LET e == msgs[c] IN
  /\ Incoming(c, Flags \ {"choke"})
  /\ Read(c, IF Next1(c).id = "unchoke" THEN [e EXCEPT !.clientIsChoked = FALSE]
                                        ELSE [e EXCEPT !.peerIsInterested = TRUE])

ReadFlag(c) ==
  LET e == msgs[c] IN
  /\ Incoming(c, Flags \ {"choke"})
  /\ Read(c, CASE Next1(c).id = "unchoke"        -> [e EXCEPT !.clientIsChoked = FALSE]
               [] Next1(c).id = "interested"     -> [e EXCEPT !.peerIsInterested = TRUE]
               [] Next1(c).id = "not interested" -> [e EXCEPT !.peerIsInterested = FALSE])

ReadWhatPeerHas(c) ==
  LET e == msgs[c] IN
  /\ Incoming(c, {"have", "bitfield", "have all", "have none"})
  /\ Read(c, [e EXCEPT !.peerHas = CASE Next1(c).id = "have"      -> @ \cup Next1(c).pieces
                                     [] Next1(c).id = "bitfield"  -> Next1(c).pieces
                                     [] Next1(c).id = "have all"  -> Pieces
                                     [] Next1(c).id = "have none" -> {}])

\* peerMadeRequest
ReadRequest(c) ==
  LET e     == msgs[c]
      p     == ThePiece(c)
      allow == p \in e.have /\ ~e.peerIsChoked /\ Len(e.peerAskedFor) + 1 < REQQ IN
  /\ Incoming(c, {"request"})
  /\ Read(c, IF allow     THEN [e EXCEPT !.peerAskedFor = Append(@, p)]
             ELSE IF fext THEN Send(e, "reject", {p}) ELSE e)

ReadCancel(c) ==
  LET e == msgs[c]
      i == SelectInSeq(e.peerAskedFor, LAMBDA p : p \in Next1(c).pieces) IN
  /\ Incoming(c, {"cancel"})
  /\ Read(c, IF i = 0 THEN e ELSE [e EXCEPT !.peerAskedFor = RemoveAt(@, i)])

ReadReject(c) ==
  /\ Incoming(c, {"reject"})
  /\ Read(c, [msgs[c] EXCEPT !.requested = @ \ Next1(c).pieces])

\* readBtPiece: the header of a block, then its data.
ReadPieceHeader(c) ==
  /\ Incoming(c, {"piece"}) /\ msgs[c].reading = {}
  /\ Set(c, [msgs[c] EXCEPT !.reading = Next1(c).pieces])

\* clientGotBlock
ReadPieceData(c) ==
  LET e == [msgs[c] EXCEPT !.reading = {}]
      p == ThePiece(c) IN
  /\ Incoming(c, {"piece"}) /\ msgs[c].reading # {}
  /\ Read(c, IF p \in e.requested \ e.have THEN tr_peerMsgsHave(e, p) ELSE e)

ReadAny(c) == \/ ReadChoke(c) \/ ReadFlag(c) \/ ReadWhatPeerHas(c) \/ ReadRequest(c) \/ ReadCancel(c)
              \/ ReadReject(c) \/ ReadPieceHeader(c) \/ ReadPieceData(c)

Next == \E c \in Clients :
  \/ \E b \in BOOLEAN : SetInterested(c, b) \/ SetChoke(c, b)
  \/ \E p \in Pieces : Cancel(c, p) \/ GotElsewhere(c, p)
  \/ \E R \in SUBSET Pieces, flush, bad \in BOOLEAN, n \in 0 .. Len(msgs[c].peerAskedFor) :
       Pulse(c, R, flush, n, bad)
  \/ ReadAny(c)

Spec == Init /\ [][Next]_wireVars

(***************************************************************************)
(* Properties.                                                             *)
(***************************************************************************)
TypeOK ==
  /\ msgs \in [Clients -> [have : SUBSET Pieces, peerHas : SUBSET Pieces,
                           peerIsChoked : BOOLEAN, clientIsChoked : BOOLEAN,
                           peerIsInterested : BOOLEAN, clientIsInterested : BOOLEAN,
                           peerAskedFor : Seq(Pieces), requested : SUBSET Pieces,
                           reading : SUBSET Pieces, outMessages : Seq([id : Ids, pieces : SUBSET Pieces])]]
  /\ wire \in [Clients -> Seq([id : Ids, pieces : SUBSET Pieces])]
  /\ fext \in BOOLEAN

\* The last message of c with one of these ids that is on its way, or none.
LastOf(c, ids) == SelectLastInSeq(InFlight(c), LAMBDA m : m.id \in ids)
Told(c, yes, no, believed) ==
  LET i == LastOf(c, {yes, no}) IN IF i = 0 THEN believed ELSE InFlight(c)[i].id = yes

\* However the messages cross, what an end believes of the other is what the other last
\* said: once everything is read, the two agree on who is choked and who is interested
\* (tr_peerMsgsSetChoke, tr_peerMsgsSetInterested, readBtMessage).
EndsAgree == \A c \in Clients :
  /\ msgs[c].peerIsChoked = Told(c, "choke", "unchoke", msgs[Peer(c)].clientIsChoked)
  /\ msgs[c].clientIsInterested = Told(c, "interested", "not interested", msgs[Peer(c)].peerIsInterested)

\* Every piece that an end has is known to the other or on its way to it
\* (tellPeerWhatWeHave, tr_peerMsgsHave): no piece is kept from a peer.
Announced(c) == UNION {IF m.id = "have all" THEN Pieces ELSE m.pieces :
                       m \in {x \in ToSet(InFlight(c)) : x.id \in {"have", "bitfield", "have all"}}}
PiecesAreTold == \A c \in Clients : msgs[c].have \subseteq msgs[Peer(c)].peerHas \cup Announced(c)

\* With the fast extension no request is forgotten: as long as an end waits for a block, the
\* request, the block or a reject is on its way, or the request is in the other's queue,
\* whatever chokes, cancels and new requests for the same block cross it (peerMadeRequest,
\* cancelAllRequestsToClient, fillOutputBuffer).
Underway(c) ==
  ToSet(msgs[Peer(c)].peerAskedFor)
  \cup (UNION {m.pieces : m \in {x \in ToSet(InFlight(c)) : x.id = "request"}})
  \cup (UNION {m.pieces : m \in {x \in ToSet(InFlight(Peer(c))) : x.id \in {"piece", "reject"}}})
NoRequestIsForgotten == fext => \A c \in Clients : msgs[c].requested \subseteq Underway(c)

\* A choked peer has nothing in our queue, hence gets no block until it is unchoked, and
\* the queue stays below its size (popNextRequest, peerMadeRequest).
NothingForChoked == \A c \in Clients :
  /\ msgs[c].peerIsChoked => msgs[c].peerAskedFor = <<>>
  /\ Len(msgs[c].peerAskedFor) < REQQ
=============================================================================
