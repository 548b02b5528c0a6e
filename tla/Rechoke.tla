------------------------------- MODULE Rechoke -------------------------------
(***************************************************************************)
(* Whom a torrent uploads to and whom it is interested in (rechokeUploads  *)
(* and rechokeDownloads, peer-mgr.c), decided anew every ten seconds, and  *)
(* whenever a torrent of the session is started, while peers come, go,     *)
(* turn into seeds and change their minds.                                 *)
(*                                                                         *)
(* The two halves of a pulse read and write nothing in common but the list *)
(* of peers: each has its own specification, over its own fields.          *)
(*                                                                         *)
(* Abstractions.  The rates and the ratios of cancels to blocks that the   *)
(* peers are ranked by are left open: any order is possible.  Of the time  *)
(* only counts which of the chokes that changed less than                  *)
(* MIN_CHOKE_PERIOD_SEC ago still do so at a pulse.  The limit of the      *)
(* torrent's connections stays what it is.                                 *)
(***************************************************************************)
EXTENDS Naturals, FiniteSets

CONSTANTS
  Peers,
  uploadSlotsPerTorrent,        \* tr_session::uploadSlotsPerTorrent
  OPTIMISTIC_UNCHOKE_MULTIPLIER,
  MIN_INTERESTING_PEERS,
  maxWanted,                    \* tr_torrent::maxConnectedPeers
  maxIncrease                   \* of maxPeers, in one pulse

VARIABLES
  peer,       \* struct tr_peer of each connected peer
  optimistic, \* Torrent::optimistic and optimisticUnchokeTimeScaler
  wanted,     \* clientIsInterested of each connected peer
  interest    \* [max, count, isSeed]: Torrent::maxPeers and interestedCount, tr_torrentIsSeed

chokeVars    == <<peer, optimistic>>
interestVars == <<wanted, interest>>

Connected == DOMAIN peer
Nobody    == "nobody"
Gone      == "a peer that is gone"

Init ==
  /\ peer = [p \in {} |-> 0]
  /\ optimistic = [peer |-> Nobody, turns |-> 0]

\* A connection begins, choked (tr_peerMsgsNew), with a peer that may be known for a seed.  The
\* memory of a peer that is gone may be used for the new one, which the optimistic pointer then
\* points to.
NewPeer(isSeed) == [isSeed |-> isSeed, isInterested |-> FALSE, isChoked |-> TRUE,
                    isRecent |-> FALSE,  \* chokeChangedAt may be less than ten seconds ago
                    isRanked |-> FALSE]  \* history: the last pulse found it interested, and its
                                         \* choke free to be changed
Connect(p, isSeed) ==
  /\ p \notin Connected
  /\ peer' = [q \in Connected \cup {p} |-> IF q = p THEN NewPeer(isSeed) ELSE peer[q]]
  /\ \/ UNCHANGED optimistic
     \/ optimistic.peer = Gone /\ optimistic' = [optimistic EXCEPT !.peer = p]

\* removePeer: the optimistic pointer is not cleared.
Disconnect(p) ==
  /\ p \in Connected
  /\ peer' = [q \in Connected \ {p} |-> peer[q]]
  /\ optimistic' = IF optimistic.peer = p THEN [optimistic EXCEPT !.peer = Gone] ELSE optimistic

\* The peer tells its interest, or that it has all pieces.
PeerInterest(p, b) ==
  /\ p \in Connected /\ peer[p].isInterested # b
  /\ peer' = [peer EXCEPT ![p].isInterested = b]
  /\ UNCHANGED optimistic

PeerIsSeed(p) ==
  /\ p \in Connected /\ ~peer[p].isSeed
  /\ peer' = [peer EXCEPT ![p].isSeed = TRUE]
  /\ UNCHANGED optimistic

(***************************************************************************)
(* rechokeUploads                                                          *)
(***************************************************************************)
\* Those that come first in the order by rate until the slots are taken by interested peers.
First(candidates, interested) ==
  {K \in SUBSET candidates :
     LET n == Cardinality(K \cap interested) IN
     /\ n <= uploadSlotsPerTorrent
     /\ n < uploadSlotsPerTorrent => K = candidates
     /\ uploadSlotsPerTorrent = 0 => K = {}}

\* Mutant: a new optimistic peer is chosen though the last one still has its turn.
Chosen_Always(rest, current) == IF rest = {} THEN {Nobody} ELSE rest

\* An optimistic unchoke, of an interested peer that got no slot.
Chosen(rest, current) == IF current # Nobody \/ rest = {} THEN {Nobody} ELSE rest

\* tr_peerMsgsSetChoke: a choke that changed less than MIN_CHOKE_PERIOD_SEC ago is left alone.
tr_peerMsgsSetChoke(q, isChoked, isKept) ==
  IF isKept THEN q ELSE [q EXCEPT !.isChoked = isChoked, !.isRecent = (q.isChoked # isChoked)]

\* The optimistic peer keeps what it has as long as its turn lasts, and then ranks as any
\* other; seeds are choked, and all if there is nothing to upload.  For the peers `kept' the
\* last change of the choke is too recent.
rechokeUploads(chokeAll, isMaxedOut, kept) ==
  LET current    == IF optimistic.turns > 0 THEN optimistic.peer ELSE Nobody
      seeds      == {p \in Connected : peer[p].isSeed}
      candidates == IF chokeAll THEN {} ELSE Connected \ (seeds \cup {current})
      interested == {p \in candidates : peer[p].isInterested}
      IsChoked(p, K, chosen) ==
        IF p \in candidates THEN p # chosen /\ (p \notin K \/ (isMaxedOut /\ peer[p].isChoked))
        ELSE p \in seeds \/ chokeAll \/ peer[p].isChoked IN
  /\ Connected # {} /\ kept \subseteq {p \in Connected : peer[p].isRecent}
  /\ \E K \in First(candidates, interested) :
     \E chosen \in Chosen(IF isMaxedOut THEN {} ELSE interested \ K, current) :
       /\ peer' = [p \in Connected |->
            LET q == tr_peerMsgsSetChoke(peer[p], IsChoked(p, K, chosen), p \in kept)
            IN  [q EXCEPT !.isRanked = peer[p].isInterested /\ p \notin kept]]
       /\ optimistic' =
            IF chosen # Nobody THEN [peer |-> chosen, turns |-> OPTIMISTIC_UNCHOKE_MULTIPLIER]
            ELSE [peer |-> current, turns |-> IF optimistic.turns > 0 THEN optimistic.turns - 1 ELSE 0]

Next ==
  \/ \E p \in Peers : \/ \E isSeed \in BOOLEAN : Connect(p, isSeed)
                      \/ Disconnect(p) \/ PeerIsSeed(p)
                      \/ \E b \in BOOLEAN : PeerInterest(p, b)
  \/ \E chokeAll, isMaxedOut \in BOOLEAN, kept \in SUBSET Connected :
       rechokeUploads(chokeAll, isMaxedOut, kept)

(***************************************************************************)
(* rechokeDownloads                                                        *)
(***************************************************************************)
Nearby == DOMAIN wanted

\* How many: less if requests were cancelled, and no more than the cancels leave of the last
\* count; more the longer there were none; and within the limits.
Clamped(n) ==
  LET least == IF n < MIN_INTERESTING_PEERS THEN MIN_INTERESTING_PEERS ELSE n
  IN IF least > maxWanted THEN maxWanted ELSE least
HowMany ==
  {Clamped(n) : n \in {0} \cup (interest.count \div 2 .. interest.count)
                      \cup (interest.max .. interest.max + maxIncrease)}

\* A peer that is new is not interesting yet.
Meet(p) ==
  /\ p \notin Nearby
  /\ wanted' = [q \in Nearby \cup {p} |-> q # p /\ wanted[q]]
  /\ UNCHANGED interest

Part(p) ==
  /\ p \in Nearby
  /\ wanted' = [q \in Nearby \ {p} |-> wanted[q]]
  /\ UNCHANGED interest

\* A stop takes all peers, a start sets maxPeers.
Restart ==
  /\ wanted' = [q \in {} |-> FALSE]
  /\ interest' = [interest EXCEPT !.max = maxWanted]

\* tr_torrentRecheckCompleteness: who has all wants nothing (tr_peerMgrClearInterest).
Recheck(isSeed) ==
  /\ isSeed # interest.isSeed
  /\ wanted' = IF isSeed THEN [q \in Nearby |-> FALSE] ELSE wanted
  /\ interest' = [interest EXCEPT !.isSeed = isSeed]

\* Of the peers that have a piece that is wanted, the best so many.
rechokeDownloads ==
  /\ Nearby # {} /\ ~interest.isSeed
  /\ \E max \in HowMany, interesting \in SUBSET Nearby : \E best \in SUBSET interesting :
       /\ Cardinality(best) <= max
       /\ best = interesting \/ Cardinality(best) = max
       /\ wanted' = [q \in Nearby |-> q \in best]
       /\ interest' = [interest EXCEPT !.max = max, !.count = Cardinality(best)]

InterestInit ==
  /\ wanted = [q \in {} |-> FALSE]
  /\ interest \in [max : {maxWanted}, count : {0}, isSeed : BOOLEAN]

InterestNext ==
  \/ \E p \in Peers : Meet(p) \/ Part(p)
  \/ Restart \/ rechokeDownloads
  \/ \E isSeed \in BOOLEAN : Recheck(isSeed)

(***************************************************************************)
(* Properties.                                                             *)
(***************************************************************************)
PeerRecords == [isSeed : BOOLEAN, isInterested : BOOLEAN, isChoked : BOOLEAN, isRecent : BOOLEAN,
                isRanked : BOOLEAN]

TypeOK ==
  /\ Connected \subseteq Peers /\ peer \in [Connected -> PeerRecords]
  /\ optimistic \in [peer : Peers \cup {Nobody, Gone}, turns : 0 .. OPTIMISTIC_UNCHOKE_MULTIPLIER]

\* Of the peers that were interested at the last pulse no more are served than there are slots,
\* and one more whose turn was a matter of chance, also if that one left, or a new peer took
\* its place in memory; but for peers whose choke had changed so recently that the pulse left
\* it alone (rechokeUploads, tr_peerMsgsSetChoke).
SlotsAreKept ==
  Cardinality({p \in Connected : peer[p].isRanked /\ ~peer[p].isChoked})
    <= uploadSlotsPerTorrent + 1

InterestTypeOK ==
  /\ wanted \in [Nearby -> BOOLEAN] /\ Nearby \subseteq Peers
  /\ interest \in [max : 0 .. maxWanted, count : Nat, isSeed : BOOLEAN]

\* We are interested in no more peers than the last pulse counted and the torrent may have,
\* whoever came and left since, and in none once all is there, be it found so between two
\* pulses (rechokeDownloads, tr_peerMgrClearInterest).
InterestIsCounted ==
  /\ Cardinality({p \in Nearby : wanted[p]}) <= interest.count /\ interest.count <= maxWanted
  /\ interest.isSeed => \A p \in Nearby : ~wanted[p]
=============================================================================
