----------------------------- MODULE Connections -----------------------------
(***************************************************************************)
(* Whom the peer manager knows, shakes hands with and is connected to      *)
(* (peer-mgr.c): the pool of atoms of a torrent, the handshakes on their   *)
(* way in both directions, the peers, the bans and the blocklist.          *)
(*                                                                         *)
(* Abstractions.  The clock is reduced to whether the reconnect interval   *)
(* of an atom has passed; the failures that set its length, the shelf      *)
(* date, and the speeds and times that peers and candidates are sorted by  *)
(* are left open: any order is possible.  What a handshake does is the     *)
(* subject of Handshake; here it ends, well or not.                        *)
(***************************************************************************)
EXTENDS Naturals, FiniteSets

CONSTANTS
  Addresses,                  \* the addresses of the other clients
  Blocklists,                 \* the blocklists the user may set: sets of addresses
  maxConnectedPeers,          \* tr_torrent::maxConnectedPeers
  peerLimit,                  \* tr_sessionGetPeerLimit
  MAX_CONNECTIONS_PER_PULSE,  \* MAX_CONNECTIONS_PER_PULSE
  MAX_BAD_PIECES_PER_PEER,    \* MAX_BAD_PIECES_PER_PEER
  maxAtomCount                \* getMaxAtomCount

VARIABLES
  isRunning,  \* Torrent::isRunning
  pool,       \* Torrent::pool: the atoms that exist
  peers,      \* Torrent::peers: strikes and doPurge of each
  outgoing,   \* Torrent::outgoingHandshakes
  incoming,   \* tr_peerMgr::incomingHandshakes
  open,       \* how many connections are open to each address
  blocklist,  \* the addresses tr_sessionIsAddressBlocked answers for
  replaced    \* history: it was enabled or replaced and not reloaded since

connVars == <<isRunning, pool, peers, outgoing, incoming, open, blocklist, replaced>>

Atoms     == DOMAIN pool
Connected == DOMAIN peers
Without(f, S)     == [x \in DOMAIN f \ S |-> f[x]]
With(f, x, value) == [y \in DOMAIN f \cup {x} |-> IF y = x THEN value ELSE f[y]]
Opened(a) == open' = [open EXCEPT ![a] = @ + 1]
Closed(S) == open' = [a \in Addresses |-> IF a \in S THEN open[a] - 1 ELSE open[a]]

Init ==
  /\ isRunning = FALSE
  /\ pool = [a \in {} |-> 0] /\ peers = [a \in {} |-> 0]
  /\ outgoing = {} /\ incoming = {}
  /\ open = [a \in Addresses |-> 0]
  /\ blocklist \in Blocklists /\ replaced = FALSE

(***************************************************************************)
(* Atoms.                                                                  *)
(***************************************************************************)
NewAtom == [banned |-> FALSE, blocklisted |-> {}, seed |-> FALSE, waits |-> FALSE]

\* ensureAtomExists: an atom that exists keeps what is known of it.
ensureAtomExists(a) == IF a \in Atoms THEN pool ELSE With(pool, a, NewAtom)

\* tr_peerMgrAddPex: from a tracker, the DHT, another peer or the resume file.
tr_peerMgrAddPex(a) ==
  /\ a \notin blocklist
  /\ pool' = ensureAtomExists(a)
  /\ UNCHANGED <<isRunning, peers, outgoing, incoming, open, blocklist, replaced>>

\* Mutant: what the atoms remember of the old blocklist is kept.
OnBlocklistChanged_Stale == pool

\* tr_peerMgrOnBlocklistChanged
OnBlocklistChanged == [a \in Atoms |-> [pool[a] EXCEPT !.blocklisted = {}]]

\* tr_sessionReloadBlocklists tells the peer manager; tr_blocklistSetEnabled and
\* tr_blocklistSetContent do not.
ReloadBlocklists(b) ==
  /\ b # blocklist \/ replaced
  /\ blocklist' = b /\ replaced' = FALSE /\ pool' = OnBlocklistChanged
  /\ UNCHANGED <<isRunning, peers, outgoing, incoming, open>>
SetBlocklist(b) ==
  /\ b # blocklist
  /\ blocklist' = b /\ replaced' = TRUE
  /\ UNCHANGED <<isRunning, pool, peers, outgoing, incoming, open>>

\* isAtomBlocklisted: the answer is asked for once and kept, the set {} being none yet.
Told(a)   == IF a \in blocklist THEN {TRUE} ELSE {FALSE}
Answer(a) == IF pool[a].blocklisted = {} THEN Told(a) ELSE pool[a].blocklisted
isAtomBlocklisted(a) == TRUE \in Answer(a)

peerIsInUse(a) == a \in Connected \/ a \in outgoing \/ a \in incoming

\* atomPulse: of too many atoms those in use are kept, and others as far as there is room.
atomPulse ==
  LET used == {a \in Atoms : peerIsInUse(a)} IN
  /\ Cardinality(Atoms) > maxAtomCount
  /\ \E keep \in SUBSET Atoms :
       /\ used \subseteq keep
       /\ Cardinality(keep) = IF Cardinality(used) > maxAtomCount THEN Cardinality(used) ELSE maxAtomCount
       /\ pool' = [a \in keep |-> pool[a]]
  /\ UNCHANGED <<isRunning, peers, outgoing, incoming, open, blocklist, replaced>>

\* getReconnectIntervalSecs have gone by since the atom was last connected or tried.
IntervalPasses(a) ==
  /\ a \in Atoms /\ pool[a].waits
  /\ pool' = [pool EXCEPT ![a].waits = FALSE]
  /\ UNCHANGED <<isRunning, peers, outgoing, incoming, open, blocklist, replaced>>

(***************************************************************************)
(* Handshakes and peers.                                                   *)
(***************************************************************************)
\* tr_peerMgrAddIncoming: one at a time from an address, and none from a blocked one.
tr_peerMgrAddIncoming(a) ==
  /\ a \notin blocklist /\ a \notin incoming
  /\ incoming' = incoming \cup {a}
  /\ Opened(a)
  /\ UNCHANGED <<isRunning, pool, peers, outgoing, blocklist, replaced>>

NewPeer == [strikes |-> 0, doPurge |-> FALSE]

\* Mutant: a second connection with a peer takes the place of the first.
HandshakeDone_Again(a, isIncoming, isConnected, ours) ==
  LET ok      == isConnected /\ ours /\ isRunning
      known   == ensureAtomExists(a)
      success == /\ ok /\ ~known[a].banned
                 /\ isIncoming => Cardinality(Connected) < maxConnectedPeers IN
  /\ a \in (IF isIncoming THEN incoming ELSE outgoing)
  /\ IF isIncoming THEN incoming' = incoming \ {a} /\ UNCHANGED outgoing
     ELSE ours /\ outgoing' = outgoing \ {a} /\ UNCHANGED incoming
  /\ pool'  = IF ok THEN [known EXCEPT ![a].waits = TRUE] ELSE pool
  /\ peers' = IF success THEN With(peers, a, NewPeer) ELSE peers
  /\ IF success THEN UNCHANGED open ELSE Closed({a})
  /\ UNCHANGED <<isRunning, blocklist, replaced>>

\* myHandshakeDoneCB, of a handshake for this torrent or not; the connection is closed with
\* the handshake unless the new peer takes it over.
HandshakeDone(a, isIncoming, isConnected, ours) ==
  LET ok      == isConnected /\ ours /\ isRunning
      known   == ensureAtomExists(a)
      success == /\ ok /\ ~known[a].banned
                 /\ isIncoming => Cardinality(Connected) < maxConnectedPeers
                 /\ a \notin Connected IN
  /\ a \in (IF isIncoming THEN incoming ELSE outgoing)
  /\ IF isIncoming THEN incoming' = incoming \ {a} /\ UNCHANGED outgoing
     ELSE ours /\ outgoing' = outgoing \ {a} /\ UNCHANGED incoming
  /\ pool'  = IF ok THEN [known EXCEPT ![a].waits = TRUE] ELSE pool
  /\ peers' = IF success THEN With(peers, a, NewPeer) ELSE peers
  /\ IF success THEN UNCHANGED open ELSE Closed({a})
  /\ UNCHANGED <<isRunning, blocklist, replaced>>

\* addStrike, for a piece that failed its test and the peer had sent blocks of.
addStrike(a) ==
  /\ a \in Connected /\ peers[a].strikes < MAX_BAD_PIECES_PER_PEER
  /\ LET out == peers[a].strikes + 1 = MAX_BAD_PIECES_PER_PEER IN
       /\ peers' = [peers EXCEPT ![a] = [strikes |-> @.strikes + 1, doPurge |-> @.doPurge \/ out]]
       /\ pool'  = [pool EXCEPT ![a].banned = @ \/ out]
  /\ UNCHANGED <<isRunning, outgoing, incoming, open, blocklist, replaced>>

\* peerCallbackFunc, TR_PEER_ERROR: the peer is closed with the next pulse.
PeerError(a) ==
  /\ a \in Connected /\ ~peers[a].doPurge
  /\ peers' = [peers EXCEPT ![a].doPurge = TRUE]
  /\ UNCHANGED <<isRunning, pool, outgoing, incoming, open, blocklist, replaced>>

\* tr_peerUpdateProgress, atomSetSeed
PeerIsSeed(a) ==
  /\ a \in Connected /\ ~pool[a].seed
  /\ pool' = [pool EXCEPT ![a].seed = TRUE]
  /\ UNCHANGED <<isRunning, peers, outgoing, incoming, open, blocklist, replaced>>

(***************************************************************************)
(* The pulse.                                                              *)
(***************************************************************************)
\* enforceTorrentPeerLimit, enforceSessionPeerLimit: the worst beyond the limit, those to be
\* purged before any other.
Enforced(keep) ==
  LET max  == IF maxConnectedPeers < peerLimit THEN maxConnectedPeers ELSE peerLimit
      good == {a \in Connected : ~peers[a].doPurge} IN
  /\ keep \subseteq Connected
  /\ Cardinality(keep) = IF Cardinality(Connected) > max THEN max ELSE Cardinality(Connected)
  /\ keep \subseteq good \/ good \subseteq keep

\* getPeersToClose, shouldPeerBeClosed: the purged ones, and any that has been idle.
Closing(close, keep) == {a \in keep : peers[a].doPurge} \subseteq close /\ close \subseteq keep

\* isPeerCandidate: a peer that was just closed waits like all others; the blocklist is asked
\* last, and its answer remembered.
MayBeCandidate(a, weSeed) ==
  /\ ~(weSeed /\ pool[a].seed)
  /\ ~peerIsInUse(a) /\ ~pool[a].waits
isPeerCandidate(a, weSeed) == MayBeCandidate(a, weSeed) /\ ~isAtomBlocklisted(a) /\ ~pool[a].banned

\* getPeerCandidates: none if 95 percent of the session's peers are there, or all of the torrent's.
Full(left) == (peerLimit * 95) \div 100 <= Cardinality(left) \/ maxConnectedPeers <= Cardinality(left)
getPeerCandidates(left, weSeed) == IF Full(left) THEN {} ELSE {a \in Atoms : isPeerCandidate(a, weSeed)}

\* reconnectPulse of a running torrent; some of the new connections cannot even be made
\* (initiateConnection).
reconnectPulse ==
  /\ isRunning
  /\ \E keep \in SUBSET Connected, weSeed \in BOOLEAN : \E close \in SUBSET keep :
       LET left       == keep \ close
           candidates == getPeerCandidates(left, weSeed) IN
       /\ Enforced(keep) /\ Closing(close, keep)
       /\ \E try \in SUBSET candidates : \E made \in SUBSET try :
            /\ Cardinality(try) = IF Cardinality(candidates) > MAX_CONNECTIONS_PER_PULSE
                                  THEN MAX_CONNECTIONS_PER_PULSE ELSE Cardinality(candidates)
            /\ outgoing' = outgoing \cup made
            /\ peers' = [a \in left |-> peers[a]]
            /\ open' = [a \in Addresses |-> IF a \in made THEN open[a] + 1
                                            ELSE IF a \in Connected \ left THEN open[a] - 1 ELSE open[a]]
            /\ pool' = [a \in Atoms |->
                 [pool[a] EXCEPT !.waits = @ \/ a \in try \cup (Connected \ left),
                                 !.blocklisted = IF ~Full(left) /\ MayBeCandidate(a, weSeed)
                                                 THEN Answer(a) ELSE @]]
  /\ UNCHANGED <<isRunning, incoming, blocklist, replaced>>

(***************************************************************************)
(* Start and stop (tr_peerMgrStartTorrent, stopTorrent).                   *)
(***************************************************************************)
Start == /\ ~isRunning /\ isRunning' = TRUE
         /\ UNCHANGED <<pool, peers, outgoing, incoming, open, blocklist, replaced>>

\* stopTorrent: all peers and the handshakes it began.
Stop ==
  /\ isRunning /\ isRunning' = FALSE
  /\ peers' = [a \in {} |-> 0] /\ outgoing' = {}
  /\ open' = [a \in Addresses |-> open[a] - Cardinality({a} \cap Connected) - Cardinality({a} \cap outgoing)]
  /\ UNCHANGED <<pool, incoming, blocklist, replaced>>

Next ==
  \/ \E a \in Addresses :
       \/ tr_peerMgrAddPex(a) \/ IntervalPasses(a) \/ tr_peerMgrAddIncoming(a)
       \/ \E isIncoming, isConnected, ours \in BOOLEAN : HandshakeDone(a, isIncoming, isConnected, ours)
       \/ addStrike(a) \/ PeerError(a) \/ PeerIsSeed(a)
  \/ \E b \in Blocklists : ReloadBlocklists(b) \/ SetBlocklist(b)
  \/ atomPulse \/ reconnectPulse \/ Start \/ Stop

(***************************************************************************)
(* Properties.                                                             *)
(***************************************************************************)
TypeOK ==
  /\ isRunning \in BOOLEAN
  /\ Atoms \cup Connected \cup outgoing \cup incoming \subseteq Addresses
  /\ \A a \in Addresses : open[a] \in 0 .. 3

\* Every open connection belongs to just one handshake or peer, also when two clients
\* connect to each other at once and both handshakes succeed (myHandshakeDoneCB): none leaks.
ConnectionsAreOwned ==
  \A a \in Addresses :
    open[a] = Cardinality({a} \cap Connected) + Cardinality({a} \cap outgoing) + Cardinality({a} \cap incoming)

\* A peer, and a handshake the torrent began, has an atom: atomPulse frees none that somebody
\* points to.  And a torrent that does not run has neither (stopTorrent).
AtomsOutliveTheirUsers ==
  /\ Connected \cup outgoing \subseteq Atoms
  /\ ~isRunning => Connected \cup outgoing = {}

\* No connection is begun with a blocked address, whatever an atom remembers of the blocklist
\* before the last reload (isAtomBlocklisted), and no banned one becomes a peer as long as its
\* atom lives.  The atom of a banned peer that has left may be pruned, and the ban with it.
LeavesBlockedAlone ==
  /\ replaced \/ \A a \in outgoing' \ outgoing : a \notin blocklist
  /\ \A a \in (Connected' \ Connected) \cap Atoms : ~pool[a].banned
BlockedAreLeftAlone == [][LeavesBlockedAlone]_connVars

\* "since the blocklist has changed, erase that cached value" (tr_peerMgrOnBlocklistChanged):
\* no connection is begun with an address that is on the blocklist now.
BlocklistIsObeyed == [][\A a \in outgoing' \ outgoing : a \notin blocklist]_connVars
=============================================================================
