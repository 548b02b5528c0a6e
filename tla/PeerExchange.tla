----------------------------- MODULE PeerExchange -----------------------------
(***************************************************************************)
(* The extension handshake and peer exchange (peer-msgs.c): two clients    *)
(* that are connected tell each other which other peers they are connected *)
(* to, first all of them, then every 90 seconds what has changed.  Either  *)
(* user may switch peer exchange off and on while they are connected.      *)
(*                                                                         *)
(* Abstractions.  A peer's address is a member of a set, for IPv4 and IPv6 *)
(* alike; of more peers than fit in a message any may be chosen.  Of a     *)
(* private torrent nothing is exchanged, as with the switches off.         *)
(* offers, switched and missed are history: whether our handshake named    *)
(* the message, whether the switch was moved since, and what was told to   *)
(* us and not taken.                                                       *)
(***************************************************************************)
EXTENDS Naturals, FiniteSets, Sequences, SequencesExt, FiniteSetsExt

CONSTANTS
  Ends,          \* the two clients
  Addresses,     \* for each end the other peers that it may get connected to
  MaxPex,        \* MAX_PEX_PEER_COUNT: how many peers a message tells
  MaxMessages    \* bound: messages that are not read

VARIABLES
  end,       \* each end: what it is connected to, the handshakes, what it told and heard
  channel    \* the messages of each end that are not read

pexVars == <<end, channel>>

Other(c) == CHOOSE d \in Ends : d # c

\* The ids of the messages of the extension; a peer names that of its peer lists.
LTEP_HANDSHAKE == 0
UT_PEX_ID == 1

\* sendLtepHandshake: it names the id of peer lists if they are welcome.
Handshake(allows) == [id |-> LTEP_HANDSHAKE, ut_pex |-> IF allows THEN UT_PEX_ID ELSE 0,
                      added |-> {}, dropped |-> {}]

\* tr_peerMsgsNew: there is a timer for peer lists if they are allowed now.
Init ==
  \E allows \in [Ends -> BOOLEAN] :
    /\ end = [c \in Ends |->
                [allowsPex |-> allows[c], pexTimer |-> allows[c], connected |-> {},
                 gotHandshake |-> FALSE, peerSupportsPex |-> FALSE, ut_pex_id |-> 0, pex |-> {},
                 heard |-> {}, offers |-> allows[c], switched |-> FALSE, missed |-> {}]]
    /\ channel = [c \in Ends |-> <<Handshake(allows[c])>>]

\* tr_peerMgrGetPeers: at most as many of the connected peers as a message holds.
tr_peerMgrGetPeers(e) == LET n == Cardinality(e.connected) IN
                         kSubset(IF n < MaxPex THEN n ELSE MaxPex, e.connected)

\* tr_set_compare with pexAddedCb, pexDroppedCb and pexElementCb: what is new, what is gone,
\* and what the peer knows then.
Diffs(e, newPex) == [added |-> newPex \ e.pex, dropped |-> e.pex \ newPex, elements |-> newPex]

\* Mutant: the peers are noted before it is known whether a list is sent.
sendPex_NotedFirst(e, newPex) ==
  LET d == Diffs(e, newPex) IN
  <<[e EXCEPT !.pex = d.elements],
    IF e.peerSupportsPex /\ e.allowsPex /\ (d.added # {} \/ d.dropped # {})
    THEN <<[id |-> e.ut_pex_id, ut_pex |-> 0, added |-> d.added, dropped |-> d.dropped]>>
    ELSE <<>> >>

\* sendPex: the state of the end and the messages, for one choice of peers.  A peer that
\* named no id is written to with the id 0, which is that of a handshake.
sendPex(e, newPex) ==
  LET d == Diffs(e, newPex)
      silent == ~(e.peerSupportsPex /\ e.allowsPex) \/ (d.added = {} /\ d.dropped = {}) IN
  IF silent THEN <<e, <<>>>>
  ELSE <<[e EXCEPT !.pex = d.elements],
         <<[id |-> e.ut_pex_id, ut_pex |-> 0, added |-> d.added, dropped |-> d.dropped]>> >>

Put(c, r) == /\ end' = [end EXCEPT ![c] = r[1]]
             /\ channel' = [channel EXCEPT ![c] = @ \o r[2]]

\* pexPulse
pexPulse(c) ==
  /\ end[c].pexTimer /\ Len(channel[c]) < MaxMessages
  /\ \E newPex \in tr_peerMgrGetPeers(end[c]) : Put(c, sendPex(end[c], newPex))

\* parseLtep of a handshake, or of what looks like one: ours has been sent, so that peers are
\* sent at once.
parseLtepHandshake(c) ==
  LET m == Head(channel[Other(c)])
      e == [end[c] EXCEPT !.gotHandshake = TRUE, !.peerSupportsPex = m.ut_pex # 0,
                          !.ut_pex_id = IF m.ut_pex # 0 THEN m.ut_pex ELSE @,
                          !.missed = @ \cup m.added] IN
  /\ channel[Other(c)] # <<>> /\ m.id = LTEP_HANDSHAKE
  /\ \E newPex \in tr_peerMgrGetPeers(e) :
       LET r == sendPex(e, newPex) IN
       /\ end' = [end EXCEPT ![c] = r[1]]
       /\ channel' = [channel EXCEPT ![c] = @ \o r[2], ![Other(c)] = Tail(@)]

\* parseLtep of a peer list, parseUtPex: the peers that are gone are not forgotten; a list
\* that comes while the switch is off is dropped, with no word to the peer.
parseUtPex(c) ==
  LET m == Head(channel[Other(c)]) IN
  /\ channel[Other(c)] # <<>> /\ m.id = UT_PEX_ID
  /\ end' = [end EXCEPT ![c].peerSupportsPex = TRUE,
                        ![c].heard = IF end[c].allowsPex THEN @ \cup m.added ELSE @,
                        ![c].missed = IF end[c].allowsPex THEN @ ELSE @ \cup m.added]
  /\ channel' = [channel EXCEPT ![Other(c)] = Tail(@)]

\* The end gets connected to another peer, or loses one.
PeersChange(c, a) ==
  /\ end' = [end EXCEPT ![c].connected = IF a \in @ THEN @ \ {a} ELSE @ \cup {a}]
  /\ UNCHANGED channel

\* tr_sessionSetPexEnabled: nothing but the flag changes.
SetPexEnabled(c) ==
  /\ end' = [end EXCEPT ![c].allowsPex = ~@, ![c].switched = TRUE]
  /\ UNCHANGED channel

Next == \E c \in Ends : \/ pexPulse(c) \/ parseLtepHandshake(c) \/ parseUtPex(c) \/ SetPexEnabled(c)
                        \/ \E a \in Addresses[c] : PeersChange(c, a)

(***************************************************************************)
(* Properties.                                                             *)
(***************************************************************************)
TypeOK == \A c \in Ends :
  /\ {end[c].allowsPex, end[c].gotHandshake, end[c].peerSupportsPex} \subseteq BOOLEAN
  /\ end[c].ut_pex_id \in {0, UT_PEX_ID}
  /\ end[c].pex \cup end[c].connected \subseteq Addresses[c]
  /\ end[c].heard \cup end[c].missed \subseteq Addresses[Other(c)]
  /\ Len(channel[c]) <= MaxMessages + 1

\* What an end has noted as told is known to the other or on its way, although only the
\* changes are sent: no peer is skipped (tr_set_compare, sendPex).  The exception is what the
\* other end did not take, and which it is not told again: lists that came while its switch
\* was off (parseUtPex), and lists that it read as a handshake, because its own had not named
\* an id and it sent a list all the same (parseLtep).  Both take a switch that the other end's
\* own user moved after the handshake.  What is reported as gone had been told before, and
\* peer lists that are sent as such are sent to those who offered to take them.
Added(c) == UNION {m.added : m \in ToSet(channel[c])}
Told(c)  == end[Other(c)].heard \cup end[Other(c)].missed \cup Added(c)
ToldIsHeard == \A c \in Ends :
  /\ end[c].pex \subseteq Told(c)
  /\ ~end[c].switched => end[c].missed = {}
  /\ \A m \in ToSet(channel[c]) : m.id = UT_PEX_ID =>
       end[Other(c)].offers /\ m.dropped \subseteq Told(c)
=============================================================================
