----------------------------- MODULE SwarmProofs -----------------------------
(***************************************************************************)
(* Proofs about Swarm.  A behaviour is one of the part in focus, so each   *)
(* theorem is about the steps of one part: its invariant, strengthened     *)
(* where it is not inductive by itself, and one lemma for what a step does *)
(* to it.                                                                  *)
(***************************************************************************)
EXTENDS Swarm, SequenceLemmas

-----------------------------------------------------------------------------
(* Choking. *)

\* Those that are ranked and served.
Served == {p \in DOMAIN peer : peer[p].isRanked /\ ~peer[p].isChoked}

ChokingInv == Choking!TypeOK /\ Choking!SlotsAreKept

\* The cardinality of the instances is that of FiniteSets.
LEMMA SameCardinality == \A S : Choking!Cardinality(S) = Cardinality(S)
BY DEF Choking!Cardinality, Cardinality

LEMMA KeptSlots ==
  /\ Choking!SlotsAreKept <=> Cardinality(Served) <= uploadSlotsPerTorrent + 1
  /\ Choking!SlotsAreKept' <=> Cardinality(Served') <= uploadSlotsPerTorrent + 1
<1>1. Served = {p \in Choking!Connected : peer[p].isRanked /\ ~peer[p].isChoked}
  BY DEF Served, Choking!Connected
<1>2. Served' = {p \in Choking!Connected' : peer'[p].isRanked /\ ~peer'[p].isChoked}
  BY DEF Served, Choking!Connected
<1> QED
  BY <1>1, <1>2, SameCardinality DEF Choking!SlotsAreKept

LEMMA ServedType ==
  ASSUME Choking!TypeOK
  PROVE  Served \in SUBSET Peers /\ IsFiniteSet(Served) /\ Cardinality(Served) \in Nat
<1>1. Served \in SUBSET Peers
  BY DEF Served, Choking!TypeOK, Choking!Connected
<1> QED
  BY <1>1, PeersAssumption, FS_Subset, FS_CardinalityType

\* What is no pulse serves nobody anew.
LEMMA OthersServeNobody ==
  ASSUME ChokingInv, NEW p \in Peers,
         \/ \E isSeed \in BOOLEAN : Choking!Connect(p, isSeed)
         \/ Choking!Disconnect(p) \/ Choking!PeerIsSeed(p)
         \/ \E wants \in BOOLEAN : Choking!PeerInterest(p, wants)
  PROVE  ChokingInv'
<1> USE DEF ChokingInv, Choking!TypeOK, Choking!Connected, Choking!PeerRecords
<1>1. Choking!TypeOK'
  <2>1. CASE \E isSeed \in BOOLEAN : Choking!Connect(p, isSeed)
    <3>1. PICK isSeed \in BOOLEAN : Choking!Connect(p, isSeed)
      BY <2>1
    <3>2. Choking!NewPeer(isSeed) \in Choking!PeerRecords
      BY DEF Choking!NewPeer
    <3>3. DOMAIN peer' = DOMAIN peer \cup {p} /\ peer' \in [DOMAIN peer' -> Choking!PeerRecords]
      BY <3>1, <3>2 DEF Choking!Connect
    <3>4. optimistic' \in [peer : Peers \cup {Choking!Nobody, Choking!Gone}, turns : 0 .. OPTIMISTIC_UNCHOKE_MULTIPLIER]
      BY <3>1 DEF Choking!Connect
    <3> QED
      BY <3>3, <3>4
  <2>2. CASE Choking!Disconnect(p)
    BY <2>2 DEF Choking!Disconnect
  <2>3. CASE Choking!PeerIsSeed(p)
    BY <2>3 DEF Choking!PeerIsSeed
  <2>4. CASE \E wants \in BOOLEAN : Choking!PeerInterest(p, wants)
    BY <2>4 DEF Choking!PeerInterest
  <2> QED
    BY <2>1, <2>2, <2>3, <2>4
<1>2. Served' \subseteq Served
  BY DEF Choking!Connect, Choking!Disconnect, Choking!PeerIsSeed, Choking!PeerInterest,
    Choking!NewPeer, Served
<1>3. Cardinality(Served') <= Cardinality(Served) /\ Cardinality(Served') \in Nat /\ Cardinality(Served) \in Nat
  BY <1>2, ServedType, FS_Subset, FS_CardinalityType DEF ChokingInv
<1> QED
  <2>1. Choking!SlotsAreKept'
    <3> HIDE DEF ChokingInv, Choking!TypeOK, Choking!Connected, Choking!PeerRecords
    <3>1. Cardinality(Served) <= uploadSlotsPerTorrent + 1
      BY KeptSlots DEF ChokingInv
    <3> QED
      BY <1>3, <3>1, KeptSlots, SlotsAssumption
  <2> QED
    BY <1>1, <2>1

\* A pulse serves those of the slots, and one more: the optimistic peer, or the one it chooses.
LEMMA PulseKeepsSlots ==
  ASSUME ChokingInv, NEW chokeAll \in BOOLEAN, NEW isMaxedOut \in BOOLEAN,
         NEW kept \in SUBSET Choking!Connected,
         Choking!rechokeUploads(chokeAll, isMaxedOut, kept)
  PROVE  ChokingInv'
<1> DEFINE current    == IF optimistic.turns > 0 THEN optimistic.peer ELSE Choking!Nobody
           seeds      == {p \in Choking!Connected : peer[p].isSeed}
           candidates == IF chokeAll THEN {} ELSE Choking!Connected \ (seeds \cup {current})
           interested == {p \in candidates : peer[p].isInterested}
           IsChoked(p, K, chosen) ==
             IF p \in candidates THEN p # chosen /\ (p \notin K \/ (isMaxedOut /\ peer[p].isChoked))
             ELSE p \in seeds \/ chokeAll \/ peer[p].isChoked
<1>0. PICK K \in Choking!First(candidates, interested) :
       \E chosen \in Choking!Chosen(IF isMaxedOut THEN {} ELSE interested \ K, current) :
       /\ peer' = [p \in Choking!Connected |->
            LET q == Choking!tr_peerMsgsSetChoke(peer[p], IsChoked(p, K, chosen), p \in kept)
            IN  [q EXCEPT !.isRanked = peer[p].isInterested /\ p \notin kept]]
       /\ optimistic' =
            IF chosen # Choking!Nobody THEN [peer |-> chosen, turns |-> OPTIMISTIC_UNCHOKE_MULTIPLIER]
            ELSE [peer |-> current, turns |-> IF optimistic.turns > 0 THEN optimistic.turns - 1 ELSE 0]
  BY DEF Choking!rechokeUploads
<1>1. PICK chosen \in Choking!Chosen(IF isMaxedOut THEN {} ELSE interested \ K, current) :
       /\ peer' = [p \in Choking!Connected |->
            LET q == Choking!tr_peerMsgsSetChoke(peer[p], IsChoked(p, K, chosen), p \in kept)
            IN  [q EXCEPT !.isRanked = peer[p].isInterested /\ p \notin kept]]
       /\ optimistic' =
            IF chosen # Choking!Nobody THEN [peer |-> chosen, turns |-> OPTIMISTIC_UNCHOKE_MULTIPLIER]
            ELSE [peer |-> current, turns |-> IF optimistic.turns > 0 THEN optimistic.turns - 1 ELSE 0]
  BY <1>0
<1>2. interested \in SUBSET Peers /\ candidates \in SUBSET Peers
  BY DEF ChokingInv, Choking!TypeOK
<1>3. /\ chosen = Choking!Nobody \/ chosen \in interested
      /\ current = Choking!Nobody \/ chosen = Choking!Nobody
  BY <1>1 DEF Choking!Chosen
<1>4. DOMAIN peer' = Choking!Connected
  BY <1>1
<1>5. \A p \in Choking!Connected :
        LET q == peer[p]
            r == peer'[p]
            isChoked == IsChoked(p, K, chosen) IN
        /\ r \in Choking!PeerRecords
        /\ r.isRanked = (q.isInterested /\ p \notin kept)
        /\ p \notin kept => r.isChoked = isChoked
  <2> SUFFICES ASSUME NEW p \in Choking!Connected
               PROVE  LET q == peer[p]
                          r == peer'[p]
                          isChoked == IsChoked(p, K, chosen) IN
                      /\ r \in Choking!PeerRecords
                      /\ r.isRanked = (q.isInterested /\ p \notin kept)
                      /\ p \notin kept => r.isChoked = isChoked
    OBVIOUS
  <2> DEFINE isChoked == IsChoked(p, K, chosen)
  <2>1. peer[p] \in Choking!PeerRecords
    BY DEF ChokingInv, Choking!TypeOK
  <2>2. isChoked \in BOOLEAN
    BY <2>1 DEF Choking!PeerRecords
  <2> HIDE DEF isChoked
  <2>3. peer'[p] = [Choking!tr_peerMsgsSetChoke(peer[p], isChoked, p \in kept)
                      EXCEPT !.isRanked = peer[p].isInterested /\ p \notin kept]
    BY <1>1 DEF isChoked
  <2> QED
    BY <2>1, <2>2, <2>3 DEF Choking!tr_peerMsgsSetChoke, Choking!PeerRecords, isChoked
<1>6. Choking!TypeOK'
  <2>1. Choking!Connected' = Choking!Connected
    BY <1>4 DEF Choking!Connected
  <2>2. peer' \in [Choking!Connected -> Choking!PeerRecords]
    BY <1>1, <1>5
  <2>3. optimistic' \in [peer : Peers \cup {Choking!Nobody, Choking!Gone}, turns : 0 .. OPTIMISTIC_UNCHOKE_MULTIPLIER]
    <3>1. /\ current \in Peers \cup {Choking!Nobody, Choking!Gone}
          /\ (IF optimistic.turns > 0 THEN optimistic.turns - 1 ELSE 0) \in 0 .. OPTIMISTIC_UNCHOKE_MULTIPLIER
      BY SlotsAssumption DEF ChokingInv, Choking!TypeOK
    <3>2. chosen # Choking!Nobody => chosen \in Peers
      BY <1>2, <1>3
    <3>3. OPTIMISTIC_UNCHOKE_MULTIPLIER \in 0 .. OPTIMISTIC_UNCHOKE_MULTIPLIER
      BY SlotsAssumption
    <3> HIDE DEF current
    <3> QED
      BY <1>1, <3>1, <3>2, <3>3
  <2> QED
    BY <2>1, <2>2, <2>3 DEF ChokingInv, Choking!TypeOK
<1>7. Served' \subseteq (K \cap interested) \cup {IF chosen = Choking!Nobody THEN current ELSE chosen}
  <2> SUFFICES ASSUME NEW p \in Served'
               PROVE  p \in K \cap interested \/ p = IF chosen = Choking!Nobody THEN current ELSE chosen
    OBVIOUS
  <2>1. p \in Choking!Connected /\ peer'[p].isRanked /\ ~peer'[p].isChoked
    BY <1>4 DEF Served
  <2>2. peer[p].isInterested /\ p \notin kept /\ ~IsChoked(p, K, chosen)
    BY <1>5, <2>1
  <2>3. CASE p \in candidates
    BY <2>2, <2>3, <1>3, <1>2, PeersAssumption DEF Choking!Nobody
  <2>4. CASE p \notin candidates
    <3>1. p = current
      BY <2>1, <2>2, <2>4
    <3>2. current # Choking!Nobody
      BY <3>1, <2>1, PeersAssumption DEF ChokingInv, Choking!TypeOK, Choking!Nobody
    <3> QED
      BY <3>1, <3>2, <1>3
  <2> QED
    BY <2>3, <2>4
<1>8. Cardinality(K \cap interested) <= uploadSlotsPerTorrent
  BY <1>0, SameCardinality DEF Choking!First
<1>9. Cardinality(Served') <= uploadSlotsPerTorrent + 1
  <2> DEFINE slots == K \cap interested
             other == IF chosen = Choking!Nobody THEN current ELSE chosen
  <2>1. IsFiniteSet(slots) /\ Cardinality(slots) \in Nat
    BY <1>2, PeersAssumption, FS_Subset, FS_CardinalityType
  <2>2. Served' \subseteq slots \cup {other} /\ Cardinality(slots) <= uploadSlotsPerTorrent
    BY <1>7, <1>8
  <2> HIDE DEF slots, other
  <2>3. IsFiniteSet(slots \cup {other}) /\ Cardinality(slots \cup {other}) <= Cardinality(slots) + 1
        /\ Cardinality(slots \cup {other}) \in Nat
    <3>1. /\ IsFiniteSet(slots \cup {other})
          /\ Cardinality(slots \cup {other})
               = IF other \in slots THEN Cardinality(slots) ELSE Cardinality(slots) + 1
      BY <2>1, FS_AddElement
    <3> QED
      BY <2>1, <3>1
  <2>4. Cardinality(Served') <= Cardinality(slots \cup {other}) /\ Cardinality(Served') \in Nat
    BY <2>2, <2>3, FS_Subset, FS_CardinalityType
  <2> QED
    BY <2>1, <2>2, <2>3, <2>4, SlotsAssumption
<1> QED
  BY <1>6, <1>9, KeptSlots DEF ChokingInv

-----------------------------------------------------------------------------
(* Interest. *)

\* The peers we are interested in.
Courted == {p \in DOMAIN wanted : wanted[p]}

InterestInv == Choking!InterestTypeOK /\ Choking!InterestIsCounted

LEMMA CountedInterest ==
  /\ Choking!InterestIsCounted <=>
       /\ Cardinality(Courted) <= interest.count /\ interest.count <= maxWanted
       /\ interest.isSeed => \A p \in DOMAIN wanted : ~wanted[p]
  /\ Choking!InterestIsCounted' <=>
       /\ Cardinality(Courted') <= interest'.count /\ interest'.count <= maxWanted
       /\ interest'.isSeed => \A p \in DOMAIN wanted' : ~wanted'[p]
BY SameCardinality DEF Choking!InterestIsCounted, Choking!Nearby, Courted

\* What takes peers of interest away, or none, and leaves the count alone, keeps it true.
LEMMA LessInterestIsCounted ==
  ASSUME InterestInv, Choking!InterestTypeOK', Courted' \subseteq Courted,
         interest'.count = interest.count, interest'.isSeed => Courted' = {}
  PROVE  InterestInv'
<1>1. Courted \subseteq Peers
  BY DEF InterestInv, Choking!InterestTypeOK, Choking!Nearby, Courted
<1>2. Cardinality(Courted') <= Cardinality(Courted) /\ Cardinality(Courted') \in Nat /\ Cardinality(Courted) \in Nat
  BY <1>1, PeersAssumption, FS_Subset, FS_CardinalityType
<1>3. interest.count \in Nat
  BY DEF InterestInv, Choking!InterestTypeOK
<1>4. Cardinality(Courted) <= interest.count /\ interest.count <= maxWanted
  BY CountedInterest DEF InterestInv
<1>5. interest'.isSeed => \A p \in DOMAIN wanted' : ~wanted'[p]
  BY DEF Courted
<1> QED
  BY <1>2, <1>3, <1>4, <1>5, CountedInterest DEF InterestInv

\* Between two pulses we lose interest only.
LEMMA OthersCourtNobody ==
  ASSUME InterestInv,
         \/ \E p \in Peers : Choking!Meet(p) \/ Choking!Part(p)
         \/ Choking!Restart
         \/ \E isSeed \in BOOLEAN : Choking!Recheck(isSeed)
  PROVE  InterestInv'
<1>0. /\ wanted \in [DOMAIN wanted -> BOOLEAN] /\ DOMAIN wanted \subseteq Peers
      /\ interest \in [max : 0 .. maxWanted, count : Nat, isSeed : BOOLEAN]
      /\ interest.isSeed => Courted = {}
  BY CountedInterest DEF InterestInv, Choking!InterestTypeOK, Choking!Nearby, Courted
<1>1. CASE \E p \in Peers : Choking!Meet(p) \/ Choking!Part(p)
  <2>1. PICK p \in Peers : Choking!Meet(p) \/ Choking!Part(p)
    BY <1>1
  <2>2. interest' = interest /\ DOMAIN wanted' \subseteq Peers /\ wanted' \in [DOMAIN wanted' -> BOOLEAN]
    BY <1>0, <2>1 DEF Choking!Meet, Choking!Part, Choking!Nearby
  <2>3. Courted' \subseteq Courted
    BY <1>0, <2>1 DEF Choking!Meet, Choking!Part, Choking!Nearby, Courted
  <2>4. Choking!InterestTypeOK'
    BY <1>0, <2>2 DEF Choking!InterestTypeOK, Choking!Nearby
  <2> QED
    BY <1>0, <2>2, <2>3, <2>4, LessInterestIsCounted
<1>2. CASE Choking!Restart
  <2>1. Courted' = {} /\ DOMAIN wanted' = {} /\ wanted' \in [DOMAIN wanted' -> BOOLEAN]
    BY <1>2 DEF Choking!Restart, Courted
  <2>2. /\ interest' \in [max : 0 .. maxWanted, count : Nat, isSeed : BOOLEAN]
        /\ interest'.count = interest.count
    BY <1>0, <1>2, InterestAssumption DEF Choking!Restart
  <2>3. Choking!InterestTypeOK'
    BY <2>1, <2>2 DEF Choking!InterestTypeOK, Choking!Nearby
  <2> QED
    BY <2>1, <2>2, <2>3, LessInterestIsCounted
<1>3. CASE \E isSeed \in BOOLEAN : Choking!Recheck(isSeed)
  <2>1. PICK isSeed \in BOOLEAN : Choking!Recheck(isSeed)
    BY <1>3
  <2>2. /\ interest' \in [max : 0 .. maxWanted, count : Nat, isSeed : BOOLEAN]
        /\ interest'.count = interest.count /\ interest'.isSeed = isSeed
    BY <1>0, <2>1 DEF Choking!Recheck
  <2>3. /\ wanted' \in [DOMAIN wanted -> BOOLEAN]
        /\ Courted' \subseteq Courted /\ (isSeed => Courted' = {})
    BY <1>0, <2>1 DEF Choking!Recheck, Choking!Nearby, Courted
  <2>4. Choking!InterestTypeOK'
    BY <1>0, <2>2, <2>3 DEF Choking!InterestTypeOK, Choking!Nearby
  <2> QED
    BY <2>2, <2>3, <2>4, LessInterestIsCounted
<1> QED
  BY <1>1, <1>2, <1>3

LEMMA HowManyFits ==
  ASSUME Choking!InterestTypeOK, NEW max \in Choking!HowMany
  PROVE  max \in 0 .. maxWanted
<1>1. interest.count \in Nat /\ interest.max \in Nat
  BY InterestAssumption DEF Choking!InterestTypeOK
<1>2. PICK n \in {0} \cup (interest.count \div 2 .. interest.count)
                 \cup (interest.max .. interest.max + maxIncrease) : max = Choking!Clamped(n)
  BY DEF Choking!HowMany
<1>3. n \in Nat
  BY <1>1, <1>2, InterestAssumption
<1> QED
  BY <1>2, <1>3, InterestAssumption DEF Choking!Clamped

\* A pulse counts those it chooses.
LEMMA PulseCountsInterest ==
  ASSUME InterestInv, Choking!rechokeDownloads
  PROVE  InterestInv'
<1>0. /\ wanted \in [DOMAIN wanted -> BOOLEAN] /\ DOMAIN wanted \subseteq Peers
      /\ interest \in [max : 0 .. maxWanted, count : Nat, isSeed : BOOLEAN]
  BY DEF InterestInv, Choking!InterestTypeOK, Choking!Nearby
<1>1. PICK max \in Choking!HowMany, interesting \in SUBSET Choking!Nearby :
        \E best \in SUBSET interesting :
       /\ Choking!Cardinality(best) <= max
       /\ best = interesting \/ Choking!Cardinality(best) = max
       /\ wanted' = [q \in Choking!Nearby |-> q \in best]
       /\ interest' = [interest EXCEPT !.max = max, !.count = Choking!Cardinality(best)]
  BY DEF Choking!rechokeDownloads
<1>2. PICK best \in SUBSET interesting :
       /\ Choking!Cardinality(best) <= max
       /\ wanted' = [q \in Choking!Nearby |-> q \in best]
       /\ interest' = [interest EXCEPT !.max = max, !.count = Choking!Cardinality(best)]
  BY <1>1
<1>3. ~interest.isSeed
  BY DEF Choking!rechokeDownloads
<1>4. max \in 0 .. maxWanted
  BY HowManyFits DEF InterestInv
<1>5. best \subseteq DOMAIN wanted /\ Cardinality(best) \in Nat /\ Cardinality(best) <= max
  <2>1. best \subseteq DOMAIN wanted
    BY DEF Choking!Nearby
  <2> QED
    BY <1>0, <1>2, <2>1, PeersAssumption, FS_Subset, FS_CardinalityType, SameCardinality
<1>6. /\ interest' \in [max : 0 .. maxWanted, count : Nat, isSeed : BOOLEAN]
      /\ interest'.count = Cardinality(best) /\ ~interest'.isSeed
  <2> DEFINE n == Choking!Cardinality(best)
  <2>1. n = Cardinality(best) /\ n \in Nat
    BY <1>5, SameCardinality
  <2>2. interest' = [interest EXCEPT !.max = max, !.count = n]
    BY <1>2
  <2> HIDE DEF n
  <2> QED
    BY <1>0, <1>3, <1>4, <2>1, <2>2
<1>7. wanted' \in [DOMAIN wanted -> BOOLEAN] /\ Courted' = best
  <2>1. DOMAIN wanted' = DOMAIN wanted /\ \A q \in DOMAIN wanted : wanted'[q] = (q \in best)
    BY <1>2 DEF Choking!Nearby
  <2>2. wanted' = [q \in DOMAIN wanted |-> q \in best]
    BY <1>2 DEF Choking!Nearby
  <2>3. wanted' \in [DOMAIN wanted -> BOOLEAN]
    <3>1. \A q \in DOMAIN wanted : (q \in best) \in BOOLEAN
      OBVIOUS
    <3>2. [q \in DOMAIN wanted |-> q \in best] \in [DOMAIN wanted -> BOOLEAN]
      BY <3>1
    <3> QED
      BY <2>2, <3>2, Zenon
  <2>4. Courted' = best
    BY <1>5, <2>1, Zenon DEF Courted
  <2> QED
    BY <2>3, <2>4
<1>8. Choking!InterestTypeOK'
  BY <1>0, <1>6, <1>7 DEF Choking!InterestTypeOK, Choking!Nearby
<1>9. Cardinality(Courted') <= interest'.count /\ interest'.count <= maxWanted
  BY <1>4, <1>5, <1>6, <1>7, InterestAssumption
<1> QED
  BY <1>6, <1>8, <1>9, CountedInterest DEF InterestInv

-----------------------------------------------------------------------------
\* The upload slots (rechokeUploads): whatever the rates, the orders and the memory do, no more
\* peers that the last pulse ranked are served than there are slots, and one.  The interest
\* (rechokeDownloads, tr_peerMgrClearInterest): however peers come, go and are ranked, we are
\* interested in no more than were counted, and in none once all is there.
THEOREM SlotsStayKept == Spec => []SlotsAreKept
<1> DEFINE Inv == (focus = "choking" => ChokingInv) /\ (focus = "interest" => InterestInv)
<1>1. Init => Inv
  <2> SUFFICES ASSUME Init
               PROVE  Inv
    OBVIOUS
  <2>1. ASSUME focus = "choking"
        PROVE  ChokingInv
    <3>1. Choking!Init
      BY <2>1 DEF Init
    <3>2. DOMAIN peer = {} /\ Served = {}
      BY <3>1 DEF Choking!Init, Served
    <3>3. Choking!TypeOK
      BY <3>1, <3>2, SlotsAssumption DEF Choking!Init, Choking!TypeOK, Choking!Connected
    <3>4. Cardinality(Served) = 0
      BY <3>2, FS_EmptySet
    <3> QED
      BY <3>3, <3>4, KeptSlots, SlotsAssumption DEF ChokingInv
  <2>2. ASSUME focus = "interest"
        PROVE  InterestInv
    <3>1. Choking!InterestInit
      BY <2>2 DEF Init
    <3>2. DOMAIN wanted = {} /\ Courted = {} /\ interest.count = 0
      BY <3>1 DEF Choking!InterestInit, Courted
    <3>3. Choking!InterestTypeOK
      BY <3>1, <3>2, InterestAssumption
      DEF Choking!InterestInit, Choking!InterestTypeOK, Choking!Nearby
    <3>4. Cardinality(Courted) = 0
      BY <3>2, FS_EmptySet
    <3> QED
      BY <3>2, <3>3, <3>4, CountedInterest, InterestAssumption DEF InterestInv
  <2> QED
    BY <2>1, <2>2
<1>2. Inv /\ [Next]_vars => Inv'
  <2> SUFFICES ASSUME Inv, [Next]_vars
               PROVE  Inv'
    OBVIOUS
  <2>1. ASSUME focus' = "choking"
        PROVE  ChokingInv'
    <3>1. focus = "choking" /\ ChokingInv
      BY <2>1 DEF Next, vars
    <3>2. CASE Next
      <4>1. Choking!Next
        BY <3>1, <3>2 DEF Next
      <4> QED
        BY <3>1, <4>1, OthersServeNobody, PulseKeepsSlots DEF Choking!Next
    <3>3. CASE UNCHANGED vars
      <4>1. UNCHANGED <<peer, optimistic>>
        BY <3>3 DEF vars, chokeVars
      <4> QED
        BY <3>1, <4>1 DEF ChokingInv, Choking!TypeOK, Choking!SlotsAreKept, Choking!Connected
    <3> QED
      BY <3>2, <3>3
  <2>2. ASSUME focus' = "interest"
        PROVE  InterestInv'
    <3>1. focus = "interest" /\ InterestInv
      BY <2>2 DEF Next, vars
    <3>2. CASE Next
      <4>1. Choking!InterestNext
        BY <3>1, <3>2 DEF Next
      <4> QED
        BY <3>1, <4>1, OthersCourtNobody, PulseCountsInterest DEF Choking!InterestNext
    <3>3. CASE UNCHANGED vars
      <4>1. UNCHANGED <<wanted, interest>>
        BY <3>3 DEF vars, interestVars
      <4> QED
        BY <3>1, <4>1
        DEF InterestInv, Choking!InterestTypeOK, Choking!InterestIsCounted, Choking!Nearby
    <3> QED
      BY <3>2, <3>3
  <2> QED
    BY <2>1, <2>2
<1>3. Inv => SlotsAreKept
  BY DEF SlotsAreKept, ChokingInv, InterestInv
<1> QED
  BY <1>1, <1>2, <1>3, PTL DEF Spec

-----------------------------------------------------------------------------
(* Connections. *)

AtomRecords == [banned : BOOLEAN, blocklisted : SUBSET BOOLEAN, seed : BOOLEAN, waits : BOOLEAN]

ConnTypes ==
  /\ isRunning \in BOOLEAN
  /\ DOMAIN pool \subseteq Addresses /\ pool \in [DOMAIN pool -> AtomRecords]
  /\ DOMAIN peers \subseteq Addresses /\ outgoing \subseteq Addresses /\ incoming \subseteq Addresses
  /\ open \in [Addresses -> Int]

\* The connections to an address are those of its users.
In(x, S) == IF x \in S THEN 1 ELSE 0
Owned    == \A x \in Addresses : open[x] = In(x, DOMAIN peers) + In(x, outgoing) + In(x, incoming)

\* What an atom remembers of the blocklist is true, unless it was replaced without a word.
Remembered == replaced \/ \A x \in DOMAIN pool : pool[x].blocklisted \subseteq Conns!Told(x)

ConnsInv == ConnTypes /\ Owned /\ Conns!AtomsOutliveTheirUsers /\ Remembered

\* What the handlers change of an atom leaves what it remembers of the blocklist.
LEMMA AtomChanges ==
  ASSUME NEW p, p \in [DOMAIN p -> AtomRecords], NEW x, NEW r,
         x \in DOMAIN p => r \in AtomRecords /\ r.blocklisted = p[x].blocklisted,
         NEW q, q = [p EXCEPT ![x] = r]
  PROVE  /\ DOMAIN q = DOMAIN p /\ q \in [DOMAIN q -> AtomRecords]
         /\ \A y \in DOMAIN q : q[y].blocklisted = p[y].blocklisted
<1>1. DOMAIN q = DOMAIN p /\ \A y \in DOMAIN q : q[y] = IF y = x THEN r ELSE p[y]
  OBVIOUS
<1>2. q \in [DOMAIN q -> AtomRecords]
  <2>1. q = [y \in DOMAIN p |-> q[y]]
    OBVIOUS
  <2> QED
    BY <1>1, <2>1
<1> QED
  BY <1>1, <1>2

LEMMA ConnsCardinality ==
  ASSUME NEW x, NEW S
  PROVE  Conns!Cardinality({x} \cap S) = In(x, S)
<1>1. Conns!Cardinality({x} \cap S) = Cardinality({x} \cap S)
  BY DEF Conns!Cardinality, Cardinality
<1>2. CASE x \in S
  <2>1. {x} \cap S = {x}
    BY <1>2
  <2> QED
    BY <1>1, <1>2, <2>1, FS_Singleton DEF In
<1>3. CASE x \notin S
  <2>1. {x} \cap S = {}
    BY <1>3
  <2> QED
    BY <1>1, <1>3, <2>1, FS_EmptySet DEF In
<1> QED
  BY <1>2, <1>3

\* What the run checks follows from the invariant.
LEMMA ConnsInvSays == ConnsInv => Conns!TypeOK /\ Conns!ConnectionsAreOwned /\ Conns!AtomsOutliveTheirUsers
<1> SUFFICES ASSUME ConnsInv
             PROVE  Conns!TypeOK /\ Conns!ConnectionsAreOwned
  BY DEF ConnsInv
<1>1. Conns!ConnectionsAreOwned
  BY ConnsCardinality DEF ConnsInv, Owned, Conns!ConnectionsAreOwned, Conns!Connected
<1>2. \A x \in Addresses : open[x] \in 0 .. 3
  BY DEF ConnsInv, Owned, In
<1> QED
  BY <1>1, <1>2 DEF ConnsInv, ConnTypes, Conns!TypeOK, Conns!Atoms, Conns!Connected

\* A step that opens and closes nothing, and has no user of an atom come or go.
LEMMA UsersStay ==
  ASSUME ConnsInv,
         UNCHANGED <<isRunning, outgoing, incoming, open>>, DOMAIN peers' = DOMAIN peers,
         DOMAIN pool' \subseteq Addresses, pool' \in [DOMAIN pool' -> AtomRecords],
         DOMAIN peers \cup outgoing \subseteq DOMAIN pool', Remembered'
  PROVE  ConnsInv' /\ Conns!LeavesBlockedAlone
<1>1. ConnTypes' /\ Owned'
  BY DEF ConnsInv, ConnTypes, Owned
<1>2. Conns!AtomsOutliveTheirUsers'
  BY DEF ConnsInv, Conns!AtomsOutliveTheirUsers, Conns!Connected, Conns!Atoms
<1> QED
  BY <1>1, <1>2 DEF ConnsInv, Conns!LeavesBlockedAlone, Conns!Connected

\* What is learnt of addresses, and of their blocks, strikes and errors.
LEMMA AtomStep ==
  ASSUME ConnsInv,
         \/ \E x \in Addresses : \/ Conns!tr_peerMgrAddPex(x) \/ Conns!IntervalPasses(x)
                                  \/ Conns!addStrike(x) \/ Conns!PeerError(x) \/ Conns!PeerIsSeed(x)
         \/ \E list \in Blocklists : Conns!ReloadBlocklists(list) \/ Conns!SetBlocklist(list)
         \/ Conns!atomPulse
  PROVE  ConnsInv' /\ Conns!LeavesBlockedAlone
<1> USE DEF AtomRecords, Conns!Atoms, Conns!Connected
<1>0. /\ ConnTypes /\ Remembered /\ DOMAIN peers \cup outgoing \subseteq DOMAIN pool
  BY DEF ConnsInv, Conns!AtomsOutliveTheirUsers
<1>1. ASSUME NEW x \in Addresses, Conns!tr_peerMgrAddPex(x)
      PROVE  ConnsInv' /\ Conns!LeavesBlockedAlone
  <2>1. /\ DOMAIN pool' = DOMAIN pool \cup {x} /\ pool' \in [DOMAIN pool' -> AtomRecords]
        /\ \A y \in DOMAIN pool' : pool'[y].blocklisted = IF y \in DOMAIN pool THEN pool[y].blocklisted ELSE {}
    BY <1>0, <1>1 DEF Conns!tr_peerMgrAddPex, Conns!ensureAtomExists, Conns!With, Conns!NewAtom, ConnTypes
  <2>2. Remembered'
    BY <1>0, <1>1, <2>1 DEF Conns!tr_peerMgrAddPex, Remembered, Conns!Told
  <2> QED
    BY <1>0, <1>1, <2>1, <2>2, UsersStay DEF Conns!tr_peerMgrAddPex, ConnTypes
<1>2. ASSUME NEW x \in Addresses, Conns!IntervalPasses(x) \/ Conns!PeerIsSeed(x) \/ Conns!addStrike(x)
      PROVE  ConnsInv' /\ Conns!LeavesBlockedAlone
  <2>1. /\ DOMAIN pool' = DOMAIN pool /\ pool' \in [DOMAIN pool' -> AtomRecords]
        /\ \A y \in DOMAIN pool' : pool'[y].blocklisted = pool[y].blocklisted
    <3>0. pool \in [DOMAIN pool -> AtomRecords]
      BY <1>0 DEF ConnTypes
    <3>a. ASSUME NEW r, x \in DOMAIN pool => r \in AtomRecords /\ r.blocklisted = pool[x].blocklisted,
                 pool' = [pool EXCEPT ![x] = r]
          PROVE  /\ DOMAIN pool' = DOMAIN pool /\ pool' \in [DOMAIN pool' -> AtomRecords]
                 /\ \A y \in DOMAIN pool' : pool'[y].blocklisted = pool[y].blocklisted
      <4> HIDE DEF AtomRecords, Conns!Atoms, Conns!Connected
      <4> QED
        BY <3>0, <3>a, AtomChanges
    <3>b. x \in DOMAIN pool => pool[x] \in AtomRecords
      BY <3>0
    <3>1. CASE Conns!IntervalPasses(x)
      <4> DEFINE r == [pool[x] EXCEPT !.waits = FALSE]
      <4>1. pool' = [pool EXCEPT ![x] = r]
        BY <3>1 DEF Conns!IntervalPasses
      <4>2. x \in DOMAIN pool => r \in AtomRecords /\ r.blocklisted = pool[x].blocklisted
        BY <3>b
      <4> HIDE DEF r
      <4> QED
        BY <3>a, <4>1, <4>2
    <3>2. CASE Conns!PeerIsSeed(x)
      <4> DEFINE r == [pool[x] EXCEPT !.seed = TRUE]
      <4>1. pool' = [pool EXCEPT ![x] = r]
        BY <3>2 DEF Conns!PeerIsSeed
      <4>2. x \in DOMAIN pool => r \in AtomRecords /\ r.blocklisted = pool[x].blocklisted
        BY <3>b
      <4> HIDE DEF r
      <4> QED
        BY <3>a, <4>1, <4>2
    <3>3. CASE Conns!addStrike(x)
      <4>1. PICK out \in BOOLEAN : pool' = [pool EXCEPT ![x].banned = pool[x].banned \/ out]
        BY <3>3 DEF Conns!addStrike
      <4> DEFINE r == [pool[x] EXCEPT !.banned = pool[x].banned \/ out]
      <4>2. pool' = [pool EXCEPT ![x] = r]
        BY <4>1
      <4>3. x \in DOMAIN pool => r \in AtomRecords /\ r.blocklisted = pool[x].blocklisted
        BY <3>b
      <4> HIDE DEF r
      <4> QED
        BY <3>a, <4>2, <4>3
    <3> QED
      BY <1>2, <3>1, <3>2, <3>3
  <2>2. Remembered'
    BY <1>0, <1>2, <2>1 DEF Conns!IntervalPasses, Conns!PeerIsSeed, Conns!addStrike, Remembered, Conns!Told
  <2> QED
    BY <1>0, <1>2, <2>1, <2>2, UsersStay
      DEF Conns!IntervalPasses, Conns!PeerIsSeed, Conns!addStrike, ConnTypes
<1>3. ASSUME NEW x \in Addresses, Conns!PeerError(x)
      PROVE  ConnsInv' /\ Conns!LeavesBlockedAlone
  <2>1. Remembered'
    BY <1>0, <1>3 DEF Conns!PeerError, Remembered, Conns!Told
  <2> QED
    BY <1>0, <1>3, <2>1, UsersStay DEF Conns!PeerError, ConnTypes
<1>4. ASSUME NEW list \in Blocklists, Conns!ReloadBlocklists(list)
      PROVE  ConnsInv' /\ Conns!LeavesBlockedAlone
  <2>1. /\ DOMAIN pool' = DOMAIN pool /\ pool' \in [DOMAIN pool' -> AtomRecords]
        /\ \A y \in DOMAIN pool' : pool'[y].blocklisted = {}
    BY <1>0, <1>4 DEF Conns!ReloadBlocklists, Conns!OnBlocklistChanged, ConnTypes
  <2>2. Remembered'
    BY <1>0, <1>4, <2>1 DEF Conns!ReloadBlocklists, Remembered, Conns!Told
  <2> QED
    BY <1>0, <1>4, <2>1, <2>2, UsersStay DEF Conns!ReloadBlocklists, ConnTypes
<1>5. ASSUME NEW list \in Blocklists, Conns!SetBlocklist(list)
      PROVE  ConnsInv' /\ Conns!LeavesBlockedAlone
  <2>1. Remembered'
    BY <1>0, <1>5 DEF Conns!SetBlocklist, Remembered, Conns!Told
  <2> QED
    BY <1>0, <1>5, <2>1, UsersStay DEF Conns!SetBlocklist, ConnTypes
<1>6. ASSUME Conns!atomPulse
      PROVE  ConnsInv' /\ Conns!LeavesBlockedAlone
  <2>1. PICK keep \in SUBSET DOMAIN pool :
          /\ {x \in DOMAIN pool : Conns!peerIsInUse(x)} \subseteq keep
          /\ pool' = [x \in keep |-> pool[x]]
    BY <1>6 DEF Conns!atomPulse
  <2>2. DOMAIN pool' = keep /\ pool' \in [keep -> AtomRecords]
    BY <1>0, <2>1 DEF ConnTypes
  <2>3. DOMAIN peers \cup outgoing \subseteq keep
    BY <1>0, <2>1 DEF Conns!peerIsInUse
  <2>4. Remembered'
    BY <1>0, <1>6, <2>1, <2>2 DEF Conns!atomPulse, Remembered, Conns!Told
  <2> QED
    BY <1>0, <1>6, <2>2, <2>3, <2>4, UsersStay DEF Conns!atomPulse, ConnTypes
<1> QED
  BY <1>1, <1>2, <1>3, <1>4, <1>5, <1>6

\* A handshake begins, and its connection with it.
LEMMA IncomingStep ==
  ASSUME ConnsInv, NEW x \in Addresses, Conns!tr_peerMgrAddIncoming(x)
  PROVE  ConnsInv' /\ Conns!LeavesBlockedAlone
<1> USE DEF Conns!tr_peerMgrAddIncoming, Conns!Opened
<1>1. ConnTypes'
  BY DEF ConnsInv, ConnTypes
<1>2. Owned'
  BY DEF ConnsInv, ConnTypes, Owned, In
<1>3. Conns!AtomsOutliveTheirUsers' /\ Remembered' /\ Conns!LeavesBlockedAlone
  BY DEF ConnsInv, Conns!AtomsOutliveTheirUsers, Remembered, Conns!Told, Conns!LeavesBlockedAlone, Conns!Atoms, Conns!Connected
<1> QED
  BY <1>1, <1>2, <1>3 DEF ConnsInv

\* A handshake ends: a new peer takes the connection over, or it is closed.
LEMMA HandshakeStep ==
  ASSUME ConnsInv, NEW x \in Addresses,
         NEW isIncoming \in BOOLEAN, NEW isConnected \in BOOLEAN, NEW ours \in BOOLEAN,
         Conns!HandshakeDone(x, isIncoming, isConnected, ours)
  PROVE  ConnsInv' /\ Conns!LeavesBlockedAlone
<1> USE DEF Conns!Atoms, Conns!Connected
<1>0. ConnTypes /\ Owned /\ Conns!AtomsOutliveTheirUsers /\ Remembered
  BY DEF ConnsInv
<1> DEFINE ok      == isConnected /\ ours /\ isRunning
           known   == Conns!ensureAtomExists(x)
           success == /\ ok /\ ~known[x].banned
                      /\ isIncoming => Conns!Cardinality(DOMAIN peers) < maxConnectedPeers
                      /\ x \notin DOMAIN peers
<1>1. /\ IF isIncoming THEN x \in incoming /\ incoming' = incoming \ {x} /\ UNCHANGED outgoing
         ELSE x \in outgoing /\ ours /\ outgoing' = outgoing \ {x} /\ UNCHANGED incoming
      /\ pool'  = IF ok THEN [known EXCEPT ![x].waits = TRUE] ELSE pool
      /\ peers' = IF success THEN Conns!With(peers, x, Conns!NewPeer) ELSE peers
      /\ open' = IF success THEN open ELSE [y \in Addresses |-> IF y = x THEN open[y] - 1 ELSE open[y]]
      /\ UNCHANGED <<isRunning, blocklist, replaced>>
  BY DEF Conns!HandshakeDone, Conns!Closed
<1>2. /\ DOMAIN known = DOMAIN pool \cup {x} /\ known \in [DOMAIN known -> AtomRecords]
      /\ \A y \in DOMAIN known : known[y].blocklisted = IF y \in DOMAIN pool THEN pool[y].blocklisted ELSE {}
      /\ x \in DOMAIN pool => known = pool
  BY <1>0 DEF ConnTypes, AtomRecords, Conns!ensureAtomExists, Conns!With, Conns!NewAtom
<1>3. /\ DOMAIN pool' = (IF ok THEN DOMAIN pool \cup {x} ELSE DOMAIN pool)
      /\ pool' \in [DOMAIN pool' -> AtomRecords]
      /\ \A y \in DOMAIN pool' : pool'[y].blocklisted = IF y \in DOMAIN pool THEN pool[y].blocklisted ELSE {}
  <2> HIDE DEF known
  <2>1. CASE ok
    <3>1. pool' = [known EXCEPT ![x].waits = TRUE]
      BY <1>1, <2>1
    <3> HIDE DEF ok
    <3> QED
      <4> DEFINE r == [known[x] EXCEPT !.waits = TRUE]
      <4>1. pool' = [known EXCEPT ![x] = r]
        BY <3>1
      <4>a. x \in DOMAIN known => r \in AtomRecords /\ r.blocklisted = known[x].blocklisted
        <5>1. x \in DOMAIN known => known[x] \in AtomRecords
          BY <1>2
        <5> QED
          BY <5>1 DEF AtomRecords
      <4>b. known \in [DOMAIN known -> AtomRecords]
        BY <1>2
      <4> HIDE DEF r, AtomRecords
      <4>2. /\ DOMAIN pool' = DOMAIN known /\ pool' \in [DOMAIN pool' -> AtomRecords]
            /\ \A y \in DOMAIN pool' : pool'[y].blocklisted = known[y].blocklisted
        BY <4>1, <4>a, <4>b, AtomChanges
      <4> QED
        BY <1>2, <2>1, <4>2
  <2>2. CASE ~ok
    BY <1>0, <1>1, <2>2 DEF ConnTypes
  <2> QED
    BY <2>1, <2>2
<1>4. DOMAIN peers' = IF success THEN DOMAIN peers \cup {x} ELSE DOMAIN peers
  BY <1>1 DEF Conns!With
<1>5. success => ok /\ x \notin DOMAIN peers /\ (x \in DOMAIN pool => ~pool[x].banned)
  BY <1>2
<1> HIDE DEF known, success
<1>6. ConnTypes'
  BY <1>0, <1>1, <1>3, <1>4 DEF ConnTypes
<1>7. Owned'
  <2> SUFFICES ASSUME NEW y \in Addresses
               PROVE  open'[y] = In(y, DOMAIN peers') + In(y, outgoing') + In(y, incoming')
    BY DEF Owned
  <2>1. open[y] = In(y, DOMAIN peers) + In(y, outgoing) + In(y, incoming) /\ open[y] \in Int
    BY <1>0 DEF Owned, ConnTypes
  <2>2. CASE y = x
    BY <1>1, <1>4, <1>5, <2>1, <2>2 DEF In
  <2>3. CASE y # x
    <3>1. open'[y] = open[y] /\ In(y, DOMAIN peers') = In(y, DOMAIN peers)
          /\ In(y, outgoing') = In(y, outgoing) /\ In(y, incoming') = In(y, incoming)
      BY <1>1, <1>4, <2>3 DEF In
    <3> QED
      BY <2>1, <3>1
  <2> QED
    BY <2>2, <2>3
<1>8. Conns!AtomsOutliveTheirUsers'
  BY <1>0, <1>1, <1>3, <1>4, <1>5 DEF Conns!AtomsOutliveTheirUsers
<1>9. Remembered'
  <2> SUFFICES ASSUME ~replaced, NEW y \in DOMAIN pool'
               PROVE  pool'[y].blocklisted \subseteq Conns!Told(y)
    BY <1>1 DEF Remembered, Conns!Told
  <2>1. y \in DOMAIN pool => pool[y].blocklisted \subseteq Conns!Told(y)
    BY <1>0 DEF Remembered
  <2> QED
    BY <1>3, <2>1
<1>10. Conns!LeavesBlockedAlone
  BY <1>1, <1>4, <1>5 DEF Conns!LeavesBlockedAlone
<1> QED
  BY <1>6, <1>7, <1>8, <1>9, <1>10 DEF ConnsInv

\* The pulse closes the connections of the peers it removes, and opens those it makes: with
\* addresses that nobody has a connection with, and that are not blocked.
LEMMA PulseStep ==
  ASSUME ConnsInv, Conns!reconnectPulse
  PROVE  ConnsInv' /\ Conns!LeavesBlockedAlone
<1> USE DEF Conns!Atoms, Conns!Connected
<1>0. ConnTypes /\ Owned /\ Conns!AtomsOutliveTheirUsers /\ Remembered
  BY DEF ConnsInv
<1>1. PICK keep \in SUBSET DOMAIN peers, weSeed \in BOOLEAN : \E close \in SUBSET keep :
        LET left       == keep \ close
            candidates == Conns!getPeerCandidates(left, weSeed) IN
        /\ Conns!Enforced(keep) /\ Conns!Closing(close, keep)
        /\ \E try \in SUBSET candidates : \E made \in SUBSET try :
          /\ Conns!Cardinality(try) = IF Conns!Cardinality(candidates) > MAX_CONNECTIONS_PER_PULSE
                                     THEN MAX_CONNECTIONS_PER_PULSE ELSE Conns!Cardinality(candidates)
          /\ outgoing' = outgoing \cup made
          /\ peers' = [x \in left |-> peers[x]]
          /\ open' = [x \in Addresses |-> IF x \in made THEN open[x] + 1
                                          ELSE IF x \in DOMAIN peers \ left THEN open[x] - 1 ELSE open[x]]
          /\ pool' = [x \in DOMAIN pool |->
               [pool[x] EXCEPT !.waits = @ \/ x \in try \cup (DOMAIN peers \ left),
                               !.blocklisted = IF ~Conns!Full(left) /\ Conns!MayBeCandidate(x, weSeed)
                                               THEN Conns!Answer(x) ELSE @]]
  BY DEF Conns!reconnectPulse
<1>2. PICK close \in SUBSET keep :
        LET left       == keep \ close
            candidates == Conns!getPeerCandidates(left, weSeed) IN
        /\ Conns!Enforced(keep) /\ Conns!Closing(close, keep)
        /\ \E try \in SUBSET candidates : \E made \in SUBSET try :
          /\ Conns!Cardinality(try) = IF Conns!Cardinality(candidates) > MAX_CONNECTIONS_PER_PULSE
                                     THEN MAX_CONNECTIONS_PER_PULSE ELSE Conns!Cardinality(candidates)
          /\ outgoing' = outgoing \cup made
          /\ peers' = [x \in left |-> peers[x]]
          /\ open' = [x \in Addresses |-> IF x \in made THEN open[x] + 1
                                          ELSE IF x \in DOMAIN peers \ left THEN open[x] - 1 ELSE open[x]]
          /\ pool' = [x \in DOMAIN pool |->
               [pool[x] EXCEPT !.waits = @ \/ x \in try \cup (DOMAIN peers \ left),
                               !.blocklisted = IF ~Conns!Full(left) /\ Conns!MayBeCandidate(x, weSeed)
                                               THEN Conns!Answer(x) ELSE @]]
  BY <1>1
<1> DEFINE left       == keep \ close
           candidates == Conns!getPeerCandidates(left, weSeed)
<1>3a. PICK try \in SUBSET candidates : \E made \in SUBSET try :
      /\ Conns!Cardinality(try) = IF Conns!Cardinality(candidates) > MAX_CONNECTIONS_PER_PULSE
                                 THEN MAX_CONNECTIONS_PER_PULSE ELSE Conns!Cardinality(candidates)
      /\ outgoing' = outgoing \cup made
      /\ peers' = [x \in left |-> peers[x]]
      /\ open' = [x \in Addresses |-> IF x \in made THEN open[x] + 1
                                      ELSE IF x \in DOMAIN peers \ left THEN open[x] - 1 ELSE open[x]]
      /\ pool' = [x \in DOMAIN pool |->
           [pool[x] EXCEPT !.waits = @ \/ x \in try \cup (DOMAIN peers \ left),
                           !.blocklisted = IF ~Conns!Full(left) /\ Conns!MayBeCandidate(x, weSeed)
                                           THEN Conns!Answer(x) ELSE @]]
  BY <1>2
<1>3. PICK made \in SUBSET try :
      /\ outgoing' = outgoing \cup made
      /\ peers' = [x \in left |-> peers[x]]
      /\ open' = [x \in Addresses |-> IF x \in made THEN open[x] + 1
                                      ELSE IF x \in DOMAIN peers \ left THEN open[x] - 1 ELSE open[x]]
      /\ pool' = [x \in DOMAIN pool |->
           [pool[x] EXCEPT !.waits = @ \/ x \in try \cup (DOMAIN peers \ left),
                           !.blocklisted = IF ~Conns!Full(left) /\ Conns!MayBeCandidate(x, weSeed)
                                           THEN Conns!Answer(x) ELSE @]]
  BY <1>3a
<1>4. isRunning /\ UNCHANGED <<isRunning, incoming, blocklist, replaced>>
  BY DEF Conns!reconnectPulse
<1>5. \A x \in candidates : /\ x \in DOMAIN pool /\ x \notin DOMAIN peers /\ x \notin outgoing
                             /\ x \notin incoming /\ TRUE \notin Conns!Answer(x)
  BY DEF Conns!getPeerCandidates, Conns!isPeerCandidate, Conns!MayBeCandidate, Conns!peerIsInUse,
    Conns!isAtomBlocklisted
<1>6. left \subseteq DOMAIN peers
  OBVIOUS
<1> HIDE DEF left, candidates
<1>7. DOMAIN peers' = left /\ DOMAIN pool' = DOMAIN pool
  BY <1>3
<1>8. \A x \in DOMAIN pool : /\ pool'[x] \in AtomRecords
                             /\ pool'[x].blocklisted = pool[x].blocklisted \/ pool'[x].blocklisted = Conns!Answer(x)
  <2> SUFFICES ASSUME NEW x \in DOMAIN pool
               PROVE  /\ pool'[x] \in AtomRecords
                      /\ pool'[x].blocklisted = pool[x].blocklisted \/ pool'[x].blocklisted = Conns!Answer(x)
    OBVIOUS
  <2> DEFINE waits == pool[x].waits \/ x \in try \cup (DOMAIN peers \ left)
             asked == ~Conns!Full(left) /\ Conns!MayBeCandidate(x, weSeed)
             known == IF asked THEN Conns!Answer(x) ELSE pool[x].blocklisted
  <2>1. pool[x] \in AtomRecords /\ Conns!Answer(x) \in SUBSET BOOLEAN
    BY <1>0 DEF ConnTypes, AtomRecords, Conns!Answer, Conns!Told
  <2>2. waits \in BOOLEAN
    BY <2>1 DEF AtomRecords
  <2>3. known \in SUBSET BOOLEAN /\ (known = pool[x].blocklisted \/ known = Conns!Answer(x))
    BY <2>1 DEF AtomRecords
  <2>4. pool'[x] = [pool[x] EXCEPT !.waits = waits, !.blocklisted = known]
    BY <1>3
  <2> HIDE DEF waits, known
  <2> QED
    BY <2>1, <2>2, <2>3, <2>4 DEF AtomRecords
<1>9. ConnTypes'
  <2>1. pool' \in [DOMAIN pool -> AtomRecords]
    BY <1>3, <1>8
  <2>2. open' \in [Addresses -> Int]
    <3>1. ASSUME NEW x \in Addresses
          PROVE  (IF x \in made THEN open[x] + 1
                  ELSE IF x \in DOMAIN peers \ left THEN open[x] - 1 ELSE open[x]) \in Int
      BY <1>0 DEF ConnTypes
    <3> QED
      BY <1>3, <3>1
  <2> QED
    BY <1>0, <1>3, <1>4, <1>5, <1>6, <1>7, <2>1, <2>2 DEF ConnTypes
<1>10. Owned'
  <2> SUFFICES ASSUME NEW x \in Addresses
               PROVE  open'[x] = In(x, DOMAIN peers') + In(x, outgoing') + In(x, incoming')
    BY DEF Owned
  <2>1. open[x] = In(x, DOMAIN peers) + In(x, outgoing) + In(x, incoming) /\ open[x] \in Int
    BY <1>0 DEF Owned, ConnTypes
  <2>2. open'[x] = IF x \in made THEN open[x] + 1 ELSE IF x \in DOMAIN peers \ left THEN open[x] - 1 ELSE open[x]
    BY <1>3
  <2>3. /\ x \in DOMAIN peers' <=> x \in left
        /\ x \in outgoing' <=> x \in outgoing \/ x \in made
        /\ x \in incoming' <=> x \in incoming
        /\ x \in left => x \in DOMAIN peers
        /\ x \in made => x \notin DOMAIN peers /\ x \notin outgoing /\ x \notin incoming
    BY <1>3, <1>4, <1>5, <1>6, <1>7
  <2>4. x \in DOMAIN peers \ left <=> x \in DOMAIN peers /\ x \notin left
    OBVIOUS
  <2> QED
    BY <2>1, <2>2, <2>3, <2>4 DEF In
<1>11. Conns!AtomsOutliveTheirUsers'
  BY <1>0, <1>3, <1>4, <1>5, <1>6, <1>7 DEF Conns!AtomsOutliveTheirUsers
<1>12. \A x \in DOMAIN pool : replaced \/ Conns!Answer(x) = Conns!Told(x)
  BY <1>0 DEF Remembered, Conns!Answer, Conns!Told
<1>13. Remembered'
  BY <1>0, <1>4, <1>7, <1>8, <1>12 DEF Remembered, Conns!Told
<1>14. Conns!LeavesBlockedAlone
  <2>1. \A x \in outgoing' \ outgoing : x \in candidates
    BY <1>3
  <2>2. DOMAIN peers' \ DOMAIN peers = {}
    BY <1>6, <1>7
  <2>3. replaced \/ \A x \in outgoing' \ outgoing : x \notin blocklist
    BY <2>1, <1>5, <1>12 DEF Conns!Told
  <2> QED
    BY <2>2, <2>3 DEF Conns!LeavesBlockedAlone
<1> QED
  BY <1>9, <1>10, <1>11, <1>13, <1>14 DEF ConnsInv

\* The torrent starts, or stops and closes all that is its own.
LEMMA StartStopStep ==
  ASSUME ConnsInv, Conns!Start \/ Conns!Stop
  PROVE  ConnsInv' /\ Conns!LeavesBlockedAlone
<1> USE DEF Conns!Atoms, Conns!Connected
<1>0. ConnTypes /\ Owned /\ Conns!AtomsOutliveTheirUsers /\ Remembered
  BY DEF ConnsInv
<1>1. CASE Conns!Start
  <2>1. Conns!AtomsOutliveTheirUsers' /\ isRunning' \in BOOLEAN
    BY <1>0, <1>1 DEF Conns!Start, Conns!AtomsOutliveTheirUsers
  <2>2. ConnTypes' /\ Owned' /\ Remembered' /\ Conns!LeavesBlockedAlone
    BY <1>0, <1>1, <2>1 DEF Conns!Start, ConnTypes, Owned, Remembered, Conns!Told, Conns!LeavesBlockedAlone
  <2> QED
    BY <2>1, <2>2 DEF ConnsInv
<1>2. CASE Conns!Stop
  <2>1. /\ isRunning' = FALSE /\ DOMAIN peers' = {} /\ outgoing' = {}
        /\ open' = [x \in Addresses |-> open[x] - In(x, DOMAIN peers) - In(x, outgoing)]
        /\ UNCHANGED <<pool, incoming, blocklist, replaced>>
    BY <1>2, ConnsCardinality DEF Conns!Stop
  <2>2. ConnTypes'
    <3>1. \A x \in Addresses : open[x] - In(x, DOMAIN peers) - In(x, outgoing) \in Int
      BY <1>0 DEF ConnTypes, In
    <3>2. open' \in [Addresses -> Int]
      BY <2>1, <3>1
    <3> QED
      BY <1>0, <2>1, <3>2 DEF ConnTypes
  <2>3. Owned'
    BY <1>0, <2>1 DEF ConnTypes, Owned, In
  <2>4. Conns!AtomsOutliveTheirUsers' /\ Remembered' /\ Conns!LeavesBlockedAlone
    BY <1>0, <2>1 DEF Conns!AtomsOutliveTheirUsers, Remembered, Conns!Told, Conns!LeavesBlockedAlone
  <2> QED
    BY <2>2, <2>3, <2>4 DEF ConnsInv
<1> QED
  BY <1>1, <1>2

LEMMA ConnectionStep ==
  ASSUME ConnsInv, Conns!Next
  PROVE  ConnsInv' /\ Conns!LeavesBlockedAlone
BY AtomStep, IncomingStep, HandshakeStep, PulseStep, StartStopStep DEF Conns!Next

LEMMA ConnectionsInit == ASSUME Conns!Init PROVE ConnsInv
<1>1. DOMAIN pool = {} /\ DOMAIN peers = {}
  BY DEF Conns!Init
<1>2. ConnTypes
  <2>1. pool \in [DOMAIN pool -> AtomRecords] /\ open \in [Addresses -> Int]
    BY <1>1 DEF Conns!Init
  <2> QED
    BY <1>1, <2>1 DEF Conns!Init, ConnTypes
<1>3. Owned
  BY <1>1 DEF Conns!Init, Owned, In
<1> QED
  BY <1>1, <1>2, <1>3 DEF ConnsInv, Remembered, Conns!Told, Conns!Init, Conns!AtomsOutliveTheirUsers, Conns!Connected, Conns!Atoms

LEMMA ConnectionsInvHolds == Spec => [](focus = "connections" => ConnsInv)
<1> DEFINE Inv == focus = "connections" => ConnsInv
<1>1. Init => Inv
  BY ConnectionsInit DEF Init
<1>2. Inv /\ [Next]_vars => Inv'
  <2> SUFFICES ASSUME Inv, [Next]_vars, focus' = "connections"
               PROVE  ConnsInv'
    OBVIOUS
  <2>1. focus = "connections" /\ ConnsInv
    BY DEF Next, vars
  <2>2. CASE Next
    <3>1. Conns!Next
      BY <2>1, <2>2 DEF Next
    <3> QED
      BY <2>1, <3>1, ConnectionStep
  <2>3. CASE UNCHANGED vars
    BY <2>1, <2>3 DEF vars, connVars, ConnsInv, ConnTypes, Owned, Remembered, Conns!Told,
      Conns!AtomsOutliveTheirUsers, Conns!Connected, Conns!Atoms
  <2> QED
    BY <2>2, <2>3
<1> QED
  BY <1>1, <1>2, PTL DEF Spec

\* Connections (peer-mgr.c): whoever connects to whom, each open connection belongs to just one
\* handshake or peer, each of those to an atom, and a stopped torrent has none of its own.
THEOREM ConnectionsStayOwned == Spec => []ConnectionsAreOwned
<1>1. (focus = "connections" => ConnsInv) => ConnectionsAreOwned
  BY ConnsInvSays DEF ConnectionsAreOwned
<1> QED
  BY <1>1, ConnectionsInvHolds, PTL

\* The blocklist and the bans (isAtomBlocklisted, tr_peerMgrOnBlocklistChanged, addStrike): no
\* pulse connects to a blocked address by a stale answer, and no banned peer is taken again.
THEOREM BlockedStayAlone == Spec => BlockedAreLeftAlone
<1>1. (focus = "connections" => ConnsInv) /\ [Next]_vars
        => [focus = "connections" => Conns!LeavesBlockedAlone]_vars
  BY ConnectionStep DEF Next
<1> QED
  BY <1>1, ConnectionsInvHolds, PTL DEF Spec, BlockedAreLeftAlone

-----------------------------------------------------------------------------
(* Peer exchange. *)

EndRecords(c) == [allowsPex : BOOLEAN, pexTimer : BOOLEAN, connected : SUBSET Known[c],
                  gotHandshake : BOOLEAN, peerSupportsPex : BOOLEAN, ut_pex_id : {0, 1},
                  pex : SUBSET Known[c], heard : SUBSET Known[Exchange!Other(c)], offers : BOOLEAN,
                  switched : BOOLEAN, missed : SUBSET Known[Exchange!Other(c)]]
PexMsgs(c)    == [id : {0, 1}, ut_pex : {0, 1}, added : SUBSET Known[c], dropped : SUBSET Known[c]]

AddedBy(ch)    == UNION {ch[i].added : i \in 1 .. Len(ch)}
ToldTo(f, ch)  == f.heard \cup f.missed \cup AddedBy(ch)

\* An end wants peer lists as it offered to, and takes all of them, unless its user switched.
Own(e) == /\ e.allowsPex = e.offers \/ e.switched
          /\ e.missed = {} \/ e.switched

\* What holds of the i-th message of ch, which goes from the end e to the end f: only the first
\* handshake names an id, and a list that looks like a handshake goes to an end that switched.
Fits(e, f, ch, i) ==
  /\ ch[i].id = 0 => /\ ch[i].ut_pex # 0 => i = 1 /\ ~f.gotHandshake /\ e.offers
                     /\ ch[i].added = {} \/ f.switched
  /\ ch[i].id = 1 => /\ f.offers /\ (e.offers \/ e.switched)
                     /\ ch[i].dropped \subseteq ToldTo(f, ch)

\* What the end f knows of the end e: the id, from the handshake, which comes first.
Knows(e, f, ch) ==
  /\ ~f.gotHandshake => /\ Len(ch) > 0 /\ ch[1].id = 0 /\ (e.offers => ch[1].ut_pex # 0)
                        /\ ~f.peerSupportsPex
  /\ f.ut_pex_id # 0 => e.offers
  /\ f.gotHandshake /\ e.offers => f.ut_pex_id # 0
  /\ f.peerSupportsPex => e.offers \/ e.switched

\* What holds of the messages ch from the end e to the end f.
Flow(e, f, ch) ==
  /\ e.pex \subseteq ToldTo(f, ch)
  /\ \A i \in 1 .. Len(ch) : Fits(e, f, ch, i)
  /\ Knows(e, f, ch)
  /\ Len(ch) <= MaxMessages + (IF e.gotHandshake THEN 1 ELSE 0)

ExchangeInv ==
  /\ DOMAIN end = Ends /\ DOMAIN channel = Ends
  /\ \A c \in Ends : /\ end[c] \in EndRecords(c) /\ channel[c] \in Seq(PexMsgs(c)) /\ Own(end[c])
                     /\ Flow(end[c], end[Exchange!Other(c)], channel[c])

LEMMA OtherEnd ==
  ASSUME NEW c \in Ends
  PROVE  /\ Exchange!Other(c) \in Ends /\ Exchange!Other(c) # c
         /\ Exchange!Other(Exchange!Other(c)) = c
         /\ \A d \in Ends : d = c \/ d = Exchange!Other(c)
<1>1. PICK x, y : x # y /\ Ends = {x, y}
  BY EndsAssumption
<1>2. \A d \in Ends : Exchange!Other(d) \in Ends /\ Exchange!Other(d) # d
  BY <1>1 DEF Exchange!Other
<1> QED
  BY <1>1, <1>2

LEMMA AddedByMore ==
  ASSUME NEW c, NEW ch \in Seq(PexMsgs(c)), NEW m \in PexMsgs(c)
  PROVE  AddedBy(ch \o <<m>>) = AddedBy(ch) \cup m.added
<1>1. /\ Len(ch \o <<m>>) = Len(ch) + 1 /\ Len(ch) \in Nat
      /\ \A i \in 1 .. Len(ch) + 1 : (ch \o <<m>>)[i] = IF i <= Len(ch) THEN ch[i] ELSE m
  OBVIOUS
<1> HIDE DEF PexMsgs
<1>2. ASSUME NEW x
      PROVE  x \in AddedBy(ch \o <<m>>) <=> x \in AddedBy(ch) \/ x \in m.added
  BY <1>1 DEF AddedBy
<1> QED
  BY <1>2

LEMMA AddedByRest ==
  ASSUME NEW c, NEW ch \in Seq(PexMsgs(c)), ch # <<>>
  PROVE  AddedBy(ch) = Head(ch).added \cup AddedBy(Tail(ch))
<1>1. /\ Len(Tail(ch)) = Len(ch) - 1 /\ Len(ch) \in Nat \ {0} /\ Head(ch) = ch[1]
      /\ \A i \in 1 .. Len(ch) - 1 : Tail(ch)[i] = ch[i + 1]
  OBVIOUS
<1>2. ASSUME NEW x
      PROVE  x \in AddedBy(ch) <=> x \in Head(ch).added \/ x \in AddedBy(Tail(ch))
  <2>1. x \in AddedBy(ch) <=> \E i \in 1 .. Len(ch) : x \in ch[i].added
    BY DEF AddedBy
  <2>2. x \in AddedBy(Tail(ch)) <=> \E i \in 1 .. Len(ch) - 1 : x \in ch[i + 1].added
    <3> DEFINE t == Tail(ch)
    <3>1. x \in AddedBy(t) <=> \E i \in 1 .. Len(t) : x \in t[i].added
      BY DEF AddedBy
    <3>2. Len(t) = Len(ch) - 1 /\ \A i \in 1 .. Len(ch) - 1 : t[i] = ch[i + 1]
      BY <1>1
    <3> HIDE DEF t
    <3>3. x \in AddedBy(t) <=> \E i \in 1 .. Len(ch) - 1 : x \in ch[i + 1].added
      BY <3>1, <3>2
    <3> QED
      BY <3>3 DEF t
  <2>3. \A i \in 1 .. Len(ch) : i = 1 \/ (i - 1 \in 1 .. Len(ch) - 1 /\ (i - 1) + 1 = i)
    BY <1>1
  <2>4. \A i \in 1 .. Len(ch) - 1 : i + 1 \in 1 .. Len(ch)
    BY <1>1
  <2>5. 1 \in 1 .. Len(ch)
    BY <1>1
  <2> QED
    BY <1>1, <2>1, <2>2, <2>3, <2>4, <2>5
<1> QED
  BY <1>2

\* What sendPex does: nothing, or it notes the new peers and tells the difference.
LEMMA SendPex ==
  ASSUME NEW c, NEW e \in EndRecords(c), NEW newPex \in SUBSET Known[c]
  PROVE  LET r == Exchange!sendPex(e, newPex) IN
         \/ r[1] = e /\ r[2] = <<>>
         \/ /\ e.peerSupportsPex /\ e.allowsPex
            /\ r[1] = [e EXCEPT !.pex = newPex]
            /\ \E m \in PexMsgs(c) : /\ m.id = e.ut_pex_id /\ m.ut_pex = 0 /\ r[2] = <<m>>
                                    /\ m.added = newPex \ e.pex /\ m.dropped = e.pex \ newPex
<1> DEFINE m == [id |-> e.ut_pex_id, ut_pex |-> 0, added |-> newPex \ e.pex, dropped |-> e.pex \ newPex]
<1>1. m \in PexMsgs(c)
  BY DEF PexMsgs, EndRecords
<1> QED
  BY <1>1 DEF Exchange!sendPex, Exchange!Diffs, EndRecords

LEMMA SilentWithout ==
  ASSUME NEW e, NEW newPex, ~e.peerSupportsPex
  PROVE  LET r == Exchange!sendPex(e, newPex) IN r[1] = e /\ r[2] = <<>>
BY DEF Exchange!sendPex

LEMMA FlowSend ==
  ASSUME NEW c, NEW e \in EndRecords(c), NEW f, NEW ch \in Seq(PexMsgs(c)), NEW newPex \in SUBSET Known[c],
         Flow(e, f, ch), Own(e),
         e.peerSupportsPex => IF e.ut_pex_id # 0 THEN f.offers ELSE f.switched,
         Len(ch) + 1 <= MaxMessages + (IF e.gotHandshake THEN 1 ELSE 0)
  PROVE  LET r == Exchange!sendPex(e, newPex) IN
         /\ r[1] \in EndRecords(c) /\ ch \o r[2] \in Seq(PexMsgs(c)) /\ Flow(r[1], f, ch \o r[2])
         /\ Own(r[1])
<1> DEFINE r == Exchange!sendPex(e, newPex)
<1>1. CASE r[1] = e /\ r[2] = <<>>
  <2>1. ch \o r[2] = ch
    BY <1>1
  <2> QED
    BY <1>1, <2>1
<1>2. CASE /\ e.peerSupportsPex /\ e.allowsPex
           /\ r[1] = [e EXCEPT !.pex = newPex]
           /\ \E m \in PexMsgs(c) : /\ m.id = e.ut_pex_id /\ m.ut_pex = 0 /\ r[2] = <<m>>
                                   /\ m.added = newPex \ e.pex /\ m.dropped = e.pex \ newPex
  <2>1. PICK m \in PexMsgs(c) : /\ m.id = e.ut_pex_id /\ m.ut_pex = 0 /\ r[2] = <<m>>
                                /\ m.added = newPex \ e.pex /\ m.dropped = e.pex \ newPex
    BY <1>2
  <2> DEFINE e2 == [e EXCEPT !.pex = newPex]
             ch2 == ch \o <<m>>
  <2>2. /\ e2 \in EndRecords(c) /\ e2.pex = newPex /\ e2.allowsPex = e.allowsPex /\ e2.missed = e.missed
        /\ e2.gotHandshake = e.gotHandshake /\ e2.offers = e.offers /\ e2.switched = e.switched
    BY DEF EndRecords
  <2>3. /\ ch2 \in Seq(PexMsgs(c)) /\ Len(ch2) = Len(ch) + 1 /\ Len(ch) \in Nat
        /\ \A i \in 1 .. Len(ch) + 1 : ch2[i] = IF i <= Len(ch) THEN ch[i] ELSE m
    OBVIOUS
  <2>4. AddedBy(ch2) = AddedBy(ch) \cup m.added
    BY AddedByMore
  <2> HIDE DEF e2, ch2
  <2>5. /\ e2.pex \subseteq ToldTo(f, ch2) /\ m.dropped \subseteq ToldTo(f, ch2)
        /\ ToldTo(f, ch) \subseteq ToldTo(f, ch2)
    BY <2>1, <2>2, <2>4 DEF Flow, ToldTo
  <2>6. ASSUME NEW i \in 1 .. Len(ch2)
        PROVE  Fits(e2, f, ch2, i)
    <3>1. CASE i <= Len(ch)
      <4>1. i \in 1 .. Len(ch) /\ ch2[i] = ch[i]
        BY <2>3, <3>1
      <4>2. Fits(e, f, ch, i)
        BY <4>1 DEF Flow
      <4> QED
        BY <2>2, <2>5, <4>1, <4>2 DEF Fits
    <3>2. CASE i > Len(ch)
      <4>1. ch2[i] = m
        BY <2>3, <3>2
      <4>2. e2.offers \/ e2.switched
        BY <1>2, <2>2 DEF Own
      <4>3. e.ut_pex_id # 0 => f.offers
        BY <1>2
      <4>4. e.ut_pex_id = 0 => f.switched
        BY <1>2
      <4> QED
        BY <2>1, <2>5, <4>1, <4>2, <4>3, <4>4 DEF Fits
    <3> QED
      BY <2>3, <3>1, <3>2
  <2>7. Knows(e2, f, ch2)
    <3>1. Knows(e, f, ch) /\ (Len(ch) > 0 => ch2[1] = ch[1])
      BY <2>3 DEF Flow
    <3> QED
      BY <2>2, <2>3, <3>1 DEF Knows
  <2>8. Flow(e2, f, ch2)
    BY <2>2, <2>3, <2>5, <2>6, <2>7 DEF Flow
  <2>9. Own(e2)
    BY <2>2 DEF Own
  <2> QED
    BY <1>2, <2>1, <2>2, <2>3, <2>8, <2>9 DEF e2, ch2
<1> QED
  BY <1>1, <1>2, SendPex

\* The next message is read by f, which changes into g.
Reads(f, g, m) ==
  /\ g.allowsPex = f.allowsPex /\ g.offers = f.offers /\ g.switched = f.switched
  /\ \/ /\ m.id = 0 /\ g.gotHandshake /\ g.peerSupportsPex = (m.ut_pex # 0)
        /\ g.ut_pex_id = IF m.ut_pex # 0 THEN m.ut_pex ELSE f.ut_pex_id
        /\ g.heard = f.heard /\ g.missed = f.missed \cup m.added
     \/ /\ m.id = 1 /\ g.gotHandshake = f.gotHandshake
        /\ g.peerSupportsPex /\ g.ut_pex_id = f.ut_pex_id
        /\ g.heard = IF f.allowsPex THEN f.heard \cup m.added ELSE f.heard
        /\ g.missed = IF f.allowsPex THEN f.missed ELSE f.missed \cup m.added

LEMMA FlowRead ==
  ASSUME NEW c, NEW d, NEW e \in EndRecords(c), NEW f \in EndRecords(d), NEW g \in EndRecords(d),
         NEW ch \in Seq(PexMsgs(c)), ch # <<>>, Flow(e, f, ch), Own(f), Reads(f, g, Head(ch))
  PROVE  Tail(ch) \in Seq(PexMsgs(c)) /\ Flow(e, g, Tail(ch)) /\ Own(g)
<1> DEFINE m == Head(ch)
           t == Tail(ch)
<1>1. /\ Len(t) = Len(ch) - 1 /\ Len(ch) \in Nat \ {0} /\ m = ch[1] /\ m \in PexMsgs(c)
      /\ t \in Seq(PexMsgs(c)) /\ \A i \in 1 .. Len(ch) - 1 : t[i] = ch[i + 1]
  OBVIOUS
<1>2. Fits(e, f, ch, 1) /\ Knows(e, f, ch)
  BY <1>1 DEF Flow
<1>3. AddedBy(ch) = m.added \cup AddedBy(t)
  BY AddedByRest
<1> HIDE DEF m, t
<1>3a. Reads(f, g, m)
  BY DEF m
<1>4. ToldTo(f, ch) = ToldTo(g, t)
  BY <1>3, <1>3a DEF ToldTo, Reads
<1>5. g.gotHandshake
  BY <1>1, <1>2, <1>3a DEF Reads, Knows
<1>6. Own(g)
  BY <1>1, <1>2, <1>3a DEF Own, Reads, Fits
<1>7. Knows(e, g, t)
  <2>1. m.ut_pex \in {0, 1} /\ m.id \in {0, 1}
    BY <1>1 DEF PexMsgs
  <2>2. CASE m.id = 0
    <3>1. /\ g.gotHandshake /\ g.peerSupportsPex = (m.ut_pex # 0)
          /\ g.ut_pex_id = IF m.ut_pex # 0 THEN m.ut_pex ELSE f.ut_pex_id
      BY <1>3a, <2>2 DEF Reads
    <3>2. m.ut_pex # 0 => e.offers
      BY <1>1, <1>2, <2>2 DEF Fits
    <3>3. e.offers => m.ut_pex # 0 \/ f.ut_pex_id # 0
      BY <1>1, <1>2 DEF Knows
    <3> QED
      BY <1>2, <3>1, <3>2, <3>3 DEF Knows
  <2>3. CASE m.id = 1
    <3>0. /\ g.peerSupportsPex \in BOOLEAN /\ f.gotHandshake \in BOOLEAN /\ g.gotHandshake \in BOOLEAN
          /\ m.id # 0
      BY <2>3 DEF EndRecords
    <3>1. g.peerSupportsPex /\ g.ut_pex_id = f.ut_pex_id /\ f.gotHandshake
      BY <1>3a, <1>5, <3>0 DEF Reads
    <3>2. e.offers \/ e.switched
      BY <1>1, <1>2, <2>3 DEF Fits
    <3> QED
      BY <1>2, <1>5, <3>1, <3>2 DEF Knows
  <2> QED
    BY <2>1, <2>2, <2>3
<1>8. ASSUME NEW i \in 1 .. Len(t)
      PROVE  Fits(e, g, t, i)
  <2>1. i + 1 \in 1 .. Len(ch) /\ i + 1 # 1 /\ t[i] = ch[i + 1]
    BY <1>1
  <2>2. Fits(e, f, ch, i + 1)
    BY <2>1 DEF Flow
  <2>3. g.offers = f.offers /\ g.switched = f.switched
    BY <1>3a DEF Reads
  <2> QED
    BY <1>4, <2>1, <2>2, <2>3 DEF Fits
<1>9. e.pex \subseteq ToldTo(g, t)
  BY <1>4 DEF Flow
<1>10. Len(t) <= MaxMessages + (IF e.gotHandshake THEN 1 ELSE 0)
  BY <1>1, EndsAssumption DEF Flow
<1>11. Flow(e, g, t)
  BY <1>7, <1>8, <1>9, <1>10 DEF Flow
<1> QED
  BY <1>1, <1>6, <1>11 DEF t

\* The other direction is not disturbed by what a reader notes for itself.
LEMMA FlowStays ==
  ASSUME NEW e, NEW e2, NEW f, NEW ch, Flow(e, f, ch), Len(ch) \in Nat, e2.pex = e.pex,
         e2.offers = e.offers, e.switched => e2.switched, e.gotHandshake => e2.gotHandshake
  PROVE  Flow(e2, f, ch)
<1>1. Len(ch) <= MaxMessages + (IF e2.gotHandshake THEN 1 ELSE 0)
  BY EndsAssumption DEF Flow
<1>2. ASSUME NEW i \in 1 .. Len(ch) PROVE Fits(e2, f, ch, i)
  BY DEF Flow, Fits
<1> QED
  BY <1>1, <1>2 DEF Flow, Knows

\* Neither does what the other end sends change what is heard of it.
LEMMA FlowOfReader ==
  ASSUME NEW e, NEW f, NEW f2, NEW ch, Flow(e, f, ch), f2.heard = f.heard, f2.missed = f.missed,
         f2.gotHandshake = f.gotHandshake, f2.peerSupportsPex = f.peerSupportsPex,
         f2.ut_pex_id = f.ut_pex_id, f2.offers = f.offers, f.switched => f2.switched
  PROVE  Flow(e, f2, ch)
<1>1. ToldTo(f2, ch) = ToldTo(f, ch)
  BY DEF ToldTo
<1>2. ASSUME NEW i \in 1 .. Len(ch) PROVE Fits(e, f2, ch, i)
  BY <1>1 DEF Flow, Fits
<1> QED
  BY <1>1, <1>2 DEF Flow, Knows

\* What an end that supports lists is sent them as: by its id, or else it must have switched.
LEMMA FlowKnows ==
  ASSUME NEW e, NEW f, NEW ch, Flow(e, f, ch), f.peerSupportsPex
  PROVE  IF f.ut_pex_id # 0 THEN e.offers ELSE e.switched
BY DEF Flow, Knows

\* Both directions after a step of the end c, which may have written and read.
LEMMA ExchangeFrame ==
  ASSUME ExchangeInv, NEW c \in Ends, NEW e \in EndRecords(c),
         NEW out \in Seq(PexMsgs(c)), NEW into \in Seq(PexMsgs(Exchange!Other(c))),
         DOMAIN end' = Ends, end'[c] = e, end'[Exchange!Other(c)] = end[Exchange!Other(c)],
         DOMAIN channel' = Ends, channel'[c] = out, channel'[Exchange!Other(c)] = into,
         Own(e), Flow(e, end[Exchange!Other(c)], out), Flow(end[Exchange!Other(c)], e, into)
  PROVE  ExchangeInv'
<1> DEFINE d == Exchange!Other(c)
<1>1. d \in Ends /\ d # c /\ Exchange!Other(d) = c /\ \A k \in Ends : k = c \/ k = d
  BY OtherEnd
<1>2. end[d] \in EndRecords(d)
  BY <1>1 DEF ExchangeInv
<1> QED
  BY <1>1, <1>2 DEF ExchangeInv

LEMMA PulseOfPex ==
  ASSUME ExchangeInv, NEW c \in Ends, Exchange!pexPulse(c)
  PROVE  ExchangeInv'
<1> DEFINE d == Exchange!Other(c)
<1>1. d \in Ends /\ d # c /\ Exchange!Other(d) = c
  BY OtherEnd
<1>2. /\ end[c] \in EndRecords(c) /\ channel[c] \in Seq(PexMsgs(c)) /\ Flow(end[c], end[d], channel[c])
      /\ Own(end[c]) /\ end[d] \in EndRecords(d) /\ channel[d] \in Seq(PexMsgs(d)) /\ Flow(end[d], end[c], channel[d])
  BY <1>1 DEF ExchangeInv
<1>3. PICK newPex \in Exchange!tr_peerMgrGetPeers(end[c]) : Exchange!Put(c, Exchange!sendPex(end[c], newPex))
  BY DEF Exchange!pexPulse
<1> DEFINE r == Exchange!sendPex(end[c], newPex)
<1>4. newPex \in SUBSET Known[c]
  BY <1>2 DEF Exchange!tr_peerMgrGetPeers, Exchange!kSubset, EndRecords
<1>5. Len(channel[c]) + 1 <= MaxMessages + (IF end[c].gotHandshake THEN 1 ELSE 0)
  <2>1. Len(channel[c]) < MaxMessages /\ Len(channel[c]) \in Nat
    BY <1>2 DEF Exchange!pexPulse
  <2> QED
    BY <2>1, EndsAssumption
<1>6. end[c].peerSupportsPex => IF end[c].ut_pex_id # 0 THEN end[d].offers ELSE end[d].switched
  BY <1>2, FlowKnows
<1>7. /\ r[1] \in EndRecords(c) /\ channel[c] \o r[2] \in Seq(PexMsgs(c))
      /\ Flow(r[1], end[d], channel[c] \o r[2]) /\ Own(r[1])
  BY <1>2, <1>4, <1>5, <1>6, FlowSend
<1>8. Flow(end[d], r[1], channel[d])
  <2>1. r[1] = end[c] \/ r[1] = [end[c] EXCEPT !.pex = newPex]
    BY <1>2, <1>4, SendPex
  <2>2. /\ r[1].heard = end[c].heard /\ r[1].missed = end[c].missed /\ r[1].ut_pex_id = end[c].ut_pex_id
        /\ r[1].gotHandshake = end[c].gotHandshake /\ r[1].peerSupportsPex = end[c].peerSupportsPex
        /\ r[1].offers = end[c].offers /\ r[1].switched = end[c].switched
    BY <1>2, <2>1 DEF EndRecords
  <2> QED
    BY <1>2, <2>2, FlowOfReader
<1>9. /\ DOMAIN end' = Ends /\ end'[c] = r[1] /\ end'[d] = end[d]
      /\ DOMAIN channel' = Ends /\ channel'[c] = channel[c] \o r[2] /\ channel'[d] = channel[d]
  BY <1>1, <1>3 DEF Exchange!Put, ExchangeInv
<1> HIDE DEF r
<1> QED
  BY <1>2, <1>7, <1>8, <1>9, ExchangeFrame

LEMMA HandshakeOfPex ==
  ASSUME ExchangeInv, NEW c \in Ends, Exchange!parseLtepHandshake(c)
  PROVE  ExchangeInv'
<1> DEFINE d == Exchange!Other(c)
           m == Head(channel[d])
           e == [end[c] EXCEPT !.gotHandshake = TRUE, !.peerSupportsPex = m.ut_pex # 0,
                               !.ut_pex_id = IF m.ut_pex # 0 THEN m.ut_pex ELSE end[c].ut_pex_id,
                               !.missed = end[c].missed \cup m.added]
<1>1. d \in Ends /\ d # c /\ Exchange!Other(d) = c
  BY OtherEnd
<1>2. /\ end[c] \in EndRecords(c) /\ channel[c] \in Seq(PexMsgs(c)) /\ Flow(end[c], end[d], channel[c])
      /\ Own(end[c]) /\ end[d] \in EndRecords(d) /\ channel[d] \in Seq(PexMsgs(d))
      /\ Flow(end[d], end[c], channel[d])
  BY <1>1 DEF ExchangeInv
<1>3. channel[d] # <<>> /\ m.id = 0
  BY DEF Exchange!parseLtepHandshake, Exchange!LTEP_HANDSHAKE
<1>3a. m \in PexMsgs(d)
  BY <1>2, <1>3
<1>4. PICK newPex \in Exchange!tr_peerMgrGetPeers(e) :
        LET r == Exchange!sendPex(e, newPex) IN
        /\ end' = [end EXCEPT ![c] = r[1]]
        /\ channel' = [channel EXCEPT ![c] = @ \o r[2], ![d] = Tail(@)]
  BY DEF Exchange!parseLtepHandshake
<1>4a. m.added \in SUBSET Known[d] /\ m.ut_pex \in {0, 1}
  BY <1>3a DEF PexMsgs
<1>5. /\ e \in EndRecords(c) /\ e.gotHandshake /\ e.peerSupportsPex = (m.ut_pex # 0)
      /\ e.pex = end[c].pex /\ e.offers = end[c].offers /\ e.switched = end[c].switched
      /\ e.connected = end[c].connected
  BY <1>2, <1>4a DEF EndRecords
<1>6. Reads(end[c], e, m)
  BY <1>2, <1>3, <1>4a DEF Reads, EndRecords
<1> HIDE DEF e
<1> DEFINE r == Exchange!sendPex(e, newPex)
<1>7. newPex \in SUBSET Known[c]
  BY <1>2, <1>5 DEF Exchange!tr_peerMgrGetPeers, Exchange!kSubset, EndRecords
<1>8. Tail(channel[d]) \in Seq(PexMsgs(d)) /\ Flow(end[d], e, Tail(channel[d])) /\ Own(e)
  BY <1>2, <1>3, <1>5, <1>6, FlowRead
<1>9. Flow(e, end[d], channel[c])
  <2>1. Len(channel[c]) \in Nat
    BY <1>2
  <2> QED
    BY <1>2, <1>5, <2>1, FlowStays
<1>10. /\ r[1] \in EndRecords(c) /\ channel[c] \o r[2] \in Seq(PexMsgs(c))
       /\ Flow(r[1], end[d], channel[c] \o r[2]) /\ Own(r[1])
  <2>1. CASE m.ut_pex # 0
    <3>1. 1 \in 1 .. Len(channel[d]) /\ channel[d][1] = m
      BY <1>2, <1>3
    <3>2. Fits(end[d], end[c], channel[d], 1)
      BY <1>2, <3>1 DEF Flow
    <3>3. ~end[c].gotHandshake
      BY <1>3, <2>1, <3>1, <3>2 DEF Fits
    <3>4. Len(channel[c]) + 1 <= MaxMessages + (IF e.gotHandshake THEN 1 ELSE 0)
      <4>1. Len(channel[c]) \in Nat /\ Len(channel[c]) <= MaxMessages
        BY <1>2, <3>3, EndsAssumption DEF Flow
      <4> QED
        BY <1>5, <4>1, EndsAssumption
    <3>5. e.peerSupportsPex => IF e.ut_pex_id # 0 THEN end[d].offers ELSE end[d].switched
      BY <1>8, FlowKnows
    <3> QED
      BY <1>2, <1>5, <1>7, <1>8, <1>9, <3>4, <3>5, FlowSend
  <2>2. CASE m.ut_pex = 0
    <3>0. ~e.peerSupportsPex
      BY <1>5, <2>2
    <3>1. r[1] = e /\ r[2] = <<>>
      BY <3>0, SilentWithout
    <3>2. channel[c] \o r[2] = channel[c]
      BY <1>2, <3>1
    <3> HIDE DEF r
    <3> QED
      BY <1>2, <1>5, <1>8, <1>9, <3>1, <3>2
  <2> QED
    BY <2>1, <2>2
<1>11. Flow(end[d], r[1], Tail(channel[d]))
  <2>1. r[1] = e \/ r[1] = [e EXCEPT !.pex = newPex]
    BY <1>5, <1>7, SendPex
  <2>2. /\ r[1].heard = e.heard /\ r[1].missed = e.missed /\ r[1].ut_pex_id = e.ut_pex_id
        /\ r[1].gotHandshake = e.gotHandshake /\ r[1].peerSupportsPex = e.peerSupportsPex
        /\ r[1].offers = e.offers /\ r[1].switched = e.switched
    BY <1>5, <2>1 DEF EndRecords
  <2> QED
    BY <1>8, <2>2, FlowOfReader
<1>12. /\ DOMAIN end' = Ends /\ end'[c] = r[1] /\ end'[d] = end[d]
       /\ DOMAIN channel' = Ends /\ channel'[c] = channel[c] \o r[2] /\ channel'[d] = Tail(channel[d])
  BY <1>1, <1>4 DEF ExchangeInv
<1> HIDE DEF r
<1> QED
  BY <1>8, <1>10, <1>11, <1>12, ExchangeFrame

LEMMA ListOfPex ==
  ASSUME ExchangeInv, NEW c \in Ends, Exchange!parseUtPex(c)
  PROVE  ExchangeInv'
<1> DEFINE d == Exchange!Other(c)
           e == [end[c] EXCEPT !.peerSupportsPex = TRUE,
                               !.heard = IF end[c].allowsPex THEN end[c].heard \cup Head(channel[d]).added
                                         ELSE end[c].heard,
                               !.missed = IF end[c].allowsPex THEN end[c].missed
                                          ELSE end[c].missed \cup Head(channel[d]).added]
<1>1. d \in Ends /\ d # c /\ Exchange!Other(d) = c
  BY OtherEnd
<1>2. /\ end[c] \in EndRecords(c) /\ channel[c] \in Seq(PexMsgs(c)) /\ Flow(end[c], end[d], channel[c])
      /\ Own(end[c]) /\ end[d] \in EndRecords(d) /\ channel[d] \in Seq(PexMsgs(d)) /\ Flow(end[d], end[c], channel[d])
  BY <1>1 DEF ExchangeInv
<1>3. channel[d] # <<>> /\ Head(channel[d]).id = 1 /\ Head(channel[d]).added \in SUBSET Known[d]
  <2>1. channel[d] # <<>> /\ Head(channel[d]).id = 1
    BY DEF Exchange!parseUtPex, Exchange!UT_PEX_ID
  <2>2. Head(channel[d]) \in PexMsgs(d)
    BY <1>2, <2>1
  <2> QED
    BY <2>1, <2>2 DEF PexMsgs
<1>4. /\ DOMAIN end' = Ends /\ end'[c] = e /\ end'[d] = end[d]
      /\ DOMAIN channel' = Ends /\ channel'[c] = channel[c] /\ channel'[d] = Tail(channel[d])
  BY <1>1 DEF Exchange!parseUtPex, ExchangeInv
<1>5. /\ e \in EndRecords(c) /\ e.gotHandshake = end[c].gotHandshake /\ e.pex = end[c].pex
      /\ e.offers = end[c].offers /\ e.switched = end[c].switched /\ Reads(end[c], e, Head(channel[d]))
  BY <1>2, <1>3 DEF EndRecords, Reads
<1> HIDE DEF e
<1>6. Tail(channel[d]) \in Seq(PexMsgs(d)) /\ Flow(end[d], e, Tail(channel[d])) /\ Own(e)
  BY <1>2, <1>3, <1>5, FlowRead
<1>7. Flow(e, end[d], channel[c])
  BY <1>2, <1>5, FlowStays
<1> QED
  BY <1>2, <1>4, <1>5, <1>6, <1>7, ExchangeFrame

LEMMA PeersChangeOfPex ==
  ASSUME ExchangeInv, NEW c \in Ends, NEW x \in Known[c], Exchange!PeersChange(c, x)
  PROVE  ExchangeInv'
<1> DEFINE d == Exchange!Other(c)
           e == [end[c] EXCEPT !.connected = IF x \in end[c].connected THEN end[c].connected \ {x}
                                             ELSE end[c].connected \cup {x}]
<1>1. d \in Ends /\ d # c /\ Exchange!Other(d) = c
  BY OtherEnd
<1>2. /\ end[c] \in EndRecords(c) /\ channel[c] \in Seq(PexMsgs(c)) /\ Flow(end[c], end[d], channel[c])
      /\ Own(end[c]) /\ end[d] \in EndRecords(d) /\ channel[d] \in Seq(PexMsgs(d)) /\ Flow(end[d], end[c], channel[d])
  BY <1>1 DEF ExchangeInv
<1>3. /\ DOMAIN end' = Ends /\ end'[c] = e /\ end'[d] = end[d]
      /\ DOMAIN channel' = Ends /\ channel'[c] = channel[c] /\ channel'[d] = channel[d]
  BY <1>1 DEF Exchange!PeersChange, ExchangeInv
<1>4. /\ e \in EndRecords(c) /\ e.gotHandshake = end[c].gotHandshake /\ e.heard = end[c].heard
      /\ e.allowsPex = end[c].allowsPex /\ e.pex = end[c].pex /\ e.peerSupportsPex = end[c].peerSupportsPex
      /\ e.offers = end[c].offers /\ e.switched = end[c].switched /\ e.missed = end[c].missed
      /\ e.ut_pex_id = end[c].ut_pex_id
  BY <1>2 DEF EndRecords
<1> HIDE DEF e
<1>5. Flow(e, end[d], channel[c]) /\ Flow(end[d], e, channel[d]) /\ Own(e)
  BY <1>2, <1>4, FlowStays, FlowOfReader DEF Own
<1> QED
  BY <1>2, <1>3, <1>4, <1>5, ExchangeFrame

LEMMA SwitchOfPex ==
  ASSUME ExchangeInv, NEW c \in Ends, Exchange!SetPexEnabled(c)
  PROVE  ExchangeInv'
<1> DEFINE d == Exchange!Other(c)
           e == [end[c] EXCEPT !.allowsPex = ~end[c].allowsPex, !.switched = TRUE]
<1>1. d \in Ends /\ d # c /\ Exchange!Other(d) = c
  BY OtherEnd
<1>2. /\ end[c] \in EndRecords(c) /\ channel[c] \in Seq(PexMsgs(c)) /\ Flow(end[c], end[d], channel[c])
      /\ end[d] \in EndRecords(d) /\ channel[d] \in Seq(PexMsgs(d)) /\ Flow(end[d], end[c], channel[d])
  BY <1>1 DEF ExchangeInv
<1>3. /\ DOMAIN end' = Ends /\ end'[c] = e /\ end'[d] = end[d]
      /\ DOMAIN channel' = Ends /\ channel'[c] = channel[c] /\ channel'[d] = channel[d]
  BY <1>1 DEF Exchange!SetPexEnabled, ExchangeInv
<1>4. /\ e \in EndRecords(c) /\ e.gotHandshake = end[c].gotHandshake /\ e.heard = end[c].heard
      /\ e.pex = end[c].pex /\ e.peerSupportsPex = end[c].peerSupportsPex /\ e.switched
      /\ e.offers = end[c].offers /\ e.missed = end[c].missed /\ e.ut_pex_id = end[c].ut_pex_id
  BY <1>2 DEF EndRecords
<1> HIDE DEF e
<1>5. Flow(e, end[d], channel[c]) /\ Flow(end[d], e, channel[d]) /\ Own(e)
  BY <1>2, <1>4, FlowStays, FlowOfReader DEF Own
<1> QED
  BY <1>2, <1>3, <1>4, <1>5, ExchangeFrame

LEMMA ExchangeStep == ASSUME ExchangeInv, Exchange!Next PROVE ExchangeInv'
BY PulseOfPex, HandshakeOfPex, ListOfPex, PeersChangeOfPex, SwitchOfPex DEF Exchange!Next

LEMMA ExchangeInit == ASSUME Exchange!Init PROVE ExchangeInv
<1>1. PICK allows \in [Ends -> BOOLEAN] :
        /\ end = [c \in Ends |->
                   [allowsPex |-> allows[c], pexTimer |-> allows[c], connected |-> {},
                    gotHandshake |-> FALSE, peerSupportsPex |-> FALSE, ut_pex_id |-> 0, pex |-> {},
                    heard |-> {}, offers |-> allows[c], switched |-> FALSE, missed |-> {}]]
        /\ channel = [c \in Ends |-> <<Exchange!Handshake(allows[c])>>]
  BY DEF Exchange!Init
<1> SUFFICES ASSUME NEW c \in Ends
             PROVE  /\ end[c] \in EndRecords(c) /\ channel[c] \in Seq(PexMsgs(c)) /\ Own(end[c])
                    /\ Flow(end[c], end[Exchange!Other(c)], channel[c])
  BY <1>1 DEF ExchangeInv
<1> DEFINE m == [id |-> 0, ut_pex |-> IF allows[c] THEN 1 ELSE 0, added |-> {}, dropped |-> {}]
           f == end[Exchange!Other(c)]
<1>2. Exchange!Other(c) \in Ends
  BY OtherEnd
<1>3. channel[c] = <<m>> /\ m \in PexMsgs(c)
  BY <1>1 DEF Exchange!Handshake, Exchange!LTEP_HANDSHAKE, Exchange!UT_PEX_ID, PexMsgs
<1>4. /\ end[c] \in EndRecords(c) /\ end[c].pex = {} /\ end[c].offers = allows[c] /\ ~end[c].gotHandshake
      /\ Own(end[c]) /\ ~f.peerSupportsPex /\ ~f.gotHandshake /\ f.ut_pex_id = 0
  BY <1>1, <1>2 DEF EndRecords, Own
<1>5. /\ channel[c] \in Seq(PexMsgs(c)) /\ Len(channel[c]) = 1 /\ channel[c][1] = m
  BY <1>3
<1>6. m.id = 0 /\ m.added = {} /\ (m.ut_pex # 0 <=> allows[c])
  OBVIOUS
<1> HIDE DEF m, f
<1>7. Fits(end[c], f, channel[c], 1) /\ Knows(end[c], f, channel[c])
  BY <1>4, <1>5, <1>6 DEF Fits, Knows
<1>8. Flow(end[c], f, channel[c])
  BY <1>4, <1>5, <1>7, EndsAssumption DEF Flow
<1> QED
  BY <1>4, <1>5, <1>8 DEF f

\* What the run checks follows from the invariant.
LEMMA ExchangeInvSays == ExchangeInv => Exchange!TypeOK /\ Exchange!ToldIsHeard
<1> SUFFICES ASSUME ExchangeInv, NEW c \in Ends
             PROVE  /\ {end[c].allowsPex, end[c].gotHandshake, end[c].peerSupportsPex} \subseteq BOOLEAN
                    /\ end[c].ut_pex_id \in {0, Exchange!UT_PEX_ID}
                    /\ end[c].pex \cup end[c].connected \subseteq Known[c]
                    /\ end[c].heard \cup end[c].missed \subseteq Known[Exchange!Other(c)]
                    /\ Len(channel[c]) <= MaxMessages + 1
                    /\ end[c].pex \subseteq Exchange!Told(c)
                    /\ ~end[c].switched => end[c].missed = {}
                    /\ \A m \in Exchange!ToSet(channel[c]) : m.id = Exchange!UT_PEX_ID =>
                         end[Exchange!Other(c)].offers /\ m.dropped \subseteq Exchange!Told(c)
  BY DEF Exchange!TypeOK, Exchange!ToldIsHeard
<1>1. /\ end[c] \in EndRecords(c) /\ channel[c] \in Seq(PexMsgs(c)) /\ Own(end[c])
      /\ Flow(end[c], end[Exchange!Other(c)], channel[c])
  BY DEF ExchangeInv
<1>2. Exchange!ToSet(channel[c]) = {channel[c][i] : i \in 1 .. Len(channel[c])}
  BY <1>1 DEF Exchange!ToSet
<1>3. Exchange!Told(c) = ToldTo(end[Exchange!Other(c)], channel[c])
  BY <1>2 DEF Exchange!Told, Exchange!Added, ToldTo, AddedBy
<1>4. Len(channel[c]) <= MaxMessages + 1
  BY <1>1, EndsAssumption DEF Flow
<1>5. /\ {end[c].allowsPex, end[c].gotHandshake, end[c].peerSupportsPex} \subseteq BOOLEAN
      /\ end[c].ut_pex_id \in {0, Exchange!UT_PEX_ID}
      /\ end[c].pex \cup end[c].connected \subseteq Known[c]
      /\ end[c].heard \cup end[c].missed \subseteq Known[Exchange!Other(c)]
  BY <1>1 DEF EndRecords, Exchange!UT_PEX_ID
<1>6. ~end[c].switched => end[c].missed = {}
  BY <1>1 DEF Own
<1>7. \A m \in Exchange!ToSet(channel[c]) : m.id = Exchange!UT_PEX_ID =>
        end[Exchange!Other(c)].offers /\ m.dropped \subseteq Exchange!Told(c)
  BY <1>1, <1>2, <1>3 DEF Flow, Fits, Exchange!UT_PEX_ID
<1>8. end[c].pex \subseteq Exchange!Told(c)
  BY <1>1, <1>3 DEF Flow
<1> QED
  BY <1>4, <1>5, <1>6, <1>7, <1>8

\* Peer exchange (sendPex, parseUtPex): although only changes are sent, the ends agree on what
\* was told, but for the lists that an end whose user moved the switch did not take; and lists
\* are sent as such to those alone who offered to take them.
THEOREM AllToldIsHeard == Spec => []ToldIsHeard
<1> DEFINE Inv == focus = "exchange" => ExchangeInv
<1>1. Init => Inv
  BY ExchangeInit DEF Init
<1>2. Inv /\ [Next]_vars => Inv'
  <2> SUFFICES ASSUME Inv, [Next]_vars, focus' = "exchange"
               PROVE  ExchangeInv'
    OBVIOUS
  <2>1. focus = "exchange" /\ ExchangeInv
    BY DEF Next, vars
  <2>2. CASE Next
    <3>1. Exchange!Next
      BY <2>1, <2>2 DEF Next
    <3> QED
      BY <2>1, <3>1, ExchangeStep
  <2>3. CASE UNCHANGED vars
    <3>1. UNCHANGED <<end, channel>>
      BY <2>3 DEF vars, pexVars
    <3> QED
      BY <2>1, <3>1 DEF ExchangeInv
  <2> QED
    BY <2>2, <2>3
<1>3. Inv => ToldIsHeard
  BY ExchangeInvSays DEF ToldIsHeard
<1> QED
  BY <1>1, <1>2, <1>3, PTL DEF Spec

-----------------------------------------------------------------------------
(* Metadata. *)

Answers == [piece : Nat, data : {"good", "bad", "reject"}]
Sources == [connected : BOOLEAN, supports : BOOLEAN, toPeer : Seq(Nat), asked : Seq(Nat), fromPeer : Seq(Answers)]
SourceTypes ==
  /\ source \in [MetadataPeers -> Sources]
  /\ \A p \in MetadataPeers : Len(source[p].asked) <= METADATA_REQQ

Needs     == [piece : Nat, recent : BOOLEAN]

\* A download misses the pieces that it needs, each of which it needs once, and no others; those
\* asked for of late are at the end.
Unique(s) == \A i, j \in 1 .. Len(s) : s[i].piece = s[j].piece => i = j
Waits(s)  == \A i, j \in 1 .. Len(s) : i < j /\ s[i].recent => s[j].recent
Lacks(m, p) == \E i \in 1 .. Len(m.needed) : m.needed[i].piece = p
Sound(m) ==
  /\ m.pieceCount \in Nat /\ m.needed \in Seq(Needs)
  /\ DOMAIN m.metadata = 1 .. m.pieceCount
  /\ m = [pieceCount |-> m.pieceCount, needed |-> m.needed, metadata |-> m.metadata]
  /\ Unique(m.needed) /\ Waits(m.needed)
  /\ \A i \in 1 .. Len(m.needed) : m.needed[i].piece \in 1 .. m.pieceCount
  /\ \A p \in 1 .. m.pieceCount : Lacks(m, p) \/ m.metadata[p] # "none"

DownloadInv ==
  /\ hasMetadata \in BOOLEAN
  /\ hasMetadata => incomplete = <<>>
  /\ incomplete = <<>> \/ \E m : incomplete = <<m>> /\ Sound(m) /\ (m.needed # <<>> \/ m.pieceCount = 0)

MagnetInv == SourceTypes /\ DownloadInv

LEMMA AllNeededIs ==
  ASSUME NEW n \in Nat, NEW data, DOMAIN data = 1 .. n
  PROVE  LET m == [pieceCount |-> n, needed |-> Metadata!AllNeeded(n), metadata |-> data] IN
         Sound(m) /\ (m.needed # <<>> \/ n = 0)
<1> DEFINE s == Metadata!AllNeeded(n)
<1>1. /\ s \in Seq(Needs) /\ Len(s) = n /\ (s # <<>> \/ n = 0)
      /\ \A i \in 1 .. n : s[i] = [piece |-> i, recent |-> FALSE]
  <2>1. s \in [1 .. n -> Needs]
    BY DEF Metadata!AllNeeded, Needs
  <2>2. s \in Seq(Needs) /\ Len(s) = n
    BY <2>1
  <2> QED
    BY <2>2 DEF Metadata!AllNeeded
<1> HIDE DEF s
<1>2. Unique(s) /\ Waits(s)
  BY <1>1 DEF Unique, Waits
<1>3. \A p \in 1 .. n : \E i \in 1 .. Len(s) : s[i].piece = p
  BY <1>1
<1> DEFINE m == [pieceCount |-> n, needed |-> s, metadata |-> data]
<1>4. m.pieceCount = n /\ m.needed = s /\ m.metadata = data
  OBVIOUS
<1>5. m = [pieceCount |-> m.pieceCount, needed |-> m.needed, metadata |-> m.metadata]
  OBVIOUS
<1> HIDE DEF m
<1>6. Sound(m) /\ (m.needed # <<>> \/ n = 0)
  BY <1>1, <1>2, <1>3, <1>4, <1>5 DEF Sound, Lacks
<1> QED
  BY <1>6 DEF m, s

\* The first of the list goes to its end.
LEMMA RequestIsSound ==
  ASSUME NEW m, Sound(m), m.needed # <<>>, ~Head(m.needed).recent
  PROVE  LET g == [m EXCEPT !.needed = Append(Tail(@), [Head(@) EXCEPT !.recent = TRUE])] IN
         Sound(g) /\ g.needed # <<>>
<1> DEFINE s == m.needed
           x == [Head(s) EXCEPT !.recent = TRUE]
           t == Append(Tail(s), x)
<1>1. s \in Seq(Needs) /\ Len(s) \in Nat \ {0} /\ Head(s) = s[1] /\ Head(s) \in Needs
  BY DEF Sound
<1>2. x \in Needs /\ x.piece = s[1].piece /\ x.recent
  BY <1>1 DEF Needs
<1> HIDE DEF x
<1>3. /\ t \in Seq(Needs) /\ Len(t) = Len(s) /\ t # <<>>
      /\ \A i \in 1 .. Len(s) : t[i] = IF i < Len(s) THEN s[i + 1] ELSE x
  <2> DEFINE u == Tail(s)
  <2>1. u \in Seq(Needs) /\ Len(u) = Len(s) - 1 /\ \A i \in 1 .. Len(s) - 1 : u[i] = s[i + 1]
    BY <1>1
  <2> HIDE DEF u, s
  <2>2. /\ Append(u, x) \in Seq(Needs) /\ Len(Append(u, x)) = Len(u) + 1
        /\ \A i \in 1 .. Len(u) + 1 : Append(u, x)[i] = IF i <= Len(u) THEN u[i] ELSE x
    BY <1>2, <2>1
  <2> QED
    BY <1>1, <2>1, <2>2 DEF u
<1> HIDE DEF t, s
<1>4. Unique(t)
  <2> SUFFICES ASSUME NEW i \in 1 .. Len(t), NEW j \in 1 .. Len(t), t[i].piece = t[j].piece
               PROVE  i = j
    BY DEF Unique
  <2> DEFINE Old(k) == IF k < Len(s) THEN k + 1 ELSE 1
  <2>1. \A k \in 1 .. Len(s) : Old(k) \in 1 .. Len(s) /\ t[k].piece = s[Old(k)].piece
    BY <1>1, <1>2, <1>3
  <2>2. Old(i) = Old(j)
    BY <1>3, <2>1 DEF Sound, Unique, s
  <2> QED
    BY <1>1, <1>3, <2>2
<1>5. Waits(t)
  <2> SUFFICES ASSUME NEW i \in 1 .. Len(t), NEW j \in 1 .. Len(t), i < j, t[i].recent
               PROVE  t[j].recent
    BY DEF Waits
  <2>1. i + 1 \in 1 .. Len(s) /\ t[i] = s[i + 1]
    BY <1>1, <1>3
  <2>2. CASE j = Len(s)
    BY <1>2, <1>3, <2>2
  <2>3. CASE j # Len(s)
    <3>1. j + 1 \in 1 .. Len(s) /\ t[j] = s[j + 1] /\ i + 1 < j + 1
      BY <1>1, <1>3, <2>3
    <3> QED
      BY <2>1, <3>1 DEF Sound, Waits, s
  <2> QED
    BY <2>2, <2>3
<1>6. \A p : (\E i \in 1 .. Len(s) : s[i].piece = p) <=> (\E i \in 1 .. Len(t) : t[i].piece = p)
  <2> SUFFICES ASSUME NEW p
               PROVE  (\E i \in 1 .. Len(s) : s[i].piece = p) <=> (\E i \in 1 .. Len(t) : t[i].piece = p)
    OBVIOUS
  <2>1. ASSUME NEW i \in 1 .. Len(s)
        PROVE  \E j \in 1 .. Len(t) : t[j].piece = s[i].piece
    <3>1. CASE i = 1
      BY <1>1, <1>2, <1>3, <3>1
    <3>2. CASE i # 1
      <4>1. i - 1 \in 1 .. Len(t) /\ i - 1 < Len(s) /\ (i - 1) + 1 = i
        BY <1>1, <1>3, <3>2
      <4> QED
        BY <1>3, <4>1
    <3> QED
      BY <3>1, <3>2
  <2>2. ASSUME NEW j \in 1 .. Len(t)
        PROVE  \E i \in 1 .. Len(s) : t[j].piece = s[i].piece
    <3>1. CASE j < Len(s)
      BY <1>1, <1>3, <3>1
    <3>2. CASE ~(j < Len(s))
      BY <1>1, <1>2, <1>3, <3>2
    <3> QED
      BY <3>1, <3>2
  <2> QED
    BY <2>1, <2>2
<1> DEFINE g == [m EXCEPT !.needed = t]
<1>7. /\ g.pieceCount = m.pieceCount /\ g.metadata = m.metadata /\ g.needed = t
      /\ g = [pieceCount |-> g.pieceCount, needed |-> g.needed, metadata |-> g.metadata]
  BY DEF Sound
<1> HIDE DEF g
<1>8. \A i \in 1 .. Len(t) : t[i].piece \in 1 .. m.pieceCount
  BY <1>6 DEF Sound, s
<1>9. \A p : Lacks(m, p) <=> Lacks(g, p)
  BY <1>6, <1>7 DEF Lacks, s
<1>10. Sound(g) /\ g.needed # <<>>
  BY <1>3, <1>4, <1>5, <1>7, <1>8, <1>9 DEF Sound
<1> QED
  BY <1>10 DEF g, t, s, x

\* Time goes by, and none is recent any more.
LEMMA WaitIsSound ==
  ASSUME NEW m, Sound(m)
  PROVE  LET g == [m EXCEPT !.needed = [i \in DOMAIN @ |-> [@[i] EXCEPT !.recent = FALSE]]] IN
         /\ Sound(g) /\ g.pieceCount = m.pieceCount
         /\ g.needed # <<>> \/ m.needed = <<>>
<1> DEFINE s == m.needed
           t == [i \in DOMAIN s |-> [s[i] EXCEPT !.recent = FALSE]]
           g == [m EXCEPT !.needed = t]
<1>1. s \in Seq(Needs) /\ Len(s) \in Nat /\ DOMAIN s = 1 .. Len(s)
  BY DEF Sound
<1>2. t \in Seq(Needs) /\ Len(t) = Len(s) /\ \A i \in 1 .. Len(s) : t[i].piece = s[i].piece /\ ~t[i].recent
  <2>1. \A i \in 1 .. Len(s) : s[i] \in Needs
    BY <1>1
  <2>2. t \in [1 .. Len(s) -> Needs]
    BY <1>1, <2>1 DEF Needs
  <2>3. t \in Seq(Needs) /\ Len(t) = Len(s)
    BY <1>1, <2>2
  <2> QED
    BY <1>1, <2>1, <2>3 DEF Needs
<1> HIDE DEF t
<1>3. /\ g.pieceCount = m.pieceCount /\ g.metadata = m.metadata /\ g.needed = t
      /\ g = [pieceCount |-> g.pieceCount, needed |-> g.needed, metadata |-> g.metadata]
  BY DEF Sound
<1> HIDE DEF g
<1>4. Unique(t) /\ Waits(t)
  BY <1>2 DEF Sound, Unique, Waits
<1>5. \A p : Lacks(m, p) <=> Lacks(g, p)
  BY <1>2, <1>3 DEF Lacks
<1>6. Sound(g)
  BY <1>2, <1>3, <1>4, <1>5 DEF Sound
<1>7. t # <<>> \/ s = <<>>
  BY <1>1, <1>2
<1> QED
  BY <1>3, <1>6, <1>7 DEF g, t

\* The number that SelectInSeq finds is that of a need for the piece.
LEMMA SelectNeed ==
  ASSUME NEW m, Sound(m), NEW piece
  PROVE  LET i == Metadata!SelectInSeq(m.needed, LAMBDA n : n.piece = piece) IN
         i = 0 \/ (i \in 1 .. Len(m.needed) /\ m.needed[i].piece = piece)
<1> DEFINE I == {i \in 1 .. Len(m.needed) : m.needed[i].piece = piece}
<1>1. I \in SUBSET Nat
  BY DEF Sound
<1>2. I # {} => Metadata!Min(I) \in I
  BY <1>1, LeastNumber DEF Metadata!Min
<1>3. Metadata!SelectInSeq(m.needed, LAMBDA n : n.piece = piece) = IF I # {} THEN Metadata!Min(I) ELSE 0
  BY DEF Metadata!SelectInSeq
<1> QED
  BY <1>2, <1>3

\* A piece has come, and is needed no more.
LEMMA PieceIsSound ==
  ASSUME NEW m, Sound(m), NEW piece, NEW data \in {"good", "bad"},
         NEW i \in 1 .. Len(m.needed), m.needed[i].piece = piece
  PROVE  LET g == [m EXCEPT !.metadata[piece] = data, !.needed = Metadata!RemoveAt(@, i)] IN
         Sound(g) /\ g.pieceCount = m.pieceCount
<1> DEFINE s == m.needed
           t == Metadata!RemoveAt(s, i)
           g == [m EXCEPT !.metadata[piece] = data, !.needed = t]
<1>1. s \in Seq(Needs) /\ Len(s) \in Nat
  BY DEF Sound
<1>2. /\ t \in Seq(Needs) /\ Len(t) = Len(s) - 1
      /\ \A k \in 1 .. Len(s) - 1 : t[k] = IF k < i THEN s[k] ELSE s[k + 1]
  BY <1>1, WithoutElement DEF Metadata!RemoveAt
<1> HIDE DEF t
<1>3. /\ g.pieceCount = m.pieceCount /\ g.needed = t
      /\ g.metadata = [m.metadata EXCEPT ![piece] = data]
      /\ g = [pieceCount |-> g.pieceCount, needed |-> g.needed, metadata |-> g.metadata]
  <2> DEFINE d == [m.metadata EXCEPT ![piece] = data]
  <2>1. g = [m EXCEPT !.metadata = d, !.needed = t]
    OBVIOUS
  <2> HIDE DEF d, g
  <2>2. DOMAIN m = {"pieceCount", "needed", "metadata"}
    BY DEF Sound
  <2> QED
    BY <2>1, <2>2 DEF d
<1> HIDE DEF g
<1> DEFINE Old(k) == IF k < i THEN k ELSE k + 1
<1>4. \A k \in 1 .. Len(t) : Old(k) \in 1 .. Len(s) /\ Old(k) # i /\ t[k] = s[Old(k)]
  <2> SUFFICES ASSUME NEW k \in 1 .. Len(t)
               PROVE  Old(k) \in 1 .. Len(s) /\ Old(k) # i /\ t[k] = s[Old(k)]
    OBVIOUS
  <2>1. Old(k) \in 1 .. Len(s) /\ Old(k) # i
    BY <1>1, <1>2
  <2>2. t[k] = s[Old(k)]
    BY <1>1, <1>2
  <2> QED
    BY <2>1, <2>2
<1>5. \A k, j \in 1 .. Len(t) : /\ Old(k) = Old(j) => k = j
                                /\ k < j => Old(k) < Old(j)
  BY <1>1, <1>2
<1>6. \A k \in 1 .. Len(s) : k = i \/ \E j \in 1 .. Len(t) : Old(j) = k
  <2> SUFFICES ASSUME NEW k \in 1 .. Len(s), k # i
               PROVE  \E j \in 1 .. Len(t) : Old(j) = k
    OBVIOUS
  <2>1. CASE k < i
    BY <1>1, <1>2, <2>1
  <2>2. CASE k > i
    <3>1. k - 1 \in 1 .. Len(t) /\ Old(k - 1) = k
      BY <1>1, <1>2, <2>2
    <3> QED
      BY <3>1
  <2> QED
    BY <1>1, <2>1, <2>2
<1> HIDE DEF Old
<1>7. Unique(t) /\ Waits(t)
  <2>1. Unique(s) /\ Waits(s)
    BY DEF Sound
  <2>2. ASSUME NEW k \in 1 .. Len(t), NEW j \in 1 .. Len(t), t[k].piece = t[j].piece
        PROVE  k = j
    <3>1. /\ Old(k) \in 1 .. Len(s) /\ t[k] = s[Old(k)]
          /\ Old(j) \in 1 .. Len(s) /\ t[j] = s[Old(j)]
      BY <1>4
    <3>2. Old(k) = Old(j)
      BY <2>1, <2>2, <3>1 DEF Unique
    <3> QED
      BY <1>5, <3>2
  <2>3. ASSUME NEW k \in 1 .. Len(t), NEW j \in 1 .. Len(t), k < j, t[k].recent
        PROVE  t[j].recent
    <3>1. Old(k) < Old(j) /\ s[Old(k)].recent
      BY <1>4, <1>5, <2>3
    <3> QED
      BY <1>4, <2>1, <3>1 DEF Waits
  <2> QED
    BY <2>2, <2>3 DEF Unique, Waits
<1>8. \A p : Lacks(m, p) => Lacks(g, p) \/ p = piece
  BY <1>3, <1>4, <1>6 DEF Lacks
<1>9. /\ DOMAIN g.metadata = 1 .. m.pieceCount /\ piece \in 1 .. m.pieceCount
      /\ \A p \in 1 .. m.pieceCount : g.metadata[p] = IF p = piece THEN data ELSE m.metadata[p]
  BY <1>3 DEF Sound
<1>10. \A k \in 1 .. Len(t) : t[k].piece \in 1 .. m.pieceCount
  BY <1>4 DEF Sound
<1>11. Sound(g)
  <2>1. \A p \in 1 .. m.pieceCount : Lacks(g, p) \/ g.metadata[p] # "none"
    BY <1>8, <1>9 DEF Sound
  <2>2. m.pieceCount \in Nat
    BY DEF Sound
  <2> QED
    BY <1>2, <1>3, <1>7, <1>9, <1>10, <2>1, <2>2 DEF Sound
<1> QED
  BY <1>3, <1>11 DEF g, t

\* The peers and what is on its way to and from them.
LEMMA SourcesStayTyped ==
  ASSUME MagnetInv, NEW p \in MetadataPeers,
         \/ Metadata!Connect(p) \/ Metadata!Disconnect(p) \/ Metadata!GetHandshake(p) \/ Metadata!Request(p)
         \/ Metadata!GetAnswer(p) \/ Metadata!GetRequest(p) \/ Metadata!SendMetadata(p)
  PROVE  SourceTypes'
<1> DEFINE q == source[p]
<1>1. q \in Sources /\ Len(q.asked) <= METADATA_REQQ
  BY DEF MagnetInv, SourceTypes
\* It is enough to look at the peer p.
<1>2. ASSUME NEW r \in Sources, source' = [source EXCEPT ![p] = r], Len(r.asked) <= METADATA_REQQ
      PROVE  SourceTypes'
  BY <1>2 DEF MagnetInv, SourceTypes
<1>3. CASE Metadata!Connect(p) \/ Metadata!GetHandshake(p)
  <2>1. CASE Metadata!Connect(p)
    <3> DEFINE r == [q EXCEPT !.connected = TRUE]
    <3>1. r \in Sources /\ r.asked = q.asked /\ source' = [source EXCEPT ![p] = r]
      BY <1>1, <2>1 DEF Metadata!Connect, Sources
    <3> QED
      BY <1>1, <1>2, <3>1
  <2>2. CASE Metadata!GetHandshake(p)
    <3> DEFINE r == [q EXCEPT !.supports = TRUE]
    <3>1. r \in Sources /\ r.asked = q.asked /\ source' = [source EXCEPT ![p] = r]
      BY <1>1, <2>2 DEF Metadata!GetHandshake, Sources
    <3> QED
      BY <1>1, <1>2, <3>1
  <2> QED
    BY <1>3, <2>1, <2>2
<1>4. CASE Metadata!Disconnect(p)
  <2> DEFINE r == Metadata!NoPeer
  <2>1. r \in Sources /\ r.asked = <<>>
    BY DEF Metadata!NoPeer, Sources
  <2>2. source' = [source EXCEPT ![p] = r]
    BY <1>4 DEF Metadata!Disconnect
  <2>3. Len(r.asked) <= METADATA_REQQ
    BY <2>1, MetadataAssumption
  <2> HIDE DEF r
  <2> QED
    BY <1>2, <2>1, <2>2, <2>3
<1>5. CASE Metadata!Request(p)
  <2> DEFINE piece == Head(incomplete[1].needed).piece
             toPeer == Append(q.toPeer, piece)
             r == [q EXCEPT !.toPeer = toPeer]
  <2>1. source' = [source EXCEPT ![p] = r]
    BY <1>5 DEF Metadata!Request
  <2>2. piece \in Nat
    <3>1. PICK m : incomplete = <<m>> /\ Sound(m)
      BY <1>5 DEF MagnetInv, DownloadInv, Metadata!Request, Metadata!CanRequest
    <3>2. m.needed # <<>> /\ m.needed \in Seq(Needs)
      BY <1>5, <3>1 DEF Sound, Metadata!Request, Metadata!CanRequest
    <3>3. Head(m.needed) \in Needs
      BY <3>2
    <3> QED
      BY <3>1, <3>3 DEF Needs
  <2> HIDE DEF piece
  <2>3. toPeer \in Seq(Nat)
    BY <1>1, <2>2 DEF Sources
  <2> HIDE DEF toPeer
  <2>4. r \in Sources /\ r.asked = q.asked
    BY <1>1, <2>3 DEF Sources
  <2> QED
    BY <1>1, <1>2, <2>1, <2>4
<1>6. CASE Metadata!GetAnswer(p)
  <2> DEFINE rest == Tail(q.fromPeer)
             r == [q EXCEPT !.fromPeer = rest]
  <2>1. source' = [source EXCEPT ![p] = r] /\ q.fromPeer # <<>>
    BY <1>6 DEF Metadata!GetAnswer
  <2>2. rest \in Seq(Answers)
    BY <1>1, <2>1 DEF Sources
  <2> HIDE DEF rest
  <2>3. r \in Sources /\ r.asked = q.asked
    BY <1>1, <2>2 DEF Sources
  <2> QED
    BY <1>1, <1>2, <2>1, <2>3
<1>7. CASE Metadata!GetRequest(p)
  <2> DEFINE piece == Head(q.toPeer)
             queued == p \in Honest \cup Liars /\ Len(q.asked) < METADATA_REQQ
             toPeer == Tail(q.toPeer)
             asked == IF queued THEN Append(q.asked, piece) ELSE q.asked
             fromPeer == IF queued THEN q.fromPeer ELSE Append(q.fromPeer, [piece |-> piece, data |-> "reject"])
             r == [q EXCEPT !.toPeer = toPeer, !.asked = asked, !.fromPeer = fromPeer]
  <2>1. q.toPeer # <<>> /\ source' = [source EXCEPT ![p] = r]
    BY <1>7 DEF Metadata!GetRequest
  <2>2. piece \in Nat /\ toPeer \in Seq(Nat)
    BY <1>1, <2>1 DEF Sources
  <2> HIDE DEF piece, toPeer
  <2>3. asked \in Seq(Nat) /\ Len(asked) <= METADATA_REQQ
    <3>1. q.asked \in Seq(Nat) /\ Len(q.asked) \in Nat
      BY <1>1 DEF Sources
    <3>2. Append(q.asked, piece) \in Seq(Nat) /\ Len(Append(q.asked, piece)) = Len(q.asked) + 1
      BY <2>2, <3>1
    <3> QED
      BY <1>1, <3>1, <3>2, MetadataAssumption
  <2>4. fromPeer \in Seq(Answers)
    <3>1. q.fromPeer \in Seq(Answers) /\ [piece |-> piece, data |-> "reject"] \in Answers
      BY <1>1, <2>2 DEF Sources, Answers
    <3> QED
      BY <3>1
  <2> HIDE DEF asked, fromPeer
  <2>5. r \in Sources /\ r.asked = asked
    BY <1>1, <2>2, <2>3, <2>4 DEF Sources
  <2> QED
    BY <1>2, <2>1, <2>3, <2>5
<1>8. CASE Metadata!SendMetadata(p)
  <2>1. q.asked # <<>>
    BY <1>8 DEF Metadata!SendMetadata
  <2> DEFINE piece == Head(q.asked)
             asked == Tail(q.asked)
  <2>2. PICK data \in {"good", "bad", "reject"} :
          source' = [source EXCEPT ![p] = [q EXCEPT !.asked = asked,
                                                    !.fromPeer = Append(q.fromPeer, [piece |-> piece, data |-> data])]]
    <3>1. PICK data \in (IF p \in Liars THEN {"good", "bad"} ELSE IF piece <= Size THEN {"good"} ELSE {"reject"}) :
            source' = [source EXCEPT ![p].asked = Tail(@), ![p].fromPeer = Append(@, [piece |-> piece, data |-> data])]
      BY <1>8 DEF Metadata!SendMetadata
    <3>2. data \in {"good", "bad", "reject"}
      OBVIOUS
    <3> QED
      BY <3>1, <3>2
  <2> DEFINE fromPeer == Append(q.fromPeer, [piece |-> piece, data |-> data])
             r == [q EXCEPT !.asked = asked, !.fromPeer = fromPeer]
  <2>3. piece \in Nat /\ asked \in Seq(Nat) /\ Len(asked) <= METADATA_REQQ
    <3>1. q.asked \in Seq(Nat) /\ Len(q.asked) \in Nat
      BY <1>1 DEF Sources
    <3>2. piece \in Nat /\ asked \in Seq(Nat) /\ Len(asked) = Len(q.asked) - 1
      BY <2>1, <3>1
    <3> QED
      BY <1>1, <3>1, <3>2, MetadataAssumption
  <2>4. fromPeer \in Seq(Answers)
    <3>1. q.fromPeer \in Seq(Answers) /\ [piece |-> piece, data |-> data] \in Answers
      BY <1>1, <2>3 DEF Sources, Answers
    <3> QED
      BY <3>1
  <2>5. source' = [source EXCEPT ![p] = r]
    BY <2>2
  <2> HIDE DEF asked, fromPeer
  <2>6. r \in Sources /\ r.asked = asked
    BY <1>1, <2>3, <2>4 DEF Sources
  <2> QED
    BY <1>2, <2>3, <2>5, <2>6
<1> QED
  BY <1>3, <1>4, <1>5, <1>6, <1>7, <1>8

\* tr_torrentSetMetadataPiece: whatever piece comes, the download goes on soundly or is over.
LEMMA PieceStep ==
  ASSUME DownloadInv, ~hasMetadata, NEW piece, NEW data \in {"good", "bad"},
         Metadata!tr_torrentSetMetadataPiece(piece, data)
  PROVE  DownloadInv'
<1>1. CASE incomplete = <<>>
  BY <1>1 DEF Metadata!tr_torrentSetMetadataPiece, DownloadInv
<1>2. CASE incomplete # <<>>
  <2>1. PICK m : incomplete = <<m>> /\ Sound(m) /\ (m.needed # <<>> \/ m.pieceCount = 0)
    BY <1>2 DEF DownloadInv
  <2>2. incomplete[1] = m
    BY <2>1
  <2> DEFINE i == Metadata!SelectInSeq(m.needed, LAMBDA n : n.piece = piece)
             g == [m EXCEPT !.metadata[piece] = data, !.needed = Metadata!RemoveAt(@, i)]
  <2>3. IF i = 0 THEN UNCHANGED <<incomplete, hasMetadata>>
        ELSE IF g.needed # <<>> THEN incomplete' = <<g>> /\ UNCHANGED hasMetadata
        ELSE IF Metadata!ChecksumPasses(g) THEN incomplete' = <<>> /\ hasMetadata' = TRUE
        ELSE incomplete' = <<[g EXCEPT !.needed = Metadata!AllNeeded(g.pieceCount)]>> /\ UNCHANGED hasMetadata
    BY <1>2, <2>2 DEF Metadata!tr_torrentSetMetadataPiece
  <2>4. CASE i = 0
    BY <2>3, <2>4 DEF DownloadInv
  <2>5. CASE i # 0
    <3>1. i \in 1 .. Len(m.needed) /\ m.needed[i].piece = piece
      BY <2>1, <2>5, SelectNeed
    <3> HIDE DEF i
    <3>2. Sound(g)
      BY <2>1, <3>1, PieceIsSound
    <3> HIDE DEF g
    <3> DEFINE h == [g EXCEPT !.needed = Metadata!AllNeeded(g.pieceCount)]
    <3>0. IF i = 0 THEN UNCHANGED <<incomplete, hasMetadata>>
          ELSE IF g.needed # <<>> THEN incomplete' = <<g>> /\ UNCHANGED hasMetadata
          ELSE IF Metadata!ChecksumPasses(g) THEN incomplete' = <<>> /\ hasMetadata' = TRUE
          ELSE incomplete' = <<h>> /\ UNCHANGED hasMetadata
      BY <2>3
    <3>3. Sound(h) /\ (h.needed # <<>> \/ h.pieceCount = 0)
      <4> DEFINE all == [pieceCount |-> g.pieceCount, needed |-> Metadata!AllNeeded(g.pieceCount), metadata |-> g.metadata]
      <4>1. Sound(all) /\ (all.needed # <<>> \/ g.pieceCount = 0)
        BY <3>2, AllNeededIs DEF Sound
      <4>2. h = all
        BY <3>2 DEF Sound
      <4>3. h.pieceCount = g.pieceCount
        BY <4>2
      <4> QED
        BY <4>1, <4>2, <4>3
    <3> HIDE DEF h
    <3>4. CASE g.needed # <<>>
      <4>1. incomplete' = <<g>> /\ hasMetadata' = hasMetadata
        BY <2>5, <3>0, <3>4
      <4> QED
        BY <3>2, <3>4, <4>1 DEF DownloadInv
    <3>5. CASE g.needed = <<>> /\ Metadata!ChecksumPasses(g)
      <4>1. incomplete' = <<>> /\ hasMetadata' = TRUE
        BY <2>5, <3>0, <3>5
      <4> QED
        BY <4>1 DEF DownloadInv
    <3>6. CASE g.needed = <<>> /\ ~Metadata!ChecksumPasses(g)
      <4>1. incomplete' = <<h>> /\ hasMetadata' = hasMetadata
        BY <2>5, <3>0, <3>6
      <4> QED
        BY <3>3, <4>1 DEF DownloadInv
    <3> QED
      BY <3>4, <3>5, <3>6
  <2> QED
    BY <2>4, <2>5
<1> QED
  BY <1>1, <1>2

LEMMA DownloadStep ==
  ASSUME MagnetInv, Metadata!Next
  PROVE  DownloadInv'
<1>1. DownloadInv
  BY DEF MagnetInv
<1>2. ASSUME UNCHANGED <<incomplete, hasMetadata>>
      PROVE  DownloadInv'
  BY <1>1, <1>2 DEF DownloadInv
<1>3. ASSUME NEW p \in MetadataPeers, Metadata!GetHandshake(p)
      PROVE  DownloadInv'
  <2>1. CASE UNCHANGED incomplete
    BY <1>2, <1>3, <2>1 DEF Metadata!GetHandshake
  <2>2. CASE ~UNCHANGED incomplete
    <3>1. PICK n \in Nat : ~hasMetadata /\ Metadata!tr_torrentSetMetadataSizeHint(n)
      BY <1>3, <2>2, MetadataAssumption DEF Metadata!GetHandshake, Metadata!tr_torrentSetMetadataSizeHint
    <3> DEFINE data == [i \in 1 .. n |-> "none"]
               m == [pieceCount |-> n, needed |-> Metadata!AllNeeded(n), metadata |-> data]
    <3>2. incomplete' = <<m>>
      BY <2>2, <3>1 DEF Metadata!tr_torrentSetMetadataSizeHint
    <3>3. Sound(m) /\ (m.needed # <<>> \/ n = 0)
      BY AllNeededIs
    <3>4. m.pieceCount = n
      OBVIOUS
    <3> HIDE DEF m
    <3> QED
      BY <1>1, <1>3, <3>1, <3>2, <3>3, <3>4 DEF Metadata!GetHandshake, DownloadInv
  <2> QED
    BY <2>1, <2>2
<1>4. ASSUME NEW p \in MetadataPeers, Metadata!Request(p)
      PROVE  DownloadInv'
  <2>1. PICK m : incomplete = <<m>> /\ Sound(m)
    BY <1>1, <1>4 DEF DownloadInv, Metadata!Request, Metadata!CanRequest
  <2>2. m.needed # <<>> /\ ~Head(m.needed).recent
    BY <1>4, <2>1 DEF Metadata!Request, Metadata!CanRequest
  <2> DEFINE g == [m EXCEPT !.needed = Append(Tail(@), [Head(@) EXCEPT !.recent = TRUE])]
  <2>3. incomplete' = <<g>> /\ UNCHANGED hasMetadata
    BY <1>4, <2>1 DEF Metadata!Request
  <2>4. Sound(g) /\ g.needed # <<>>
    BY <2>1, <2>2, RequestIsSound
  <2> HIDE DEF g
  <2> QED
    BY <1>1, <2>1, <2>3, <2>4 DEF DownloadInv
<1>5. ASSUME Metadata!Wait
      PROVE  DownloadInv'
  <2>1. PICK m : incomplete = <<m>> /\ Sound(m) /\ (m.needed # <<>> \/ m.pieceCount = 0)
    BY <1>1, <1>5 DEF DownloadInv, Metadata!Wait
  <2> DEFINE g == [m EXCEPT !.needed = [i \in DOMAIN @ |-> [@[i] EXCEPT !.recent = FALSE]]]
  <2>2. incomplete' = <<g>> /\ UNCHANGED hasMetadata
    BY <1>5, <2>1 DEF Metadata!Wait
  <2>3. Sound(g) /\ (g.needed # <<>> \/ g.pieceCount = 0)
    BY <2>1, WaitIsSound
  <2> HIDE DEF g
  <2> QED
    BY <1>1, <2>1, <2>2, <2>3 DEF DownloadInv
<1>6. ASSUME NEW p \in MetadataPeers, Metadata!GetAnswer(p)
      PROVE  DownloadInv'
  <2> DEFINE m == Head(source[p].fromPeer)
  <2>1. m \in Answers
    <3>1. source[p].fromPeer \in Seq(Answers) /\ source[p].fromPeer # <<>>
      BY <1>6 DEF MagnetInv, SourceTypes, Sources, Metadata!GetAnswer
    <3> QED
      BY <3>1
  <2>2. CASE m.data = "reject" \/ hasMetadata
    BY <1>2, <1>6, <2>2 DEF Metadata!GetAnswer
  <2>3. CASE ~(m.data = "reject" \/ hasMetadata)
    <3>1. ~hasMetadata /\ m.data \in {"good", "bad"} /\ Metadata!tr_torrentSetMetadataPiece(m.piece, m.data)
      BY <1>6, <2>1, <2>3 DEF Metadata!GetAnswer, Answers
    <3> QED
      BY <1>1, <3>1, PieceStep
  <2> QED
    BY <2>2, <2>3
<1>7. ASSUME NEW p \in MetadataPeers,
             Metadata!Connect(p) \/ Metadata!Disconnect(p) \/ Metadata!GetRequest(p) \/ Metadata!SendMetadata(p)
      PROVE  DownloadInv'
  BY <1>2, <1>7 DEF Metadata!Connect, Metadata!Disconnect, Metadata!GetRequest, Metadata!SendMetadata
<1> QED
  BY <1>3, <1>4, <1>5, <1>6, <1>7 DEF Metadata!Next

LEMMA MagnetStep == ASSUME MagnetInv, Metadata!Next PROVE MagnetInv'
<1>1. SourceTypes'
  <2>1. CASE Metadata!Wait
    BY <2>1 DEF Metadata!Wait, MagnetInv, SourceTypes
  <2>2. CASE ~Metadata!Wait
    BY <2>2, SourcesStayTyped DEF Metadata!Next
  <2> QED
    BY <2>1, <2>2
<1> QED
  BY <1>1, DownloadStep DEF MagnetInv

\* As many pieces are needed as the list is long: none is needed twice.
LEMMA NeedsAreCounted ==
  ASSUME NEW m, Sound(m)
  PROVE  Metadata!Cardinality({m.needed[i].piece : i \in DOMAIN m.needed}) = Len(m.needed)
<1> DEFINE s == m.needed
           n == Len(s)
           P == {s[i].piece : i \in 1 .. n}
           f == [i \in 1 .. n |-> s[i].piece]
<1>1. s \in Seq(Needs) /\ n \in Nat /\ DOMAIN s = 1 .. n
  BY DEF Sound
<1>2. f \in Bijection(1 .. n, P)
  <2>1. f \in [1 .. n -> P]
    OBVIOUS
  <2>2. \A i, j \in 1 .. n : f[i] = f[j] => i = j
    BY DEF Sound, Unique
  <2>3. \A x \in P : \E i \in 1 .. n : f[i] = x
    OBVIOUS
  <2> HIDE DEF f, P
  <2> QED
    BY <2>1, <2>2, <2>3 DEF Bijection, Injection, Surjection, IsInjective
<1>3. Cardinality(P) = n
  BY <1>1, <1>2, FS_CountingElements DEF ExistsBijection
<1>4. \A S : Metadata!Cardinality(S) = Cardinality(S)
  BY DEF Metadata!Cardinality, Cardinality
<1> QED
  BY <1>1, <1>3, <1>4

LEMMA MagnetInvSays == MagnetInv => Metadata!TypeOK /\ Metadata!MetadataAreAskedFor
<1> SUFFICES ASSUME MagnetInv
             PROVE  Metadata!TypeOK /\ Metadata!MetadataAreAskedFor
  OBVIOUS
<1>1. Metadata!TypeOK
  BY DEF MagnetInv, SourceTypes, DownloadInv, Sources, Metadata!TypeOK
<1>2. Metadata!MetadataAreAskedFor
  <2>1. CASE incomplete = <<>>
    BY <2>1 DEF Metadata!MetadataAreAskedFor
  <2>2. CASE incomplete # <<>>
    <3>1. PICK m : incomplete = <<m>> /\ Sound(m) /\ (m.needed # <<>> \/ m.pieceCount = 0)
      BY <2>2 DEF MagnetInv, DownloadInv
    <3> DEFINE needed == {m.needed[i].piece : i \in DOMAIN m.needed}
    <3>2. m.needed \in Seq(Needs) /\ m.pieceCount \in Nat
      BY <3>1 DEF Sound
    <3>3. m.pieceCount > 0 => needed # {}
      <4>1. ASSUME m.pieceCount > 0
            PROVE  1 \in DOMAIN m.needed
        BY <3>1, <3>2, <4>1
      <4> QED
        BY <4>1
    <3>4. Metadata!Cardinality(needed) = Len(m.needed)
      BY <3>1, NeedsAreCounted
    <3>5. \A i \in (1 .. m.pieceCount) \ needed : m.metadata[i] # "none"
      BY <3>1, <3>2 DEF Sound, Lacks
    <3>6. \A i, j \in DOMAIN m.needed : i < j /\ m.needed[i].recent => m.needed[j].recent
      BY <3>1, <3>2 DEF Sound, Waits
    <3>7. ~hasMetadata
      BY <2>2 DEF MagnetInv, DownloadInv
    <3>8. incomplete[1] = m
      BY <3>1
    <3> HIDE DEF needed
    <3> QED
      BY <3>3, <3>4, <3>5, <3>6, <3>7, <3>8 DEF Metadata!MetadataAreAskedFor, needed
  <2> QED
    BY <2>1, <2>2
<1> QED
  BY <1>1, <1>2

\* The metadata of a magnet link (tr_torrentSetMetadataPiece): however peers reject, lie, come and
\* go, each piece that is lacking is on the list of what is asked for, once, and the list is empty
\* only when there are metadata, unless the first size that was told is none.
THEOREM NeverStuck == Spec => []MetadataAreAskedFor
<1> DEFINE Inv == focus = "metadata" => MagnetInv
<1>1. Init => Inv
  <2> SUFFICES ASSUME Metadata!Init
               PROVE  MagnetInv
    BY DEF Init
  <2>1. Metadata!NoPeer \in Sources /\ Metadata!NoPeer.asked = <<>>
    BY DEF Metadata!NoPeer, Sources
  <2>2. SourceTypes
    BY <2>1, MetadataAssumption DEF Metadata!Init, SourceTypes
  <2> QED
    BY <2>2 DEF Metadata!Init, MagnetInv, DownloadInv
<1>2. Inv /\ [Next]_vars => Inv'
  <2> SUFFICES ASSUME Inv, [Next]_vars, focus' = "metadata"
               PROVE  MagnetInv'
    OBVIOUS
  <2>1. focus = "metadata" /\ MagnetInv
    BY DEF Next, vars
  <2>2. CASE Next
    <3>1. Metadata!Next
      BY <2>1, <2>2 DEF Next
    <3> QED
      BY <2>1, <3>1, MagnetStep
  <2>3. CASE UNCHANGED vars
    <3>1. UNCHANGED <<incomplete, hasMetadata, source>>
      BY <2>3 DEF vars, magnetVars
    <3> QED
      BY <2>1, <3>1 DEF MagnetInv, SourceTypes, DownloadInv
  <2> QED
    BY <2>2, <2>3
<1>3. Inv => MetadataAreAskedFor
  BY MagnetInvSays DEF MetadataAreAskedFor
<1> QED
  BY <1>1, <1>2, <1>3, PTL DEF Spec

-----------------------------------------------------------------------------
(* The handshake. *)

Cyphers  == {Shake!NONE, Shake!RC4}
Results  == {"none", "ok", "failed"}
Letters  == [what : {"handshake", "peer id", "Ya", "pad A", "Yb", "pad B", "provide", "pad C", "IA", "VC", "select"},
             enc : Cyphers, crypto : SUBSET Cyphers]
SidesIn(states) == [state : states, enc : Cyphers, sent : BOOLEAN, crypto : SUBSET Cyphers, result : Results]

\* What A sends: its handshake behind the request is always encrypted.
QuestionsOfA == {m \in Letters : m.what = "IA" => m.enc = Shake!RC4}

\* What B may have sent: its handshake is as B is encrypted, which B does not change any more.
AnswersOfB(sent, enc) == {m \in Letters : m.what \in {"handshake", "peer id"} => sent /\ m.enc = enc}

ShakeTypes ==
  /\ conf \in [A : Shake!Modes, B : Shake!Modes, plainB : BOOLEAN, known : BOOLEAN, self : BOOLEAN,
               seeds : BOOLEAN, utp : BOOLEAN, reliable : BOOLEAN]
  /\ a \in SidesIn(Shake!StatesOfA) /\ b \in SidesIn(Shake!StatesOfB)
  /\ toA \in Seq(AnswersOfB(b.sent, b.enc)) /\ toB \in Seq(QuestionsOfA)
  /\ isOpen \in BOOLEAN /\ tries \in 1 .. MaxConnections

\* B's handshake once it has been sent.
BHasSent == b.sent => b.state \in {"AWAITING_PEER_ID", "AWAITING_PAYLOAD_STREAM"}

\* What each side knows when it has read the other's handshake, and when it is done.
AKnows ==
  /\ a.state = "AWAITING_PEER_ID" => /\ b.sent /\ a.enc = b.enc
                                     /\ conf.A = Shake!TR_ENCRYPTION_REQUIRED => a.enc = Shake!RC4
  /\ a.state = "AWAITING_PAD_D" => a.crypto # {}
  /\ a.result = "ok" => a.state = "AWAITING_PEER_ID" /\ ~conf.self
BKnows ==
  /\ b.state = "AWAITING_PEER_ID" => b.sent /\ Shake!PlainIsWelcome
  /\ b.state = "AWAITING_PAYLOAD_STREAM" => b.sent
  /\ b.result = "ok" => /\ b.sent /\ ~conf.self /\ conf.known
                        /\ b.enc = Shake!RC4 \/ Shake!PlainIsWelcome

\* What makes the two sides agree, whatever goes wrong.
AgreeInv == ShakeTypes /\ BHasSent /\ AKnows /\ BKnows

\* Where nothing goes wrong: how far a handshake in plain text has come, and an encrypted one.
NothingGoesWrong == conf.reliable /\ conf.known /\ ~conf.self /\ ~conf.seeds /\ Shake!Compatible

SideIs(side, state, enc, sent, result) ==
  side.state = state /\ side.enc = enc /\ side.sent = sent /\ side.result = result
Handshake(e) == Shake!BitTorrentHandshake(e)
PeerId(e)    == <<Shake!Msg("peer id", e)>>

AReadsAnswer(e) ==
  \/ SideIs(a, "AWAITING_HANDSHAKE", e, TRUE, "none") /\ toA = Handshake(e)
  \/ SideIs(a, "AWAITING_PEER_ID", e, TRUE, "none") /\ toA = PeerId(e)
  \/ SideIs(a, "AWAITING_PEER_ID", e, TRUE, "ok") /\ toA = <<>>

PlainSent ==
  /\ SideIs(a, "AWAITING_HANDSHAKE", Shake!NONE, TRUE, "none") /\ toA = <<>>
  /\ SideIs(b, "AWAITING_HANDSHAKE", Shake!NONE, FALSE, "none") /\ toB = Handshake(Shake!NONE)
PlainAnswered ==
  /\ AReadsAnswer(Shake!NONE)
  /\ \/ SideIs(b, "AWAITING_PEER_ID", Shake!NONE, TRUE, "none") /\ toB = PeerId(Shake!NONE)
     \/ SideIs(b, "AWAITING_PEER_ID", Shake!NONE, TRUE, "ok") /\ toB = <<>>
Plain == conf.A # Shake!TR_ENCRYPTION_REQUIRED /\ Shake!PlainIsWelcome /\ isOpen /\ (PlainSent \/ PlainAnswered)

\* A client without encryption gives up on a key.
KeyOfA     == <<Shake!Msg("Ya", Shake!NONE), Shake!Msg("pad A", Shake!NONE)>>
KeyRefused ==
  /\ conf.plainB /\ tries = 1
  /\ SideIs(a, "AWAITING_YB", Shake!NONE, FALSE, "none") /\ toA = <<>> /\ toB = KeyOfA
  /\ \/ SideIs(b, "AWAITING_HANDSHAKE", Shake!NONE, FALSE, "none") /\ isOpen
     \/ SideIs(b, "AWAITING_HANDSHAKE", Shake!NONE, FALSE, "failed") /\ ~isOpen

\* All that the two sides of an encrypted handshake send, in order, and the state of a side that has
\* read so much of what the other sends.
StreamOfA == <<Shake!Msg("Ya", Shake!NONE), Shake!Msg("pad A", Shake!NONE), Shake!CryptoMsg("provide", {Shake!RC4}),
               Shake!Msg("pad C", Shake!RC4), Shake!Msg("IA", Shake!RC4)>>
StreamOfB == <<Shake!Msg("Yb", Shake!NONE), Shake!Msg("pad B", Shake!NONE), Shake!Msg("VC", Shake!RC4),
               Shake!CryptoMsg("select", {Shake!RC4}), Shake!Msg("handshake", Shake!RC4),
               Shake!Msg("peer id", Shake!RC4)>>
AHasRead(i) ==
  \/ i = 0 /\ SideIs(a, "AWAITING_YB", Shake!NONE, FALSE, "none")
  \/ i \in {1, 2} /\ SideIs(a, "AWAITING_VC", Shake!RC4, TRUE, "none")
  \/ i = 3 /\ SideIs(a, "AWAITING_CRYPTO_SELECT", Shake!RC4, TRUE, "none")
  \/ i = 4 /\ SideIs(a, "AWAITING_PAD_D", Shake!RC4, TRUE, "none") /\ a.crypto = {Shake!RC4}
  \/ i = 4 /\ SideIs(a, "AWAITING_HANDSHAKE", Shake!RC4, TRUE, "none")
  \/ i = 5 /\ SideIs(a, "AWAITING_PEER_ID", Shake!RC4, TRUE, "none")
  \/ i = 6 /\ SideIs(a, "AWAITING_PEER_ID", Shake!RC4, TRUE, "ok")
BHasRead(j) ==
  \/ j = 0 /\ SideIs(b, "AWAITING_HANDSHAKE", Shake!NONE, FALSE, "none")
  \/ j = 0 /\ SideIs(b, "AWAITING_YA", Shake!RC4, FALSE, "none")
  \/ j \in {1, 2} /\ SideIs(b, "AWAITING_PAD_A", Shake!RC4, FALSE, "none")
  \/ j = 2 /\ SideIs(b, "AWAITING_CRYPTO_PROVIDE", Shake!RC4, FALSE, "none")
  \/ j = 3 /\ SideIs(b, "AWAITING_PAD_C", Shake!RC4, FALSE, "none") /\ b.crypto = {Shake!RC4}
  \/ j = 4 /\ SideIs(b, "AWAITING_IA", Shake!RC4, FALSE, "none") /\ b.crypto = {Shake!RC4}
  \/ j = 4 /\ SideIs(b, "AWAITING_PAYLOAD_STREAM", Shake!RC4, TRUE, "none")
  \/ j = 5 /\ SideIs(b, "AWAITING_PAYLOAD_STREAM", Shake!RC4, TRUE, "ok")
\* How much a side has sent: its key, and the rest in one go.
SentByA == IF a.sent THEN 5 ELSE 2
SentByB == IF b.sent THEN 6 ELSE IF b.state \in {"AWAITING_HANDSHAKE", "AWAITING_YA"} THEN 0 ELSE 2

\* A has read i and B has read j, and the rest is on its way.
Between(i, j) ==
  /\ AHasRead(i) /\ i <= SentByB /\ toA = SubSeq(StreamOfB, i + 1, SentByB)
  /\ BHasRead(j) /\ j <= SentByA /\ toB = SubSeq(StreamOfA, j + 1, SentByA)
Encrypted == /\ conf.A # Shake!TR_CLEAR_PREFERRED /\ ~conf.plainB /\ isOpen
             /\ \E i \in 0 .. 6, j \in 0 .. 5 : Between(i, j)

Goes == NothingGoesWrong => Plain \/ KeyRefused \/ Encrypted
ShakeInv == AgreeInv /\ Goes

\* As long as B has not sent its handshake, what it has sent stays right however it will be encrypted.
LEMMA AnswersGrow ==
  ASSUME NEW enc, NEW s \in Seq(AnswersOfB(FALSE, enc)), NEW sent, NEW e
  PROVE  s \in Seq(AnswersOfB(sent, e))
<1>1. AnswersOfB(FALSE, enc) \subseteq AnswersOfB(sent, e)
  BY DEF AnswersOfB
<1> HIDE DEF AnswersOfB
<1> QED
  BY <1>1, LongerSeq

LEMMA HandshakeIsAnAnswer ==
  ASSUME NEW e \in Cyphers
  PROVE  Handshake(e) \in Seq(AnswersOfB(TRUE, e)) /\ Handshake(e) \in Seq(QuestionsOfA)
<1> DEFINE x == Shake!Msg("handshake", e)
           y == Shake!Msg("peer id", e)
<1>1. {x, y} \subseteq AnswersOfB(TRUE, e) /\ {x, y} \subseteq QuestionsOfA
  <2>1. x \in Letters /\ y \in Letters
    BY DEF Shake!Msg, Letters
  <2>2. x.enc = e /\ y.enc = e /\ x.what # "IA" /\ y.what # "IA"
    BY DEF Shake!Msg
  <2> QED
    BY <2>1, <2>2 DEF AnswersOfB, QuestionsOfA
<1>2. Handshake(e) = <<x, y>>
  BY DEF Handshake, Shake!BitTorrentHandshake
<1> HIDE DEF x, y
<1>3. <<x, y>> \in Seq({x, y})
  OBVIOUS
<1> QED
  BY <1>1, <1>2, <1>3, LongerSeq

LEMMA OthersAreAnswers ==
  ASSUME NEW sent, NEW e
  PROVE  /\ Shake!Msg("Yb", Shake!NONE) \in AnswersOfB(sent, e) /\ Shake!Msg("pad B", Shake!NONE) \in AnswersOfB(sent, e)
         /\ Shake!Msg("VC", Shake!RC4) \in AnswersOfB(sent, e)
         /\ \A crypto \in SUBSET Cyphers : Shake!CryptoMsg("select", crypto) \in AnswersOfB(sent, e)
         /\ \A crypto \in SUBSET Cyphers : Shake!CryptoMsg("provide", crypto) \in QuestionsOfA
         /\ Shake!Msg("pad C", Shake!RC4) \in QuestionsOfA /\ Shake!Msg("IA", Shake!RC4) \in QuestionsOfA
         /\ Shake!Msg("Ya", Shake!NONE) \in QuestionsOfA /\ Shake!Msg("pad A", Shake!NONE) \in QuestionsOfA
BY DEF Shake!Msg, Shake!CryptoMsg, AnswersOfB, QuestionsOfA, Letters, Cyphers

LEMMA SelectIsTyped ==
  ASSUME NEW mode, NEW provide \in SUBSET Cyphers
  PROVE  Shake!getCryptoSelect(mode, provide) \in SUBSET Cyphers /\ Shake!getCryptoProvide(mode) \in SUBSET Cyphers
BY DEF Cyphers, Shake!getCryptoSelect, Shake!getCryptoProvide

\* A step of either side, or a failure, leaves both with what they know of each other.
LEMMA AgreeStep == ASSUME AgreeInv, Shake!Next PROVE AgreeInv'
<1> DEFINE S == AnswersOfB(b.sent, b.enc)
<1> USE DEF AgreeInv, Cyphers, Results, Shake!NONE, Shake!RC4, Shake!DoneA, Shake!DoneB, Shake!Waiting,
            Shake!InA, Shake!InB, Shake!ReadsA, Shake!ReadsB
<1>0. /\ conf.plainB \in BOOLEAN /\ conf.known \in BOOLEAN /\ conf.self \in BOOLEAN
      /\ a.enc \in Cyphers /\ b.enc \in Cyphers /\ b.sent \in BOOLEAN
      /\ a.crypto \in SUBSET Cyphers /\ b.crypto \in SUBSET Cyphers
  BY DEF ShakeTypes, SidesIn
<1>f. a \in SidesIn(Shake!StatesOfA) /\ b \in SidesIn(Shake!StatesOfB)
  BY DEF ShakeTypes
<1>g. /\ {"AWAITING_HANDSHAKE", "AWAITING_VC", "AWAITING_PAD_D", "AWAITING_PEER_ID"} \subseteq Shake!StatesOfA
      /\ {"AWAITING_YA", "AWAITING_PEER_ID", "AWAITING_PAD_C"} \subseteq Shake!StatesOfB
      /\ Shake!NONE \in Cyphers /\ Shake!RC4 \in Cyphers /\ {"ok", "failed"} \subseteq Results
  BY DEF Shake!StatesOfA, Shake!StatesOfB
<1>a. /\ toA \in Seq(S) /\ toB \in Seq(QuestionsOfA)
      /\ toA # <<>> => Head(toA) \in S /\ Tail(toA) \in Seq(S)
      /\ toB # <<>> => Head(toB) \in QuestionsOfA /\ Tail(toB) \in Seq(QuestionsOfA)
  BY DEF ShakeTypes
<1>b. toA # <<>> => Shake!Next1(toA, a).crypto \in SUBSET Cyphers
  <2>1. Shake!Msg("rubbish", Shake!RC4).crypto = {}
    BY DEF Shake!Msg
  <2> QED
    BY <1>a, <2>1 DEF AnswersOfB, Letters, Shake!Next1
<1>c. toB # <<>> => Shake!Next1(toB, b).crypto \in SUBSET Cyphers
  <2>1. Shake!Msg("rubbish", Shake!RC4).crypto = {}
    BY DEF Shake!Msg
  <2> QED
    BY <1>a, <2>1 DEF QuestionsOfA, Letters, Shake!Next1
<1>d. \A e \in Cyphers : toB \o Handshake(e) \in Seq(QuestionsOfA) /\ Handshake(e) \in Seq(QuestionsOfA)
  BY <1>a, HandshakeIsAnAnswer
<1>e. ~b.sent => \A sent, e : toA \in Seq(AnswersOfB(sent, e))
  <2> SUFFICES ASSUME ~b.sent, NEW sent, NEW e
               PROVE  toA \in Seq(AnswersOfB(sent, e))
    OBVIOUS
  <2>1. b.sent = FALSE
    BY <1>0
  <2>2. toA \in Seq(AnswersOfB(FALSE, b.enc))
    BY <1>a, <2>1
  <2> QED
    BY <2>2, AnswersGrow
<1> HIDE DEF S
<1>1. CASE Shake!readYb
  <2>1. a' \in SidesIn(Shake!StatesOfA) /\ b' \in SidesIn(Shake!StatesOfB)
    <3>1. \/ a' = [a EXCEPT !.state = "AWAITING_HANDSHAKE", !.enc = Shake!NONE]
          \/ a' = [a EXCEPT !.state = "AWAITING_VC", !.enc = Shake!RC4, !.sent = TRUE]
      BY <1>1 DEF Shake!readYb
    <3>2. b' = b
      BY <1>1 DEF Shake!readYb
    <3>3. a' \in SidesIn(Shake!StatesOfA)
      BY <1>f, <1>g, <3>1 DEF SidesIn
    <3> QED
      BY <1>f, <3>2, <3>3
  <2>2. toA' \in Seq(AnswersOfB(b'.sent, b'.enc))
    <3>1. b'.sent = b.sent /\ b'.enc = b.enc
      BY <1>1 DEF Shake!readYb, ShakeTypes, SidesIn
    <3>2. toA' \in Seq(S)
      BY <1>a, <1>1 DEF Shake!readYb
    <3> QED
      BY <3>1, <3>2 DEF S
  <2>3. toB' \in Seq(QuestionsOfA)
    <3> DEFINE p == Shake!CryptoMsg("provide", Shake!getCryptoProvide(conf.A))
               c == Shake!Msg("pad C", Shake!RC4)
               i == Shake!Msg("IA", Shake!RC4)
    <3>1. toB' = toB \/ toB' = toB \o <<p, c, i>>
      BY <1>1 DEF Shake!readYb
    <3>2. {p, c, i} \subseteq QuestionsOfA
      BY SelectIsTyped, OthersAreAnswers
    <3> HIDE DEF p, c, i
    <3>3. <<p, c, i>> \in Seq(QuestionsOfA)
      BY <3>2
    <3>4. toB \in Seq(QuestionsOfA)
      BY <1>a
    <3>5. toB \o <<p, c, i>> \in Seq(QuestionsOfA)
      BY <3>3, <3>4
    <3> QED
      BY <3>1, <3>4, <3>5
  <2>4. ShakeTypes'
    BY <1>0, <1>1, <2>1, <2>2, <2>3 DEF Shake!readYb, ShakeTypes
  <2>5. BHasSent'
    BY <1>1 DEF Shake!readYb, ShakeTypes, SidesIn, BHasSent
  <2>6. AKnows'
    <3>1. \/ a' = [a EXCEPT !.state = "AWAITING_HANDSHAKE", !.enc = Shake!NONE]
          \/ a' = [a EXCEPT !.state = "AWAITING_VC", !.enc = Shake!RC4, !.sent = TRUE]
      BY <1>1 DEF Shake!readYb
    <3>2. a.result = "none"
      BY <1>1 DEF Shake!readYb
    <3>3. a'.state \in {"AWAITING_HANDSHAKE", "AWAITING_VC"} /\ a'.result = "none"
      BY <1>f, <3>1, <3>2 DEF SidesIn
    <3> QED
      BY <3>3 DEF AKnows
  <2>7. BKnows'
    BY <1>1 DEF Shake!readYb, ShakeTypes, SidesIn, BHasSent, BKnows, Shake!PlainIsWelcome
  <2> QED
    BY <2>4, <2>5, <2>6, <2>7
<1>2. CASE Shake!readVC
  <2>1. a' \in SidesIn(Shake!StatesOfA) /\ b' \in SidesIn(Shake!StatesOfB)
    BY <1>2 DEF Shake!readVC, ShakeTypes, SidesIn, Shake!StatesOfA, Shake!StatesOfB, Shake!Side
  <2>2. toA' \in Seq(AnswersOfB(b'.sent, b'.enc))
    <3>1. b'.sent = b.sent /\ b'.enc = b.enc
      BY <1>2 DEF Shake!readVC, ShakeTypes, SidesIn
    <3>2. toA' \in Seq(S)
      BY <1>a, <1>2 DEF Shake!readVC
    <3> QED
      BY <3>1, <3>2 DEF S
  <2>3. toB' \in Seq(QuestionsOfA)
    BY <1>a, <1>2 DEF Shake!readVC
  <2>4. ShakeTypes'
    BY <1>0, <1>2, <2>1, <2>2, <2>3 DEF Shake!readVC, ShakeTypes
  <2>5. BHasSent'
    BY <1>2 DEF Shake!readVC, ShakeTypes, SidesIn, BHasSent
  <2>6. AKnows'
    BY <1>2 DEF Shake!readVC, ShakeTypes, SidesIn, AKnows
  <2>7. BKnows'
    BY <1>2 DEF Shake!readVC, ShakeTypes, SidesIn, BHasSent, BKnows, Shake!PlainIsWelcome
  <2> QED
    BY <2>4, <2>5, <2>6, <2>7
<1>3. CASE Shake!readCryptoSelect
  <2>1. a' \in SidesIn(Shake!StatesOfA) /\ b' \in SidesIn(Shake!StatesOfB)
    <3>1. Shake!Next1(toA, a).crypto \in SUBSET Cyphers
      BY <1>b, <1>3 DEF Shake!readCryptoSelect
    <3> QED
      <4> DEFINE select == Shake!Next1(toA, a).crypto
      <4>1. /\ b' = b
            /\ \/ a' = [a EXCEPT !.result = "failed"]
               \/ a' = [a EXCEPT !.state = "AWAITING_PAD_D", !.crypto = select]
        BY <1>3 DEF Shake!readCryptoSelect
      <4>2. select \in SUBSET Cyphers
        BY <3>1
      <4> HIDE DEF select
      <4>3. a' \in SidesIn(Shake!StatesOfA)
        BY <1>f, <1>g, <4>1, <4>2 DEF SidesIn
      <4> QED
        BY <1>f, <4>1, <4>3
  <2>2. toA' \in Seq(AnswersOfB(b'.sent, b'.enc))
    <3>1. b'.sent = b.sent /\ b'.enc = b.enc
      BY <1>3 DEF Shake!readCryptoSelect, ShakeTypes, SidesIn
    <3>2. toA' \in Seq(S)
      BY <1>a, <1>3 DEF Shake!readCryptoSelect
    <3> QED
      BY <3>1, <3>2 DEF S
  <2>3. toB' \in Seq(QuestionsOfA)
    BY <1>a, <1>3 DEF Shake!readCryptoSelect
  <2>4. ShakeTypes'
    BY <1>0, <1>3, <2>1, <2>2, <2>3 DEF Shake!readCryptoSelect, ShakeTypes
  <2>5. BHasSent'
    BY <1>3 DEF Shake!readCryptoSelect, ShakeTypes, SidesIn, BHasSent
  <2>6. AKnows'
    BY <1>3 DEF Shake!readCryptoSelect, ShakeTypes, SidesIn, AKnows
  <2>7. BKnows'
    BY <1>3 DEF Shake!readCryptoSelect, ShakeTypes, SidesIn, BHasSent, BKnows, Shake!PlainIsWelcome
  <2> QED
    BY <2>4, <2>5, <2>6, <2>7
<1>4. CASE Shake!readPadD
  <2>1. a' \in SidesIn(Shake!StatesOfA) /\ b' \in SidesIn(Shake!StatesOfB)
    <3>1. (CHOOSE c \in a.crypto : TRUE) \in Cyphers
      BY <1>0, <1>4 DEF Shake!readPadD, AKnows
    <3> QED
      BY <1>4, <3>1 DEF Shake!readPadD, ShakeTypes, SidesIn, Shake!StatesOfA
  <2>2. toA' \in Seq(AnswersOfB(b'.sent, b'.enc))
    <3>1. b'.sent = b.sent /\ b'.enc = b.enc
      BY <1>4 DEF Shake!readPadD, ShakeTypes, SidesIn
    <3>2. toA' \in Seq(S)
      BY <1>a, <1>4 DEF Shake!readPadD
    <3> QED
      BY <3>1, <3>2 DEF S
  <2>3. toB' \in Seq(QuestionsOfA)
    BY <1>a, <1>4 DEF Shake!readPadD
  <2>4. ShakeTypes'
    BY <1>0, <1>4, <2>1, <2>2, <2>3 DEF Shake!readPadD, ShakeTypes
  <2>5. BHasSent'
    BY <1>4 DEF Shake!readPadD, ShakeTypes, SidesIn, BHasSent
  <2>6. AKnows'
    BY <1>4 DEF Shake!readPadD, ShakeTypes, SidesIn, AKnows
  <2>7. BKnows'
    BY <1>4 DEF Shake!readPadD, ShakeTypes, SidesIn, BHasSent, BKnows, Shake!PlainIsWelcome
  <2> QED
    BY <2>4, <2>5, <2>6, <2>7
<1>5. CASE Shake!readHandshakeA
  <2>1. a' \in SidesIn(Shake!StatesOfA) /\ b' \in SidesIn(Shake!StatesOfB)
    <3>1. /\ b' = b
          /\ \/ a' = [a EXCEPT !.result = "failed"]
             \/ \E e \in Cyphers : a' = [a EXCEPT !.state = "AWAITING_PEER_ID", !.enc = e, !.sent = TRUE]
      BY <1>5 DEF Shake!readHandshakeA
    <3>2. a' \in SidesIn(Shake!StatesOfA)
      BY <1>f, <1>g, <3>1 DEF SidesIn
    <3> QED
      BY <1>f, <3>1, <3>2
  <2>2. toA' \in Seq(AnswersOfB(b'.sent, b'.enc))
    <3>1. b'.sent = b.sent /\ b'.enc = b.enc
      BY <1>5 DEF Shake!readHandshakeA, ShakeTypes, SidesIn
    <3>2. toA' \in Seq(S)
      BY <1>a, <1>5 DEF Shake!readHandshakeA
    <3> QED
      BY <3>1, <3>2 DEF S
  <2>3. toB' \in Seq(QuestionsOfA)
    BY <1>0, <1>a, <1>d, <1>5 DEF Shake!readHandshakeA, Handshake
  <2>4. ShakeTypes'
    BY <1>0, <1>5, <2>1, <2>2, <2>3 DEF Shake!readHandshakeA, ShakeTypes
  <2>5. BHasSent'
    BY <1>5 DEF Shake!readHandshakeA, ShakeTypes, SidesIn, BHasSent
  <2>6. AKnows'
    <3>1. Head(toA).what = "handshake" => b.sent /\ Head(toA).enc = b.enc
      BY <1>a, <1>5 DEF S, AnswersOfB, Shake!readHandshakeA
    <3>2. /\ b' = b /\ conf' = conf /\ a.state = "AWAITING_HANDSHAKE" /\ a.result = "none"
          /\ \/ a' = [a EXCEPT !.result = "failed"]
             \/ \E e \in Cyphers :
                  /\ a' = [a EXCEPT !.state = "AWAITING_PEER_ID", !.enc = e, !.sent = TRUE]
                  /\ Head(toA).what = "handshake" /\ Head(toA).enc = e
                  /\ conf.A = Shake!TR_ENCRYPTION_REQUIRED => e = Shake!RC4
      BY <1>5 DEF Shake!readHandshakeA
    <3>3. CASE a' = [a EXCEPT !.result = "failed"]
      <4>1. a'.state = "AWAITING_HANDSHAKE" /\ a'.result = "failed"
        BY <1>f, <3>2, <3>3 DEF SidesIn
      <4> QED
        BY <4>1 DEF AKnows
    <3>4. ASSUME NEW e \in Cyphers, a' = [a EXCEPT !.state = "AWAITING_PEER_ID", !.enc = e, !.sent = TRUE],
                 Head(toA).what = "handshake", Head(toA).enc = e,
                 conf.A = Shake!TR_ENCRYPTION_REQUIRED => e = Shake!RC4
          PROVE  AKnows'
      <4>1. a'.state = "AWAITING_PEER_ID" /\ a'.result = "none" /\ a'.enc = e
        BY <1>f, <3>2, <3>4 DEF SidesIn
      <4> QED
        BY <3>1, <3>2, <3>4, <4>1 DEF AKnows
    <3> QED
      BY <3>2, <3>3, <3>4
  <2>7. BKnows'
    BY <1>5 DEF Shake!readHandshakeA, ShakeTypes, SidesIn, BHasSent, BKnows, Shake!PlainIsWelcome
  <2> QED
    BY <2>4, <2>5, <2>6, <2>7
<1>6. CASE Shake!readPeerIdA
  <2>1. a' \in SidesIn(Shake!StatesOfA) /\ b' \in SidesIn(Shake!StatesOfB)
    BY <1>6 DEF Shake!readPeerIdA, ShakeTypes, SidesIn, Shake!StatesOfA, Shake!StatesOfB, Shake!Side
  <2>2. toA' \in Seq(AnswersOfB(b'.sent, b'.enc))
    <3>1. b'.sent = b.sent /\ b'.enc = b.enc
      BY <1>6 DEF Shake!readPeerIdA, ShakeTypes, SidesIn
    <3>2. toA' \in Seq(S)
      BY <1>a, <1>6 DEF Shake!readPeerIdA
    <3> QED
      BY <3>1, <3>2 DEF S
  <2>3. toB' \in Seq(QuestionsOfA)
    BY <1>a, <1>6 DEF Shake!readPeerIdA
  <2>4. ShakeTypes'
    BY <1>0, <1>6, <2>1, <2>2, <2>3 DEF Shake!readPeerIdA, ShakeTypes
  <2>5. BHasSent'
    BY <1>6 DEF Shake!readPeerIdA, ShakeTypes, SidesIn, BHasSent
  <2>6. AKnows'
    BY <1>6 DEF Shake!readPeerIdA, ShakeTypes, SidesIn, AKnows
  <2>7. BKnows'
    BY <1>6 DEF Shake!readPeerIdA, ShakeTypes, SidesIn, BHasSent, BKnows, Shake!PlainIsWelcome
  <2> QED
    BY <2>4, <2>5, <2>6, <2>7
<1>7. CASE Shake!gotErrorA
  <2>1. a' \in SidesIn(Shake!StatesOfA) /\ b' \in SidesIn(Shake!StatesOfB)
    <3>1. \/ a' = [a EXCEPT !.result = "failed"]
          \/ a' = [a EXCEPT !.state = "AWAITING_HANDSHAKE", !.sent = TRUE]
      BY <1>7 DEF Shake!gotErrorA
    <3>2. b' = b \/ b' = Shake!Side("AWAITING_HANDSHAKE", Shake!NONE, FALSE)
      BY <1>7 DEF Shake!gotErrorA, Shake!Reconnect
    <3>3. a' \in SidesIn(Shake!StatesOfA)
      BY <3>1 DEF ShakeTypes, SidesIn, Shake!StatesOfA
    <3>4. b' \in SidesIn(Shake!StatesOfB)
      <4>1. Shake!Side("AWAITING_HANDSHAKE", Shake!NONE, FALSE) \in SidesIn(Shake!StatesOfB)
        BY DEF SidesIn, Shake!StatesOfB, Shake!Side
      <4>2. b \in SidesIn(Shake!StatesOfB)
        BY DEF ShakeTypes
      <4> QED
        BY <3>2, <4>1, <4>2
    <3> QED
      BY <3>3, <3>4
  <2>2. toA' \in Seq(AnswersOfB(b'.sent, b'.enc))
    <3>1. CASE toA' = <<>>
      BY <3>1
    <3>2. CASE toA' # <<>>
      <4>1. toA' = toA /\ b' = b
        BY <1>7, <3>2 DEF Shake!gotErrorA, Shake!Reconnect
      <4> QED
        BY <1>a, <4>1 DEF S
    <3> QED
      BY <3>1, <3>2
  <2>3. toB' \in Seq(QuestionsOfA)
    BY <1>0, <1>a, <1>d, <1>7 DEF Shake!gotErrorA, Handshake, Shake!Reconnect
  <2>4. ShakeTypes'
    <3>1. tries' \in 1 .. MaxConnections
      <4>1. tries' = tries \/ (tries < MaxConnections /\ tries' = tries + 1)
        BY <1>7 DEF Shake!gotErrorA, Shake!Reconnect
      <4>2. tries \in 1 .. MaxConnections
        BY DEF ShakeTypes
      <4> QED
        BY <4>1, <4>2, TriesAssumption
    <3>2. isOpen' \in BOOLEAN /\ conf' = conf
      BY <1>7 DEF Shake!gotErrorA, ShakeTypes
    <3> QED
      BY <2>1, <2>2, <2>3, <3>1, <3>2 DEF ShakeTypes
  <2>5. BHasSent'
    BY <1>7 DEF Shake!gotErrorA, ShakeTypes, SidesIn, BHasSent, Shake!Reconnect, Shake!Side
  <2>6. AKnows'
    BY <1>7 DEF Shake!gotErrorA, ShakeTypes, SidesIn, AKnows
  <2>7. BKnows'
    BY <1>7 DEF Shake!gotErrorA, ShakeTypes, SidesIn, BHasSent, BKnows, Shake!PlainIsWelcome,
       Shake!Reconnect, Shake!Side
  <2> QED
    BY <2>4, <2>5, <2>6, <2>7
<1>8. CASE Shake!TimeoutA
  <2>1. a' \in SidesIn(Shake!StatesOfA) /\ b' \in SidesIn(Shake!StatesOfB)
    BY <1>8 DEF Shake!TimeoutA, ShakeTypes, SidesIn, Shake!StatesOfA, Shake!StatesOfB, Shake!Side
  <2>2. toA' \in Seq(AnswersOfB(b'.sent, b'.enc))
    <3>1. b'.sent = b.sent /\ b'.enc = b.enc
      BY <1>8 DEF Shake!TimeoutA, ShakeTypes, SidesIn
    <3>2. toA' \in Seq(S)
      BY <1>a, <1>8 DEF Shake!TimeoutA
    <3> QED
      BY <3>1, <3>2 DEF S
  <2>3. toB' \in Seq(QuestionsOfA)
    BY <1>a, <1>8 DEF Shake!TimeoutA
  <2>4. ShakeTypes'
    BY <1>0, <1>8, <2>1, <2>2, <2>3 DEF Shake!TimeoutA, ShakeTypes
  <2>5. BHasSent'
    BY <1>8 DEF Shake!TimeoutA, ShakeTypes, SidesIn, BHasSent
  <2>6. AKnows'
    BY <1>8 DEF Shake!TimeoutA, ShakeTypes, SidesIn, AKnows
  <2>7. BKnows'
    BY <1>8 DEF Shake!TimeoutA, ShakeTypes, SidesIn, BHasSent, BKnows, Shake!PlainIsWelcome
  <2> QED
    BY <2>4, <2>5, <2>6, <2>7
<1>9. CASE Shake!readHandshakeB
  <2>1. a' \in SidesIn(Shake!StatesOfA) /\ b' \in SidesIn(Shake!StatesOfB)
    <3>1. /\ a' = a
          /\ \/ b' = [b EXCEPT !.result = "failed"]
             \/ b' = [b EXCEPT !.state = "AWAITING_PEER_ID", !.enc = Shake!NONE, !.sent = TRUE]
             \/ b' = [b EXCEPT !.state = "AWAITING_YA", !.enc = Shake!RC4]
      BY <1>9 DEF Shake!readHandshakeB
    <3>2. b' \in SidesIn(Shake!StatesOfB)
      <4>1. CASE b' = [b EXCEPT !.result = "failed"]
        BY <1>f, <1>g, <4>1 DEF SidesIn
      <4>2. CASE b' = [b EXCEPT !.state = "AWAITING_PEER_ID", !.enc = Shake!NONE, !.sent = TRUE]
        BY <1>f, <1>g, <4>2 DEF SidesIn
      <4>3. CASE b' = [b EXCEPT !.state = "AWAITING_YA", !.enc = Shake!RC4]
        BY <1>f, <1>g, <4>3 DEF SidesIn
      <4> QED
        BY <3>1, <4>1, <4>2, <4>3
    <3> QED
      BY <1>f, <3>1, <3>2
  <2>2. toA' \in Seq(AnswersOfB(b'.sent, b'.enc))
    <3>1. ~b.sent
      BY <1>9 DEF Shake!readHandshakeB, BHasSent
    <3>2. CASE UNCHANGED toA
      BY <1>e, <3>1, <3>2
    <3>3. CASE toA' # toA
      <4>1. b'.sent = TRUE /\ b'.enc = Shake!NONE /\ toA' = toA \o Handshake(Shake!NONE)
        BY <1>9, <3>3 DEF Shake!readHandshakeB, Handshake, ShakeTypes, SidesIn
      <4>2. toA \in Seq(AnswersOfB(TRUE, Shake!NONE)) /\ Handshake(Shake!NONE) \in Seq(AnswersOfB(TRUE, Shake!NONE))
        BY <1>e, <3>1, HandshakeIsAnAnswer
      <4>3. toA \o Handshake(Shake!NONE) \in Seq(AnswersOfB(TRUE, Shake!NONE))
        <5> DEFINE T == AnswersOfB(TRUE, Shake!NONE)
                   t == Handshake(Shake!NONE)
        <5>1. toA \in Seq(T) /\ t \in Seq(T)
          BY <4>2
        <5> HIDE DEF T, t
        <5>2. toA \o t \in Seq(T)
          BY <5>1
        <5> QED
          BY <5>2 DEF T, t
      <4> QED
        BY <4>1, <4>3
    <3> QED
      BY <3>2, <3>3
  <2>3. toB' \in Seq(QuestionsOfA)
    BY <1>a, <1>9 DEF Shake!readHandshakeB
  <2>4. ShakeTypes'
    BY <1>0, <1>9, <2>1, <2>2, <2>3 DEF Shake!readHandshakeB, ShakeTypes
  <2>5. BHasSent'
    <3>1. /\ b.state = "AWAITING_HANDSHAKE"
          /\ \/ b' = [b EXCEPT !.result = "failed"]
             \/ b' = [b EXCEPT !.state = "AWAITING_PEER_ID", !.enc = Shake!NONE, !.sent = TRUE]
             \/ b' = [b EXCEPT !.state = "AWAITING_YA", !.enc = Shake!RC4]
      BY <1>9 DEF Shake!readHandshakeB
    <3>2. ~b.sent
      BY <3>1 DEF BHasSent
    <3>3. b'.state = "AWAITING_PEER_ID" \/ b'.sent = b.sent
      BY <1>f, <3>1 DEF SidesIn
    <3> QED
      BY <3>2, <3>3 DEF BHasSent
  <2>6. AKnows'
    BY <1>9 DEF Shake!readHandshakeB, ShakeTypes, SidesIn, AKnows, BHasSent
  <2>7. BKnows'
    <3>1. /\ b.state = "AWAITING_HANDSHAKE" /\ b.result = "none" /\ conf' = conf
          /\ \/ b' = [b EXCEPT !.result = "failed"]
             \/ /\ b' = [b EXCEPT !.state = "AWAITING_PEER_ID", !.enc = Shake!NONE, !.sent = TRUE]
                /\ Shake!PlainIsWelcome
             \/ b' = [b EXCEPT !.state = "AWAITING_YA", !.enc = Shake!RC4]
      BY <1>9 DEF Shake!readHandshakeB
    <3>2. Shake!PlainIsWelcome' <=> Shake!PlainIsWelcome
      BY <3>1 DEF Shake!PlainIsWelcome
    <3>3. CASE b' = [b EXCEPT !.result = "failed"]
      <4>1. b'.state = "AWAITING_HANDSHAKE" /\ b'.result = "failed"
        BY <1>f, <3>1, <3>3 DEF SidesIn
      <4> QED
        BY <4>1 DEF BKnows
    <3>4. CASE b' = [b EXCEPT !.state = "AWAITING_PEER_ID", !.enc = Shake!NONE, !.sent = TRUE] /\ Shake!PlainIsWelcome
      <4>1. b'.state = "AWAITING_PEER_ID" /\ b'.sent /\ b'.result = "none"
        BY <1>f, <3>1, <3>4 DEF SidesIn
      <4> QED
        BY <3>2, <3>4, <4>1 DEF BKnows
    <3>5. CASE b' = [b EXCEPT !.state = "AWAITING_YA", !.enc = Shake!RC4]
      <4>1. b'.state = "AWAITING_YA" /\ b'.result = "none"
        BY <1>f, <3>1, <3>5 DEF SidesIn
      <4> QED
        BY <4>1 DEF BKnows
    <3> QED
      BY <3>1, <3>3, <3>4, <3>5
  <2> QED
    BY <2>4, <2>5, <2>6, <2>7
<1>10. CASE Shake!readYa
  <2>1. a' \in SidesIn(Shake!StatesOfA) /\ b' \in SidesIn(Shake!StatesOfB)
    BY <1>10 DEF Shake!readYa, ShakeTypes, SidesIn, Shake!StatesOfA, Shake!StatesOfB, Shake!Side
  <2>2. toA' \in Seq(AnswersOfB(b'.sent, b'.enc))
    <3>1. b'.sent = b.sent /\ b'.enc = b.enc
      BY <1>10 DEF Shake!readYa, ShakeTypes, SidesIn
    <3>2. toA' \in Seq(S)
      <4> DEFINE y == Shake!Msg("Yb", Shake!NONE)
                 p == Shake!Msg("pad B", Shake!NONE)
      <4>1. y \in S /\ p \in S /\ toA' = toA \o <<y, p>>
        BY <1>10, OthersAreAnswers DEF Shake!readYa, S
      <4> HIDE DEF y, p
      <4> QED
        BY <1>a, <4>1
    <3> QED
      BY <3>1, <3>2 DEF S
  <2>3. toB' \in Seq(QuestionsOfA)
    BY <1>a, <1>10 DEF Shake!readYa
  <2>4. ShakeTypes'
    BY <1>0, <1>10, <2>1, <2>2, <2>3 DEF Shake!readYa, ShakeTypes
  <2>5. BHasSent'
    BY <1>10 DEF Shake!readYa, ShakeTypes, SidesIn, BHasSent
  <2>6. AKnows'
    BY <1>10 DEF Shake!readYa, ShakeTypes, SidesIn, AKnows
  <2>7. BKnows'
    BY <1>10 DEF Shake!readYa, ShakeTypes, SidesIn, BHasSent, BKnows, Shake!PlainIsWelcome
  <2> QED
    BY <2>4, <2>5, <2>6, <2>7
<1>11. CASE Shake!readPadA
  <2>1. a' \in SidesIn(Shake!StatesOfA) /\ b' \in SidesIn(Shake!StatesOfB)
    BY <1>11 DEF Shake!readPadA, ShakeTypes, SidesIn, Shake!StatesOfA, Shake!StatesOfB, Shake!Side
  <2>2. toA' \in Seq(AnswersOfB(b'.sent, b'.enc))
    <3>1. b'.sent = b.sent /\ b'.enc = b.enc
      BY <1>11 DEF Shake!readPadA, ShakeTypes, SidesIn
    <3>2. toA' \in Seq(S)
      BY <1>a, <1>11 DEF Shake!readPadA
    <3> QED
      BY <3>1, <3>2 DEF S
  <2>3. toB' \in Seq(QuestionsOfA)
    BY <1>a, <1>11 DEF Shake!readPadA
  <2>4. ShakeTypes'
    BY <1>0, <1>11, <2>1, <2>2, <2>3 DEF Shake!readPadA, ShakeTypes
  <2>5. BHasSent'
    BY <1>11 DEF Shake!readPadA, ShakeTypes, SidesIn, BHasSent
  <2>6. AKnows'
    BY <1>11 DEF Shake!readPadA, ShakeTypes, SidesIn, AKnows
  <2>7. BKnows'
    BY <1>11 DEF Shake!readPadA, ShakeTypes, SidesIn, BHasSent, BKnows, Shake!PlainIsWelcome
  <2> QED
    BY <2>4, <2>5, <2>6, <2>7
<1>12. CASE Shake!readCryptoProvide
  <2>1. a' \in SidesIn(Shake!StatesOfA) /\ b' \in SidesIn(Shake!StatesOfB)
    <3>1. Shake!Next1(toB, b).crypto \in SUBSET Cyphers
      BY <1>c, <1>12 DEF Shake!readCryptoProvide
    <3> QED
      <4> DEFINE provide == Shake!Next1(toB, b).crypto
      <4>1. /\ a' = a
            /\ \/ b' = [b EXCEPT !.result = "failed"]
               \/ b' = [b EXCEPT !.state = "AWAITING_PAD_C", !.crypto = provide]
        BY <1>12 DEF Shake!readCryptoProvide
      <4>2. provide \in SUBSET Cyphers
        BY <3>1
      <4> HIDE DEF provide
      <4>3. b' \in SidesIn(Shake!StatesOfB)
        BY <1>f, <1>g, <4>1, <4>2 DEF SidesIn
      <4> QED
        BY <1>f, <4>1, <4>3
  <2>2. toA' \in Seq(AnswersOfB(b'.sent, b'.enc))
    <3>1. b'.sent = b.sent /\ b'.enc = b.enc
      BY <1>12 DEF Shake!readCryptoProvide, ShakeTypes, SidesIn
    <3>2. toA' \in Seq(S)
      BY <1>a, <1>12 DEF Shake!readCryptoProvide
    <3> QED
      BY <3>1, <3>2 DEF S
  <2>3. toB' \in Seq(QuestionsOfA)
    BY <1>a, <1>12 DEF Shake!readCryptoProvide
  <2>4. ShakeTypes'
    BY <1>0, <1>12, <2>1, <2>2, <2>3 DEF Shake!readCryptoProvide, ShakeTypes
  <2>5. BHasSent'
    BY <1>12 DEF Shake!readCryptoProvide, ShakeTypes, SidesIn, BHasSent
  <2>6. AKnows'
    BY <1>12 DEF Shake!readCryptoProvide, ShakeTypes, SidesIn, AKnows
  <2>7. BKnows'
    BY <1>12 DEF Shake!readCryptoProvide, ShakeTypes, SidesIn, BHasSent, BKnows, Shake!PlainIsWelcome
  <2> QED
    BY <2>4, <2>5, <2>6, <2>7
<1>13. CASE Shake!readPadC
  <2>1. a' \in SidesIn(Shake!StatesOfA) /\ b' \in SidesIn(Shake!StatesOfB)
    BY <1>13 DEF Shake!readPadC, ShakeTypes, SidesIn, Shake!StatesOfA, Shake!StatesOfB, Shake!Side
  <2>2. toA' \in Seq(AnswersOfB(b'.sent, b'.enc))
    <3>1. b'.sent = b.sent /\ b'.enc = b.enc
      BY <1>13 DEF Shake!readPadC, ShakeTypes, SidesIn
    <3>2. toA' \in Seq(S)
      BY <1>a, <1>13 DEF Shake!readPadC
    <3> QED
      BY <3>1, <3>2 DEF S
  <2>3. toB' \in Seq(QuestionsOfA)
    BY <1>a, <1>13 DEF Shake!readPadC
  <2>4. ShakeTypes'
    BY <1>0, <1>13, <2>1, <2>2, <2>3 DEF Shake!readPadC, ShakeTypes
  <2>5. BHasSent'
    BY <1>13 DEF Shake!readPadC, ShakeTypes, SidesIn, BHasSent
  <2>6. AKnows'
    BY <1>13 DEF Shake!readPadC, ShakeTypes, SidesIn, AKnows
  <2>7. BKnows'
    BY <1>13 DEF Shake!readPadC, ShakeTypes, SidesIn, BHasSent, BKnows, Shake!PlainIsWelcome
  <2> QED
    BY <2>4, <2>5, <2>6, <2>7
<1>14. CASE Shake!readIA
  <2> DEFINE select == Shake!getCryptoSelect(conf.B, b.crypto)
             e == CHOOSE c \in select : TRUE
             v == Shake!Msg("VC", Shake!RC4)
             letter == Shake!CryptoMsg("select", select)
  <2>a. select \in SUBSET Cyphers /\ (select # {} => e \in Cyphers)
    BY <1>0, SelectIsTyped
  <2>b. /\ b.state = "AWAITING_IA" /\ ~b.sent /\ b.result = "none"
        /\ UNCHANGED <<conf, a, toB, tries>>
        /\ \/ Shake!DoneB(FALSE) /\ UNCHANGED toA
           \/ /\ select # {}
              /\ toA' = toA \o <<v, letter>> \o Handshake(e)
              /\ b' = [b EXCEPT !.state = "AWAITING_PAYLOAD_STREAM", !.enc = e, !.sent = TRUE]
              /\ UNCHANGED isOpen
    BY <1>14 DEF Shake!readIA, BHasSent, Handshake
  <2>c. letter \in AnswersOfB(TRUE, e) /\ v \in AnswersOfB(TRUE, e)
    BY <2>a, OthersAreAnswers
  <2> HIDE DEF select, e, letter, v
  <2>1. a' \in SidesIn(Shake!StatesOfA) /\ b' \in SidesIn(Shake!StatesOfB)
    BY <2>a, <2>b DEF ShakeTypes, SidesIn, Shake!StatesOfB
  <2>2. toA' \in Seq(AnswersOfB(b'.sent, b'.enc))
    <3>1. CASE UNCHANGED toA
      BY <1>e, <2>b, <3>1
    <3>2. CASE toA' # toA
      <4>1. b'.sent = TRUE /\ b'.enc = e /\ e \in Cyphers /\ toA' = toA \o <<v, letter>> \o Handshake(e)
        BY <2>a, <2>b, <3>2 DEF ShakeTypes, SidesIn
      <4>2. toA \in Seq(AnswersOfB(TRUE, e)) /\ Handshake(e) \in Seq(AnswersOfB(TRUE, e))
        BY <1>e, <2>b, <4>1, HandshakeIsAnAnswer
      <4>3. toA \o <<v, letter>> \o Handshake(e) \in Seq(AnswersOfB(TRUE, e))
        <5> DEFINE T == AnswersOfB(TRUE, e)
                   t == Handshake(e)
        <5>1. toA \in Seq(T) /\ v \in T /\ letter \in T /\ t \in Seq(T)
          BY <2>c, <4>2
        <5> HIDE DEF T, t
        <5>2. toA \o <<v, letter>> \o t \in Seq(T)
          BY <5>1
        <5> QED
          BY <5>2 DEF T, t
      <4> QED
        BY <4>1, <4>3
    <3> QED
      BY <3>1, <3>2
  <2>3. toB' \in Seq(QuestionsOfA)
    BY <1>a, <2>b
  <2>4. ShakeTypes'
    BY <1>0, <2>1, <2>2, <2>3, <2>b DEF ShakeTypes
  <2>5. BHasSent'
    BY <2>b DEF ShakeTypes, SidesIn, BHasSent
  <2>6. AKnows'
    BY <2>b DEF ShakeTypes, SidesIn, AKnows
  <2>7. BKnows'
    BY <2>b DEF ShakeTypes, SidesIn, BHasSent, BKnows, Shake!PlainIsWelcome
  <2> QED
    BY <2>4, <2>5, <2>6, <2>7
<1>15. CASE Shake!readPayloadStream
  <2>1. a' \in SidesIn(Shake!StatesOfA) /\ b' \in SidesIn(Shake!StatesOfB)
    BY <1>15 DEF Shake!readPayloadStream, ShakeTypes, SidesIn, Shake!StatesOfA, Shake!StatesOfB, Shake!Side
  <2>2. toA' \in Seq(AnswersOfB(b'.sent, b'.enc))
    <3>1. b'.sent = b.sent /\ b'.enc = b.enc
      BY <1>15 DEF Shake!readPayloadStream, ShakeTypes, SidesIn
    <3>2. toA' \in Seq(S)
      BY <1>a, <1>15 DEF Shake!readPayloadStream
    <3> QED
      BY <3>1, <3>2 DEF S
  <2>3. toB' \in Seq(QuestionsOfA)
    BY <1>a, <1>15 DEF Shake!readPayloadStream
  <2>4. ShakeTypes'
    BY <1>0, <1>15, <2>1, <2>2, <2>3 DEF Shake!readPayloadStream, ShakeTypes
  <2>5. BHasSent'
    BY <1>15 DEF Shake!readPayloadStream, ShakeTypes, SidesIn, BHasSent
  <2>6. AKnows'
    BY <1>15 DEF Shake!readPayloadStream, ShakeTypes, SidesIn, AKnows
  <2>7. BKnows'
    <3>1. Shake!Next1(toB, b).what = "IA" => b.enc = Shake!RC4
      <4>1. Head(toB).what = "IA" => Head(toB).enc = Shake!RC4
        BY <1>a, <1>15 DEF Shake!readPayloadStream, QuestionsOfA
      <4>2. Shake!Msg("rubbish", Shake!RC4).what # "IA"
        BY DEF Shake!Msg
      <4> QED
        BY <4>1, <4>2 DEF Shake!Next1
    <3>2. b' = [b EXCEPT !.result = "ok"] => conf.known /\ ~conf.self /\ b.enc = Shake!RC4
      <4>1. b.result # "ok" /\ b \in SidesIn(Shake!StatesOfB)
        BY <1>15 DEF Shake!readPayloadStream, ShakeTypes
      <4> QED
        BY <1>15, <3>1, <4>1 DEF Shake!readPayloadStream, SidesIn
    <3>3. b' = [b EXCEPT !.result = "ok"] \/ b' = [b EXCEPT !.result = "failed"]
      BY <1>15 DEF Shake!readPayloadStream
    <3> QED
      BY <1>15, <3>2, <3>3 DEF Shake!readPayloadStream, ShakeTypes, SidesIn, BHasSent, BKnows, Shake!PlainIsWelcome
  <2> QED
    BY <2>4, <2>5, <2>6, <2>7
<1>16. CASE Shake!readPeerIdB
  <2>1. a' \in SidesIn(Shake!StatesOfA) /\ b' \in SidesIn(Shake!StatesOfB)
    BY <1>16 DEF Shake!readPeerIdB, ShakeTypes, SidesIn, Shake!StatesOfA, Shake!StatesOfB, Shake!Side
  <2>2. toA' \in Seq(AnswersOfB(b'.sent, b'.enc))
    <3>1. b'.sent = b.sent /\ b'.enc = b.enc
      BY <1>16 DEF Shake!readPeerIdB, ShakeTypes, SidesIn
    <3>2. toA' \in Seq(S)
      BY <1>a, <1>16 DEF Shake!readPeerIdB
    <3> QED
      BY <3>1, <3>2 DEF S
  <2>3. toB' \in Seq(QuestionsOfA)
    BY <1>a, <1>16 DEF Shake!readPeerIdB
  <2>4. ShakeTypes'
    BY <1>0, <1>16, <2>1, <2>2, <2>3 DEF Shake!readPeerIdB, ShakeTypes
  <2>5. BHasSent'
    BY <1>16 DEF Shake!readPeerIdB, ShakeTypes, SidesIn, BHasSent
  <2>6. AKnows'
    BY <1>16 DEF Shake!readPeerIdB, ShakeTypes, SidesIn, AKnows
  <2>7. BKnows'
    BY <1>16 DEF Shake!readPeerIdB, ShakeTypes, SidesIn, BHasSent, BKnows, Shake!PlainIsWelcome
  <2> QED
    BY <2>4, <2>5, <2>6, <2>7
<1>17. CASE Shake!gotErrorB
  <2>1. a' \in SidesIn(Shake!StatesOfA) /\ b' \in SidesIn(Shake!StatesOfB)
    BY <1>17 DEF Shake!gotErrorB, ShakeTypes, SidesIn, Shake!StatesOfA, Shake!StatesOfB, Shake!Side
  <2>2. toA' \in Seq(AnswersOfB(b'.sent, b'.enc))
    <3>1. b'.sent = b.sent /\ b'.enc = b.enc
      BY <1>17 DEF Shake!gotErrorB, ShakeTypes, SidesIn
    <3>2. toA' \in Seq(S)
      BY <1>a, <1>17 DEF Shake!gotErrorB
    <3> QED
      BY <3>1, <3>2 DEF S
  <2>3. toB' \in Seq(QuestionsOfA)
    BY <1>a, <1>17 DEF Shake!gotErrorB
  <2>4. ShakeTypes'
    BY <1>0, <1>17, <2>1, <2>2, <2>3 DEF Shake!gotErrorB, ShakeTypes
  <2>5. BHasSent'
    BY <1>17 DEF Shake!gotErrorB, ShakeTypes, SidesIn, BHasSent
  <2>6. AKnows'
    BY <1>17 DEF Shake!gotErrorB, ShakeTypes, SidesIn, AKnows
  <2>7. BKnows'
    BY <1>17 DEF Shake!gotErrorB, ShakeTypes, SidesIn, BHasSent, BKnows, Shake!PlainIsWelcome
  <2> QED
    BY <2>4, <2>5, <2>6, <2>7
<1>18. CASE Shake!TimeoutB
  <2>1. a' \in SidesIn(Shake!StatesOfA) /\ b' \in SidesIn(Shake!StatesOfB)
    BY <1>18 DEF Shake!TimeoutB, ShakeTypes, SidesIn, Shake!StatesOfA, Shake!StatesOfB, Shake!Side
  <2>2. toA' \in Seq(AnswersOfB(b'.sent, b'.enc))
    <3>1. b'.sent = b.sent /\ b'.enc = b.enc
      BY <1>18 DEF Shake!TimeoutB, ShakeTypes, SidesIn
    <3>2. toA' \in Seq(S)
      BY <1>a, <1>18 DEF Shake!TimeoutB
    <3> QED
      BY <3>1, <3>2 DEF S
  <2>3. toB' \in Seq(QuestionsOfA)
    BY <1>a, <1>18 DEF Shake!TimeoutB
  <2>4. ShakeTypes'
    BY <1>0, <1>18, <2>1, <2>2, <2>3 DEF Shake!TimeoutB, ShakeTypes
  <2>5. BHasSent'
    BY <1>18 DEF Shake!TimeoutB, ShakeTypes, SidesIn, BHasSent
  <2>6. AKnows'
    BY <1>18 DEF Shake!TimeoutB, ShakeTypes, SidesIn, AKnows
  <2>7. BKnows'
    BY <1>18 DEF Shake!TimeoutB, ShakeTypes, SidesIn, BHasSent, BKnows, Shake!PlainIsWelcome
  <2> QED
    BY <2>4, <2>5, <2>6, <2>7
<1>19. CASE Shake!NetworkFails
  <2>1. a' \in SidesIn(Shake!StatesOfA) /\ b' \in SidesIn(Shake!StatesOfB)
    BY <1>19 DEF Shake!NetworkFails, ShakeTypes, SidesIn, Shake!StatesOfA, Shake!StatesOfB, Shake!Side
  <2>2. toA' \in Seq(AnswersOfB(b'.sent, b'.enc))
    <3>1. b'.sent = b.sent /\ b'.enc = b.enc
      BY <1>19 DEF Shake!NetworkFails, ShakeTypes, SidesIn
    <3>2. toA' \in Seq(S)
      BY <1>a, <1>19 DEF Shake!NetworkFails
    <3> QED
      BY <3>1, <3>2 DEF S
  <2>3. toB' \in Seq(QuestionsOfA)
    BY <1>a, <1>19 DEF Shake!NetworkFails
  <2>4. ShakeTypes'
    BY <1>0, <1>19, <2>1, <2>2, <2>3 DEF Shake!NetworkFails, ShakeTypes
  <2>5. BHasSent'
    BY <1>19 DEF Shake!NetworkFails, ShakeTypes, SidesIn, BHasSent
  <2>6. AKnows'
    BY <1>19 DEF Shake!NetworkFails, ShakeTypes, SidesIn, AKnows
  <2>7. BKnows'
    BY <1>19 DEF Shake!NetworkFails, ShakeTypes, SidesIn, BHasSent, BKnows, Shake!PlainIsWelcome
  <2> QED
    BY <2>4, <2>5, <2>6, <2>7
<1> QED
  BY <1>1, <1>2, <1>3, <1>4, <1>5, <1>6, <1>7, <1>8, <1>9, <1>10, <1>11,
     <1>12, <1>13, <1>14, <1>15, <1>16, <1>17, <1>18, <1>19 DEF Shake!Next

\* The heads and the tails of a plain handshake, so that no step below looks into a queue.
LEMMA Queues ==
  ASSUME NEW e
  PROVE  /\ Handshake(e) # <<>> /\ Head(Handshake(e)).what = "handshake" /\ Head(Handshake(e)).enc = e
         /\ Tail(Handshake(e)) = PeerId(e) /\ <<>> \o Handshake(e) = Handshake(e)
         /\ Shake!BitTorrentHandshake(e) = Handshake(e)
         /\ PeerId(e) # <<>> /\ Head(PeerId(e)).what = "peer id" /\ Head(PeerId(e)).enc = e
         /\ Tail(PeerId(e)) = <<>>
<1> DEFINE x == Shake!Msg("handshake", e)
           y == Shake!Msg("peer id", e)
<1>1. x.what = "handshake" /\ x.enc = e /\ y.what = "peer id" /\ y.enc = e
  BY DEF Shake!Msg
<1>2. Handshake(e) = <<x, y>> /\ PeerId(e) = <<y>> /\ Shake!BitTorrentHandshake(e) = Handshake(e)
  BY DEF Handshake, PeerId, Shake!BitTorrentHandshake
<1> HIDE DEF x, y
<1>3. /\ <<x, y>> # <<>> /\ Head(<<x, y>>) = x /\ Tail(<<x, y>>) = <<y>> /\ <<>> \o <<x, y>> = <<x, y>>
      /\ <<y>> # <<>> /\ Head(<<y>>) = y /\ Tail(<<y>>) = <<>>
  OBVIOUS
<1> QED
  BY <1>1, <1>2, <1>3

\* What is on its way of a sequence that is read and written in order.
LEMMA OnItsWay ==
  ASSUME NEW T, NEW s \in Seq(T), NEW n \in 0 .. Len(s), NEW i \in 0 .. n
  PROVE  /\ SubSeq(s, i + 1, n) = <<>> <=> i = n
         /\ i < n => /\ Head(SubSeq(s, i + 1, n)) = s[i + 1]
                     /\ Tail(SubSeq(s, i + 1, n)) = SubSeq(s, (i + 1) + 1, n)
         /\ \A m \in n .. Len(s) : SubSeq(s, i + 1, n) \o SubSeq(s, n + 1, m) = SubSeq(s, i + 1, m)
<1> DEFINE w == SubSeq(s, i + 1, n)
<1>1. Len(s) \in Nat /\ n \in Nat /\ i \in Nat /\ i <= n /\ n <= Len(s)
  OBVIOUS
<1>2. w \in Seq(T) /\ Len(w) = n - i /\ \A k \in 1 .. n - i : w[k] = s[i + k]
  BY <1>1
<1>3. w = <<>> <=> i = n
  BY <1>1, <1>2
<1>4. ASSUME i < n
      PROVE  Head(w) = s[i + 1] /\ Tail(w) = SubSeq(s, (i + 1) + 1, n)
  <2> DEFINE v == SubSeq(s, (i + 1) + 1, n)
  <2>1. v \in Seq(T) /\ Len(v) = n - i - 1 /\ \A k \in 1 .. n - i - 1 : v[k] = s[i + 1 + k]
    BY <1>1, <1>4
  <2>2. Tail(w) \in Seq(T) /\ Len(Tail(w)) = n - i - 1 /\ \A k \in 1 .. n - i - 1 : Tail(w)[k] = w[k + 1]
    BY <1>1, <1>2, <1>3, <1>4
  <2>3. \A k \in 1 .. n - i - 1 : w[k + 1] = s[i + 1 + k]
    BY <1>1, <1>2
  <2> HIDE DEF v, w
  <2>4. Tail(w) = v
    BY <2>1, <2>2, <2>3
  <2>5. Head(w) = s[i + 1]
    BY <1>1, <1>2, <1>4
  <2> QED
    BY <2>4, <2>5 DEF v
<1>5. ASSUME NEW m \in n .. Len(s)
      PROVE  w \o SubSeq(s, n + 1, m) = SubSeq(s, i + 1, m)
  <2> DEFINE u == SubSeq(s, n + 1, m)
             v == SubSeq(s, i + 1, m)
             x == w \o u
  <2>1. u \in Seq(T) /\ Len(u) = m - n /\ \A k \in 1 .. m - n : u[k] = s[n + k]
    BY <1>1, <1>5
  <2>2. v \in Seq(T) /\ Len(v) = m - i /\ \A k \in 1 .. m - i : v[k] = s[i + k]
    BY <1>1, <1>5
  <2> HIDE DEF u, v, w
  <2>3. /\ x \in Seq(T) /\ Len(x) = Len(w) + Len(u)
        /\ \A k \in 1 .. Len(w) + Len(u) : x[k] = IF k <= Len(w) THEN w[k] ELSE u[k - Len(w)]
    <3>1. w \in Seq(T) /\ u \in Seq(T)
      BY <1>2, <2>1
    <3> QED
      BY <3>1
  <2> HIDE DEF x
  <2>4. ASSUME NEW k \in 1 .. m - i
        PROVE  x[k] = v[k]
    <3>1. CASE k <= n - i
      BY <1>1, <1>2, <1>5, <2>1, <2>2, <2>3, <2>4, <3>1
    <3>2. CASE k > n - i
      <4>1. x[k] = u[k - (n - i)]
        BY <1>1, <1>2, <1>5, <2>1, <2>3, <2>4, <3>2
      <4> QED
        <5>1. k - (n - i) \in 1 .. m - n /\ n + (k - (n - i)) = i + k
          BY <1>1, <1>5, <2>4, <3>2
        <5>2. u[k - (n - i)] = s[n + (k - (n - i))]
          BY <2>1, <5>1
        <5> QED
          BY <2>2, <2>4, <4>1, <5>1, <5>2
    <3> QED
      BY <1>1, <3>1, <3>2
  <2>5. Len(x) = m - i
    BY <1>1, <1>2, <1>5, <2>1, <2>3
  <2>6. x = v
    BY <2>2, <2>3, <2>4, <2>5
  <2> QED
    BY <2>6 DEF u, v, w, x
<1> QED
  BY <1>3, <1>4, <1>5

LEMMA TwoInARow ==
  ASSUME NEW T, NEW s \in Seq(T), NEW i \in 1 .. Len(s), i + 1 <= Len(s)
  PROVE  SubSeq(s, i, i + 1) = <<s[i], s[i + 1]>>
<1> DEFINE v == SubSeq(s, i, i + 1)
<1>1. Len(s) \in Nat /\ s[i] \in T /\ s[i + 1] \in T
  OBVIOUS
<1>2. v \in Seq(T) /\ Len(v) = 2 /\ v[1] = s[i] /\ v[2] = s[i + 1]
  BY <1>1
<1> HIDE DEF v
<1>3. v = <<s[i], s[i + 1]>>
  BY <1>1, <1>2
<1> QED
  BY <1>3 DEF v

LEMMA ThreeInARow ==
  ASSUME NEW T, NEW s \in Seq(T), NEW i \in 1 .. Len(s), i + 2 <= Len(s)
  PROVE  SubSeq(s, i, i + 2) = <<s[i], s[i + 1], s[i + 2]>>
<1> DEFINE v == SubSeq(s, i, i + 2)
<1>1. Len(s) \in Nat /\ s[i] \in T /\ s[i + 1] \in T /\ s[i + 2] \in T
  OBVIOUS
<1>2. v \in Seq(T) /\ Len(v) = 3 /\ v[1] = s[i] /\ v[2] = s[i + 1] /\ v[3] = s[i + 2]
  BY <1>1
<1> HIDE DEF v
<1>3. v = <<s[i], s[i + 1], s[i + 2]>>
  BY <1>1, <1>2
<1> QED
  BY <1>3 DEF v

LEMMA StreamsAreSent ==
  /\ StreamOfA \in Seq(Letters) /\ Len(StreamOfA) = 5
  /\ StreamOfB \in Seq(Letters) /\ Len(StreamOfB) = 6
<1> DEFINE a1 == Shake!Msg("Ya", Shake!NONE)
           a2 == Shake!Msg("pad A", Shake!NONE)
           a3 == Shake!CryptoMsg("provide", {Shake!RC4})
           a4 == Shake!Msg("pad C", Shake!RC4)
           a5 == Shake!Msg("IA", Shake!RC4)
           b1 == Shake!Msg("Yb", Shake!NONE)
           b2 == Shake!Msg("pad B", Shake!NONE)
           b3 == Shake!Msg("VC", Shake!RC4)
           b4 == Shake!CryptoMsg("select", {Shake!RC4})
           b5 == Shake!Msg("handshake", Shake!RC4)
           b6 == Shake!Msg("peer id", Shake!RC4)
<1>1. /\ {a1, a2, a3, a4, a5} \subseteq Letters
      /\ {b1, b2, b3, b4, b5, b6} \subseteq Letters
  BY DEF Shake!Msg, Shake!CryptoMsg, Letters, Cyphers
<1>2. StreamOfA = <<a1, a2, a3, a4, a5>> /\ StreamOfB = <<b1, b2, b3, b4, b5, b6>>
  BY DEF StreamOfA, StreamOfB
<1> HIDE DEF a1, a2, a3, a4, a5, b1, b2, b3, b4, b5, b6
<1> QED
  BY <1>1, <1>2

LEMMA StreamsSay ==
  /\ StreamOfA[1].what = "Ya" /\ StreamOfA[2].what = "pad A"
  /\ StreamOfA[3].what = "provide" /\ StreamOfA[3].enc = Shake!RC4 /\ StreamOfA[3].crypto = {Shake!RC4}
  /\ StreamOfA[5].what = "IA" /\ StreamOfA[5].enc = Shake!RC4
  /\ StreamOfB[1].what = "Yb" /\ StreamOfB[2].enc = Shake!NONE
  /\ StreamOfB[3].what = "VC" /\ StreamOfB[3].enc = Shake!RC4
  /\ StreamOfB[4].enc = Shake!RC4 /\ StreamOfB[4].crypto = {Shake!RC4}
  /\ StreamOfB[5].what = "handshake" /\ StreamOfB[5].enc = Shake!RC4
  /\ StreamOfB[6].what = "peer id" /\ StreamOfB[6].enc = Shake!RC4
BY DEF StreamOfA, StreamOfB, Shake!Msg, Shake!CryptoMsg

\* What each side sends at a time.
LEMMA StreamsInParts ==
  /\ SubSeq(StreamOfA, 1, 2) = KeyOfA
  /\ SubSeq(StreamOfA, 3, 5) = <<Shake!CryptoMsg("provide", {Shake!RC4}), Shake!Msg("pad C", Shake!RC4),
                                 Shake!Msg("IA", Shake!RC4)>>
  /\ SubSeq(StreamOfB, 1, 2) = <<Shake!Msg("Yb", Shake!NONE), Shake!Msg("pad B", Shake!NONE)>>
  /\ SubSeq(StreamOfB, 3, 6) = <<Shake!Msg("VC", Shake!RC4), Shake!CryptoMsg("select", {Shake!RC4})>>
                                 \o Shake!BitTorrentHandshake(Shake!RC4)
<1> DEFINE s == StreamOfA
           t == StreamOfB
<1>1. /\ s[1] = Shake!Msg("Ya", Shake!NONE) /\ s[2] = Shake!Msg("pad A", Shake!NONE)
      /\ s[3] = Shake!CryptoMsg("provide", {Shake!RC4}) /\ s[4] = Shake!Msg("pad C", Shake!RC4)
      /\ s[5] = Shake!Msg("IA", Shake!RC4)
  BY DEF StreamOfA
<1>2. /\ t[1] = Shake!Msg("Yb", Shake!NONE) /\ t[2] = Shake!Msg("pad B", Shake!NONE)
      /\ t[3] = Shake!Msg("VC", Shake!RC4) /\ t[4] = Shake!CryptoMsg("select", {Shake!RC4})
      /\ t[5] = Shake!Msg("handshake", Shake!RC4) /\ t[6] = Shake!Msg("peer id", Shake!RC4)
  BY DEF StreamOfB
<1>3. s \in Seq(Letters) /\ Len(s) = 5 /\ t \in Seq(Letters) /\ Len(t) = 6
  BY StreamsAreSent
<1> HIDE DEF s, t
<1>4. SubSeq(s, 1, 1 + 1) = <<s[1], s[1 + 1]>>
  <2>1. 1 \in 1 .. Len(s) /\ 1 + 1 <= Len(s)
    BY <1>3
  <2> QED
    BY <1>3, <2>1, TwoInARow
<1>5. SubSeq(s, 3, 3 + 2) = <<s[3], s[3 + 1], s[3 + 2]>>
  BY <1>3, ThreeInARow
<1>6. SubSeq(t, 1, 1 + 1) = <<t[1], t[1 + 1]>>
  BY <1>3, TwoInARow
<1>7. SubSeq(t, 3, 3 + 1) = <<t[3], t[3 + 1]>> /\ SubSeq(t, 5, 5 + 1) = <<t[5], t[5 + 1]>>
  <2>1. 3 \in 1 .. Len(t) /\ 3 + 1 <= Len(t) /\ 5 \in 1 .. Len(t) /\ 5 + 1 <= Len(t)
    BY <1>3
  <2>2. SubSeq(t, 3, 3 + 1) = <<t[3], t[3 + 1]>>
    BY <1>3, <2>1, TwoInARow
  <2>3. SubSeq(t, 5, 5 + 1) = <<t[5], t[5 + 1]>>
    BY <1>3, <2>1, TwoInARow
  <2> QED
    BY <2>2, <2>3
<1>8. SubSeq(t, 2 + 1, 4) \o SubSeq(t, 4 + 1, 6) = SubSeq(t, 2 + 1, 6)
  BY <1>3, OnItsWay
<1>9. /\ 1 + 1 = 2 /\ 3 + 1 = 4 /\ 3 + 2 = 5 /\ 5 + 1 = 6 /\ 2 + 1 = 3 /\ 4 + 1 = 5
  OBVIOUS
<1>10. /\ SubSeq(s, 1, 2) = <<s[1], s[2]>> /\ SubSeq(s, 3, 5) = <<s[3], s[4], s[5]>>
       /\ SubSeq(t, 1, 2) = <<t[1], t[2]>> /\ SubSeq(t, 3, 6) = <<t[3], t[4]>> \o <<t[5], t[6]>>
  BY <1>4, <1>5, <1>6, <1>7, <1>8, <1>9
<1> QED
  BY <1>1, <1>2, <1>10 DEF KeyOfA, Shake!BitTorrentHandshake, s, t

\* What is next for each side, when they are between.
LEMMA NextToRead ==
  ASSUME NEW i \in 0 .. 6, NEW j \in 0 .. 5, Between(i, j)
  PROVE  /\ SentByA \in {2, 5} /\ SentByB \in {0, 2, 6}
         /\ toA = <<>> <=> i = SentByB
         /\ toA # <<>> => /\ i < SentByB /\ Head(toA) = StreamOfB[i + 1]
                          /\ Tail(toA) = SubSeq(StreamOfB, (i + 1) + 1, SentByB)
         /\ toB = <<>> <=> j = SentByA
         /\ toB # <<>> => /\ j < SentByA /\ Head(toB) = StreamOfA[j + 1]
                          /\ Tail(toB) = SubSeq(StreamOfA, (j + 1) + 1, SentByA)
<1>1. SentByA \in {2, 5} /\ SentByB \in {0, 2, 6}
  BY DEF SentByA, SentByB
<1>2. /\ toA = SubSeq(StreamOfB, i + 1, SentByB) /\ i \in 0 .. SentByB
      /\ toB = SubSeq(StreamOfA, j + 1, SentByA) /\ j \in 0 .. SentByA
  BY <1>1 DEF Between
<1> HIDE DEF SentByA, SentByB
<1>3. SentByA \in 0 .. Len(StreamOfA) /\ SentByB \in 0 .. Len(StreamOfB)
  BY <1>1, StreamsAreSent
<1>4. /\ toA = <<>> <=> i = SentByB
      /\ i < SentByB => /\ Head(toA) = StreamOfB[i + 1]
                        /\ Tail(toA) = SubSeq(StreamOfB, (i + 1) + 1, SentByB)
  <2> DEFINE s == StreamOfB
             n == SentByB
  <2>1. s \in Seq(Letters) /\ n \in 0 .. Len(s) /\ i \in 0 .. n
    BY <1>2, <1>3, StreamsAreSent
  <2>2. toA = SubSeq(s, i + 1, n)
    BY <1>2
  <2> HIDE DEF s, n
  <2>3. /\ SubSeq(s, i + 1, n) = <<>> <=> i = n
        /\ i < n => /\ Head(SubSeq(s, i + 1, n)) = s[i + 1]
                    /\ Tail(SubSeq(s, i + 1, n)) = SubSeq(s, (i + 1) + 1, n)
    BY <2>1, OnItsWay
  <2> QED
    BY <2>2, <2>3 DEF s, n
<1>5. /\ toB = <<>> <=> j = SentByA
      /\ j < SentByA => /\ Head(toB) = StreamOfA[j + 1]
                        /\ Tail(toB) = SubSeq(StreamOfA, (j + 1) + 1, SentByA)
  <2> DEFINE s == StreamOfA
             n == SentByA
  <2>1. s \in Seq(Letters) /\ n \in 0 .. Len(s) /\ j \in 0 .. n
    BY <1>2, <1>3, StreamsAreSent
  <2>2. toB = SubSeq(s, j + 1, n)
    BY <1>2
  <2> HIDE DEF s, n
  <2>3. /\ SubSeq(s, j + 1, n) = <<>> <=> j = n
        /\ j < n => /\ Head(SubSeq(s, j + 1, n)) = s[j + 1]
                    /\ Tail(SubSeq(s, j + 1, n)) = SubSeq(s, (j + 1) + 1, n)
    BY <2>1, OnItsWay
  <2> QED
    BY <2>2, <2>3 DEF s, n
<1>6. (toA # <<>> => i < SentByB) /\ (toB # <<>> => j < SentByA)
  <2>1. SentByA \in Nat /\ SentByB \in Nat
    BY <1>1
  <2>2. i \in Nat /\ i <= SentByB /\ j \in Nat /\ j <= SentByA
    BY <1>2, <2>1
  <2>3. (toA # <<>> => i # SentByB) /\ (toB # <<>> => j # SentByA)
    BY <1>4, <1>5
  <2> QED
    BY <2>1, <2>2, <2>3
<1> QED
  BY <1>1, <1>4, <1>5, <1>6, Zenon

LEMMA WhatIsNext ==
  ASSUME NEW i \in 0 .. 6, NEW j \in 0 .. 5, Between(i, j)
  PROVE  /\ toA # <<>> => /\ i = 0 => Head(toA).what = "Yb"
                          /\ i = 1 => Head(toA).enc = Shake!NONE
                          /\ i = 2 => Head(toA).what = "VC" /\ Head(toA).enc = Shake!RC4
                          /\ i = 3 => Head(toA).enc = Shake!RC4 /\ Head(toA).crypto = {Shake!RC4}
                          /\ i = 4 => Head(toA).what = "handshake" /\ Head(toA).enc = Shake!RC4
                          /\ i = 5 => Head(toA).what = "peer id" /\ Head(toA).enc = Shake!RC4
         /\ toB # <<>> => /\ j = 0 => Head(toB).what = "Ya"
                          /\ j = 1 => Head(toB).what = "pad A"
                          /\ j = 2 => /\ Head(toB).what = "provide" /\ Head(toB).enc = Shake!RC4
                                      /\ Head(toB).crypto = {Shake!RC4}
                          /\ j = 4 => Head(toB).what = "IA" /\ Head(toB).enc = Shake!RC4
<1>1. /\ toA # <<>> => Head(toA) = StreamOfB[i + 1]
      /\ toB # <<>> => Head(toB) = StreamOfA[j + 1]
  BY NextToRead
<1>2. 0 + 1 = 1 /\ 1 + 1 = 2 /\ 2 + 1 = 3 /\ 3 + 1 = 4 /\ 4 + 1 = 5 /\ 5 + 1 = 6
  OBVIOUS
<1>3. ASSUME toA # <<>>
      PROVE  /\ i = 0 => Head(toA) = StreamOfB[1]
             /\ i = 1 => Head(toA) = StreamOfB[2]
             /\ i = 2 => Head(toA) = StreamOfB[3]
             /\ i = 3 => Head(toA) = StreamOfB[4]
             /\ i = 4 => Head(toA) = StreamOfB[5]
             /\ i = 5 => Head(toA) = StreamOfB[6]
  BY <1>1, <1>2, <1>3, Zenon
<1>4. ASSUME toB # <<>>
      PROVE  /\ j = 0 => Head(toB) = StreamOfA[1]
             /\ j = 1 => Head(toB) = StreamOfA[2]
             /\ j = 2 => Head(toB) = StreamOfA[3]
             /\ j = 4 => Head(toB) = StreamOfA[5]
  BY <1>1, <1>2, <1>4, Zenon
<1> QED
  BY <1>3, <1>4, StreamsSay

\* One side reads on.
LEMMA AReadsOn ==
  ASSUME NEW i \in 0 .. 6, NEW j \in 0 .. 5, Between(i, j), toA # <<>>, toA' = Tail(toA), UNCHANGED <<b, toB>>,
         a'.sent = a.sent, AHasRead(i + 1)'
  PROVE  Between(i + 1, j)' /\ i + 1 \in 0 .. 6
<1>1. /\ i < SentByB /\ SentByB \in {0, 2, 6}
      /\ toA' = SubSeq(StreamOfB, (i + 1) + 1, SentByB)
  BY NextToRead
<1>2. SentByA' = SentByA /\ SentByB' = SentByB
  BY DEF SentByA, SentByB
<1>3. BHasRead(j)' /\ j <= SentByA /\ toB' = SubSeq(StreamOfA, j + 1, SentByA)
  BY DEF Between, BHasRead
<1> HIDE DEF SentByA, SentByB
<1>4. i + 1 <= SentByB /\ i + 1 \in 0 .. 6
  BY <1>1
<1> QED
  BY <1>1, <1>2, <1>3, <1>4 DEF Between

LEMMA BReadsOn ==
  ASSUME NEW i \in 0 .. 6, NEW j \in 0 .. 5, Between(i, j), toB # <<>>, toB' = Tail(toB), UNCHANGED <<a, toA>>,
         SentByB' = SentByB, BHasRead(j + 1)'
  PROVE  Between(i, j + 1)' /\ j + 1 \in 0 .. 5
<1>1. /\ j < SentByA /\ SentByA \in {2, 5}
      /\ toB' = SubSeq(StreamOfA, (j + 1) + 1, SentByA)
  BY NextToRead
<1>2. SentByA' = SentByA
  BY DEF SentByA
<1>3. AHasRead(i)' /\ i <= SentByB /\ toA' = SubSeq(StreamOfB, i + 1, SentByB)
  BY DEF Between, AHasRead
<1> HIDE DEF SentByA, SentByB
<1>4. j + 1 <= SentByA /\ j + 1 \in 0 .. 5
  BY <1>1
<1> QED
  BY <1>1, <1>2, <1>3, <1>4 DEF Between

\* In none of the phases both sides wait for the other, but in the last.
LEMMA StuckIsDone ==
  ASSUME Plain \/ KeyRefused \/ Encrypted, Shake!Stuck
  PROVE  a.result = "ok" /\ b.result = "ok"
<1> USE DEF Shake!Stuck, Shake!ReadsA, Shake!ReadsB, Shake!Waiting, SideIs
<1>1. CASE Plain
  <2>0. AReadsAnswer(Shake!NONE) => a.result = "ok"
    <3> SUFFICES ASSUME AReadsAnswer(Shake!NONE), a.result # "ok"
                 PROVE  FALSE
      OBVIOUS
    <3>1. Handshake(Shake!NONE) # <<>> /\ PeerId(Shake!NONE) # <<>>
      BY Queues
    <3>2. toA # <<>> /\ a.result = "none"
      BY <3>1 DEF AReadsAnswer
    <3> QED
      BY <3>2
  <2>1. CASE PlainSent
    BY <2>1, Queues DEF PlainSent
  <2>2. CASE PlainAnswered
    <3>1. b.result = "ok" \/ (b.result = "none" /\ b.state = "AWAITING_PEER_ID" /\ toB # <<>>)
      <4>1. PeerId(Shake!NONE) # <<>>
        BY Queues
      <4> QED
        BY <2>2, <4>1 DEF PlainAnswered
    <3> QED
      BY <2>0, <2>2, <3>1 DEF PlainAnswered
  <2> QED
    BY <1>1, <2>1, <2>2 DEF Plain
<1>2. CASE KeyRefused
  BY <1>2 DEF KeyRefused, KeyOfA
<1>3. CASE Encrypted
  <2>1. PICK i \in 0 .. 6, j \in 0 .. 5 : Between(i, j)
    BY <1>3 DEF Encrypted
  <2>2. AHasRead(i) /\ BHasRead(j)
    BY <2>1 DEF Between
  <2>3. a.result # "none" \/ (toA = <<>> /\ i = SentByB /\ a.state # "AWAITING_PAD_D")
    BY <2>1, NextToRead
  <2>4. b.result # "none" \/ (toB = <<>> /\ j = SentByA) \/ (j = 0 /\ toB # <<>> /\ Head(toB).what # "Ya")
    BY <2>1, <2>2, NextToRead DEF BHasRead
  <2>5. j = 0 /\ toB # <<>> => Head(toB).what = "Ya"
    BY <2>1, WhatIsNext
  <2>6. CASE b.result # "none"
    BY <2>2, <2>3, <2>6 DEF AHasRead, BHasRead, SentByB
  <2>7. CASE b.result = "none" /\ j = SentByA
    BY <2>2, <2>3, <2>7 DEF AHasRead, BHasRead, SentByA, SentByB
  <2> QED
    BY <2>4, <2>5, <2>6, <2>7
<1> QED
  BY <1>1, <1>2, <1>3

\* Where nothing goes wrong, each step leads from one phase to the next: of a handshake in plain text,
LEMMA PlainGoes ==
  ASSUME AgreeInv, NothingGoesWrong, conf' = conf, Plain, Shake!Next
  PROVE  Plain'
<1>f. /\ a = [state |-> a.state, enc |-> a.enc, sent |-> a.sent, crypto |-> a.crypto, result |-> a.result]
      /\ b = [state |-> b.state, enc |-> b.enc, sent |-> b.sent, crypto |-> b.crypto, result |-> b.result]
  BY DEF AgreeInv, ShakeTypes, SidesIn
<1> USE DEF SideIs, Shake!NONE, Shake!RC4, Shake!Waiting, Shake!InA, Shake!InB, Shake!ReadsA, Shake!ReadsB
<1>s. a.state \in {"AWAITING_HANDSHAKE", "AWAITING_PEER_ID"} /\ b.state \in {"AWAITING_HANDSHAKE", "AWAITING_PEER_ID"}
  BY DEF Plain, PlainSent, PlainAnswered, AReadsAnswer
<1>1. CASE Shake!readYb
  BY <1>s, <1>1 DEF Shake!readYb
<1>2. CASE Shake!readVC
  BY <1>s, <1>2 DEF Shake!readVC
<1>3. CASE Shake!readCryptoSelect
  BY <1>s, <1>3 DEF Shake!readCryptoSelect
<1>4. CASE Shake!readPadD
  BY <1>s, <1>4 DEF Shake!readPadD
<1>5. CASE Shake!readHandshakeA
  <2>1. a.state = "AWAITING_HANDSHAKE" /\ toA # <<>> /\ PlainAnswered
    BY <1>5 DEF Shake!readHandshakeA, Plain, PlainSent
  <2>2. SideIs(a, "AWAITING_HANDSHAKE", Shake!NONE, TRUE, "none") /\ toA = Handshake(Shake!NONE)
    BY <2>1 DEF PlainAnswered, AReadsAnswer
  <2>3. /\ a' = [a EXCEPT !.state = "AWAITING_PEER_ID", !.enc = Shake!NONE, !.sent = TRUE]
        /\ toA' = PeerId(Shake!NONE) /\ toB' = toB /\ b' = b /\ isOpen' = isOpen
    <3>1. /\ Head(Handshake(Shake!NONE)).what = "handshake" /\ Head(Handshake(Shake!NONE)).enc = Shake!NONE
          /\ Tail(Handshake(Shake!NONE)) = PeerId(Shake!NONE)
      BY Queues
    <3>2. Head(toA).what = "handshake" /\ Head(toA).enc = Shake!NONE /\ Tail(toA) = PeerId(Shake!NONE)
      BY <2>2, <3>1
    <3>3. conf.A # Shake!TR_ENCRYPTION_REQUIRED /\ a.sent
      BY <2>2 DEF Plain
    <3> QED
      BY <1>5, <3>2, <3>3 DEF Shake!readHandshakeA
  <2>4. SideIs(a, "AWAITING_PEER_ID", Shake!NONE, TRUE, "none")'
    BY <1>f, <2>2, <2>3
  <2> QED
    BY <2>1, <2>3, <2>4 DEF Plain, PlainAnswered, AReadsAnswer, Shake!PlainIsWelcome
<1>6. CASE Shake!readPeerIdA
  <2>1. /\ PlainAnswered /\ toA = PeerId(Shake!NONE)
        /\ SideIs(a, "AWAITING_PEER_ID", Shake!NONE, TRUE, "none")
    BY <1>6 DEF Shake!readPeerIdA, Plain, PlainSent, PlainAnswered, AReadsAnswer
  <2>2. Shake!Next1(toA, a).what = "peer id" /\ Tail(toA) = <<>>
    <3>0. LET s == PeerId(Shake!NONE) IN
          s # <<>> /\ Head(s).what = "peer id" /\ Head(s).enc = Shake!NONE /\ Tail(s) = <<>>
      BY Queues
    <3>1. toA # <<>> /\ Head(toA).what = "peer id" /\ Head(toA).enc = a.enc /\ Tail(toA) = <<>>
      BY <2>1, <3>0
    <3> QED
      BY <3>1 DEF Shake!Next1
  <2>3. a' = [a EXCEPT !.result = "ok"] /\ toA' = <<>> /\ isOpen' = isOpen /\ b' = b /\ toB' = toB
    BY <1>6, <2>2 DEF Shake!readPeerIdA, Shake!DoneA, NothingGoesWrong, Plain
  <2>4. SideIs(a, "AWAITING_PEER_ID", Shake!NONE, TRUE, "ok")'
    BY <1>f, <2>1, <2>3
  <2> QED
    BY <2>1, <2>3, <2>4 DEF Plain, PlainAnswered, AReadsAnswer, Shake!PlainIsWelcome
<1>7. CASE Shake!gotErrorA
  BY <1>7 DEF Shake!gotErrorA, Shake!Broken, Plain
<1>8. CASE Shake!TimeoutA
  BY <1>8, StuckIsDone DEF Shake!TimeoutA, NothingGoesWrong
<1>9. CASE Shake!readHandshakeB
  <2>1. PlainSent
    BY <1>9 DEF Shake!readHandshakeB, Plain, PlainAnswered
  <2>2. /\ b' = [b EXCEPT !.state = "AWAITING_PEER_ID", !.enc = Shake!NONE, !.sent = TRUE]
        /\ toA' = Handshake(Shake!NONE) /\ toB' = PeerId(Shake!NONE) /\ a' = a /\ isOpen' = isOpen
    <3>1. /\ Head(toB).what = "handshake" /\ Head(toB).enc = Shake!NONE /\ Tail(toB) = PeerId(Shake!NONE)
          /\ <<>> \o Shake!BitTorrentHandshake(Shake!NONE) = Handshake(Shake!NONE) /\ toA = <<>>
      <4>1. LET h == Handshake(Shake!NONE) IN
            /\ Head(h).what = "handshake" /\ Head(h).enc = Shake!NONE /\ Tail(h) = PeerId(Shake!NONE)
            /\ <<>> \o h = h /\ Shake!BitTorrentHandshake(Shake!NONE) = h
        BY Queues
      <4>2. toB = Handshake(Shake!NONE) /\ toA = <<>>
        BY <2>1 DEF PlainSent
      <4> QED
        BY <4>1, <4>2
    <3> QED
      BY <1>9, <3>1 DEF Shake!readHandshakeB, Plain
  <2>3. SideIs(b, "AWAITING_PEER_ID", Shake!NONE, TRUE, "none")'
    BY <1>f, <2>1, <2>2 DEF PlainSent
  <2> QED
    BY <2>1, <2>2, <2>3 DEF Plain, PlainSent, PlainAnswered, AReadsAnswer, Shake!PlainIsWelcome
<1>10. CASE Shake!readYa
  BY <1>s, <1>10 DEF Shake!readYa
<1>11. CASE Shake!readPadA
  BY <1>s, <1>11 DEF Shake!readPadA
<1>12. CASE Shake!readCryptoProvide
  BY <1>s, <1>12 DEF Shake!readCryptoProvide
<1>13. CASE Shake!readPadC
  BY <1>s, <1>13 DEF Shake!readPadC
<1>14. CASE Shake!readIA
  BY <1>s, <1>14 DEF Shake!readIA
<1>15. CASE Shake!readPayloadStream
  BY <1>s, <1>15 DEF Shake!readPayloadStream
<1>16. CASE Shake!readPeerIdB
  <2>1. /\ PlainAnswered /\ toB = PeerId(Shake!NONE)
        /\ SideIs(b, "AWAITING_PEER_ID", Shake!NONE, TRUE, "none")
    BY <1>16 DEF Shake!readPeerIdB, Plain, PlainSent, PlainAnswered
  <2>2. Shake!Next1(toB, b).what = "peer id" /\ Tail(toB) = <<>>
    <3>0. LET s == PeerId(Shake!NONE) IN
          s # <<>> /\ Head(s).what = "peer id" /\ Head(s).enc = Shake!NONE /\ Tail(s) = <<>>
      BY Queues
    <3>1. toB # <<>> /\ Head(toB).what = "peer id" /\ Head(toB).enc = b.enc /\ Tail(toB) = <<>>
      BY <2>1, <3>0
    <3> QED
      BY <3>1 DEF Shake!Next1
  <2>3. b' = [b EXCEPT !.result = "ok"] /\ toB' = <<>> /\ isOpen' = isOpen /\ a' = a /\ toA' = toA
    BY <1>16, <2>2 DEF Shake!readPeerIdB, Shake!DoneB, NothingGoesWrong, Plain
  <2>4. SideIs(b, "AWAITING_PEER_ID", Shake!NONE, TRUE, "ok")'
    BY <1>f, <2>1, <2>3
  <2> QED
    BY <2>1, <2>3, <2>4 DEF Plain, PlainAnswered, AReadsAnswer, Shake!PlainIsWelcome
<1>17. CASE Shake!gotErrorB
  BY <1>17 DEF Shake!gotErrorB, Shake!Broken, Plain
<1>18. CASE Shake!TimeoutB
  BY <1>18, StuckIsDone DEF Shake!TimeoutB, NothingGoesWrong
<1>19. CASE Shake!NetworkFails
  BY <1>19 DEF Shake!NetworkFails, NothingGoesWrong
<1> QED
  BY <1>1, <1>2, <1>3, <1>4, <1>5, <1>6, <1>7, <1>8, <1>9, <1>10, <1>11,
     <1>12, <1>13, <1>14, <1>15, <1>16, <1>17, <1>18, <1>19 DEF Shake!Next

\* of one that a client without encryption refuses,
LEMMA RefusedGoes ==
  ASSUME AgreeInv, NothingGoesWrong, conf' = conf, KeyRefused, Shake!Next
  PROVE  (Plain \/ KeyRefused)'
<1>f. /\ a = [state |-> a.state, enc |-> a.enc, sent |-> a.sent, crypto |-> a.crypto, result |-> a.result]
      /\ b = [state |-> b.state, enc |-> b.enc, sent |-> b.sent, crypto |-> b.crypto, result |-> b.result]
  BY DEF AgreeInv, ShakeTypes, SidesIn
<1> USE DEF SideIs, Shake!NONE, Shake!RC4, Shake!Waiting, Shake!InA, Shake!InB, Shake!ReadsA, Shake!ReadsB
<1>s. a.state = "AWAITING_YB" /\ toA = <<>> /\ b.state = "AWAITING_HANDSHAKE"
  BY DEF KeyRefused
<1>1. CASE Shake!readYb
  BY <1>s, <1>1 DEF Shake!readYb
<1>2. CASE Shake!readVC
  BY <1>s, <1>2 DEF Shake!readVC
<1>3. CASE Shake!readCryptoSelect
  BY <1>s, <1>3 DEF Shake!readCryptoSelect
<1>4. CASE Shake!readPadD
  BY <1>s, <1>4 DEF Shake!readPadD
<1>5. CASE Shake!readHandshakeA
  BY <1>s, <1>5 DEF Shake!readHandshakeA
<1>6. CASE Shake!readPeerIdA
  BY <1>s, <1>6 DEF Shake!readPeerIdA
<1>7. CASE Shake!gotErrorA
  <2>1. conf.plainB /\ tries = 1 /\ a.enc = Shake!NONE /\ a.result = "none"
    BY DEF KeyRefused
  <2>2. conf.A # Shake!TR_ENCRYPTION_REQUIRED /\ ~conf.utp /\ conf.reliable /\ conf.known
    BY <2>1 DEF NothingGoesWrong, Shake!Compatible
  <2>3. Shake!MayRetry /\ ~Shake!MayNotReconnect
    BY <1>s, <2>1, <2>2, TriesAssumption DEF Shake!MayRetry, Shake!MayNotReconnect
  <2>4. /\ Shake!Reconnect /\ isOpen' = TRUE
        /\ a' = [a EXCEPT !.state = "AWAITING_HANDSHAKE", !.sent = TRUE]
    BY <1>7, <2>2, <2>3 DEF Shake!gotErrorA
  <2>5. SideIs(a, "AWAITING_HANDSHAKE", Shake!NONE, TRUE, "none")'
    BY <1>f, <2>1, <2>4
  <2>6. SideIs(b, "AWAITING_HANDSHAKE", Shake!NONE, FALSE, "none")' /\ toA' = <<>> /\ toB' = Handshake(Shake!NONE)
    BY <2>1, <2>4, Queues DEF Shake!Reconnect, Shake!Side
  <2>7. Shake!PlainIsWelcome'
    BY <2>1, <2>2 DEF Shake!PlainIsWelcome
  <2> QED
    BY <2>2, <2>4, <2>5, <2>6, <2>7 DEF Plain, PlainSent
<1>8. CASE Shake!TimeoutA
  BY <1>s, <1>8, StuckIsDone DEF Shake!TimeoutA, NothingGoesWrong, KeyRefused
<1>9. CASE Shake!readHandshakeB
  <2>1. toB # <<>> /\ Head(toB).what # "handshake"
    <3>1. KeyOfA # <<>> /\ Head(KeyOfA).what = "Ya"
      BY DEF KeyOfA, Shake!Msg
    <3> QED
      BY <3>1 DEF KeyRefused
  <2>2. Shake!DoneB(FALSE) /\ UNCHANGED <<toA, toB, a, tries>>
    BY <1>9, <2>1 DEF Shake!readHandshakeB, KeyRefused
  <2>3. SideIs(b, "AWAITING_HANDSHAKE", Shake!NONE, FALSE, "failed")' /\ ~isOpen'
    BY <1>f, <1>9, <2>2 DEF Shake!DoneB, Shake!readHandshakeB, KeyRefused
  <2> QED
    BY <2>2, <2>3 DEF KeyRefused
<1>10. CASE Shake!readYa
  BY <1>s, <1>10 DEF Shake!readYa
<1>11. CASE Shake!readPadA
  BY <1>s, <1>11 DEF Shake!readPadA
<1>12. CASE Shake!readCryptoProvide
  BY <1>s, <1>12 DEF Shake!readCryptoProvide
<1>13. CASE Shake!readPadC
  BY <1>s, <1>13 DEF Shake!readPadC
<1>14. CASE Shake!readIA
  BY <1>s, <1>14 DEF Shake!readIA
<1>15. CASE Shake!readPayloadStream
  BY <1>s, <1>15 DEF Shake!readPayloadStream
<1>16. CASE Shake!readPeerIdB
  BY <1>s, <1>16 DEF Shake!readPeerIdB
<1>17. CASE Shake!gotErrorB
  BY <1>17 DEF Shake!gotErrorB, Shake!Broken, KeyRefused
<1>18. CASE Shake!TimeoutB
  BY <1>s, <1>18, StuckIsDone DEF Shake!TimeoutB, NothingGoesWrong, KeyRefused
<1>19. CASE Shake!NetworkFails
  BY <1>19 DEF Shake!NetworkFails, NothingGoesWrong
<1> QED
  BY <1>1, <1>2, <1>3, <1>4, <1>5, <1>6, <1>7, <1>8, <1>9, <1>10, <1>11,
     <1>12, <1>13, <1>14, <1>15, <1>16, <1>17, <1>18, <1>19 DEF Shake!Next

\* and of an encrypted one.
LEMMA EncryptedGoes ==
  ASSUME AgreeInv, NothingGoesWrong, conf' = conf, Encrypted, Shake!Next
  PROVE  Encrypted'
<1>f. /\ a = [state |-> a.state, enc |-> a.enc, sent |-> a.sent, crypto |-> a.crypto, result |-> a.result]
      /\ b = [state |-> b.state, enc |-> b.enc, sent |-> b.sent, crypto |-> b.crypto, result |-> b.result]
  BY DEF AgreeInv, ShakeTypes, SidesIn
<1> USE DEF SideIs, Shake!NONE, Shake!RC4, Shake!Waiting, Shake!InA, Shake!InB, Shake!ReadsA, Shake!ReadsB
<1>p. PICK i \in 0 .. 6, j \in 0 .. 5 : Between(i, j)
  BY DEF Encrypted
<1>r. AHasRead(i) /\ BHasRead(j) /\ i <= SentByB /\ j <= SentByA
  BY <1>p DEF Between
<1>c. conf.A # Shake!TR_CLEAR_PREFERRED /\ ~conf.plainB /\ isOpen
  BY DEF Encrypted
<1>n. /\ SentByA \in {2, 5} /\ SentByB \in {0, 2, 6}
      /\ toA = <<>> <=> i = SentByB
      /\ toA # <<>> => /\ i < SentByB /\ Head(toA) = StreamOfB[i + 1]
                       /\ Tail(toA) = SubSeq(StreamOfB, (i + 1) + 1, SentByB)
      /\ toB = <<>> <=> j = SentByA
      /\ toB # <<>> => /\ j < SentByA /\ Head(toB) = StreamOfA[j + 1]
                       /\ Tail(toB) = SubSeq(StreamOfA, (j + 1) + 1, SentByA)
  BY <1>p, NextToRead
<1>w. /\ toA # <<>> => /\ i = 0 => Head(toA).what = "Yb"
                       /\ i = 1 => Head(toA).enc = Shake!NONE
                       /\ i = 2 => Head(toA).what = "VC" /\ Head(toA).enc = Shake!RC4
                       /\ i = 3 => Head(toA).enc = Shake!RC4 /\ Head(toA).crypto = {Shake!RC4}
                       /\ i = 4 => Head(toA).what = "handshake" /\ Head(toA).enc = Shake!RC4
                       /\ i = 5 => Head(toA).what = "peer id" /\ Head(toA).enc = Shake!RC4
      /\ toB # <<>> => /\ j = 0 => Head(toB).what = "Ya"
                       /\ j = 1 => Head(toB).what = "pad A"
                       /\ j = 2 => /\ Head(toB).what = "provide" /\ Head(toB).enc = Shake!RC4
                                   /\ Head(toB).crypto = {Shake!RC4}
                       /\ j = 4 => Head(toB).what = "IA" /\ Head(toB).enc = Shake!RC4
  BY <1>p, WhatIsNext
<1>m. Shake!Msg("rubbish", Shake!RC4).what = "rubbish"
  BY DEF Shake!Msg
<1>o. Shake!getCryptoProvide(conf.A) = {Shake!RC4} /\ (CHOOSE c \in {Shake!RC4} : TRUE) = Shake!RC4
  BY <1>c DEF Shake!getCryptoProvide
<1>g. \A k, l : k \in 0 .. 6 /\ l \in 0 .. 5 /\ Between(k, l)' /\ isOpen' = isOpen => Encrypted'
  BY <1>c DEF Encrypted
<1>1. CASE Shake!readYb
  <2>1. i = 0 /\ toA # <<>> /\ a.enc = Shake!NONE /\ ~a.sent /\ a.result = "none"
    BY <1>r, <1>1 DEF Shake!readYb, AHasRead
  <2>2. Head(toA).what = "Yb"
    BY <1>w, <2>1
  <2>3. /\ a' = [a EXCEPT !.state = "AWAITING_VC", !.enc = Shake!RC4, !.sent = TRUE] /\ toA' = Tail(toA)
        /\ toB' = toB \o <<Shake!CryptoMsg("provide", {Shake!RC4}), Shake!Msg("pad C", Shake!RC4), Shake!Msg("IA", Shake!RC4)>>
        /\ b' = b /\ isOpen' = isOpen
    BY <1>o, <1>1, <2>2 DEF Shake!readYb
  <2>4. SideIs(a, "AWAITING_VC", Shake!RC4, TRUE, "none")'
    BY <1>f, <2>1, <2>3
  <2>5. SentByA = 2 /\ SentByA' = 5 /\ SentByB' = SentByB
    BY <2>1, <2>3, <2>4 DEF SentByA, SentByB
  <2>6. toB' = SubSeq(StreamOfA, j + 1, 5)
    <3>1. toB = SubSeq(StreamOfA, j + 1, 2) /\ j \in 0 .. 2
      BY <1>p, <1>r, <2>5 DEF Between
    <3>2. 2 \in 0 .. Len(StreamOfA) /\ 5 \in 2 .. Len(StreamOfA) /\ StreamOfA \in Seq(Letters)
      BY StreamsAreSent
    <3>3. SubSeq(StreamOfA, j + 1, 2) \o SubSeq(StreamOfA, 2 + 1, 5) = SubSeq(StreamOfA, j + 1, 5)
      BY <3>1, <3>2, OnItsWay
    <3>4. toB' = SubSeq(StreamOfA, j + 1, 2) \o SubSeq(StreamOfA, 3, 5)
      BY <2>3, <3>1, StreamsInParts
    <3> QED
      BY <3>3, <3>4
  <2>7. toA' = SubSeq(StreamOfB, (i + 1) + 1, SentByB) /\ i + 1 <= SentByB
    <3> HIDE DEF SentByA, SentByB
    <3>1. i < SentByB /\ SentByB \in {0, 2, 6} /\ Tail(toA) = SubSeq(StreamOfB, (i + 1) + 1, SentByB)
      BY <1>n, <2>1, Zenon
    <3>2. toA' = SubSeq(StreamOfB, (i + 1) + 1, SentByB)
      BY <2>3, <3>1, Zenon
    <3>3. i + 1 <= SentByB
      BY <3>1
    <3> QED
      BY <3>2, <3>3, Zenon
  <2>9. j <= 5 /\ i + 1 \in 0 .. 6 /\ i + 1 = 1
    BY <2>1
  <2>8. AHasRead(i + 1)' /\ BHasRead(j)'
    <3>1. BHasRead(j)'
      BY <1>r, <2>3 DEF BHasRead
    <3>2. AHasRead(1)'
      <4> HIDE DEF SideIs
      <4> QED
        BY <2>4 DEF AHasRead
    <3>3. AHasRead(i + 1)' <=> AHasRead(1)'
      BY <2>9 DEF AHasRead
    <3> QED
      BY <3>1, <3>2, <3>3, Zenon
  <2> HIDE DEF SideIs, SentByA, SentByB
  <2>10. Between(i + 1, j)'
    BY <2>5, <2>6, <2>7, <2>8, <2>9 DEF Between
  <2> QED
    BY <1>g, <2>3, <2>9, <2>10
<1>2. CASE Shake!readVC
  <2>1. i \in {1, 2} /\ toA # <<>> /\ SideIs(a, "AWAITING_VC", Shake!RC4, TRUE, "none")
    BY <1>r, <1>2 DEF Shake!readVC, AHasRead
  <2>2. Shake!Next1(toA, a).what = "VC" <=> i = 2
    BY <1>m, <1>w, <2>1 DEF Shake!Next1
  <2>3. /\ a' = (IF i = 2 THEN [a EXCEPT !.state = "AWAITING_CRYPTO_SELECT"] ELSE a)
        /\ toA' = Tail(toA) /\ b' = b /\ toB' = toB /\ isOpen' = isOpen
    BY <1>2, <2>2 DEF Shake!readVC
  <2>8. AHasRead(i + 1)' /\ a'.sent = a.sent
    BY <1>f, <2>1, <2>3 DEF AHasRead
  <2>9. Between(i + 1, j)' /\ i + 1 \in 0 .. 6
    BY <1>p, <2>1, <2>3, <2>8, AReadsOn
  <2> QED
    BY <1>g, <2>3, <2>9
<1>3. CASE Shake!readCryptoSelect
  <2>1. i = 3 /\ toA # <<>> /\ SideIs(a, "AWAITING_CRYPTO_SELECT", Shake!RC4, TRUE, "none")
    BY <1>r, <1>3 DEF Shake!readCryptoSelect, AHasRead
  <2>2. Shake!Next1(toA, a).crypto = {Shake!RC4}
    BY <1>w, <2>1 DEF Shake!Next1
  <2>3. /\ a' = [a EXCEPT !.state = "AWAITING_PAD_D", !.crypto = {Shake!RC4}]
        /\ toA' = Tail(toA) /\ b' = b /\ toB' = toB /\ isOpen' = isOpen
    BY <1>o, <1>3, <2>2 DEF Shake!readCryptoSelect
  <2>8. AHasRead(i + 1)' /\ a'.sent = a.sent
    BY <1>f, <2>1, <2>3 DEF AHasRead
  <2>9. Between(i + 1, j)' /\ i + 1 \in 0 .. 6
    BY <1>p, <2>1, <2>3, <2>8, AReadsOn
  <2> QED
    BY <1>g, <2>3, <2>9
<1>4. CASE Shake!readPadD
  <2>1. i = 4 /\ SideIs(a, "AWAITING_PAD_D", Shake!RC4, TRUE, "none") /\ a.crypto = {Shake!RC4}
    BY <1>r, <1>4 DEF Shake!readPadD, AHasRead
  <2>2. /\ a' = [a EXCEPT !.state = "AWAITING_HANDSHAKE", !.enc = Shake!RC4]
        /\ toA' = toA /\ b' = b /\ toB' = toB /\ isOpen' = isOpen
    BY <1>o, <1>4, <2>1 DEF Shake!readPadD
  <2>3. AHasRead(i)' /\ SentByA' = SentByA
    BY <1>f, <2>1, <2>2 DEF AHasRead, SentByA
  <2>4. Between(i, j)'
    BY <1>p, <2>2, <2>3 DEF Between, BHasRead, SentByB
  <2> QED
    BY <1>g, <2>2, <2>4
<1>5. CASE Shake!readHandshakeA
  <2>1. i = 4 /\ toA # <<>> /\ SideIs(a, "AWAITING_HANDSHAKE", Shake!RC4, TRUE, "none")
    BY <1>r, <1>5 DEF Shake!readHandshakeA, AHasRead
  <2>2. Head(toA).what = "handshake" /\ Head(toA).enc = Shake!RC4
    BY <1>w, <2>1
  <2>3. /\ a' = [a EXCEPT !.state = "AWAITING_PEER_ID", !.enc = Shake!RC4, !.sent = TRUE]
        /\ toA' = Tail(toA) /\ b' = b /\ toB' = toB /\ isOpen' = isOpen
    BY <1>5, <2>1, <2>2 DEF Shake!readHandshakeA
  <2>4. SideIs(a, "AWAITING_PEER_ID", Shake!RC4, TRUE, "none")'
    BY <1>f, <2>1, <2>3
  <2>8. AHasRead(i + 1)' /\ a'.sent = a.sent
    <3>1. i + 1 = 5
      BY <2>1
    <3>2. AHasRead(5)'
      <4> HIDE DEF SideIs
      <4> QED
        BY <2>4 DEF AHasRead
    <3>3. AHasRead(i + 1)' <=> AHasRead(5)'
      BY <3>1 DEF AHasRead
    <3>4. a'.sent = a.sent
      BY <2>1, <2>4
    <3> QED
      BY <3>2, <3>3, <3>4, Zenon
  <2>9. Between(i + 1, j)' /\ i + 1 \in 0 .. 6
    BY <1>p, <2>1, <2>3, <2>8, AReadsOn
  <2> QED
    BY <1>g, <2>3, <2>9
<1>6. CASE Shake!readPeerIdA
  <2>1. i = 5 /\ toA # <<>> /\ SideIs(a, "AWAITING_PEER_ID", Shake!RC4, TRUE, "none")
    BY <1>r, <1>n, <1>6 DEF Shake!readPeerIdA, AHasRead
  <2>2. Shake!Next1(toA, a).what = "peer id"
    BY <1>w, <2>1 DEF Shake!Next1
  <2>3. /\ a' = [a EXCEPT !.result = "ok"]
        /\ toA' = Tail(toA) /\ b' = b /\ toB' = toB /\ isOpen' = isOpen
    BY <1>c, <1>6, <2>2 DEF Shake!readPeerIdA, Shake!DoneA, NothingGoesWrong
  <2>8. AHasRead(i + 1)' /\ a'.sent = a.sent
    BY <1>f, <2>1, <2>3 DEF AHasRead
  <2>9. Between(i + 1, j)' /\ i + 1 \in 0 .. 6
    BY <1>p, <2>1, <2>3, <2>8, AReadsOn
  <2> QED
    BY <1>g, <2>3, <2>9
<1>7. CASE Shake!gotErrorA
  BY <1>c, <1>7 DEF Shake!gotErrorA, Shake!Broken
<1>8. CASE Shake!TimeoutA
  BY <1>8, StuckIsDone DEF Shake!TimeoutA, NothingGoesWrong
<1>9. CASE Shake!readHandshakeB
  <2>1. j = 0 /\ toB # <<>> /\ SideIs(b, "AWAITING_HANDSHAKE", Shake!NONE, FALSE, "none")
    BY <1>r, <1>9 DEF Shake!readHandshakeB, BHasRead
  <2>2. Head(toB).what = "Ya"
    BY <1>w, <2>1
  <2>3. b' = [b EXCEPT !.state = "AWAITING_YA", !.enc = Shake!RC4] /\ UNCHANGED <<toA, toB, isOpen, a>>
    BY <1>c, <1>9, <2>2 DEF Shake!readHandshakeB
  <2>4. BHasRead(j)' /\ SentByB' = SentByB
    BY <1>f, <2>1, <2>3 DEF BHasRead, SentByB
  <2>5. Between(i, j)'
    BY <1>p, <2>3, <2>4 DEF Between, AHasRead, SentByA
  <2> QED
    BY <1>g, <2>3, <2>5
<1>10. CASE Shake!readYa
  <2>0. j = 0 /\ toB # <<>> /\ SideIs(b, "AWAITING_YA", Shake!RC4, FALSE, "none")
    BY <1>r, <1>10 DEF Shake!readYa, BHasRead
  <2>1. j = 0 /\ toB # <<>> /\ SentByB = 0 /\ i = 0
    <3>1. SentByB = 0
      BY <2>0 DEF SentByB
    <3> HIDE DEF SentByB
    <3> QED
      BY <1>r, <2>0, <3>1
  <2>2. /\ b' = [b EXCEPT !.state = "AWAITING_PAD_A"] /\ toB' = Tail(toB) /\ UNCHANGED <<isOpen, a>>
        /\ toA' = toA \o <<Shake!Msg("Yb", Shake!NONE), Shake!Msg("pad B", Shake!NONE)>>
    BY <1>10 DEF Shake!readYa
  <2>3. BHasRead(1)' /\ SentByB' = 2 /\ SentByA' = SentByA
    BY <1>f, <2>0, <2>2 DEF BHasRead, SentByA, SentByB
  <2>4. toA' = SubSeq(StreamOfB, i + 1, 2)
    <3>0. i + 1 = 1
      BY <2>1
    <3>1. toA = <<>>
      BY <1>n, <2>1
    <3>2. <<>> \o SubSeq(StreamOfB, 1, 2) = SubSeq(StreamOfB, 1, 2)
      <4> DEFINE p == Shake!Msg("Yb", Shake!NONE)
                 q == Shake!Msg("pad B", Shake!NONE)
      <4> HIDE DEF p, q
      <4>1. <<>> \o <<p, q>> = <<p, q>>
        OBVIOUS
      <4> QED
        BY <4>1, StreamsInParts DEF p, q
    <3> QED
      BY <2>2, <3>0, <3>1, <3>2, StreamsInParts, Zenon
  <2>5. toB' = SubSeq(StreamOfA, (j + 1) + 1, SentByA) /\ j + 1 <= SentByA
    <3> HIDE DEF SentByA, SentByB
    <3>1. j < SentByA /\ SentByA \in {2, 5} /\ Tail(toB) = SubSeq(StreamOfA, (j + 1) + 1, SentByA)
      BY <1>n, <2>1, Zenon
    <3>2. toB' = SubSeq(StreamOfA, (j + 1) + 1, SentByA)
      BY <2>2, <3>1, Zenon
    <3>3. j + 1 <= SentByA
      BY <3>1
    <3> QED
      BY <3>2, <3>3, Zenon
  <2>6. AHasRead(i)'
    BY <1>r, <2>2 DEF AHasRead
  <2>8. i <= 2 /\ j + 1 \in 0 .. 5 /\ j + 1 = 1
    BY <2>1
  <2> HIDE DEF SideIs, SentByA, SentByB
  <2>7. Between(i, j + 1)'
    BY <2>3, <2>4, <2>5, <2>6, <2>8 DEF Between
  <2> QED
    BY <1>g, <2>2, <2>7, <2>8
<1>11. CASE Shake!readPadA
  <2>1. j \in {1, 2} /\ toB # <<>> /\ SideIs(b, "AWAITING_PAD_A", Shake!RC4, FALSE, "none")
    BY <1>r, <1>11 DEF Shake!readPadA, BHasRead
  <2>2. Head(toB).what = "provide" <=> j = 2
    BY <1>w, <2>1
  <2>3. CASE j = 1
    <3>1. b' = b /\ toB' = Tail(toB) /\ UNCHANGED <<toA, isOpen, a>>
      BY <1>11, <2>2, <2>3 DEF Shake!readPadA
    <3>2. BHasRead(j + 1)' /\ SentByB' = SentByB
      BY <2>1, <2>3, <3>1 DEF BHasRead, SentByB
    <3>3. Between(i, j + 1)' /\ j + 1 \in 0 .. 5
      BY <1>p, <2>1, <3>1, <3>2, BReadsOn
    <3> QED
      BY <1>g, <3>1, <3>3
  <2>4. CASE j = 2
    <3>1. b' = [b EXCEPT !.state = "AWAITING_CRYPTO_PROVIDE"] /\ UNCHANGED <<toA, toB, isOpen, a>>
      BY <1>11, <2>2, <2>4 DEF Shake!readPadA
    <3>2. BHasRead(j)' /\ SentByB' = SentByB
      BY <1>f, <2>1, <2>4, <3>1 DEF BHasRead, SentByB
    <3>3. Between(i, j)'
      BY <1>p, <3>1, <3>2 DEF Between, AHasRead, SentByA
    <3> QED
      BY <1>g, <3>1, <3>3
  <2> QED
    BY <2>1, <2>3, <2>4
<1>12. CASE Shake!readCryptoProvide
  <2>1. j = 2 /\ toB # <<>> /\ SideIs(b, "AWAITING_CRYPTO_PROVIDE", Shake!RC4, FALSE, "none")
    BY <1>r, <1>12 DEF Shake!readCryptoProvide, BHasRead
  <2>2. Shake!Next1(toB, b).crypto = {Shake!RC4}
    BY <1>w, <2>1 DEF Shake!Next1
  <2>3. /\ b' = [b EXCEPT !.state = "AWAITING_PAD_C", !.crypto = {Shake!RC4}]
        /\ toB' = Tail(toB) /\ UNCHANGED <<toA, isOpen, a>>
    BY <1>12, <2>2 DEF Shake!readCryptoProvide, NothingGoesWrong
  <2>8. BHasRead(j + 1)' /\ SentByB' = SentByB
    BY <1>f, <2>1, <2>3 DEF BHasRead, SentByB
  <2>9. Between(i, j + 1)' /\ j + 1 \in 0 .. 5
    BY <1>p, <2>1, <2>3, <2>8, BReadsOn
  <2> QED
    BY <1>g, <2>3, <2>9
<1>13. CASE Shake!readPadC
  <2>1. /\ j = 3 /\ toB # <<>> /\ SideIs(b, "AWAITING_PAD_C", Shake!RC4, FALSE, "none")
        /\ b.crypto = {Shake!RC4}
    BY <1>r, <1>13 DEF Shake!readPadC, BHasRead
  <2>3. b' = [b EXCEPT !.state = "AWAITING_IA"] /\ toB' = Tail(toB) /\ UNCHANGED <<toA, isOpen, a>>
    BY <1>13 DEF Shake!readPadC
  <2>8. BHasRead(j + 1)' /\ SentByB' = SentByB
    BY <1>f, <2>1, <2>3 DEF BHasRead, SentByB
  <2>9. Between(i, j + 1)' /\ j + 1 \in 0 .. 5
    BY <1>p, <2>1, <2>3, <2>8, BReadsOn
  <2> QED
    BY <1>g, <2>3, <2>9
<1>14. CASE Shake!readIA
  <2>1. /\ j = 4 /\ toB # <<>> /\ SideIs(b, "AWAITING_IA", Shake!RC4, FALSE, "none")
        /\ b.crypto = {Shake!RC4} /\ SentByB = 2
    BY <1>r, <1>14 DEF Shake!readIA, BHasRead, SentByB
  <2>2. Shake!getCryptoSelect(conf.B, b.crypto) = {Shake!RC4}
    BY <2>1 DEF Shake!getCryptoSelect
  <2>3. /\ b' = [b EXCEPT !.state = "AWAITING_PAYLOAD_STREAM", !.enc = Shake!RC4, !.sent = TRUE]
        /\ toA' = toA \o <<Shake!Msg("VC", Shake!RC4), Shake!CryptoMsg("select", {Shake!RC4})>>
                      \o Shake!BitTorrentHandshake(Shake!RC4)
        /\ UNCHANGED <<toB, isOpen, a>>
    BY <1>o, <1>14, <2>2 DEF Shake!readIA
  <2>4. BHasRead(j)' /\ SentByB' = 6 /\ SentByA' = SentByA
    BY <1>f, <2>1, <2>3 DEF BHasRead, SentByA, SentByB
  <2>5. toA' = SubSeq(StreamOfB, i + 1, 6)
    <3>1. toA = SubSeq(StreamOfB, i + 1, 2) /\ i \in 0 .. 2
      BY <1>p, <1>r, <2>1 DEF Between
    <3>2. 2 \in 0 .. Len(StreamOfB) /\ 6 \in 2 .. Len(StreamOfB) /\ StreamOfB \in Seq(Letters)
      BY StreamsAreSent
    <3>3. SubSeq(StreamOfB, i + 1, 2) \o SubSeq(StreamOfB, 2 + 1, 6) = SubSeq(StreamOfB, i + 1, 6)
      BY <3>1, <3>2, OnItsWay
    <3>4. toA' = SubSeq(StreamOfB, i + 1, 2) \o SubSeq(StreamOfB, 3, 6)
      <4> DEFINE v == Shake!Msg("VC", Shake!RC4)
                 s == Shake!CryptoMsg("select", {Shake!RC4})
                 x == Shake!Msg("handshake", Shake!RC4)
                 y == Shake!Msg("peer id", Shake!RC4)
      <4>1. Shake!BitTorrentHandshake(Shake!RC4) = <<x, y>>
        BY DEF Shake!BitTorrentHandshake
      <4>2. toA \in Seq(AnswersOfB(b.sent, b.enc))
        BY DEF AgreeInv, ShakeTypes
      <4> HIDE DEF v, s, x, y
      <4>3. \A q \in Seq(AnswersOfB(b.sent, b.enc)) : q \o <<v, s>> \o <<x, y>> = q \o (<<v, s>> \o <<x, y>>)
        <5> DEFINE L == AnswersOfB(b.sent, b.enc) \cup {v, s, x, y}
        <5> HIDE DEF L
        <5>1. AnswersOfB(b.sent, b.enc) \subseteq L /\ v \in L /\ s \in L /\ x \in L /\ y \in L
          BY DEF L
        <5>2. ASSUME NEW q \in Seq(L)
              PROVE  q \o <<v, s>> \o <<x, y>> = q \o (<<v, s>> \o <<x, y>>)
          <6>1. <<v, s>> \in Seq(L) /\ <<x, y>> \in Seq(L)
            BY <5>1
          <6> QED
            BY <6>1, ConcatAssociative
        <5> QED
          BY <5>1, <5>2, LongerSeq
      <4>4. toA' = toA \o <<v, s>> \o <<x, y>>
        BY <2>3, <4>1 DEF v, s
      <4>5. SubSeq(StreamOfB, 3, 6) = <<v, s>> \o <<x, y>>
        BY <4>1, StreamsInParts DEF v, s
      <4> QED
        BY <3>1, <4>2, <4>3, <4>4, <4>5
    <3> QED
      BY <3>3, <3>4
  <2>6. AHasRead(i)' /\ i <= 6 /\ j <= SentByA /\ toB' = SubSeq(StreamOfA, j + 1, SentByA)
    BY <1>p, <1>r, <2>3 DEF AHasRead, Between
  <2> HIDE DEF SideIs, SentByA, SentByB
  <2>7. Between(i, j)'
    BY <2>4, <2>5, <2>6 DEF Between
  <2> QED
    BY <1>g, <2>3, <2>7
<1>15. CASE Shake!readPayloadStream
  <2>1. j = 4 /\ toB # <<>> /\ SideIs(b, "AWAITING_PAYLOAD_STREAM", Shake!RC4, TRUE, "none")
    BY <1>r, <1>n, <1>15 DEF Shake!readPayloadStream, BHasRead
  <2>2. Shake!Next1(toB, b).what = "IA"
    BY <1>w, <2>1 DEF Shake!Next1
  <2>3. b' = [b EXCEPT !.result = "ok"] /\ toB' = Tail(toB) /\ UNCHANGED <<toA, isOpen, a>>
    BY <1>c, <1>15, <2>2 DEF Shake!readPayloadStream, Shake!DoneB, NothingGoesWrong
  <2>8. BHasRead(j + 1)' /\ SentByB' = SentByB
    BY <1>f, <2>1, <2>3 DEF BHasRead, SentByB
  <2>9. Between(i, j + 1)' /\ j + 1 \in 0 .. 5
    BY <1>p, <2>1, <2>3, <2>8, BReadsOn
  <2> QED
    BY <1>g, <2>3, <2>9
<1>16. CASE Shake!readPeerIdB
  BY <1>r, <1>16 DEF Shake!readPeerIdB, BHasRead
<1>17. CASE Shake!gotErrorB
  BY <1>c, <1>17 DEF Shake!gotErrorB, Shake!Broken
<1>18. CASE Shake!TimeoutB
  BY <1>18, StuckIsDone DEF Shake!TimeoutB, NothingGoesWrong
<1>19. CASE Shake!NetworkFails
  BY <1>19 DEF Shake!NetworkFails, NothingGoesWrong
<1> QED
  BY <1>1, <1>2, <1>3, <1>4, <1>5, <1>6, <1>7, <1>8, <1>9, <1>10, <1>11,
     <1>12, <1>13, <1>14, <1>15, <1>16, <1>17, <1>18, <1>19 DEF Shake!Next

LEMMA GoesStep == ASSUME AgreeInv, Goes, Shake!Next PROVE Goes'
<1> SUFFICES ASSUME NothingGoesWrong'
             PROVE  (Plain \/ KeyRefused \/ Encrypted)'
  BY DEF Goes
<1>1. conf' = conf
  BY DEF Shake!Next,
           Shake!readYb, Shake!readVC, Shake!readCryptoSelect, Shake!readPadD,
           Shake!readHandshakeA, Shake!readPeerIdA, Shake!gotErrorA, Shake!TimeoutA,
           Shake!readHandshakeB, Shake!readYa, Shake!readPadA, Shake!readCryptoProvide,
           Shake!readPadC, Shake!readIA, Shake!readPayloadStream, Shake!readPeerIdB,
           Shake!gotErrorB, Shake!TimeoutB, Shake!NetworkFails
<1>2. NothingGoesWrong /\ (Plain \/ KeyRefused \/ Encrypted)
  BY <1>1 DEF Goes, NothingGoesWrong, Shake!Compatible
<1> QED
  BY <1>1, <1>2, PlainGoes, RefusedGoes, EncryptedGoes

LEMMA ShakeInvSays ==
  ShakeInv => Shake!TypeOK /\ Shake!SidesAgree /\ Shake!Succeeds
<1> SUFFICES ASSUME ShakeInv
             PROVE  Shake!TypeOK /\ Shake!SidesAgree /\ Shake!Succeeds
  OBVIOUS
<1> USE DEF ShakeInv, AgreeInv
<1>1. Shake!TypeOK
  BY DEF ShakeTypes, SidesIn, Cyphers, Results, Shake!TypeOK
<1>2. Shake!SidesAgree
  BY DEF ShakeTypes, SidesIn, AKnows, BKnows, Shake!PlainIsWelcome, Shake!SidesAgree
<1>3. Shake!Succeeds
  <2> SUFFICES ASSUME NothingGoesWrong
               PROVE  /\ a.result # "failed" /\ (b.result = "failed" => conf.plainB)
                      /\ Shake!Stuck => a.result = "ok" /\ b.result = "ok"
    BY DEF Shake!Succeeds, NothingGoesWrong
  <2>1. Plain \/ KeyRefused \/ Encrypted
    BY DEF Goes
  <2>2. a.result # "failed" /\ (b.result = "failed" => conf.plainB)
    BY <2>1 DEF Plain, PlainSent, PlainAnswered, AReadsAnswer, KeyRefused, Encrypted, Between, AHasRead,
                BHasRead, SideIs
  <2> QED
    BY <2>1, <2>2, StuckIsDone
<1> QED
  BY <1>1, <1>2, <1>3

LEMMA ShakeInit == Shake!Init => ShakeInv
<1> SUFFICES ASSUME Shake!Init
             PROVE  ShakeInv
  OBVIOUS
<1> USE DEF Shake!Side, Shake!NONE, Shake!RC4, Cyphers
<1>1. toB \in Seq(QuestionsOfA)
  <2>1. toB = Handshake(Shake!NONE) \/ toB = KeyOfA
    BY DEF Shake!Init, Handshake, KeyOfA
  <2>2. Handshake(Shake!NONE) \in Seq(QuestionsOfA)
    BY HandshakeIsAnAnswer
  <2>3. KeyOfA \in Seq(QuestionsOfA)
    <3> DEFINE x == Shake!Msg("Ya", Shake!NONE)
               y == Shake!Msg("pad A", Shake!NONE)
    <3>1. x \in QuestionsOfA /\ y \in QuestionsOfA
      BY OthersAreAnswers
    <3>2. KeyOfA = <<x, y>>
      BY DEF KeyOfA
    <3> HIDE DEF x, y
    <3> QED
      BY <3>1, <3>2
  <2> QED
    BY <2>1, <2>2, <2>3
<1>2. a \in SidesIn(Shake!StatesOfA) /\ b \in SidesIn(Shake!StatesOfB)
  BY DEF Shake!Init, SidesIn, Shake!StatesOfA, Shake!StatesOfB, Results
<1>3. ShakeTypes
  <2>1. toA \in Seq(AnswersOfB(b.sent, b.enc))
    <3>1. toA = <<>>
      BY DEF Shake!Init
    <3> DEFINE Possible == AnswersOfB(b.sent, b.enc)
    <3> HIDE DEF Possible
    <3>2. toA \in Seq(Possible)
      BY <3>1
    <3> QED
      BY <3>2 DEF Possible
  <2>2. tries \in 1 .. MaxConnections /\ isOpen \in BOOLEAN
    <3>1. tries = 1 /\ isOpen = TRUE
      BY DEF Shake!Init
    <3> QED
      BY <3>1, TriesAssumption
  <2>3. conf \in [A : Shake!Modes, B : Shake!Modes, plainB : BOOLEAN, known : BOOLEAN, self : BOOLEAN,
                 seeds : BOOLEAN, utp : BOOLEAN, reliable : BOOLEAN]
    BY DEF Shake!Init
  <2> QED
    BY <1>1, <1>2, <2>1, <2>2, <2>3 DEF ShakeTypes
<1>4. BHasSent /\ AKnows /\ BKnows
  BY DEF Shake!Init, BHasSent, AKnows, BKnows
<1>5. Goes
  <2> SUFFICES ASSUME NothingGoesWrong
               PROVE  Plain \/ KeyRefused \/ Encrypted
    BY DEF Goes
  <2>1. CASE conf.A = Shake!TR_CLEAR_PREFERRED
    <3>1. conf.plainB \/ conf.B # Shake!TR_ENCRYPTION_REQUIRED
      BY <2>1 DEF NothingGoesWrong, Shake!Compatible, Shake!TR_CLEAR_PREFERRED, Shake!TR_ENCRYPTION_REQUIRED
    <3>2. Shake!PlainIsWelcome
      BY <3>1 DEF NothingGoesWrong, Shake!PlainIsWelcome
    <3> QED
      BY <2>1, <3>2, Queues DEF Shake!Init, Plain, PlainSent, SideIs, Shake!TR_CLEAR_PREFERRED,
         Shake!TR_ENCRYPTION_REQUIRED
  <2>2. CASE conf.A # Shake!TR_CLEAR_PREFERRED
    <3>1. /\ SideIs(a, "AWAITING_YB", Shake!NONE, FALSE, "none") /\ toA = <<>> /\ toB = KeyOfA
          /\ SideIs(b, "AWAITING_HANDSHAKE", Shake!NONE, FALSE, "none") /\ isOpen /\ tries = 1
      BY <2>2 DEF Shake!Init, KeyOfA, SideIs
    <3>2. CASE conf.plainB
      BY <3>1, <3>2 DEF KeyRefused
    <3>3. CASE ~conf.plainB
      <4>0. 0 + 1 = 1
        OBVIOUS
      <4>1. SentByA = 2 /\ SentByB = 0 /\ AHasRead(0) /\ BHasRead(0)
        BY <3>1 DEF SentByA, SentByB, AHasRead, BHasRead, SideIs
      <4>2. SubSeq(StreamOfB, 0 + 1, 0) = <<>>
        BY StreamsAreSent, OnItsWay
      <4>3. Between(0, 0)
        <5>1. toA = SubSeq(StreamOfB, 0 + 1, SentByB) /\ toB = SubSeq(StreamOfA, 0 + 1, SentByA)
          BY <3>1, <4>0, <4>1, <4>2, StreamsInParts, Zenon
        <5>2. 0 <= SentByA /\ 0 <= SentByB
          BY <4>1
        <5> QED
          BY <4>1, <5>1, <5>2 DEF Between
      <4> QED
        BY <2>2, <3>1, <3>3, <4>3 DEF Encrypted
    <3> QED
      BY <3>2, <3>3
  <2> QED
    BY <2>1, <2>2
<1> QED
  BY <1>3, <1>4, <1>5 DEF ShakeInv, AgreeInv

\* The handshake (handshake.c): whatever the modes of the two sides, the failures of the network and
\* the number of tries, sides that both take it for done agree on the encryption, which is one that
\* both allow, and where nothing goes wrong neither of two compatible sides fails or waits in vain.
THEOREM HandshakeAgreement == Spec => []HandshakesAgree
<1> DEFINE Inv == focus = "handshake" => ShakeInv
<1>1. Init => Inv
  BY ShakeInit DEF Init
<1>2. Inv /\ [Next]_vars => Inv'
  <2> SUFFICES ASSUME Inv, [Next]_vars, focus' = "handshake"
               PROVE  ShakeInv'
    OBVIOUS
  <2>1. focus = "handshake" /\ ShakeInv
    BY DEF Next, vars
  <2>2. CASE Next
    <3>1. Shake!Next
      BY <2>1, <2>2 DEF Next
    <3> QED
      BY <2>1, <3>1, AgreeStep, GoesStep DEF ShakeInv
  <2>3. CASE UNCHANGED vars
    <3>1. UNCHANGED <<conf, a, b, toA, toB, isOpen, tries>>
      BY <2>3 DEF vars, shakeVars
    <3>2. AgreeInv'
      BY <2>1, <3>1 DEF ShakeInv, AgreeInv, ShakeTypes, BHasSent, AKnows, BKnows, Shake!PlainIsWelcome
    <3>3. NothingGoesWrong' => NothingGoesWrong
      BY <3>1 DEF NothingGoesWrong, Shake!Compatible
    <3>4. Plain => Plain'
      BY <3>1 DEF Plain, PlainSent, PlainAnswered, AReadsAnswer, SideIs, Shake!PlainIsWelcome
    <3>5. KeyRefused => KeyRefused'
      BY <3>1 DEF KeyRefused, SideIs
    <3>6. \A i \in 0 .. 6, j \in 0 .. 5 : Between(i, j) => Between(i, j)'
      BY <3>1 DEF Between, AHasRead, BHasRead, SentByA, SentByB, SideIs
    <3>7. Encrypted => Encrypted'
      BY <3>1, <3>6 DEF Encrypted
    <3> QED
      BY <2>1, <3>2, <3>3, <3>4, <3>5, <3>7 DEF ShakeInv, Goes
  <2> QED
    BY <2>2, <2>3
<1>3. Inv => HandshakesAgree
  BY ShakeInvSays DEF HandshakesAgree
<1> QED
  BY <1>1, <1>2, <1>3, PTL DEF Spec

-----------------------------------------------------------------------------
(* The wire protocol. *)

\* Messages about a piece are about one.
WireMsgs == {m \in [id : Wire!Ids, pieces : SUBSET TorrentPieces] :
               m.id \in Wire!OfPiece => \E p \in TorrentPieces : m.pieces = {p}}
WireEnds == [have : SUBSET TorrentPieces, peerHas : SUBSET TorrentPieces,
             peerIsChoked : BOOLEAN, clientIsChoked : BOOLEAN,
             peerIsInterested : BOOLEAN, clientIsInterested : BOOLEAN,
             peerAskedFor : Seq(TorrentPieces), requested : SUBSET TorrentPieces,
             reading : SUBSET TorrentPieces, outMessages : Seq(WireMsgs)]
WireTypes == msgs \in [Clients -> WireEnds] /\ wire \in [Clients -> Seq(WireMsgs)] /\ fext \in BOOLEAN

Starting == {"bitfield", "have all", "have none"}

\* Once s is read the flag is on whatever it was; if it was on, it stays.
TurnsOn(s, yes, no) == \E i \in 1 .. Len(s) : s[i].id = yes /\ \A j \in i + 1 .. Len(s) : s[j].id # no
StaysOn(s, no) == \A j \in 1 .. Len(s) : s[j].id # no

\* Nothing about what the sender has precedes the message that starts with it.
StartsClean(s) == \A i, j \in 1 .. Len(s) : i < j /\ s[j].id \in Starting => s[i].id \notin Starting \cup {"have"}

Says(s, ids, p) == \E i \in 1 .. Len(s) : s[i].id \in ids /\ p \in s[i].pieces
TellsOf(s, p)   == Says(s, {"have", "bitfield"}, p) \/ \E i \in 1 .. Len(s) : s[i].id = "have all"

\* After a cancel the piece is asked for again.
AsksAgain(s, p) == \A j \in 1 .. Len(s) :
  s[j].id = "cancel" /\ p \in s[j].pieces => \E k \in j + 1 .. Len(s) : s[k].id = "request" /\ p \in s[k].pieces

\* t is s with more messages, with these ids, anywhere.
Adds(s, t, ids) == \E h \in [1 .. Len(s) -> 1 .. Len(t)] :
  /\ \A i \in 1 .. Len(s) : t[h[i]] = s[i]
  /\ \A i, j \in 1 .. Len(s) : i < j => h[i] < h[j]
  /\ \A k \in 1 .. Len(t) : t[k].id \in ids \/ \E i \in 1 .. Len(s) : k = h[i]

LEMMA AddsNoFlag ==
  ASSUME NEW s \in Seq(WireMsgs), NEW t \in Seq(WireMsgs), NEW ids, Adds(s, t, ids),
         NEW yes, NEW no, yes \notin ids, no \notin ids
  PROVE  (TurnsOn(t, yes, no) <=> TurnsOn(s, yes, no)) /\ (StaysOn(t, no) <=> StaysOn(s, no))
<1>1. PICK h \in [1 .. Len(s) -> 1 .. Len(t)] :
        /\ \A i \in 1 .. Len(s) : t[h[i]] = s[i]
        /\ \A i, j \in 1 .. Len(s) : i < j => h[i] < h[j]
        /\ \A k \in 1 .. Len(t) : t[k].id \in ids \/ \E i \in 1 .. Len(s) : k = h[i]
  BY DEF Adds
<1>2. Len(s) \in Nat /\ Len(t) \in Nat /\ \A i \in 1 .. Len(s) : h[i] \in 1 .. Len(t)
  BY <1>1
<1>3. \A k \in 1 .. Len(t) : t[k].id \in {yes, no} => \E i \in 1 .. Len(s) : k = h[i] /\ s[i] = t[k]
  BY <1>1
<1>4. \A i, j \in 1 .. Len(s) : h[i] < h[j] => i < j
  BY <1>1, <1>2
<1>5. (\A j \in 1 .. Len(t) : t[j].id # no) <=> (\A j \in 1 .. Len(s) : s[j].id # no)
  BY <1>1, <1>2, <1>3
<1>6. ASSUME NEW i \in 1 .. Len(s)
      PROVE  (\A j \in h[i] + 1 .. Len(t) : t[j].id # no) <=> (\A j \in i + 1 .. Len(s) : s[j].id # no)
  <2>1. ASSUME NEW j \in i + 1 .. Len(s), s[j].id = no
        PROVE  h[j] \in h[i] + 1 .. Len(t) /\ t[h[j]].id = no
    <3>1. j \in 1 .. Len(s) /\ i < j
      BY <1>2
    <3> QED
      BY <1>1, <1>2, <2>1, <3>1
  <2>2. ASSUME NEW j \in h[i] + 1 .. Len(t), t[j].id = no
        PROVE  \E k \in i + 1 .. Len(s) : s[k].id = no
    <3>1. j \in 1 .. Len(t) /\ h[i] < j
      BY <1>2
    <3>2. PICK k \in 1 .. Len(s) : j = h[k] /\ s[k] = t[j]
      BY <1>3, <2>2, <3>1
    <3>3. i < k
      BY <1>4, <3>1, <3>2
    <3> QED
      BY <1>2, <2>2, <3>2, <3>3
  <2> QED
    BY <2>1, <2>2
<1>7. (\E i \in 1 .. Len(s) : s[i].id = yes /\ \A j \in i + 1 .. Len(s) : s[j].id # no)
        <=> (\E i \in 1 .. Len(t) : t[i].id = yes /\ \A j \in i + 1 .. Len(t) : t[j].id # no)
  <2>1. ASSUME NEW i \in 1 .. Len(s), s[i].id = yes, \A j \in i + 1 .. Len(s) : s[j].id # no
        PROVE  \E k \in 1 .. Len(t) : t[k].id = yes /\ \A j \in k + 1 .. Len(t) : t[j].id # no
    <3>1. t[h[i]].id = yes /\ \A j \in h[i] + 1 .. Len(t) : t[j].id # no
      BY <1>1, <1>6, <2>1
    <3> QED
      BY <1>2, <3>1
  <2>2. ASSUME NEW k \in 1 .. Len(t), t[k].id = yes, \A j \in k + 1 .. Len(t) : t[j].id # no
        PROVE  \E i \in 1 .. Len(s) : s[i].id = yes /\ \A j \in i + 1 .. Len(s) : s[j].id # no
    <3>1. PICK i \in 1 .. Len(s) : k = h[i] /\ s[i] = t[k]
      BY <1>3, <2>2
    <3> QED
      BY <1>6, <2>2, <3>1
  <2> QED
    BY <2>1, <2>2
<1> QED
  BY <1>5, <1>7 DEF TurnsOn, StaysOn

LEMMA AddsRest ==
  ASSUME NEW s \in Seq(WireMsgs), NEW t \in Seq(WireMsgs), NEW ids, Adds(s, t, ids)
  PROVE  /\ ids \cap (Starting \cup {"have"}) = {} /\ StartsClean(s) => StartsClean(t)
         /\ \A i \in 1 .. Len(s) : \E k \in 1 .. Len(t) : t[k] = s[i]
         /\ \A k \in 1 .. Len(t) : t[k].id \in ids \/ \E i \in 1 .. Len(s) : t[k] = s[i]
         /\ \A p : "cancel" \notin ids /\ AsksAgain(s, p) => AsksAgain(t, p)
<1>1. PICK h \in [1 .. Len(s) -> 1 .. Len(t)] :
        /\ \A i \in 1 .. Len(s) : t[h[i]] = s[i]
        /\ \A i, j \in 1 .. Len(s) : i < j => h[i] < h[j]
        /\ \A k \in 1 .. Len(t) : t[k].id \in ids \/ \E i \in 1 .. Len(s) : k = h[i]
  BY DEF Adds
<1>2. Len(s) \in Nat /\ Len(t) \in Nat /\ \A i \in 1 .. Len(s) : h[i] \in 1 .. Len(t)
  BY <1>1
<1>3. \A i, j \in 1 .. Len(s) : h[i] < h[j] => i < j
  BY <1>1, <1>2
<1>4. ASSUME ids \cap (Starting \cup {"have"}) = {}, StartsClean(s)
      PROVE  StartsClean(t)
  <2> SUFFICES ASSUME NEW i \in 1 .. Len(t), NEW j \in 1 .. Len(t), i < j, t[j].id \in Starting,
                      t[i].id \in Starting \cup {"have"}
               PROVE  FALSE
    BY DEF StartsClean
  <2>1. PICK k \in 1 .. Len(s) : i = h[k]
    BY <1>1, <1>4
  <2>2. PICK l \in 1 .. Len(s) : j = h[l]
    BY <1>1, <1>4
  <2>3. k < l /\ s[k] = t[i] /\ s[l] = t[j]
    BY <1>1, <1>3, <2>1, <2>2
  <2> QED
    BY <1>4, <2>3 DEF StartsClean
<1>5. ASSUME NEW p, "cancel" \notin ids, AsksAgain(s, p)
      PROVE  AsksAgain(t, p)
  <2> SUFFICES ASSUME NEW j \in 1 .. Len(t), t[j].id = "cancel", p \in t[j].pieces
               PROVE  \E k \in j + 1 .. Len(t) : t[k].id = "request" /\ p \in t[k].pieces
    BY DEF AsksAgain
  <2>1. PICK i \in 1 .. Len(s) : j = h[i]
    BY <1>1, <1>5
  <2>2. PICK l \in i + 1 .. Len(s) : s[l].id = "request" /\ p \in s[l].pieces
    BY <1>1, <1>5, <2>1 DEF AsksAgain
  <2>3. l \in 1 .. Len(s) /\ i < l
    BY <1>2
  <2>4. h[l] \in j + 1 .. Len(t) /\ t[h[l]] = s[l]
    BY <1>1, <1>2, <2>1, <2>3
  <2> QED
    BY <2>2, <2>4
<1>6. \A i \in 1 .. Len(s) : \E k \in 1 .. Len(t) : t[k] = s[i]
  BY <1>1, <1>2
<1>7. \A k \in 1 .. Len(t) : t[k].id \in ids \/ \E i \in 1 .. Len(s) : t[k] = s[i]
  BY <1>1
<1> QED
  BY <1>4, <1>5, <1>6, <1>7

\* One more message at the end.
LEMMA AppendIs ==
  ASSUME NEW s \in Seq(WireMsgs), NEW m \in WireMsgs
  PROVE  LET t == Append(s, m) IN
         /\ t \in Seq(WireMsgs)
         /\ \A yes, no : yes # no =>
              (TurnsOn(t, yes, no) <=> m.id = yes \/ (m.id # no /\ TurnsOn(s, yes, no)))
         /\ \A no : StaysOn(t, no) <=> StaysOn(s, no) /\ m.id # no
         /\ m.id \notin Starting /\ StartsClean(s) => StartsClean(t)
         /\ \A i \in 1 .. Len(t) : t[i] = m \/ \E k \in 1 .. Len(s) : t[i] = s[k]
         /\ \A i \in 1 .. Len(s) : \E k \in 1 .. Len(t) : t[k] = s[i]
         /\ \E k \in 1 .. Len(t) : t[k] = m
         /\ \A p : ~(m.id = "cancel" /\ p \in m.pieces) /\ AsksAgain(s, p) => AsksAgain(t, p)
<1> DEFINE t == Append(s, m)
           n == Len(s)
<1>1. /\ t \in Seq(WireMsgs) /\ n \in Nat /\ Len(t) = n + 1 /\ t[n + 1] = m
      /\ \A i \in 1 .. n : t[i] = s[i]
  OBVIOUS
<1> HIDE DEF t, n
<1>2. 1 .. Len(t) = (1 .. n) \cup {n + 1}
  BY <1>1
<1>3. ASSUME NEW yes, NEW no, yes # no
      PROVE  TurnsOn(t, yes, no) <=> m.id = yes \/ (m.id # no /\ TurnsOn(s, yes, no))
  <2>1. CASE m.id = yes
    <3>1. \A j \in (n + 1) + 1 .. Len(t) : t[j].id # no
      BY <1>1
    <3>2. n + 1 \in 1 .. Len(t) /\ t[n + 1].id = yes
      BY <1>1, <2>1
    <3> QED
      BY <2>1, <3>1, <3>2 DEF TurnsOn
  <2>2. CASE m.id = no
    <3>1. n + 1 \in 1 .. Len(t) /\ t[n + 1].id = no /\ t[n + 1].id # yes
      BY <1>1, <1>3, <2>2
    <3>2. \A i \in 1 .. Len(t) : t[i].id = yes => n + 1 \in i + 1 .. Len(t)
      BY <1>1, <3>1
    <3> QED
      BY <1>3, <2>2, <3>1, <3>2 DEF TurnsOn
  <2>3. CASE m.id # yes /\ m.id # no
    <3>1. ASSUME NEW i \in 1 .. n
          PROVE  (\A j \in i + 1 .. Len(t) : t[j].id # no) <=> (\A j \in i + 1 .. n : s[j].id # no)
      <4>1. i + 1 .. Len(t) = (i + 1 .. n) \cup {n + 1} /\ i + 1 .. n \subseteq 1 .. n
        BY <1>1
      <4> QED
        BY <1>1, <2>3, <4>1
    <3>2. \A i \in 1 .. Len(t) : t[i].id = yes => i \in 1 .. n /\ s[i].id = yes
      BY <1>1, <1>2, <2>3
    <3>3. \A i \in 1 .. n : i \in 1 .. Len(t) /\ t[i] = s[i]
      BY <1>1
    <3> QED
      BY <2>3, <3>1, <3>2, <3>3 DEF TurnsOn, n
  <2> QED
    BY <2>1, <2>2, <2>3
<1>7. \A no : StaysOn(t, no) <=> StaysOn(s, no) /\ m.id # no
  BY <1>1, <1>2 DEF StaysOn, n
<1>4. ASSUME m.id \notin Starting, StartsClean(s)
      PROVE  StartsClean(t)
  <2> SUFFICES ASSUME NEW i \in 1 .. Len(t), NEW j \in 1 .. Len(t), i < j, t[j].id \in Starting
               PROVE  t[i].id \notin Starting \cup {"have"}
    BY DEF StartsClean
  <2>1. j \in 1 .. n
    BY <1>1, <1>2, <1>4
  <2>2. i \in 1 .. n
    BY <1>1, <2>1
  <2> QED
    BY <1>1, <1>4, <2>1, <2>2 DEF StartsClean, n
<1>5. ASSUME NEW p, ~(m.id = "cancel" /\ p \in m.pieces), AsksAgain(s, p)
      PROVE  AsksAgain(t, p)
  <2> SUFFICES ASSUME NEW j \in 1 .. Len(t), t[j].id = "cancel", p \in t[j].pieces
               PROVE  \E k \in j + 1 .. Len(t) : t[k].id = "request" /\ p \in t[k].pieces
    BY DEF AsksAgain
  <2>1. j \in 1 .. n
    BY <1>1, <1>2, <1>5
  <2>2. PICK k \in j + 1 .. n : s[k].id = "request" /\ p \in s[k].pieces
    BY <1>1, <1>5, <2>1 DEF AsksAgain, n
  <2>3. k \in 1 .. n /\ k \in j + 1 .. Len(t)
    BY <1>1, <2>1
  <2> QED
    BY <1>1, <2>2, <2>3
<1>6. /\ \A i \in 1 .. Len(t) : t[i] = m \/ \E k \in 1 .. n : t[i] = s[k]
      /\ \A i \in 1 .. n : \E k \in 1 .. Len(t) : t[k] = s[i]
      /\ \E k \in 1 .. Len(t) : t[k] = m
  BY <1>1, <1>2
<1> QED
  BY <1>1, <1>3, <1>4, <1>5, <1>6, <1>7 DEF t, n

LEMMA FirstIs ==
  ASSUME NEW S, NEW s \in Seq(S), s # <<>>
  PROVE  /\ Len(s) \in Nat /\ 1 \in 1 .. Len(s) /\ s[1] = Head(s)
         /\ \A i \in 1 + 1 .. Len(s) : i \in 1 .. Len(s)
OBVIOUS

\* The first message is read.
LEMMA TailIs ==
  ASSUME NEW s \in Seq(WireMsgs), s # <<>>
  PROVE  LET t == Tail(s)
             m == Head(s) IN
         /\ t \in Seq(WireMsgs) /\ m \in WireMsgs
         /\ \A yes, no : TurnsOn(s, yes, no) <=> TurnsOn(t, yes, no) \/ (m.id = yes /\ StaysOn(t, no))
         /\ \A no : StaysOn(s, no) <=> m.id # no /\ StaysOn(t, no)
         /\ StartsClean(s) => StartsClean(t)
         /\ \A i \in 1 .. Len(s) : s[i] = m \/ \E k \in 1 .. Len(t) : t[k] = s[i]
         /\ \A i \in 1 .. Len(t) : \E k \in 1 .. Len(s) : t[i] = s[k] /\ k > 1
         /\ \A p : AsksAgain(s, p) => AsksAgain(t, p)
<1> DEFINE t == Tail(s)
           m == Head(s)
           n == Len(s)
<1>1. /\ t \in Seq(WireMsgs) /\ m \in WireMsgs /\ n \in Nat \ {0} /\ Len(t) = n - 1 /\ m = s[1]
      /\ \A i \in 1 .. n - 1 : t[i] = s[i + 1]
  OBVIOUS
<1> HIDE DEF t, n, m
<1>2. ASSUME NEW yes, NEW no
      PROVE  /\ TurnsOn(s, yes, no) <=> TurnsOn(t, yes, no) \/ (m.id = yes /\ StaysOn(t, no))
             /\ StaysOn(s, no) <=> m.id # no /\ StaysOn(t, no)
  <2>1. ASSUME NEW i \in 1 .. Len(t)
        PROVE  (\A j \in i + 1 .. Len(t) : t[j].id # no) <=> (\A j \in (i + 1) + 1 .. n : s[j].id # no)
    <3>1. \A j \in i + 1 .. Len(t) : j + 1 \in (i + 1) + 1 .. n /\ t[j] = s[j + 1]
      BY <1>1
    <3>2. \A j \in (i + 1) + 1 .. n : j - 1 \in i + 1 .. Len(t) /\ t[j - 1] = s[j]
      BY <1>1
    <3> QED
      BY <3>1, <3>2
  <2>2. (\A j \in 1 .. Len(t) : t[j].id # no) <=> (\A j \in 1 + 1 .. n : s[j].id # no)
    <3>1. \A j \in 1 .. Len(t) : j + 1 \in 1 + 1 .. n /\ t[j] = s[j + 1]
      BY <1>1
    <3>2. \A j \in 1 + 1 .. n : j - 1 \in 1 .. Len(t) /\ t[j - 1] = s[j]
      BY <1>1
    <3> QED
      BY <3>1, <3>2
  <2>3. (\E i \in 1 .. Len(t) : t[i].id = yes /\ \A j \in i + 1 .. Len(t) : t[j].id # no)
          <=> (\E i \in 1 + 1 .. n : s[i].id = yes /\ \A j \in i + 1 .. n : s[j].id # no)
    <3>1. ASSUME NEW i \in 1 .. Len(t), t[i].id = yes, \A j \in i + 1 .. Len(t) : t[j].id # no
          PROVE  i + 1 \in 1 + 1 .. n /\ s[i + 1].id = yes /\ \A j \in (i + 1) + 1 .. n : s[j].id # no
      <4>1. i + 1 \in 1 + 1 .. n /\ s[i + 1] = t[i]
        BY <1>1
      <4>2. \A j \in (i + 1) + 1 .. n : s[j].id # no
        BY <2>1, <3>1
      <4> QED
        BY <3>1, <4>1, <4>2
    <3>2. ASSUME NEW i \in 1 + 1 .. n, s[i].id = yes, \A j \in i + 1 .. n : s[j].id # no
          PROVE  i - 1 \in 1 .. Len(t) /\ t[i - 1].id = yes /\ \A j \in (i - 1) + 1 .. Len(t) : t[j].id # no
      <4>1. i - 1 \in 1 .. Len(t) /\ (i - 1) + 1 = i
        BY <1>1
      <4> QED
        BY <1>1, <2>1, <3>2, <4>1
    <3> QED
      BY <3>1, <3>2
  <2>4. 1 .. n = {1} \cup (1 + 1 .. n)
    BY <1>1
  <2>5. (\A j \in 1 .. n : s[j].id # no) <=> m.id # no /\ \A j \in 1 + 1 .. n : s[j].id # no
    BY <1>1, <2>4
  <2>6. (\E i \in 1 .. n : s[i].id = yes /\ \A j \in i + 1 .. n : s[j].id # no)
          <=> \/ m.id = yes /\ \A j \in 1 + 1 .. n : s[j].id # no
              \/ \E i \in 1 + 1 .. n : s[i].id = yes /\ \A j \in i + 1 .. n : s[j].id # no
    BY <1>1, <2>4
  <2> QED
    BY <2>2, <2>3, <2>5, <2>6 DEF TurnsOn, StaysOn, n
<1>3. ASSUME StartsClean(s)
      PROVE  StartsClean(t)
  <2> SUFFICES ASSUME NEW i \in 1 .. Len(t), NEW j \in 1 .. Len(t), i < j, t[j].id \in Starting
               PROVE  t[i].id \notin Starting \cup {"have"}
    BY DEF StartsClean
  <2>1. i + 1 \in 1 .. n /\ j + 1 \in 1 .. n /\ i + 1 < j + 1 /\ t[i] = s[i + 1] /\ t[j] = s[j + 1]
    BY <1>1
  <2> QED
    BY <1>3, <2>1 DEF StartsClean, n
<1>4. ASSUME NEW p, AsksAgain(s, p)
      PROVE  AsksAgain(t, p)
  <2> SUFFICES ASSUME NEW j \in 1 .. Len(t), t[j].id = "cancel", p \in t[j].pieces
               PROVE  \E k \in j + 1 .. Len(t) : t[k].id = "request" /\ p \in t[k].pieces
    BY DEF AsksAgain
  <2>1. j + 1 \in 1 .. n /\ t[j] = s[j + 1]
    BY <1>1
  <2>2. PICK k \in (j + 1) + 1 .. n : s[k].id = "request" /\ p \in s[k].pieces
    BY <1>4, <2>1 DEF AsksAgain, n
  <2>3. k - 1 \in j + 1 .. Len(t) /\ t[k - 1] = s[k]
    BY <1>1, <2>1
  <2> QED
    BY <2>2, <2>3
<1>5. \A i \in 1 .. n : s[i] = m \/ \E k \in 1 .. Len(t) : t[k] = s[i]
  <2> TAKE i \in 1 .. n
  <2>1. i = 1 \/ (i - 1 \in 1 .. Len(t) /\ t[i - 1] = s[i])
    BY <1>1
  <2> QED
    BY <1>1, <2>1
<1>6. \A i \in 1 .. Len(t) : \E k \in 1 .. n : t[i] = s[k] /\ k > 1
  <2> TAKE i \in 1 .. Len(t)
  <2>1. i + 1 \in 1 .. n /\ t[i] = s[i + 1] /\ i + 1 > 1
    BY <1>1
  <2> QED
    BY <2>1
<1> QED
  BY <1>1, <1>2, <1>3, <1>4, <1>5, <1>6 DEF t, m, n

LEMMA Joined ==
  ASSUME NEW S, NEW x \in Seq(S), NEW y \in Seq(S)
  PROVE  /\ x \o y \in Seq(S) /\ Len(x \o y) = Len(x) + Len(y)
         /\ \A i \in 1 .. Len(x) : (x \o y)[i] = x[i]
         /\ \A i \in 1 .. Len(y) : (x \o y)[Len(x) + i] = y[i]
OBVIOUS

\* More messages before some that wait, and after them.
LEMMA InsertIs ==
  ASSUME NEW w \in Seq(WireMsgs), NEW p \in Seq(WireMsgs), NEW o \in Seq(WireMsgs), NEW q \in Seq(WireMsgs),
         NEW ids, \A i \in 1 .. Len(p) : p[i].id \in ids, \A i \in 1 .. Len(q) : q[i].id \in ids
  PROVE  LET t == (w \o p) \o (o \o q) IN
         /\ t \in Seq(WireMsgs) /\ Adds(w \o o, t, ids)
         /\ \A k \in 1 .. Len(p) : \E l \in 1 .. Len(t) : t[l] = p[k]
         /\ \A k \in 1 .. Len(q) : \E l \in 1 .. Len(t) : t[l] = q[k]
         /\ \A x : "cancel" \notin ids /\ Says(q, {"request"}, x) => AsksAgain(t, x)
<1> DEFINE t == (w \o p) \o (o \o q)
           s == w \o o
           a1 == Len(w)
           a2 == Len(p)
           a3 == Len(o)
           a4 == Len(q)
           h == [i \in 1 .. Len(s) |-> IF i <= a1 THEN i ELSE i + a2]
<1>1. a1 \in Nat /\ a2 \in Nat /\ a3 \in Nat /\ a4 \in Nat
  OBVIOUS
<1>2. /\ s \in Seq(WireMsgs) /\ Len(s) = a1 + a3
      /\ \A i \in 1 .. a1 : s[i] = w[i]
      /\ \A i \in 1 .. a3 : s[a1 + i] = o[i]
  OBVIOUS
<1>3. /\ t \in Seq(WireMsgs) /\ Len(t) = a1 + a2 + a3 + a4
      /\ \A i \in 1 .. a1 : t[i] = w[i]
      /\ \A i \in 1 .. a2 : t[a1 + i] = p[i]
      /\ \A i \in 1 .. a3 : t[a1 + a2 + i] = o[i]
      /\ \A i \in 1 .. a4 : t[a1 + a2 + a3 + i] = q[i]
  <2> DEFINE u == w \o p
             v == o \o q
  <2>1. /\ u \in Seq(WireMsgs) /\ Len(u) = a1 + a2
        /\ \A i \in 1 .. a1 : u[i] = w[i]
        /\ \A i \in 1 .. a2 : u[a1 + i] = p[i]
    BY Joined
  <2>2. /\ v \in Seq(WireMsgs) /\ Len(v) = a3 + a4
        /\ \A i \in 1 .. a3 : v[i] = o[i]
        /\ \A i \in 1 .. a4 : v[a3 + i] = q[i]
    BY Joined
  <2> HIDE DEF u, v, a1, a2, a3, a4
  <2>3. /\ u \o v \in Seq(WireMsgs) /\ Len(u \o v) = Len(u) + Len(v)
        /\ \A i \in 1 .. Len(u) : (u \o v)[i] = u[i]
        /\ \A i \in 1 .. Len(v) : (u \o v)[Len(u) + i] = v[i]
    <3>1. u \in Seq(WireMsgs) /\ v \in Seq(WireMsgs)
      BY <2>1, <2>2
    <3> QED
      BY <3>1, Joined
  <2>4. t = u \o v
    BY DEF u, v
  <2>5. \A i \in 1 .. a1 : t[i] = w[i]
    BY <1>1, <2>1, <2>3, <2>4
  <2>6. \A i \in 1 .. a2 : t[a1 + i] = p[i]
    BY <1>1, <2>1, <2>3, <2>4
  <2>7. \A i \in 1 .. a3 : t[a1 + a2 + i] = o[i]
    BY <1>1, <2>1, <2>2, <2>3, <2>4
  <2>8. \A i \in 1 .. a4 : t[a1 + a2 + a3 + i] = q[i]
    <3> TAKE i \in 1 .. a4
    <3>1. a3 + i \in 1 .. Len(v) /\ v[a3 + i] = q[i]
      BY <1>1, <2>2
    <3>2. t[Len(u) + (a3 + i)] = v[a3 + i]
      BY <2>3, <2>4, <3>1
    <3>3. Len(u) + (a3 + i) = a1 + a2 + a3 + i
      BY <1>1, <2>1
    <3> QED
      BY <3>1, <3>2, <3>3
  <2>9. t \in Seq(WireMsgs) /\ Len(t) = a1 + a2 + a3 + a4
    BY <1>1, <2>1, <2>2, <2>3, <2>4
  <2> HIDE DEF t
  <2> QED
    BY <2>5, <2>6, <2>7, <2>8, <2>9
<1> HIDE DEF t, s, a1, a2, a3, a4
<1>4. \A i \in 1 .. Len(s) : h[i] \in 1 .. Len(t) /\ h[i] <= a1 + a2 + a3 /\ t[h[i]] = s[i]
  <2> TAKE i \in 1 .. Len(s)
  <2>1. CASE i <= a1
    BY <1>1, <1>2, <1>3, <2>1
  <2>2. CASE ~(i <= a1)
    <3>1. i - a1 \in 1 .. a3 /\ a1 + (i - a1) = i /\ a1 + a2 + (i - a1) = i + a2
      BY <1>1, <1>2, <2>2
    <3>2. s[i] = o[i - a1] /\ t[i + a2] = o[i - a1]
      BY <1>2, <1>3, <3>1
    <3> QED
      BY <1>1, <1>2, <1>3, <2>2, <3>2
  <2> QED
    BY <2>1, <2>2
<1>5. \A i, j \in 1 .. Len(s) : i < j => h[i] < h[j]
  BY <1>1, <1>2
<1>6. \A k \in 1 .. Len(t) : t[k].id \in ids \/ \E i \in 1 .. Len(s) : k = h[i]
  <2> TAKE k \in 1 .. Len(t)
  <2>1. CASE k <= a1
    <3>1. k \in 1 .. Len(s) /\ h[k] = k
      BY <1>1, <1>2, <1>3, <2>1
    <3> QED
      BY <3>1
  <2>2. CASE a1 < k /\ k <= a1 + a2
    <3>1. k - a1 \in 1 .. a2 /\ a1 + (k - a1) = k
      BY <1>1, <1>3, <2>2
    <3> QED
      BY <1>3, <3>1 DEF a2
  <2>3. CASE a1 + a2 < k /\ k <= a1 + a2 + a3
    <3>1. k - a2 \in 1 .. Len(s) /\ h[k - a2] = k
      BY <1>1, <1>2, <1>3, <2>3
    <3> QED
      BY <3>1
  <2>4. CASE a1 + a2 + a3 < k
    <3>1. k - (a1 + a2 + a3) \in 1 .. a4 /\ a1 + a2 + a3 + (k - (a1 + a2 + a3)) = k
      BY <1>1, <1>3, <2>4
    <3> QED
      BY <1>3, <3>1 DEF a4
  <2> QED
    BY <1>1, <1>3, <2>1, <2>2, <2>3, <2>4
<1>7. h \in [1 .. Len(s) -> 1 .. Len(t)]
  BY <1>4
<1> HIDE DEF h
<1>8. Adds(s, t, ids)
  BY <1>4, <1>5, <1>6, <1>7 DEF Adds
<1>9. \A k \in 1 .. a2 : \E l \in 1 .. Len(t) : t[l] = p[k]
  <2> TAKE k \in 1 .. a2
  <2>1. a1 + k \in 1 .. Len(t) /\ t[a1 + k] = p[k]
    BY <1>1, <1>3
  <2> QED
    BY <2>1
<1>10. \A k \in 1 .. a4 : \E l \in 1 .. Len(t) : t[l] = q[k] /\ l > a1 + a2 + a3
  <2> TAKE k \in 1 .. a4
  <2>1. /\ a1 + a2 + a3 + k \in 1 .. Len(t) /\ t[a1 + a2 + a3 + k] = q[k]
        /\ a1 + a2 + a3 + k > a1 + a2 + a3
    BY <1>1, <1>3
  <2> QED
    BY <2>1
<1>11. ASSUME NEW x, "cancel" \notin ids, Says(q, {"request"}, x)
       PROVE  AsksAgain(t, x)
  <2> SUFFICES ASSUME NEW j \in 1 .. Len(t), t[j].id = "cancel"
               PROVE  \E k \in j + 1 .. Len(t) : t[k].id = "request" /\ x \in t[k].pieces
    BY DEF AsksAgain
  <2>1. j <= a1 + a2 + a3
    BY <1>4, <1>6, <1>11
  <2>2. PICK i \in 1 .. a4 : q[i].id \in {"request"} /\ x \in q[i].pieces
    BY <1>11 DEF Says, a4
  <2>3. PICK l \in 1 .. Len(t) : t[l] = q[i] /\ l > a1 + a2 + a3
    BY <1>10
  <2>4. l \in j + 1 .. Len(t)
    BY <1>1, <1>3, <2>1, <2>3
  <2> QED
    BY <2>2, <2>3, <2>4
<1> QED
  BY <1>3, <1>8, <1>9, <1>10, <1>11 DEF t, s, a2, a4

-----------------------------------------------------------------------------
\* What each end says to the other: e of one that has still s to say to o, and will hear t.
Asked(o, p) == \E i \in 1 .. Len(o.peerAskedFor) : o.peerAskedFor[i] = p

FlagsAgree(e, o, s) ==
  /\ e.peerIsChoked <=> TurnsOn(s, "choke", "unchoke") \/ (o.clientIsChoked /\ StaysOn(s, "unchoke"))
  /\ e.clientIsInterested <=> \/ TurnsOn(s, "interested", "not interested")
                              \/ o.peerIsInterested /\ StaysOn(s, "not interested")
StartsFirst(o, s)     == StartsClean(s) /\ \A j \in 1 .. Len(s) : s[j].id \in Starting => o.peerHas = {}
HavesAreTold(e, o, s) == \A p \in e.have : p \in o.peerHas \/ TellsOf(s, p)
RequestsLive(ext, e, o, s, t) == ext => \A p \in e.requested :
  Says(s, {"request"}, p) \/ Says(t, {"piece", "reject"}, p) \/ Asked(o, p)
CancelsAreOver(e, s)  == \A p \in e.requested : AsksAgain(s, p)

OneWay(ext, e, o, s, t) == /\ FlagsAgree(e, o, s) /\ StartsFirst(o, s) /\ HavesAreTold(e, o, s)
                           /\ RequestsLive(ext, e, o, s, t) /\ CancelsAreOver(e, s)
OwnIsKept(e) == /\ e.requested \cap e.have = {}
                /\ e.peerIsChoked => e.peerAskedFor = <<>>
                /\ Len(e.peerAskedFor) < REQQ
Pair(ext, e, o, s, t) == /\ OneWay(ext, e, o, s, t) /\ OneWay(ext, o, e, t, s)
                         /\ OwnIsKept(e) /\ OwnIsKept(o)

WireInv == WireTypes /\ \A c \in Clients : LET d == Wire!Peer(c) IN
                          Pair(fext, msgs[c], msgs[d], Wire!InFlight(c), Wire!InFlight(d))

-----------------------------------------------------------------------------
\* What a sequence says, a sequence with its messages says.
LEMMA SaidStill ==
  ASSUME NEW s, NEW u, \A i \in 1 .. Len(s) : \E k \in 1 .. Len(u) : u[k] = s[i]
  PROVE  /\ \A ids, p : Says(s, ids, p) => Says(u, ids, p)
         /\ \A p : TellsOf(s, p) => TellsOf(u, p)
<1>1. \A ids, p : Says(s, ids, p) => Says(u, ids, p)
  <2> SUFFICES ASSUME NEW ids, NEW p, Says(s, ids, p)
               PROVE  Says(u, ids, p)
    OBVIOUS
  <2>1. PICK i \in 1 .. Len(s) : s[i].id \in ids /\ p \in s[i].pieces
    BY DEF Says
  <2>2. PICK k \in 1 .. Len(u) : u[k] = s[i]
    OBVIOUS
  <2>3. u[k].id \in ids /\ p \in u[k].pieces
    BY <2>1, <2>2
  <2> QED
    BY <2>3 DEF Says
<1>2. (\E i \in 1 .. Len(s) : s[i].id = "have all") => \E i \in 1 .. Len(u) : u[i].id = "have all"
  <2> SUFFICES ASSUME NEW i \in 1 .. Len(s), s[i].id = "have all"
               PROVE  \E k \in 1 .. Len(u) : u[k].id = "have all"
    OBVIOUS
  <2>1. PICK k \in 1 .. Len(u) : u[k] = s[i]
    OBVIOUS
  <2> QED
    BY <2>1
<1> QED
  BY <1>1, <1>2 DEF TellsOf

\* The messages of s are m and those of u.
RestIs(s, m, u) == \A i \in 1 .. Len(s) : s[i] = m \/ \E k \in 1 .. Len(u) : u[k] = s[i]

\* What a sequence tells of, its first message tells of or the others do.
LEMMA SaidByRest ==
  ASSUME NEW s, NEW m, NEW u, NEW p, TellsOf(s, p), RestIs(s, m, u)
  PROVE  \/ TellsOf(u, p)
         \/ m.id \in {"have", "bitfield"} /\ p \in m.pieces
         \/ m.id = "have all"
<1> USE DEF RestIs
<1>1. CASE Says(s, {"have", "bitfield"}, p)
  <2>1. PICK i \in 1 .. Len(s) : s[i].id \in {"have", "bitfield"} /\ p \in s[i].pieces
    BY <1>1 DEF Says
  <2>2. CASE s[i] = m
    BY <2>1, <2>2
  <2>3. ASSUME NEW k \in 1 .. Len(u), u[k] = s[i]
        PROVE  TellsOf(u, p)
    <3>1. u[k].id \in {"have", "bitfield"} /\ p \in u[k].pieces
      BY <2>1, <2>3
    <3>2. Says(u, {"have", "bitfield"}, p)
      BY <3>1 DEF Says
    <3> QED
      BY <3>2 DEF TellsOf
  <2> QED
    BY <2>2, <2>3
<1>2. ASSUME NEW i \in 1 .. Len(s), s[i].id = "have all"
      PROVE  TellsOf(u, p) \/ m.id = "have all"
  <2>1. CASE s[i] = m
    BY <1>2, <2>1
  <2>2. ASSUME NEW k \in 1 .. Len(u), u[k] = s[i]
        PROVE  TellsOf(u, p)
    <3>1. u[k].id = "have all"
      BY <1>2, <2>2
    <3> QED
      BY <3>1 DEF TellsOf
  <2> QED
    BY <2>1, <2>2
<1> QED
  BY <1>1, <1>2 DEF TellsOf

\* e sends one message, after all that it has to say.
LEMMA OneMore ==
  ASSUME NEW ext \in BOOLEAN, NEW e \in WireEnds, NEW o \in WireEnds, NEW f \in WireEnds,
         NEW s \in Seq(WireMsgs), NEW t \in Seq(WireMsgs), NEW m \in WireMsgs, OneWay(ext, e, o, s, t),
         m.id \notin Starting,
         f.peerIsChoked = IF m.id = "choke" THEN TRUE ELSE IF m.id = "unchoke" THEN FALSE ELSE e.peerIsChoked,
         f.clientIsInterested = IF m.id = "interested" THEN TRUE
                                ELSE IF m.id = "not interested" THEN FALSE ELSE e.clientIsInterested,
         \A p \in f.have : p \in e.have \/ (m.id = "have" /\ p \in m.pieces),
         f.requested \subseteq e.requested,
         m.id = "cancel" => f.requested \cap m.pieces = {}
  PROVE  OneWay(ext, f, o, Append(s, m), t)
<1> DEFINE u == Append(s, m)
<1>1. /\ u \in Seq(WireMsgs)
      /\ \A yes, no : yes # no =>
           (TurnsOn(u, yes, no) <=> m.id = yes \/ (m.id # no /\ TurnsOn(s, yes, no)))
      /\ \A no : StaysOn(u, no) <=> StaysOn(s, no) /\ m.id # no
      /\ StartsClean(s) => StartsClean(u)
      /\ \A i \in 1 .. Len(u) : u[i] = m \/ \E k \in 1 .. Len(s) : u[i] = s[k]
      /\ \A i \in 1 .. Len(s) : \E k \in 1 .. Len(u) : u[k] = s[i]
      /\ \E k \in 1 .. Len(u) : u[k] = m
      /\ \A p : ~(m.id = "cancel" /\ p \in m.pieces) /\ AsksAgain(s, p) => AsksAgain(u, p)
  BY AppendIs
<1> HIDE DEF u
<1>2. FlagsAgree(f, o, u)
  <2>1. /\ TurnsOn(u, "choke", "unchoke") <=> m.id = "choke" \/ (m.id # "unchoke" /\ TurnsOn(s, "choke", "unchoke"))
        /\ StaysOn(u, "unchoke") <=> StaysOn(s, "unchoke") /\ m.id # "unchoke"
    BY <1>1
  <2>2. /\ TurnsOn(u, "interested", "not interested")
             <=> m.id = "interested" \/ (m.id # "not interested" /\ TurnsOn(s, "interested", "not interested"))
        /\ StaysOn(u, "not interested") <=> StaysOn(s, "not interested") /\ m.id # "not interested"
    BY <1>1
  <2>3. FlagsAgree(e, o, s)
    BY DEF OneWay
  <2> QED
    BY <2>1, <2>2, <2>3 DEF FlagsAgree, WireEnds
<1>3. StartsFirst(o, u)
  BY <1>1 DEF OneWay, StartsFirst
<1>4. HavesAreTold(f, o, u)
  <2> SUFFICES ASSUME NEW p \in f.have
               PROVE  p \in o.peerHas \/ TellsOf(u, p)
    BY DEF HavesAreTold
  <2>1. TellsOf(s, p) => TellsOf(u, p)
    <3>1. \A i \in 1 .. Len(s) : \E k \in 1 .. Len(u) : u[k] = s[i]
      BY <1>1
    <3> QED
      BY <3>1, SaidStill
  <2>2. CASE p \in e.have
    <3>1. p \in o.peerHas \/ TellsOf(s, p)
      BY <2>2 DEF OneWay, HavesAreTold
    <3> QED
      BY <2>1, <3>1
  <2>3. CASE m.id = "have" /\ p \in m.pieces
    <3>1. PICK k \in 1 .. Len(u) : u[k] = m
      BY <1>1
    <3>2. Says(u, {"have", "bitfield"}, p)
      BY <2>3, <3>1 DEF Says
    <3> QED
      BY <3>2 DEF TellsOf
  <2> QED
    BY <2>2, <2>3
<1>5. RequestsLive(ext, f, o, u, t)
  <2>1. \A i \in 1 .. Len(s) : \E k \in 1 .. Len(u) : u[k] = s[i]
    BY <1>1
  <2>2. \A ids, p : Says(s, ids, p) => Says(u, ids, p)
    BY <2>1, SaidStill
  <2> QED
    BY <2>2 DEF OneWay, RequestsLive
<1>6. CancelsAreOver(f, u)
  BY <1>1 DEF OneWay, CancelsAreOver
<1> QED
  BY <1>2, <1>3, <1>4, <1>5, <1>6 DEF OneWay, u

\* e says more, and answers what o asked for.
LEMMA MoreSaid ==
  ASSUME NEW ext \in BOOLEAN, NEW e, NEW o, NEW f, NEW s, NEW u, NEW t, OneWay(ext, o, e, t, s),
         f.clientIsChoked = e.clientIsChoked, f.peerIsInterested = e.peerIsInterested, f.peerHas = e.peerHas,
         \A i \in 1 .. Len(s) : \E k \in 1 .. Len(u) : u[k] = s[i],
         \A p : ext /\ Asked(e, p) => Asked(f, p) \/ Says(u, {"piece", "reject"}, p)
  PROVE  OneWay(ext, o, f, t, u)
<1>0. \A ids, p : Says(s, ids, p) => Says(u, ids, p)
  BY SaidStill
<1>1. RequestsLive(ext, o, f, t, u)
  BY <1>0 DEF OneWay, RequestsLive
<1> QED
  BY <1>1 DEF OneWay, FlagsAgree, StartsFirst, HavesAreTold, CancelsAreOver

\* e asks for more, sends pieces and rejects.
LEMMA MoreAsked ==
  ASSUME NEW ext \in BOOLEAN, NEW e \in WireEnds, NEW o \in WireEnds, NEW f \in WireEnds,
         NEW s \in Seq(WireMsgs), NEW u \in Seq(WireMsgs), NEW t \in Seq(WireMsgs), OneWay(ext, e, o, s, t),
         Adds(s, u, {"request", "piece", "reject"}),
         f.peerIsChoked = e.peerIsChoked, f.clientIsInterested = e.clientIsInterested, f.have \subseteq e.have,
         \A p \in f.requested : p \in e.requested \/ (Says(u, {"request"}, p) /\ AsksAgain(u, p))
  PROVE  OneWay(ext, f, o, u, t)
<1> DEFINE ids == {"request", "piece", "reject"}
<1>1. ids \cap (Starting \cup {"have"}) = {} /\ "cancel" \notin ids /\ "choke" \notin ids /\ "unchoke" \notin ids
      /\ "interested" \notin ids /\ "not interested" \notin ids
  BY DEF Starting
<1> HIDE DEF ids
<1>2. Adds(s, u, ids)
  BY DEF ids
<1>3. /\ StartsClean(s) => StartsClean(u)
      /\ \A i \in 1 .. Len(s) : \E k \in 1 .. Len(u) : u[k] = s[i]
      /\ \A k \in 1 .. Len(u) : u[k].id \in ids \/ \E i \in 1 .. Len(s) : u[k] = s[i]
      /\ \A p : AsksAgain(s, p) => AsksAgain(u, p)
  <2>1. /\ ids \cap (Starting \cup {"have"}) = {} /\ StartsClean(s) => StartsClean(u)
        /\ \A i \in 1 .. Len(s) : \E k \in 1 .. Len(u) : u[k] = s[i]
        /\ \A k \in 1 .. Len(u) : u[k].id \in ids \/ \E i \in 1 .. Len(s) : u[k] = s[i]
        /\ \A p : "cancel" \notin ids /\ AsksAgain(s, p) => AsksAgain(u, p)
    BY <1>2, AddsRest
  <2> QED
    BY <1>1, <2>1
<1>4. FlagsAgree(f, o, u)
  <2>1. /\ TurnsOn(u, "choke", "unchoke") <=> TurnsOn(s, "choke", "unchoke")
        /\ StaysOn(u, "unchoke") <=> StaysOn(s, "unchoke")
    BY <1>1, <1>2, AddsNoFlag
  <2>2. /\ TurnsOn(u, "interested", "not interested") <=> TurnsOn(s, "interested", "not interested")
        /\ StaysOn(u, "not interested") <=> StaysOn(s, "not interested")
    BY <1>1, <1>2, AddsNoFlag
  <2> QED
    BY <2>1, <2>2 DEF OneWay, FlagsAgree
<1>5. StartsFirst(o, u)
  BY <1>1, <1>3 DEF OneWay, StartsFirst
<1>6. HavesAreTold(f, o, u)
  <2> SUFFICES ASSUME NEW p \in f.have
               PROVE  p \in o.peerHas \/ TellsOf(u, p)
    BY DEF HavesAreTold
  <2>1. p \in o.peerHas \/ TellsOf(s, p)
    BY DEF OneWay, HavesAreTold
  <2>2. TellsOf(s, p) => TellsOf(u, p)
    <3>1. \A i \in 1 .. Len(s) : \E k \in 1 .. Len(u) : u[k] = s[i]
      BY <1>3
    <3> QED
      BY <3>1, SaidStill
  <2> QED
    BY <2>1, <2>2
<1>7. RequestsLive(ext, f, o, u, t)
  <2>1. \A i \in 1 .. Len(s) : \E k \in 1 .. Len(u) : u[k] = s[i]
    BY <1>3
  <2>2. \A said, p : Says(s, said, p) => Says(u, said, p)
    BY <2>1, SaidStill
  <2> QED
    BY <2>2 DEF OneWay, RequestsLive
<1>8. CancelsAreOver(f, u)
  BY <1>3 DEF OneWay, CancelsAreOver
<1> QED
  BY <1>4, <1>5, <1>6, <1>7, <1>8 DEF OneWay

\* e reads a message: what it has to say itself.
LEMMA ReaderGoesOn ==
  ASSUME NEW ext \in BOOLEAN, NEW e \in WireEnds, NEW o \in WireEnds, NEW f \in WireEnds,
         NEW s \in Seq(WireMsgs), NEW t \in Seq(WireMsgs), t # <<>>, OneWay(ext, e, o, s, t),
         f.peerIsChoked = e.peerIsChoked, f.clientIsInterested = e.clientIsInterested, f.have \subseteq e.have,
         f.requested \subseteq e.requested,
         ext /\ Head(t).id \in {"piece", "reject"} => f.requested \cap Head(t).pieces = {}
  PROVE  OneWay(ext, f, o, s, Tail(t))
<1>1. \A i \in 1 .. Len(t) : t[i] = Head(t) \/ \E k \in 1 .. Len(Tail(t)) : Tail(t)[k] = t[i]
  BY TailIs
<1>2. RequestsLive(ext, f, o, s, Tail(t))
  <2> DEFINE m == Head(t)
             u == Tail(t)
  <2> HIDE DEF m, u
  <2>1. \A i \in 1 .. Len(t) : t[i] = m \/ \E k \in 1 .. Len(u) : u[k] = t[i]
    BY <1>1 DEF m, u
  <2>2. ext /\ m.id \in {"piece", "reject"} => f.requested \cap m.pieces = {}
    BY DEF m
  <2>3. RequestsLive(ext, f, o, s, u)
    BY <2>1, <2>2 DEF OneWay, RequestsLive, Says
  <2> QED
    BY <2>3 DEF u
<1> QED
  BY <1>2 DEF OneWay, FlagsAgree, StartsFirst, HavesAreTold, CancelsAreOver

\* e reads a message: what o said to it.
LEMMA ReaderHears ==
  ASSUME NEW ext \in BOOLEAN, NEW e \in WireEnds, NEW o \in WireEnds, NEW f \in WireEnds,
         NEW s \in Seq(WireMsgs), NEW u \in Seq(WireMsgs), NEW t \in Seq(WireMsgs), t # <<>>, OneWay(ext, o, e, t, s),
         NEW m \in WireMsgs, m = Head(t),
         f.clientIsChoked = IF m.id = "choke" THEN TRUE ELSE IF m.id = "unchoke" THEN FALSE ELSE e.clientIsChoked,
         f.peerIsInterested = IF m.id = "interested" THEN TRUE
                              ELSE IF m.id = "not interested" THEN FALSE ELSE e.peerIsInterested,
         m.id = "have" => f.peerHas = e.peerHas \cup m.pieces,
         m.id = "bitfield" => f.peerHas = m.pieces,
         m.id = "have all" => f.peerHas = TorrentPieces,
         m.id \notin Starting \cup {"have"} => f.peerHas = e.peerHas,
         \A i \in 1 .. Len(s) : \E k \in 1 .. Len(u) : u[k] = s[i],
         \A p : ext /\ Asked(e, p) => Asked(f, p) \/ Says(u, {"piece", "reject"}, p) \/ (m.id = "cancel" /\ p \in m.pieces),
         m.id = "request" => \A p \in m.pieces : ext => Asked(f, p) \/ Says(u, {"piece", "reject"}, p)
  PROVE  OneWay(ext, o, f, Tail(t), u)
<1> DEFINE v == Tail(t)
<1>0. LET n == Head(t) IN
      /\ v \in Seq(WireMsgs) /\ n \in WireMsgs
      /\ \A yes, no : TurnsOn(t, yes, no) <=> TurnsOn(v, yes, no) \/ (n.id = yes /\ StaysOn(v, no))
      /\ \A no : StaysOn(t, no) <=> n.id # no /\ StaysOn(v, no)
      /\ StartsClean(t) => StartsClean(v)
      /\ \A i \in 1 .. Len(t) : t[i] = n \/ \E k \in 1 .. Len(v) : v[k] = t[i]
      /\ \A i \in 1 .. Len(v) : \E k \in 1 .. Len(t) : v[i] = t[k] /\ k > 1
      /\ \A p : AsksAgain(t, p) => AsksAgain(v, p)
  BY TailIs
<1>1. /\ v \in Seq(WireMsgs) /\ m \in WireMsgs
      /\ \A yes, no : TurnsOn(t, yes, no) <=> TurnsOn(v, yes, no) \/ (m.id = yes /\ StaysOn(v, no))
      /\ \A no : StaysOn(t, no) <=> m.id # no /\ StaysOn(v, no)
      /\ StartsClean(t) => StartsClean(v)
      /\ \A i \in 1 .. Len(t) : t[i] = m \/ \E k \in 1 .. Len(v) : v[k] = t[i]
      /\ \A i \in 1 .. Len(v) : \E k \in 1 .. Len(t) : v[i] = t[k] /\ k > 1
      /\ \A p : AsksAgain(t, p) => AsksAgain(v, p)
  BY <1>0, Zenon
<1>2. Len(t) \in Nat /\ 1 \in 1 .. Len(t) /\ t[1] = m
  BY FirstIs
<1> HIDE DEF v
<1>3. FlagsAgree(o, f, v)
  <2>1. /\ TurnsOn(t, "choke", "unchoke") <=> TurnsOn(v, "choke", "unchoke") \/ (m.id = "choke" /\ StaysOn(v, "unchoke"))
        /\ StaysOn(t, "unchoke") <=> m.id # "unchoke" /\ StaysOn(v, "unchoke")
    BY <1>1
  <2>2. /\ TurnsOn(t, "interested", "not interested") <=> \/ TurnsOn(v, "interested", "not interested")
                                                          \/ m.id = "interested" /\ StaysOn(v, "not interested")
        /\ StaysOn(t, "not interested") <=> m.id # "not interested" /\ StaysOn(v, "not interested")
    BY <1>1
  <2>3. FlagsAgree(o, e, t)
    BY DEF OneWay
  <2> QED
    BY <2>1, <2>2, <2>3 DEF FlagsAgree, WireEnds
<1>4. m.id \in Starting \cup {"have"} => \A j \in 1 .. Len(v) : v[j].id \notin Starting
  BY <1>1, <1>2 DEF OneWay, StartsFirst, StartsClean
<1>5. StartsFirst(f, v)
  <2>1. StartsClean(v)
    BY <1>1 DEF OneWay, StartsFirst
  <2>2. ASSUME NEW j \in 1 .. Len(v), v[j].id \in Starting
        PROVE  f.peerHas = {}
    <3>1. m.id \notin Starting \cup {"have"}
      BY <1>4, <2>2
    <3>2. e.peerHas = {}
      BY <1>1, <2>2 DEF OneWay, StartsFirst
    <3> QED
      BY <3>1, <3>2
  <2> QED
    BY <2>1, <2>2 DEF StartsFirst
<1>6. HavesAreTold(o, f, v)
  <2> SUFFICES ASSUME NEW p \in o.have
               PROVE  p \in f.peerHas \/ TellsOf(v, p)
    BY DEF HavesAreTold
  <2>0. p \in TorrentPieces
    BY DEF WireEnds
  <2>1. p \in e.peerHas \/ TellsOf(t, p)
    BY DEF OneWay, HavesAreTold
  <2>2. m.id \in Starting => e.peerHas = {}
    BY <1>2 DEF OneWay, StartsFirst
  <2>3. CASE TellsOf(t, p)
    <3>1. TellsOf(v, p) \/ (m.id \in {"have", "bitfield"} /\ p \in m.pieces) \/ m.id = "have all"
      <4>1. RestIs(t, m, v)
        BY <1>1 DEF RestIs
      <4> QED
        BY <2>3, <4>1, SaidByRest
    <3> QED
      BY <2>0, <3>1
  <2>4. CASE p \in e.peerHas
    <3>1. m.id \notin Starting
      BY <2>2, <2>4
    <3> QED
      BY <2>4, <3>1
  <2> QED
    BY <2>1, <2>3, <2>4
<1>7. RequestsLive(ext, o, f, v, u)
  <2> SUFFICES ASSUME ext, NEW p \in o.requested
               PROVE  Says(v, {"request"}, p) \/ Says(u, {"piece", "reject"}, p) \/ Asked(f, p)
    BY DEF RequestsLive
  <2>1. Says(t, {"request"}, p) \/ Says(s, {"piece", "reject"}, p) \/ Asked(e, p)
    BY DEF OneWay, RequestsLive
  <2>2. CASE Says(t, {"request"}, p)
    <3>1. Says(v, {"request"}, p) \/ (m.id = "request" /\ p \in m.pieces)
      BY <1>1, <2>2 DEF Says
    <3> QED
      BY <3>1
  <2>3. CASE Says(s, {"piece", "reject"}, p)
    BY <2>3 DEF Says
  <2>4. CASE Asked(e, p) /\ m.id = "cancel" /\ p \in m.pieces
    <3>1. AsksAgain(t, p)
      BY DEF OneWay, CancelsAreOver
    <3>2. PICK k \in 1 + 1 .. Len(t) : t[k].id = "request" /\ p \in t[k].pieces
      BY <1>2, <2>4, <3>1 DEF AsksAgain
    <3>3. k \in 1 .. Len(t) /\ t[k] # m
      <4>1. \A i \in 1 + 1 .. Len(t) : i \in 1 .. Len(t)
        BY FirstIs
      <4>2. t[k].id # m.id
        BY <2>4, <3>2
      <4> QED
        BY <4>1, <4>2
    <3>4. PICK i \in 1 .. Len(v) : v[i] = t[k]
      BY <1>1, <3>3
    <3> QED
      BY <3>2, <3>4 DEF Says
  <2> QED
    BY <2>1, <2>2, <2>3, <2>4
<1>8. CancelsAreOver(o, v)
  BY <1>1 DEF OneWay, CancelsAreOver
<1> QED
  BY <1>3, <1>5, <1>6, <1>7, <1>8 DEF OneWay, v

LEMMA Both ==
  \A c \in Clients : LET d == Wire!Peer(c) IN d \in Clients /\ d # c /\ Wire!Peer(d) = c /\ Clients = {c, d}
<1>1. PICK x \in Clients, y \in Clients : x # y /\ Clients = {x, y}
  BY WireAssumption
<1>2. Wire!Peer(x) = y /\ Wire!Peer(y) = x
  BY <1>1 DEF Wire!Peer
<1> QED
  BY <1>1, <1>2

-----------------------------------------------------------------------------
\* The messages of the code.
LEMMA MsgIs ==
  ASSUME NEW id \in Wire!Ids, NEW ps \in SUBSET TorrentPieces,
         id \in Wire!OfPiece => \E p \in TorrentPieces : ps = {p}
  PROVE  LET m == Wire!Msg(id, ps) IN m \in WireMsgs /\ m.id = id /\ m.pieces = ps
BY DEF Wire!Msg, WireMsgs

LEMMA EachIs ==
  ASSUME NEW id \in Wire!OfPiece, NEW ps \in Seq(TorrentPieces)
  PROVE  LET t == Wire!Each(id, ps) IN
         /\ t \in Seq(WireMsgs) /\ Len(t) = Len(ps)
         /\ \A i \in 1 .. Len(ps) : t[i].id = id /\ t[i].pieces = {ps[i]}
<1> DEFINE n == Len(ps)
           t == Wire!Each(id, ps)
<1>1. n \in Nat /\ \A i \in 1 .. n : ps[i] \in TorrentPieces
  OBVIOUS
<1>2. \A i \in 1 .. n : Wire!Msg(id, {ps[i]}) \in WireMsgs
  BY <1>1, MsgIs DEF Wire!Ids
<1>3. t = [i \in 1 .. n |-> Wire!Msg(id, {ps[i]})]
  BY DEF Wire!Each
<1> HIDE DEF n, t
<1>4. t \in Seq(WireMsgs) /\ Len(t) = n
  BY <1>1, <1>2, <1>3
<1>5. \A i \in 1 .. n : t[i].id = id /\ t[i].pieces = {ps[i]}
  BY <1>3 DEF Wire!Msg
<1> QED
  BY <1>4, <1>5 DEF n, t

LEMMA WireCardinality == \A T : Wire!Cardinality(T) = Cardinality(T)
BY DEF Wire!Cardinality, Cardinality

LEMMA OrderIs ==
  ASSUME NEW S \in SUBSET Nat, IsFiniteSet(S)
  PROVE  LET t == Wire!InOrder(S) IN t \in Seq(S) /\ \A x \in S : \E i \in 1 .. Len(t) : t[i] = x
<1> DEFINE n == Wire!Cardinality(S)
           rank(x) == Wire!Cardinality({y \in S : y < x})
           t == Wire!InOrder(S)
<1>1. /\ n \in Nat
      /\ \A x \in S : rank(x) + 1 \in 1 .. n
      /\ \A x, y \in S : rank(x) = rank(y) => x = y
      /\ \A i \in 1 .. n : \E x \in S : rank(x) = i - 1
  <2> DEFINE r(x) == Cardinality({y \in S : y < x})
  <2>1. /\ Cardinality(S) \in Nat
        /\ \A x \in S : r(x) + 1 \in 1 .. Cardinality(S)
        /\ \A x, y \in S : r(x) = r(y) => x = y
        /\ \A i \in 1 .. Cardinality(S) : \E x \in S : r(x) = i - 1
    BY Ranks
  <2>2. n = Cardinality(S) /\ \A x : rank(x) = r(x)
    BY WireCardinality
  <2> HIDE DEF n, rank, r
  <2> QED
    BY <2>1, <2>2
<1>3. t = [i \in 1 .. n |-> CHOOSE x \in S : rank(x) = i - 1]
  BY DEF Wire!InOrder
<1>4. \A x \in S : rank(x) \in Nat
  <2>1. \A x \in S : {y \in S : y < x} \in SUBSET S
    OBVIOUS
  <2> QED
    BY <2>1, FS_Subset, FS_CardinalityType, WireCardinality
<1> HIDE DEF n, rank, t
<1>5. \A i \in 1 .. n : t[i] \in S /\ rank(t[i]) = i - 1
  BY <1>1, <1>3
<1>6. t \in Seq(S) /\ Len(t) = n
  <2>1. t \in [1 .. n -> S]
    BY <1>3, <1>5
  <2> QED
    BY <1>1, <2>1
<1>7. ASSUME NEW x \in S
      PROVE  \E i \in 1 .. Len(t) : t[i] = x
  <2>1. rank(x) + 1 \in 1 .. n /\ (rank(x) + 1) - 1 = rank(x)
    BY <1>1, <1>4
  <2>2. t[rank(x) + 1] = x
    BY <1>1, <1>5, <2>1
  <2> QED
    BY <1>6, <2>1, <2>2
<1> QED
  BY <1>6, <1>7 DEF t

LEMMA SendIs ==
  ASSUME NEW e \in WireEnds, NEW id \in Wire!Ids, NEW ps \in SUBSET TorrentPieces,
         id \in Wire!OfPiece => \E p \in TorrentPieces : ps = {p}
  PROVE  LET f == Wire!Send(e, id, ps) IN
         /\ f \in WireEnds /\ f.outMessages = Append(e.outMessages, Wire!Msg(id, ps))
         /\ f.have = e.have /\ f.peerHas = e.peerHas
         /\ f.peerIsChoked = e.peerIsChoked /\ f.clientIsChoked = e.clientIsChoked
         /\ f.peerIsInterested = e.peerIsInterested /\ f.clientIsInterested = e.clientIsInterested
         /\ f.peerAskedFor = e.peerAskedFor /\ f.requested = e.requested /\ f.reading = e.reading
<1>1. Wire!Msg(id, ps) \in WireMsgs
  BY MsgIs
<1>2. Append(e.outMessages, Wire!Msg(id, ps)) \in Seq(WireMsgs)
  BY <1>1 DEF WireEnds
<1> QED
  BY <1>2 DEF WireEnds, Wire!Send

\* What one client says and hears.
LEMMA PairOf ==
  ASSUME WireInv, NEW c \in Clients
  PROVE  LET d == Wire!Peer(c)
             e == msgs[c]
             o == msgs[d]
             s == wire[c] \o e.outMessages
             t == wire[d] \o o.outMessages IN
         /\ d \in Clients /\ d # c /\ fext \in BOOLEAN /\ e \in WireEnds /\ o \in WireEnds
         /\ wire[c] \in Seq(WireMsgs) /\ wire[d] \in Seq(WireMsgs)
         /\ e.outMessages \in Seq(WireMsgs) /\ o.outMessages \in Seq(WireMsgs)
         /\ s \in Seq(WireMsgs) /\ t \in Seq(WireMsgs)
         /\ OneWay(fext, e, o, s, t) /\ OneWay(fext, o, e, t, s) /\ OwnIsKept(e) /\ OwnIsKept(o)
<1> DEFINE d == Wire!Peer(c)
<1>1. d \in Clients /\ d # c
  BY Both
<1> HIDE DEF d
<1>2. fext \in BOOLEAN /\ msgs[c] \in WireEnds /\ msgs[d] \in WireEnds
      /\ wire[c] \in Seq(WireMsgs) /\ wire[d] \in Seq(WireMsgs)
  BY <1>1 DEF WireInv, WireTypes
<1>3. msgs[c].outMessages \in Seq(WireMsgs) /\ msgs[d].outMessages \in Seq(WireMsgs)
  BY <1>2 DEF WireEnds
<1>4. /\ wire[c] \o msgs[c].outMessages \in Seq(WireMsgs)
      /\ wire[d] \o msgs[d].outMessages \in Seq(WireMsgs)
  BY <1>2, <1>3, Joined
<1>5. Pair(fext, msgs[c], msgs[d], wire[c] \o msgs[c].outMessages, wire[d] \o msgs[d].outMessages)
  BY DEF WireInv, Wire!InFlight, d
<1> QED
  BY <1>1, <1>2, <1>3, <1>4, <1>5 DEF Pair, d

\* A step of one client.
LEMMA StepOf ==
  ASSUME WireInv, NEW c \in Clients, NEW f \in WireEnds,
         msgs' = [msgs EXCEPT ![c] = f], fext' = fext, wire' \in [Clients -> Seq(WireMsgs)],
         LET o == msgs[Wire!Peer(c)]
             s == wire'[c] \o f.outMessages
             t == wire'[Wire!Peer(c)] \o o.outMessages IN
         OneWay(fext, f, o, s, t) /\ OneWay(fext, o, f, t, s) /\ OwnIsKept(f)
  PROVE  WireInv'
<1> DEFINE d == Wire!Peer(c)
           o == msgs[d]
           s == wire'[c] \o f.outMessages
           t == wire'[d] \o o.outMessages
<1>1. d \in Clients /\ d # c /\ Wire!Peer(d) = c /\ Clients = {c, d}
  BY Both
<1>2. OwnIsKept(o)
  BY PairOf
<1>3. OneWay(fext, f, o, s, t) /\ OneWay(fext, o, f, t, s) /\ OwnIsKept(f)
  OBVIOUS
<1>4. Pair(fext, f, o, s, t) /\ Pair(fext, o, f, t, s)
  BY <1>2, <1>3 DEF Pair
<1>5. msgs'[c] = f /\ msgs'[d] = o /\ WireTypes'
  BY <1>1 DEF WireInv, WireTypes
<1> HIDE DEF d
<1>6. Pair(fext', msgs'[c], msgs'[d], wire'[c] \o msgs'[c].outMessages, wire'[d] \o msgs'[d].outMessages)
  BY <1>4, <1>5
<1>7. Pair(fext', msgs'[d], msgs'[c], wire'[d] \o msgs'[d].outMessages, wire'[c] \o msgs'[c].outMessages)
  BY <1>4, <1>5
<1>8. Wire!Peer(c) = d /\ Wire!Peer(d) = c
  BY <1>1 DEF d
<1> QED
  BY <1>1, <1>5, <1>6, <1>7, <1>8 DEF WireInv, Wire!InFlight

-----------------------------------------------------------------------------
LEMMA AppendAfter ==
  \A w, o \in Seq(WireMsgs), m \in WireMsgs : w \o Append(o, m) = Append(w \o o, m)
OBVIOUS

\* Both directions, when e says one thing more.
LEMMA Say ==
  ASSUME NEW ext \in BOOLEAN, NEW e \in WireEnds, NEW o \in WireEnds, NEW f \in WireEnds,
         NEW s \in Seq(WireMsgs), NEW t \in Seq(WireMsgs), NEW m \in WireMsgs,
         OneWay(ext, e, o, s, t), OneWay(ext, o, e, t, s),
         m.id \notin Starting,
         f.peerIsChoked = IF m.id = "choke" THEN TRUE ELSE IF m.id = "unchoke" THEN FALSE ELSE e.peerIsChoked,
         f.clientIsInterested = IF m.id = "interested" THEN TRUE
                                ELSE IF m.id = "not interested" THEN FALSE ELSE e.clientIsInterested,
         \A p \in f.have : p \in e.have \/ (m.id = "have" /\ p \in m.pieces),
         f.requested \subseteq e.requested,
         m.id = "cancel" => f.requested \cap m.pieces = {},
         f.clientIsChoked = e.clientIsChoked, f.peerIsInterested = e.peerIsInterested, f.peerHas = e.peerHas,
         f.peerAskedFor = e.peerAskedFor
  PROVE  OneWay(ext, f, o, Append(s, m), t) /\ OneWay(ext, o, f, t, Append(s, m))
<1>1. OneWay(ext, f, o, Append(s, m), t)
  BY OneMore
<1>2. \A i \in 1 .. Len(s) : \E k \in 1 .. Len(Append(s, m)) : Append(s, m)[k] = s[i]
  BY AppendIs
<1>3. \A p : Asked(e, p) => Asked(f, p)
  BY DEF Asked
<1>4. OneWay(ext, o, f, t, Append(s, m))
  BY <1>2, <1>3, MoreSaid
<1> QED
  BY <1>1, <1>4

\* What a client changes of itself when it says something.
Tells(g, h, id, ps) ==
  /\ h.outMessages = g.outMessages
  /\ h.peerIsChoked = IF id = "choke" THEN TRUE ELSE IF id = "unchoke" THEN FALSE ELSE g.peerIsChoked
  /\ h.clientIsInterested = IF id = "interested" THEN TRUE
                            ELSE IF id = "not interested" THEN FALSE ELSE g.clientIsInterested
  /\ \A p \in h.have : p \in g.have \/ (id = "have" /\ p \in ps)
  /\ h.requested \subseteq g.requested
  /\ id = "cancel" => h.requested \cap ps = {}
  /\ h.clientIsChoked = g.clientIsChoked /\ h.peerIsInterested = g.peerIsInterested /\ h.peerHas = g.peerHas
  /\ h.peerAskedFor = g.peerAskedFor

\* The client c may be as g is, when v is on the wire to it.
Stands(c, g, v) ==
  LET o == msgs[Wire!Peer(c)]
      s == wire[c] \o g.outMessages
      t == v \o o.outMessages IN
  OneWay(fext, g, o, s, t) /\ OneWay(fext, o, g, t, s)

\* After one thing more is said: g is the client before it.
LEMMA Spoken ==
  ASSUME WireInv, NEW c \in Clients, NEW g \in WireEnds, NEW h \in WireEnds,
         NEW id \in Wire!Ids \ Starting, NEW ps \in SUBSET TorrentPieces,
         NEW v \in Seq(WireMsgs), Stands(c, g, v), Tells(g, h, id, ps),
         id \in Wire!OfPiece => \E p \in TorrentPieces : ps = {p}
  PROVE  /\ Wire!Send(h, id, ps) \in WireEnds /\ Stands(c, Wire!Send(h, id, ps), v)
         /\ OwnIsKept(h) => OwnIsKept(Wire!Send(h, id, ps))
<1> DEFINE d == Wire!Peer(c)
           o == msgs[d]
           f == Wire!Send(h, id, ps)
           m == Wire!Msg(id, ps)
           s == wire[c] \o g.outMessages
           t == v \o o.outMessages
<1>1. /\ fext \in BOOLEAN /\ o \in WireEnds /\ wire[c] \in Seq(WireMsgs) /\ t \in Seq(WireMsgs)
  BY PairOf, Joined
<1>3. OneWay(fext, g, o, s, t) /\ OneWay(fext, o, g, t, s)
  BY DEF Stands
<1> HIDE DEF d, o, t
<1>4. g.outMessages \in Seq(WireMsgs)
  BY DEF WireEnds
<1>5. /\ f \in WireEnds /\ f.outMessages = Append(g.outMessages, m)
      /\ f.have = h.have /\ f.peerHas = h.peerHas
      /\ f.peerIsChoked = h.peerIsChoked /\ f.clientIsChoked = h.clientIsChoked
      /\ f.peerIsInterested = h.peerIsInterested /\ f.clientIsInterested = h.clientIsInterested
      /\ f.peerAskedFor = h.peerAskedFor /\ f.requested = h.requested
  <2>1. h.outMessages = g.outMessages
    BY DEF Tells
  <2> QED
    BY <2>1, SendIs
<1>6. m \in WireMsgs /\ m.id = id /\ m.pieces = ps
  BY MsgIs
<1> HIDE DEF f, m
<1>7. wire[c] \o Append(g.outMessages, m) = Append(s, m)
  <2>1. wire[c] \in Seq(WireMsgs)
    BY <1>1
  <2> QED
    BY <1>4, <1>6, <2>1, AppendAfter
<1>8. s \in Seq(WireMsgs)
  BY <1>1, <1>4, Joined
<1> HIDE DEF s
<1>9. /\ f.peerIsChoked = IF m.id = "choke" THEN TRUE ELSE IF m.id = "unchoke" THEN FALSE ELSE g.peerIsChoked
      /\ f.clientIsInterested = IF m.id = "interested" THEN TRUE
                                ELSE IF m.id = "not interested" THEN FALSE ELSE g.clientIsInterested
  BY <1>5, <1>6 DEF Tells
<1>10. /\ m.id \notin Starting
       /\ \A p \in f.have : p \in g.have \/ (m.id = "have" /\ p \in m.pieces)
       /\ f.requested \subseteq g.requested
       /\ m.id = "cancel" => f.requested \cap m.pieces = {}
       /\ f.clientIsChoked = g.clientIsChoked /\ f.peerIsInterested = g.peerIsInterested /\ f.peerHas = g.peerHas
       /\ f.peerAskedFor = g.peerAskedFor
  BY <1>5, <1>6 DEF Tells
<1>11. OneWay(fext, f, o, Append(s, m), t) /\ OneWay(fext, o, f, t, Append(s, m))
  BY <1>1, <1>3, <1>5, <1>6, <1>8, <1>9, <1>10, Say
<1>12. OwnIsKept(h) => OwnIsKept(f)
  BY <1>5 DEF OwnIsKept
<1>13. wire[c] \o f.outMessages = Append(s, m)
  BY <1>5, <1>7
<1>14. Stands(c, f, v)
  BY <1>11, <1>13 DEF Stands, d, o, t
<1> QED
  BY <1>5, <1>12, <1>14 DEF f

LEMMA SetStep ==
  ASSUME WireInv, NEW c \in Clients, NEW f \in WireEnds, Stands(c, f, wire[Wire!Peer(c)]), OwnIsKept(f), Wire!Set(c, f)
  PROVE  WireInv'
<1>1. msgs' = [msgs EXCEPT ![c] = f] /\ wire' = wire /\ fext' = fext
  BY DEF Wire!Set
<1>2. wire' \in [Clients -> Seq(WireMsgs)]
  BY <1>1 DEF WireInv, WireTypes
<1>3. LET o == msgs[Wire!Peer(c)]
          s == wire'[c] \o f.outMessages
          t == wire'[Wire!Peer(c)] \o o.outMessages IN
      OneWay(fext, f, o, s, t) /\ OneWay(fext, o, f, t, s) /\ OwnIsKept(f)
  BY <1>1 DEF Stands
<1> QED
  BY <1>1, <1>2, <1>3, StepOf

\* A step that says one thing more.
LEMMA SayStep ==
  ASSUME WireInv, NEW c \in Clients, NEW g \in WireEnds, NEW h \in WireEnds,
         NEW id \in Wire!Ids \ Starting, NEW ps \in SUBSET TorrentPieces,
         Stands(c, g, wire[Wire!Peer(c)]), Tells(g, h, id, ps), OwnIsKept(h),
         id \in Wire!OfPiece => \E p \in TorrentPieces : ps = {p},
         Wire!Set(c, Wire!Send(h, id, ps))
  PROVE  WireInv'
<1>1. /\ Wire!Send(h, id, ps) \in WireEnds /\ Stands(c, Wire!Send(h, id, ps), wire[Wire!Peer(c)])
      /\ OwnIsKept(Wire!Send(h, id, ps))
  <2>1. wire[Wire!Peer(c)] \in Seq(WireMsgs)
    BY PairOf
  <2> QED
    BY <2>1, Spoken
<1> QED
  BY <1>1, SetStep

LEMMA InterestStep ==
  ASSUME WireInv, NEW c \in Clients, NEW on \in BOOLEAN, Wire!SetInterested(c, on)
  PROVE  WireInv'
<1> DEFINE e == msgs[c]
           id == IF on THEN "interested" ELSE "not interested"
           h == [e EXCEPT !.clientIsInterested = on]
<1>1. e \in WireEnds /\ OwnIsKept(e) /\ Stands(c, e, wire[Wire!Peer(c)])
  BY PairOf DEF Stands
<1>2. Wire!Set(c, Wire!Send(h, id, {}))
  BY DEF Wire!SetInterested
<1> HIDE DEF e
<1>3. /\ h \in WireEnds /\ h.outMessages = e.outMessages /\ h.clientIsInterested = on
      /\ h.have = e.have /\ h.peerHas = e.peerHas
      /\ h.peerIsChoked = e.peerIsChoked /\ h.clientIsChoked = e.clientIsChoked
      /\ h.peerIsInterested = e.peerIsInterested
      /\ h.peerAskedFor = e.peerAskedFor /\ h.requested = e.requested
  BY <1>1 DEF WireEnds
<1> HIDE DEF h
<1>4. /\ id \in Wire!Ids \ Starting /\ id \notin Wire!OfPiece /\ id \notin {"choke", "unchoke", "have", "cancel"}
      /\ (id = "interested" <=> on) /\ (id = "not interested" <=> ~on)
  BY DEF Wire!Ids, Wire!Flags, Wire!OfPiece, Starting
<1> HIDE DEF id
<1>5. OwnIsKept(h)
  BY <1>1, <1>3 DEF OwnIsKept
<1>6. Tells(e, h, id, {})
  BY <1>3, <1>4 DEF Tells
<1>7. id \in Wire!OfPiece => \E p \in TorrentPieces : {} = {p}
  BY <1>4
<1>8. id \in Wire!Ids \ Starting /\ {} \in SUBSET TorrentPieces /\ h \in WireEnds
  BY <1>3, <1>4
<1> QED
  BY <1>1, <1>2, <1>5, <1>6, <1>7, <1>8, SayStep

LEMMA CancelStep ==
  ASSUME WireInv, NEW c \in Clients, NEW p \in TorrentPieces, Wire!Cancel(c, p)
  PROVE  WireInv'
<1> DEFINE e == msgs[c]
           h == [e EXCEPT !.requested = @ \ {p}]
<1>1. e \in WireEnds /\ OwnIsKept(e) /\ Stands(c, e, wire[Wire!Peer(c)])
  BY PairOf DEF Stands
<1>2. Wire!Set(c, Wire!Send(h, "cancel", {p}))
  BY DEF Wire!Cancel
<1> HIDE DEF e
<1>3. /\ h \in WireEnds /\ h.outMessages = e.outMessages /\ h.clientIsInterested = e.clientIsInterested
      /\ h.have = e.have /\ h.peerHas = e.peerHas
      /\ h.peerIsChoked = e.peerIsChoked /\ h.clientIsChoked = e.clientIsChoked
      /\ h.peerIsInterested = e.peerIsInterested
      /\ h.peerAskedFor = e.peerAskedFor /\ h.requested = e.requested \ {p}
  BY <1>1 DEF WireEnds
<1> HIDE DEF h
<1>4. OwnIsKept(h)
  BY <1>1, <1>3 DEF OwnIsKept
<1>5. Tells(e, h, "cancel", {p})
  BY <1>3 DEF Tells
<1>6. "cancel" \in Wire!Ids \ Starting /\ {p} \in SUBSET TorrentPieces /\ h \in WireEnds
  BY <1>3 DEF Wire!Ids, Wire!OfPiece, Starting
<1> QED
  BY <1>1, <1>2, <1>4, <1>5, <1>6, SayStep

\* The client gets a piece and tells its peer.
LEMMA HaveSaid ==
  ASSUME WireInv, NEW c \in Clients, NEW g \in WireEnds, NEW p \in TorrentPieces,
         NEW v \in Seq(WireMsgs), Stands(c, g, v), OwnIsKept(g)
  PROVE  LET f == Wire!tr_peerMsgsHave(g, p) IN f \in WireEnds /\ Stands(c, f, v) /\ OwnIsKept(f)
<1> DEFINE h == [g EXCEPT !.have = @ \cup {p}, !.requested = @ \ {p}]
<1>1. /\ h \in WireEnds /\ h.outMessages = g.outMessages /\ h.clientIsInterested = g.clientIsInterested
      /\ h.have = g.have \cup {p} /\ h.peerHas = g.peerHas
      /\ h.peerIsChoked = g.peerIsChoked /\ h.clientIsChoked = g.clientIsChoked
      /\ h.peerIsInterested = g.peerIsInterested
      /\ h.peerAskedFor = g.peerAskedFor /\ h.requested = g.requested \ {p}
  BY DEF WireEnds
<1>2. Wire!tr_peerMsgsHave(g, p) = Wire!Send(h, "have", {p})
  BY DEF Wire!tr_peerMsgsHave
<1> HIDE DEF h
<1>3. OwnIsKept(h)
  BY <1>1 DEF OwnIsKept
<1>4. Tells(g, h, "have", {p})
  BY <1>1 DEF Tells
<1>5. "have" \in Wire!Ids \ Starting /\ {p} \in SUBSET TorrentPieces /\ h \in WireEnds
  BY <1>1 DEF Wire!Ids, Wire!OfPiece, Starting
<1> QED
  BY <1>2, <1>3, <1>4, <1>5, Spoken

LEMMA GotElsewhereStep ==
  ASSUME WireInv, NEW c \in Clients, NEW p \in TorrentPieces, Wire!GotElsewhere(c, p)
  PROVE  WireInv'
<1> DEFINE e == msgs[c]
           h == [e EXCEPT !.requested = @ \ {p}]
           g == Wire!Send(h, "cancel", {p})
<1>1. e \in WireEnds /\ OwnIsKept(e) /\ Stands(c, e, wire[Wire!Peer(c)])
  BY PairOf DEF Stands
<1>2. Wire!Set(c, Wire!tr_peerMsgsHave(IF p \in e.requested THEN Wire!Send(e, "cancel", {p}) ELSE e, p))
  BY DEF Wire!GotElsewhere
<1>v. wire[Wire!Peer(c)] \in Seq(WireMsgs)
  BY PairOf
<1> HIDE DEF e
<1>3. /\ h \in WireEnds /\ h.outMessages = e.outMessages /\ h.clientIsInterested = e.clientIsInterested
      /\ h.have = e.have /\ h.peerHas = e.peerHas
      /\ h.peerIsChoked = e.peerIsChoked /\ h.clientIsChoked = e.clientIsChoked
      /\ h.peerIsInterested = e.peerIsInterested
      /\ h.peerAskedFor = e.peerAskedFor /\ h.requested = e.requested \ {p}
  BY <1>1 DEF WireEnds
<1>4. Wire!tr_peerMsgsHave(Wire!Send(e, "cancel", {p}), p) = Wire!tr_peerMsgsHave(g, p)
  BY <1>1 DEF Wire!tr_peerMsgsHave, Wire!Send, WireEnds
<1> HIDE DEF h
<1>5. OwnIsKept(h)
  BY <1>1, <1>3 DEF OwnIsKept
<1>6. Tells(e, h, "cancel", {p})
  BY <1>3 DEF Tells
<1>7. "cancel" \in Wire!Ids \ Starting /\ {p} \in SUBSET TorrentPieces /\ h \in WireEnds
  BY <1>3 DEF Wire!Ids, Wire!OfPiece, Starting
<1>8. g \in WireEnds /\ Stands(c, g, wire[Wire!Peer(c)]) /\ OwnIsKept(g)
  BY <1>1, <1>5, <1>6, <1>7, <1>v, Spoken
<1> HIDE DEF g
<1>9. CASE p \in e.requested
  <2>1. Wire!Set(c, Wire!tr_peerMsgsHave(g, p))
    BY <1>2, <1>4, <1>9
  <2>2. /\ Wire!tr_peerMsgsHave(g, p) \in WireEnds /\ Stands(c, Wire!tr_peerMsgsHave(g, p), wire[Wire!Peer(c)])
        /\ OwnIsKept(Wire!tr_peerMsgsHave(g, p))
    BY <1>8, <1>v, HaveSaid
  <2> QED
    BY <2>1, <2>2, SetStep
<1>10. CASE p \notin e.requested
  <2>1. Wire!Set(c, Wire!tr_peerMsgsHave(e, p))
    BY <1>2, <1>10
  <2>2. /\ Wire!tr_peerMsgsHave(e, p) \in WireEnds /\ Stands(c, Wire!tr_peerMsgsHave(e, p), wire[Wire!Peer(c)])
        /\ OwnIsKept(Wire!tr_peerMsgsHave(e, p))
    BY <1>1, <1>v, HaveSaid
  <2> QED
    BY <2>1, <2>2, SetStep
<1> QED
  BY <1>9, <1>10

\* The requests of the peer are dropped, and rejected if both support the fast extension.
LEMMA AllCancelled ==
  ASSUME WireInv, NEW c \in Clients
  PROVE  LET e == msgs[c]
             g == Wire!cancelAllRequestsToClient(e) IN
         /\ g \in WireEnds /\ Stands(c, g, wire[Wire!Peer(c)]) /\ g.peerAskedFor = <<>>
         /\ g.have = e.have /\ g.peerHas = e.peerHas
         /\ g.peerIsChoked = e.peerIsChoked /\ g.clientIsChoked = e.clientIsChoked
         /\ g.peerIsInterested = e.peerIsInterested /\ g.clientIsInterested = e.clientIsInterested
         /\ g.requested = e.requested
<1> DEFINE e == msgs[c]
           g == Wire!cancelAllRequestsToClient(e)
           d == Wire!Peer(c)
           o == msgs[d]
           s == wire[c] \o e.outMessages
           t == wire[d] \o o.outMessages
           q == IF fext THEN Wire!Each("reject", e.peerAskedFor) ELSE <<>>
           u == (wire[c] \o <<>>) \o (e.outMessages \o q)
           ids == {"request", "piece", "reject"}
<1>1. /\ fext \in BOOLEAN /\ e \in WireEnds /\ o \in WireEnds /\ wire[c] \in Seq(WireMsgs)
      /\ e.outMessages \in Seq(WireMsgs) /\ s \in Seq(WireMsgs) /\ t \in Seq(WireMsgs)
      /\ OneWay(fext, e, o, s, t) /\ OneWay(fext, o, e, t, s)
  BY PairOf
<1>2. e.peerAskedFor \in Seq(TorrentPieces)
  BY <1>1 DEF WireEnds
<1> HIDE DEF d, e, o, t
<1>3. /\ q \in Seq(WireMsgs) /\ \A i \in 1 .. Len(q) : q[i].id \in ids
      /\ fext => /\ Len(q) = Len(e.peerAskedFor)
                 /\ \A i \in 1 .. Len(e.peerAskedFor) : q[i].id = "reject" /\ q[i].pieces = {e.peerAskedFor[i]}
  <2>1. CASE fext
    <3>1. "reject" \in Wire!OfPiece
      BY DEF Wire!OfPiece
    <3>2. q = Wire!Each("reject", e.peerAskedFor)
      BY <2>1
    <3> HIDE DEF q
    <3> QED
      BY <1>2, <3>1, <3>2, EachIs
  <2>2. CASE ~fext
    BY <2>2
  <2> QED
    BY <2>1, <2>2
<1>4. e.outMessages \o q = IF fext THEN e.outMessages \o Wire!Each("reject", e.peerAskedFor) ELSE e.outMessages
  <2>1. CASE fext
    BY <2>1
  <2>2. CASE ~fext
    <3>1. q = <<>>
      BY <2>2
    <3>2. e.outMessages \o <<>> = e.outMessages
      BY <1>1, ConcatEmptySeq
    <3> HIDE DEF q
    <3> QED
      BY <2>2, <3>1, <3>2
  <2> QED
    BY <2>1, <2>2
<1> HIDE DEF q
<1>5. g = [e EXCEPT !.peerAskedFor = <<>>, !.outMessages = e.outMessages \o q]
  BY <1>4 DEF Wire!cancelAllRequestsToClient
<1>6. e.outMessages \o q \in Seq(WireMsgs)
  BY <1>1, <1>3, Joined
<1> HIDE DEF g
<1>7. /\ g \in WireEnds /\ g.peerAskedFor = <<>> /\ g.outMessages = e.outMessages \o q
      /\ g.have = e.have /\ g.peerHas = e.peerHas
      /\ g.peerIsChoked = e.peerIsChoked /\ g.clientIsChoked = e.clientIsChoked
      /\ g.peerIsInterested = e.peerIsInterested /\ g.clientIsInterested = e.clientIsInterested
      /\ g.requested = e.requested
  <2> DEFINE out == e.outMessages \o q
  <2>1. out \in Seq(WireMsgs) /\ <<>> \in Seq(TorrentPieces)
    BY <1>6
  <2>2. g = [e EXCEPT !.peerAskedFor = <<>>, !.outMessages = out]
    BY <1>5
  <2> HIDE DEF out
  <2>3. g \in WireEnds
    BY <1>1, <2>1, <2>2 DEF WireEnds
  <2>4. /\ g.peerAskedFor = <<>> /\ g.outMessages = out
        /\ g.have = e.have /\ g.peerHas = e.peerHas
        /\ g.peerIsChoked = e.peerIsChoked /\ g.clientIsChoked = e.clientIsChoked
        /\ g.peerIsInterested = e.peerIsInterested /\ g.clientIsInterested = e.clientIsInterested
        /\ g.requested = e.requested
    BY <1>1, <2>2 DEF WireEnds
  <2> QED
    BY <2>3, <2>4 DEF out
<1>8. wire[c] \o g.outMessages = u
  <2>1. wire[c] \o <<>> = wire[c]
    BY <1>1
  <2> QED
    BY <1>7, <2>1
<1>9. /\ u \in Seq(WireMsgs) /\ Adds(s, u, ids)
      /\ \A k \in 1 .. Len(q) : \E l \in 1 .. Len(u) : u[l] = q[k]
  <2> DEFINE p == <<>>
             w == wire[c]
             out == e.outMessages
  <2>1. p \in Seq(WireMsgs) /\ \A i \in 1 .. Len(p) : p[i].id \in ids
    OBVIOUS
  <2>2. w \in Seq(WireMsgs) /\ out \in Seq(WireMsgs) /\ q \in Seq(WireMsgs) /\ \A i \in 1 .. Len(q) : q[i].id \in ids
    BY <1>1, <1>3
  <2> HIDE DEF p, w, out, ids
  <2>3. LET v == (w \o p) \o (out \o q) IN
        /\ v \in Seq(WireMsgs) /\ Adds(w \o out, v, ids)
        /\ \A k \in 1 .. Len(p) : \E l \in 1 .. Len(v) : v[l] = p[k]
        /\ \A k \in 1 .. Len(q) : \E l \in 1 .. Len(v) : v[l] = q[k]
        /\ \A x : "cancel" \notin ids /\ Says(q, {"request"}, x) => AsksAgain(v, x)
    BY <2>1, <2>2, InsertIs, Zenon
  <2> QED
    BY <2>3 DEF p, w, out
<1> HIDE DEF u, s, ids
<1>10. \A i \in 1 .. Len(s) : \E k \in 1 .. Len(u) : u[k] = s[i]
  BY <1>1, <1>9, AddsRest
<1>11. \A p : fext /\ Asked(e, p) => Says(u, {"piece", "reject"}, p)
  BY <1>3, <1>9 DEF Asked, Says
<1>12. OneWay(fext, o, g, t, u)
  <2>1. \A p : fext /\ Asked(e, p) => Asked(g, p) \/ Says(u, {"piece", "reject"}, p)
    BY <1>11
  <2> QED
    BY <1>1, <1>7, <1>10, <2>1, MoreSaid
<1>13. OneWay(fext, g, o, u, t)
  <2>1. Adds(s, u, {"request", "piece", "reject"})
    BY <1>9 DEF ids
  <2>2. \A p \in g.requested : p \in e.requested \/ (Says(u, {"request"}, p) /\ AsksAgain(u, p))
    BY <1>7
  <2>3. g.have \subseteq e.have
    BY <1>7
  <2> QED
    BY <1>1, <1>7, <1>9, <2>1, <2>2, <2>3, MoreAsked
<1>14. Stands(c, g, wire[Wire!Peer(c)])
  BY <1>8, <1>12, <1>13 DEF Stands, d, o, t
<1> QED
  BY <1>7, <1>14 DEF e, g

LEMMA ChokeStep ==
  ASSUME WireInv, NEW c \in Clients, NEW on \in BOOLEAN, Wire!SetChoke(c, on)
  PROVE  WireInv'
<1> DEFINE e == msgs[c]
           e1 == [e EXCEPT !.peerIsChoked = on]
           g == IF on THEN Wire!cancelAllRequestsToClient(e) ELSE e
           h == IF on THEN Wire!cancelAllRequestsToClient(e1) ELSE e1
           id == IF on THEN "choke" ELSE "unchoke"
<1>1. e \in WireEnds /\ OwnIsKept(e) /\ Stands(c, e, wire[Wire!Peer(c)])
  BY PairOf DEF Stands
<1>2. Wire!Set(c, Wire!Send(h, id, {}))
  BY DEF Wire!SetChoke
<1>3. /\ g \in WireEnds /\ Stands(c, g, wire[Wire!Peer(c)]) /\ g.requested = e.requested /\ g.have = e.have
      /\ Len(g.peerAskedFor) <= Len(e.peerAskedFor)
      /\ on => g.peerAskedFor = <<>>
  <2>1. Len(e.peerAskedFor) \in Nat /\ Len(<<>>) = 0
    BY <1>1 DEF WireEnds
  <2>2. CASE on
    <3>1. LET x == Wire!cancelAllRequestsToClient(e) IN
          x \in WireEnds /\ Stands(c, x, wire[Wire!Peer(c)]) /\ x.requested = e.requested /\ x.have = e.have /\ x.peerAskedFor = <<>>
      BY AllCancelled
    <3>2. g = Wire!cancelAllRequestsToClient(e)
      BY <2>2
    <3> HIDE DEF g, e
    <3> QED
      BY <2>1, <3>1, <3>2
  <2>3. CASE ~on
    <3>1. g = e
      BY <2>3
    <3> HIDE DEF g, e
    <3> QED
      BY <1>1, <2>1, <2>3, <3>1
  <2> QED
    BY <2>2, <2>3
<1>4. h = [g EXCEPT !.peerIsChoked = on]
  BY <1>1 DEF Wire!cancelAllRequestsToClient, WireEnds
<1> HIDE DEF e, g, h
<1>5. /\ h \in WireEnds /\ h.outMessages = g.outMessages /\ h.clientIsInterested = g.clientIsInterested
      /\ h.have = g.have /\ h.peerHas = g.peerHas
      /\ h.peerIsChoked = on /\ h.clientIsChoked = g.clientIsChoked
      /\ h.peerIsInterested = g.peerIsInterested
      /\ h.peerAskedFor = g.peerAskedFor /\ h.requested = g.requested
  BY <1>3, <1>4 DEF WireEnds
<1>6. /\ id \in Wire!Ids \ Starting /\ id \notin Wire!OfPiece
      /\ id \notin {"interested", "not interested", "have", "cancel"}
      /\ (id = "choke" <=> on) /\ (id = "unchoke" <=> ~on)
  BY DEF Wire!Ids, Wire!Flags, Wire!OfPiece, Starting
<1> HIDE DEF id
<1>7. OwnIsKept(h)
  <2>1. h.requested \cap h.have = {} /\ (h.peerIsChoked => h.peerAskedFor = <<>>)
    <3>1. h.requested \cap h.have = {}
      BY <1>1, <1>3, <1>5 DEF OwnIsKept
    <3>2. CASE on
      <4>1. h.peerAskedFor = <<>>
        BY <1>3, <1>5, <3>2
      <4> QED
        BY <3>1, <4>1
    <3>3. CASE ~on
      <4>1. ~h.peerIsChoked
        BY <1>5, <3>3
      <4> QED
        BY <3>1, <4>1
    <3> QED
      BY <3>2, <3>3
  <2>2. /\ Len(h.peerAskedFor) \in Nat /\ Len(e.peerAskedFor) \in Nat /\ Len(e.peerAskedFor) < REQQ
        /\ Len(h.peerAskedFor) <= Len(e.peerAskedFor)
    <3>1. h.peerAskedFor \in Seq(TorrentPieces) /\ e.peerAskedFor \in Seq(TorrentPieces)
      BY <1>1, <1>5 DEF WireEnds
    <3>2. Len(e.peerAskedFor) < REQQ /\ h.peerAskedFor = g.peerAskedFor
      BY <1>1, <1>5 DEF OwnIsKept
    <3> QED
      BY <1>3, <3>1, <3>2
  <2>3. Len(h.peerAskedFor) < REQQ
    BY <2>2, WireAssumption
  <2> QED
    BY <2>1, <2>3 DEF OwnIsKept
<1>8. Tells(g, h, id, {})
  BY <1>5, <1>6 DEF Tells
<1>9. id \in Wire!OfPiece => \E p \in TorrentPieces : {} = {p}
  BY <1>6
<1>10. id \in Wire!Ids \ Starting /\ {} \in SUBSET TorrentPieces /\ h \in WireEnds /\ g \in WireEnds /\ Stands(c, g, wire[Wire!Peer(c)])
  BY <1>3, <1>5, <1>6
<1> QED
  BY <1>2, <1>7, <1>8, <1>9, <1>10, SayStep

-----------------------------------------------------------------------------
\* The pulse.
LEMMA AfterFirst ==
  ASSUME NEW S, NEW q \in Seq(S), NEW n \in 0 .. Len(q)
  PROVE  LET t == SubSeq(q, n + 1, Len(q)) IN
         t \in Seq(S) /\ Len(t) = Len(q) - n /\ \A k \in 1 .. Len(q) - n : t[k] = q[n + k]
<1> DEFINE t == SubSeq(q, n + 1, Len(q))
<1>1. Len(q) \in Nat /\ n \in Nat /\ n <= Len(q)
  OBVIOUS
<1>2. \A k \in n + 1 .. Len(q) : q[k] \in S
  <2>1. \A k \in n + 1 .. Len(q) : k \in 1 .. Len(q)
    BY <1>1
  <2> QED
    BY <2>1
<1>3. /\ t \in Seq(S) /\ Len(t) = (IF n + 1 <= Len(q) THEN Len(q) - (n + 1) + 1 ELSE 0)
      /\ \A k \in 1 .. Len(q) - (n + 1) + 1 : t[k] = q[(n + 1) + k - 1]
  BY <1>1, <1>2, SubSeqProperties
<1> HIDE DEF t
<1>4. t \in Seq(S) /\ Len(t) = Len(q) - n /\ \A k \in 1 .. Len(q) - n : t[k] = q[n + k]
  BY <1>1, <1>3
<1> QED
  BY <1>4 DEF t

\* The elements of the queue at some places, in order.
LEMMA AtPlaces ==
  ASSUME NEW q \in Seq(TorrentPieces), NEW n \in 0 .. Len(q), NEW S \in SUBSET (1 .. n)
  PROVE  LET s == Wire!InOrder(S)
             t == [i \in 1 .. Len(s) |-> q[s[i]]] IN
         t \in Seq(TorrentPieces) /\ \A x \in S : \E i \in 1 .. Len(t) : t[i] = q[x]
<1> DEFINE s == Wire!InOrder(S)
           t == [i \in 1 .. Len(s) |-> q[s[i]]]
<1>1. Len(q) \in Nat /\ n \in Nat /\ n <= Len(q) /\ \A x \in S : q[x] \in TorrentPieces
  OBVIOUS
<1>2. S \in SUBSET Nat /\ IsFiniteSet(S)
  <2>1. IsFiniteSet(1 .. n)
    BY <1>1, FS_Interval
  <2>2. IsFiniteSet(S)
    BY <2>1, FS_Subset
  <2> QED
    BY <2>2
<1>3. s \in Seq(S) /\ \A x \in S : \E i \in 1 .. Len(s) : s[i] = x
  BY <1>2, OrderIs
<1> HIDE DEF s
<1>4. Len(s) \in Nat /\ \A i \in 1 .. Len(s) : s[i] \in S
  BY <1>3
<1>5. \A i \in 1 .. Len(s) : q[s[i]] \in TorrentPieces
  BY <1>1, <1>4
<1>6. t \in Seq(TorrentPieces) /\ Len(t) = Len(s)
  BY <1>4, <1>5
<1>7. \A x \in S : \E i \in 1 .. Len(s) : t[i] = q[x]
  BY <1>3
<1> QED
  BY <1>6, <1>7 DEF s

LEMMA JoinedAgain ==
  \A x, y, z \in Seq(WireMsgs) : (x \o y) \o z = x \o (y \o z)
BY ConcatAssociative

Groups(x, y, z) == (x \o y) \o z = x \o (y \o z)

\* Joining is associative.
LEMMA JoinedGroups == \A x, y, z \in Seq(WireMsgs) : Groups(x, y, z)
BY JoinedAgain DEF Groups

Regroups(w, x, y, z, v) == ((w \o (x \o y)) \o z) \o v = w \o (x \o ((y \o z) \o v))

LEMMA JoinedTwice == \A w, x, y, z, v \in Seq(WireMsgs) : Regroups(w, x, y, z, v)
<1> SUFFICES ASSUME NEW w \in Seq(WireMsgs), NEW x \in Seq(WireMsgs), NEW y \in Seq(WireMsgs),
                    NEW z \in Seq(WireMsgs), NEW v \in Seq(WireMsgs)
             PROVE  ((w \o (x \o y)) \o z) \o v = w \o (x \o ((y \o z) \o v))
  BY DEF Regroups
<1> DEFINE xy == x \o y
           zv == z \o v
           yzv == y \o zv
<1>1. xy \in Seq(WireMsgs) /\ zv \in Seq(WireMsgs) /\ yzv \in Seq(WireMsgs) /\ w \o xy \in Seq(WireMsgs)
  BY Joined
<1>2. xy \o zv = x \o yzv
  <2>1. zv \in Seq(WireMsgs)
    BY <1>1
  <2> HIDE DEF zv
  <2>2. Groups(x, y, zv)
    BY <2>1, JoinedGroups
  <2> QED
    BY <2>2 DEF Groups
<1>3. (y \o z) \o v = yzv
  <2>1. Groups(y, z, v)
    BY JoinedGroups
  <2> QED
    BY <2>1 DEF Groups
<1> HIDE DEF xy, yzv
<1>4. ((w \o xy) \o z) \o v = (w \o xy) \o zv
  <2> DEFINE wxy == w \o xy
  <2>1. wxy \in Seq(WireMsgs)
    BY <1>1
  <2> HIDE DEF wxy
  <2>2. Groups(wxy, z, v)
    BY <2>1, JoinedGroups
  <2> QED
    BY <2>2 DEF Groups, wxy
<1> HIDE DEF zv
<1>5. (w \o xy) \o zv = w \o (xy \o zv)
  <2>1. Groups(w, xy, zv)
    BY <1>1, JoinedGroups
  <2> QED
    BY <2>1 DEF Groups
<1> QED
  BY <1>2, <1>3, <1>4, <1>5 DEF xy

LEMMA TwoJoined ==
  ASSUME NEW x \in Seq(WireMsgs), NEW y \in Seq(WireMsgs), NEW ids,
         \A i \in 1 .. Len(x) : x[i].id \in ids, \A i \in 1 .. Len(y) : y[i].id \in ids
  PROVE  LET q == x \o y IN
         /\ \A i \in 1 .. Len(x) : \E k \in 1 .. Len(q) : q[k] = x[i]
         /\ \A i \in 1 .. Len(y) : \E k \in 1 .. Len(q) : q[k] = y[i]
         /\ \A i \in 1 .. Len(q) : q[i].id \in ids
<1> DEFINE q == x \o y
<1>1. /\ Len(x) \in Nat /\ Len(y) \in Nat /\ Len(q) = Len(x) + Len(y)
      /\ \A i \in 1 .. Len(x) : q[i] = x[i]
      /\ \A i \in 1 .. Len(y) : q[Len(x) + i] = y[i]
  BY Joined
<1> HIDE DEF q
<1>2. \A i \in 1 .. Len(x) : i \in 1 .. Len(q)
  BY <1>1
<1>3. \A i \in 1 .. Len(y) : Len(x) + i \in 1 .. Len(q)
  BY <1>1
<1>4. ASSUME NEW i \in 1 .. Len(q)
      PROVE  q[i].id \in ids
  <2>1. CASE i <= Len(x)
    BY <1>1, <2>1
  <2>2. CASE ~(i <= Len(x))
    <3>1. i - Len(x) \in 1 .. Len(y) /\ Len(x) + (i - Len(x)) = i
      BY <1>1, <2>2
    <3> QED
      BY <1>1, <3>1
  <2> QED
    BY <2>1, <2>2
<1> QED
  BY <1>1, <1>2, <1>3, <1>4 DEF q

LEMMA ThreeJoined ==
  ASSUME NEW x \in Seq(WireMsgs), NEW y \in Seq(WireMsgs), NEW z \in Seq(WireMsgs), NEW ids,
         \A i \in 1 .. Len(x) : x[i].id \in ids, \A i \in 1 .. Len(y) : y[i].id \in ids,
         \A i \in 1 .. Len(z) : z[i].id \in ids
  PROVE  LET q == (x \o y) \o z IN
         /\ \A i \in 1 .. Len(x) : \E k \in 1 .. Len(q) : q[k] = x[i]
         /\ \A i \in 1 .. Len(y) : \E k \in 1 .. Len(q) : q[k] = y[i]
         /\ \A i \in 1 .. Len(z) : \E k \in 1 .. Len(q) : q[k] = z[i]
         /\ \A i \in 1 .. Len(q) : q[i].id \in ids
<1> DEFINE u == x \o y
<1>1. /\ u \in Seq(WireMsgs)
      /\ \A i \in 1 .. Len(x) : \E k \in 1 .. Len(u) : u[k] = x[i]
      /\ \A i \in 1 .. Len(y) : \E k \in 1 .. Len(u) : u[k] = y[i]
      /\ \A i \in 1 .. Len(u) : u[i].id \in ids
  BY TwoJoined, Joined
<1> HIDE DEF u
<1>2. /\ \A i \in 1 .. Len(u) : \E k \in 1 .. Len(u \o z) : (u \o z)[k] = u[i]
      /\ \A i \in 1 .. Len(z) : \E k \in 1 .. Len(u \o z) : (u \o z)[k] = z[i]
      /\ \A i \in 1 .. Len(u \o z) : (u \o z)[i].id \in ids
  BY <1>1, TwoJoined
<1>3. /\ \A i \in 1 .. Len(x) : \E k \in 1 .. Len(u \o z) : (u \o z)[k] = x[i]
      /\ \A i \in 1 .. Len(y) : \E k \in 1 .. Len(u \o z) : (u \o z)[k] = y[i]
  BY <1>1, <1>2
<1> QED
  BY <1>2, <1>3 DEF u

Flushes(w, out, reqs, blocks, rejs, x, y) ==
  \/ x = (w \o (out \o reqs)) \o blocks /\ y = <<>> \o rejs
  \/ x = (w \o <<>>) \o blocks /\ y = (out \o reqs) \o rejs
AllAre(s, ids) == \A i \in 1 .. Len(s) : s[i].id \in ids

\* What waits is flushed or not, then pieces go out at once and rejects wait.
LEMMA WrittenIs ==
  ASSUME NEW w \in Seq(WireMsgs), NEW out \in Seq(WireMsgs), NEW reqs \in Seq(WireMsgs),
         NEW blocks \in Seq(WireMsgs), NEW rejs \in Seq(WireMsgs), NEW ids, NEW x, NEW y,
         Flushes(w, out, reqs, blocks, rejs, x, y), "cancel" \notin ids,
         AllAre(reqs, ids), AllAre(blocks, ids), AllAre(rejs, ids)
  PROVE  LET u == x \o y IN
         /\ x \in Seq(WireMsgs) /\ y \in Seq(WireMsgs) /\ u \in Seq(WireMsgs) /\ Adds(w \o out, u, ids)
         /\ \A i \in 1 .. Len(reqs) : \E k \in 1 .. Len(u) : u[k] = reqs[i]
         /\ \A i \in 1 .. Len(blocks) : \E k \in 1 .. Len(u) : u[k] = blocks[i]
         /\ \A i \in 1 .. Len(rejs) : \E k \in 1 .. Len(u) : u[k] = rejs[i]
         /\ \A p : Says(reqs, {"request"}, p) => AsksAgain(u, p)
<1> DEFINE no == <<>>
<1>0. no \in Seq(WireMsgs) /\ \A i \in 1 .. Len(no) : no[i].id \in ids
  OBVIOUS
<1>1. /\ out \o reqs \in Seq(WireMsgs)
      /\ w \o out \in Seq(WireMsgs)
  BY Joined
<1>4. ((w \o (out \o reqs)) \o blocks) \o rejs = w \o (out \o ((reqs \o blocks) \o rejs))
  <2>1. Regroups(w, out, reqs, blocks, rejs)
    BY JoinedTwice
  <2> QED
    BY <2>1, Zenon DEF Regroups
<1>2. CASE x = (w \o (out \o reqs)) \o blocks /\ y = no \o rejs
  <2> DEFINE q == (reqs \o blocks) \o rejs
             u == (w \o no) \o (out \o q)
  <2>1. x = (w \o (out \o reqs)) \o blocks /\ y = no \o rejs
    BY <1>2
  <2>2. y = rejs
    BY <2>1, ConcatEmptySeq
  <2>3. w \o no = w
    BY ConcatEmptySeq
  <2> HIDE DEF no
  <2>4. reqs \o blocks \in Seq(WireMsgs) /\ q \in Seq(WireMsgs) /\ w \o (out \o reqs) \in Seq(WireMsgs)
    BY <1>1, Joined
  <2>5. x \in Seq(WireMsgs)
    BY <2>1, <2>4, Joined
  <2>6. x \o y = u
    <3>1. x \o y = ((w \o (out \o reqs)) \o blocks) \o rejs
      BY <2>1, <2>2
    <3> QED
      BY <1>4, <2>3, <3>1
  <2>7. /\ \A i \in 1 .. Len(reqs) : \E k \in 1 .. Len(q) : q[k] = reqs[i]
        /\ \A i \in 1 .. Len(blocks) : \E k \in 1 .. Len(q) : q[k] = blocks[i]
        /\ \A i \in 1 .. Len(rejs) : \E k \in 1 .. Len(q) : q[k] = rejs[i]
        /\ \A i \in 1 .. Len(q) : q[i].id \in ids
    BY <2>4, ThreeJoined DEF AllAre
  <2>8. LET v == (w \o no) \o (out \o q) IN
        /\ v \in Seq(WireMsgs) /\ Adds(w \o out, v, ids)
        /\ \A k \in 1 .. Len(no) : \E l \in 1 .. Len(v) : v[l] = no[k]
        /\ \A k \in 1 .. Len(q) : \E l \in 1 .. Len(v) : v[l] = q[k]
        /\ \A p : "cancel" \notin ids /\ Says(q, {"request"}, p) => AsksAgain(v, p)
    <3> HIDE DEF q
    <3>1. q \in Seq(WireMsgs) /\ \A i \in 1 .. Len(q) : q[i].id \in ids
      BY <2>4, <2>7
    <3> QED
      BY <1>0, <3>1, InsertIs, Zenon
  <2> HIDE DEF q, u
  <2>9. \A p : Says(reqs, {"request"}, p) => Says(q, {"request"}, p)
    BY <2>7 DEF Says
  <2>10. /\ u \in Seq(WireMsgs) /\ Adds(w \o out, u, ids)
         /\ \A k \in 1 .. Len(q) : \E l \in 1 .. Len(u) : u[l] = q[k]
         /\ \A p : Says(reqs, {"request"}, p) => AsksAgain(u, p)
    BY <2>8, <2>9 DEF u
  <2>11. /\ \A i \in 1 .. Len(reqs) : \E k \in 1 .. Len(u) : u[k] = reqs[i]
         /\ \A i \in 1 .. Len(blocks) : \E k \in 1 .. Len(u) : u[k] = blocks[i]
         /\ \A i \in 1 .. Len(rejs) : \E k \in 1 .. Len(u) : u[k] = rejs[i]
    BY <2>7, <2>10
  <2> QED
    BY <2>2, <2>5, <2>6, <2>10, <2>11
<1>3. CASE x = (w \o no) \o blocks /\ y = (out \o reqs) \o rejs
  <2> DEFINE q == reqs \o rejs
             u == (w \o blocks) \o (out \o q)
  <2>1. x = (w \o no) \o blocks /\ y = (out \o reqs) \o rejs
    BY <1>3
  <2>2. w \o no = w
    BY ConcatEmptySeq
  <2> HIDE DEF no
  <2>3. q \in Seq(WireMsgs) /\ y \in Seq(WireMsgs)
    BY <1>1, <2>1, Joined
  <2>4. x \in Seq(WireMsgs)
    BY <2>1, <2>2, Joined
  <2>5. x \o y = u
    <3>1. Groups(out, reqs, rejs)
      BY JoinedGroups
    <3>2. y = out \o q
      BY <2>1, <3>1 DEF Groups
    <3> QED
      BY <2>1, <2>2, <3>2
  <2>7. /\ \A i \in 1 .. Len(reqs) : \E k \in 1 .. Len(q) : q[k] = reqs[i]
        /\ \A i \in 1 .. Len(rejs) : \E k \in 1 .. Len(q) : q[k] = rejs[i]
        /\ \A i \in 1 .. Len(q) : q[i].id \in ids
    BY TwoJoined DEF AllAre
  <2>8. LET v == (w \o blocks) \o (out \o q) IN
        /\ v \in Seq(WireMsgs) /\ Adds(w \o out, v, ids)
        /\ \A k \in 1 .. Len(blocks) : \E l \in 1 .. Len(v) : v[l] = blocks[k]
        /\ \A k \in 1 .. Len(q) : \E l \in 1 .. Len(v) : v[l] = q[k]
        /\ \A p : "cancel" \notin ids /\ Says(q, {"request"}, p) => AsksAgain(v, p)
    <3> HIDE DEF q
    <3>1. q \in Seq(WireMsgs) /\ \A i \in 1 .. Len(q) : q[i].id \in ids
      BY <2>3, <2>7
    <3>2. \A i \in 1 .. Len(blocks) : blocks[i].id \in ids
      BY DEF AllAre
    <3> QED
      BY <3>1, <3>2, InsertIs, Zenon
  <2> HIDE DEF q, u
  <2>9. \A p : Says(reqs, {"request"}, p) => Says(q, {"request"}, p)
    BY <2>7 DEF Says
  <2>10. /\ u \in Seq(WireMsgs) /\ Adds(w \o out, u, ids)
         /\ \A k \in 1 .. Len(blocks) : \E l \in 1 .. Len(u) : u[l] = blocks[k]
         /\ \A k \in 1 .. Len(q) : \E l \in 1 .. Len(u) : u[l] = q[k]
         /\ \A p : Says(reqs, {"request"}, p) => AsksAgain(u, p)
    BY <2>8, <2>9 DEF u
  <2>11. /\ \A i \in 1 .. Len(reqs) : \E k \in 1 .. Len(u) : u[k] = reqs[i]
         /\ \A i \in 1 .. Len(blocks) : \E k \in 1 .. Len(u) : u[k] = blocks[i]
         /\ \A i \in 1 .. Len(rejs) : \E k \in 1 .. Len(u) : u[k] = rejs[i]
    BY <2>7, <2>10
  <2> QED
    BY <2>3, <2>4, <2>5, <2>10, <2>11
<1> QED
  BY <1>2, <1>3, Zenon DEF Flushes

LEMMA PulseOfWire ==
  ASSUME WireInv, NEW c \in Clients, NEW R \in SUBSET TorrentPieces, NEW flush \in BOOLEAN, NEW bad \in BOOLEAN,
         NEW n \in 0 .. Len(msgs[c].peerAskedFor), Wire!Pulse(c, R, flush, n, bad)
  PROVE  WireInv'
<1> DEFINE e == msgs[c]
           d == Wire!Peer(c)
           o == msgs[d]
           q == e.peerAskedFor
           out == e.outMessages
           w == wire[c]
           t == wire[d] \o o.outMessages
           ids == {"request", "piece", "reject"}
           e1 == Wire!updateBlockRequests(e, R)
           good == Wire!Served(e1, n, bad)
           At(S) == LET s == Wire!InOrder(S) IN [i \in 1 .. Len(s) |-> q[s[i]]]
           reqs == Wire!Each("request", Wire!InOrder(R))
           blocks == Wire!Each("piece", At(good))
           rejs == IF fext THEN Wire!Each("reject", At((1 .. n) \ good)) ELSE <<>>
           x == w \o (IF flush THEN out \o reqs ELSE <<>>) \o blocks
           y == (IF flush THEN <<>> ELSE out \o reqs) \o rejs
           u == x \o y
           left == SubSeq(q, n + 1, Len(q))
           kept == IF bad THEN e.have \ {q[n]} ELSE e.have
           f == [e EXCEPT !.requested = @ \cup R, !.peerAskedFor = left, !.have = kept, !.outMessages = y]
<1>1. /\ fext \in BOOLEAN /\ e \in WireEnds /\ o \in WireEnds /\ w \in Seq(WireMsgs)
      /\ out \in Seq(WireMsgs) /\ w \o out \in Seq(WireMsgs) /\ t \in Seq(WireMsgs)
      /\ OneWay(fext, e, o, w \o out, t) /\ OneWay(fext, o, e, t, w \o out) /\ OwnIsKept(e)
      /\ d \in Clients /\ d # c /\ wire[d] \in Seq(WireMsgs)
  BY PairOf
<1>2. q \in Seq(TorrentPieces) /\ n \in 0 .. Len(q)
  BY <1>1 DEF WireEnds
<1>3. /\ R \cap e.have = {}
      /\ msgs' = [msgs EXCEPT ![c] = f]
      /\ wire' = [wire EXCEPT ![c] = x] /\ fext' = fext
  <2>1. R \subseteq e.peerHas \ (e.have \cup e.requested) /\ Wire!fillOutputBuffer(c, e1, flush, n, bad)
    BY DEF Wire!Pulse
  <2>2. /\ e1 = [e EXCEPT !.requested = @ \cup R, !.outMessages = @ \o reqs]
        /\ e1.peerAskedFor = q /\ e1.outMessages = out \o reqs /\ e1.have = e.have
        /\ e1.requested = e.requested \cup R
    BY <1>1 DEF Wire!updateBlockRequests, WireEnds
  <2>3. /\ msgs' = [msgs EXCEPT ![c] =
              [e1 EXCEPT !.peerAskedFor = left, !.have = kept, !.outMessages = y]]
        /\ wire' = [wire EXCEPT ![c] = x] /\ fext' = fext
    <3> DEFINE At1(S) == LET s == Wire!InOrder(S) IN [i \in 1 .. Len(s) |-> e1.peerAskedFor[s[i]]]
    <3> HIDE DEF e, e1, reqs
    <3>1. /\ msgs' = [msgs EXCEPT ![c] =
                [e1 EXCEPT !.peerAskedFor = SubSeq(e1.peerAskedFor, n + 1, Len(e1.peerAskedFor)),
                           !.have = IF bad THEN e1.have \ {e1.peerAskedFor[n]} ELSE e1.have,
                           !.outMessages = (IF flush THEN <<>> ELSE e1.outMessages)
                              \o (IF fext THEN Wire!Each("reject", At1((1 .. n) \ good)) ELSE <<>>)]]
          /\ wire' = [wire EXCEPT ![c] =
                w \o (IF flush THEN e1.outMessages ELSE <<>>) \o Wire!Each("piece", At1(good))]
          /\ fext' = fext
      BY <2>1 DEF Wire!fillOutputBuffer
    <3>2. At1(good) = At(good) /\ At1((1 .. n) \ good) = At((1 .. n) \ good)
      BY <2>2
    <3> HIDE DEF At1, At, good
    <3> QED
      BY <2>2, <3>1, <3>2
  <2>4. [e1 EXCEPT !.peerAskedFor = left, !.have = kept, !.outMessages = y] = f
    <3> HIDE DEF e1, left, kept, y, reqs
    <3> QED
      BY <1>1, <2>2 DEF WireEnds
  <2> QED
    BY <2>1, <2>3, <2>4
<1> HIDE DEF d, e, o, t, w, e1, x, y, left, kept, f
<1>4. good \in SUBSET (1 .. n) /\ (1 .. n) \ good \in SUBSET (1 .. n)
  BY DEF Wire!Served
<1> HIDE DEF good
<1>5. /\ At(good) \in Seq(TorrentPieces) /\ \A k \in good : \E i \in 1 .. Len(At(good)) : At(good)[i] = q[k]
  BY <1>2, <1>4, AtPlaces
<1>6. /\ At((1 .. n) \ good) \in Seq(TorrentPieces)
      /\ \A k \in (1 .. n) \ good : \E i \in 1 .. Len(At((1 .. n) \ good)) : At((1 .. n) \ good)[i] = q[k]
  BY <1>2, <1>4, AtPlaces
<1>7. Wire!InOrder(R) \in Seq(TorrentPieces) /\ \A p \in R : \E i \in 1 .. Len(Wire!InOrder(R)) : Wire!InOrder(R)[i] = p
  <2>1. R \in SUBSET Nat /\ IsFiniteSet(R)
    BY PiecesAssumption, FS_Subset
  <2>2. Wire!InOrder(R) \in Seq(R) /\ \A p \in R : \E i \in 1 .. Len(Wire!InOrder(R)) : Wire!InOrder(R)[i] = p
    BY <2>1, OrderIs
  <2> QED
    BY <2>2, LongerSeq
<1> HIDE DEF q, out
<1>8. "request" \in Wire!OfPiece /\ "piece" \in Wire!OfPiece /\ "reject" \in Wire!OfPiece
  BY DEF Wire!OfPiece
<1>9. /\ reqs \in Seq(WireMsgs) /\ \A i \in 1 .. Len(reqs) : reqs[i].id \in ids
      /\ \A p \in R : Says(reqs, {"request"}, p)
  <2> DEFINE ps == Wire!InOrder(R)
  <2>1. ps \in Seq(TorrentPieces) /\ \A p \in R : \E i \in 1 .. Len(ps) : ps[i] = p
    BY <1>7
  <2> HIDE DEF ps
  <2>2. LET z == Wire!Each("request", ps) IN
        /\ z \in Seq(WireMsgs) /\ Len(z) = Len(ps)
        /\ \A i \in 1 .. Len(ps) : z[i].id = "request" /\ z[i].pieces = {ps[i]}
    BY <1>8, <2>1, EachIs
  <2>3. reqs = Wire!Each("request", ps)
    BY DEF ps
  <2> HIDE DEF reqs
  <2> QED
    BY <2>1, <2>2, <2>3 DEF Says
<1>10. /\ blocks \in Seq(WireMsgs) /\ \A i \in 1 .. Len(blocks) : blocks[i].id \in ids
       /\ \A k \in good : Says(blocks, {"piece"}, q[k])
  <2> DEFINE ps == At(good)
  <2>1. ps \in Seq(TorrentPieces) /\ \A k \in good : \E i \in 1 .. Len(ps) : ps[i] = q[k]
    BY <1>5
  <2> HIDE DEF ps
  <2>2. LET z == Wire!Each("piece", ps) IN
        /\ z \in Seq(WireMsgs) /\ Len(z) = Len(ps)
        /\ \A i \in 1 .. Len(ps) : z[i].id = "piece" /\ z[i].pieces = {ps[i]}
    BY <1>8, <2>1, EachIs
  <2>3. blocks = Wire!Each("piece", ps)
    BY DEF ps
  <2> HIDE DEF blocks
  <2> QED
    BY <2>1, <2>2, <2>3 DEF Says
<1>11. /\ rejs \in Seq(WireMsgs) /\ \A i \in 1 .. Len(rejs) : rejs[i].id \in ids
       /\ fext => \A k \in (1 .. n) \ good : Says(rejs, {"reject"}, q[k])
  <2> DEFINE ps == At((1 .. n) \ good)
             D == (1 .. n) \ good
  <2>1. ps \in Seq(TorrentPieces) /\ \A k \in D : \E i \in 1 .. Len(ps) : ps[i] = q[k]
    BY <1>6
  <2>2. rejs = IF fext THEN Wire!Each("reject", ps) ELSE <<>>
    OBVIOUS
  <2> HIDE DEF ps, D, rejs
  <2>3. LET z == Wire!Each("reject", ps) IN
        /\ z \in Seq(WireMsgs) /\ Len(z) = Len(ps)
        /\ \A i \in 1 .. Len(ps) : z[i].id = "reject" /\ z[i].pieces = {ps[i]}
    BY <1>8, <2>1, EachIs
  <2>4. CASE fext
    <3>1. rejs = Wire!Each("reject", ps)
      BY <2>2, <2>4
    <3>2. \A k \in D : Says(rejs, {"reject"}, q[k])
      BY <2>1, <2>3, <3>1 DEF Says
    <3>3. rejs \in Seq(WireMsgs) /\ \A i \in 1 .. Len(rejs) : rejs[i].id \in ids
      BY <2>3, <3>1
    <3> QED
      BY <3>2, <3>3 DEF D
  <2>5. CASE ~fext
    BY <2>2, <2>5
  <2> QED
    BY <2>4, <2>5
<1> HIDE DEF reqs, blocks, rejs, At, ids
<1>12. /\ x \in Seq(WireMsgs) /\ y \in Seq(WireMsgs) /\ u \in Seq(WireMsgs) /\ Adds(w \o out, u, ids)
       /\ \A i \in 1 .. Len(reqs) : \E k \in 1 .. Len(u) : u[k] = reqs[i]
       /\ \A i \in 1 .. Len(blocks) : \E k \in 1 .. Len(u) : u[k] = blocks[i]
       /\ \A i \in 1 .. Len(rejs) : \E k \in 1 .. Len(u) : u[k] = rejs[i]
       /\ \A p : Says(reqs, {"request"}, p) => AsksAgain(u, p)
  <2>1. "cancel" \notin ids
    BY DEF ids
  <2>2. Flushes(w, out, reqs, blocks, rejs, x, y)
    BY Zenon DEF x, y, Flushes
  <2>3. w \in Seq(WireMsgs) /\ out \in Seq(WireMsgs)
    BY <1>1
  <2>4. reqs \in Seq(WireMsgs) /\ AllAre(reqs, ids)
    BY <1>9 DEF AllAre
  <2>5. blocks \in Seq(WireMsgs) /\ AllAre(blocks, ids)
    BY <1>10 DEF AllAre
  <2>6. rejs \in Seq(WireMsgs) /\ AllAre(rejs, ids)
    BY <1>11 DEF AllAre
  <2> QED
    BY <2>1, <2>2, <2>3, <2>4, <2>5, <2>6, WrittenIs, Zenon
<1> HIDE DEF u
<1>13. left \in Seq(TorrentPieces) /\ Len(left) = Len(q) - n /\ \A k \in 1 .. Len(q) - n : left[k] = q[n + k]
  BY <1>2, AfterFirst DEF left
<1>14. kept \subseteq e.have
  BY DEF kept
<1>15. /\ f \in WireEnds /\ f.requested = e.requested \cup R /\ f.peerAskedFor = left /\ f.have = kept
       /\ f.outMessages = y /\ f.peerHas = e.peerHas
       /\ f.peerIsChoked = e.peerIsChoked /\ f.clientIsChoked = e.clientIsChoked
       /\ f.peerIsInterested = e.peerIsInterested /\ f.clientIsInterested = e.clientIsInterested
  BY <1>1, <1>12, <1>13, <1>14 DEF WireEnds, f
<1> HIDE DEF left, kept, x, y
<1>16. OwnIsKept(f)
  <2>1. f.requested \cap f.have = {}
    BY <1>1, <1>3, <1>14, <1>15 DEF OwnIsKept
  <2>2. ASSUME f.peerIsChoked
        PROVE  f.peerAskedFor = <<>>
    <3>1. q = <<>>
      BY <1>1, <1>15, <2>2 DEF OwnIsKept, q
    <3>2. Len(left) = 0
      BY <1>2, <1>13, <3>1
    <3> QED
      BY <1>13, <1>15, <3>2
  <2>3. Len(f.peerAskedFor) < REQQ
    <3>1. Len(q) < REQQ
      BY <1>1 DEF OwnIsKept, q
    <3>2. Len(q) \in Nat /\ n \in Nat /\ Len(f.peerAskedFor) = Len(q) - n
      BY <1>2, <1>13, <1>15
    <3> QED
      BY <3>1, <3>2, WireAssumption
  <2> QED
    BY <2>1, <2>2, <2>3 DEF OwnIsKept
<1>17. OneWay(fext, f, o, u, t)
  <2>1. Adds(w \o out, u, {"request", "piece", "reject"})
    BY <1>12 DEF ids
  <2>2. \A p \in f.requested : p \in e.requested \/ (Says(u, {"request"}, p) /\ AsksAgain(u, p))
    <3> SUFFICES ASSUME NEW p \in R
                 PROVE  Says(u, {"request"}, p) /\ AsksAgain(u, p)
      BY <1>15
    <3>1. Says(reqs, {"request"}, p)
      BY <1>9
    <3>2. AsksAgain(u, p)
      BY <1>12, <3>1
    <3>3. Says(u, {"request"}, p)
      BY <1>12, <3>1 DEF Says
    <3> QED
      BY <3>2, <3>3
  <2>3. f.have \subseteq e.have
    BY <1>14, <1>15
  <2>4. w \o out \in Seq(WireMsgs) /\ u \in Seq(WireMsgs) /\ t \in Seq(WireMsgs) /\ OneWay(fext, e, o, w \o out, t)
    BY <1>1, <1>12
  <2> DEFINE s == w \o out
  <2> HIDE DEF s
  <2>5. s \in Seq(WireMsgs) /\ OneWay(fext, e, o, s, t) /\ Adds(s, u, {"request", "piece", "reject"})
    BY <2>1, <2>4 DEF s
  <2> QED
    BY <1>1, <1>15, <2>2, <2>3, <2>4, <2>5, MoreAsked
<1>18. OneWay(fext, o, f, t, u)
  <2>1. \A i \in 1 .. Len(w \o out) : \E k \in 1 .. Len(u) : u[k] = (w \o out)[i]
    BY <1>1, <1>12, AddsRest
  <2>2. \A p : fext /\ Asked(e, p) => Asked(f, p) \/ Says(u, {"piece", "reject"}, p)
    <3> SUFFICES ASSUME fext, NEW k \in 1 .. Len(q)
                 PROVE  Asked(f, q[k]) \/ Says(u, {"piece", "reject"}, q[k])
      BY DEF Asked, q
    <3>1. CASE k \in 1 .. n
      <4>1. CASE k \in good
        <5>1. Says(blocks, {"piece"}, q[k])
          BY <1>10, <4>1
        <5>2. \A j \in 1 .. Len(blocks) : \E l \in 1 .. Len(u) : u[l] = blocks[j]
          BY <1>12
        <5>3. Says(u, {"piece"}, q[k])
          BY <5>1, <5>2, SaidStill
        <5> QED
          BY <5>3 DEF Says
      <4>2. CASE k \notin good
        <5>1. Says(rejs, {"reject"}, q[k])
          BY <1>11, <3>1, <4>2
        <5>2. \A j \in 1 .. Len(rejs) : \E l \in 1 .. Len(u) : u[l] = rejs[j]
          BY <1>12
        <5>3. Says(u, {"reject"}, q[k])
          BY <5>1, <5>2, SaidStill
        <5> QED
          BY <5>3 DEF Says
      <4> QED
        BY <4>1, <4>2
    <3>2. CASE k \notin 1 .. n
      <4>1. k - n \in 1 .. Len(q) - n /\ n + (k - n) = k
        BY <1>2, <3>2
      <4>2. k - n \in 1 .. Len(left) /\ left[k - n] = q[k]
        BY <1>13, <4>1
      <4> QED
        BY <1>15, <4>2 DEF Asked
    <3> QED
      BY <3>1, <3>2
  <2> DEFINE s == w \o out
  <2>3. OneWay(fext, o, e, t, s) /\ \A i \in 1 .. Len(s) : \E k \in 1 .. Len(u) : u[k] = s[i]
    BY <1>1, <2>1
  <2> HIDE DEF s
  <2>4. f.clientIsChoked = e.clientIsChoked /\ f.peerIsInterested = e.peerIsInterested /\ f.peerHas = e.peerHas
    BY <1>15
  <2> QED
    BY <1>1, <2>2, <2>3, <2>4, MoreSaid
<1>19. /\ wire' \in [Clients -> Seq(WireMsgs)] /\ wire'[c] \o f.outMessages = u
       /\ wire'[d] \o o.outMessages = t
  <2>1. wire \in [Clients -> Seq(WireMsgs)]
    BY DEF WireInv, WireTypes
  <2>2. wire'[c] = x /\ wire'[d] = wire[d] /\ wire' \in [Clients -> Seq(WireMsgs)]
    BY <1>1, <1>3, <1>12, <2>1
  <2> QED
    BY <1>15, <2>2 DEF u, t
<1>20. LET O == msgs[Wire!Peer(c)]
           S == wire'[c] \o f.outMessages
           T == wire'[Wire!Peer(c)] \o O.outMessages IN
       OneWay(fext, f, O, S, T) /\ OneWay(fext, O, f, T, S) /\ OwnIsKept(f)
  BY <1>16, <1>17, <1>18, <1>19 DEF d, o
<1> QED
  BY <1>3, <1>15, <1>19, <1>20, StepOf

-----------------------------------------------------------------------------
\* A message is read.
LEMMA TailJoined ==
  \A v, o \in Seq(WireMsgs) : v # <<>> =>
    Tail(v) \in Seq(WireMsgs) /\ v \o o # <<>> /\ Head(v \o o) = Head(v) /\ Tail(v \o o) = Tail(v) \o o
<1> SUFFICES ASSUME NEW v \in Seq(WireMsgs), NEW o \in Seq(WireMsgs), v # <<>>
             PROVE  /\ Tail(v) \in Seq(WireMsgs) /\ v \o o # <<>> /\ Head(v \o o) = Head(v)
                    /\ Tail(v \o o) = Tail(v) \o o
  OBVIOUS
<1>1. Tail(v) \in Seq(WireMsgs) /\ v \o o \in Seq(WireMsgs) /\ Len(v) \in Nat \ {0} /\ v \o o # <<>>
  OBVIOUS
<1>2. Head(v \o o) = Head(v)
  OBVIOUS
<1>3. Tail(v \o o) = Tail(v) \o o
  OBVIOUS
<1> QED
  BY <1>1, <1>2, <1>3

\* What g becomes by reading m.
Hears(g, f, m) ==
  /\ f.outMessages = g.outMessages /\ f.peerIsChoked = g.peerIsChoked
  /\ f.clientIsInterested = g.clientIsInterested
  /\ f.have \subseteq g.have /\ f.requested \subseteq g.requested
  /\ fext /\ m.id \in {"piece", "reject"} => f.requested \cap m.pieces = {}
  /\ f.clientIsChoked = IF m.id = "choke" THEN TRUE ELSE IF m.id = "unchoke" THEN FALSE ELSE g.clientIsChoked
  /\ f.peerIsInterested = IF m.id = "interested" THEN TRUE
                          ELSE IF m.id = "not interested" THEN FALSE ELSE g.peerIsInterested
  /\ m.id = "have" => f.peerHas = g.peerHas \cup m.pieces
  /\ m.id = "bitfield" => f.peerHas = m.pieces
  /\ m.id = "have all" => f.peerHas = TorrentPieces
  /\ m.id \notin Starting \cup {"have"} => f.peerHas = g.peerHas
  /\ \A p : fext /\ Asked(g, p) => Asked(f, p) \/ (m.id = "cancel" /\ p \in m.pieces)
  /\ m.id = "request" => \A p \in m.pieces : fext => Asked(f, p) \/ Says(g.outMessages, {"piece", "reject"}, p)

LEMMA Heard ==
  ASSUME WireInv, NEW c \in Clients, NEW g \in WireEnds, NEW f \in WireEnds,
         NEW v \in Seq(WireMsgs), v # <<>>, Stands(c, g, v), NEW m \in WireMsgs, m = Head(v), Hears(g, f, m)
  PROVE  Stands(c, f, Tail(v))
<1> DEFINE d == Wire!Peer(c)
           o == msgs[d]
           s == wire[c] \o g.outMessages
           t == v \o o.outMessages
<1>1. fext \in BOOLEAN /\ o \in WireEnds /\ wire[c] \in Seq(WireMsgs)
  BY PairOf
<1>2. g.outMessages \in Seq(WireMsgs) /\ o.outMessages \in Seq(WireMsgs)
  BY <1>1 DEF WireEnds
<1>3. s \in Seq(WireMsgs) /\ t \in Seq(WireMsgs)
      /\ \A i \in 1 .. Len(g.outMessages) : \E k \in 1 .. Len(s) : s[k] = g.outMessages[i]
  <2>1. s \in Seq(WireMsgs) /\ t \in Seq(WireMsgs)
    BY <1>1, <1>2, Joined
  <2> DEFINE w == wire[c]
             q == g.outMessages
  <2>2. w \in Seq(WireMsgs) /\ q \in Seq(WireMsgs) /\ s = w \o q
    BY <1>1, <1>2
  <2> HIDE DEF w, q, s
  <2>3. \A i \in 1 .. Len(q) : \E k \in 1 .. Len(s) : s[k] = q[i]
    <3>1. /\ Len(w) \in Nat /\ Len(q) \in Nat /\ Len(s) = Len(w) + Len(q)
          /\ \A i \in 1 .. Len(q) : s[Len(w) + i] = q[i]
      BY <2>2, Joined
    <3>2. \A i \in 1 .. Len(q) : Len(w) + i \in 1 .. Len(s)
      BY <3>1
    <3> QED
      BY <3>1, <3>2
  <2> QED
    BY <2>1, <2>3 DEF q
<1>4. t # <<>> /\ Head(t) = m /\ Tail(t) = Tail(v) \o o.outMessages
  BY <1>2, TailJoined
<1>5. OneWay(fext, g, o, s, t) /\ OneWay(fext, o, g, t, s)
  BY DEF Stands
<1> HIDE DEF d, o, t
<1>6. wire[c] \o f.outMessages = s
  BY DEF Hears
<1>7. \A p : Says(g.outMessages, {"piece", "reject"}, p) => Says(s, {"piece", "reject"}, p)
  BY <1>3 DEF Says
<1> HIDE DEF s
<1>8. OneWay(fext, f, o, s, Tail(t))
  <2>1. /\ f.peerIsChoked = g.peerIsChoked /\ f.clientIsInterested = g.clientIsInterested
        /\ f.have \subseteq g.have /\ f.requested \subseteq g.requested
    BY DEF Hears
  <2>2. fext /\ Head(t).id \in {"piece", "reject"} => f.requested \cap Head(t).pieces = {}
    BY <1>4 DEF Hears
  <2> QED
    BY <1>1, <1>3, <1>4, <1>5, <2>1, <2>2, ReaderGoesOn
<1>9. OneWay(fext, o, f, Tail(t), s)
  <2>1. /\ f.clientIsChoked = IF m.id = "choke" THEN TRUE ELSE IF m.id = "unchoke" THEN FALSE ELSE g.clientIsChoked
        /\ f.peerIsInterested = IF m.id = "interested" THEN TRUE
                                ELSE IF m.id = "not interested" THEN FALSE ELSE g.peerIsInterested
    BY DEF Hears
  <2>2. /\ m.id = "have" => f.peerHas = g.peerHas \cup m.pieces
        /\ m.id = "bitfield" => f.peerHas = m.pieces
        /\ m.id = "have all" => f.peerHas = TorrentPieces
        /\ m.id \notin Starting \cup {"have"} => f.peerHas = g.peerHas
    BY DEF Hears
  <2>3. \A i \in 1 .. Len(s) : \E k \in 1 .. Len(s) : s[k] = s[i]
    OBVIOUS
  <2>4. \A p : fext /\ Asked(g, p) =>
          Asked(f, p) \/ Says(s, {"piece", "reject"}, p) \/ (m.id = "cancel" /\ p \in m.pieces)
    BY DEF Hears
  <2>5. m.id = "request" => \A p \in m.pieces : fext => Asked(f, p) \/ Says(s, {"piece", "reject"}, p)
    BY <1>7 DEF Hears
  <2> QED
    BY <1>1, <1>3, <1>4, <1>5, <2>1, <2>2, <2>3, <2>4, <2>5, ReaderHears
<1>10. t = v \o o.outMessages
  BY DEF t
<1> QED
  BY <1>4, <1>6, <1>8, <1>9 DEF Stands, d, o

LEMMA ReadStep ==
  ASSUME WireInv, NEW c \in Clients, NEW f \in WireEnds, wire[Wire!Peer(c)] # <<>>,
         Stands(c, f, Tail(wire[Wire!Peer(c)])), OwnIsKept(f), Wire!Read(c, f)
  PROVE  WireInv'
<1> DEFINE d == Wire!Peer(c)
<1>1. d \in Clients /\ d # c /\ wire[d] \in Seq(WireMsgs) /\ Tail(wire[d]) \in Seq(WireMsgs)
  BY PairOf, TailJoined
<1>2. msgs' = [msgs EXCEPT ![c] = f] /\ wire' = [wire EXCEPT ![d] = Tail(wire[d])] /\ fext' = fext
  BY DEF Wire!Read
<1> HIDE DEF d
<1>3. wire \in [Clients -> Seq(WireMsgs)]
  BY DEF WireInv, WireTypes
<1>4. wire' \in [Clients -> Seq(WireMsgs)] /\ wire'[c] = wire[c] /\ wire'[d] = Tail(wire[d])
  BY <1>1, <1>2, <1>3
<1>5. LET o == msgs[Wire!Peer(c)]
          s == wire'[c] \o f.outMessages
          t == wire'[Wire!Peer(c)] \o o.outMessages IN
      OneWay(fext, f, o, s, t) /\ OneWay(fext, o, f, t, s) /\ OwnIsKept(f)
  BY <1>4 DEF Stands, d
<1> QED
  BY <1>2, <1>4, <1>5, StepOf

\* What a client is about to read.
LEMMA Reading ==
  ASSUME WireInv, NEW c \in Clients, NEW ids, Wire!Incoming(c, ids)
  PROVE  LET e == msgs[c]
             v == wire[Wire!Peer(c)]
             m == Head(v) IN
         /\ fext \in BOOLEAN /\ e \in WireEnds /\ OwnIsKept(e) /\ v \in Seq(WireMsgs) /\ v # <<>>
         /\ Tail(v) \in Seq(WireMsgs) /\ Stands(c, e, v)
         /\ m \in WireMsgs /\ Wire!Next1(c) = m /\ m.id \in ids /\ m.pieces \in SUBSET TorrentPieces
         /\ m.id \in Wire!OfPiece => Wire!ThePiece(c) \in TorrentPieces /\ m.pieces = {Wire!ThePiece(c)}
<1> DEFINE v == wire[Wire!Peer(c)]
           m == Head(v)
<1>1. /\ fext \in BOOLEAN /\ msgs[c] \in WireEnds /\ OwnIsKept(msgs[c]) /\ v \in Seq(WireMsgs)
      /\ Stands(c, msgs[c], v)
  BY PairOf DEF Stands
<1>2. v # <<>> /\ m.id \in ids /\ Wire!Next1(c) = m
  BY DEF Wire!Incoming, Wire!Next1
<1>3. m \in WireMsgs /\ Tail(v) \in Seq(WireMsgs)
  BY <1>1, <1>2, TailIs
<1> HIDE DEF v, m
<1>4. m.id \in Wire!OfPiece => Wire!ThePiece(c) \in TorrentPieces /\ m.pieces = {Wire!ThePiece(c)}
  BY <1>2, <1>3 DEF WireMsgs, Wire!ThePiece
<1>5. m.pieces \in SUBSET TorrentPieces
  BY <1>3 DEF WireMsgs
<1> QED
  BY <1>1, <1>2, <1>3, <1>4, <1>5 DEF v, m

LEMMA ReadChokeStep ==
  ASSUME WireInv, NEW c \in Clients, Wire!ReadChoke(c)
  PROVE  WireInv'
<1> DEFINE e == msgs[c]
           v == wire[Wire!Peer(c)]
           m == Head(v)
           f == [e EXCEPT !.clientIsChoked = TRUE, !.requested = IF fext THEN @ ELSE {}]
<1>1. Wire!Incoming(c, {"choke"}) /\ Wire!Read(c, f)
  BY DEF Wire!ReadChoke
<1>2. /\ e \in WireEnds /\ OwnIsKept(e) /\ v \in Seq(WireMsgs) /\ v # <<>> /\ Stands(c, e, v)
      /\ m \in WireMsgs /\ m.id = "choke"
  BY <1>1, Reading
<1> HIDE DEF e, m
<1>3. /\ f \in WireEnds /\ f.outMessages = e.outMessages /\ f.clientIsInterested = e.clientIsInterested
      /\ f.have = e.have /\ f.peerHas = e.peerHas
      /\ f.peerIsChoked = e.peerIsChoked /\ f.clientIsChoked = TRUE
      /\ f.peerIsInterested = e.peerIsInterested
      /\ f.peerAskedFor = e.peerAskedFor /\ f.requested \subseteq e.requested
  BY <1>2 DEF WireEnds
<1> HIDE DEF f
<1>4. OwnIsKept(f)
  BY <1>2, <1>3 DEF OwnIsKept
<1>5. Hears(e, f, m)
  BY <1>2, <1>3 DEF Hears, Asked, Starting
<1>6. Stands(c, f, Tail(v))
  BY <1>2, <1>3, <1>5, Heard DEF m
<1> QED
  BY <1>1, <1>2, <1>3, <1>4, <1>6, ReadStep

LEMMA ReadFlagStep ==
  ASSUME WireInv, NEW c \in Clients, Wire!ReadFlag(c)
  PROVE  WireInv'
<1> DEFINE e == msgs[c]
           v == wire[Wire!Peer(c)]
           m == Head(v)
           f == CASE m.id = "unchoke"        -> [e EXCEPT !.clientIsChoked = FALSE]
                  [] m.id = "interested"     -> [e EXCEPT !.peerIsInterested = TRUE]
                  [] m.id = "not interested" -> [e EXCEPT !.peerIsInterested = FALSE]
<1>1. Wire!Incoming(c, Wire!Flags \ {"choke"}) /\ Wire!Read(c, f)
  BY DEF Wire!ReadFlag, Wire!Next1
<1>2. /\ e \in WireEnds /\ OwnIsKept(e) /\ v \in Seq(WireMsgs) /\ v # <<>> /\ Stands(c, e, v)
      /\ m \in WireMsgs /\ m.id \in Wire!Flags \ {"choke"}
  BY <1>1, Reading
<1> HIDE DEF e, m
<1>3. /\ f \in WireEnds /\ f.outMessages = e.outMessages /\ f.clientIsInterested = e.clientIsInterested
      /\ f.have = e.have /\ f.peerHas = e.peerHas /\ f.peerIsChoked = e.peerIsChoked
      /\ f.clientIsChoked = IF m.id = "choke" THEN TRUE ELSE IF m.id = "unchoke" THEN FALSE ELSE e.clientIsChoked
      /\ f.peerIsInterested = IF m.id = "interested" THEN TRUE
                              ELSE IF m.id = "not interested" THEN FALSE ELSE e.peerIsInterested
      /\ f.peerAskedFor = e.peerAskedFor /\ f.requested = e.requested
  <2>1. CASE m.id = "unchoke"
    BY <1>2, <2>1 DEF WireEnds
  <2>2. CASE m.id = "interested"
    BY <1>2, <2>2 DEF WireEnds
  <2>3. CASE m.id = "not interested"
    BY <1>2, <2>3 DEF WireEnds
  <2> QED
    BY <1>2, <2>1, <2>2, <2>3 DEF Wire!Flags
<1> HIDE DEF f
<1>4. OwnIsKept(f)
  BY <1>2, <1>3 DEF OwnIsKept
<1>5. Hears(e, f, m)
  BY <1>2, <1>3 DEF Hears, Asked, Starting, Wire!Flags
<1>6. Stands(c, f, Tail(v))
  BY <1>2, <1>3, <1>5, Heard DEF m
<1> QED
  BY <1>1, <1>2, <1>3, <1>4, <1>6, ReadStep

LEMMA ReadWhatPeerHasStep ==
  ASSUME WireInv, NEW c \in Clients, Wire!ReadWhatPeerHas(c)
  PROVE  WireInv'
<1> DEFINE e == msgs[c]
           v == wire[Wire!Peer(c)]
           m == Head(v)
           now == CASE m.id = "have"      -> e.peerHas \cup m.pieces
                    [] m.id = "bitfield"  -> m.pieces
                    [] m.id = "have all"  -> TorrentPieces
                    [] m.id = "have none" -> {}
           f == [e EXCEPT !.peerHas = now]
<1>1. Wire!Incoming(c, {"have", "bitfield", "have all", "have none"}) /\ Wire!Read(c, f)
  BY DEF Wire!ReadWhatPeerHas, Wire!Next1
<1>2. /\ e \in WireEnds /\ OwnIsKept(e) /\ v \in Seq(WireMsgs) /\ v # <<>> /\ Stands(c, e, v)
      /\ m \in WireMsgs /\ m.id \in {"have", "bitfield", "have all", "have none"}
      /\ m.pieces \in SUBSET TorrentPieces
  BY <1>1, Reading
<1> HIDE DEF e, m
<1>3. /\ now \in SUBSET TorrentPieces
      /\ m.id = "have" => now = e.peerHas \cup m.pieces
      /\ m.id = "bitfield" => now = m.pieces
      /\ m.id = "have all" => now = TorrentPieces
  <2>0. e.peerHas \in SUBSET TorrentPieces
    BY <1>2 DEF WireEnds
  <2>1. CASE m.id = "have"
    BY <1>2, <2>0, <2>1
  <2>2. CASE m.id = "bitfield"
    BY <1>2, <2>2
  <2>3. CASE m.id = "have all"
    BY <2>3
  <2>4. CASE m.id = "have none"
    BY <2>4
  <2> QED
    BY <1>2, <2>1, <2>2, <2>3, <2>4
<1> HIDE DEF now
<1>4. /\ f \in WireEnds /\ f.outMessages = e.outMessages /\ f.clientIsInterested = e.clientIsInterested
      /\ f.have = e.have /\ f.peerHas = now
      /\ f.peerIsChoked = e.peerIsChoked /\ f.clientIsChoked = e.clientIsChoked
      /\ f.peerIsInterested = e.peerIsInterested
      /\ f.peerAskedFor = e.peerAskedFor /\ f.requested = e.requested
  BY <1>2, <1>3 DEF WireEnds
<1> HIDE DEF f
<1>5. OwnIsKept(f)
  BY <1>2, <1>4 DEF OwnIsKept
<1>6. Hears(e, f, m)
  BY <1>2, <1>3, <1>4 DEF Hears, Asked, Starting
<1>7. Stands(c, f, Tail(v))
  BY <1>2, <1>4, <1>6, Heard DEF m
<1> QED
  BY <1>1, <1>2, <1>4, <1>5, <1>7, ReadStep

LEMMA ReadRejectStep ==
  ASSUME WireInv, NEW c \in Clients, Wire!ReadReject(c)
  PROVE  WireInv'
<1> DEFINE e == msgs[c]
           v == wire[Wire!Peer(c)]
           m == Head(v)
           f == [e EXCEPT !.requested = @ \ m.pieces]
<1>1. Wire!Incoming(c, {"reject"}) /\ Wire!Read(c, f)
  BY DEF Wire!ReadReject, Wire!Next1
<1>2. /\ e \in WireEnds /\ OwnIsKept(e) /\ v \in Seq(WireMsgs) /\ v # <<>> /\ Stands(c, e, v)
      /\ m \in WireMsgs /\ m.id = "reject"
  BY <1>1, Reading
<1> HIDE DEF e, m
<1>3. /\ f \in WireEnds /\ f.outMessages = e.outMessages /\ f.clientIsInterested = e.clientIsInterested
      /\ f.have = e.have /\ f.peerHas = e.peerHas
      /\ f.peerIsChoked = e.peerIsChoked /\ f.clientIsChoked = e.clientIsChoked
      /\ f.peerIsInterested = e.peerIsInterested
      /\ f.peerAskedFor = e.peerAskedFor /\ f.requested = e.requested \ m.pieces
  BY <1>2 DEF WireEnds
<1> HIDE DEF f
<1>4. OwnIsKept(f)
  BY <1>2, <1>3 DEF OwnIsKept
<1>5. Hears(e, f, m)
  BY <1>2, <1>3 DEF Hears, Asked, Starting
<1>6. Stands(c, f, Tail(v))
  BY <1>2, <1>3, <1>5, Heard DEF m
<1> QED
  BY <1>1, <1>2, <1>3, <1>4, <1>6, ReadStep

LEMMA ReadPieceHeaderStep ==
  ASSUME WireInv, NEW c \in Clients, Wire!ReadPieceHeader(c)
  PROVE  WireInv'
<1> DEFINE e == msgs[c]
           v == wire[Wire!Peer(c)]
           m == Head(v)
           f == [e EXCEPT !.reading = m.pieces]
<1>1. Wire!Incoming(c, {"piece"}) /\ Wire!Set(c, f)
  BY DEF Wire!ReadPieceHeader, Wire!Next1
<1>2. e \in WireEnds /\ OwnIsKept(e) /\ Stands(c, e, v) /\ m.pieces \in SUBSET TorrentPieces
  BY <1>1, Reading
<1> HIDE DEF e, m
<1>3. /\ f \in WireEnds /\ f.outMessages = e.outMessages /\ f.clientIsInterested = e.clientIsInterested
      /\ f.have = e.have /\ f.peerHas = e.peerHas
      /\ f.peerIsChoked = e.peerIsChoked /\ f.clientIsChoked = e.clientIsChoked
      /\ f.peerIsInterested = e.peerIsInterested
      /\ f.peerAskedFor = e.peerAskedFor /\ f.requested = e.requested
  BY <1>2 DEF WireEnds
<1> HIDE DEF f
<1>4. OwnIsKept(f)
  BY <1>2, <1>3 DEF OwnIsKept
<1>5. Stands(c, f, v)
  <2> DEFINE o == msgs[Wire!Peer(c)]
             s == wire[c] \o e.outMessages
             t == v \o o.outMessages
  <2>1. OneWay(fext, e, o, s, t) /\ OneWay(fext, o, e, t, s)
    BY <1>2 DEF Stands
  <2>2. s = wire[c] \o f.outMessages
    BY <1>3
  <2> HIDE DEF o, s, t
  <2>3. OneWay(fext, f, o, s, t)
    <3>1. FlagsAgree(f, o, s)
      BY <1>3, <2>1 DEF OneWay, FlagsAgree
    <3>2. StartsFirst(o, s)
      BY <2>1 DEF OneWay
    <3>3. HavesAreTold(f, o, s)
      BY <1>3, <2>1 DEF OneWay, HavesAreTold
    <3>4. RequestsLive(fext, f, o, s, t)
      BY <1>3, <2>1 DEF OneWay, RequestsLive
    <3>5. CancelsAreOver(f, s)
      BY <1>3, <2>1 DEF OneWay, CancelsAreOver
    <3> QED
      BY <3>1, <3>2, <3>3, <3>4, <3>5 DEF OneWay
  <2>4. OneWay(fext, o, f, t, s)
    <3>1. FlagsAgree(o, f, t)
      BY <1>3, <2>1 DEF OneWay, FlagsAgree
    <3>2. StartsFirst(f, t)
      BY <1>3, <2>1 DEF OneWay, StartsFirst
    <3>3. HavesAreTold(o, f, t)
      BY <1>3, <2>1 DEF OneWay, HavesAreTold
    <3>4. RequestsLive(fext, o, f, t, s)
      BY <1>3, <2>1 DEF OneWay, RequestsLive, Asked
    <3>5. CancelsAreOver(o, t)
      BY <2>1 DEF OneWay
    <3> QED
      BY <3>1, <3>2, <3>3, <3>4, <3>5 DEF OneWay
  <2> QED
    BY <2>2, <2>3, <2>4 DEF Stands, o, s, t
<1> QED
  BY <1>1, <1>3, <1>4, <1>5, SetStep

LEMMA ReadRequestStep ==
  ASSUME WireInv, NEW c \in Clients, Wire!ReadRequest(c)
  PROVE  WireInv'
<1> DEFINE e == msgs[c]
           v == wire[Wire!Peer(c)]
           m == Head(v)
           p == Wire!ThePiece(c)
           allow == p \in e.have /\ ~e.peerIsChoked /\ Len(e.peerAskedFor) + 1 < REQQ
           f == IF allow     THEN [e EXCEPT !.peerAskedFor = Append(@, p)]
                ELSE IF fext THEN Wire!Send(e, "reject", {p}) ELSE e
<1>1. Wire!Incoming(c, {"request"}) /\ Wire!Read(c, f)
  BY DEF Wire!ReadRequest
<1>2. /\ fext \in BOOLEAN /\ e \in WireEnds /\ OwnIsKept(e) /\ v \in Seq(WireMsgs) /\ v # <<>> /\ Stands(c, e, v)
      /\ m \in WireMsgs /\ m.id = "request" /\ p \in TorrentPieces /\ m.pieces = {p}
  BY <1>1, Reading DEF Wire!OfPiece
<1> HIDE DEF e, m, p
<1>3. CASE allow
  <2>1. f = [e EXCEPT !.peerAskedFor = Append(e.peerAskedFor, p)]
    BY <1>3
  <2> DEFINE q == e.peerAskedFor
             r == Append(q, p)
  <2>2. q \in Seq(TorrentPieces)
    BY <1>2 DEF WireEnds
  <2> HIDE DEF q
  <2>3. /\ r \in Seq(TorrentPieces) /\ Len(r) = Len(q) + 1 /\ r[Len(q) + 1] = p /\ Len(q) \in Nat
        /\ \A i \in 1 .. Len(q) : r[i] = q[i]
    BY <1>2, <2>2
  <2>4. f = [e EXCEPT !.peerAskedFor = r]
    BY <2>1 DEF q
  <2> HIDE DEF f, r
  <2>5. /\ f \in WireEnds /\ f.outMessages = e.outMessages /\ f.clientIsInterested = e.clientIsInterested
        /\ f.have = e.have /\ f.peerHas = e.peerHas
        /\ f.peerIsChoked = e.peerIsChoked /\ f.clientIsChoked = e.clientIsChoked
        /\ f.peerIsInterested = e.peerIsInterested
        /\ f.peerAskedFor = r /\ f.requested = e.requested
    BY <1>2, <2>3, <2>4 DEF WireEnds
  <2>6. Len(q) + 1 < REQQ /\ ~e.peerIsChoked
    BY <1>3 DEF q
  <2>7. OwnIsKept(f)
    BY <1>2, <2>3, <2>5, <2>6 DEF OwnIsKept
  <2>8. Asked(f, p) /\ \A x : Asked(e, x) => Asked(f, x)
    <3>1. \A i \in 1 .. Len(q) : i \in 1 .. Len(r)
      BY <2>3
    <3>2. Len(q) + 1 \in 1 .. Len(r)
      BY <2>3
    <3> QED
      BY <2>3, <2>5, <3>1, <3>2 DEF Asked, q
  <2>9. Hears(e, f, m)
    BY <1>2, <2>5, <2>8 DEF Hears, Starting
  <2>10. Stands(c, f, Tail(v))
    BY <1>2, <2>5, <2>9, Heard DEF m
  <2> QED
    BY <1>1, <1>2, <2>5, <2>7, <2>10, ReadStep
<1>4. CASE ~allow /\ fext
  <2>1. f = Wire!Send(e, "reject", {p})
    BY <1>4
  <2>2. {p} \in SUBSET TorrentPieces /\ "reject" \in Wire!Ids \ Starting
    BY <1>2 DEF Wire!Ids, Wire!OfPiece, Starting
  <2> HIDE DEF f, v
  <2>3. Tells(e, e, "reject", {p})
    BY DEF Tells
  <2>4. f \in WireEnds /\ Stands(c, f, v) /\ OwnIsKept(f)
    BY <1>2, <2>1, <2>2, <2>3, Spoken
  <2>5. Says(f.outMessages, {"piece", "reject"}, p)
    <3> DEFINE x == Wire!Msg("reject", {p})
               q == e.outMessages
    <3>1. x \in WireMsgs /\ x.id = "reject" /\ x.pieces = {p}
      BY <1>2, <2>2, MsgIs
    <3>2. q \in Seq(WireMsgs) /\ f.outMessages = Append(q, x)
      <4>1. q \in Seq(WireMsgs)
        BY <1>2 DEF WireEnds
      <4>2. "reject" \in Wire!Ids /\ \E r \in TorrentPieces : {p} = {r}
        BY <1>2, <2>2
      <4>3. LET h == Wire!Send(e, "reject", {p}) IN h.outMessages = Append(e.outMessages, Wire!Msg("reject", {p}))
        BY <1>2, <2>2, <4>2, SendIs
      <4> QED
        BY <2>1, <4>1, <4>3
    <3> HIDE DEF x, q
    <3>3. \E k \in 1 .. Len(Append(q, x)) : Append(q, x)[k] = x
      BY <3>1, <3>2, AppendIs
    <3> QED
      BY <3>1, <3>2, <3>3 DEF Says
  <2>6. Hears(f, f, m)
    BY <1>2, <2>5 DEF Hears, Starting
  <2>7. Stands(c, f, Tail(v))
    BY <1>2, <2>4, <2>6, Heard DEF m
  <2> QED
    BY <1>1, <1>2, <2>4, <2>7, ReadStep DEF v
<1>5. CASE ~allow /\ ~fext
  <2>1. f = e
    BY <1>5
  <2> HIDE DEF f, v
  <2>2. Hears(e, e, m)
    BY <1>2, <1>5 DEF Hears, Starting
  <2>3. Stands(c, e, Tail(v))
    BY <1>2, <2>2, Heard DEF m
  <2> QED
    BY <1>1, <1>2, <2>1, <2>3, ReadStep DEF v
<1> QED
  BY <1>2, <1>3, <1>4, <1>5

\* The number that SelectInSeq finds is that of an element with the property.
LEMMA SelectAsked ==
  ASSUME NEW q \in Seq(TorrentPieces), NEW S
  PROVE  LET i == Wire!SelectInSeq(q, LAMBDA p : p \in S) IN i = 0 \/ (i \in 1 .. Len(q) /\ q[i] \in S)
<1> DEFINE I == {i \in 1 .. Len(q) : q[i] \in S}
<1>1. I \in SUBSET Nat
  OBVIOUS
<1>2. I # {} => Wire!Min(I) \in I
  BY <1>1, LeastNumber DEF Wire!Min
<1>3. Wire!SelectInSeq(q, LAMBDA p : p \in S) = IF I # {} THEN Wire!Min(I) ELSE 0
  BY DEF Wire!SelectInSeq
<1> QED
  BY <1>2, <1>3

LEMMA ReadCancelStep ==
  ASSUME WireInv, NEW c \in Clients, Wire!ReadCancel(c)
  PROVE  WireInv'
<1> DEFINE e == msgs[c]
           v == wire[Wire!Peer(c)]
           m == Head(v)
           q == e.peerAskedFor
           i == Wire!SelectInSeq(q, LAMBDA p : p \in m.pieces)
           r == IF i = 0 THEN q ELSE Wire!RemoveAt(q, i)
           f == IF i = 0 THEN e ELSE [e EXCEPT !.peerAskedFor = Wire!RemoveAt(q, i)]
<1>1. Wire!Incoming(c, {"cancel"}) /\ Wire!Read(c, f)
  BY DEF Wire!ReadCancel, Wire!Next1
<1>2. /\ e \in WireEnds /\ OwnIsKept(e) /\ v \in Seq(WireMsgs) /\ v # <<>> /\ Stands(c, e, v)
      /\ m \in WireMsgs /\ m.id = "cancel"
  BY <1>1, Reading
<1> HIDE DEF e, m
<1>3. q \in Seq(TorrentPieces)
  BY <1>2 DEF WireEnds
<1>4. i = 0 \/ (i \in 1 .. Len(q) /\ q[i] \in m.pieces)
  BY <1>3, SelectAsked
<1>5. f = [e EXCEPT !.peerAskedFor = r]
  BY <1>2 DEF WireEnds
<1> HIDE DEF i, f
<1>6. /\ r \in Seq(TorrentPieces) /\ Len(r) <= Len(q) /\ Len(q) \in Nat /\ Len(r) \in Nat
      /\ \A k \in 1 .. Len(q) : q[k] \in m.pieces \/ \E l \in 1 .. Len(r) : r[l] = q[k]
  <2>1. CASE i = 0
    <3>1. r = q
      BY <2>1
    <3> HIDE DEF r, q
    <3> QED
      BY <1>3, <3>1
  <2>2. CASE i # 0
    <3>1. i \in 1 .. Len(q) /\ q[i] \in m.pieces /\ r = SubSeq(q, 1, i - 1) \o SubSeq(q, i + 1, Len(q))
      BY <1>4, <2>2 DEF Wire!RemoveAt
    <3> HIDE DEF r, q
    <3>2. /\ r \in Seq(TorrentPieces) /\ Len(r) = Len(q) - 1
          /\ \A k \in 1 .. Len(q) - 1 : r[k] = IF k < i THEN q[k] ELSE q[k + 1]
      BY <1>3, <3>1, WithoutElement
    <3>3. Len(q) \in Nat /\ Len(q) > 0
      BY <1>3, <3>1
    <3>4. ASSUME NEW k \in 1 .. Len(q), q[k] \notin m.pieces
          PROVE  \E l \in 1 .. Len(r) : r[l] = q[k]
      <4>1. k < i \/ k > i
        BY <3>1, <3>4
      <4>2. CASE k < i
        <5>1. k \in 1 .. Len(q) - 1
          BY <3>1, <3>3, <4>2
        <5>2. r[k] = q[k] /\ k \in 1 .. Len(r)
          BY <3>2, <4>2, <5>1
        <5> QED
          BY <5>2
      <4>3. CASE k > i
        <5>1. k - 1 \in 1 .. Len(q) - 1 /\ ~(k - 1 < i) /\ (k - 1) + 1 = k
          BY <3>1, <3>3, <4>3
        <5>2. r[k - 1] = q[k] /\ k - 1 \in 1 .. Len(r)
          BY <3>2, <5>1
        <5> QED
          BY <5>2
      <4> QED
        BY <4>1, <4>2, <4>3
    <3> QED
      BY <3>2, <3>3, <3>4
  <2> QED
    BY <2>1, <2>2
<1> HIDE DEF r
<1>7. /\ f \in WireEnds /\ f.outMessages = e.outMessages /\ f.clientIsInterested = e.clientIsInterested
      /\ f.have = e.have /\ f.peerHas = e.peerHas
      /\ f.peerIsChoked = e.peerIsChoked /\ f.clientIsChoked = e.clientIsChoked
      /\ f.peerIsInterested = e.peerIsInterested
      /\ f.peerAskedFor = r /\ f.requested = e.requested
  BY <1>2, <1>5, <1>6 DEF WireEnds
<1>8. OwnIsKept(f)
  <2>1. f.requested \cap f.have = {}
    BY <1>2, <1>7 DEF OwnIsKept
  <2>2. f.peerIsChoked => f.peerAskedFor = <<>>
    <3>1. SUFFICES ASSUME f.peerIsChoked
                   PROVE  r = <<>>
      BY <1>7
    <3>2. Len(q) = 0
      BY <1>2, <1>7, <3>1 DEF OwnIsKept
    <3>3. Len(r) = 0
      BY <1>6, <3>2
    <3> QED
      BY <1>6, <3>3
  <2>3. Len(f.peerAskedFor) < REQQ
    <3>1. Len(q) < REQQ
      BY <1>2 DEF OwnIsKept
    <3> QED
      BY <1>6, <1>7, <3>1, WireAssumption
  <2> QED
    BY <2>1, <2>2, <2>3 DEF OwnIsKept
<1>9. Hears(e, f, m)
  <2>1. \A p : Asked(e, p) => Asked(f, p) \/ p \in m.pieces
    BY <1>6, <1>7 DEF Asked
  <2> QED
    BY <1>2, <1>7, <2>1 DEF Hears, Starting
<1>10. Stands(c, f, Tail(v))
  BY <1>2, <1>7, <1>9, Heard DEF m
<1> QED
  BY <1>1, <1>2, <1>7, <1>8, <1>10, ReadStep

LEMMA ReadPieceDataStep ==
  ASSUME WireInv, NEW c \in Clients, Wire!ReadPieceData(c)
  PROVE  WireInv'
<1> DEFINE old == msgs[c]
           v == wire[Wire!Peer(c)]
           m == Head(v)
           p == Wire!ThePiece(c)
           e == [old EXCEPT !.reading = {}]
           g == [old EXCEPT !.reading = {}, !.requested = @ \ {p}]
           f == IF p \in e.requested \ e.have THEN Wire!tr_peerMsgsHave(e, p) ELSE e
<1>1. Wire!Incoming(c, {"piece"}) /\ Wire!Read(c, f)
  BY DEF Wire!ReadPieceData
<1>2. /\ old \in WireEnds /\ OwnIsKept(old) /\ v \in Seq(WireMsgs) /\ v # <<>> /\ Stands(c, old, v)
      /\ Tail(v) \in Seq(WireMsgs)
      /\ m \in WireMsgs /\ m.id = "piece" /\ p \in TorrentPieces /\ m.pieces = {p}
  BY <1>1, Reading DEF Wire!OfPiece
<1> HIDE DEF old, m, p
<1>3. /\ g \in WireEnds /\ g.outMessages = old.outMessages /\ g.clientIsInterested = old.clientIsInterested
      /\ g.have = old.have /\ g.peerHas = old.peerHas
      /\ g.peerIsChoked = old.peerIsChoked /\ g.clientIsChoked = old.clientIsChoked
      /\ g.peerIsInterested = old.peerIsInterested
      /\ g.peerAskedFor = old.peerAskedFor /\ g.requested = old.requested \ {p}
  BY <1>2 DEF WireEnds
<1>4. e.requested = old.requested /\ e.have = old.have
  BY <1>2 DEF WireEnds
<1>5. Wire!tr_peerMsgsHave(e, p) = Wire!tr_peerMsgsHave(g, p)
  BY <1>2 DEF Wire!tr_peerMsgsHave, Wire!Send, WireEnds
<1>6. p \notin old.requested => e = g
  <2>1. p \notin old.requested => old.requested \ {p} = old.requested
    OBVIOUS
  <2> QED
    BY <1>2, <2>1 DEF WireEnds
<1>7. p \in old.requested => p \notin old.have
  BY <1>2 DEF OwnIsKept
<1> HIDE DEF e, g
<1>8. OwnIsKept(g)
  BY <1>2, <1>3 DEF OwnIsKept
<1>9. Hears(old, g, m)
  BY <1>2, <1>3 DEF Hears, Asked, Starting
<1>10. Stands(c, g, Tail(v))
  BY <1>2, <1>3, <1>9, Heard DEF m
<1>11. CASE p \in old.requested
  <2>1. f = Wire!tr_peerMsgsHave(g, p)
    BY <1>4, <1>5, <1>7, <1>11
  <2> HIDE DEF f
  <2>2. f \in WireEnds /\ Stands(c, f, Tail(v)) /\ OwnIsKept(f)
    BY <1>2, <1>3, <1>8, <1>10, <2>1, HaveSaid
  <2> QED
    BY <1>1, <1>2, <2>2, ReadStep
<1>12. CASE p \notin old.requested
  <2>1. f = g
    BY <1>4, <1>6, <1>12
  <2> QED
    BY <1>1, <1>2, <1>3, <1>8, <1>10, <2>1, ReadStep
<1> QED
  BY <1>11, <1>12

LEMMA WireStep == ASSUME WireInv, Wire!Next PROVE WireInv'
<1>1. PICK c \in Clients :
        \/ \E on \in BOOLEAN : Wire!SetInterested(c, on) \/ Wire!SetChoke(c, on)
        \/ \E p \in TorrentPieces : Wire!Cancel(c, p) \/ Wire!GotElsewhere(c, p)
        \/ \E R \in SUBSET TorrentPieces, flush, bad \in BOOLEAN, n \in 0 .. Len(msgs[c].peerAskedFor) :
             Wire!Pulse(c, R, flush, n, bad)
        \/ Wire!ReadAny(c)
  BY DEF Wire!Next
<1>2. CASE \E on \in BOOLEAN : Wire!SetInterested(c, on) \/ Wire!SetChoke(c, on)
  BY <1>2, InterestStep, ChokeStep
<1>3. CASE \E p \in TorrentPieces : Wire!Cancel(c, p) \/ Wire!GotElsewhere(c, p)
  BY <1>3, CancelStep, GotElsewhereStep
<1>4. CASE \E R \in SUBSET TorrentPieces, flush, bad \in BOOLEAN, n \in 0 .. Len(msgs[c].peerAskedFor) :
             Wire!Pulse(c, R, flush, n, bad)
  BY <1>4, PulseOfWire
<1>5. CASE Wire!ReadAny(c)
  BY <1>5, ReadChokeStep, ReadFlagStep, ReadWhatPeerHasStep, ReadRequestStep, ReadCancelStep, ReadRejectStep,
     ReadPieceHeaderStep, ReadPieceDataStep DEF Wire!ReadAny
<1> QED
  BY <1>1, <1>2, <1>3, <1>4, <1>5

LEMMA WireStays == WireInv /\ UNCHANGED <<msgs, wire, fext>> => WireInv'
<1> SUFFICES ASSUME WireInv, UNCHANGED <<msgs, wire, fext>>
             PROVE  WireInv'
  OBVIOUS
<1>1. WireTypes'
  BY DEF WireInv, WireTypes
<1>2. \A c \in Clients : Wire!InFlight(c)' = Wire!InFlight(c)
  BY DEF Wire!InFlight
<1>3. \A c \in Clients : Wire!Peer(c) \in Clients
  BY Both
<1>4. ASSUME NEW c \in Clients
      PROVE  Pair(fext, msgs[c], msgs[Wire!Peer(c)], Wire!InFlight(c), Wire!InFlight(Wire!Peer(c)))'
  <2>1. Pair(fext, msgs[c], msgs[Wire!Peer(c)], Wire!InFlight(c), Wire!InFlight(Wire!Peer(c)))
    BY DEF WireInv
  <2>2. /\ Wire!InFlight(c)' = Wire!InFlight(c)
        /\ Wire!InFlight(Wire!Peer(c))' = Wire!InFlight(Wire!Peer(c))
    BY <1>2, <1>3
  <2> QED
    BY <2>1, <2>2
<1> QED
  BY <1>1, <1>4 DEF WireInv

LEMMA OneMessage ==
  ASSUME NEW m \in WireMsgs, m.id \in Starting
  PROVE  <<m>> \in Seq(WireMsgs) /\ Len(<<m>>) = 1 /\ \A i \in 1 .. Len(<<m>>) : i = 1 /\ <<m>>[i] = m
OBVIOUS

\* A connection begins: nothing is said but what the client has.
Begins(e, s) ==
  /\ e \in WireEnds /\ s \in Seq(WireMsgs) /\ OwnIsKept(e) /\ StartsClean(s)
  /\ e.peerHas = {} /\ e.peerIsChoked = TRUE /\ e.clientIsChoked = TRUE
  /\ e.peerIsInterested = FALSE /\ e.clientIsInterested = FALSE /\ e.requested = {}
  /\ \A i \in 1 .. Len(s) : s[i].id \in Starting
  /\ \A p \in e.have : TellsOf(s, p)

LEMMA BeginsWith ==
  ASSUME NEW have \in SUBSET TorrentPieces, NEW ext \in BOOLEAN
  PROVE  LET e == Wire!tr_peerMsgsNew(have, ext) IN Begins(e, <<>> \o e.outMessages)
<1> DEFINE out == Wire!tellPeerWhatWeHave(have, ext)
           e == Wire!tr_peerMsgsNew(have, ext)
<1>1. /\ Wire!Msg("have all", {}) \in WireMsgs /\ Wire!Msg("have all", {}).id = "have all"
      /\ Wire!Msg("have none", {}) \in WireMsgs /\ Wire!Msg("have none", {}).id = "have none"
      /\ Wire!Msg("bitfield", have) \in WireMsgs /\ Wire!Msg("bitfield", have).id = "bitfield"
      /\ Wire!Msg("bitfield", have).pieces = have
  BY DEF Wire!Msg, WireMsgs, Wire!Ids, Wire!OfPiece, Wire!Flags
<1>2. /\ out \in Seq(WireMsgs) /\ \A i \in 1 .. Len(out) : i = 1 /\ out[i].id \in Starting
      /\ \A p \in have : TellsOf(out, p)
  <2>1. CASE ext /\ have = TorrentPieces
    <3> DEFINE m == Wire!Msg("have all", {})
    <3>1. out = <<m>>
      BY <2>1 DEF Wire!tellPeerWhatWeHave
    <3> HIDE DEF m, out
    <3>2. m \in WireMsgs /\ m.id = "have all" /\ m.id \in Starting
      BY <1>1 DEF m, Starting
    <3>3. <<m>> \in Seq(WireMsgs) /\ Len(<<m>>) = 1 /\ \A i \in 1 .. Len(<<m>>) : i = 1 /\ <<m>>[i] = m
      BY <3>2, OneMessage
    <3>4. out \in Seq(WireMsgs) /\ \A i \in 1 .. Len(out) : i = 1 /\ out[i].id \in Starting
      BY <3>1, <3>2, <3>3
    <3>5. 1 \in 1 .. Len(out) /\ out[1] = m
      BY <3>1, <3>3
    <3>6. \A p \in have : TellsOf(out, p)
      BY <2>1, <3>2, <3>5 DEF TellsOf, Says
    <3> QED
      BY <3>4, <3>6
  <2>2. CASE ext /\ have = {} /\ have # TorrentPieces
    <3> DEFINE m == Wire!Msg("have none", {})
    <3>1. out = <<m>>
      BY <2>2 DEF Wire!tellPeerWhatWeHave
    <3> HIDE DEF m, out
    <3>2. m \in WireMsgs /\ m.id = "have none" /\ m.id \in Starting
      BY <1>1 DEF m, Starting
    <3>3. <<m>> \in Seq(WireMsgs) /\ Len(<<m>>) = 1 /\ \A i \in 1 .. Len(<<m>>) : i = 1 /\ <<m>>[i] = m
      BY <3>2, OneMessage
    <3>4. out \in Seq(WireMsgs) /\ \A i \in 1 .. Len(out) : i = 1 /\ out[i].id \in Starting
      BY <3>1, <3>2, <3>3
    <3>5. 1 \in 1 .. Len(out) /\ out[1] = m
      BY <3>1, <3>3
    <3>6. \A p \in have : TellsOf(out, p)
      BY <2>2, <3>2, <3>5 DEF TellsOf, Says
    <3> QED
      BY <3>4, <3>6
  <2>3. CASE ~(ext /\ have = TorrentPieces) /\ have # {}
    <3> DEFINE m == Wire!Msg("bitfield", have)
    <3>1. out = <<m>>
      BY <2>3 DEF Wire!tellPeerWhatWeHave
    <3> HIDE DEF m, out
    <3>2. m \in WireMsgs /\ m.id = "bitfield" /\ m.pieces = have /\ m.id \in Starting
      BY <1>1 DEF m, Starting
    <3>3. <<m>> \in Seq(WireMsgs) /\ Len(<<m>>) = 1 /\ \A i \in 1 .. Len(<<m>>) : i = 1 /\ <<m>>[i] = m
      BY <3>2, OneMessage
    <3>4. out \in Seq(WireMsgs) /\ \A i \in 1 .. Len(out) : i = 1 /\ out[i].id \in Starting
      BY <3>1, <3>2, <3>3
    <3>5. 1 \in 1 .. Len(out) /\ out[1] = m
      BY <3>1, <3>3
    <3>6. \A p \in have : TellsOf(out, p)
      BY <2>3, <3>2, <3>5 DEF TellsOf, Says
    <3> QED
      BY <3>4, <3>6
  <2>4. CASE ~ext /\ have = {}
    <3>1. out = <<>>
      BY <2>4 DEF Wire!tellPeerWhatWeHave
    <3> HIDE DEF out
    <3> QED
      BY <2>4, <3>1
  <2> QED
    BY <2>1, <2>2, <2>3, <2>4
<1>3. /\ e.outMessages = out /\ e.peerAskedFor = <<>> /\ e.reading = {}
      /\ e.have = have /\ e.peerHas = {} /\ e.peerIsChoked = TRUE /\ e.clientIsChoked = TRUE
      /\ e.peerIsInterested = FALSE /\ e.clientIsInterested = FALSE /\ e.requested = {}
  BY DEF Wire!tr_peerMsgsNew
<1> HIDE DEF out
<1>4. e \in WireEnds
  <2>1. <<>> \in Seq(TorrentPieces)
    OBVIOUS
  <2> QED
    BY <1>2, <2>1 DEF Wire!tr_peerMsgsNew, WireEnds, out
<1> HIDE DEF e
<1>5. <<>> \o e.outMessages = out
  BY <1>2, <1>3, ConcatEmptySeq
<1>6. OwnIsKept(e)
  BY <1>3, WireAssumption DEF OwnIsKept
<1>7. StartsClean(out)
  BY <1>2 DEF StartsClean
<1> QED
  BY <1>2, <1>3, <1>4, <1>5, <1>6, <1>7 DEF e, Begins

LEMMA WireInit == Wire!Init => WireInv
<1> SUFFICES ASSUME Wire!Init
             PROVE  WireInv
  OBVIOUS
<1>1. PICK have \in [Clients -> SUBSET TorrentPieces], ext \in BOOLEAN :
        /\ \A c \in Clients \ Askers : have[c] # {}
        /\ msgs = [c \in Clients |-> Wire!tr_peerMsgsNew(have[c], ext)]
        /\ wire = [c \in Clients |-> <<>>]
        /\ fext = ext
  BY DEF Wire!Init
<1>2. ASSUME NEW c \in Clients
      PROVE  Begins(msgs[c], Wire!InFlight(c))
  <2> DEFINE H == have[c]
             E == Wire!tr_peerMsgsNew(H, ext)
  <2>1. H \in SUBSET TorrentPieces /\ msgs[c] = E /\ wire[c] = <<>>
    BY <1>1
  <2>2. Wire!InFlight(c) = <<>> \o E.outMessages
    BY <2>1 DEF Wire!InFlight
  <2> HIDE DEF H
  <2>3. Begins(E, <<>> \o E.outMessages)
    BY <2>1, BeginsWith
  <2> QED
    BY <2>1, <2>2, <2>3
<1>3. WireTypes
  <2>1. \A c \in Clients : msgs[c] \in WireEnds
    BY <1>2 DEF Begins
  <2>2. msgs \in [Clients -> WireEnds]
    BY <1>1, <2>1
  <2>3. <<>> \in Seq(WireMsgs)
    OBVIOUS
  <2>4. wire \in [Clients -> Seq(WireMsgs)]
    BY <1>1, <2>3
  <2> QED
    BY <1>1, <2>2, <2>4 DEF WireTypes
<1>4. ASSUME NEW c \in Clients, NEW d \in Clients
      PROVE  OneWay(fext, msgs[c], msgs[d], Wire!InFlight(c), Wire!InFlight(d))
  <2> DEFINE e == msgs[c]
             o == msgs[d]
             s == Wire!InFlight(c)
  <2>1. /\ s \in Seq(WireMsgs) /\ StartsClean(s)
        /\ e.peerIsChoked = TRUE /\ e.clientIsInterested = FALSE /\ e.requested = {}
        /\ \A i \in 1 .. Len(s) : s[i].id \in Starting
        /\ \A p \in e.have : TellsOf(s, p)
        /\ o.peerHas = {} /\ o.clientIsChoked = TRUE /\ o.peerIsInterested = FALSE
    BY <1>2 DEF Begins
  <2> HIDE DEF e, o, s
  <2>2. FlagsAgree(e, o, s)
    BY <2>1 DEF FlagsAgree, TurnsOn, StaysOn, Starting
  <2>3. StartsFirst(o, s) /\ HavesAreTold(e, o, s) /\ CancelsAreOver(e, s)
    BY <2>1 DEF StartsFirst, HavesAreTold, CancelsAreOver
  <2>4. RequestsLive(fext, e, o, s, Wire!InFlight(d))
    BY <2>1 DEF RequestsLive
  <2> QED
    BY <2>2, <2>3, <2>4 DEF OneWay, e, o, s
<1>5. \A c \in Clients : OwnIsKept(msgs[c])
  BY <1>2 DEF Begins
<1>6. \A c \in Clients : Wire!Peer(c) \in Clients
  BY Both
<1> QED
  BY <1>3, <1>4, <1>5, <1>6 DEF WireInv, Pair

\* The number that SelectLastInSeq finds is that of the last of these messages.
LEMMA LastIs ==
  ASSUME NEW s \in Seq(WireMsgs), NEW ids
  PROVE  LET i == Wire!SelectLastInSeq(s, LAMBDA m : m.id \in ids) IN
         \/ i = 0 /\ \A k \in 1 .. Len(s) : s[k].id \notin ids
         \/ i \in 1 .. Len(s) /\ s[i].id \in ids /\ \A k \in i + 1 .. Len(s) : s[k].id \notin ids
<1> DEFINE I == {i \in 1 .. Len(s) : s[i].id \in ids}
<1>1. Len(s) \in Nat /\ I \in SUBSET (0 .. Len(s))
  OBVIOUS
<1>2. I # {} => Wire!Max(I) \in I /\ \A k \in I : Wire!Max(I) >= k
  BY <1>1, GreatestNumber DEF Wire!Max
<1>3. Wire!SelectLastInSeq(s, LAMBDA m : m.id \in ids) = IF I # {} THEN Wire!Max(I) ELSE 0
  BY DEF Wire!SelectLastInSeq
<1>4. CASE I = {}
  BY <1>3, <1>4
<1>5. CASE I # {}
  <2> DEFINE x == Wire!Max(I)
  <2>1. x \in I /\ \A k \in I : x >= k
    BY <1>2, <1>5
  <2> HIDE DEF x
  <2>2. x \in 1 .. Len(s) /\ s[x].id \in ids /\ x \in Nat
    BY <2>1
  <2>3. \A k \in x + 1 .. Len(s) : s[k].id \notin ids
    <3> SUFFICES ASSUME NEW k \in x + 1 .. Len(s), s[k].id \in ids
                 PROVE  FALSE
      OBVIOUS
    <3>1. k \in 1 .. Len(s) /\ ~(x >= k)
      BY <1>1, <2>2
    <3> QED
      BY <2>1, <3>1
  <2> QED
    BY <1>3, <1>5, <2>2, <2>3 DEF x
<1> QED
  BY <1>4, <1>5

LEMMA ToldIs ==
  ASSUME WireInv, NEW c \in Clients, NEW yes, NEW no, yes # no
  PROVE  LET s == Wire!InFlight(c)
             i == Wire!LastOf(c, {yes, no}) IN
         /\ i = 0 => ~TurnsOn(s, yes, no) /\ StaysOn(s, no)
         /\ i # 0 => (TurnsOn(s, yes, no) <=> s[i].id = yes) /\ (StaysOn(s, no) => TurnsOn(s, yes, no))
<1> DEFINE s == Wire!InFlight(c)
           i == Wire!LastOf(c, {yes, no})
           found == Wire!SelectLastInSeq(s, LAMBDA m : m.id \in {yes, no})
<1>1. s \in Seq(WireMsgs)
  BY PairOf DEF Wire!InFlight
<1>2. i = found
  BY DEF Wire!LastOf
<1> HIDE DEF s, i
<1>3. \/ found = 0 /\ \A k \in 1 .. Len(s) : s[k].id \notin {yes, no}
      \/ found \in 1 .. Len(s) /\ s[found].id \in {yes, no} /\ \A k \in found + 1 .. Len(s) : s[k].id \notin {yes, no}
  BY <1>1, LastIs
<1> HIDE DEF found
<1>5. Len(s) \in Nat
  BY <1>1
<1>6. CASE i = 0
  <2>1. \A k \in 1 .. Len(s) : s[k].id # yes /\ s[k].id # no
    BY <1>2, <1>3, <1>6
  <2>2. ~TurnsOn(s, yes, no) /\ StaysOn(s, no)
    BY <2>1 DEF TurnsOn, StaysOn
  <2> QED
    BY <1>6, <2>2 DEF s, i
<1>7. CASE i # 0
  <2>1. /\ i \in 1 .. Len(s) /\ s[i].id \in {yes, no}
        /\ \A k \in i + 1 .. Len(s) : s[k].id # yes /\ s[k].id # no
    BY <1>2, <1>3, <1>7
  <2>2. CASE s[i].id = yes
    <3>1. TurnsOn(s, yes, no)
      BY <2>1, <2>2 DEF TurnsOn
    <3> QED
      BY <1>7, <2>2, <3>1 DEF s, i
  <2>3. CASE s[i].id = no
    <3>1. ~StaysOn(s, no)
      BY <2>1, <2>3 DEF StaysOn
    <3>2. ~TurnsOn(s, yes, no)
      <4> SUFFICES ASSUME NEW k \in 1 .. Len(s), s[k].id = yes, \A j \in k + 1 .. Len(s) : s[j].id # no
                   PROVE  FALSE
        BY DEF TurnsOn
      <4>1. k < i \/ k = i \/ k \in i + 1 .. Len(s)
        BY <1>5, <2>1
      <4>2. k < i
        BY <2>1, <2>3, <4>1
      <4>3. i \in k + 1 .. Len(s)
        BY <1>5, <2>1, <4>2
      <4> QED
        BY <2>3, <4>3
    <3> QED
      BY <1>7, <2>3, <3>1, <3>2 DEF s, i
  <2> QED
    BY <2>1, <2>2, <2>3
<1> QED
  BY <1>6, <1>7

LEMMA WireInvSays ==
  WireInv => /\ Wire!TypeOK /\ Wire!EndsAgree /\ Wire!PiecesAreTold
             /\ Wire!NoRequestIsForgotten /\ Wire!NothingForChoked
<1> SUFFICES ASSUME WireInv
             PROVE  /\ Wire!TypeOK /\ Wire!EndsAgree /\ Wire!PiecesAreTold
                    /\ Wire!NoRequestIsForgotten /\ Wire!NothingForChoked
  OBVIOUS
<1>1. ASSUME NEW c \in Clients
      PROVE  /\ fext \in BOOLEAN /\ msgs[c] \in WireEnds /\ wire[c] \in Seq(WireMsgs) /\ OwnIsKept(msgs[c])
             /\ Wire!Peer(c) \in Clients /\ msgs[Wire!Peer(c)] \in WireEnds
             /\ Wire!InFlight(c) \in Seq(WireMsgs) /\ Wire!InFlight(Wire!Peer(c)) \in Seq(WireMsgs)
             /\ OneWay(fext, msgs[c], msgs[Wire!Peer(c)], Wire!InFlight(c), Wire!InFlight(Wire!Peer(c)))
  BY PairOf DEF Wire!InFlight
<1>2. Wire!TypeOK
  <2> DEFINE M == [id : Wire!Ids, pieces : SUBSET TorrentPieces]
             E == [have : SUBSET TorrentPieces, peerHas : SUBSET TorrentPieces,
                   peerIsChoked : BOOLEAN, clientIsChoked : BOOLEAN,
                   peerIsInterested : BOOLEAN, clientIsInterested : BOOLEAN,
                   peerAskedFor : Seq(TorrentPieces), requested : SUBSET TorrentPieces,
                   reading : SUBSET TorrentPieces, outMessages : Seq(M)]
  <2>1. Seq(WireMsgs) \subseteq Seq(M)
    <3>1. WireMsgs \subseteq M
      BY DEF WireMsgs
    <3> HIDE DEF M
    <3> QED
      BY <3>1, LongerSeq
  <2> HIDE DEF M
  <2>2. WireEnds \subseteq E
    BY <2>1 DEF WireEnds
  <2> HIDE DEF E
  <2>3. msgs \in [Clients -> E]
    BY <2>2 DEF WireInv, WireTypes
  <2>4. wire \in [Clients -> Seq(M)]
    BY <2>1 DEF WireInv, WireTypes
  <2> QED
    BY <2>3, <2>4 DEF WireInv, WireTypes, Wire!TypeOK, E, M
<1>3. Wire!EndsAgree
  <2> SUFFICES ASSUME NEW c \in Clients
               PROVE  /\ msgs[c].peerIsChoked
                           = Wire!Told(c, "choke", "unchoke", msgs[Wire!Peer(c)].clientIsChoked)
                      /\ msgs[c].clientIsInterested
                           = Wire!Told(c, "interested", "not interested", msgs[Wire!Peer(c)].peerIsInterested)
    BY DEF Wire!EndsAgree
  <2> DEFINE e == msgs[c]
             o == msgs[Wire!Peer(c)]
  <2>1. FlagsAgree(e, o, Wire!InFlight(c))
    BY <1>1 DEF OneWay
  <2>2. /\ e.peerIsChoked \in BOOLEAN /\ e.clientIsInterested \in BOOLEAN
        /\ o.clientIsChoked \in BOOLEAN /\ o.peerIsInterested \in BOOLEAN
    BY <1>1 DEF WireEnds
  <2> HIDE DEF e, o
  <2> DEFINE s == Wire!InFlight(c)
             i == Wire!LastOf(c, {"choke", "unchoke"})
             k == Wire!LastOf(c, {"interested", "not interested"})
  <2>3. /\ i = 0 => ~TurnsOn(s, "choke", "unchoke") /\ StaysOn(s, "unchoke")
        /\ i # 0 => /\ TurnsOn(s, "choke", "unchoke") <=> s[i].id = "choke"
                    /\ StaysOn(s, "unchoke") => TurnsOn(s, "choke", "unchoke")
    BY ToldIs
  <2>4. /\ k = 0 => ~TurnsOn(s, "interested", "not interested") /\ StaysOn(s, "not interested")
        /\ k # 0 => /\ TurnsOn(s, "interested", "not interested") <=> s[k].id = "interested"
                    /\ StaysOn(s, "not interested") => TurnsOn(s, "interested", "not interested")
    BY ToldIs
  <2>5. FlagsAgree(e, o, s)
    BY <2>1
  <2> HIDE DEF s, i, k
  <2>6. e.peerIsChoked = IF i = 0 THEN o.clientIsChoked ELSE s[i].id = "choke"
    <3>1. e.peerIsChoked <=> TurnsOn(s, "choke", "unchoke") \/ (o.clientIsChoked /\ StaysOn(s, "unchoke"))
      BY <2>5 DEF FlagsAgree
    <3> QED
      BY <2>2, <2>3, <3>1
  <2>7. e.clientIsInterested = IF k = 0 THEN o.peerIsInterested ELSE s[k].id = "interested"
    <3>1. e.clientIsInterested <=> \/ TurnsOn(s, "interested", "not interested")
                                   \/ o.peerIsInterested /\ StaysOn(s, "not interested")
      BY <2>5 DEF FlagsAgree
    <3> QED
      BY <2>2, <2>4, <3>1
  <2> QED
    BY <2>6, <2>7, Zenon DEF e, o, s, i, k, Wire!Told
<1>4. Wire!PiecesAreTold
  <2> SUFFICES ASSUME NEW c \in Clients, NEW p \in msgs[c].have
               PROVE  p \in msgs[Wire!Peer(c)].peerHas \/ p \in Wire!Announced(c)
    BY DEF Wire!PiecesAreTold
  <2> DEFINE s == Wire!InFlight(c)
  <2>1. p \in msgs[Wire!Peer(c)].peerHas \/ TellsOf(s, p)
    BY <1>1 DEF OneWay, HavesAreTold
  <2>2. p \in TorrentPieces /\ s \in Seq(WireMsgs)
    BY <1>1 DEF WireEnds
  <2>3. ASSUME NEW i \in 1 .. Len(s), \/ s[i].id \in {"have", "bitfield"} /\ p \in s[i].pieces
                                      \/ s[i].id = "have all"
        PROVE  p \in Wire!Announced(c)
    <3> DEFINE x == s[i]
               about == IF x.id = "have all" THEN TorrentPieces ELSE x.pieces
    <3>1. x \in Wire!ToSet(Wire!InFlight(c)) /\ x.id \in {"have", "bitfield", "have all"}
      <4>1. i \in DOMAIN s
        BY <2>2
      <4>2. x \in Wire!ToSet(Wire!InFlight(c))
        BY <4>1 DEF Wire!ToSet
      <4> QED
        BY <2>3, <4>2
    <3>2. p \in about
      BY <2>2, <2>3
    <3>3. about \in {IF m.id = "have all" THEN TorrentPieces ELSE m.pieces :
                     m \in {y \in Wire!ToSet(Wire!InFlight(c)) : y.id \in {"have", "bitfield", "have all"}}}
      BY <3>1
    <3> HIDE DEF about
    <3> QED
      BY <3>2, <3>3 DEF Wire!Announced
  <2> QED
    BY <2>1, <2>3 DEF TellsOf, Says
<1>5. Wire!NoRequestIsForgotten
  <2> SUFFICES ASSUME fext, NEW c \in Clients, NEW p \in msgs[c].requested
               PROVE  p \in Wire!Underway(c)
    BY DEF Wire!NoRequestIsForgotten
  <2> DEFINE s == Wire!InFlight(c)
             t == Wire!InFlight(Wire!Peer(c))
             o == msgs[Wire!Peer(c)]
  <2>1. Says(s, {"request"}, p) \/ Says(t, {"piece", "reject"}, p) \/ Asked(o, p)
    BY <1>1 DEF OneWay, RequestsLive
  <2>2. s \in Seq(WireMsgs) /\ t \in Seq(WireMsgs) /\ o.peerAskedFor \in Seq(TorrentPieces)
    BY <1>1 DEF WireEnds
  <2>3. CASE Says(s, {"request"}, p)
    <3>1. PICK i \in 1 .. Len(s) : s[i].id \in {"request"} /\ p \in s[i].pieces
      BY <2>3 DEF Says
    <3>2. s[i] \in {x \in Wire!ToSet(s) : x.id = "request"}
      BY <2>2, <3>1 DEF Wire!ToSet
    <3> QED
      BY <3>1, <3>2 DEF Wire!Underway
  <2>4. CASE Says(t, {"piece", "reject"}, p)
    <3>1. PICK i \in 1 .. Len(t) : t[i].id \in {"piece", "reject"} /\ p \in t[i].pieces
      BY <2>4 DEF Says
    <3>2. t[i] \in {x \in Wire!ToSet(t) : x.id \in {"piece", "reject"}}
      BY <2>2, <3>1 DEF Wire!ToSet
    <3> QED
      BY <3>1, <3>2 DEF Wire!Underway
  <2>5. CASE Asked(o, p)
    <3>1. p \in Wire!ToSet(o.peerAskedFor)
      BY <2>2, <2>5 DEF Asked, Wire!ToSet
    <3>2. Wire!ToSet(o.peerAskedFor) \subseteq Wire!Underway(c)
      BY Zenon DEF Wire!Underway
    <3> QED
      BY <3>1, <3>2
  <2> QED
    BY <2>1, <2>3, <2>4, <2>5
<1>6. Wire!NothingForChoked
  BY <1>1 DEF OwnIsKept, Wire!NothingForChoked
<1> QED
  BY <1>2, <1>3, <1>4, <1>5, <1>6

-----------------------------------------------------------------------------
LEMMA WireInvHolds == Spec => [](focus = "wire" => WireInv)
<1> DEFINE Inv == focus = "wire" => WireInv
<1>1. Init => Inv
  BY WireInit DEF Init
<1>2. Inv /\ [Next]_vars => Inv'
  <2> SUFFICES ASSUME Inv, [Next]_vars, focus' = "wire"
               PROVE  WireInv'
    OBVIOUS
  <2>1. focus = "wire" /\ WireInv
    BY DEF Next, vars
  <2>2. CASE Next
    <3>1. Wire!Next
      BY <2>1, <2>2 DEF Next
    <3> QED
      BY <2>1, <3>1, WireStep
  <2>3. CASE UNCHANGED vars
    <3>1. UNCHANGED <<msgs, wire, fext>>
      BY <2>3 DEF vars, wireVars
    <3> QED
      BY <2>1, <3>1, WireStays
  <2> QED
    BY <2>2, <2>3
<1> QED
  BY <1>1, <1>2, PTL DEF Spec

\* The peer wire protocol (peer-msgs.c), between any two ends and for any torrent: what each end
\* believes of the other - who is choked, who is interested, which pieces it has - is what the
\* other last said, however choke, interest, haves and the first bitfield cross on the wire.
THEOREM EndsStayAgreed == Spec => []EndsAgree
<1>1. (focus = "wire" => WireInv) => EndsAgree
  BY WireInvSays DEF EndsAgree
<1> QED
  BY <1>1, WireInvHolds, PTL

\* With the fast extension, whatever chokes, cancels, lost pieces and repeated requests cross it, a
\* request that an end waits for is on its way, in the queue of the other end, or its block or its
\* reject is on the way back; and the queue of a choked peer is empty (peer-msgs.c).
THEOREM NoRequestForgotten == Spec => []NoRequestIsForgotten
<1>1. (focus = "wire" => WireInv) => NoRequestIsForgotten
  BY WireInvSays DEF NoRequestIsForgotten
<1> QED
  BY <1>1, WireInvHolds, PTL
=============================================================================
