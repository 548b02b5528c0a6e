------------------------- MODULE BlockRequestsProofs -------------------------
(***************************************************************************)
(* Proofs about BlockRequests.  Types alone would let a count and its list *)
(* drift apart: the inductive invariant IInv has the types, the exact      *)
(* counts of each peer and the peers that are gone.  On it rest            *)
(* RequestsAreExact, which is inductive with it, and the action property   *)
(* WantedPiecesStayListed, which is one of every step.                     *)
(***************************************************************************)
EXTENDS BlockRequests, SequenceLemmas

\* Blocks are finitely many, and every block lies in a piece.
LEMMA BlocksFinite ==
  /\ IsFiniteSet(Blocks)
  /\ \A S \in SUBSET Blocks : IsFiniteSet(S) /\ Cardinality(S) \in Nat
  /\ \A b \in Blocks : PieceOf(b) \in Pieces
<1>1. IsFiniteSet(Blocks)
  BY CountsAssumption, FS_Interval DEF Blocks
<1>2. \A S \in SUBSET Blocks : IsFiniteSet(S) /\ Cardinality(S) \in Nat
  BY <1>1, FS_Subset, FS_CardinalityType
<1>3. \A b \in Blocks : PieceOf(b) \in Pieces
  BY DEF Pieces
<1> QED
  BY <1>1, <1>2, <1>3

\* Monus is subtraction cut off at zero.
LEMMA MonusType ==
  ASSUME NEW m \in Nat, NEW n \in Nat
  PROVE  Monus(m, n) \in Nat /\ Monus(m, n) <= m /\ (n <= m => Monus(m, n) = m - n)
BY DEF Monus

\* Dropping requests keeps a peer's count equal to its requests.
LEMMA DropCount ==
  ASSUME NEW S \in SUBSET Blocks, NEW T \in SUBSET S
  PROVE  /\ Cardinality(T) <= Cardinality(S)
         /\ Monus(Cardinality(S), Cardinality(T)) = Cardinality(S \ T)
<1>1. /\ IsFiniteSet(S) /\ Cardinality(S) \in Nat
      /\ IsFiniteSet(T) /\ Cardinality(T) \in Nat
  BY BlocksFinite
<1>2. Cardinality(T) <= Cardinality(S)
  BY <1>1, FS_Subset
<1>3. Cardinality(S \ T) = Cardinality(S) - Cardinality(S \cap T)
  BY <1>1, FS_Difference
<1>4. S \cap T = T
  OBVIOUS
<1> QED
  BY <1>1, <1>2, <1>3, <1>4, MonusType

\* Adding requests that were not there adds their number.
LEMMA AddCount ==
  ASSUME NEW S \in SUBSET Blocks, NEW T \in SUBSET Blocks, S \cap T = {}
  PROVE  Cardinality(S \cup T) = Cardinality(S) + Cardinality(T)
<1>1. /\ IsFiniteSet(S) /\ Cardinality(S) \in Nat
      /\ IsFiniteSet(T) /\ Cardinality(T) \in Nat
  BY BlocksFinite
<1>2. Cardinality(S \cup T) = Cardinality(S) + Cardinality(T) - Cardinality(S \cap T)
  BY <1>1, FS_Union
<1>3. Cardinality(S \cap T) = 0
  BY FS_EmptySet
<1> QED
  BY <1>1, <1>2, <1>3

-----------------------------------------------------------------------------
(* The bags of transfers. *)

LEMMA EmptyTaskBag == IsTaskBag(EmptyBag)
BY DEF IsTaskBag, EmptyBag, SetToBag, IsABag, BagToSet

LEMMA SetTaskBag ==
  ASSUME NEW S \in SUBSET Tasks
  PROVE  IsTaskBag(SetToBag(S))
BY DEF IsTaskBag, SetToBag, IsABag, BagToSet

LEMMA TaskBagSum ==
  ASSUME NEW B, NEW C, IsTaskBag(B), IsTaskBag(C)
  PROVE  IsTaskBag(B (+) C)
BY DEF IsTaskBag, (+), IsABag, BagToSet

LEMMA TaskBagDifference ==
  ASSUME NEW B, NEW C, IsTaskBag(B), IsTaskBag(C)
  PROVE  IsTaskBag(B (-) C)
BY DEF IsTaskBag, (-), IsABag, BagToSet

\* Taking one transfer from a bag leaves the others in it.
LEMMA OtherTasksStay ==
  ASSUME NEW B, IsTaskBag(B), NEW task, NEW t \in BagToSet(B), t # task
  PROVE  t \in BagToSet(B (-) SetToBag({task}))
BY DEF IsTaskBag, IsABag, BagToSet, (-), SetToBag

-----------------------------------------------------------------------------
(* The operators of the tables. *)

\* The request list is finite: finitely many blocks and peers.
LEMMA RequestSetsFinite ==
  \A R \in SUBSET (Blocks \X AllPeers) : IsFiniteSet(R) /\ Cardinality(R) \in Nat
<1>1. IsFiniteSet(Blocks \X AllPeers)
  BY BlocksFinite, PeersAssumption, FS_Product
<1> QED
  BY <1>1, FS_Subset, FS_CardinalityType

\* The number of requests in the list.
LEMMA RequestCountType == requestCount \in Nat
<1> DEFINE R == {r \in Blocks \X AllPeers : r[1] \in requests[r[2]]}
<1>1. R \in SUBSET (Blocks \X AllPeers)
  OBVIOUS
<1>2. Cardinality(R) \in Nat
  BY <1>1, RequestSetsFinite
<1> QED
  BY <1>2 DEF requestCount

\* updateEndgame divides by a positive number.
LEMMA MaxPositive ==
  ASSUME NEW n \in Nat
  PROVE  Max({1, n}) \in Nat \ {0}
<1>1. \E x \in {1, n} : \A y \in {1, n} : x >= y
  <2>1. CASE n >= 1
    BY <2>1
  <2>2. CASE ~(n >= 1)
    BY <2>2
  <2> QED
    BY <2>1, <2>2
<1>2. /\ Max({1, n}) \in {1, n}
      /\ \A y \in {1, n} : Max({1, n}) >= y
  BY <1>1 DEF Max
<1> QED
  BY <1>2

LEMMA EndgameType ==
  ASSUME TypeOK, NEW active \in SUBSET Webseeds
  PROVE  updateEndgame(active) \in Nat
<1> DEFINE downloading == {p \in peers : pending[p] > 0} \cup active
<1>1. downloading \in SUBSET AllPeers
  BY DEF TypeOK, AllPeers
<1>2. Cardinality(downloading) \in Nat
  BY <1>1, PeersAssumption, FS_Subset, FS_CardinalityType
<1>3. Max({1, Cardinality(downloading)}) \in Nat \ {0}
  BY <1>2, MaxPositive
<1>4. ASSUME NEW m \in Nat, NEW k \in Nat \ {0}
      PROVE  m \div k \in Nat
  BY <1>4
<1>5. requestCount \div Max({1, Cardinality(downloading)}) \in Nat
  BY <1>3, <1>4, RequestCountType
<1> QED
  BY <1>5 DEF updateEndgame, TypeOK

\* A rebuilt list holds pieces with counts.
LEMMA RebuildType ==
  ASSUME TypeOK, NEW skip
  PROVE  /\ DOMAIN pieceListRebuild(skip) \subseteq Pieces
         /\ pieceListRebuild(skip) \in [DOMAIN pieceListRebuild(skip) -> Nat]
BY DEF TypeOK, pieceListRebuild, WantedPieces

\* Whatever set of requests is declined, types and exact counts survive.
LEMMA DropRequests ==
  ASSUME TypeOK, PendingExact,
         NEW R \in SUBSET (Blocks \X AllPeers), removeRequestFromTables(R)
  PROVE  /\ requests' \in [AllPeers -> SUBSET Blocks]
         /\ pending' \in [AllPeers -> Nat]
         /\ DOMAIN pieces' \subseteq Pieces
         /\ pieces' \in [DOMAIN pieces' -> Nat]
         /\ PendingExact'
<1>1. ASSUME NEW p \in AllPeers
      PROVE  /\ requests'[p] \in SUBSET Blocks
             /\ pending'[p] = Cardinality(requests'[p])
             /\ pending'[p] \in Nat
  <2> DEFINE S == requests[p]
             T == {b \in requests[p] : <<b, p>> \in R}
  <2>1. S \in SUBSET Blocks /\ T \in SUBSET S
    BY DEF TypeOK
  <2>2. requests'[p] = S \ T
    BY DEF removeRequestFromTables
  <2>3. pending'[p] = Monus(Cardinality(S), Cardinality(T))
    BY DEF removeRequestFromTables, PendingExact
  <2>4. pending'[p] = Cardinality(S \ T)
    BY <2>1, <2>3, DropCount
  <2>5. Cardinality(S \ T) \in Nat
    BY <2>1, BlocksFinite
  <2> QED
    BY <2>1, <2>2, <2>4, <2>5
<1>2. ASSUME NEW i \in DOMAIN pieces
      PROVE  pieces'[i] \in Nat
  <2> DEFINE T == {r \in R : PieceOf(r[1]) = i}
  <2>1. Cardinality(T) \in Nat
    BY RequestSetsFinite
  <2>2. pieces[i] \in Nat
    BY DEF TypeOK
  <2>3. pieces'[i] = Monus(pieces[i], Cardinality(T))
    BY DEF removeRequestFromTables
  <2> QED
    BY <2>1, <2>2, <2>3, MonusType
<1>3. /\ requests' = [p \in AllPeers |-> requests'[p]]
      /\ pending' = [p \in AllPeers |-> pending'[p]]
      /\ pieces' = [i \in DOMAIN pieces |-> pieces'[i]]
  BY DEF removeRequestFromTables
<1> QED
  BY <1>1, <1>2, <1>3 DEF TypeOK, PendingExact

\* So do they when a block arrives, with all its requests cancelled.
LEMMA GotBlockTables ==
  ASSUME TypeOK, PendingExact,
         NEW p \in AllPeers, NEW b \in Blocks, NEW ok \in BOOLEAN, GotBlock(p, b, ok)
  PROVE  /\ have' \subseteq Blocks
         /\ requests' \in [AllPeers -> SUBSET Blocks]
         /\ pending' \in [AllPeers -> Nat]
         /\ DOMAIN pieces' \subseteq Pieces
         /\ pieces' \in [DOMAIN pieces' -> Nat]
         /\ needsCompletenessCheck' \in BOOLEAN
         /\ PendingExact'
<1>1. ASSUME NEW q \in AllPeers
      PROVE  /\ requests'[q] \in SUBSET Blocks
             /\ pending'[q] = Cardinality(requests'[q])
             /\ pending'[q] \in Nat
  <2>1. requests[q] \in SUBSET Blocks /\ pending[q] \in Nat
    BY DEF TypeOK
  <2>2. pending[q] = Cardinality(requests[q])
    BY DEF PendingExact
  <2>3. requests'[q] = requests[q] \ {b}
    BY DEF GotBlock
  <2>4. IsFiniteSet(requests[q])
    BY <2>1, BlocksFinite
  <2>5. CASE b \in requests[q]
    <3>1. Cardinality(requests'[q]) = Cardinality(requests[q]) - 1
      BY <2>3, <2>4, <2>5, FS_RemoveElement
    <3>2. Cardinality(requests'[q]) \in Nat
      BY <2>1, <2>3, BlocksFinite
    <3>3. pending'[q] = Monus(pending[q], 1)
      BY <2>5 DEF GotBlock
    <3>4. pending'[q] = pending[q] - 1
      BY <2>1, <2>2, <3>1, <3>2, <3>3, MonusType
    <3> QED
      BY <2>1, <2>2, <2>3, <3>1, <3>2, <3>4
  <2>6. CASE b \notin requests[q]
    <3>1. requests'[q] = requests[q]
      BY <2>3, <2>6
    <3>2. pending'[q] = pending[q]
      BY <2>6 DEF GotBlock
    <3> QED
      BY <2>1, <2>2, <3>1, <3>2
  <2> QED
    BY <2>5, <2>6
<1>2. ASSUME NEW j \in DOMAIN pieces
      PROVE  Monus(pieces[j], IF j = PieceOf(b) THEN Cardinality(Requesters(b) \cup {p}) ELSE 0)
               \in Nat
  <2>1. Requesters(b) \cup {p} \in SUBSET AllPeers
    BY DEF Requesters
  <2>2. Cardinality(Requesters(b) \cup {p}) \in Nat
    BY <2>1, PeersAssumption, FS_Subset, FS_CardinalityType
  <2>3. pieces[j] \in Nat
    BY DEF TypeOK
  <2> QED
    BY <2>2, <2>3, MonusType
<1>3. DOMAIN pieces' \subseteq Pieces /\ pieces' \in [DOMAIN pieces' -> Nat]
  BY <1>2 DEF GotBlock, TypeOK
<1>4. /\ requests' = [q \in AllPeers |-> requests'[q]]
      /\ pending' = [q \in AllPeers |-> pending'[q]]
  BY DEF GotBlock
<1>5. requests' \in [AllPeers -> SUBSET Blocks] /\ pending' \in [AllPeers -> Nat] /\ PendingExact'
  BY <1>1, <1>4 DEF PendingExact
<1>6. have' \subseteq Blocks
  BY DEF GotBlock, TypeOK, BlocksOf
<1>7. needsCompletenessCheck' \in BOOLEAN
  BY DEF GotBlock
<1> QED
  BY <1>3, <1>5, <1>6, <1>7

\* And when new requests are made: none of them was there before.
LEMMA NextRequestsTables ==
  ASSUME TypeOK, PendingExact, NEW p \in AllPeers, NEW want, GetNextRequests(p, want)
  PROVE  /\ requests' \in [AllPeers -> SUBSET Blocks]
         /\ pending' \in [AllPeers -> Nat]
         /\ DOMAIN pieces' \subseteq Pieces
         /\ pieces' \in [DOMAIN pieces' -> Nat]
         /\ endgame' \in Nat
         /\ DOMAIN tasks' = Webseeds /\ \A w \in Webseeds : IsTaskBag(tasks'[w])
         /\ PendingExact'
<1> DEFINE list == IF DOMAIN pieces = {} THEN pieceListRebuild(dnd) ELSE pieces
           may(eg) == Requestable(p, list, eg)
           setme(eg, order) == may(eg) \cap Walk(p, want, eg, InWalkOrder(may(eg), order))
<1>1. PICK order \in SetToSeqs(DOMAIN list),
           active \in SUBSET {w \in Webseeds : tasks[w] # EmptyBag} :
        LET eg == updateEndgame(active)
            new == setme(eg, order)
        IN  /\ endgame'  = eg
            /\ requests' = [requests EXCEPT ![p] = @ \cup new]
            /\ pending'  = [pending EXCEPT ![p] = @ + Cardinality(new)]
            /\ pieces'   = [i \in DOMAIN list |->
                              list[i] + Cardinality({b \in new : PieceOf(b) = i})]
            /\ tasks'    = [w \in Webseeds |->
                              IF w = p THEN tasks[w] (+) SetToBag(Runs(new)) ELSE tasks[w]]
  BY DEF GetNextRequests
<1> DEFINE new == setme(updateEndgame(active), order)
<1>2. endgame' \in Nat
  BY <1>1, EndgameType
<1>3. new \in SUBSET Blocks /\ new \cap requests[p] = {}
  BY DEF Requestable
<1>4. DOMAIN list \subseteq Pieces /\ list \in [DOMAIN list -> Nat]
  BY RebuildType DEF TypeOK
<1> HIDE DEF list, new, setme, may
<1>5. /\ requests' = [requests EXCEPT ![p] = @ \cup new]
      /\ pending'  = [pending EXCEPT ![p] = @ + Cardinality(new)]
      /\ pieces'   = [i \in DOMAIN list |->
                        list[i] + Cardinality({b \in new : PieceOf(b) = i})]
      /\ tasks'    = [w \in Webseeds |->
                        IF w = p THEN tasks[w] (+) SetToBag(Runs(new)) ELSE tasks[w]]
  BY <1>1 DEF new
<1>6. Cardinality(new) \in Nat
  BY <1>3, BlocksFinite
<1>7. requests' \in [AllPeers -> SUBSET Blocks] /\ pending' \in [AllPeers -> Nat]
  BY <1>3, <1>5, <1>6 DEF TypeOK
<1>8. PendingExact'
  <2> SUFFICES ASSUME NEW q \in AllPeers
               PROVE  pending'[q] = Cardinality(requests'[q])
    BY DEF PendingExact
  <2>1. requests[q] \in SUBSET Blocks
    BY DEF TypeOK
  <2>2. pending[q] = Cardinality(requests[q])
    BY DEF PendingExact
  <2>3. CASE q = p
    <3>1. Cardinality(requests[p] \cup new) = Cardinality(requests[p]) + Cardinality(new)
      BY <1>3, <2>1, <2>3, AddCount
    <3>2. requests'[p] = requests[p] \cup new /\ pending'[p] = pending[p] + Cardinality(new)
      BY <1>5 DEF TypeOK
    <3> QED
      BY <2>2, <2>3, <3>1, <3>2
  <2>4. CASE q # p
    BY <1>5, <2>2, <2>4 DEF TypeOK
  <2> QED
    BY <2>3, <2>4
<1>9. DOMAIN pieces' \subseteq Pieces /\ pieces' \in [DOMAIN pieces' -> Nat]
  <2>1. ASSUME NEW i \in DOMAIN list
        PROVE  list[i] + Cardinality({b \in new : PieceOf(b) = i}) \in Nat
    <3>1. {b \in new : PieceOf(b) = i} \in SUBSET Blocks
      BY <1>3
    <3>2. Cardinality({b \in new : PieceOf(b) = i}) \in Nat
      BY <3>1, BlocksFinite
    <3>3. list[i] \in Nat
      BY <1>4
    <3> QED
      BY <3>2, <3>3
  <2> QED
    BY <1>4, <1>5, <2>1
<1>10. DOMAIN tasks' = Webseeds /\ \A w \in Webseeds : IsTaskBag(tasks'[w])
  <2>1. Runs(new) \in SUBSET Tasks
    BY <1>3 DEF Runs, Tasks
  <2>2. ASSUME NEW w \in Webseeds
        PROVE  IsTaskBag(tasks[w] (+) SetToBag(Runs(new))) /\ IsTaskBag(tasks[w])
    BY <2>1, SetTaskBag, TaskBagSum DEF TypeOK
  <2> QED
    BY <1>5, <2>2
<1> QED
  BY <1>2, <1>7, <1>8, <1>9, <1>10

-----------------------------------------------------------------------------
(* The list of requests and the counts of the pieces. *)

\* The requests in the list for blocks of one piece.
RequestsIn(i) == {r \in RequestsOf(AllPeers) : PieceOf(r[1]) = i}

LEMMA RequestsInFinite ==
  \A i : RequestsIn(i) \in SUBSET (Blocks \X AllPeers) /\ IsFiniteSet(RequestsIn(i))
<1>1. \A i : RequestsIn(i) \in SUBSET (Blocks \X AllPeers)
  BY DEF RequestsIn, RequestsOf
<1> QED
  BY <1>1, RequestSetsFinite

\* A count goes down by as much as there may have been requests, so that it stays below those
\* that are left, also if some that are declined were not in the list.
LEMMA CountGoesDown ==
  ASSUME NEW S, IsFiniteSet(S), NEW T, IsFiniteSet(T), NEW n \in Nat, n <= Cardinality(S)
  PROVE  Monus(n, Cardinality(T)) <= Cardinality(S \ T)
<1>1. /\ Cardinality(S) \in Nat /\ Cardinality(T) \in Nat /\ Cardinality(S \cap T) \in Nat
      /\ Cardinality(S \ T) \in Nat
  BY FS_CardinalityType, FS_Intersection, FS_Difference
<1>2. Cardinality(S \ T) = Cardinality(S) - Cardinality(S \cap T)
  BY FS_Difference
<1>3. Cardinality(S \cap T) <= Cardinality(T)
  BY FS_Intersection
<1> QED
  BY <1>1, <1>2, <1>3 DEF Monus

\* Whatever is declined, the counts stay bounded.
LEMMA DropIsBounded ==
  ASSUME TypeOK, CountBounded,
         NEW R \in SUBSET (Blocks \X AllPeers), removeRequestFromTables(R)
  PROVE  CountBounded' /\ \A p \in AllPeers : requests'[p] \subseteq requests[p]
<1>1. \A p \in AllPeers : requests'[p] = {b \in requests[p] : <<b, p>> \notin R}
  BY DEF removeRequestFromTables
<1>2. ASSUME NEW i \in DOMAIN pieces
      PROVE  pieces'[i] <= Cardinality(RequestsIn(i)')
  <2> DEFINE T == {r \in R : PieceOf(r[1]) = i}
  <2>1. IsFiniteSet(T)
    BY RequestSetsFinite
  <2>2. pieces[i] \in Nat /\ pieces[i] <= Cardinality(RequestsIn(i))
    BY DEF TypeOK, CountBounded, RequestsIn
  <2>3. RequestsIn(i)' = RequestsIn(i) \ T
    BY <1>1 DEF RequestsIn, RequestsOf
  <2>4. pieces'[i] = Monus(pieces[i], Cardinality(T))
    BY DEF removeRequestFromTables
  <2> HIDE DEF T
  <2> QED
    BY <2>1, <2>2, <2>3, <2>4, CountGoesDown, RequestsInFinite
<1>3. DOMAIN pieces' = DOMAIN pieces
  BY DEF removeRequestFromTables
<1> QED
  BY <1>1, <1>2, <1>3 DEF CountBounded, RequestsIn

\* What holds of the requests for each block also holds of fewer requests.
LEMMA FewerRequests ==
  ASSUME TypeOK, AtMostTwoRequests, \A p \in AllPeers : requests'[p] \subseteq requests[p]
  PROVE  AtMostTwoRequests'
<1> SUFFICES ASSUME NEW b \in Blocks PROVE Cardinality(Requesters(b)') <= 2
  BY DEF AtMostTwoRequests
<1>1. Requesters(b)' \subseteq Requesters(b) /\ Requesters(b) \in SUBSET AllPeers
  BY DEF Requesters
<1>2. IsFiniteSet(Requesters(b))
  BY <1>1, PeersAssumption, FS_Subset
<1>3. /\ Cardinality(Requesters(b)') <= Cardinality(Requesters(b))
      /\ Cardinality(Requesters(b)') \in Nat /\ Cardinality(Requesters(b)) \in Nat
  BY <1>1, <1>2, FS_Subset, FS_CardinalityType
<1>4. Cardinality(Requesters(b)) <= 2
  BY DEF AtMostTwoRequests
<1> QED
  BY <1>3, <1>4

\* When a block arrives, its requests go from the list, and at least as many from the count.
LEMMA GotBlockIsExact ==
  ASSUME TypeOK, CountBounded, NoRequestForOwnedBlock, AtMostTwoRequests,
         NEW p \in AllPeers, NEW b \in Blocks, NEW ok \in BOOLEAN, GotBlock(p, b, ok)
  PROVE  /\ CountBounded' /\ NoRequestForOwnedBlock' /\ AtMostTwoRequests'
         /\ \A q \in AllPeers : requests'[q] = requests[q] \ {b}
<1>1. \A q \in AllPeers : requests'[q] = requests[q] \ {b}
  BY DEF GotBlock
<1>2. AtMostTwoRequests'
  BY <1>1, FewerRequests
<1>3. have' \subseteq have \cup {b}
  BY DEF GotBlock
<1>4. NoRequestForOwnedBlock'
  BY <1>1, <1>3 DEF NoRequestForOwnedBlock, AllPeers
<1>5. ASSUME NEW i \in DOMAIN pieces
      PROVE  Monus(pieces[i], IF i = PieceOf(b) THEN Cardinality(Requesters(b) \cup {p}) ELSE 0)
               <= Cardinality(RequestsIn(i)')
  <2>1. pieces[i] \in Nat /\ pieces[i] <= Cardinality(RequestsIn(i))
    BY DEF TypeOK, CountBounded, RequestsIn
  <2>2. CASE i # PieceOf(b)
    <3>1. RequestsIn(i)' = RequestsIn(i)
      BY <1>1, <2>2 DEF RequestsIn, RequestsOf
    <3> QED
      BY <2>1, <2>2, <3>1 DEF Monus
  <2>3. CASE i = PieceOf(b)
    <3> DEFINE P == Requesters(b) \cup {p}
               T == {b} \X P
    <3>1. P \in SUBSET AllPeers
      BY DEF Requesters
    <3>2. IsFiniteSet(P) /\ IsFiniteSet(T) /\ Cardinality(T) = Cardinality(P)
      <4>1. IsFiniteSet(P) /\ Cardinality(P) \in Nat
        BY <3>1, PeersAssumption, FS_Subset, FS_CardinalityType
      <4>2. IsFiniteSet({b}) /\ Cardinality({b}) = 1
        BY FS_Singleton
      <4>3. IsFiniteSet(T) /\ Cardinality(T) = 1 * Cardinality(P)
        BY <4>1, <4>2, FS_Product
      <4> QED
        BY <4>1, <4>3
    <3>3. RequestsIn(i)' = RequestsIn(i) \ T
      BY <1>1 DEF RequestsIn, RequestsOf, Requesters
    <3> HIDE DEF T
    <3>4. Monus(pieces[i], Cardinality(T)) <= Cardinality(RequestsIn(i)')
      BY <2>1, <3>2, <3>3, CountGoesDown, RequestsInFinite
    <3> QED
      BY <2>3, <3>2, <3>4
  <2> QED
    BY <2>2, <2>3
<1>6. CountBounded'
  BY <1>5 DEF GotBlock, CountBounded, RequestsIn
<1> QED
  BY <1>1, <1>2, <1>4, <1>6

\* A property that holds at the start of an interval, and after each number of it, holds
\* throughout.
LEMMA AllAlong ==
  ASSUME NEW m \in Nat, NEW n \in Nat, NEW S, m \in S,
         \A k \in m .. n : k \in S /\ k # n => k + 1 \in S
  PROVE  m .. n \subseteq S
<1> SUFFICES ASSUME (m .. n) \ S # {} PROVE FALSE
  OBVIOUS
<1>1. PICK k \in (m .. n) \ S : \A j \in (m .. n) \ S : k <= j
  <2>1. (m .. n) \ S \in SUBSET Nat
    OBVIOUS
  <2> QED
    BY <2>1, LeastNumber
<1>2. k - 1 \in m .. n /\ k - 1 \in S /\ k - 1 # n
  BY <1>1
<1>3. (k - 1) + 1 \in S
  BY <1>2
<1> QED
  BY <1>1, <1>3

\* Each block that is requested of a webseed lies in one of the runs that are handed to it.
LEMMA RunsCover ==
  ASSUME NEW S \in SUBSET Blocks, NEW b \in S
  PROVE  \E t \in Runs(S) : b \in t[1] .. t[2]
<1> DEFINE joined(c, d) == c \in S /\ d \in S /\ PieceOf(c) = PieceOf(d)
           last  == BlockCount - 1
           up    == {e \in Nat : b <= e /\ ~joined(e, e + 1)}
           down  == {d \in Nat : d <= b /\ ~joined((b - d) - 1, b - d)}
<1>0. b \in Nat /\ last \in Nat /\ b <= last /\ S \subseteq 0 .. last
  BY CountsAssumption DEF Blocks
<1>1. PICK e \in up : \A k \in up : e <= k
  <2>1. last + 1 \notin S
    BY <1>0
  <2>2. last \in up
    BY <1>0, <2>1
  <2> QED
    BY <2>2, LeastNumber
<1>2. PICK d \in down : \A k \in down : d <= k
  <2>1. (b - b) - 1 \notin S
    BY <1>0
  <2>2. b \in down
    BY <1>0, <2>1
  <2> QED
    BY <2>2, LeastNumber
<1> DEFINE mine == {k \in S : PieceOf(k) = PieceOf(b)}
<1>3. b .. e \subseteq mine
  <2>1. \A k \in b .. e : k \in mine /\ k # e => k + 1 \in mine
    BY <1>0, <1>1
  <2> HIDE DEF mine
  <2>2. b \in mine
    BY DEF mine
  <2> QED
    BY <1>0, <1>1, <2>1, <2>2, AllAlong
<1>4. b - d .. b \subseteq mine
  <2> DEFINE back == {k \in 0 .. d : b - k \in mine}
  <2>1. \A k \in 0 .. d : k \in back /\ k # d => k + 1 \in back
    BY <1>0, <1>2
  <2>2. 0 \in back
    BY <1>0, <1>2
  <2> HIDE DEF back
  <2>3. 0 .. d \subseteq back
    BY <1>0, <1>2, <2>1, <2>2, AllAlong
  <2>4. ASSUME NEW k \in b - d .. b
        PROVE  k \in mine
    <3>1. b - k \in 0 .. d
      BY <1>0, <1>2
    <3>2. b - (b - k) \in mine
      BY <2>3, <3>1 DEF back
    <3> QED
      BY <1>0, <1>2, <3>2
  <2> QED
    BY <2>4
<1> DEFINE t == <<b - d, e>>
<1>5. b \in b - d .. e /\ b - d .. e \subseteq mine
  BY <1>0, <1>1, <1>2, <1>3, <1>4
<1>6. b - d \in mine /\ e \in mine
  BY <1>0, <1>1, <1>2, <1>3, <1>4
<1>7. t \in Runs(S)
  BY <1>0, <1>1, <1>2, <1>5, <1>6 DEF Runs
<1> QED
  BY <1>5, <1>7

\* The list that requests are counted in, which may have been rebuilt.
LEMMA RebuildIsBounded ==
  ASSUME TypeOK, CountBounded, NEW skip
  PROVE  /\ DOMAIN pieceListRebuild(skip) \subseteq Pieces
         /\ \A i \in DOMAIN pieceListRebuild(skip) :
              /\ pieceListRebuild(skip)[i] \in Nat
              /\ pieceListRebuild(skip)[i] <= Cardinality(RequestsIn(i))
<1>1. \A i : Cardinality(RequestsIn(i)) \in Nat
  BY RequestsInFinite, RequestSetsFinite
<1>2. \A i \in DOMAIN pieces : pieces[i] \in Nat /\ pieces[i] <= Cardinality(RequestsIn(i))
  BY DEF TypeOK, CountBounded, RequestsIn
<1> QED
  BY <1>1, <1>2 DEF pieceListRebuild, WantedPieces, TypeOK

\* What tr_peerMgrGetNextRequests asks of a peer: blocks that we lack, that the peer was not
\* asked for, and that at most one other was asked for.
LEMMA NewRequests ==
  ASSUME TypeOK, CountBounded, NEW p \in AllPeers, NEW want, GetNextRequests(p, want)
  PROVE  \E new, list :
           /\ new \in SUBSET (Blocks \ have)
           /\ new \cap requests[p] = {}
           /\ \A b \in new : Requesters(b) # {} => Cardinality(Requesters(b)) <= 1
           /\ \A i \in DOMAIN list : list[i] \in Nat /\ list[i] <= Cardinality(RequestsIn(i))
           /\ requests' = [requests EXCEPT ![p] = @ \cup new]
           /\ pieces' = [i \in DOMAIN list |->
                           list[i] + Cardinality({b \in new : PieceOf(b) = i})]
           /\ tasks' = [w \in Webseeds |->
                          IF w = p THEN tasks[w] (+) SetToBag(Runs(new)) ELSE tasks[w]]
<1> DEFINE list == IF DOMAIN pieces = {} THEN pieceListRebuild(dnd) ELSE pieces
           may(eg) == Requestable(p, list, eg)
           setme(eg, order) == may(eg) \cap Walk(p, want, eg, InWalkOrder(may(eg), order))
<1>1. PICK order \in SetToSeqs(DOMAIN list),
           active \in SUBSET {w \in Webseeds : tasks[w] # EmptyBag} :
        LET eg == updateEndgame(active)
            new == setme(eg, order)
        IN  /\ endgame'  = eg
            /\ requests' = [requests EXCEPT ![p] = @ \cup new]
            /\ pending'  = [pending EXCEPT ![p] = @ + Cardinality(new)]
            /\ pieces'   = [i \in DOMAIN list |->
                              list[i] + Cardinality({b \in new : PieceOf(b) = i})]
            /\ tasks'    = [w \in Webseeds |->
                              IF w = p THEN tasks[w] (+) SetToBag(Runs(new)) ELSE tasks[w]]
  BY DEF GetNextRequests
<1> DEFINE new == setme(updateEndgame(active), order)
<1>2. /\ new \in SUBSET (Blocks \ have)
      /\ new \cap requests[p] = {}
      /\ \A b \in new : Requesters(b) # {} => Cardinality(Requesters(b)) <= 1
  BY DEF Requestable
<1>3. \A i \in DOMAIN list : list[i] \in Nat /\ list[i] <= Cardinality(RequestsIn(i))
  BY RebuildIsBounded DEF TypeOK, CountBounded, RequestsIn
<1> HIDE DEF new, list, setme, may
<1>4. /\ requests' = [requests EXCEPT ![p] = @ \cup new]
      /\ pieces'   = [i \in DOMAIN list |->
                        list[i] + Cardinality({b \in new : PieceOf(b) = i})]
      /\ tasks'    = [w \in Webseeds |->
                        IF w = p THEN tasks[w] (+) SetToBag(Runs(new)) ELSE tasks[w]]
  BY <1>1 DEF new
<1> QED
  BY <1>2, <1>3, <1>4

\* New requests are counted, at most two for a block, and those of a webseed are in a run.
LEMMA NextRequestsAreExact ==
  ASSUME TypeOK, CountBounded, AtMostTwoRequests, WebseedRequestsAreServed,
         NEW p \in AllPeers, NEW want, GetNextRequests(p, want)
  PROVE  /\ CountBounded' /\ AtMostTwoRequests' /\ WebseedRequestsAreServed'
         /\ \A q \in AllPeers : requests'[q] \cap have \subseteq requests[q]
<1>1. PICK new, list :
           /\ new \in SUBSET (Blocks \ have)
           /\ new \cap requests[p] = {}
           /\ \A b \in new : Requesters(b) # {} => Cardinality(Requesters(b)) <= 1
           /\ \A i \in DOMAIN list : list[i] \in Nat /\ list[i] <= Cardinality(RequestsIn(i))
           /\ requests' = [requests EXCEPT ![p] = @ \cup new]
           /\ pieces' = [i \in DOMAIN list |->
                           list[i] + Cardinality({b \in new : PieceOf(b) = i})]
           /\ tasks' = [w \in Webseeds |->
                          IF w = p THEN tasks[w] (+) SetToBag(Runs(new)) ELSE tasks[w]]
  BY NewRequests
<1>0. new \in SUBSET (Blocks \ have)
  BY <1>1
<1>2. /\ requests'[p] = requests[p] \cup new
      /\ \A q \in AllPeers \ {p} : requests'[q] = requests[q]
  BY <1>1 DEF TypeOK
<1>3. CountBounded'
  <2> SUFFICES ASSUME NEW i \in DOMAIN list
               PROVE  pieces'[i] <= Cardinality(RequestsIn(i)')
    BY <1>1 DEF CountBounded, RequestsIn
  <2> DEFINE S == {b \in new : PieceOf(b) = i}
             T == S \X {p}
  <2>1. IsFiniteSet(S) /\ IsFiniteSet(T) /\ Cardinality(S) \in Nat /\ Cardinality(T) = Cardinality(S)
    <3>1. IsFiniteSet(S) /\ Cardinality(S) \in Nat
      BY <1>0, BlocksFinite
    <3>2. IsFiniteSet({p}) /\ Cardinality({p}) = 1
      BY FS_Singleton
    <3>3. IsFiniteSet(T) /\ Cardinality(T) = Cardinality(S) * 1
      BY <3>1, <3>2, FS_Product
    <3> QED
      BY <3>1, <3>3
  <2>2. RequestsIn(i)' = RequestsIn(i) \cup T
    BY <1>1, <1>2 DEF RequestsIn, RequestsOf
  <2>3. RequestsIn(i) \cap T = {}
    BY <1>1 DEF RequestsIn, RequestsOf
  <2>4. IsFiniteSet(RequestsIn(i)) /\ Cardinality(RequestsIn(i)) \in Nat
    BY RequestsInFinite, FS_CardinalityType
  <2> HIDE DEF T
  <2>5. Cardinality(RequestsIn(i)') = Cardinality(RequestsIn(i)) + Cardinality(S)
    <3>1. Cardinality(RequestsIn(i) \cup T)
            = Cardinality(RequestsIn(i)) + Cardinality(T) - Cardinality(RequestsIn(i) \cap T)
      BY <2>1, <2>4, FS_Union
    <3>2. Cardinality(RequestsIn(i) \cap T) = 0
      BY <2>3, FS_EmptySet
    <3> QED
      BY <2>1, <2>2, <2>4, <3>1, <3>2
  <2>6. pieces'[i] = list[i] + Cardinality(S) /\ list[i] \in Nat /\ list[i] <= Cardinality(RequestsIn(i))
    BY <1>1
  <2> QED
    BY <2>1, <2>4, <2>5, <2>6
<1>4. AtMostTwoRequests'
  <2> SUFFICES ASSUME NEW b \in Blocks PROVE Cardinality(Requesters(b)') <= 2
    BY DEF AtMostTwoRequests
  <2>1. IsFiniteSet(Requesters(b)) /\ Cardinality(Requesters(b)) \in Nat
    <3>1. Requesters(b) \in SUBSET AllPeers
      BY DEF Requesters
    <3> QED
      BY <3>1, PeersAssumption, FS_Subset, FS_CardinalityType
  <2>2. CASE b \notin new
    <3>1. Requesters(b)' = Requesters(b)
      BY <1>2, <2>2 DEF Requesters
    <3> QED
      BY <3>1 DEF AtMostTwoRequests
  <2>3. CASE b \in new
    <3>1. Requesters(b)' = Requesters(b) \cup {p} /\ p \notin Requesters(b)
      BY <1>1, <1>2, <2>3 DEF Requesters
    <3>2. Cardinality(Requesters(b)') = Cardinality(Requesters(b)) + 1
      BY <2>1, <3>1, FS_AddElement
    <3>3. Cardinality(Requesters(b)) <= 1
      BY <1>1, <2>1, <2>3, FS_EmptySet
    <3> QED
      BY <2>1, <3>2, <3>3
  <2> QED
    BY <2>2, <2>3
<1>5. WebseedRequestsAreServed'
  <2> SUFFICES ASSUME NEW w \in Webseeds, NEW b \in requests'[w]
               PROVE  \E task \in BagToSet(tasks'[w]) : b \in task[1] .. task[2]
    BY DEF WebseedRequestsAreServed
  <2>0. w \in AllPeers
    BY DEF AllPeers
  <2>1. BagToSet(tasks[w]) \subseteq BagToSet(tasks'[w])
    BY <1>1 DEF BagToSet, (+)
  <2>2. CASE b \in requests[w]
    BY <2>1, <2>2 DEF WebseedRequestsAreServed
  <2>3. CASE b \notin requests[w]
    <3>1. w = p /\ b \in new
      BY <1>2, <2>0, <2>3
    <3>2. Runs(new) \subseteq BagToSet(tasks'[w])
      BY <1>1, <3>1 DEF BagToSet, (+), SetToBag
    <3>3. PICK t \in Runs(new) : b \in t[1] .. t[2]
      BY <1>0, <3>1, RunsCover
    <3> QED
      BY <3>2, <3>3
  <2> QED
    BY <2>2, <2>3
<1>6. \A q \in AllPeers : requests'[q] \cap have \subseteq requests[q]
  BY <1>0, <1>2
<1> QED
  BY <1>3, <1>4, <1>5, <1>6

-----------------------------------------------------------------------------
(* The theorems. *)

\* Exact counts need to know that a peer that connects has no requests left from an
\* earlier connection: its count starts at zero.
IInv == TypeOK /\ PendingExact /\ NoRequestOfDeadPeer

LEMMA InitIInv == Init => IInv
<1> SUFFICES ASSUME Init PROVE IInv
  OBVIOUS
<1>1. TypeOK
  BY EmptyTaskBag DEF Init, TypeOK
<1>2. PendingExact
  BY FS_EmptySet DEF Init, PendingExact
<1>3. NoRequestOfDeadPeer
  BY DEF Init, NoRequestOfDeadPeer, AllPeers
<1> QED
  BY <1>1, <1>2, <1>3 DEF IInv

\* Declining requests, alone or with the loss of peers that have none left.
LEMMA DeclineIInv ==
  ASSUME IInv, NEW R \in SUBSET (Blocks \X AllPeers), removeRequestFromTables(R),
         have' \subseteq Blocks, peers' \subseteq peers, isRunning' \in BOOLEAN,
         peers' # {} => isRunning',
         \A p \in peers \ peers' : RequestsOf({p}) \subseteq R,
         DOMAIN tasks' = Webseeds, \A w \in Webseeds : IsTaskBag(tasks'[w]),
         UNCHANGED <<endgame, dnd, isSeed, needsCompletenessCheck>>
  PROVE  IInv'
<1>1. TypeOK /\ PendingExact /\ NoRequestOfDeadPeer
  BY DEF IInv
<1>2. /\ requests' \in [AllPeers -> SUBSET Blocks]
      /\ pending' \in [AllPeers -> Nat]
      /\ DOMAIN pieces' \subseteq Pieces
      /\ pieces' \in [DOMAIN pieces' -> Nat]
      /\ PendingExact'
  BY <1>1, DropRequests
<1>3. TypeOK'
  BY <1>1, <1>2 DEF TypeOK
<1>4. NoRequestOfDeadPeer'
  <2> SUFFICES ASSUME NEW p \in BtPeers \ peers'
               PROVE  requests'[p] = {}
    BY DEF NoRequestOfDeadPeer
  <2>1. requests'[p] = {b \in requests[p] : <<b, p>> \notin R}
    BY DEF removeRequestFromTables, AllPeers
  <2>2. CASE p \notin peers
    BY <1>1, <2>1, <2>2 DEF NoRequestOfDeadPeer
  <2>3. CASE p \in peers
    <3>1. \A b \in requests[p] : b \in Blocks
      BY <1>1 DEF TypeOK, AllPeers
    <3>2. \A b \in requests[p] : <<b, p>> \in RequestsOf({p})
      BY <3>1 DEF RequestsOf
    <3>3. RequestsOf({p}) \subseteq R
      BY <2>3
    <3> QED
      BY <2>1, <3>2, <3>3
  <2> QED
    BY <2>2, <2>3
<1> QED
  BY <1>2, <1>3, <1>4 DEF IInv

\* The requests of any peers are requests.
LEMMA RequestsOfType == \A P \in SUBSET AllPeers : RequestsOf(P) \in SUBSET (Blocks \X AllPeers)
BY DEF RequestsOf

LEMMA PeerStepIInv == IInv /\ PeerStep => IInv'
<1> SUFFICES ASSUME IInv, NEW p \in BtPeers,
                    \/ Connect(p)
                    \/ Disconnect(p)
                    \/ RequestBlocks(p)
                    \/ PeerChokes(p)
                    \/ \E b \in Blocks : PeerRejects(p, b)
                    \/ \E b \in Blocks, ok \in BOOLEAN : PeerSendsBlock(p, b, ok)
             PROVE  IInv'
  BY DEF PeerStep
<1>0. /\ p \in AllPeers
      /\ RequestsOf({p}) \in SUBSET (Blocks \X AllPeers)
      /\ TypeOK /\ PendingExact /\ NoRequestOfDeadPeer
  BY RequestsOfType DEF AllPeers, IInv
<1>1. CASE Connect(p)
  <2>1. requests[p] = {} /\ Cardinality({}) = 0
    BY <1>1, FS_EmptySet, <1>0 DEF Connect, NoRequestOfDeadPeer
  <2>2. TypeOK'
    BY <1>0, <1>1 DEF TypeOK, Connect
  <2>3. PendingExact'
    BY <1>0, <1>1, <2>1 DEF TypeOK, PendingExact, Connect
  <2>4. NoRequestOfDeadPeer'
    BY <1>0, <1>1 DEF NoRequestOfDeadPeer, Connect
  <2> QED
    BY <2>2, <2>3, <2>4 DEF IInv
<1>2. CASE Disconnect(p)
  BY <1>0, <1>2, DeclineIInv DEF Disconnect, TypeOK, NoRequestOfDeadPeer
<1>3. CASE RequestBlocks(p)
  <2>1. PICK want : GetNextRequests(p, want)
    BY <1>3 DEF RequestBlocks
  <2>2. TypeOK' /\ PendingExact'
    BY <1>0, <1>3, <2>1, NextRequestsTables DEF RequestBlocks, TypeOK
  <2>3. \A q \in AllPeers : q # p => requests'[q] = requests[q]
    BY <1>0, <2>1 DEF GetNextRequests, TypeOK
  <2>4. NoRequestOfDeadPeer'
    BY <1>0, <1>3, <2>3 DEF NoRequestOfDeadPeer, RequestBlocks, AllPeers
  <2> QED
    BY <2>2, <2>4 DEF IInv
<1>4. CASE PeerChokes(p)
  BY <1>0, <1>4, DeclineIInv DEF PeerChokes, TypeOK, NoRequestOfDeadPeer
<1>5. ASSUME NEW b \in Blocks, PeerRejects(p, b)
      PROVE  IInv'
  <2>1. {<<b, p>>} \in SUBSET (Blocks \X AllPeers)
    BY <1>0
  <2> QED
    BY <1>0, <1>5, <2>1, DeclineIInv DEF PeerRejects, TypeOK, NoRequestOfDeadPeer
<1>6. ASSUME NEW b \in Blocks, NEW ok \in BOOLEAN, PeerSendsBlock(p, b, ok)
      PROVE  IInv'
  <2>1. TypeOK' /\ PendingExact'
    BY <1>0, <1>6, GotBlockTables DEF PeerSendsBlock, TypeOK
  <2>2. NoRequestOfDeadPeer'
    BY <1>0, <1>6 DEF PeerSendsBlock, GotBlock, NoRequestOfDeadPeer, AllPeers
  <2> QED
    BY <2>1, <2>2 DEF IInv
<1> QED
  BY <1>1, <1>2, <1>3, <1>4, <1>5, <1>6

LEMMA WebseedStepIInv == IInv /\ WebseedStep => IInv'
<1> SUFFICES ASSUME IInv, NEW w \in Webseeds,
                    \/ WebseedIdle(w)
                    \/ \E task \in Tasks : WebseedFails(w, task)
                    \/ \E task \in Tasks, ok \in BOOLEAN : WebseedSendsBlock(w, task, ok)
             PROVE  IInv'
  BY DEF WebseedStep
<1>0. /\ w \in AllPeers
      /\ w \notin BtPeers
      /\ TypeOK /\ PendingExact /\ NoRequestOfDeadPeer
  BY PeersAssumption DEF AllPeers, IInv
<1>1. CASE WebseedIdle(w)
  <2>1. PICK want : GetNextRequests(w, want)
    BY <1>1 DEF WebseedIdle
  <2>2. TypeOK' /\ PendingExact'
    BY <1>0, <1>1, <2>1, NextRequestsTables DEF WebseedIdle, TypeOK
  <2>3. \A q \in AllPeers : q # w => requests'[q] = requests[q]
    BY <1>0, <2>1 DEF GetNextRequests, TypeOK
  <2>4. NoRequestOfDeadPeer'
    BY <1>0, <1>1, <2>3 DEF NoRequestOfDeadPeer, WebseedIdle, AllPeers
  <2> QED
    BY <2>2, <2>4 DEF IInv
<1>2. ASSUME NEW task \in Tasks, WebseedFails(w, task)
      PROVE  IInv'
  <2> DEFINE R == (task[1] .. task[2]) \X {w}
  <2>0. task[1] .. task[2] \subseteq Blocks
    BY CountsAssumption DEF Tasks, Blocks
  <2>1. R \in SUBSET (Blocks \X AllPeers)
    BY <1>0, <2>0
  <2>2. DOMAIN tasks' = Webseeds /\ \A x \in Webseeds : IsTaskBag(tasks'[x])
    <3>1. {task} \in SUBSET Tasks
      OBVIOUS
    <3>2. IsTaskBag(tasks[w] (-) SetToBag({task}))
      BY <1>0, <3>1, SetTaskBag, TaskBagDifference DEF TypeOK
    <3>3. tasks' = [tasks EXCEPT ![w] = @ (-) SetToBag({task})]
      BY <1>2 DEF WebseedFails
    <3> QED
      BY <1>0, <3>2, <3>3 DEF TypeOK
  <2>3. removeRequestFromTables(R)
    BY <1>2 DEF WebseedFails
  <2> HIDE DEF R
  <2> QED
    BY <1>0, <1>2, <2>1, <2>2, <2>3, DeclineIInv DEF WebseedFails, TypeOK, NoRequestOfDeadPeer
<1>3. ASSUME NEW task \in Tasks, NEW ok \in BOOLEAN, WebseedSendsBlock(w, task, ok)
      PROVE  IInv'
  <2>1. task[1] \in Blocks /\ GotBlock(w, task[1], ok)
    BY <1>3 DEF Tasks, WebseedSendsBlock
  <2>2. DOMAIN tasks' = Webseeds /\ \A x \in Webseeds : IsTaskBag(tasks'[x])
    <3> DEFINE rest == IF task[1] < task[2] THEN SetToBag({<<task[1] + 1, task[2]>>}) ELSE EmptyBag
    <3>1. {task} \in SUBSET Tasks
      OBVIOUS
    <3>2. ASSUME task[1] < task[2]
          PROVE  {<<task[1] + 1, task[2]>>} \in SUBSET Tasks
      BY <3>2, CountsAssumption DEF Tasks, Blocks
    <3>3. IsTaskBag(rest)
      BY <3>2, EmptyTaskBag, SetTaskBag
    <3>4. IsTaskBag(tasks[w] (-) SetToBag({task}))
      BY <1>0, <3>1, SetTaskBag, TaskBagDifference DEF TypeOK
    <3>5. IsTaskBag((tasks[w] (-) SetToBag({task})) (+) rest)
      BY <3>3, <3>4, TaskBagSum
    <3>6. tasks' = [tasks EXCEPT ![w] = (@ (-) SetToBag({task})) (+) rest]
      BY <1>3 DEF WebseedSendsBlock
    <3> HIDE DEF rest
    <3> QED
      BY <1>0, <3>5, <3>6 DEF TypeOK
  <2> DEFINE b == task[1]
  <2> HIDE DEF b
  <2>3. b \in Blocks /\ GotBlock(w, b, ok)
    BY <2>1 DEF b
  <2>4. /\ have' \subseteq Blocks
        /\ requests' \in [AllPeers -> SUBSET Blocks]
        /\ pending' \in [AllPeers -> Nat]
        /\ DOMAIN pieces' \subseteq Pieces
        /\ pieces' \in [DOMAIN pieces' -> Nat]
        /\ needsCompletenessCheck' \in BOOLEAN
        /\ PendingExact'
    BY <1>0, <2>3, GotBlockTables
  <2>5. UNCHANGED <<endgame, peers, isRunning, dnd, isSeed>>
    BY <1>3 DEF WebseedSendsBlock
  <2>6. TypeOK'
    BY <1>0, <2>2, <2>4, <2>5 DEF TypeOK
  <2>7. NoRequestOfDeadPeer'
    BY <1>0, <2>3, <2>5 DEF GotBlock, NoRequestOfDeadPeer, AllPeers
  <2> QED
    BY <2>4, <2>6, <2>7 DEF IInv
<1> QED
  BY <1>1, <1>2, <1>3

LEMMA TimerStepIInv == IInv /\ TimerStep => IInv'
<1> SUFFICES ASSUME IInv, TimerStep PROVE IInv'
  OBVIOUS
<1>0. TypeOK /\ PendingExact /\ NoRequestOfDeadPeer
  BY DEF IInv
<1>1. ASSUME NEW old \in SUBSET RequestsOf(BtPeers), RefillUpkeep(old)
      PROVE  IInv'
  <2>1. old \in SUBSET (Blocks \X AllPeers)
    BY DEF RequestsOf, AllPeers
  <2> QED
    BY <1>0, <1>1, <2>1, DeclineIInv DEF RefillUpkeep, TypeOK, NoRequestOfDeadPeer
<1>2. CASE CompletenessCheck
  BY <1>0, <1>2
  DEF CompletenessCheck, tables, IInv, TypeOK, PendingExact, NoRequestOfDeadPeer
<1> QED
  BY <1>1, <1>2 DEF TimerStep

LEMMA UserStepIInv == IInv /\ UserStep => IInv'
<1> SUFFICES ASSUME IInv, UserStep PROVE IInv'
  OBVIOUS
<1>0. TypeOK /\ PendingExact /\ NoRequestOfDeadPeer
  BY DEF IInv
<1>1. CASE Start
  BY <1>0, <1>1 DEF Start, tables, IInv, TypeOK, PendingExact, NoRequestOfDeadPeer
<1>2. CASE Stop
  <2>1. RequestsOf(BtPeers) \in SUBSET (Blocks \X AllPeers)
    BY RequestsOfType DEF AllPeers
  <2>2. \A p \in peers : RequestsOf({p}) \subseteq RequestsOf(BtPeers)
    BY <1>0 DEF RequestsOf, TypeOK
  <2> QED
    BY <1>0, <1>2, <2>1, <2>2, DeclineIInv DEF Stop, TypeOK
<1>3. CASE SetFilePriorities
  BY <1>0, <1>3, RebuildType
  DEF SetFilePriorities, IInv, TypeOK, PendingExact, NoRequestOfDeadPeer
<1>4. ASSUME NEW F \in SUBSET Pieces, NEW doDownload \in BOOLEAN, SetFileDLs(F, doDownload)
      PROVE  IInv'
  <2>1. dnd' \subseteq Pieces
    BY <1>0, <1>4 DEF SetFileDLs, TypeOK
  <2>2. DOMAIN pieces' \subseteq Pieces /\ pieces' \in [DOMAIN pieces' -> Nat]
    BY <1>0, <1>4, RebuildType DEF SetFileDLs
  <2> QED
    BY <1>0, <1>4, <2>1, <2>2
    DEF SetFileDLs, IInv, TypeOK, PendingExact, NoRequestOfDeadPeer
<1> QED
  BY <1>1, <1>2, <1>3, <1>4 DEF UserStep

LEMMA VerifyStepIInv == IInv /\ VerifyStep => IInv'
<1> SUFFICES ASSUME IInv, VerifyStep PROVE IInv'
  OBVIOUS
<1>0. TypeOK /\ PendingExact /\ NoRequestOfDeadPeer
  BY DEF IInv
<1>1. ASSUME NEW i \in Pieces, NEW hasPiece \in BOOLEAN, VerifyPiece(i, hasPiece)
      PROVE  IInv'
  BY <1>0, <1>1
  DEF VerifyPiece, tables, BlocksOf, IInv, TypeOK, PendingExact, NoRequestOfDeadPeer
<1>2. CASE RecheckDone
  BY <1>0, <1>2 DEF RecheckDone, tables, IInv, TypeOK, PendingExact, NoRequestOfDeadPeer
<1> QED
  BY <1>1, <1>2 DEF VerifyStep

LEMMA StutterIInv == IInv /\ UNCHANGED vars => IInv'
BY DEF vars, IInv, TypeOK, PendingExact, NoRequestOfDeadPeer

THEOREM Invariance == Spec => []IInv
<1>1. Init => IInv
  BY InitIInv
<1>2. IInv /\ [Next]_vars => IInv'
  BY PeerStepIInv, WebseedStepIInv, TimerStepIInv, UserStepIInv, VerifyStepIInv, StutterIInv
  DEF Next
<1> QED
  BY <1>1, <1>2, PTL DEF Spec

\* Every reachable state is well typed.
THEOREM TypeCorrect == Spec => []TypeOK
BY Invariance, PTL DEF IInv

\* tr_peer::pendingReqsToPeer is always the number of the peer's requests in
\* Torrent::requests, for any number of peers, webseeds, blocks and pieces.
THEOREM PendingReqsExact == Spec => []PendingExact
BY Invariance, PTL DEF IInv

\* Torrent::requests never points to a freed peer, and a stopped torrent has no peers.
THEOREM RequestsOfLivePeers == Spec => []NoRequestOfDeadPeer
BY Invariance, PTL DEF IInv

-----------------------------------------------------------------------------
(* The list of requests stays exact.  Each lemma is about a group of handlers. *)

\* Declining requests, as long as those that a webseed keeps are still in a transfer of it.
LEMMA DeclineIsExact ==
  ASSUME IInv, RequestsAreExact,
         NEW R \in SUBSET (Blocks \X AllPeers), removeRequestFromTables(R), have' = have,
         tasks' = tasks \/ WebseedRequestsAreServed'
  PROVE  RequestsAreExact'
<1>0. /\ TypeOK /\ CountBounded /\ NoRequestForOwnedBlock
      /\ WebseedRequestsAreServed /\ AtMostTwoRequests
  BY DEF IInv, RequestsAreExact
<1>1. CountBounded' /\ \A p \in AllPeers : requests'[p] \subseteq requests[p]
  BY <1>0, DropIsBounded
<1>2. AtMostTwoRequests'
  BY <1>0, <1>1, FewerRequests
<1>3. NoRequestForOwnedBlock'
  BY <1>0, <1>1 DEF NoRequestForOwnedBlock, AllPeers
<1>4. WebseedRequestsAreServed'
  BY <1>0, <1>1 DEF WebseedRequestsAreServed, AllPeers
<1> QED
  BY <1>1, <1>2, <1>3, <1>4 DEF RequestsAreExact

LEMMA PeerStepIsExact == IInv /\ RequestsAreExact /\ PeerStep => RequestsAreExact'
<1> SUFFICES ASSUME IInv, RequestsAreExact, NEW p \in BtPeers,
                    \/ Connect(p)
                    \/ Disconnect(p)
                    \/ RequestBlocks(p)
                    \/ PeerChokes(p)
                    \/ \E b \in Blocks : PeerRejects(p, b)
                    \/ \E b \in Blocks, ok \in BOOLEAN : PeerSendsBlock(p, b, ok)
             PROVE  RequestsAreExact'
  BY DEF PeerStep
<1>0. /\ p \in AllPeers
      /\ RequestsOf({p}) \in SUBSET (Blocks \X AllPeers)
      /\ TypeOK /\ CountBounded /\ NoRequestForOwnedBlock
      /\ WebseedRequestsAreServed /\ AtMostTwoRequests
  BY RequestsOfType DEF AllPeers, IInv, RequestsAreExact
<1>1. CASE Connect(p)
  BY <1>0, <1>1 DEF Connect, RequestsAreExact, CountBounded, NoRequestForOwnedBlock,
    WebseedRequestsAreServed, AtMostTwoRequests, RequestsOf, Requesters
<1>2. CASE Disconnect(p)
  BY <1>0, <1>2, DeclineIsExact DEF Disconnect
<1>3. CASE RequestBlocks(p)
  <2>1. PICK want : GetNextRequests(p, want)
    BY <1>3 DEF RequestBlocks
  <2>2. /\ CountBounded' /\ AtMostTwoRequests' /\ WebseedRequestsAreServed'
        /\ \A q \in AllPeers : requests'[q] \cap have \subseteq requests[q]
    BY <1>0, <2>1, NextRequestsAreExact
  <2>3. NoRequestForOwnedBlock'
    BY <1>0, <1>3, <2>2 DEF RequestBlocks, NoRequestForOwnedBlock, AllPeers
  <2> QED
    BY <2>2, <2>3 DEF RequestsAreExact
<1>4. CASE PeerChokes(p)
  BY <1>0, <1>4, DeclineIsExact DEF PeerChokes
<1>5. ASSUME NEW b \in Blocks, PeerRejects(p, b)
      PROVE  RequestsAreExact'
  <2>1. {<<b, p>>} \in SUBSET (Blocks \X AllPeers)
    BY <1>0
  <2> QED
    BY <1>0, <1>5, <2>1, DeclineIsExact DEF PeerRejects
<1>6. ASSUME NEW b \in Blocks, NEW ok \in BOOLEAN, PeerSendsBlock(p, b, ok)
      PROVE  RequestsAreExact'
  <2>1. /\ CountBounded' /\ NoRequestForOwnedBlock' /\ AtMostTwoRequests'
        /\ \A q \in AllPeers : requests'[q] = requests[q] \ {b}
    BY <1>0, <1>6, GotBlockIsExact DEF PeerSendsBlock
  <2>2. WebseedRequestsAreServed'
    BY <1>0, <1>6, <2>1 DEF PeerSendsBlock, WebseedRequestsAreServed, AllPeers
  <2> QED
    BY <2>1, <2>2 DEF RequestsAreExact
<1> QED
  BY <1>1, <1>2, <1>3, <1>4, <1>5, <1>6

\* A transfer that ends rejects what is left of its run; one that goes on keeps the rest of it.
LEMMA WebseedStepIsExact == IInv /\ RequestsAreExact /\ WebseedStep => RequestsAreExact'
<1> SUFFICES ASSUME IInv, RequestsAreExact, NEW w \in Webseeds,
                    \/ WebseedIdle(w)
                    \/ \E task \in Tasks : WebseedFails(w, task)
                    \/ \E task \in Tasks, ok \in BOOLEAN : WebseedSendsBlock(w, task, ok)
             PROVE  RequestsAreExact'
  BY DEF WebseedStep
<1>0. /\ w \in AllPeers
      /\ TypeOK /\ CountBounded /\ NoRequestForOwnedBlock
      /\ WebseedRequestsAreServed /\ AtMostTwoRequests
  BY DEF AllPeers, IInv, RequestsAreExact
<1>1. CASE WebseedIdle(w)
  <2>1. PICK want : GetNextRequests(w, want)
    BY <1>1 DEF WebseedIdle
  <2>2. /\ CountBounded' /\ AtMostTwoRequests' /\ WebseedRequestsAreServed'
        /\ \A q \in AllPeers : requests'[q] \cap have \subseteq requests[q]
    BY <1>0, <2>1, NextRequestsAreExact
  <2>3. NoRequestForOwnedBlock'
    BY <1>0, <1>1, <2>2 DEF WebseedIdle, NoRequestForOwnedBlock, AllPeers
  <2> QED
    BY <2>2, <2>3 DEF RequestsAreExact
<1>2. ASSUME NEW task \in Tasks, WebseedFails(w, task)
      PROVE  RequestsAreExact'
  <2> DEFINE R == (task[1] .. task[2]) \X {w}
  <2>0. task[1] .. task[2] \subseteq Blocks
    BY CountsAssumption DEF Tasks, Blocks
  <2>1. R \in SUBSET (Blocks \X AllPeers)
    BY <1>0, <2>0
  <2>2. removeRequestFromTables(R) /\ have' = have
    BY <1>2 DEF WebseedFails
  <2>3. WebseedRequestsAreServed'
    <3> SUFFICES ASSUME NEW x \in Webseeds, NEW b \in requests'[x]
                 PROVE  \E t \in BagToSet(tasks'[x]) : b \in t[1] .. t[2]
      BY DEF WebseedRequestsAreServed
    <3>1. b \in requests[x] /\ <<b, x>> \notin R
      BY <2>2 DEF removeRequestFromTables, AllPeers
    <3>2. PICK t \in BagToSet(tasks[x]) : b \in t[1] .. t[2]
      BY <1>0, <3>1 DEF WebseedRequestsAreServed
    <3>3. x = w => t # task
      BY <3>1, <3>2
    <3>4. t \in BagToSet(tasks'[x])
      BY <1>0, <1>2, <3>2, <3>3, OtherTasksStay DEF WebseedFails, TypeOK
    <3> QED
      BY <3>2, <3>4
  <2> HIDE DEF R
  <2> QED
    BY <2>1, <2>2, <2>3, DeclineIsExact
<1>3. ASSUME NEW task \in Tasks, NEW ok \in BOOLEAN, WebseedSendsBlock(w, task, ok)
      PROVE  RequestsAreExact'
  <2> DEFINE b == task[1]
  <2>1. b \in Blocks /\ task[1] \in Nat /\ task[2] \in Nat /\ GotBlock(w, b, ok)
    BY <1>3 DEF Tasks, WebseedSendsBlock, Blocks
  <2> HIDE DEF b
  <2>2. /\ CountBounded' /\ NoRequestForOwnedBlock' /\ AtMostTwoRequests'
        /\ \A q \in AllPeers : requests'[q] = requests[q] \ {b}
    BY <1>0, <2>1, GotBlockIsExact
  <2>3. WebseedRequestsAreServed'
    <3> DEFINE rest == IF task[1] < task[2] THEN SetToBag({<<task[1] + 1, task[2]>>}) ELSE EmptyBag
    <3> SUFFICES ASSUME NEW x \in Webseeds, NEW c \in requests'[x]
                 PROVE  \E t \in BagToSet(tasks'[x]) : c \in t[1] .. t[2]
      BY DEF WebseedRequestsAreServed
    <3>1. c \in requests[x] /\ c # b
      BY <2>2 DEF AllPeers
    <3>2. PICK t \in BagToSet(tasks[x]) : c \in t[1] .. t[2]
      BY <1>0, <3>1 DEF WebseedRequestsAreServed
    <3>3. tasks' = [tasks EXCEPT ![w] = (@ (-) SetToBag({task})) (+) rest]
      BY <1>3 DEF WebseedSendsBlock
    <3>4. CASE x = w /\ t = task
      <4>1. task[1] < task[2] /\ c \in task[1] + 1 .. task[2]
        BY <2>1, <3>1, <3>2, <3>4 DEF b
      <4>2. <<task[1] + 1, task[2]>> \in BagToSet(rest)
        BY <4>1 DEF BagToSet, SetToBag
      <4> HIDE DEF rest
      <4>3. BagToSet(rest) \subseteq BagToSet(tasks'[x])
        BY <1>0, <3>3, <3>4 DEF TypeOK, BagToSet, (+)
      <4> QED
        BY <4>1, <4>2, <4>3
    <3>5. CASE ~(x = w /\ t = task)
      <4>1. x = w => t \in BagToSet(tasks[w] (-) SetToBag({task}))
        BY <1>0, <3>2, <3>5, OtherTasksStay DEF TypeOK
      <4> HIDE DEF rest
      <4>2. t \in BagToSet(tasks'[x])
        BY <1>0, <3>2, <3>3, <4>1 DEF TypeOK, BagToSet, (+)
      <4> QED
        BY <3>2, <4>2
    <3> QED
      BY <3>4, <3>5
  <2> QED
    BY <2>2, <2>3 DEF RequestsAreExact
<1> QED
  BY <1>1, <1>2, <1>3

LEMMA TimerStepIsExact == IInv /\ RequestsAreExact /\ TimerStep => RequestsAreExact'
<1> SUFFICES ASSUME IInv, RequestsAreExact, TimerStep PROVE RequestsAreExact'
  OBVIOUS
<1>1. ASSUME NEW old \in SUBSET RequestsOf(BtPeers), RefillUpkeep(old)
      PROVE  RequestsAreExact'
  <2>1. old \in SUBSET (Blocks \X AllPeers)
    BY DEF RequestsOf, AllPeers
  <2> QED
    BY <1>1, <2>1, DeclineIsExact DEF RefillUpkeep
<1>2. CASE CompletenessCheck
  BY <1>2 DEF CompletenessCheck, tables, RequestsAreExact, CountBounded, NoRequestForOwnedBlock,
    WebseedRequestsAreServed, AtMostTwoRequests, RequestsOf, Requesters
<1> QED
  BY <1>1, <1>2 DEF TimerStep

LEMMA UserStepIsExact == IInv /\ RequestsAreExact /\ UserStep => RequestsAreExact'
<1> SUFFICES ASSUME IInv, RequestsAreExact, UserStep PROVE RequestsAreExact'
  OBVIOUS
<1>0. /\ TypeOK /\ CountBounded /\ NoRequestForOwnedBlock
      /\ WebseedRequestsAreServed /\ AtMostTwoRequests
  BY DEF IInv, RequestsAreExact
<1>1. CASE Start
  BY <1>0, <1>1 DEF Start, tables, RequestsAreExact, CountBounded, NoRequestForOwnedBlock,
    WebseedRequestsAreServed, AtMostTwoRequests, RequestsOf, Requesters
<1>2. CASE Stop
  <2>1. RequestsOf(BtPeers) \in SUBSET (Blocks \X AllPeers)
    BY RequestsOfType DEF AllPeers
  <2> QED
    BY <1>2, <2>1, DeclineIsExact DEF Stop
<1>3. ASSUME NEW skip, pieces' = pieceListRebuild(skip), UNCHANGED <<have, requests, tasks>>
      PROVE  RequestsAreExact'
  <2>1. CountBounded'
    BY <1>0, <1>3, RebuildIsBounded DEF CountBounded, RequestsIn, RequestsOf
  <2> QED
    BY <1>0, <1>3, <2>1 DEF RequestsAreExact, NoRequestForOwnedBlock,
      WebseedRequestsAreServed, AtMostTwoRequests, Requesters
<1>4. CASE SetFilePriorities
  BY <1>3, <1>4 DEF SetFilePriorities
<1>5. ASSUME NEW F \in SUBSET Pieces, NEW doDownload \in BOOLEAN, SetFileDLs(F, doDownload)
      PROVE  RequestsAreExact'
  BY <1>3, <1>5 DEF SetFileDLs
<1> QED
  BY <1>1, <1>2, <1>4, <1>5 DEF UserStep

\* A verification finds blocks only while no BitTorrent peer is connected.
LEMMA VerifyStepIsExact == IInv /\ RequestsAreExact /\ VerifyStep => RequestsAreExact'
<1> SUFFICES ASSUME IInv, RequestsAreExact, VerifyStep PROVE RequestsAreExact'
  OBVIOUS
<1>0. /\ TypeOK /\ NoRequestOfDeadPeer /\ CountBounded /\ NoRequestForOwnedBlock
      /\ WebseedRequestsAreServed /\ AtMostTwoRequests
  BY DEF IInv, RequestsAreExact
<1>1. UNCHANGED <<requests, pieces, tasks>>
  BY DEF VerifyStep, VerifyPiece, RecheckDone, tables
<1>2. NoRequestForOwnedBlock'
  <2>1. ~isRunning
    BY DEF VerifyStep, VerifyPiece, RecheckDone
  <2>2. \A p \in BtPeers : requests[p] = {}
    BY <1>0, <2>1 DEF NoRequestOfDeadPeer
  <2> QED
    BY <1>1, <2>2 DEF NoRequestForOwnedBlock
<1> QED
  BY <1>0, <1>1, <1>2 DEF RequestsAreExact, CountBounded, WebseedRequestsAreServed,
    AtMostTwoRequests, RequestsOf, Requesters

\* Torrent::requests agrees with the counts of the piece list, with the blocks that we have and
\* with the transfers of the webseeds, and asks nobody twice: for any number of peers, webseeds,
\* blocks and pieces, and any runs that a webseed is asked for.
THEOREM ListIsExact == Spec => []RequestsAreExact
<1>1. Init => RequestsAreExact
  <2> SUFFICES ASSUME Init PROVE RequestsAreExact
    OBVIOUS
  <2>1. \A b \in Blocks : Requesters(b) = {}
    BY DEF Init, Requesters
  <2>2. AtMostTwoRequests
    BY <2>1, FS_EmptySet DEF AtMostTwoRequests
  <2> QED
    BY <2>2 DEF Init, RequestsAreExact, CountBounded, NoRequestForOwnedBlock,
      WebseedRequestsAreServed, AllPeers
<1>2. IInv /\ RequestsAreExact /\ [Next]_vars => RequestsAreExact'
  <2>1. IInv /\ RequestsAreExact /\ UNCHANGED vars => RequestsAreExact'
    BY DEF vars, RequestsAreExact, CountBounded, NoRequestForOwnedBlock,
      WebseedRequestsAreServed, AtMostTwoRequests, RequestsOf, Requesters
  <2> QED
    BY <2>1, PeerStepIsExact, WebseedStepIsExact, TimerStepIsExact, UserStepIsExact,
      VerifyStepIsExact DEF Next
<1> QED
  BY <1>1, <1>2, Invariance, PTL DEF Spec

-----------------------------------------------------------------------------
(* No wanted piece is forgotten. *)

\* What a step may do to the list of pieces that are wanted.
Listed ==
  have \subseteq have' \/ isRunning =>
    LET unlisted == WantedPieces(dnd) \ DOMAIN pieces IN
    DOMAIN pieces' # {} /\ ~isSeed' => WantedPieces(dnd)' \ DOMAIN pieces' \subseteq unlisted

\* Pieces that are listed remain so, and those that were complete do too.
LEMMA SameList ==
  ASSUME DOMAIN pieces' = DOMAIN pieces, dnd' = dnd, have \subseteq have'
  PROVE  Listed
BY DEF Listed, WantedPieces, PieceIsComplete

\* A list that is made anew has all that is wanted.
LEMMA NewList ==
  ASSUME ~isSeed' => DOMAIN pieces' = WantedPieces(dnd)'
  PROVE  Listed
BY DEF Listed

LEMMA RequestsKeepList ==
  ASSUME NEW p, NEW want, GetNextRequests(p, want), ~isSeed, UNCHANGED <<have, dnd>>
  PROVE  Listed
<1> DEFINE list == IF DOMAIN pieces = {} THEN pieceListRebuild(dnd) ELSE pieces
<1>1. DOMAIN pieces' = DOMAIN list
  BY DEF GetNextRequests
<1>2. CASE DOMAIN pieces = {}
  <2>1. DOMAIN list = WantedPieces(dnd)
    BY <1>2 DEF pieceListRebuild
  <2>2. WantedPieces(dnd)' = WantedPieces(dnd)
    BY DEF WantedPieces, PieceIsComplete
  <2> QED
    BY <1>1, <2>1, <2>2, NewList
<1>3. CASE DOMAIN pieces # {}
  BY <1>1, <1>3, SameList
<1> QED
  BY <1>2, <1>3

\* A piece leaves the list when its last block arrives; if it is bad it was not complete before.
LEMMA GotBlockKeepsList ==
  ASSUME NEW p, NEW b \in Blocks, NEW ok \in BOOLEAN, GotBlock(p, b, ok), UNCHANGED dnd
  PROVE  Listed
<1> DEFINE i == PieceOf(b)
           completes == b \notin have /\ BlocksOf(i) \subseteq have \cup {b}
<1>1. /\ DOMAIN pieces' = DOMAIN pieces \ (IF completes /\ ok THEN {i} ELSE {})
      /\ have' = IF completes /\ ~ok THEN have \ BlocksOf(i) ELSE have \cup {b}
  BY DEF GotBlock
<1>2. CASE completes /\ ok
  <2>1. have' = have \cup {b} /\ DOMAIN pieces' = DOMAIN pieces \ {i}
    BY <1>1, <1>2
  <2>2. i \notin WantedPieces(dnd)' /\ WantedPieces(dnd)' \subseteq WantedPieces(dnd)
    BY <1>2, <2>1 DEF WantedPieces, PieceIsComplete
  <2> QED
    BY <2>1, <2>2 DEF Listed
<1>3. CASE completes /\ ~ok
  <2>1. have' = have \ BlocksOf(i) /\ DOMAIN pieces' = DOMAIN pieces
    BY <1>1, <1>3
  <2>2. b \in BlocksOf(i)
    BY DEF BlocksOf
  <2>3. ASSUME NEW j \in WantedPieces(dnd)'
        PROVE  j \in WantedPieces(dnd)
    <3>1. j \in Pieces \ dnd /\ ~(BlocksOf(j) \subseteq have')
      BY <2>3 DEF WantedPieces, PieceIsComplete
    <3>2. CASE j = i
      BY <1>3, <2>2, <3>1, <3>2 DEF WantedPieces, PieceIsComplete
    <3>3. CASE j # i
      <4>1. BlocksOf(j) \cap BlocksOf(i) = {}
        BY <3>3 DEF BlocksOf
      <4> QED
        BY <2>1, <3>1, <4>1 DEF WantedPieces, PieceIsComplete
    <3> QED
      BY <3>2, <3>3
  <2> QED
    BY <2>1, <2>3 DEF Listed
<1>4. CASE ~completes
  BY <1>1, <1>4, SameList
<1> QED
  BY <1>2, <1>3, <1>4

LEMMA StepKeepsList == Next => Listed
<1> SUFFICES ASSUME Next PROVE Listed
  OBVIOUS
<1>1. ASSUME NEW R, removeRequestFromTables(R), UNCHANGED <<have, dnd>>
      PROVE  Listed
  BY <1>1, SameList DEF removeRequestFromTables
<1>2. ASSUME NEW p \in BtPeers, Connect(p) \/ Disconnect(p) \/ PeerChokes(p)
      PROVE  Listed
  BY <1>1, <1>2, SameList DEF Connect, Disconnect, PeerChokes
<1>3. ASSUME NEW p \in BtPeers, NEW b \in Blocks, PeerRejects(p, b)
      PROVE  Listed
  BY <1>1, <1>3 DEF PeerRejects
<1>4. ASSUME NEW p \in BtPeers, RequestBlocks(p)
      PROVE  Listed
  BY <1>4, RequestsKeepList DEF RequestBlocks
<1>5. ASSUME NEW p \in BtPeers, NEW b \in Blocks, NEW ok \in BOOLEAN, PeerSendsBlock(p, b, ok)
      PROVE  Listed
  BY <1>5, GotBlockKeepsList DEF PeerSendsBlock
<1>6. ASSUME NEW w \in Webseeds, WebseedIdle(w)
      PROVE  Listed
  <2>1. PICK want : GetNextRequests(w, want)
    BY <1>6 DEF WebseedIdle
  <2> QED
    BY <1>6, <2>1, RequestsKeepList DEF WebseedIdle
<1>7. ASSUME NEW w \in Webseeds, NEW task \in Tasks, WebseedFails(w, task)
      PROVE  Listed
  BY <1>1, <1>7 DEF WebseedFails
<1>8. ASSUME NEW w \in Webseeds, NEW task \in Tasks, NEW ok \in BOOLEAN, WebseedSendsBlock(w, task, ok)
      PROVE  Listed
  <2> DEFINE b == task[1]
  <2>1. b \in Blocks
    BY DEF Tasks
  <2>2. GotBlock(w, b, ok) /\ UNCHANGED dnd
    BY <1>8 DEF WebseedSendsBlock
  <2> HIDE DEF b
  <2> QED
    BY <2>1, <2>2, GotBlockKeepsList
<1>9. CASE TimerStep
  BY <1>1, <1>9, SameList DEF TimerStep, RefillUpkeep, CompletenessCheck, tables
<1>10. CASE Start \/ Stop
  BY <1>1, <1>10, SameList DEF Start, Stop, tables
<1>11. ASSUME NEW F \in SUBSET Pieces, NEW doDownload \in BOOLEAN,
              SetFilePriorities \/ SetFileDLs(F, doDownload)
       PROVE  Listed
  <2>1. pieces' = pieceListRebuild(dnd') /\ UNCHANGED <<have, isSeed>>
    BY <1>11 DEF SetFilePriorities, SetFileDLs
  <2>2. WantedPieces(dnd)' = WantedPieces(dnd')
    BY <2>1 DEF WantedPieces, PieceIsComplete
  <2>3. ~isSeed => DOMAIN pieceListRebuild(dnd') = WantedPieces(dnd')
    BY DEF pieceListRebuild
  <2> QED
    BY <2>1, <2>2, <2>3, NewList
<1>12. ASSUME NEW i \in Pieces, NEW hasPiece \in BOOLEAN, VerifyPiece(i, hasPiece)
       PROVE  Listed
  <2>1. CASE hasPiece
    BY <1>12, <2>1, SameList DEF VerifyPiece, tables
  <2>2. CASE ~hasPiece
    <3>1. ~isRunning /\ BlocksOf(i) \subseteq have /\ have' = have \ BlocksOf(i)
      BY <1>12, <2>2 DEF VerifyPiece, PieceIsComplete
    <3>2. BlocksOf(i) # {}
      BY DEF Pieces, BlocksOf
    <3> QED
      BY <3>1, <3>2 DEF Listed
  <2> QED
    BY <2>1, <2>2
<1>13. CASE RecheckDone
  BY <1>13, SameList DEF RecheckDone, tables
<1> QED
  BY <1>2, <1>3, <1>4, <1>5, <1>6, <1>7, <1>8, <1>9, <1>10, <1>11, <1>12, <1>13
  DEF Next, PeerStep, WebseedStep, UserStep, VerifyStep

\* Whatever arrives, fails its hash, is declined, stops or is selected, the list "of pieces
\* that we want to request" has every wanted piece that it had, or is to be rebuilt.
THEOREM NothingWantedIsForgotten == Spec => WantedPiecesStayListed
<1>1. [Next]_vars => [Listed]_vars
  BY StepKeepsList
<1>2. WantedPiecesStayListed <=> [][Listed]_vars
  BY PTL DEF WantedPiecesStayListed, Listed
<1> QED
  BY <1>1, <1>2, PTL DEF Spec
=============================================================================
