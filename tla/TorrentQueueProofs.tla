-------------------------- MODULE TorrentQueueProofs --------------------------
(***************************************************************************)
(* Proofs about TorrentQueue, for any number of torrents.                  *)
(*                                                                         *)
(* queueIsSequenced says that the positions fill 0 .. n-1, which is awkward *)
(* to carry through a shift; Numbering says the same by the pigeonhole     *)
(* principle, that no position is out of range and none is taken twice.    *)
(*                                                                         *)
(* MovesAreExact is about the end of a batch.  MoveInv says how far it has *)
(* come after each of its moves, as if the batch were of the torrents that *)
(* were moved alone; a step past a neighbour is then one past a torrent    *)
(* that was not moved, unless the batch has the two outermost ones.        *)
(***************************************************************************)
EXTENDS TorrentQueue, SequenceLemmas

Numbering(p, S) ==
  /\ p \in [S -> 0 .. Cardinality(S) - 1]
  /\ \A u, v \in S : p[u] = p[v] => u = v

\* A set of torrents is finite.
LEMMA SessionFinite ==
  ASSUME NEW S \in SUBSET Torrents
  PROVE  IsFiniteSet(S) /\ Cardinality(S) \in Nat /\ Cardinality(S) <= Cardinality(Torrents)
BY QueueAssumption, FS_Subset, FS_CardinalityType

\* The two ways to say that the positions number the torrents.
LEMMA NumberingIsSequence ==
  ASSUME NEW S \in SUBSET Torrents, NEW p
  PROVE  Numbering(p, S) <=> /\ p \in [S -> Int]
                             /\ {p[t] : t \in S} = 0 .. Cardinality(S) - 1
<1> DEFINE N == 0 .. Cardinality(S) - 1
<1>1. /\ IsFiniteSet(S) /\ Cardinality(S) \in Nat
      /\ IsFiniteSet(N) /\ Cardinality(N) = Cardinality(S)
  <2>1. IsFiniteSet(S) /\ Cardinality(S) \in Nat
    BY SessionFinite
  <2>2. IsFiniteSet(N) /\ Cardinality(N) = IF 0 > Cardinality(S) - 1 THEN 0 ELSE Cardinality(S) - 1 - 0 + 1
    BY <2>1, FS_Interval
  <2> QED
    BY <2>1, <2>2
<1>2. ASSUME Numbering(p, S)
      PROVE  p \in [S -> Int] /\ {p[t] : t \in S} = N
  <2>1. p \in Injection(S, N)
    BY <1>2 DEF Numbering, Injection, IsInjective
  <2>2. p \in Surjection(S, N)
    BY <1>1, <2>1, FS_Injection
  <2>3. N \subseteq Int
    BY <1>1
  <2> QED
    BY <2>1, <2>2, <2>3 DEF Surjection, Injection
<1>3. ASSUME p \in [S -> Int], {p[t] : t \in S} = N
      PROVE  Numbering(p, S)
  <2>1. p \in Surjection(S, N)
    BY <1>3 DEF Surjection
  <2>2. p \in Injection(S, N)
    BY <1>1, <2>1, FS_SurjSameCardinalityImpliesInj
  <2> QED
    BY <2>2 DEF Numbering, Injection, IsInjective
<1> QED
  BY <1>2, <1>3

-----------------------------------------------------------------------------
(* tr_torrentSetQueuePosition. *)

\* The shift keeps the order of the other positions, and leaves the new one free.
LEMMA ShiftKeepsOrder ==
  ASSUME NEW old \in Int, NEW pos \in Int, NEW q \in Int, NEW r \in Int, q # old, r # old
  PROVE  /\ Shift(q, old, pos) \in Int
         /\ q < r <=> Shift(q, old, pos) < Shift(r, old, pos)
         /\ Shift(q, old, pos) # pos
         /\ Shift(q, old, pos) <= q \/ Shift(q, old, pos) <= old
         /\ 0 <= q /\ 0 <= old /\ 0 <= pos => 0 <= Shift(q, old, pos)
BY SMTT(30) DEF Shift

\* The last shifted position exists: it is that of the last torrent, or of the last but
\* one if the last one is the torrent that is moved.
LEMMA BackIsLast ==
  ASSUME NEW S \in SUBSET Torrents, NEW p, Numbering(p, S), NEW t \in S, NEW pos \in Nat
  PROVE  /\ Back(p, t, pos) \in {-1} \cup {Shift(p[u], p[t], pos) : u \in S \ {t}}
         /\ \A u \in S \ {t} : Shift(p[u], p[t], pos) <= Back(p, t, pos)
         /\ -1 <= Back(p, t, pos)
<1> DEFINE n == Cardinality(S)
           shifted == {-1} \cup {Shift(p[u], p[t], pos) : u \in S \ {t}}
<1>1. n \in Nat /\ p \in [S -> 0 .. n - 1] /\ DOMAIN p = S
  BY SessionFinite DEF Numbering
<1>2. \A q \in 0 .. n - 1 : \E u \in S : p[u] = q
  <2>1. {p[u] : u \in S} = 0 .. n - 1
    BY NumberingIsSequence
  <2> QED
    BY <2>1
<1>3. \E b \in shifted : \A c \in shifted : c <= b
  <2>1. CASE n = 1
    <3>1. p[t] = 0 /\ \A u \in S : p[u] = 0
      BY <1>1, <2>1
    <3>2. S \ {t} = {}
      BY <3>1 DEF Numbering
    <3> QED
      BY <3>2
  <2>2. CASE n # 1 /\ p[t] = n - 1
    <3>1. n - 2 \in 0 .. n - 1 /\ n - 2 # p[t]
      BY <1>1, <2>2
    <3>2. PICK u \in S \ {t} : p[u] = n - 2
      BY <1>2, <3>1
    <3>3. \A v \in S \ {t} : p[v] \in 0 .. n - 2
      BY <1>1, <2>2 DEF Numbering
    <3>4. \A c \in shifted : c <= Shift(p[u], p[t], pos)
      BY <1>1, <2>2, <3>2, <3>3 DEF Shift
    <3> QED
      BY <3>2, <3>4
  <2>3. CASE n # 1 /\ p[t] # n - 1
    <3>1. n - 1 \in 0 .. n - 1
      BY <1>1
    <3>2. PICK u \in S \ {t} : p[u] = n - 1
      BY <1>2, <3>1, <2>3
    <3>3. \A c \in shifted : c <= Shift(p[u], p[t], pos)
      BY <1>1, <2>3, <3>2 DEF Shift
    <3> QED
      BY <3>2, <3>3
  <2> QED
    BY <2>1, <2>2, <2>3
<1>4. Back(p, t, pos) \in shifted /\ \A c \in shifted : c <= Back(p, t, pos)
  BY <1>1, <1>3 DEF Back
<1> QED
  BY <1>4

\* Moving a torrent gives a numbering again, and the others keep their order.
LEMMA MoveKeepsNumbering ==
  ASSUME NEW S \in SUBSET Torrents, NEW p, Numbering(p, S), NEW t \in S, NEW pos \in Int
  PROVE  LET q == tr_torrentSetQueuePosition(p, t, pos)
         IN  /\ Numbering(q, S)
             /\ \A u, v \in S \ {t} : p[u] < p[v] <=> q[u] < q[v]
<1> DEFINE n    == Cardinality(S)
           new  == IF pos < 0 THEN 0 ELSE pos
           back == Back(p, t, new)
           q    == tr_torrentSetQueuePosition(p, t, pos)
<1>1. /\ n \in Nat /\ p \in [S -> 0 .. n - 1] /\ DOMAIN p = S /\ new \in Nat
      /\ \A u, v \in S : p[u] = p[v] => u = v
  BY SessionFinite DEF Numbering
<1>2. /\ back \in {-1} \cup {Shift(p[u], p[t], new) : u \in S \ {t}}
      /\ \A u \in S \ {t} : Shift(p[u], p[t], new) <= back
      /\ -1 <= back
  BY <1>1, BackIsLast
<1>3. q = [u \in S |-> IF u = t THEN (IF new <= back + 1 THEN new ELSE back + 1)
                       ELSE Shift(p[u], p[t], new)]
  BY <1>1 DEF tr_torrentSetQueuePosition
<1>4. \A u \in S \ {t} : /\ p[u] \in 0 .. n - 1 /\ p[t] \in 0 .. n - 1
                         /\ p[u] \in Int /\ p[t] \in Int /\ p[u] # p[t]
  BY <1>1
<1> HIDE DEF n, new, back, q
<1>5. \A u, v \in S \ {t} : p[u] < p[v] <=> q[u] < q[v]
  <2> TAKE u, v \in S \ {t}
  <2>1. q[u] = Shift(p[u], p[t], new) /\ q[v] = Shift(p[v], p[t], new)
    BY <1>3
  <2>2. new \in Int
    BY <1>1
  <2>3. p[u] < p[v] <=> Shift(p[u], p[t], new) < Shift(p[v], p[t], new)
    BY <1>4, <2>2, ShiftKeepsOrder
  <2> QED
    BY <2>1, <2>3
<1>6. \A u \in S \ {t} : q[u] \in 0 .. n - 1
  <2> TAKE u \in S \ {t}
  <2>1. q[u] = Shift(p[u], p[t], new)
    BY <1>3
  <2>2. new \in Int /\ 0 <= new
    BY <1>1
  <2>3. /\ q[u] \in Int /\ 0 <= q[u]
        /\ q[u] <= p[u] \/ q[u] <= p[t]
    <3>1. p[u] \in Int /\ p[t] \in Int /\ p[u] # p[t] /\ 0 <= p[u] /\ 0 <= p[t]
      BY <1>1, <1>4
    <3> QED
      BY <2>1, <2>2, <3>1, ShiftKeepsOrder
  <2> QED
    BY <1>1, <1>4, <2>3
<1>7. back \in Int /\ back <= n - 1
  <2>1. CASE back = -1
    BY <1>1, <2>1
  <2>2. CASE back # -1
    <3>1. PICK u \in S \ {t} : back = q[u]
      BY <1>2, <1>3, <2>2
    <3> QED
      BY <1>1, <1>6, <3>1
  <2> QED
    BY <2>1, <2>2
<1>8. \A u \in S \ {t} : q[u] # q[t]
  <2> TAKE u \in S \ {t}
  <2>1. q[u] = Shift(p[u], p[t], new) /\ q[u] <= back /\ q[u] # new
    BY <1>1, <1>2, <1>3, <1>4, ShiftKeepsOrder
  <2>2. q[t] = IF new <= back + 1 THEN new ELSE back + 1
    BY <1>3
  <2> QED
    BY <1>1, <1>6, <1>7, <2>1, <2>2
<1>9. q[t] \in 0 .. n - 1
  <2>1. q[t] = IF new <= back + 1 THEN new ELSE back + 1
    BY <1>3
  <2>2. CASE back < n - 1
    BY <1>1, <1>2, <1>7, <2>1, <2>2
  <2>3. CASE back = n - 1
    <3>1. n > 0
      BY <1>1, <1>4
    <3>2. PICK u \in S \ {t} : Shift(p[u], p[t], new) = n - 1
      BY <1>1, <1>2, <2>3, <3>1
    <3>3. new <= n - 1
      BY <1>1, <1>4, <3>2 DEF Shift
    <3> QED
      BY <1>1, <1>2, <2>1, <2>3, <3>1, <3>3
  <2> QED
    BY <1>1, <1>7, <2>2, <2>3
<1>10. q \in [S -> 0 .. n - 1]
  BY <1>3, <1>6, <1>9
<1>11. \A u, v \in S : q[u] = q[v] => u = v
  <2>1. \A u, v \in S \ {t} : q[u] = q[v] => u = v
    <3> TAKE u, v \in S \ {t}
    <3>1. CASE p[u] < p[v] \/ p[v] < p[u]
      BY <1>1, <1>5, <1>6, <3>1
    <3>2. CASE p[u] = p[v]
      BY <1>1, <3>2
    <3> QED
      BY <1>1, <3>1, <3>2
  <2> QED
    BY <1>8, <2>1
<1> QED
  BY <1>5, <1>10, <1>11 DEF Numbering, n, q

-----------------------------------------------------------------------------
(* The steps. *)

\* A torrent that is added gets the next number, and nothing else changes.
LEMMA AddKeepsNumbering ==
  ASSUME Numbering(position, DOMAIN position), DOMAIN position \subseteq Torrents,
         NEW t \in Torrents, Add(t)
  PROVE  /\ DOMAIN position' = DOMAIN position \cup {t}
         /\ Numbering(position', DOMAIN position')
         /\ \A u, v \in DOMAIN position : position[u] < position[v] <=> position'[u] < position'[v]
<1> DEFINE S == DOMAIN position
           n == Cardinality(S)
<1>1. /\ n \in Nat /\ position \in [S -> 0 .. n - 1]
      /\ \A u, v \in S : position[u] = position[v] => u = v
  BY SessionFinite DEF Numbering
<1>2. /\ t \notin S
      /\ position' = [u \in S \cup {t} |-> IF u = t THEN n ELSE position[u]]
  BY DEF Add
<1>3. DOMAIN position' = S \cup {t}
  BY <1>2
<1>4. Cardinality(S \cup {t}) = n + 1
  BY <1>2, FS_AddElement, SessionFinite
<1>5. position' \in [S \cup {t} -> 0 .. n]
  BY <1>1, <1>2
<1>6. \A u, v \in S \cup {t} : position'[u] = position'[v] => u = v
  BY <1>1, <1>2
<1>7. \A u, v \in S : position[u] < position[v] <=> position'[u] < position'[v]
  BY <1>1, <1>2
<1> QED
  BY <1>1, <1>3, <1>4, <1>5, <1>6, <1>7 DEF Numbering

\* The torrents behind one that is freed close up.
LEMMA FreeKeepsNumbering ==
  ASSUME Numbering(position, DOMAIN position), DOMAIN position \subseteq Torrents,
         NEW t \in Torrents, Free(t)
  PROVE  /\ DOMAIN position' = DOMAIN position \ {t}
         /\ Numbering(position', DOMAIN position')
         /\ \A u, v \in DOMAIN position \ {t} :
              position[u] < position[v] <=> position'[u] < position'[v]
<1> DEFINE S == DOMAIN position
           n == Cardinality(S)
<1>1. /\ n \in Nat /\ position \in [S -> 0 .. n - 1]
      /\ \A u, v \in S : position[u] = position[v] => u = v
  BY SessionFinite DEF Numbering
<1>2. /\ t \in S
      /\ position' = [u \in S \ {t} |->
                        IF position[u] > position[t] THEN position[u] - 1 ELSE position[u]]
  BY DEF Free
<1>3. DOMAIN position' = S \ {t}
  BY <1>2
<1>4. Cardinality(S \ {t}) = n - 1
  BY <1>2, FS_RemoveElement, SessionFinite
<1>5. position' \in [S \ {t} -> 0 .. n - 2]
  BY <1>1, <1>2
<1>6. \A u, v \in S \ {t} : position'[u] = position'[v] => u = v
  BY <1>1, <1>2
<1>7. \A u, v \in S \ {t} : position[u] < position[v] <=> position'[u] < position'[v]
  BY <1>1, <1>2
<1> QED
  BY <1>1, <1>3, <1>4, <1>5, <1>6, <1>7 DEF Numbering

\* A sequence over a set is one over a larger set.
LEMMA SeqOfMore ==
  ASSUME NEW S, NEW T, S \subseteq T, NEW q \in Seq(S)
  PROVE  q \in Seq(T)
<1>1. Len(q) \in Nat /\ q \in [1 .. Len(q) -> T]
  OBVIOUS
<1> QED
  BY <1>1

\* The inductive invariant.
IInv ==
  /\ DOMAIN position \subseteq Torrents
  /\ Numbering(position, DOMAIN position)
  /\ batch \in Seq(DOMAIN position)
  /\ batch # <<>> => move.kind \in Kinds

\* What a step does to the positions, and what it leaves of a batch.
LEMMA StepKeepsNumbering ==
  ASSUME IInv, Next
  PROVE  /\ IInv'
         /\ \E t \in Torrents :
              \A u, v \in (DOMAIN position \cap DOMAIN position') \ {t} :
                position[u] < position[v] <=> position'[u] < position'[v]
<1> USE DEF IInv
<1>0. \A t \in DOMAIN position, pos \in Int :
        LET q == tr_torrentSetQueuePosition(position, t, pos)
        IN  /\ DOMAIN q = DOMAIN position /\ Numbering(q, DOMAIN position)
            /\ \A u, v \in DOMAIN position \ {t} : position[u] < position[v] <=> q[u] < q[v]
  <2> TAKE t \in DOMAIN position, pos \in Int
  <2> DEFINE q == tr_torrentSetQueuePosition(position, t, pos)
  <2>1. DOMAIN q = DOMAIN position
    BY DEF tr_torrentSetQueuePosition
  <2>2. /\ Numbering(q, DOMAIN position)
        /\ \A u, v \in DOMAIN position \ {t} : position[u] < position[v] <=> q[u] < q[v]
    BY MoveKeepsNumbering
  <2> QED
    BY <2>1, <2>2
<1>1. CASE \E t \in Torrents : Add(t)
  <2>1. PICK t \in Torrents : Add(t)
    BY <1>1
  <2>2. batch' = batch /\ move' = move
    BY <2>1 DEF Add
  <2>3. batch' \in Seq(DOMAIN position')
    <3>1. DOMAIN position \subseteq DOMAIN position'
      BY <2>1, AddKeepsNumbering
    <3> QED
      BY <2>2, <3>1, SeqOfMore
  <2>4. /\ DOMAIN position' = DOMAIN position \cup {t}
        /\ Numbering(position', DOMAIN position')
        /\ \A u, v \in DOMAIN position : position[u] < position[v] <=> position'[u] < position'[v]
    BY <2>1, AddKeepsNumbering
  <2> QED
    BY <2>2, <2>3, <2>4
<1>2. CASE \E t \in Torrents : Free(t)
  <2>1. PICK t \in Torrents : Free(t)
    BY <1>2
  <2>2. batch' = <<>> /\ batch' \in Seq(DOMAIN position')
    BY <2>1 DEF Free
  <2>3. /\ DOMAIN position' = DOMAIN position \ {t}
        /\ Numbering(position', DOMAIN position')
        /\ \A u, v \in DOMAIN position \ {t} : position[u] < position[v] <=> position'[u] < position'[v]
    BY <2>1, FreeKeepsNumbering
  <2> QED
    BY <2>2, <2>3
<1>3. CASE \E t \in Torrents, pos \in -MaxPosition .. MaxPosition : SetPosition(t, pos)
  <2>1. PICK t \in Torrents, pos \in -MaxPosition .. MaxPosition : SetPosition(t, pos)
    BY <1>3
  <2>2. /\ t \in DOMAIN position /\ pos \in Int /\ batch' = <<>>
        /\ position' = tr_torrentSetQueuePosition(position, t, pos)
    BY <2>1, QueueAssumption DEF SetPosition
  <2>3. /\ DOMAIN position' = DOMAIN position
        /\ Numbering(position', DOMAIN position')
        /\ \A u, v \in DOMAIN position \ {t} : position[u] < position[v] <=> position'[u] < position'[v]
    BY <1>0, <2>2
  <2>4. batch' \in Seq(DOMAIN position')
    BY <2>2
  <2> QED
    BY <2>2, <2>3, <2>4
<1>4. CASE \E kind \in Kinds, of \in SUBSET DOMAIN position : BeginMove(kind, of)
  <2>1. PICK kind \in Kinds, of \in SUBSET DOMAIN position : BeginMove(kind, of)
    BY <1>4
  <2>2. position' = position /\ move'.kind = kind
    BY <2>1 DEF BeginMove
  <2>3. PICK q \in Sorted(of) : batch' = IF kind \in {"top", "down"} THEN Reverse(q) ELSE q
    BY <2>1 DEF BeginMove
  <2>4. Cardinality(of) \in Nat
    BY SessionFinite
  <2>5. q \in [1 .. Cardinality(of) -> of]
    BY <2>3 DEF Sorted, SetToSeqs
  <2>6. q \in Seq(of) /\ Len(q) = Cardinality(of)
    BY <2>4, <2>5
  <2>7. Reverse(q) \in Seq(of)
    BY <2>4, <2>5, <2>6 DEF Reverse
  <2>8. batch' \in Seq(DOMAIN position)
    BY <2>3, <2>6, <2>7
  <2>9. \E t \in Torrents : TRUE
    BY QueueAssumption
  <2> QED
    BY <2>2, <2>8, <2>9
<1>5. CASE MoveNext
  <2> DEFINE t == Head(batch)
  <2>1. t \in DOMAIN position /\ batch' = Tail(batch) /\ move' = move /\ batch' \in Seq(DOMAIN position)
    BY <1>5 DEF MoveNext
  <2>2. PICK pos \in Int : position' = tr_torrentSetQueuePosition(position, t, pos)
    <3>1. position[t] \in Int
      BY <2>1, SessionFinite DEF Numbering
    <3>2. move.kind \in {"top", "up", "down", "bottom"} /\ IntMax \in Int
      BY <1>5, QueueAssumption DEF MoveNext, Kinds
    <3>3. CASE move.kind = "top"
      BY <1>5, <3>3 DEF MoveNext
    <3>4. CASE move.kind = "up"
      BY <1>5, <3>1, <3>4 DEF MoveNext
    <3>5. CASE move.kind = "down"
      BY <1>5, <3>1, <3>5 DEF MoveNext
    <3>6. CASE move.kind = "bottom"
      BY <1>5, <3>2, <3>6 DEF MoveNext
    <3> QED
      BY <3>2, <3>3, <3>4, <3>5, <3>6
  <2>3. DOMAIN position' = DOMAIN position
    BY <1>0, <2>1, <2>2
  <2>4. batch # <<>>
    BY <1>5 DEF MoveNext
  <2> QED
    BY <1>0, <2>1, <2>2, <2>3, <2>4
<1> QED
  BY <1>1, <1>2, <1>3, <1>4, <1>5 DEF Next

\* The inductive invariant holds in every state.
THEOREM Invariance == Spec => []IInv
<1>1. Init => IInv
  <2> SUFFICES ASSUME Init PROVE IInv
    OBVIOUS
  <2>1. position = <<>> /\ DOMAIN position = {} /\ batch = <<>>
    BY DEF Init
  <2> QED
    BY <2>1 DEF IInv, Numbering
<1>2. IInv /\ [Next]_vars => IInv'
  <2>1. CASE Next
    BY <2>1, StepKeepsNumbering
  <2>2. CASE UNCHANGED vars
    BY <2>2 DEF vars, IInv, Numbering
  <2> QED
    BY <2>1, <2>2
<1> QED
  BY <1>1, <1>2, PTL DEF Spec

\* The positions always number the torrents of the session (the assertions of torrent.c).
THEOREM QueueIsSequenced == Spec => []queueIsSequenced
<1>1. IInv => queueIsSequenced
  BY NumberingIsSequence DEF IInv, queueIsSequenced
<1> QED
  BY <1>1, Invariance, PTL

\* The positions stay in range and batches hold torrents of the session.
THEOREM TypeCorrect == Spec => []TypeOK
<1>1. IInv => TypeOK
  <2> SUFFICES ASSUME IInv PROVE TypeOK
    OBVIOUS
  <2> DEFINE n == Cardinality(DOMAIN position)
  <2>1. n \in Nat /\ Cardinality(Torrents) \in Nat /\ n <= Cardinality(Torrents)
    BY SessionFinite DEF IInv
  <2>2. position \in [DOMAIN position -> 0 .. n - 1]
    BY DEF IInv, Numbering
  <2>3. position \in [DOMAIN position -> 0 .. Cardinality(Torrents) - 1]
    BY <2>1, <2>2
  <2> QED
    BY <2>3 DEF IInv, TypeOK
<1> QED
  BY <1>1, Invariance, PTL

\* No step moves two torrents among the others (tr_torrentSetQueuePosition, freeTorrent, torrentInit).
THEOREM OneMoves == Spec => AtMostOneMoves
<1>1. IInv /\ [Next]_vars =>
        [\E t \in Torrents :
           \A u, v \in (DOMAIN position \cap DOMAIN position') \ {t} :
             position[u] < position[v] <=> position'[u] < position'[v]]_vars
  BY StepKeepsNumbering
<1> QED
  BY <1>1, Invariance, PTL DEF Spec, AtMostOneMoves

-----------------------------------------------------------------------------
(* The batches. *)

\* ShouldPrecede, for a batch of kind k that found the positions B and has moved the torrents D.
Gap(B, u, v) == {w \in DOMAIN B : B[u] < B[w] /\ B[w] < B[v]}
Ahead(k, B, D, m, o) ==
  \/ k = "top"
  \/ k = "up" /\ (B[m] < B[o] \/ Gap(B, o, m) \subseteq D)
  \/ k = "down" /\ B[m] < B[o] /\ ~(Gap(B, m, o) \subseteq D)
Precedes(k, B, D, u, v) ==
  \/ (u \in D <=> v \in D) /\ B[u] < B[v]
  \/ u \in D /\ v \notin D /\ Ahead(k, B, D, u, v)
  \/ u \notin D /\ v \in D /\ ~Ahead(k, B, D, v, u)

\* The torrent x of a batch is moved before y.
IsFirst(k, B, x, y) == IF k \in {"top", "down"} THEN B[y] < B[x] ELSE B[x] < B[y]

\* The case that MovesAreExact excepts.
HasBoth(B, M, i, j) == \E u, v \in M : B[u] = i /\ B[v] = j
Excepted(k, B, M) ==
  LET n == Cardinality(DOMAIN B) IN
  (k = "up" /\ HasBoth(B, M, 0, 1)) \/ (k = "down" /\ HasBoth(B, M, n - 2, n - 1))

Moved == {u \in move.of : \A i \in 1 .. Len(batch) : batch[i] # u}

\* As far as the batch has come: those that were moved are where the whole batch is to be, as if it
\* were of them alone; a torrent that was added meanwhile is behind those that were not moved yet.
MoveInv ==
  LET k == move.kind
      B == move.before
      S == DOMAIN B
      D == Moved
  IN
  /\ k \in Kinds \cup {"none"} /\ (k = "none" => S = {})
  /\ S \subseteq DOMAIN position /\ move.of \subseteq S /\ Numbering(B, S)
  /\ batch \in Seq(move.of)
  /\ \A i, j \in 1 .. Len(batch) : i < j => IsFirst(k, B, batch[i], batch[j])
  /\ \A d \in D, i \in 1 .. Len(batch) : IsFirst(k, B, d, batch[i])
  /\ \A u \in S \ D, x \in DOMAIN position \ S : position[u] < position[x]
  /\ Excepted(k, B, move.of) \/ \A u, v \in S : u # v => (position[u] < position[v] <=> Precedes(k, B, D, u, v))

\* Of two torrents one precedes the other.
LEMMA OnePrecedes ==
  ASSUME NEW k, NEW B, NEW D, NEW u \in DOMAIN B, NEW v \in DOMAIN B, B[u] \in Int, B[v] \in Int, B[u] # B[v]
  PROVE  Precedes(k, B, D, v, u) <=> ~Precedes(k, B, D, u, v)
BY DEF Precedes

\* Where the batch stands before it moves t: p are the positions.
Ready(k, B, M, D, t, P, p) ==
  LET S == DOMAIN B IN
  /\ S \subseteq P /\ M \subseteq S /\ D \subseteq M /\ t \in M \ D
  /\ Numbering(B, S) /\ Numbering(p, P)
  /\ \A d \in D : IsFirst(k, B, d, t)
  /\ \A m \in M \ (D \cup {t}) : IsFirst(k, B, t, m)
  /\ \A u \in S \ D, x \in P \ S : p[u] < p[x]
  /\ \A u, v \in S : u # v => (p[u] < p[v] <=> Precedes(k, B, D, u, v))

\* B and p are injections into numbers.
Counted(B, P, p) ==
  /\ Cardinality(DOMAIN B) \in Nat /\ Cardinality(P) \in Nat
  /\ \A u \in DOMAIN B : B[u] \in 0 .. Cardinality(DOMAIN B) - 1
  /\ \A u, v \in DOMAIN B : B[u] = B[v] => u = v
  /\ \A u \in P : p[u] \in 0 .. Cardinality(P) - 1
  /\ \A u, v \in P : p[u] = p[v] => u = v

\* Who is ready to move a torrent has numbered them.
LEMMA ReadySays ==
  ASSUME NEW k, NEW B, NEW M, NEW D, NEW t, NEW P \in SUBSET Torrents, NEW p, Ready(k, B, M, D, t, P, p)
  PROVE  Counted(B, P, p)
<1>1. DOMAIN B \in SUBSET Torrents
  BY DEF Ready
<1> QED
  BY <1>1, SessionFinite DEF Ready, Numbering, Counted

\* What moving t changes does not concern the others.
LEMMA OthersAsBefore ==
  ASSUME NEW k, NEW B, NEW M, NEW D, NEW t, NEW P \in SUBSET Torrents, NEW p, Ready(k, B, M, D, t, P, p),
         NEW u \in DOMAIN B \ {t}, NEW v \in DOMAIN B \ {t}
  PROVE  Precedes(k, B, D \cup {t}, u, v) <=> Precedes(k, B, D, u, v)
<1>1. \A x \in DOMAIN B : B[x] \in Int
  BY ReadySays DEF Counted
<1>2. ASSUME NEW m \in D, NEW o \in DOMAIN B
      PROVE  Ahead(k, B, D \cup {t}, m, o) <=> Ahead(k, B, D, m, o)
  <2>1. m \in DOMAIN B /\ t \in DOMAIN B /\ IsFirst(k, B, m, t)
    BY <1>2 DEF Ready
  <2>2. CASE k = "up"
    <3>1. t \notin Gap(B, o, m)
      BY <1>1, <2>1, <2>2 DEF Gap, IsFirst
    <3> QED
      BY <2>2, <3>1 DEF Ahead
  <2>3. CASE k = "down"
    <3>1. t \notin Gap(B, m, o)
      BY <1>1, <2>1, <2>3 DEF Gap, IsFirst
    <3> QED
      BY <2>3, <3>1 DEF Ahead
  <2> QED
    BY <2>2, <2>3 DEF Ahead
<1> QED
  BY <1>2 DEF Precedes

-----------------------------------------------------------------------------
\* To the front: all others are behind.
LEMMA FrontIsFirst ==
  ASSUME NEW k, k = "top", NEW B, NEW M, NEW D, NEW t, NEW P \in SUBSET Torrents, NEW p, Ready(k, B, M, D, t, P, p),
         NEW v \in DOMAIN B \ {t}
  PROVE  Precedes(k, B, D \cup {t}, t, v)
BY DEF Ready, IsFirst, Precedes, Ahead

\* To the back: no other is behind.
LEMMA BackIsBehind ==
  ASSUME NEW k, k = "bottom", NEW B, NEW M, NEW D, NEW t, NEW P \in SUBSET Torrents, NEW p, Ready(k, B, M, D, t, P, p),
         NEW v \in DOMAIN B \ {t}
  PROVE  ~Precedes(k, B, D \cup {t}, t, v)
<1>1. B[v] \in Int /\ B[t] \in Int
  <2>1. t \in DOMAIN B
    BY DEF Ready
  <2>2. Counted(B, P, p)
    BY ReadySays
  <2> QED
    BY <2>1, <2>2 DEF Counted
<1>2. v \in D => B[v] < B[t]
  BY DEF Ready, IsFirst
<1> QED
  BY <1>1, <1>2 DEF Precedes, Ahead

\* A step ahead: t changes places with w.
LEMMA StepAhead ==
  ASSUME NEW k, k = "up", NEW B, NEW M, NEW D, NEW t, NEW P \in SUBSET Torrents, NEW p, Ready(k, B, M, D, t, P, p),
         ~HasBoth(B, M, 0, 1), NEW w \in P, p[w] = p[t] - 1, NEW v \in DOMAIN B \ {t}
  PROVE  Precedes(k, B, D \cup {t}, t, v) <=> p[t] < p[v] \/ v = w
<1> DEFINE S == DOMAIN B
           n == Cardinality(S)
<1>1. /\ n \in Nat /\ \A u \in S : B[u] \in 0 .. n - 1
      /\ \A x, y \in S : B[x] = B[y] => x = y
      /\ \A u \in P : p[u] \in Int
      /\ \A x, y \in P : p[x] = p[y] => x = y
  <2>1. Counted(B, P, p)
    BY ReadySays
  <2> QED
    BY <2>1 DEF Counted
<1>2. /\ S \subseteq P /\ M \subseteq S /\ D \subseteq M /\ t \in M /\ t \notin D
      /\ \A d \in D : B[d] < B[t]
      /\ \A m \in M \ (D \cup {t}) : B[t] < B[m]
      /\ \A u \in S \ D, x \in P \ S : p[u] < p[x]
      /\ \A x, y \in S : x # y => (p[x] < p[y] <=> Precedes(k, B, D, x, y))
  BY DEF Ready, IsFirst
<1> HIDE DEF S, n
<1>3. w \in S
  BY <1>1, <1>2
<1>4. w \notin D
  <2> SUFFICES ASSUME w \in D PROVE FALSE
    OBVIOUS
  <2> DEFINE before == {B[u] : u \in {x \in S \ M : B[x] < B[t]}}
  <2>1. CASE before # {}
    <3>1. before \in SUBSET (0 .. n)
      BY <1>1
    <3> HIDE DEF before
    <3>2. PICK m \in before : \A i \in before : m >= i
      BY <1>1, <2>1, <3>1, GreatestNumber
    <3>3. PICK o \in S \ M : m = B[o] /\ B[o] < B[t]
      BY <3>2 DEF before
    <3>4. \A x \in S : B[o] < B[x] /\ B[x] < B[t] => x \in D
      <4> SUFFICES ASSUME NEW x \in S, B[o] < B[x], B[x] < B[t], x \notin M
                   PROVE  FALSE
        BY <1>1, <1>2
      <4>1. B[x] \in before
        BY DEF before
      <4> QED
        BY <1>1, <3>2, <3>3, <4>1
    <3>5. Gap(B, o, w) \subseteq D
      BY <1>1, <1>2, <1>3, <3>4 DEF Gap, S
    <3>6. p[w] < p[o]
      BY <1>2, <1>3, <3>3, <3>5 DEF Precedes, Ahead
    <3>7. p[o] < p[t]
      BY <1>2, <3>3 DEF Precedes
    <3> QED
      BY <1>1, <1>2, <1>3, <3>3, <3>6, <3>7
  <2>2. CASE before = {}
    <3>1. \A x \in S : B[x] < B[t] => x \in M
      BY <2>2
    <3>2. B[w] < B[t] /\ B[w] \in 0 .. n - 1 /\ B[t] \in 0 .. n - 1
      BY <1>1, <1>2
    <3>3. {B[x] : x \in S} = 0 .. n - 1
      <4>1. S \in SUBSET Torrents /\ Numbering(B, S)
        BY DEF Ready, S
      <4> QED
        BY <4>1, NumberingIsSequence DEF n
    <3>4. PICK x \in S : B[x] = 0
      <4>1. 0 \in 0 .. n - 1
        BY <1>1, <3>2
      <4> QED
        BY <3>3, <4>1
    <3>5. PICK y \in S : B[y] = 1
      <4>1. 1 \in 0 .. n - 1
        BY <1>1, <3>2
      <4> QED
        BY <3>3, <4>1
    <3>6. x \in M
      BY <3>1, <3>2, <3>4
    <3>7. y \in M
      BY <1>1, <1>2, <3>1, <3>2, <3>5
    <3> QED
      BY <3>4, <3>5, <3>6, <3>7 DEF HasBoth
  <2> QED
    BY <2>1, <2>2
<1>5. CASE v \in D
  <2>1. p[v] < p[t]
    BY <1>2, <1>5 DEF Precedes, Ahead, S
  <2>2. ~Precedes(k, B, D \cup {t}, t, v)
    BY <1>1, <1>2, <1>5 DEF Precedes
  <2> QED
    BY <1>1, <1>2, <1>4, <1>5, <2>1, <2>2
<1>6. CASE v \notin D /\ B[t] < B[v]
  BY <1>2, <1>6 DEF Precedes, Ahead, S
<1>7. CASE v \notin D /\ B[v] < B[t]
  <2>1. v \in S /\ p[v] < p[t]
    BY <1>2, <1>7 DEF Precedes, S
  <2>2. Precedes(k, B, D \cup {t}, t, v) <=> Gap(B, v, t) \subseteq D \cup {t}
    BY <1>1, <1>2, <1>7, <2>1 DEF Precedes, Ahead
  <2>3. ASSUME v = w, NEW z \in Gap(B, v, t), z \notin D
        PROVE  FALSE
    <3>1. z \in S /\ B[v] < B[z] /\ B[z] < B[t]
      BY <2>3 DEF Gap, S
    <3>2. z # v /\ z # t
      BY <1>1, <1>2, <2>1, <3>1
    <3>3. p[v] < p[z] /\ p[z] < p[t]
      BY <1>2, <1>7, <2>1, <2>3, <3>1, <3>2 DEF Precedes
    <3> QED
      BY <1>1, <1>2, <2>3, <3>1, <3>3
  <2>4. ASSUME v # w
        PROVE  w \in Gap(B, v, t) /\ w # t
    <3>1. p[v] < p[w] /\ p[w] < p[t]
      BY <1>1, <1>2, <1>3, <2>1, <2>4
    <3>2. Precedes(k, B, D, v, w) /\ Precedes(k, B, D, w, t)
      BY <1>1, <1>2, <1>3, <2>1, <3>1
    <3>3. B[v] < B[w] /\ B[w] < B[t]
      BY <1>2, <1>4, <1>7, <3>2 DEF Precedes
    <3> QED
      BY <1>1, <1>2, <1>3, <3>3 DEF Gap, S
  <2> QED
    BY <1>1, <1>2, <1>4, <2>1, <2>2, <2>3, <2>4
<1> QED
  BY <1>1, <1>2, <1>5, <1>6, <1>7 DEF S

\* A step back: t changes places with the torrent behind it.
LEMMA StepBack ==
  ASSUME NEW k, k = "down", NEW B, NEW M, NEW D, NEW t, NEW P \in SUBSET Torrents, NEW p, Ready(k, B, M, D, t, P, p),
         ~HasBoth(B, M, Cardinality(DOMAIN B) - 2, Cardinality(DOMAIN B) - 1), NEW v \in DOMAIN B \ {t}
  PROVE  Precedes(k, B, D \cup {t}, t, v) <=> p[t] + 1 < p[v]
<1> DEFINE S == DOMAIN B
           n == Cardinality(S)
<1>1. /\ n \in Nat /\ Cardinality(P) \in Nat /\ \A u \in S : B[u] \in 0 .. n - 1
      /\ \A x, y \in S : B[x] = B[y] => x = y
      /\ \A u \in P : p[u] \in Int
      /\ \A x, y \in P : p[x] = p[y] => x = y
  <2>1. Counted(B, P, p)
    BY ReadySays
  <2> QED
    BY <2>1 DEF Counted
<1>2. /\ S \subseteq P /\ M \subseteq S /\ D \subseteq M /\ t \in M /\ t \notin D
      /\ \A d \in D : B[t] < B[d]
      /\ \A m \in M \ (D \cup {t}) : B[m] < B[t]
      /\ \A u \in S \ D, x \in P \ S : p[u] < p[x]
      /\ \A x, y \in S : x # y => (p[x] < p[y] <=> Precedes(k, B, D, x, y))
  BY DEF Ready, IsFirst
<1>3. {B[x] : x \in S} = 0 .. n - 1
  <2>1. S \in SUBSET Torrents /\ Numbering(B, S)
    BY DEF Ready
  <2> QED
    BY <2>1, NumberingIsSequence
<1>4. {p[x] : x \in P} = 0 .. Cardinality(P) - 1
  <2>1. Numbering(p, P)
    BY DEF Ready
  <2> QED
    BY <2>1, NumberingIsSequence
<1>5. ~HasBoth(B, M, n - 2, n - 1)
  OBVIOUS
<1> HIDE DEF S, n
<1>6. ASSUME NEW w \in D, p[w] = p[t] + 1
      PROVE  FALSE
  <2> DEFINE behind == {B[u] : u \in {x \in S \ M : B[t] < B[x]}}
  <2>1. CASE behind # {}
    <3>1. behind \in SUBSET Nat
      BY <1>1
    <3> HIDE DEF behind
    <3>2. PICK m \in behind : \A i \in behind : m <= i
      BY <2>1, <3>1, LeastNumber
    <3>3. PICK o \in S \ M : m = B[o] /\ B[t] < B[o]
      BY <3>2 DEF behind
    <3>4. \A x \in S : B[t] < B[x] /\ B[x] < B[o] => x \in D
      <4> SUFFICES ASSUME NEW x \in S, B[t] < B[x], B[x] < B[o], x \notin M
                   PROVE  FALSE
        BY <1>1, <1>2
      <4>1. B[x] \in behind
        BY DEF behind
      <4> QED
        BY <1>1, <3>2, <3>3, <4>1
    <3>5. Gap(B, w, o) \subseteq D
      BY <1>1, <1>2, <1>6, <3>4 DEF Gap, S
    <3>6. p[o] < p[w]
      BY <1>2, <1>6, <3>3, <3>5 DEF Precedes, Ahead
    <3>7. p[t] < p[o]
      BY <1>2, <3>3 DEF Precedes
    <3> QED
      BY <1>1, <1>2, <1>6, <3>3, <3>6, <3>7
  <2>2. CASE behind = {}
    <3>1. \A x \in S : B[t] < B[x] => x \in M
      BY <2>2
    <3>2. B[t] < B[w] /\ B[w] \in 0 .. n - 1 /\ B[t] \in 0 .. n - 1
      BY <1>1, <1>2, <1>6
    <3>3. n - 1 \in 0 .. n - 1 /\ n - 2 \in 0 .. n - 1
      BY <1>1, <3>2
    <3>4. PICK x \in S : B[x] = n - 1
      BY <1>3, <3>3
    <3>5. PICK y \in S : B[y] = n - 2
      BY <1>3, <3>3
    <3>6. x \in M
      BY <1>1, <3>1, <3>2, <3>4
    <3>7. y \in M
      BY <1>1, <1>2, <3>1, <3>2, <3>5
    <3> QED
      BY <1>5, <3>4, <3>5, <3>6, <3>7 DEF HasBoth
  <2> QED
    BY <2>1, <2>2
<1>7. CASE B[v] < B[t]
  <2>1. v \in S /\ v \notin D
    BY <1>1, <1>2, <1>7 DEF S
  <2>2. p[v] < p[t]
    BY <1>2, <1>7, <2>1 DEF Precedes
  <2>3. ~Precedes(k, B, D \cup {t}, t, v)
    BY <1>1, <1>2, <1>7, <2>1 DEF Precedes, Ahead
  <2> QED
    BY <1>1, <1>2, <2>1, <2>2, <2>3
<1>8. CASE v \in D /\ B[t] < B[v]
  <2>1. p[t] < p[v]
    BY <1>1, <1>2, <1>8 DEF Precedes, Ahead
  <2>2. p[v] # p[t] + 1
    BY <1>6, <1>8
  <2>3. Precedes(k, B, D \cup {t}, t, v)
    BY <1>8 DEF Precedes
  <2> QED
    BY <1>1, <1>2, <1>8, <2>1, <2>2, <2>3
<1>9. CASE v \notin D /\ B[t] < B[v]
  <2>1. v \in S /\ v \notin M
    BY <1>1, <1>2, <1>9 DEF S
  <2>2. p[t] < p[v]
    BY <1>2, <1>9, <2>1 DEF Precedes
  <2>3. Precedes(k, B, D \cup {t}, t, v) <=> ~(Gap(B, t, v) \subseteq D \cup {t})
    BY <1>1, <1>2, <1>9, <2>1 DEF Precedes, Ahead
  <2>4. ASSUME NEW z \in Gap(B, t, v), z \notin D \cup {t}
        PROVE  p[t] + 1 < p[v]
    <3>1. z \in S /\ B[t] < B[z] /\ B[z] < B[v]
      BY <2>4 DEF Gap, S
    <3>2. p[t] < p[z] /\ p[z] < p[v]
      BY <1>1, <1>2, <1>9, <2>1, <2>4, <3>1 DEF Precedes
    <3> QED
      BY <1>1, <1>2, <2>1, <3>1, <3>2
  <2>5. ASSUME p[t] + 1 < p[v]
        PROVE  \E w \in Gap(B, t, v) : w \notin D \cup {t}
    <3>1. p[t] + 1 \in 0 .. Cardinality(P) - 1
      <4>1. p[t] \in 0 .. Cardinality(P) - 1 /\ p[v] \in 0 .. Cardinality(P) - 1
        BY <1>2, <1>4, <2>1
      <4> QED
        BY <1>1, <2>5, <4>1
    <3>2. PICK w \in P : p[w] = p[t] + 1
      BY <1>4, <3>1
    <3>3. w \in S /\ w # t /\ w # v /\ w \notin D
      BY <1>1, <1>2, <1>6, <2>1, <2>5, <3>2
    <3>4. p[t] < p[w] /\ p[w] < p[v]
      BY <1>1, <1>2, <2>5, <3>2
    <3>5. B[t] < B[w] /\ B[w] < B[v]
      BY <1>2, <1>9, <2>1, <3>3, <3>4 DEF Precedes
    <3> QED
      BY <3>3, <3>5 DEF Gap, S
  <2> QED
    BY <1>1, <1>2, <2>1, <2>2, <2>3, <2>4, <2>5
<1> QED
  BY <1>1, <1>2, <1>7, <1>8, <1>9 DEF S

-----------------------------------------------------------------------------
\* Where tr_torrentSetQueuePosition puts a torrent among the others.
LEMMA PlaceIs ==
  ASSUME NEW P \in SUBSET Torrents, NEW p, Numbering(p, P), NEW t \in P, NEW pos \in Int, NEW v \in P \ {t}
  PROVE  LET q == tr_torrentSetQueuePosition(p, t, pos) IN
         /\ pos <= 0 => q[t] < q[v]
         /\ pos >= Cardinality(P) => q[v] < q[t]
         /\ pos >= 0 /\ pos = p[t] - 1 => (q[t] < q[v] <=> p[t] < p[v] \/ p[v] = p[t] - 1)
         /\ pos = p[t] + 1 => (q[t] < q[v] <=> p[t] + 1 < p[v])
<1> DEFINE n    == Cardinality(P)
           new  == IF pos < 0 THEN 0 ELSE pos
           back == Back(p, t, new)
           q    == tr_torrentSetQueuePosition(p, t, pos)
<1>1. /\ n \in Nat /\ p \in [P -> 0 .. n - 1] /\ DOMAIN p = P /\ new \in Nat
      /\ \A u, w \in P : p[u] = p[w] => u = w
  BY SessionFinite DEF Numbering
<1>2. /\ back \in {-1} \cup {Shift(p[u], p[t], new) : u \in P \ {t}}
      /\ \A u \in P \ {t} : Shift(p[u], p[t], new) <= back
      /\ -1 <= back
  BY <1>1, BackIsLast
<1>3. q = [u \in P |-> IF u = t THEN (IF new <= back + 1 THEN new ELSE back + 1)
                       ELSE Shift(p[u], p[t], new)]
  BY <1>1 DEF tr_torrentSetQueuePosition
<1>4. \A u \in P \ {t} : Shift(p[u], p[t], new) \in Int
  BY <1>1 DEF Shift
<1>5. Numbering(q, P)
  BY MoveKeepsNumbering
<1>6. /\ \A u \in P : q[u] \in 0 .. n - 1
      /\ \A u, w \in P : q[u] = q[w] => u = w
  BY <1>5 DEF Numbering
<1>7. {p[u] : u \in P} = 0 .. n - 1
  BY NumberingIsSequence
<1> HIDE DEF n, back, q
<1>8. /\ q[t] = IF new <= back + 1 THEN new ELSE back + 1
      /\ q[v] = Shift(p[v], p[t], new) /\ q[v] <= back /\ back \in Int
      /\ p[v] \in 0 .. n - 1 /\ p[t] \in 0 .. n - 1 /\ p[v] # p[t] /\ q[v] \in 0 .. n - 1 /\ -1 <= back
  BY <1>1, <1>2, <1>3, <1>4, <1>6
<1>9. ASSUME pos <= 0
      PROVE  q[t] < q[v]
  <2>1. new = 0
    BY <1>9
  <2>2. q[t] = 0
    BY <1>8, <2>1
  <2>3. q[v] \in 0 .. n - 1 /\ q[v] # q[t]
    BY <1>6
  <2> QED
    BY <1>1, <2>2, <2>3
<1>10. ASSUME pos >= n
       PROVE  q[v] < q[t]
  <2>1. q[v] \in 0 .. n - 1
    BY <1>6
  <2> QED
    BY <1>1, <1>8, <1>10, <2>1
<1>11. ASSUME pos >= 0, pos = p[t] - 1
       PROVE  q[t] < q[v] <=> p[t] < p[v] \/ p[v] = p[t] - 1
  <2>1. new = pos /\ new \in 0 .. n - 1
    BY <1>1, <1>8, <1>11
  <2>2. PICK w \in P : p[w] = new
    BY <1>7, <2>1
  <2>3. w # t
    BY <1>8, <1>11, <2>1, <2>2
  <2>4. Shift(p[w], p[t], new) = p[t]
    BY <1>1, <1>11, <2>1, <2>2 DEF Shift
  <2>5. q[t] = new
    BY <1>1, <1>2, <1>8, <1>11, <2>1, <2>3, <2>4
  <2>6. q[v] = IF p[v] = new THEN p[t] ELSE p[v]
    BY <1>1, <1>8, <1>11, <2>1 DEF Shift
  <2> QED
    BY <1>1, <1>8, <1>11, <2>1, <2>5, <2>6
<1>12. ASSUME pos = p[t] + 1
       PROVE  q[t] < q[v] <=> p[t] + 1 < p[v]
  <2>1. new = pos
    BY <1>8, <1>12
  <2>2. q[v] = IF p[v] = new THEN p[t] ELSE p[v]
    BY <1>1, <1>8, <1>12, <2>1 DEF Shift
  <2>3. CASE p[t] < p[v]
    <3>1. q[v] >= p[t]
      BY <1>1, <1>8, <2>2, <2>3
    <3>2. back >= p[t]
      BY <1>1, <1>8, <3>1
    <3>3. q[t] = new
      BY <1>8, <1>12, <2>1, <3>2
    <3> QED
      BY <1>1, <1>8, <1>12, <2>1, <2>2, <2>3, <3>3
  <2>4. CASE p[v] < p[t]
    BY <1>1, <1>8, <1>12, <2>1, <2>2, <2>4
  <2> QED
    BY <1>1, <1>8, <2>3, <2>4
<1> QED
  BY <1>9, <1>10, <1>11, <1>12 DEF q, n

-----------------------------------------------------------------------------
(* The steps of a batch. *)

\* The next move takes the first torrent of the batch to those that were moved.
LEMMA MovedIs ==
  ASSUME IInv, MoveInv, MoveNext
  PROVE  LET t == Head(batch)
             k == move.kind
             B == move.before
         IN /\ t \in move.of /\ t \notin Moved /\ Moved' = Moved \cup {t} /\ Moved \subseteq move.of
            /\ batch' \in Seq(move.of) /\ move' = move /\ k \in Kinds
            /\ \A i, j \in 1 .. Len(batch') : i < j => IsFirst(k, B, batch'[i], batch'[j])
            /\ \A d \in Moved', i \in 1 .. Len(batch') : IsFirst(k, B, d, batch'[i])
            /\ \A d \in Moved : IsFirst(k, B, d, t)
            /\ \A m \in move.of \ (Moved \cup {t}) : IsFirst(k, B, t, m)
<1> DEFINE t == Head(batch)
           k == move.kind
           B == move.before
           n == Len(batch)
<1>1. batch \in Seq(move.of) /\ batch # <<>> /\ batch' = Tail(batch) /\ move' = move /\ k \in Kinds
  BY DEF MoveInv, MoveNext, IInv
<1>2. /\ n \in Nat \ {0} /\ t = batch[1] /\ t \in move.of
      /\ batch' \in Seq(move.of) /\ Len(batch') = n - 1
      /\ \A i \in 1 .. n - 1 : batch'[i] = batch[i + 1]
  BY <1>1
<1>3. /\ \A i, j \in 1 .. n : i < j => IsFirst(k, B, batch[i], batch[j])
      /\ \A d \in Moved, i \in 1 .. n : IsFirst(k, B, d, batch[i])
      /\ \A x \in move.of : B[x] \in Int
  <2>1. move.of \subseteq DOMAIN B /\ Numbering(B, DOMAIN B)
    BY DEF MoveInv
  <2>2. \A x \in move.of : B[x] \in Int
    <3>1. \A x \in DOMAIN B : B[x] \in 0 .. Cardinality(DOMAIN B) - 1
      BY <2>1 DEF Numbering
    <3>2. DOMAIN B \in SUBSET Torrents
      BY DEF MoveInv, IInv
    <3>3. Cardinality(DOMAIN B) \in Nat
      BY <3>2, SessionFinite
    <3> QED
      BY <2>1, <3>1, <3>3
  <2> QED
    BY <2>2 DEF MoveInv
<1> HIDE DEF t, k, B, n
<1>4. \A i, j \in 1 .. n - 1 : i < j => IsFirst(k, B, batch'[i], batch'[j])
  <2> SUFFICES ASSUME NEW i \in 1 .. n - 1, NEW j \in 1 .. n - 1, i < j
               PROVE  IsFirst(k, B, batch[i + 1], batch[j + 1])
    BY <1>2
  <2>1. i + 1 \in 1 .. n /\ j + 1 \in 1 .. n /\ i + 1 < j + 1
    BY <1>2
  <2> QED
    BY <1>3, <2>1
<1>5. \A i \in 2 .. n : IsFirst(k, B, t, batch[i]) /\ batch[i] \in move.of /\ batch[i] # t
  <2> TAKE i \in 2 .. n
  <2>1. 1 \in 1 .. n /\ i \in 1 .. n /\ 1 < i
    BY <1>2
  <2>2. IsFirst(k, B, t, batch[i])
    BY <1>2, <1>3, <2>1
  <2>3. batch[i] \in move.of
    BY <1>1, <2>1 DEF n
  <2>4. ~IsFirst(k, B, t, t)
    BY <1>2, <1>3 DEF IsFirst
  <2> QED
    BY <2>2, <2>3, <2>4
<1>6. \A i \in 1 .. n - 1 : batch'[i] = batch[i + 1] /\ i + 1 \in 2 .. n
  BY <1>2
<1>7. Moved = {u \in move.of : \A i \in 1 .. n : batch[i] # u}
  BY DEF Moved, n
<1>8. Moved' = {u \in move.of : \A i \in 1 .. n - 1 : batch'[i] # u}
  BY <1>1, <1>2 DEF Moved
<1>9. t \notin Moved /\ Moved \subseteq move.of
  BY <1>2, <1>7
<1>10. ASSUME NEW u \in move.of
       PROVE  (\A i \in 1 .. n - 1 : batch'[i] # u) <=> (u = t \/ \A i \in 1 .. n : batch[i] # u)
  <2>1. \A i \in 1 .. n : i = 1 \/ (i - 1 \in 1 .. n - 1 /\ (i - 1) + 1 = i)
    BY <1>2
  <2>2. \A i \in 1 .. n : i = 1 \/ (i - 1 \in 1 .. n - 1 /\ batch'[i - 1] = batch[i])
    BY <1>6, <2>1
  <2>3. \A i \in 2 .. n : i \in 1 .. n
    BY <1>2
  <2>4. u = t => \A i \in 1 .. n - 1 : batch'[i] # u
    BY <1>5, <1>6
  <2>5. CASE u = t
    BY <2>4, <2>5
  <2>6. CASE u # t
    <3>1. ASSUME \A i \in 1 .. n - 1 : batch'[i] # u, NEW i \in 1 .. n
          PROVE  batch[i] # u
      <4>1. CASE i = 1
        BY <1>2, <2>6, <4>1
      <4>2. CASE i - 1 \in 1 .. n - 1 /\ batch'[i - 1] = batch[i]
        BY <3>1, <4>2
      <4> QED
        BY <2>2, <4>1, <4>2
    <3>2. ASSUME \A i \in 1 .. n : batch[i] # u, NEW i \in 1 .. n - 1
          PROVE  batch'[i] # u
      <4>1. i + 1 \in 1 .. n /\ batch'[i] = batch[i + 1]
        BY <1>6, <2>3
      <4> QED
        BY <3>2, <4>1
    <3> QED
      BY <2>6, <3>1, <3>2
  <2> QED
    BY <2>5, <2>6
<1>11. Moved' = Moved \cup {t}
  BY <1>2, <1>7, <1>8, <1>10
<1>12. \A d \in Moved', i \in 1 .. n - 1 : IsFirst(k, B, d, batch'[i])
  <2> TAKE d \in Moved', i \in 1 .. n - 1
  <2>1. i + 1 \in 2 .. n /\ i + 1 \in 1 .. n /\ batch'[i] = batch[i + 1]
    BY <1>2, <1>6
  <2> QED
    BY <1>3, <1>5, <1>11, <2>1
<1>13. \A d \in Moved : IsFirst(k, B, d, t)
  <2>1. 1 \in 1 .. n
    BY <1>2
  <2> QED
    BY <1>2, <1>3, <2>1
<1>14. \A m \in move.of \ (Moved \cup {t}) : IsFirst(k, B, t, m)
  <2> TAKE m \in move.of \ (Moved \cup {t})
  <2>1. PICK i \in 1 .. n : batch[i] = m
    BY <1>7
  <2>2. i # 1
    BY <1>2, <2>1
  <2>3. i \in 2 .. n
    BY <1>2, <2>2
  <2> QED
    BY <1>5, <2>1, <2>3
<1> QED
  BY <1>1, <1>2, <1>4, <1>9, <1>11, <1>12, <1>13, <1>14 DEF t, k, B

\* The torrent that is moved gets to where a batch of Moved and of it is to be.
LEMMA NextIsPlaced ==
  ASSUME IInv, MoveInv, MoveNext, ~Excepted(move.kind, move.before, move.of),
         NEW v \in DOMAIN move.before \ {Head(batch)}
  PROVE  LET t == Head(batch) IN
         position'[t] < position'[v] <=> Precedes(move.kind, move.before, Moved \cup {t}, t, v)
<1> DEFINE t == Head(batch)
           k == move.kind
           B == move.before
           M == move.of
           P == DOMAIN position
           n == Cardinality(P)
<1>1. /\ t \in M /\ t \notin Moved /\ Moved \subseteq M /\ k \in Kinds
      /\ \A d \in Moved : IsFirst(k, B, d, t)
      /\ \A m \in M \ (Moved \cup {t}) : IsFirst(k, B, t, m)
  BY MovedIs
<1>2. /\ P \in SUBSET Torrents /\ Numbering(position, P) /\ n \in Nat
      /\ Cardinality(Torrents) \in Nat /\ n <= Cardinality(Torrents)
  <2>1. P \in SUBSET Torrents /\ Numbering(position, P) /\ Torrents \in SUBSET Torrents
    BY DEF IInv
  <2> QED
    BY <2>1, SessionFinite
<1>3. Ready(k, B, M, Moved, t, P, position)
  BY <1>1, <1>2 DEF MoveInv, Ready
<1>4. t \in P /\ v \in P \ {t} /\ v \in DOMAIN B \ {t}
  BY <1>1 DEF MoveInv
<1>5. position \in [P -> 0 .. n - 1] /\ position[t] \in 0 .. n - 1 /\ position[v] \in 0 .. n - 1
      /\ \A x, y \in P : position[x] = position[y] => x = y
  BY <1>2, <1>4 DEF Numbering
<1>6. position' = tr_torrentSetQueuePosition(position, t,
                    CASE k = "top" -> 0 [] k = "up" -> position[t] - 1
                      [] k = "down" -> position[t] + 1 [] k = "bottom" -> IntMax)
  BY DEF MoveNext
<1>7. ASSUME NEW pos \in Int, position' = tr_torrentSetQueuePosition(position, t, pos)
      PROVE  /\ pos <= 0 => position'[t] < position'[v]
             /\ pos >= n => position'[v] < position'[t]
             /\ pos >= 0 /\ pos = position[t] - 1 =>
                  (position'[t] < position'[v] <=> position[t] < position[v] \/ position[v] = position[t] - 1)
             /\ pos = position[t] + 1 => (position'[t] < position'[v] <=> position[t] + 1 < position[v])
  <2> HIDE DEF t, P, n
  <2>1. LET q == tr_torrentSetQueuePosition(position, t, pos) IN
         /\ pos <= 0 => q[t] < q[v]
         /\ pos >= Cardinality(P) => q[v] < q[t]
         /\ pos >= 0 /\ pos = position[t] - 1 => (q[t] < q[v] <=> position[t] < position[v] \/ position[v] = position[t] - 1)
         /\ pos = position[t] + 1 => (q[t] < q[v] <=> position[t] + 1 < position[v])
    BY <1>2, <1>4, PlaceIs
  <2> QED
    BY <1>7, <2>1 DEF n
<1>8. Numbering(position', P) /\ position'[t] \in Int /\ position'[v] \in Int
  <2>1. IInv' /\ DOMAIN position' = P
    BY StepKeepsNumbering, <1>6 DEF Next, tr_torrentSetQueuePosition
  <2>2. position' \in [P -> 0 .. n - 1]
    BY <2>1 DEF IInv, Numbering
  <2> QED
    BY <1>2, <1>4, <2>1, <2>2 DEF IInv
<1> HIDE DEF t, k, B, M, P, n
<1>9. CASE k = "top"
  <2>1. position' = tr_torrentSetQueuePosition(position, t, 0)
    BY <1>6, <1>9
  <2> QED
    BY <1>2, <1>3, <1>4, <1>7, <1>9, <2>1, FrontIsFirst DEF t, k, B
<1>10. CASE k = "bottom"
  <2>1. position' = tr_torrentSetQueuePosition(position, t, IntMax)
    BY <1>6, <1>10
  <2>2. IntMax \in Int /\ IntMax >= n
    BY <1>2, QueueAssumption
  <2>3. position'[v] < position'[t]
    BY <1>7, <2>1, <2>2
  <2>4. ~Precedes(k, B, Moved \cup {t}, t, v)
    BY <1>2, <1>3, <1>4, <1>10, BackIsBehind
  <2> QED
    BY <1>8, <2>3, <2>4 DEF t, k, B
<1>11. CASE k = "up"
  <2>1. position' = tr_torrentSetQueuePosition(position, t, position[t] - 1)
    BY <1>6, <1>11
  <2>2. ~HasBoth(B, M, 0, 1)
    BY <1>11 DEF Excepted, k, B, M
  <2>3. CASE position[t] = 0
    <3>1. position'[t] < position'[v]
      BY <1>2, <1>5, <1>7, <2>1, <2>3
    <3>2. position[t] < position[v]
      BY <1>4, <1>5, <2>3
    <3>3. Precedes(k, B, Moved, t, v) /\ \A d \in Moved : B[d] < B[t]
      BY <1>3, <1>4, <1>11, <3>2 DEF Ready, IsFirst
    <3>4. Precedes(k, B, Moved \cup {t}, t, v)
      BY <1>1, <1>4, <1>11, <3>3 DEF Precedes, Ahead
    <3> QED
      BY <3>1, <3>4 DEF t, k, B
  <2>4. CASE position[t] # 0
    <3>1. {position[u] : u \in P} = 0 .. n - 1
      BY <1>2, NumberingIsSequence DEF n
    <3>2. position[t] - 1 \in 0 .. n - 1
      BY <1>2, <1>5, <2>4
    <3>3. PICK w \in P : position[w] = position[t] - 1
      BY <3>1, <3>2
    <3>4. Precedes(k, B, Moved \cup {t}, t, v) <=> position[t] < position[v] \/ v = w
      BY <1>2, <1>3, <1>4, <1>11, <2>2, <3>3, StepAhead
    <3>5. v = w <=> position[v] = position[t] - 1
      BY <1>4, <1>5, <3>3
    <3>6. position'[t] < position'[v] <=> position[t] < position[v] \/ position[v] = position[t] - 1
      BY <1>2, <1>5, <1>7, <2>1, <3>2
    <3> QED
      BY <3>4, <3>5, <3>6 DEF t, k, B
  <2> QED
    BY <2>3, <2>4
<1>12. CASE k = "down"
  <2>1. position' = tr_torrentSetQueuePosition(position, t, position[t] + 1)
    BY <1>6, <1>12
  <2>2. ~HasBoth(B, M, Cardinality(DOMAIN B) - 2, Cardinality(DOMAIN B) - 1)
    BY <1>12 DEF Excepted, k, B, M
  <2>3. Precedes(k, B, Moved \cup {t}, t, v) <=> position[t] + 1 < position[v]
    BY <1>2, <1>3, <1>4, <1>12, <2>2, StepBack
  <2>4. position'[t] < position'[v] <=> position[t] + 1 < position[v]
    BY <1>2, <1>5, <1>7, <2>1
  <2> QED
    BY <2>3, <2>4 DEF t, k, B
<1> QED
  BY <1>1, <1>9, <1>10, <1>11, <1>12 DEF Kinds

\* A move takes the batch one torrent further.
LEMMA NextKeepsBatch == ASSUME IInv, MoveInv, MoveNext PROVE MoveInv'
<1> DEFINE t == Head(batch)
           k == move.kind
           B == move.before
           S == DOMAIN B
           D == Moved \cup {t}
<1>1. /\ t \in move.of /\ t \notin Moved /\ Moved' = D /\ Moved \subseteq move.of
      /\ batch' \in Seq(move.of) /\ move' = move /\ k \in Kinds
      /\ \A i, j \in 1 .. Len(batch') : i < j => IsFirst(k, B, batch'[i], batch'[j])
      /\ \A d \in D, i \in 1 .. Len(batch') : IsFirst(k, B, d, batch'[i])
  BY MovedIs
<1>2. /\ S \subseteq DOMAIN position /\ move.of \subseteq S /\ Numbering(B, S)
      /\ \A u \in S \ Moved, x \in DOMAIN position \ S : position[u] < position[x]
      /\ ~Excepted(k, B, move.of) =>
           \A u, v \in S : u # v => (position[u] < position[v] <=> Precedes(k, B, Moved, u, v))
  BY DEF MoveInv
<1>3. PICK pos \in Int : position' = tr_torrentSetQueuePosition(position, t, pos)
  <2>1. position[t] \in Int
    <3>1. t \in DOMAIN position
      BY <1>1, <1>2
    <3>2. DOMAIN position \in SUBSET Torrents /\ position[t] \in 0 .. Cardinality(DOMAIN position) - 1
      BY <3>1 DEF IInv, Numbering
    <3> QED
      BY <3>2, SessionFinite
  <2>2. IntMax \in Int
    BY QueueAssumption
  <2>3. position' = tr_torrentSetQueuePosition(position, t,
                      CASE k = "top" -> 0 [] k = "up" -> position[t] - 1
                        [] k = "down" -> position[t] + 1 [] k = "bottom" -> IntMax)
    BY DEF MoveNext
  <2> HIDE DEF t, k
  <2>4. (CASE k = "top" -> 0 [] k = "up" -> position[t] - 1
           [] k = "down" -> position[t] + 1 [] k = "bottom" -> IntMax) \in Int
    BY <1>1, <2>1, <2>2 DEF Kinds
  <2> QED
    BY <2>3, <2>4
<1>4. /\ DOMAIN position' = DOMAIN position
      /\ \A u, v \in DOMAIN position \ {t} : position[u] < position[v] <=> position'[u] < position'[v]
  <2>1. t \in DOMAIN position /\ DOMAIN position \in SUBSET Torrents /\ Numbering(position, DOMAIN position)
    BY <1>1, <1>2 DEF IInv
  <2>2. DOMAIN position' = DOMAIN position
    BY <1>3 DEF tr_torrentSetQueuePosition
  <2> HIDE DEF t
  <2> QED
    BY <1>3, <2>1, <2>2, MoveKeepsNumbering
<1>5. \A u, v \in S : position'[u] = position'[v] => u = v
  <2>1. IInv'
    BY StepKeepsNumbering DEF Next
  <2> QED
    BY <1>2, <1>4, <2>1 DEF IInv, Numbering
<1>6. \A u \in S : position'[u] \in Int
  <2>1. IInv'
    BY StepKeepsNumbering DEF Next
  <2>2. \A u \in DOMAIN position' : position'[u] \in 0 .. Cardinality(DOMAIN position') - 1
    BY <2>1 DEF IInv, Numbering
  <2>3. DOMAIN position' \in SUBSET Torrents
    BY <2>1 DEF IInv
  <2>4. Cardinality(DOMAIN position') \in Nat
    BY <2>3, SessionFinite
  <2> QED
    BY <1>2, <1>4, <2>2, <2>4
<1>7. \A u \in S : B[u] \in Int
  <2>1. S \in SUBSET Torrents
    BY <1>2 DEF IInv
  <2>2. Cardinality(S) \in Nat
    BY <2>1, SessionFinite
  <2> QED
    BY <1>2, <2>2 DEF Numbering
<1>8. \A u, v \in S : u # v => B[u] # B[v]
  BY <1>2 DEF Numbering
<1>9. ASSUME ~Excepted(k, B, move.of), NEW u \in S, NEW v \in S, u # v
      PROVE  position'[u] < position'[v] <=> Precedes(k, B, D, u, v)
  <2>1. CASE u = t
    BY <1>9, <2>1, NextIsPlaced
  <2>2. CASE v = t
    <3>1. position'[v] < position'[u] <=> Precedes(k, B, D, v, u)
      BY <1>9, <2>2, NextIsPlaced
    <3>2. Precedes(k, B, D, u, v) <=> ~Precedes(k, B, D, v, u)
      BY <1>7, <1>8, <1>9, OnePrecedes
    <3> QED
      BY <1>5, <1>6, <1>9, <3>1, <3>2
  <2>3. CASE u # t /\ v # t
    <3>1. Ready(k, B, move.of, Moved, t, DOMAIN position, position)
      BY <1>1, <1>2, <1>9, MovedIs DEF IInv, Ready
    <3>2. DOMAIN position \in SUBSET Torrents
      BY DEF IInv
    <3>3. Precedes(k, B, D, u, v) <=> Precedes(k, B, Moved, u, v)
      BY <1>9, <2>3, <3>1, <3>2, OthersAsBefore
    <3> QED
      BY <1>2, <1>4, <1>9, <2>3, <3>3
  <2> QED
    BY <2>1, <2>2, <2>3
<1>10. \A u \in S \ D, x \in DOMAIN position' \ S : position'[u] < position'[x]
  BY <1>1, <1>2, <1>4
<1> QED
  <2>1. /\ move'.kind = k /\ move'.before = B /\ move'.of = move.of
    BY <1>1
  <2> HIDE DEF t, k, B, S, D
  <2> QED
    BY <1>1, <1>2, <1>4, <1>9, <1>10, <2>1 DEF MoveInv, S

-----------------------------------------------------------------------------
\* No batch has begun, or it was forgotten.
LEMMA NoBatch ==
  ASSUME move' = NoMove, batch' = <<>>
  PROVE  MoveInv'
<1>1. move'.kind = "none" /\ move'.of = {} /\ DOMAIN move'.before = {} /\ Len(batch') = 0 /\ Moved' = {}
  BY DEF NoMove, Moved
<1>2. Numbering(move'.before, DOMAIN move'.before)
  BY <1>1 DEF NoMove, Numbering
<1>3. batch' \in Seq(move'.of)
  OBVIOUS
<1> QED
  BY <1>1, <1>2, <1>3 DEF MoveInv

\* A torrent that is added gets behind all others.
LEMMA AddKeepsBatch ==
  ASSUME IInv, MoveInv, NEW t \in Torrents, Add(t)
  PROVE  MoveInv'
<1> DEFINE P == DOMAIN position
           n == Cardinality(P)
           S == DOMAIN move.before
<1>1. /\ batch' = batch /\ move' = move /\ t \notin P
      /\ position' = [u \in P \cup {t} |-> IF u = t THEN n ELSE position[u]]
  BY DEF Add
<1>2. Moved' = Moved
  BY <1>1 DEF Moved
<1>3. n \in Nat /\ \A u \in P : position[u] \in 0 .. n - 1
  BY SessionFinite DEF IInv, Numbering
<1>4. S \subseteq P
  BY DEF MoveInv
<1>5. DOMAIN position' = P \cup {t} /\ S \subseteq DOMAIN position'
  BY <1>1, <1>4
<1>6. \A u \in P : position'[u] = position[u] /\ position'[u] < position'[t]
  BY <1>1, <1>3
<1>7. \A u \in S \ Moved, x \in DOMAIN position' \ S : position'[u] < position'[x]
  <2> TAKE u \in S \ Moved, x \in DOMAIN position' \ S
  <2>1. CASE x = t
    BY <1>4, <1>6, <2>1
  <2>2. CASE x # t
    <3>1. x \in P \ S /\ position[u] < position[x]
      BY <1>5, <2>2 DEF MoveInv
    <3> QED
      BY <1>4, <1>6, <3>1
  <2> QED
    BY <2>1, <2>2
<1>8. \A u \in S : position'[u] = position[u]
  BY <1>4, <1>6
<1> HIDE DEF P, n
<1> QED
  BY <1>1, <1>2, <1>5, <1>7, <1>8 DEF MoveInv

\* A batch of the torrents of is a sorted sequence that has each of them once.
LEMMA SortedSays ==
  ASSUME NEW of \in SUBSET DOMAIN position, DOMAIN position \subseteq Torrents, NEW q \in Sorted(of)
  PROVE  LET c == Cardinality(of) IN
         /\ c \in Nat /\ q \in [1 .. c -> of] /\ q \in Seq(of) /\ Len(q) = c
         /\ \A i, j \in 1 .. c : i < j => position[q[i]] < position[q[j]]
         /\ \A u \in of : \E i \in 1 .. c : q[i] = u
<1> DEFINE c == Cardinality(of)
<1>1. IsFiniteSet(of) /\ c \in Nat
  BY SessionFinite
<1>2. /\ q \in [1 .. c -> of]
      /\ \A i, j \in 1 .. c : i # j => q[i] # q[j]
      /\ \A i, j \in 1 .. c : i < j => position[q[i]] < position[q[j]]
  BY DEF Sorted, SetToSeqs
<1>3. q \in Injection(1 .. c, of)
  BY <1>2 DEF Injection, IsInjective
<1>4. IsFiniteSet(1 .. c) /\ Cardinality(1 .. c) = c
  <2>1. IsFiniteSet(1 .. c) /\ Cardinality(1 .. c) = IF 1 > c THEN 0 ELSE c - 1 + 1
    BY <1>1, FS_Interval
  <2> QED
    BY <1>1, <2>1
<1>5. q \in Surjection(1 .. c, of)
  BY <1>1, <1>3, <1>4, FS_Injection
<1>6. \A u \in of : \E i \in 1 .. c : q[i] = u
  BY <1>5 DEF Surjection
<1>7. q \in Seq(of) /\ Len(q) = c
  BY <1>1, <1>2
<1> QED
  BY <1>1, <1>2, <1>6, <1>7

\* A batch that begins is in the order in which it is to be moved, and has moved none.
LEMMA BeginKeepsBatch ==
  ASSUME IInv, NEW kind \in Kinds, NEW of \in SUBSET DOMAIN position, BeginMove(kind, of)
  PROVE  MoveInv'
<1> DEFINE c == Cardinality(of)
           P == DOMAIN position
<1>1. PICK q \in Sorted(of) : batch' = IF kind \in {"top", "down"} THEN Reverse(q) ELSE q
  BY DEF BeginMove
<1>2. /\ move' = [kind |-> kind, of |-> of, before |-> position] /\ position' = position
  BY DEF BeginMove
<1>3. /\ c \in Nat /\ q \in [1 .. c -> of] /\ q \in Seq(of) /\ Len(q) = c
      /\ \A i, j \in 1 .. c : i < j => position[q[i]] < position[q[j]]
      /\ \A u \in of : \E i \in 1 .. c : q[i] = u
  BY SortedSays DEF IInv
<1>4. Reverse(q) = [i \in 1 .. c |-> q[(c - i) + 1]]
  BY <1>3 DEF Reverse
<1> HIDE DEF c
<1>5. \A i \in 1 .. c : (c - i) + 1 \in 1 .. c /\ (c - ((c - i) + 1)) + 1 = i
  BY <1>3
<1>6. /\ Reverse(q) \in [1 .. c -> of] /\ Reverse(q) \in Seq(of) /\ Len(Reverse(q)) = c
  BY <1>3, <1>4, <1>5
<1>7. \A u \in of : \E i \in 1 .. c : Reverse(q)[i] = u
  <2> TAKE u \in of
  <2>1. PICK i \in 1 .. c : q[i] = u
    BY <1>3
  <2>2. (c - i) + 1 \in 1 .. c /\ Reverse(q)[(c - i) + 1] = u
    BY <1>4, <1>5, <2>1
  <2> QED
    BY <2>2
<1>8. \A i, j \in 1 .. c : i < j => position[Reverse(q)[j]] < position[Reverse(q)[i]]
  <2> TAKE i, j \in 1 .. c
  <2> HAVE i < j
  <2>1. (c - j) + 1 \in 1 .. c /\ (c - i) + 1 \in 1 .. c /\ (c - j) + 1 < (c - i) + 1
    BY <1>3, <1>5
  <2>2. Reverse(q)[j] = q[(c - j) + 1] /\ Reverse(q)[i] = q[(c - i) + 1]
    BY <1>4
  <2> QED
    BY <1>3, <2>1, <2>2
<1>9. /\ batch' \in Seq(of) /\ Len(batch') = c
      /\ \A u \in of : \E i \in 1 .. c : batch'[i] = u
  BY <1>1, <1>3, <1>6, <1>7
<1>10. \A i, j \in 1 .. c : i < j => IsFirst(kind, position, batch'[i], batch'[j])
  <2>1. CASE kind \in {"top", "down"}
    BY <1>1, <1>8, <2>1 DEF IsFirst
  <2>2. CASE kind \notin {"top", "down"}
    BY <1>1, <1>3, <2>2 DEF IsFirst
  <2> QED
    BY <2>1, <2>2
<1>11. move'.kind = kind /\ move'.of = of /\ move'.before = position
  BY <1>2
<1>12. Moved' = {}
  BY <1>9, <1>11 DEF Moved
<1>13. \A u, v \in P : position[u] < position[v] <=> Precedes(kind, position, {}, u, v)
  BY DEF Precedes
<1>14. Numbering(position, P)
  BY DEF IInv
<1>15. kind # "none"
  BY DEF Kinds
<1> HIDE DEF P
<1> QED
  BY <1>2, <1>9, <1>10, <1>11, <1>12, <1>13, <1>14, <1>15 DEF MoveInv, P

\* What a step does to a batch.
LEMMA StepKeepsBatch == ASSUME IInv, MoveInv, Next PROVE MoveInv'
<1>1. CASE \E t \in Torrents : Add(t)
  BY <1>1, AddKeepsBatch
<1>2. CASE \E t \in Torrents : Free(t)
  BY <1>2, NoBatch DEF Free
<1>3. CASE \E t \in Torrents, pos \in -MaxPosition .. MaxPosition : SetPosition(t, pos)
  BY <1>3, NoBatch DEF SetPosition
<1>4. CASE \E kind \in Kinds, of \in SUBSET DOMAIN position : BeginMove(kind, of)
  BY <1>4, BeginKeepsBatch
<1>5. CASE MoveNext
  BY <1>5, NextKeepsBatch
<1> QED
  BY <1>1, <1>2, <1>3, <1>4, <1>5 DEF Next

\* As far as a batch has come, it is where it is to be.
THEOREM BatchInvariance == Spec => []MoveInv
<1>1. Init => MoveInv
  <2> SUFFICES ASSUME Init PROVE MoveInv
    OBVIOUS
  <2>1. move.kind = "none" /\ move.of = {} /\ move.before = <<>> /\ DOMAIN move.before = {}
        /\ batch = <<>> /\ Len(batch) = 0 /\ Moved = {}
    BY DEF Init, NoMove, Moved
  <2>2. Numbering(move.before, DOMAIN move.before)
    BY <2>1 DEF Numbering
  <2>3. batch \in Seq(move.of)
    BY <2>1
  <2> QED
    BY <2>1, <2>2, <2>3 DEF MoveInv
<1>2. IInv /\ MoveInv /\ [Next]_vars => MoveInv'
  <2>1. CASE Next
    BY <2>1, StepKeepsBatch
  <2>2. CASE UNCHANGED vars
    BY <2>2 DEF vars, MoveInv, Moved, Numbering
  <2> QED
    BY <2>1, <2>2
<1> QED
  BY <1>1, <1>2, Invariance, PTL DEF Spec

\* A whole batch gets to where transmission.h says, whatever is added to the queue meanwhile
\* (tr_torrentsQueueMoveTop, Up, Down and Bottom), but for the excepted steps.
THEOREM BatchesMoveExactly == Spec => []MovesAreExact
<1>1. IInv /\ MoveInv => MovesAreExact
  <2> SUFFICES ASSUME IInv, MoveInv PROVE MovesAreExact
    OBVIOUS
  <2> DEFINE n == Cardinality(DOMAIN move.before)
             Whole == /\ batch = <<>>
                      /\ move.kind = "up" => ~InBatch({0, 1})
                      /\ move.kind = "down" => ~InBatch({n - 2, n - 1})
  <2>1. ASSUME Whole PROVE BatchIsMoved
    <3>1. Moved = move.of
      BY <2>1 DEF Moved
    <3>2. \A i, j : HasBoth(move.before, move.of, i, j) => InBatch({i, j})
      BY DEF HasBoth, InBatch
    <3>3. ~Excepted(move.kind, move.before, move.of)
      BY <2>1, <3>2 DEF Excepted
    <3>4. \A u, v \in DOMAIN move.before :
            ShouldPrecede(u, v) <=> Precedes(move.kind, move.before, move.of, u, v)
      BY DEF ShouldPrecede, Leads, Between, Precedes, Ahead, Gap
    <3> QED
      BY <3>1, <3>3, <3>4 DEF MoveInv, BatchIsMoved
  <2> QED
    BY <2>1 DEF MovesAreExact
<1> QED
  BY <1>1, Invariance, BatchInvariance, PTL
=============================================================================
