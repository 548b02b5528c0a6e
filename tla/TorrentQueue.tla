----------------------------- MODULE TorrentQueue -----------------------------
(***************************************************************************)
(* The queue positions of the torrents (torrent.c): every torrent of the   *)
(* session has one, whether it is queued or not, and they number the       *)
(* torrents from 0.  The RPC server moves torrents one at a time or in     *)
(* batches; a batch is moved with one tr_torrentSetQueuePosition after the *)
(* other, between which another thread may add a torrent.                  *)
(***************************************************************************)
EXTENDS Integers, FiniteSets, Sequences, SequencesExt

CONSTANTS
  Torrents,     \* the torrents that may be in the session
  MaxPosition,  \* bound: how far from 0 are the positions that the RPC server is asked for
  IntMax        \* INT_MAX

ASSUME QueueAssumption ==
  /\ IsFiniteSet(Torrents) /\ Torrents # {}
  /\ MaxPosition \in Nat
  /\ IntMax \in Nat /\ IntMax >= Cardinality(Torrents)

VARIABLES
  position,  \* tr_torrent::queuePosition of the torrents in the session
  batch,     \* the torrents that the move in progress has yet to move
  move       \* the last move: its kind, its torrents, the positions before it

vars == <<position, batch, move>>

Kinds == {"top", "up", "down", "bottom"}
NoMove == [kind |-> "none", of |-> {}, before |-> <<>>]

Init == position = <<>> /\ batch = <<>> /\ move = NoMove

-----------------------------------------------------------------------------
\* Mutant: the torrent at the new position is not moved.
Shift_TargetStays(q, old, pos) ==
  CASE old < pos /\ old <= q /\ q < pos -> q - 1
    [] pos < old /\ pos < q /\ q < old  -> q + 1
    [] OTHER -> q

\* What the walk over the torrents makes of the position q of another torrent.
Shift(q, old, pos) ==
  CASE old < pos /\ old <= q /\ q <= pos -> q - 1
    [] pos < old /\ pos <= q /\ q < old  -> q + 1
    [] OTHER -> q

\* The last position of the other torrents behind the walk; -1 if there is none.
Back(p, t, pos) ==
  LET shifted == {-1} \cup {Shift(p[u], p[t], pos) : u \in DOMAIN p \ {t}}
  IN  CHOOSE b \in shifted : \A c \in shifted : c <= b

\* Mutant: the torrent changes places with the one at the new position.
tr_torrentSetQueuePosition_Swap(p, t, pos) ==
  LET new  == IF pos < 0 THEN 0 ELSE IF pos < Cardinality(DOMAIN p) THEN pos ELSE Cardinality(DOMAIN p) - 1
  IN  [u \in DOMAIN p |-> IF u = t THEN new ELSE IF p[u] = new THEN p[t] ELSE p[u]]

\* Mutant: the torrent goes where it was asked to go.
tr_torrentSetQueuePosition_Unbounded(p, t, pos) ==
  LET new == IF pos < 0 THEN 0 ELSE pos
  IN  [u \in DOMAIN p |-> IF u = t THEN new ELSE Shift(p[u], p[t], new)]

tr_torrentSetQueuePosition(p, t, pos) ==
  LET new  == IF pos < 0 THEN 0 ELSE pos
      back == Back(p, t, new)
  IN  [u \in DOMAIN p |-> IF u = t THEN (IF new <= back + 1 THEN new ELSE back + 1)
                          ELSE Shift(p[u], p[t], new)]

-----------------------------------------------------------------------------
\* torrentInit, at the end of the queue.
Add(t) ==
  /\ t \notin DOMAIN position
  /\ position' = [u \in DOMAIN position \cup {t} |->
                    IF u = t THEN Cardinality(DOMAIN position) ELSE position[u]]
  /\ UNCHANGED <<batch, move>>

\* freeTorrent, in the event thread as the moves of the RPC server.
Free(t) ==
  /\ batch = <<>>
  /\ t \in DOMAIN position
  /\ position' = [u \in DOMAIN position \ {t} |->
                    IF position[u] > position[t] THEN position[u] - 1 ELSE position[u]]
  /\ move' = NoMove
  /\ UNCHANGED batch

\* torrentSet of the RPC server.
SetPosition(t, pos) ==
  /\ batch = <<>>
  /\ t \in DOMAIN position
  /\ position' = tr_torrentSetQueuePosition(position, t, pos)
  /\ move' = NoMove
  /\ UNCHANGED batch

\* The torrents sorted with compareTorrentByQueuePosition.
Sorted(of) == {q \in SetToSeqs(of) : \A m, n \in DOMAIN q : m < n => position[q[m]] < position[q[n]]}

\* Mutant: the first torrent of the batch is always moved first.
BeginMove_Forwards(kind, of) ==
  /\ batch = <<>>
  /\ \E q \in Sorted(of) : batch' = q
  /\ move' = [kind |-> kind, of |-> of, before |-> position]
  /\ UNCHANGED position

\* tr_torrentsQueueMoveTop and tr_torrentsQueueMoveDown go through the batch backwards, the
\* other two forwards.
BeginMove(kind, of) ==
  /\ batch = <<>>
  /\ \E q \in Sorted(of) : batch' = IF kind \in {"top", "down"} THEN Reverse(q) ELSE q
  /\ move' = [kind |-> kind, of |-> of, before |-> position]
  /\ UNCHANGED position

MoveNext ==
  /\ batch # <<>>
  /\ LET t == Head(batch)
         pos == CASE move.kind = "top"    -> 0
                  [] move.kind = "up"     -> position[t] - 1
                  [] move.kind = "down"   -> position[t] + 1
                  [] move.kind = "bottom" -> IntMax
     IN  position' = tr_torrentSetQueuePosition(position, t, pos)
  /\ batch' = Tail(batch)
  /\ UNCHANGED move

Next ==
  \/ \E t \in Torrents : Add(t) \/ Free(t) \/ (\E pos \in -MaxPosition .. MaxPosition : SetPosition(t, pos))
  \/ \E kind \in Kinds, of \in SUBSET DOMAIN position : BeginMove(kind, of)
  \/ MoveNext

Spec == Init /\ [][Next]_vars

-----------------------------------------------------------------------------
(* Properties. *)

\* The type invariant.
TypeOK ==
  /\ DOMAIN position \subseteq Torrents
  /\ position \in [DOMAIN position -> 0 .. Cardinality(Torrents) - 1]
  /\ batch \in Seq(DOMAIN position)
  /\ batch # <<>> => move.kind \in Kinds

\* queueIsSequenced, asserted behind every change: the positions number the torrents
\* of the session from 0, with no gap and none twice.
queueIsSequenced ==
  {position[t] : t \in DOMAIN position} = 0 .. Cardinality(DOMAIN position) - 1

\* Whatever happens to the queue, at most one torrent changes its place among those
\* that stay: the walks over the torrents close gaps and make room, and move no other
\* past its neighbour.
AtMostOneMoves ==
  [][\E t \in Torrents :
       \A u, v \in (DOMAIN position \cap DOMAIN position') \ {t} :
         position[u] < position[v] <=> position'[u] < position'[v]]_vars

\* What transmission.h says of a batch: "to the front", "to the back", "ahead one step",
\* "back one step".  Torrents of the batch, and torrents outside of it, keep their
\* order among themselves; a step takes a block of the batch past one other torrent.
Between(u, v) == {w \in DOMAIN move.before : move.before[u] < move.before[w] /\ move.before[w] < move.before[v]}

\* The torrent b of the batch comes before the torrent o outside of it.
Leads(b, o) ==
  \/ move.kind = "top"
  \/ move.kind = "up" /\ (move.before[b] < move.before[o] \/ Between(o, b) \subseteq move.of)
  \/ move.kind = "down" /\ move.before[b] < move.before[o] /\ ~(Between(b, o) \subseteq move.of)

ShouldPrecede(u, v) ==
  \/ (u \in move.of <=> v \in move.of) /\ move.before[u] < move.before[v]
  \/ u \in move.of /\ v \notin move.of /\ Leads(u, v)
  \/ u \notin move.of /\ v \in move.of /\ ~Leads(v, u)

BatchIsMoved ==
  \A u, v \in DOMAIN move.before : u # v => (position[u] < position[v] <=> ShouldPrecede(u, v))

\* Some torrents of the batch had these positions.
InBatch(positions) == \A k \in positions : \E t \in move.of : move.before[t] = k

\* Moves to the front and to the back do what they say (tr_torrentsQueueMoveTop and Bottom);
\* so does a step ahead unless the first two torrents of the queue are of the batch, and a
\* step back unless the last two are: the outermost one stays, and the other changes places
\* with it (tr_torrentsQueueMoveUp and Down).
MovesAreExact ==
  LET n == Cardinality(DOMAIN move.before) IN
  /\ batch = <<>>
  /\ move.kind = "up" => ~InBatch({0, 1})
  /\ move.kind = "down" => ~InBatch({n - 2, n - 1})
  => BatchIsMoved
=============================================================================
