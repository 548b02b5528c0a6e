----------------------------- MODULE LifecycleProofs -----------------------------
(***************************************************************************)
(* Proofs about Lifecycle, for any torrents, slots, commands and missing   *)
(* files.                                                                  *)
(*                                                                         *)
(* The verify thread must not touch a torrent that the event thread frees. *)
(* What keeps it is in the stack of the event thread's calls: what is to   *)
(* find the torrent let go is behind a tr_verifyRemove, and nothing that   *)
(* gives it back to the verify thread comes between (Stack).               *)
(***************************************************************************)
EXTENDS Lifecycle, SequenceLemmas

-----------------------------------------------------------------------------
(* The inductive invariant. *)

\* The calls behind a tr_verifyRemove of their torrent, those that come to one, and those of
\* verifyTorrent, which nothing calls but the pipe and the RPC server.
Behind    == {"(stopTorrent)", "(removeTorrent)", "(verifyTorrent)", "(verifyTorrent end)", "(verifyTorrent end, start)"}
Letting   == {"stopTorrent", "tr_verifyRemove", "(tr_verifyRemove wait)"}
Outermost == {"verifyTorrent", "(verifyTorrent)", "(verifyTorrent end)", "(verifyTorrent end, start)"}
Closing   == {"sessionCloseImpl", "tr_verifyClose"}
Stopping  == {"stopTorrent", "(stopTorrent)", "removeTorrent"}

Frames == [call : Calls, tor : Torrents \cup {NoTorrent}]

\* The verify thread has let go of these torrents.
LetGo == Torrents \ (verifyList \cup {current})

\* A stack of calls, when the torrents C were let go: a call behind a tr_verifyRemove finds its torrent
\* so, or another call on it comes before.
Stack(cs, C) ==
  /\ cs \in Seq(Frames)
  /\ \A n \in 1 .. Len(cs) :
       /\ cs[n].call \in Outermost => n = Len(cs)
       /\ cs[n].call = "(tr_verifyRemove wait)" => n = 1
       /\ cs[n].call \in Behind =>
            cs[n].tor \in C \/ \E m \in 1 .. n - 1 : cs[m].tor = cs[n].tor /\ cs[m].call \in Letting

\* The torrent that tr_verifyRemove waits for was let go, or the verify thread has yet to see that it
\* is to stop; and tr_verifyClose comes from tr_sessionClose.
CallsInv ==
  /\ Stack(calls, LetGo)
  /\ \A n \in 1 .. Len(calls) :
       /\ calls[n].call = "(tr_verifyRemove wait)" =>
            calls[n].tor \in Torrents \ verifyList /\ (calls[n].tor = current => stopCurrent)
       /\ calls[n].call \in Closing => closing
  /\ \A n \in 1 .. Len(pipe) : pipe[n].call \in Closing => closing

\* What the verify thread has, and what is shown of it.
VerifyInv ==
  /\ VerifyStateIsTrue /\ ListIsServed
  /\ current # NoTorrent => tor[current].exists /\ current \notin verifyList
  /\ \A t \in verifyList : tor[t].exists
  /\ verifyPc \in {"begin", "verifying", "check", "fire"} => current # NoTorrent

LInv == TypeOK /\ VerifyInv /\ StopIsOnItsWay /\ CallsInv

-----------------------------------------------------------------------------
(* Stacks. *)

\* A call that returns, having called more first.
LEMMA Spliced ==
  ASSUME NEW S, NEW cs \in Seq(S), cs # <<>>, NEW more \in Seq(S)
  PROVE  LET r == more \o Tail(cs) IN
         /\ r \in Seq(S) /\ Len(more) \in Nat /\ Len(cs) \in Nat \ {0} /\ Len(r) = Len(more) + Len(cs) - 1
         /\ \A i \in 1 .. Len(more) : r[i] = more[i]
         /\ \A i \in Len(more) + 1 .. Len(r) : i - Len(more) + 1 \in 2 .. Len(cs) /\ r[i] = cs[i - Len(more) + 1]
         /\ \A j \in 2 .. Len(cs) : j - 1 + Len(more) \in Len(more) + 1 .. Len(r) /\ r[j - 1 + Len(more)] = cs[j]
         /\ Head(cs) = cs[1] /\ Head(cs) \in S
<1> DEFINE t == Tail(cs)
<1>1. Len(cs) \in Nat \ {0} /\ Len(more) \in Nat
  OBVIOUS
<1>2. t \in Seq(S) /\ Len(t) = Len(cs) - 1 /\ \A i \in 1 .. Len(cs) - 1 : t[i] = cs[i + 1]
  BY <1>1
<1>3. Head(cs) = cs[1] /\ Head(cs) \in S
  BY <1>1
<1> HIDE DEF t
<1>4. /\ more \o t \in Seq(S) /\ Len(more \o t) = Len(more) + Len(t)
      /\ \A i \in 1 .. Len(more) + Len(t) : (more \o t)[i] = IF i <= Len(more) THEN more[i] ELSE t[i - Len(more)]
  <2>1. t \in Seq(S)
    BY <1>2
  <2> QED
    BY <2>1, ConcatProperties
<1> DEFINE r == more \o t
<1> HIDE DEF r
<1>5. /\ r \in Seq(S) /\ Len(r) = Len(more) + Len(cs) - 1
      /\ \A i \in 1 .. Len(r) : r[i] = IF i <= Len(more) THEN more[i] ELSE t[i - Len(more)]
  BY <1>1, <1>2, <1>4 DEF r
<1>6. \A i \in 1 .. Len(more) : r[i] = more[i]
  BY <1>1, <1>5
<1>7. \A i \in Len(more) + 1 .. Len(r) : i - Len(more) + 1 \in 2 .. Len(cs) /\ r[i] = cs[i - Len(more) + 1]
  <2> TAKE i \in Len(more) + 1 .. Len(r)
  <2>1. i \in 1 .. Len(r) /\ ~(i <= Len(more)) /\ i - Len(more) \in 1 .. Len(cs) - 1
    BY <1>1, <1>5
  <2>2. r[i] = t[i - Len(more)]
    BY <1>5, <2>1
  <2>3. t[i - Len(more)] = cs[(i - Len(more)) + 1]
    BY <1>2, <2>1
  <2>4. i - Len(more) + 1 \in 2 .. Len(cs)
    BY <1>1, <2>1
  <2> QED
    BY <2>2, <2>3, <2>4
<1>8. \A j \in 2 .. Len(cs) : j - 1 + Len(more) \in Len(more) + 1 .. Len(r) /\ r[j - 1 + Len(more)] = cs[j]
  <2> TAKE j \in 2 .. Len(cs)
  <2>1. j - 1 + Len(more) \in Len(more) + 1 .. Len(r)
    BY <1>1, <1>5
  <2>2. j - 1 + Len(more) - Len(more) + 1 = j
    BY <1>1
  <2> QED
    BY <1>7, <2>1, <2>2
<1> QED
  BY <1>1, <1>3, <1>5, <1>6, <1>7, <1>8 DEF r, t

\* The calls that a call makes first keep the stack.
More(more, C, h) ==
  /\ more \in Seq(Frames)
  /\ \A n \in 1 .. Len(more) :
       /\ more[n].call \in Outermost => n = Len(more) /\ h.call \in Outermost
       /\ more[n].call = "(tr_verifyRemove wait)" => n = 1
       /\ more[n].call \in Behind =>
            more[n].tor \in C \/ \E m \in 1 .. n - 1 : more[m].tor = more[n].tor /\ more[m].call \in Letting
  /\ h.call \in Letting =>
       h.tor \in C \/ \E m \in 1 .. Len(more) : more[m].tor = h.tor /\ more[m].call \in Letting

\* A stack stays one when the next call returns, having called more first.
LEMMA StackSpliced ==
  ASSUME NEW cs, NEW C, NEW D, Stack(cs, C), C \subseteq D, cs # <<>>, NEW more, More(more, D, Head(cs))
  PROVE  Stack(more \o Tail(cs), D)
<1> DEFINE r == more \o Tail(cs)
           a == Len(more)
<1>1. /\ cs \in Seq(Frames) /\ more \in Seq(Frames)
  BY DEF Stack, More
<1>2. /\ r \in Seq(Frames) /\ a \in Nat /\ Len(cs) \in Nat \ {0} /\ Len(r) = a + Len(cs) - 1
      /\ Head(cs) = cs[1]
  BY <1>1, Spliced
<1>3. /\ \A i \in 1 .. a : r[i] = more[i]
      /\ \A i \in a + 1 .. Len(r) : i - a + 1 \in 2 .. Len(cs) /\ r[i] = cs[i - a + 1]
      /\ \A j \in 2 .. Len(cs) : j - 1 + a \in a + 1 .. Len(r) /\ r[j - 1 + a] = cs[j]
  BY <1>1, Spliced
<1> HIDE DEF r, a
<1>4. ASSUME NEW n \in 1 .. Len(r)
      PROVE  /\ r[n].call \in Outermost => n = Len(r)
             /\ r[n].call = "(tr_verifyRemove wait)" => n = 1
             /\ r[n].call \in Behind =>
                  r[n].tor \in D \/ \E m \in 1 .. n - 1 : r[m].tor = r[n].tor /\ r[m].call \in Letting
  <2>0. n \in 1 .. a \/ n \in a + 1 .. Len(r)
    BY <1>2
  <2>1. CASE n \in 1 .. a
    <3>1. r[n] = more[n]
      BY <1>3, <2>1
    <3>2. r[n].call \in Outermost => n = Len(r)
      <4> SUFFICES ASSUME r[n].call \in Outermost PROVE n = Len(r)
        OBVIOUS
      <4>1. n = a /\ cs[1].call \in Outermost
        BY <1>2, <2>1, <3>1 DEF More, a
      <4>2. 1 \in 1 .. Len(cs)
        BY <1>2
      <4>3. 1 = Len(cs)
        BY <4>1, <4>2 DEF Stack
      <4>4. Len(cs) = 1
        BY <4>3
      <4>5. a \in Int /\ Len(r) = a + 1 - 1
        BY <1>2, <4>4
      <4>6. a + 1 - 1 = a
        BY <4>5
      <4> QED
        BY <4>1, <4>5, <4>6
    <3>3. \A m \in 1 .. n - 1 : r[m] = more[m]
      <4> TAKE m \in 1 .. n - 1
      <4>1. m \in 1 .. a
        BY <1>2, <2>1
      <4> QED
        BY <1>3, <4>1
    <3>4. /\ more[n].call = "(tr_verifyRemove wait)" => n = 1
          /\ more[n].call \in Behind =>
               more[n].tor \in D \/ \E m \in 1 .. n - 1 : more[m].tor = more[n].tor /\ more[m].call \in Letting
      BY <2>1 DEF More, a
    <3> QED
      BY <3>1, <3>2, <3>3, <3>4
  <2>2. CASE n \in a + 1 .. Len(r)
    <3> DEFINE j == n - a + 1
    <3>1. j \in 2 .. Len(cs) /\ r[n] = cs[j]
      BY <1>3, <2>2
    <3>2. j = Len(cs) => n = Len(r)
      BY <1>2, <2>2
    <3>3. n - 1 = j - 1 + a - 1 /\ j \in Int
      BY <1>2, <2>2
    <3> HIDE DEF j
    <3>4. j \in 1 .. Len(cs) /\ j # 1
      BY <1>2, <3>1
    <3>5. /\ cs[j].call \in Outermost => j = Len(cs)
          /\ cs[j].call # "(tr_verifyRemove wait)"
          /\ cs[j].call \in Behind =>
               cs[j].tor \in C \/ \E m \in 1 .. j - 1 : cs[m].tor = cs[j].tor /\ cs[m].call \in Letting
      BY <3>4 DEF Stack
    <3>6. ASSUME NEW m \in 1 .. j - 1, cs[m].call \in Letting, cs[m].tor \notin D
          PROVE  \E k \in 1 .. n - 1 : r[k].tor = cs[m].tor /\ r[k].call \in Letting
      <4>1. CASE m = 1
        <5>1. PICK k \in 1 .. a : more[k].tor = cs[m].tor /\ more[k].call \in Letting
          BY <1>2, <3>6, <4>1 DEF More, a
        <5>2. k \in 1 .. n - 1
          BY <1>2, <2>2
        <5>3. r[k] = more[k]
          BY <1>3
        <5> QED
          BY <5>1, <5>2, <5>3
      <4>2. CASE m # 1
        <5>1. m \in 2 .. Len(cs)
          BY <1>2, <3>1, <4>2
        <5>2. r[m - 1 + a] = cs[m]
          BY <1>3, <5>1
        <5>3. m - 1 + a \in 1 .. n - 1
          BY <1>2, <3>3, <4>2
        <5> QED
          BY <3>6, <5>2, <5>3
      <4> QED
        BY <4>1, <4>2
    <3> QED
      BY <3>1, <3>2, <3>5, <3>6
  <2> QED
    BY <2>0, <2>1, <2>2
<1> QED
  BY <1>2, <1>4 DEF Stack, r

\* A stop of t is among the calls cs.
Comes(cs, t) == \E n \in 1 .. Len(cs) : cs[n].tor = t /\ cs[n].call \in Stopping

\* What comes on a stack still comes when the next call returns, if it was not that call.
LEMMA ComesSpliced ==
  ASSUME NEW cs \in Seq(Frames), cs # <<>>, NEW more \in Seq(Frames), NEW t
  PROVE  /\ Comes(more, t) => Comes(more \o Tail(cs), t)
         /\ Comes(cs, t) => Comes(more \o Tail(cs), t) \/ (Head(cs).tor = t /\ Head(cs).call \in Stopping)
<1> DEFINE r == more \o Tail(cs)
           a == Len(more)
<1>1. /\ a \in Nat /\ Len(cs) \in Nat \ {0} /\ Len(r) = a + Len(cs) - 1
      /\ \A i \in 1 .. a : r[i] = more[i]
      /\ \A j \in 2 .. Len(cs) : j - 1 + a \in a + 1 .. Len(r) /\ r[j - 1 + a] = cs[j]
      /\ Head(cs) = cs[1]
  BY Spliced
<1> HIDE DEF r, a
<1>2. Comes(more, t) => Comes(r, t)
  BY <1>1 DEF Comes, a
<1>3. ASSUME NEW n \in 1 .. Len(cs), n # 1, cs[n].tor = t, cs[n].call \in Stopping
      PROVE  Comes(r, t)
  <2>1. n \in 2 .. Len(cs)
    BY <1>1, <1>3
  <2>2. n - 1 + a \in 1 .. Len(r) /\ r[n - 1 + a] = cs[n]
    BY <1>1, <2>1
  <2> QED
    BY <1>3, <2>2 DEF Comes
<1> QED
  BY <1>1, <1>2, <1>3 DEF Comes, r

\* The stops in the pipe and in the stack.
LEMMA StopsAreThere ==
  ASSUME NEW S, NEW p \in Seq(S), NEW c \in Seq(S), NEW t
  PROVE  (\E q \in {p, c} : \E n \in DOMAIN q : q[n].tor = t /\ q[n].call \in {"stopTorrent", "(stopTorrent)", "removeTorrent"})
           <=> Comes(p, t) \/ Comes(c, t)
<1>1. DOMAIN p = 1 .. Len(p) /\ DOMAIN c = 1 .. Len(c)
  OBVIOUS
<1> QED
  BY <1>1 DEF Comes, Stopping

-----------------------------------------------------------------------------
(* Torrents. *)

Typed ==
  /\ tor \in [Torrents -> Flags]
  /\ verifyPc \in {"dead", "loop", "begin", "verifying", "check", "fire"}
  /\ current \in Torrents \cup {NoTorrent}
  /\ verifyList \subseteq Torrents
  /\ stopCurrent \in BOOLEAN

\* What torrentStart does to the flags.
LEMMA StartIs ==
  ASSUME NEW t \in Torrents, NEW r \in Flags, NEW b \in BOOLEAN
  PROVE  LET s == torrentStart(t, r, b) IN
         /\ s \in Flags /\ s.exists = r.exists /\ s.verifyState = r.verifyState
         /\ s.started /\ ~s.isRunning => r.started /\ ~r.isRunning
<1>1. torrentStart(t, r, b) \in {r, [r EXCEPT !.startAfterVerify = TRUE], [r EXCEPT !.isQueued = TRUE],
                                 [r EXCEPT !.isRunning = TRUE, !.started = TRUE, !.isQueued = FALSE]}
  BY Zenon DEF torrentStart, torrentStartImpl
<1>2. ASSUME NEW s \in {r, [r EXCEPT !.startAfterVerify = TRUE], [r EXCEPT !.isQueued = TRUE],
                        [r EXCEPT !.isRunning = TRUE, !.started = TRUE, !.isQueued = FALSE]}
      PROVE  /\ s \in Flags /\ s.exists = r.exists /\ s.verifyState = r.verifyState
             /\ s.started /\ ~s.isRunning => r.started /\ ~r.isRunning
  BY <1>2 DEF Flags
<1> QED
  BY <1>1, <1>2

\* The free slots are a number.
LEMMA SlotsAreNumber == FreeSlots \in Nat
<1>1. Downloading \in SUBSET Torrents
  BY DEF Downloading
<1>2. Cardinality(Downloading) \in Nat
  BY <1>1, LifecycleAssumption, FS_Subset, FS_CardinalityType
<1> QED
  BY <1>2, LifecycleAssumption DEF FreeSlots

\* The queue has a first torrent.
LEMMA QueueHasFirst ==
  ASSUME Queued # {}
  PROVE  NextQueued \in Torrents
<1> DEFINE T == {QueuePosition[t] : t \in Queued}
<1>1. Queued \subseteq Torrents
  BY DEF Queued
<1>2. T \in SUBSET Nat /\ T # {}
  BY <1>1, LifecycleAssumption
<1> HIDE DEF T
<1>3. PICK m \in T : \A k \in T : m <= k
  BY <1>2, LeastNumber
<1>4. PICK t \in Queued : m = QueuePosition[t]
  BY <1>3 DEF T
<1>5. \A u \in Queued : QueuePosition[t] <= QueuePosition[u]
  BY <1>3, <1>4 DEF T
<1>6. NextQueued \in Queued
  BY <1>4, <1>5 DEF NextQueued
<1> QED
  BY <1>1, <1>6

\* Torrents in any order.
LEMMA OrderIs ==
  ASSUME NEW S \in SUBSET Torrents, NEW order \in SetToSeqs(S)
  PROVE  /\ Len(order) \in Nat /\ DOMAIN order = 1 .. Len(order)
         /\ \A n \in 1 .. Len(order) : order[n] \in S
         /\ \A f \in Calls : [n \in DOMAIN order |-> Call(f, order[n])] \in Seq(Frames)
<1>1. Cardinality(S) \in Nat
  BY LifecycleAssumption, FS_Subset, FS_CardinalityType
<1>2. order \in [1 .. Cardinality(S) -> S]
  BY DEF SetToSeqs
<1>3. order \in Seq(S) /\ Len(order) = Cardinality(S)
  BY <1>1, <1>2
<1>4. \A f \in Calls, n \in 1 .. Len(order) : Call(f, order[n]) \in Frames
  BY <1>1, <1>2, <1>3 DEF Call, Frames
<1>5. \A f \in Calls : [n \in 1 .. Len(order) |-> Call(f, order[n])] \in Seq(Frames)
  BY <1>1, <1>3, <1>4
<1> QED
  BY <1>1, <1>2, <1>3, <1>5

\* A step that changes no verify state, and frees no torrent.
LEMMA VerifyKept ==
  ASSUME Typed, VerifyInv, UNCHANGED verifyVars, tor' \in [Torrents -> Flags],
         \A t \in Torrents : tor'[t].exists = tor[t].exists /\ tor'[t].verifyState = tor[t].verifyState,
         closing => closing'
  PROVE  Typed' /\ VerifyInv' /\ LetGo' = LetGo
<1>1. verifyPc' = verifyPc /\ current' = current /\ verifyList' = verifyList /\ stopCurrent' = stopCurrent
  BY DEF verifyVars
<1>2. Typed' /\ LetGo' = LetGo
  BY <1>1 DEF Typed, LetGo
<1>3. VerifyStateIsTrue'
  BY <1>1 DEF VerifyStateIsTrue, VerifyInv
<1> QED
  BY <1>1, <1>2, <1>3 DEF VerifyInv, Typed, ListIsServed

\* What is to be stopped.
Unstopped(r) == r.exists /\ r.started /\ ~r.isRunning

\* A call of the event thread that returns, having called more first.
Returning(more) ==
  /\ calls # <<>> /\ Return(more) /\ UNCHANGED <<pipe, userVars>>
  /\ More(more, LetGo', Head(calls))
  /\ \A n \in 1 .. Len(more) :
       /\ more[n].call = "(tr_verifyRemove wait)" =>
            more[n].tor \in Torrents \ verifyList' /\ (more[n].tor = current' => stopCurrent')
       /\ more[n].call \in Closing => closing
  /\ LetGo \subseteq LetGo' /\ Typed' /\ VerifyInv'
  /\ \A t \in Torrents : Unstopped(tor'[t]) =>
       Comes(more, t) \/ (Unstopped(tor[t]) /\ ~(Head(calls).tor = t /\ Head(calls).call \in Stopping))

\* Such a call keeps the invariant.
LEMMA Returns ==
  ASSUME LInv, NEW more, Returning(more)
  PROVE  LInv'
<1> DEFINE a == Len(more)
<1>1. calls' = more \o Tail(calls) /\ calls \in Seq(Frames) /\ more \in Seq(Frames)
  BY DEF Returning, Return, LInv, CallsInv, Stack, More
<1>2. Stack(calls', LetGo')
  BY <1>1, StackSpliced DEF LInv, CallsInv, Returning
<1>12. calls # <<>>
  BY DEF Returning
<1>3. /\ a \in Nat /\ Len(calls) \in Nat /\ Len(calls') \in Nat
  BY <1>1, <1>12, Spliced
<1>10. \A i \in 1 .. a : calls'[i] = more[i]
  BY <1>1, <1>12, Spliced
<1>11. \A i \in a + 1 .. Len(calls') : i - a + 1 \in 2 .. Len(calls) /\ calls'[i] = calls[i - a + 1]
  BY <1>1, <1>12, Spliced
<1>4. pipe' = pipe /\ closing' = closing /\ removed' = removed /\ commands' = commands /\ starting' = starting
  BY DEF Returning, userVars
<1>5. calls' \in Seq(Frames)
  BY <1>2 DEF Stack
<1>6. ASSUME NEW n \in 1 .. Len(calls')
      PROVE  /\ calls'[n].call = "(tr_verifyRemove wait)" =>
                  calls'[n].tor \in Torrents \ verifyList' /\ (calls'[n].tor = current' => stopCurrent')
             /\ calls'[n].call \in Closing => closing'
  <2>1. CASE n \in 1 .. a
    BY <1>4, <1>10, <2>1 DEF Returning
  <2>2. CASE n \in a + 1 .. Len(calls')
    <3> DEFINE j == n - a + 1
    <3>1. j \in 2 .. Len(calls) /\ calls'[n] = calls[j]
      BY <1>11, <2>2
    <3> HIDE DEF j
    <3>2. j \in 1 .. Len(calls) /\ j # 1
      BY <1>3, <3>1
    <3>3. calls[j].call # "(tr_verifyRemove wait)"
      BY <3>2 DEF LInv, CallsInv, Stack
    <3>4. calls[j].call \in Closing => closing
      BY <3>2 DEF LInv, CallsInv
    <3> QED
      BY <1>4, <3>1, <3>3, <3>4
  <2>3. n \in 1 .. a \/ n \in a + 1 .. Len(calls')
    BY <1>3
  <2> QED
    BY <2>1, <2>2, <2>3
<1>7. CallsInv'
  <2>1. \A n \in 1 .. Len(pipe') : pipe'[n].call \in Closing => closing'
    BY <1>4 DEF LInv, CallsInv
  <2> QED
    BY <1>2, <1>6, <2>1 DEF CallsInv
<1>8. TypeOK'
  BY <1>4, <1>5 DEF LInv, TypeOK, Typed, Frames, Returning
<1>9. StopIsOnItsWay'
  <2> SUFFICES ASSUME NEW t \in Torrents, Unstopped(tor'[t])
               PROVE  \E q \in {pipe', calls'} : \E n \in DOMAIN q :
                        q[n].tor = t /\ q[n].call \in {"stopTorrent", "(stopTorrent)", "removeTorrent"}
    BY DEF StopIsOnItsWay, Unstopped
  <2> DEFINE S == Frames \cup [call : Functions \ {"sessionCloseImpl"}, tor : Torrents] \cup {Call("sessionCloseImpl", NoTorrent)}
  <2>1. pipe \in Seq(S) /\ pipe' \in Seq(S) /\ calls \in Seq(S) /\ calls' \in Seq(S)
    <3> DEFINE R == [call : Functions \ {"sessionCloseImpl"}, tor : Torrents] \cup {Call("sessionCloseImpl", NoTorrent)}
    <3>1. pipe \in Seq(R)
      BY DEF LInv, TypeOK
    <3> HIDE DEF R
    <3>2. R \subseteq S /\ Frames \subseteq S
      BY DEF R
    <3> HIDE DEF S
    <3> QED
      BY <1>1, <1>4, <1>5, <3>1, <3>2, LongerSeq
  <2> HIDE DEF S
  <2>2. Comes(more, t) \/ (Unstopped(tor[t]) /\ ~(Head(calls).tor = t /\ Head(calls).call \in Stopping))
    BY DEF Returning
  <2>3. Unstopped(tor[t]) => Comes(pipe, t) \/ Comes(calls, t)
    BY <2>1, StopsAreThere DEF LInv, StopIsOnItsWay, Unstopped
  <2>4. Comes(pipe', t) \/ Comes(calls', t)
    BY <1>1, <1>4, <1>12, <2>2, <2>3, ComesSpliced
  <2>5. pipe' \in Seq(S) /\ calls' \in Seq(S)
    BY <2>1
  <2>6. DOMAIN pipe' = 1 .. Len(pipe') /\ DOMAIN calls' = 1 .. Len(calls')
    BY <2>5
  <2> QED
    BY <2>4, <2>6 DEF Comes, Stopping
<1> QED
  BY <1>7, <1>8, <1>9 DEF LInv, Returning

\* Behind the only element there is nothing.
LEMMA NothingAfterOne ==
  ASSUME NEW S, NEW s \in Seq(S), Len(s) = 1
  PROVE  Tail(s) = <<>>
<1>1. s # <<>>
  OBVIOUS
<1> DEFINE t == Tail(s)
<1>2. t \in Seq(S) /\ Len(t) = 0
  BY <1>1
<1> HIDE DEF t
<1>3. t = <<>>
  BY <1>2
<1> QED
  BY <1>3 DEF t

\* What LInv says of the next call.
LEMMA NextCallIs ==
  ASSUME LInv
  PROVE  /\ Typed /\ VerifyInv /\ calls \in Seq(Frames) /\ Len(calls) \in Nat
         /\ calls # <<>> =>
              /\ Head(calls) = calls[1] /\ Head(calls) \in Frames /\ 1 \in 1 .. Len(calls)
              /\ Head(calls).call \in Behind => Head(calls).tor \in LetGo
              /\ Head(calls).call \in Outermost => Tail(calls) = <<>>
              /\ Head(calls).call \in Closing => closing
              /\ Head(calls).call = "(tr_verifyRemove wait)" =>
                   Head(calls).tor \in Torrents \ verifyList /\ (Head(calls).tor = current => stopCurrent)
<1>1. Typed /\ VerifyInv /\ calls \in Seq(Frames)
  BY DEF LInv, TypeOK, Typed, Frames
<1>2. Len(calls) \in Nat
  BY <1>1
<1>3. ASSUME calls # <<>>
      PROVE  /\ Head(calls) = calls[1] /\ Head(calls) \in Frames /\ 1 \in 1 .. Len(calls)
             /\ Head(calls).call \in Behind => Head(calls).tor \in LetGo
             /\ Head(calls).call \in Outermost => Tail(calls) = <<>>
             /\ Head(calls).call \in Closing => closing
             /\ Head(calls).call = "(tr_verifyRemove wait)" =>
                  Head(calls).tor \in Torrents \ verifyList /\ (Head(calls).tor = current => stopCurrent)
  <2>1. Head(calls) = calls[1] /\ Head(calls) \in Frames /\ 1 \in 1 .. Len(calls)
    BY <1>1, <1>3
  <2>2. Head(calls).call \in Behind => Head(calls).tor \in LetGo
    <3>1. calls[1].call \in Behind =>
            calls[1].tor \in LetGo \/ \E m \in 1 .. 1 - 1 : calls[m].tor = calls[1].tor /\ calls[m].call \in Letting
      BY <2>1 DEF LInv, CallsInv, Stack
    <3>2. 1 .. 1 - 1 = {}
      OBVIOUS
    <3> QED
      BY <2>1, <3>1, <3>2
  <2>3. Head(calls).call \in Outermost => Tail(calls) = <<>>
    <3>1. Head(calls).call \in Outermost => Len(calls) = 1
      BY <2>1 DEF LInv, CallsInv, Stack
    <3> QED
      BY <1>1, <3>1, NothingAfterOne
  <2>4. /\ Head(calls).call \in Closing => closing
        /\ Head(calls).call = "(tr_verifyRemove wait)" =>
             Head(calls).tor \in Torrents \ verifyList /\ (Head(calls).tor = current => stopCurrent)
    BY <2>1 DEF LInv, CallsInv
  <2> QED
    BY <2>1, <2>2, <2>3, <2>4
<1> QED
  BY <1>1, <1>2, <1>3

\* A call that returns at once.
LEMMA NoMore ==
  ASSUME NEW C, NEW h, h.call \in Letting => h.tor \in C
  PROVE  More(<<>>, C, h)
BY DEF More

\* A call that only calls others.
LEMMA Expands ==
  ASSUME LInv, calls # <<>>, NEW more, Expand(more), More(more, LetGo, Head(calls)),
         \A n \in 1 .. Len(more) :
           /\ more[n].call = "(tr_verifyRemove wait)" =>
                more[n].tor \in Torrents \ verifyList /\ (more[n].tor = current => stopCurrent)
           /\ more[n].call \in Closing => closing,
         \A t \in Torrents : Head(calls).tor = t /\ Head(calls).call \in Stopping /\ Unstopped(tor[t]) => Comes(more, t)
  PROVE  LInv'
<1>1. Typed /\ VerifyInv /\ UNCHANGED <<tor, verifyVars, pipe, userVars>> /\ Return(more)
  BY NextCallIs DEF Expand
<1>2. verifyList' = verifyList /\ current' = current /\ stopCurrent' = stopCurrent /\ closing' = closing /\ tor' = tor
  BY <1>1 DEF verifyVars, userVars
<1>3. Typed' /\ VerifyInv' /\ LetGo' = LetGo
  BY <1>1, <1>2, VerifyKept DEF Typed
<1>4. Returning(more)
  BY <1>1, <1>2, <1>3 DEF Returning
<1> QED
  BY <1>4, Returns

\* A call that sets flags of its torrent.
LEMMA Sets ==
  ASSUME LInv, NEW t \in Torrents, NEW f, Calling(f, t), f \notin Letting, NEW r \in Flags, SetFlags(t, r),
         r.exists = tor[t].exists, r.verifyState = tor[t].verifyState,
         Unstopped(r) => Unstopped(tor[t]) /\ f \notin Stopping
  PROVE  LInv'
<1>1. Typed /\ VerifyInv /\ UNCHANGED <<verifyVars, pipe, userVars>> /\ Return(<<>>) /\ calls # <<>>
      /\ Head(calls) = Call(f, t) /\ tor' = [tor EXCEPT ![t] = r]
  BY NextCallIs DEF SetFlags, Update, Calling
<1>2. verifyList' = verifyList /\ current' = current /\ stopCurrent' = stopCurrent /\ closing' = closing
  BY <1>1 DEF verifyVars, userVars
<1>3. tor' \in [Torrents -> Flags] /\ tor'[t] = r /\ \A u \in Torrents : u # t => tor'[u] = tor[u]
  BY <1>1 DEF Typed
<1>4. Typed' /\ VerifyInv' /\ LetGo' = LetGo
  BY <1>1, <1>2, <1>3, VerifyKept
<1>5. Head(calls).call = f /\ Head(calls).tor = t
  BY <1>1 DEF Call
<1>6. More(<<>>, LetGo', Head(calls))
  BY <1>5, NoMore
<1>7. Returning(<<>>)
  BY <1>1, <1>3, <1>4, <1>5, <1>6 DEF Returning
<1> QED
  BY <1>7, Returns

\* The calls that set flags.
LEMMA FlagCalls ==
  ASSUME LInv, NEW t \in Torrents,
         \/ StartImpl(t) \/ StartNow(t) \/ StartFromRpc(t) \/ RecheckDone(t)
         \/ (Calling("(stopTorrent)", t) /\ SetFlags(t, stopTorrent(tor[t])))
  PROVE  LInv'
<1>1. tor[t] \in Flags
  BY NextCallIs DEF Typed
<1>2. CASE StartImpl(t)
  <2>1. /\ torrentStartImpl(tor[t]) \in Flags /\ ~Unstopped(torrentStartImpl(tor[t]))
        /\ torrentStartImpl(tor[t]).exists = tor[t].exists /\ torrentStartImpl(tor[t]).verifyState = tor[t].verifyState
    BY <1>1 DEF torrentStartImpl, Flags, Unstopped
  <2> QED
    BY <1>2, <2>1, Sets DEF StartImpl, Letting
<1>3. CASE StartNow(t)
  <2> DEFINE r == torrentStart(t, tor[t], TRUE)
  <2>1. r \in Flags /\ (Unstopped(r) => Unstopped(tor[t])) /\ r.exists = tor[t].exists /\ r.verifyState = tor[t].verifyState
    BY <1>1, StartIs DEF Unstopped
  <2>2. Calling("tr_torrentStartNow", t) /\ SetFlags(t, r)
    BY <1>3 DEF StartNow
  <2>3. "tr_torrentStartNow" \notin Letting /\ "tr_torrentStartNow" \notin Stopping
    BY DEF Letting, Stopping
  <2> HIDE DEF r
  <2> QED
    BY <2>1, <2>2, <2>3, Sets
<1>4. CASE StartFromRpc(t)
  <2> DEFINE r == torrentStart(t, tor[t], FALSE)
  <2>1. r \in Flags /\ (Unstopped(r) => Unstopped(tor[t])) /\ r.exists = tor[t].exists /\ r.verifyState = tor[t].verifyState
    BY <1>1, StartIs DEF Unstopped
  <2>2. Calling("tr_torrentStart", t) /\ SetFlags(t, r)
    BY <1>4 DEF StartFromRpc
  <2>3. "tr_torrentStart" \notin Letting /\ "tr_torrentStart" \notin Stopping
    BY DEF Letting, Stopping
  <2> HIDE DEF r
  <2> QED
    BY <2>1, <2>2, <2>3, Sets
<1>5. CASE RecheckDone(t)
  <2> DEFINE q == [tor[t] EXCEPT !.startAfterVerify = FALSE]
             r == IF tor[t].startAfterVerify THEN torrentStart(t, q, FALSE) ELSE tor[t]
  <2>1. q \in Flags /\ q.exists = tor[t].exists /\ q.verifyState = tor[t].verifyState /\ (Unstopped(q) <=> Unstopped(tor[t]))
    BY <1>1 DEF Flags, Unstopped
  <2> HIDE DEF q
  <2>2. r \in Flags /\ (Unstopped(r) => Unstopped(tor[t])) /\ r.exists = tor[t].exists /\ r.verifyState = tor[t].verifyState
    BY <1>1, <2>1, StartIs DEF Unstopped
  <2>3. Calling("torrentRecheckDoneImpl", t) /\ SetFlags(t, r)
    BY <1>5 DEF RecheckDone, q
  <2>4. "torrentRecheckDoneImpl" \notin Letting /\ "torrentRecheckDoneImpl" \notin Stopping
    BY DEF Letting, Stopping
  <2> HIDE DEF r
  <2> QED
    BY <2>2, <2>3, <2>4, Sets
<1>6. CASE Calling("(stopTorrent)", t) /\ SetFlags(t, stopTorrent(tor[t]))
  <2>1. /\ stopTorrent(tor[t]) \in Flags /\ ~Unstopped(stopTorrent(tor[t]))
        /\ stopTorrent(tor[t]).exists = tor[t].exists /\ stopTorrent(tor[t]).verifyState = tor[t].verifyState
    BY <1>1 DEF stopTorrent, Flags, Unstopped
  <2> QED
    BY <1>6, <2>1, Sets DEF Letting
<1> QED
  BY <1>2, <1>3, <1>4, <1>5, <1>6

\* The places of a pair.
LEMMA OneAndTwo == 1 \in 1 .. 2 /\ 2 \in 1 .. 2 /\ 1 \in 1 .. 2 - 1
OBVIOUS

\* A sequence of two.
LEMMA PairIs ==
  ASSUME NEW S, NEW x \in S, NEW y \in S
  PROVE  LET q == <<x, y>> IN
         /\ q \in Seq(S) /\ Len(q) = 2 /\ q[1] = x /\ q[2] = y
         /\ \A n \in 1 .. Len(q) : n = 1 \/ n = 2
OBVIOUS

\* A sequence of the same again and again.
LEMMA RepeatIs ==
  ASSUME NEW S, NEW x \in S, NEW k \in Nat
  PROVE  LET q == [n \in 1 .. k |-> x] IN
         q \in Seq(S) /\ Len(q) = k /\ \A n \in 1 .. Len(q) : q[n] = x
<1>1. [n \in 1 .. k |-> x] \in [1 .. k -> S]
  OBVIOUS
<1> QED
  BY <1>1

\* A call that only returns.
LEMMA ExpandsNothing ==
  ASSUME LInv, calls # <<>>, Expand(<<>>), Head(calls).call \in Letting => Head(calls).tor \in LetGo,
         \A t \in Torrents : ~(Head(calls).tor = t /\ Head(calls).call \in Stopping /\ Unstopped(tor[t]))
  PROVE  LInv'
<1> DEFINE more == <<>>
<1>1. More(more, LetGo, Head(calls)) /\ \A n \in 1 .. Len(more) : FALSE
  BY NoMore
<1>2. Expand(more)
  OBVIOUS
<1> HIDE DEF more
<1> QED
  BY <1>1, <1>2, Expands

\* The next call.
LEMMA CallingIs ==
  ASSUME NEW f, NEW t, Calling(f, t)
  PROVE  calls # <<>> /\ Head(calls).call = f /\ Head(calls).tor = t
BY DEF Calling, Call

\* A call on a torrent that was freed, and the calls that look for the next in the queue.
LEMMA OtherCalls ==
  ASSUME LInv, CallOnFreed \/ QueuePulse \/ StartNextQueued
  PROVE  LInv'
<1>1. CASE CallOnFreed
  <2>1. calls # <<>> /\ Expand(<<>>) /\ Head(calls).tor \in Torrents /\ ~tor[Head(calls).tor].exists
    BY <1>1 DEF CallOnFreed
  <2>2. Head(calls).tor \in LetGo
    BY <2>1, LifecycleAssumption DEF LInv, VerifyInv, LetGo, TypeOK
  <2>4. \A t \in Torrents : Head(calls).tor = t => ~Unstopped(tor[t])
    BY <2>1 DEF Unstopped
  <2> QED
    BY <2>1, <2>2, <2>4, ExpandsNothing
<1>2. CASE QueuePulse
  <2> DEFINE more == [n \in 1 .. FreeSlots |-> Call("(queuePulse loop)", NoTorrent)]
  <2>1. calls # <<>> /\ Head(calls).call = "queuePulse" /\ Expand(more)
    BY <1>2 DEF QueuePulse
  <2>2. FreeSlots \in Nat
    BY SlotsAreNumber
  <2>3. Call("(queuePulse loop)", NoTorrent) \in Frames
    BY DEF Call, Frames, Calls
  <2>4. more \in Seq(Frames) /\ \A n \in 1 .. Len(more) : more[n].call = "(queuePulse loop)"
    <3> DEFINE x == Call("(queuePulse loop)", NoTorrent)
    <3>1. x \in Frames /\ x.call = "(queuePulse loop)"
      BY <2>3 DEF Call
    <3> HIDE DEF x
    <3>2. more = [n \in 1 .. FreeSlots |-> x]
      BY DEF x
    <3> HIDE DEF more
    <3> QED
      BY <2>2, <3>1, <3>2, RepeatIs
  <2> HIDE DEF more
  <2>5. More(more, LetGo, Head(calls))
    BY <2>1, <2>4 DEF More, Outermost, Behind, Letting
  <2>6. \A n \in 1 .. Len(more) : more[n].call # "(tr_verifyRemove wait)" /\ more[n].call \notin Closing
    BY <2>4 DEF Closing
  <2>7. Head(calls).call \notin Stopping
    BY <2>1 DEF Stopping
  <2> QED
    BY <2>1, <2>5, <2>6, <2>7, Expands
<1>3. CASE StartNextQueued
  <2> DEFINE more == IF Queued = {} THEN <<>> ELSE <<Call("tr_torrentStartNow", NextQueued)>>
  <2>1. calls # <<>> /\ Head(calls).call = "(queuePulse loop)" /\ Expand(more)
    BY <1>3 DEF StartNextQueued
  <2>2. Queued # {} => Call("tr_torrentStartNow", NextQueued) \in Frames
    BY QueueHasFirst DEF Call, Frames, Calls
  <2>3. more \in Seq(Frames) /\ \A n \in 1 .. Len(more) : more[n].call = "tr_torrentStartNow"
    BY <2>2 DEF Call
  <2> HIDE DEF more
  <2>4. More(more, LetGo, Head(calls))
    BY <2>1, <2>3 DEF More, Outermost, Behind, Letting
  <2>5. \A n \in 1 .. Len(more) : more[n].call # "(tr_verifyRemove wait)" /\ more[n].call \notin Closing
    BY <2>3 DEF Closing
  <2>6. Head(calls).call \notin Stopping
    BY <2>1 DEF Stopping
  <2> QED
    BY <2>1, <2>4, <2>5, <2>6, Expands
<1> QED
  BY <1>1, <1>2, <1>3

\* Two calls on t, of which the first lets go of it if the second is behind that.
LEMMA TwoCalls ==
  ASSUME NEW f \in Calls, NEW g \in Calls, NEW t \in Torrents, NEW C, NEW h,
         f \notin Outermost \cup Behind \cup Closing, f # "(tr_verifyRemove wait)",
         g \notin Closing, g # "(tr_verifyRemove wait)",
         g \in Outermost => h.call \in Outermost,
         g \in Behind => f \in Letting \/ t \in C,
         h.call \in Letting => h.tor \in C \/ (h.tor = t /\ f \in Letting)
  PROVE  LET more == <<Call(f, t), Call(g, t)>> IN
         /\ More(more, C, h)
         /\ \A n \in 1 .. Len(more) : more[n].call # "(tr_verifyRemove wait)" /\ more[n].call \notin Closing
         /\ f \in Stopping \/ g \in Stopping => Comes(more, t)
<1> DEFINE more == <<Call(f, t), Call(g, t)>>
<1>1. Call(f, t) \in Frames /\ Call(g, t) \in Frames
  BY DEF Call, Frames
<1>2. /\ more \in Seq(Frames) /\ Len(more) = 2 /\ \A n \in 1 .. Len(more) : n = 1 \/ n = 2
      /\ more[1].call = f /\ more[1].tor = t /\ more[2].call = g /\ more[2].tor = t
  <2> DEFINE x == Call(f, t)
             y == Call(g, t)
  <2>1. x \in Frames /\ y \in Frames /\ x.call = f /\ x.tor = t /\ y.call = g /\ y.tor = t
    BY <1>1 DEF Call
  <2> HIDE DEF x, y
  <2>2. <<x, y>> \in Seq(Frames) /\ Len(<<x, y>>) = 2 /\ <<x, y>>[1] = x /\ <<x, y>>[2] = y
        /\ \A n \in 1 .. Len(<<x, y>>) : n = 1 \/ n = 2
    BY <2>1, PairIs
  <2> QED
    BY <2>1, <2>2 DEF x, y
<1> HIDE DEF more
<1>3. \A n \in 1 .. Len(more) : n = 1 \/ n = 2
  BY <1>2
<1>4. 1 \in 1 .. Len(more) /\ 2 \in 1 .. Len(more) /\ 1 \in 1 .. 2 - 1
  <2>1. Len(more) = 2
    BY <1>2
  <2> QED
    BY <2>1, OneAndTwo
<1>5. More(more, C, h)
  <2>1. \A n \in 1 .. Len(more) : more[n].call \in Outermost => n = Len(more) /\ h.call \in Outermost
    BY <1>2, <1>3
  <2>2. \A n \in 1 .. Len(more) : more[n].call \in Behind =>
            more[n].tor \in C \/ \E m \in 1 .. n - 1 : more[m].tor = more[n].tor /\ more[m].call \in Letting
    BY <1>2, <1>3, <1>4
  <2>3. h.call \in Letting =>
          h.tor \in C \/ \E m \in 1 .. Len(more) : more[m].tor = h.tor /\ more[m].call \in Letting
    BY <1>2, <1>4
  <2>4. \A n \in 1 .. Len(more) : more[n].call # "(tr_verifyRemove wait)"
    BY <1>2, <1>3
  <2> QED
    BY <1>2, <2>1, <2>2, <2>3, <2>4 DEF More
<1>6. \A n \in 1 .. Len(more) : more[n].call # "(tr_verifyRemove wait)" /\ more[n].call \notin Closing
  BY <1>2, <1>3
<1>7. f \in Stopping \/ g \in Stopping => Comes(more, t)
  BY <1>2, <1>4 DEF Comes
<1> QED
  BY <1>5, <1>6, <1>7 DEF more

\* One call on t.
LEMMA OneCall ==
  ASSUME NEW f \in Calls, NEW t \in Torrents, NEW C, NEW h,
         f \in Outermost => h.call \in Outermost,
         f \in Behind => t \in C,
         h.call \in Letting => h.tor \in C \/ (h.tor = t /\ f \in Letting)
  PROVE  LET more == <<Call(f, t)>> IN
         /\ More(more, C, h)
         /\ \A n \in 1 .. Len(more) : more[n].call = f /\ more[n].tor = t
         /\ f \in Stopping => Comes(more, t)
<1> DEFINE more == <<Call(f, t)>>
<1>1. Call(f, t) \in Frames
  BY DEF Call, Frames
<1>2. /\ more \in Seq(Frames) /\ Len(more) = 1 /\ more[1].call = f /\ more[1].tor = t
  BY <1>1 DEF Call
<1> HIDE DEF more
<1>3. \A n \in 1 .. Len(more) : n = 1
  BY <1>2
<1>4. 1 \in 1 .. Len(more)
  BY <1>2
<1>5. More(more, C, h)
  BY <1>2, <1>3, <1>4 DEF More
<1>6. f \in Stopping => Comes(more, t)
  BY <1>2, <1>4 DEF Comes
<1> QED
  BY <1>2, <1>3, <1>5, <1>6 DEF more

\* The calls that only call others on their torrent.
LEMMA StopCalls ==
  ASSUME LInv, NEW t \in Torrents,
         \/ Calling("stopTorrent", t) /\ Expand(<<Call("tr_verifyRemove", t), Call("(stopTorrent)", t)>>)
         \/ Calling("removeTorrent", t) /\ Expand(<<Call("stopTorrent", t), Call("(removeTorrent)", t)>>)
         \/ VerifyTorrent(t)
         \/ Calling("(tr_verifyRemove wait)", t) /\ ~stopCurrent /\ Expand(<<>>)
  PROVE  LInv'
<1>2. CASE Calling("stopTorrent", t) /\ Expand(<<Call("tr_verifyRemove", t), Call("(stopTorrent)", t)>>)
  <2> DEFINE more == <<Call("tr_verifyRemove", t), Call("(stopTorrent)", t)>>
  <2>1. calls # <<>> /\ Head(calls).call = "stopTorrent" /\ Head(calls).tor = t /\ Expand(more)
    BY <1>2, CallingIs
  <2>2. /\ More(more, LetGo, Head(calls)) /\ Comes(more, t)
        /\ \A n \in 1 .. Len(more) : more[n].call # "(tr_verifyRemove wait)" /\ more[n].call \notin Closing
    <3>1. /\ "tr_verifyRemove" \in Calls /\ "(stopTorrent)" \in Calls
          /\ "tr_verifyRemove" \notin Outermost \cup Behind \cup Closing /\ "tr_verifyRemove" \in Letting
          /\ "(stopTorrent)" \notin Closing \cup Outermost /\ "(stopTorrent)" \in Stopping
      BY DEF Calls, Outermost, Behind, Closing, Letting, Stopping
    <3> QED
      BY <2>1, <3>1, TwoCalls
  <2> HIDE DEF more
  <2> QED
    BY <2>1, <2>2, Expands
<1>3. CASE Calling("removeTorrent", t) /\ Expand(<<Call("stopTorrent", t), Call("(removeTorrent)", t)>>)
  <2> DEFINE more == <<Call("stopTorrent", t), Call("(removeTorrent)", t)>>
  <2>1. calls # <<>> /\ Head(calls).call = "removeTorrent" /\ Head(calls).tor = t /\ Expand(more)
    BY <1>3, CallingIs
  <2>2. /\ More(more, LetGo, Head(calls)) /\ Comes(more, t)
        /\ \A n \in 1 .. Len(more) : more[n].call # "(tr_verifyRemove wait)" /\ more[n].call \notin Closing
    <3>1. /\ "stopTorrent" \in Calls /\ "(removeTorrent)" \in Calls
          /\ "stopTorrent" \notin Outermost \cup Behind \cup Closing /\ "stopTorrent" \in Letting \cap Stopping
          /\ "(removeTorrent)" \notin Closing \cup Outermost
          /\ "removeTorrent" \notin Letting
      BY DEF Calls, Functions, Outermost, Behind, Closing, Letting, Stopping
    <3> QED
      BY <2>1, <3>1, TwoCalls
  <2> HIDE DEF more
  <2> QED
    BY <2>1, <2>2, Expands
<1>4. CASE VerifyTorrent(t)
  <2>1. CASE Calling("verifyTorrent", t) /\ Expand(<<Call("tr_verifyRemove", t), Call("(verifyTorrent)", t)>>)
    <3> DEFINE more == <<Call("tr_verifyRemove", t), Call("(verifyTorrent)", t)>>
    <3>1. calls # <<>> /\ Head(calls).call = "verifyTorrent" /\ Head(calls).tor = t /\ Expand(more)
      BY <2>1, CallingIs
    <3>2. /\ More(more, LetGo, Head(calls)) /\ Head(calls).call \notin Stopping
          /\ \A n \in 1 .. Len(more) : more[n].call # "(tr_verifyRemove wait)" /\ more[n].call \notin Closing
      <4>1. /\ "tr_verifyRemove" \in Calls /\ "(verifyTorrent)" \in Calls
            /\ "tr_verifyRemove" \notin Outermost \cup Behind \cup Closing /\ "tr_verifyRemove" \in Letting
            /\ "(verifyTorrent)" \notin Closing
            /\ "verifyTorrent" \notin Letting /\ "verifyTorrent" \notin Stopping /\ "verifyTorrent" \in Outermost
        BY DEF Calls, Outermost, Behind, Closing, Letting, Stopping
      <4> QED
        BY <3>1, <4>1, TwoCalls
    <3> HIDE DEF more
    <3> QED
      BY <3>1, <3>2, Expands
  <2>2. ASSUME NEW g \in {"(verifyTorrent end, start)", "(verifyTorrent end)"}, Calling("(verifyTorrent)", t),
               Expand(IF tor[t].isRunning THEN <<Call("tr_torrentStop", t), Call(g, t)>> ELSE <<Call(g, t)>>)
        PROVE  LInv'
    <3>2. calls # <<>> /\ Head(calls).call = "(verifyTorrent)" /\ Head(calls).tor = t
      BY <2>2, CallingIs
    <3>3. t \in LetGo
      BY <3>2, NextCallIs DEF Behind
    <3>4. Head(calls).call \notin Stopping /\ Head(calls).call \in Outermost /\ Head(calls).call \notin Letting
      BY <3>2 DEF Stopping, Outermost, Letting
    <3>5. g \in Calls /\ g \notin Closing /\ g # "(tr_verifyRemove wait)"
      BY DEF Calls, Closing
    <3>6. CASE tor[t].isRunning
      <4> DEFINE more == <<Call("tr_torrentStop", t), Call(g, t)>>
      <4>1. "tr_torrentStop" \in Calls /\ "tr_torrentStop" \notin Outermost \cup Behind \cup Closing
        BY DEF Calls, Outermost, Behind, Closing
      <4>2. /\ More(more, LetGo, Head(calls))
            /\ \A n \in 1 .. Len(more) : more[n].call # "(tr_verifyRemove wait)" /\ more[n].call \notin Closing
        BY <3>3, <3>4, <3>5, <4>1, TwoCalls
      <4>3. Expand(more)
        BY <2>2, <3>6
      <4> HIDE DEF more
      <4> QED
        BY <3>2, <3>4, <4>2, <4>3, Expands
    <3>7. CASE ~tor[t].isRunning
      <4> DEFINE more == <<Call(g, t)>>
      <4>1. More(more, LetGo, Head(calls)) /\ \A n \in 1 .. Len(more) : more[n].call = g /\ more[n].tor = t
        <5> DEFINE h == Head(calls)
        <5>1. h.call \in Outermost /\ h.call \notin Letting
          BY <3>4
        <5> HIDE DEF h
        <5>2. More(more, LetGo, h) /\ \A n \in 1 .. Len(more) : more[n].call = g /\ more[n].tor = t
          BY <3>3, <3>5, <5>1, OneCall
        <5> QED
          BY <5>2 DEF h
      <4>2. Expand(more)
        BY <2>2, <3>7
      <4> HIDE DEF more
      <4> QED
        BY <3>2, <3>4, <3>5, <4>1, <4>2, Expands
    <3> QED
      BY <3>6, <3>7
  <2>3. ASSUME ~(Calling("verifyTorrent", t) /\ Expand(<<Call("tr_verifyRemove", t), Call("(verifyTorrent)", t)>>))
        PROVE  /\ Calling("(verifyTorrent)", t)
               /\ \E g \in {"(verifyTorrent end, start)", "(verifyTorrent end)"} :
                    Expand(IF tor[t].isRunning THEN <<Call("tr_torrentStop", t), Call(g, t)>> ELSE <<Call(g, t)>>)
    BY <1>4, <2>3 DEF VerifyTorrent
  <2> QED
    BY <2>1, <2>2, <2>3
<1>5. CASE Calling("(tr_verifyRemove wait)", t) /\ ~stopCurrent /\ Expand(<<>>)
  <2>1. calls # <<>> /\ Head(calls).call = "(tr_verifyRemove wait)" /\ Head(calls).tor = t
    BY <1>5, CallingIs
  <2>2. t \in LetGo
    BY <1>5, <2>1, NextCallIs DEF LetGo
  <2>3. Head(calls).call \notin Stopping
    BY <2>1 DEF Stopping
  <2> QED
    BY <1>5, <2>1, <2>2, <2>3, ExpandsNothing
<1> QED
  BY <1>2, <1>3, <1>4, <1>5

-----------------------------------------------------------------------------
(* The calls that change more than flags. *)

\* tr_torrentStop.
LEMMA StopNowKeeps ==
  ASSUME LInv, NEW t \in Torrents, StopNow(t)
  PROVE  LInv'
<1> DEFINE more == <<Call("stopTorrent", t)>>
           r == [tor[t] EXCEPT !.isRunning = FALSE, !.isStopping = FALSE]
<1>1. /\ calls # <<>> /\ Head(calls).call = "tr_torrentStop" /\ Head(calls).tor = t /\ Typed /\ VerifyInv
  BY CallingIs, NextCallIs DEF StopNow
<1>2. Return(more) /\ UNCHANGED <<pipe, verifyVars, userVars>> /\ tor' = [tor EXCEPT ![t] = r]
  BY DEF StopNow, Update
<1>3. r \in Flags /\ r.exists = tor[t].exists /\ r.verifyState = tor[t].verifyState
  <2>1. tor[t] \in Flags
    BY <1>1 DEF Typed
  <2> QED
    BY <2>1 DEF Flags
<1> HIDE DEF r
<1>4. tor' \in [Torrents -> Flags] /\ tor'[t] = r /\ \A u \in Torrents : u # t => tor'[u] = tor[u]
  BY <1>1, <1>2, <1>3 DEF Typed
<1>5. Typed' /\ VerifyInv' /\ LetGo' = LetGo
  BY <1>1, <1>2, <1>3, <1>4, VerifyKept DEF userVars
<1>6. /\ More(more, LetGo', Head(calls)) /\ Comes(more, t)
      /\ \A n \in 1 .. Len(more) : more[n].call = "stopTorrent"
  <2>1. /\ "stopTorrent" \in Calls /\ "stopTorrent" \notin Outermost \cup Behind /\ "stopTorrent" \in Stopping
        /\ Head(calls).call \notin Letting
    BY <1>1 DEF Calls, Functions, Outermost, Behind, Stopping, Letting
  <2> QED
    BY <2>1, OneCall
<1> HIDE DEF more
<1>7. Head(calls).call \notin Stopping
  BY <1>1 DEF Stopping
<1>8. Returning(more)
  <2>1. \A u \in Torrents : Unstopped(tor'[u]) => Comes(more, u) \/ Unstopped(tor[u])
    BY <1>4, <1>6
  <2>2. \A n \in 1 .. Len(more) : more[n].call # "(tr_verifyRemove wait)" /\ more[n].call \notin Closing
    BY <1>6 DEF Closing
  <2> QED
    BY <1>1, <1>2, <1>5, <1>6, <1>7, <2>1, <2>2 DEF Returning
<1> QED
  BY <1>8, Returns

\* tr_verifyRemove tells the verify thread to stop.
LEMMA StopVerifierKeeps ==
  ASSUME LInv, NEW t \in Torrents, StopVerifier(t)
  PROVE  LInv'
<1> DEFINE more == <<Call("(tr_verifyRemove wait)", t)>>
<1>1. /\ calls # <<>> /\ Head(calls).call = "tr_verifyRemove" /\ Head(calls).tor = t /\ Typed /\ VerifyInv
  BY CallingIs, NextCallIs DEF StopVerifier
<1>2. /\ Return(more) /\ UNCHANGED <<pipe, userVars>> /\ t = current /\ stopCurrent' = TRUE
      /\ tor' = tor /\ verifyPc' = verifyPc /\ current' = current /\ verifyList' = verifyList
  BY DEF StopVerifier
<1>3. Typed' /\ LetGo' = LetGo
  BY <1>1, <1>2 DEF Typed, LetGo
<1>4. closing' = closing
  BY <1>2 DEF userVars
<1>5. VerifyInv'
  BY <1>1, <1>2, <1>4 DEF VerifyInv, VerifyStateIsTrue, ListIsServed
<1>6. t \notin verifyList
  BY <1>1, <1>2, LifecycleAssumption DEF VerifyInv
<1>7. /\ More(more, LetGo', Head(calls))
      /\ \A n \in 1 .. Len(more) : more[n].call = "(tr_verifyRemove wait)" /\ more[n].tor = t
  <2> DEFINE f == "(tr_verifyRemove wait)"
  <2>1. f \in Calls /\ f \notin Outermost /\ f \notin Behind /\ f \in Letting
    BY DEF Calls, Outermost, Behind, Letting
  <2> HIDE DEF f
  <2>2. /\ More(<<Call(f, t)>>, LetGo', Head(calls))
        /\ \A n \in 1 .. Len(<<Call(f, t)>>) : <<Call(f, t)>>[n].call = f /\ <<Call(f, t)>>[n].tor = t
    BY <1>1, <2>1, OneCall
  <2> QED
    BY <2>2 DEF f
<1> HIDE DEF more
<1>8. Head(calls).call \notin Stopping /\ "(tr_verifyRemove wait)" \notin Closing
  BY <1>1 DEF Stopping, Closing
<1>9. Returning(more)
  BY <1>1, <1>2, <1>3, <1>5, <1>6, <1>7, <1>8 DEF Returning
<1> QED
  BY <1>9, Returns

\* tr_verifyRemove of a torrent that is not verified.
LEMMA RemoveWaitingKeeps ==
  ASSUME LInv, NEW t \in Torrents, Calling("tr_verifyRemove", t), t # current, RemoveWaiting(t), Return(<<>>),
         UNCHANGED <<pipe, verifyPc, current, stopCurrent, userVars>>
  PROVE  LInv'
<1> DEFINE r == [tor[t] EXCEPT !.verifyState = "none"]
<1>1. /\ calls # <<>> /\ Head(calls).call = "tr_verifyRemove" /\ Head(calls).tor = t /\ Typed /\ VerifyInv
  BY CallingIs, NextCallIs
<1>2. tor' = [tor EXCEPT ![t] = r] /\ verifyList' = verifyList \ {t} /\ closing' = closing
  BY DEF RemoveWaiting, Update, userVars
<1>3. /\ r \in Flags /\ r.exists = tor[t].exists /\ r.verifyState = "none"
      /\ r.started = tor[t].started /\ r.isRunning = tor[t].isRunning
  <2>1. tor[t] \in Flags
    BY <1>1 DEF Typed
  <2> QED
    BY <2>1 DEF Flags
<1> HIDE DEF r
<1>4. tor' \in [Torrents -> Flags] /\ tor'[t] = r /\ \A u \in Torrents : u # t => tor'[u] = tor[u]
  BY <1>1, <1>2, <1>3 DEF Typed
<1>5. Typed' /\ LetGo \subseteq LetGo' /\ t \in LetGo'
  BY <1>1, <1>2, <1>4 DEF Typed, LetGo
<1>6. VerifyStateIsTrue'
  <2>1. VerifyStateIsTrue
    BY <1>1 DEF VerifyInv
  <2> QED
    BY <1>2, <1>3, <1>4, <2>1 DEF VerifyStateIsTrue
<1>7. VerifyInv'
  <2>1. \A u \in Torrents : tor'[u].exists = tor[u].exists
    BY <1>3, <1>4
  <2> QED
    BY <1>1, <1>2, <1>6, <2>1 DEF VerifyInv, ListIsServed, Typed
<1>8. More(<<>>, LetGo', Head(calls)) /\ Head(calls).call \notin Stopping
  BY <1>1, <1>5, NoMore DEF Stopping
<1>9. \A u \in Torrents : Unstopped(tor'[u]) <=> Unstopped(tor[u])
  BY <1>3, <1>4 DEF Unstopped
<1>10. Returning(<<>>)
  BY <1>1, <1>5, <1>7, <1>8, <1>9 DEF Returning
<1> QED
  BY <1>10, Returns

\* closeTorrent and freeTorrent: the verify thread has let go of the torrent.
LEMMA RemoveKeeps ==
  ASSUME LInv, NEW t \in Torrents, Calling("(removeTorrent)", t),
         SetFlags(t, [tor[t] EXCEPT !.isRunning = FALSE, !.exists = FALSE])
  PROVE  LInv'
<1> DEFINE r == [tor[t] EXCEPT !.isRunning = FALSE, !.exists = FALSE]
<1>1. /\ calls # <<>> /\ Head(calls).call = "(removeTorrent)" /\ Head(calls).tor = t /\ Typed /\ VerifyInv
  BY CallingIs, NextCallIs
<1>2. /\ tor' = [tor EXCEPT ![t] = r] /\ Return(<<>>) /\ UNCHANGED <<pipe, userVars>> /\ closing' = closing
      /\ verifyPc' = verifyPc /\ current' = current /\ verifyList' = verifyList /\ stopCurrent' = stopCurrent
  BY DEF SetFlags, Update, userVars, verifyVars
<1>3. r \in Flags /\ r.exists = FALSE
  <2>1. tor[t] \in Flags
    BY <1>1 DEF Typed
  <2> QED
    BY <2>1 DEF Flags
<1> HIDE DEF r
<1>4. tor' \in [Torrents -> Flags] /\ tor'[t] = r /\ \A u \in Torrents : u # t => tor'[u] = tor[u]
  BY <1>1, <1>2, <1>3 DEF Typed
<1>5. Typed' /\ LetGo' = LetGo
  BY <1>1, <1>2, <1>4 DEF Typed, LetGo
<1>6. t \notin verifyList /\ t # current
  BY <1>1, NextCallIs DEF Behind, LetGo
<1>7. VerifyStateIsTrue'
  <2>1. VerifyStateIsTrue
    BY <1>1 DEF VerifyInv
  <2> QED
    BY <1>2, <1>3, <1>4, <2>1 DEF VerifyStateIsTrue
<1>8. VerifyInv'
  BY <1>1, <1>2, <1>4, <1>6, <1>7 DEF VerifyInv, ListIsServed, Typed
<1>9. More(<<>>, LetGo', Head(calls)) /\ Head(calls).call \notin Stopping
  BY <1>1, NoMore DEF Stopping, Letting
<1>10. \A u \in Torrents : Unstopped(tor'[u]) => Unstopped(tor[u])
  BY <1>3, <1>4 DEF Unstopped
<1>11. Returning(<<>>)
  BY <1>1, <1>2, <1>5, <1>8, <1>9, <1>10 DEF Returning
<1> QED
  BY <1>11, Returns

\* tr_verifyClose.
LEMMA VerifyCloseKeeps ==
  ASSUME LInv, calls # <<>>, Head(calls).call = "tr_verifyClose", stopCurrent' = TRUE, verifyList' = {}, Return(<<>>),
         UNCHANGED <<tor, pipe, verifyPc, current, userVars>>
  PROVE  LInv'
<1>1. Typed /\ VerifyInv /\ closing /\ closing'
  BY NextCallIs DEF Closing, userVars
<1>2. Typed' /\ LetGo \subseteq LetGo'
  BY <1>1 DEF Typed, LetGo
<1>3. VerifyInv'
  BY <1>1 DEF VerifyInv, VerifyStateIsTrue, ListIsServed
<1>4. More(<<>>, LetGo', Head(calls)) /\ Head(calls).call \notin Stopping
  BY NoMore DEF Stopping, Letting
<1>5. Returning(<<>>)
  BY <1>2, <1>3, <1>4 DEF Returning
<1> QED
  BY <1>5, Returns

-----------------------------------------------------------------------------
(* Steps that are not the return of a call. *)

\* LInv, with the stops counted.
PipeFrames == [call : Functions \ {"sessionCloseImpl"}, tor : Torrents] \cup {Call("sessionCloseImpl", NoTorrent)}
UserTyped ==
  /\ starting \in Torrents \cup {NoTorrent} /\ closing \in BOOLEAN /\ removed \subseteq Torrents
  /\ commands \in 0 .. MaxCommands
Parts ==
  /\ Typed /\ UserTyped /\ pipe \in Seq(PipeFrames) /\ VerifyInv /\ CallsInv
  /\ \A t \in Torrents : Unstopped(tor[t]) => Comes(pipe, t) \/ Comes(calls, t)

\* The invariant has these parts.
LEMMA PartsBefore ==
  ASSUME LInv
  PROVE  Parts
<1> DEFINE S == Frames \cup PipeFrames
<1>1. calls \in Seq(Frames) /\ pipe \in Seq(PipeFrames)
  BY DEF LInv, TypeOK, Frames, PipeFrames
<1>2. pipe \in Seq(S) /\ calls \in Seq(S)
  BY <1>1, LongerSeq
<1> HIDE DEF S
<1>3. \A t \in Torrents : Unstopped(tor[t]) => Comes(pipe, t) \/ Comes(calls, t)
  BY <1>2, StopsAreThere DEF LInv, StopIsOnItsWay, Unstopped
<1> QED
  BY <1>1, <1>3, NextCallIs DEF Parts, UserTyped, LInv, TypeOK

\* The parts of the invariant make it, after a step.
LEMMA PartsAfter ==
  ASSUME Parts'
  PROVE  LInv'
<1> DEFINE S == Frames \cup PipeFrames
<1>1. calls' \in Seq(Frames) /\ pipe' \in Seq(PipeFrames)
  BY DEF Parts, CallsInv, Stack
<1>2. pipe' \in Seq(S) /\ calls' \in Seq(S)
  BY <1>1, LongerSeq
<1>3. DOMAIN pipe' = 1 .. Len(pipe') /\ DOMAIN calls' = 1 .. Len(calls')
  BY <1>1
<1>4. StopIsOnItsWay'
  <2> SUFFICES ASSUME NEW t \in Torrents, Unstopped(tor'[t])
               PROVE  \E q \in {pipe', calls'} : \E n \in DOMAIN q :
                        q[n].tor = t /\ q[n].call \in {"stopTorrent", "(stopTorrent)", "removeTorrent"}
    BY DEF StopIsOnItsWay, Unstopped
  <2>1. Comes(pipe', t) \/ Comes(calls', t)
    BY DEF Parts
  <2> QED
    BY <1>3, <2>1 DEF Comes, Stopping
<1>5. TypeOK'
  BY <1>1 DEF Parts, Typed, UserTyped, TypeOK, Frames, PipeFrames
<1> QED
  BY <1>4, <1>5 DEF LInv, Parts

\* A stack that the event thread begins with.
Fresh(cs) ==
  /\ cs \in Seq(Frames)
  /\ \A n \in 1 .. Len(cs) : /\ cs[n].call \notin Behind /\ cs[n].call # "(tr_verifyRemove wait)"
                             /\ cs[n].call \in Outermost => n = Len(cs)
                             /\ cs[n].call \in Closing => closing

\* A stack that begins is sound.
LEMMA FreshIs ==
  ASSUME Fresh(calls)', \A n \in 1 .. Len(pipe') : pipe'[n].call \in Closing => closing'
  PROVE  CallsInv'
BY DEF Fresh, CallsInv, Stack

\* A sequence of one.
LEMMA SingleIs ==
  ASSUME NEW S, NEW x \in S
  PROVE  LET q == <<x>> IN q \in Seq(S) /\ Len(q) = 1 /\ q[1] = x /\ \A n \in 1 .. Len(q) : n = 1
OBVIOUS

\* A stack of one call.
LEMMA OneFresh ==
  ASSUME NEW x \in Frames, x.call \notin Behind, x.call # "(tr_verifyRemove wait)", x.call \in Closing => closing
  PROVE  Fresh(<<x>>) /\ <<x>>[1] = x /\ Len(<<x>>) = 1
<1> DEFINE q == <<x>>
<1>1. q \in Seq(Frames) /\ Len(q) = 1 /\ q[1] = x /\ \A n \in 1 .. Len(q) : n = 1
  BY SingleIs
<1> HIDE DEF q
<1>2. Fresh(q)
  <2> SUFFICES ASSUME NEW n \in 1 .. Len(q)
               PROVE  /\ q[n].call \notin Behind /\ q[n].call # "(tr_verifyRemove wait)"
                      /\ q[n].call \in Outermost => n = Len(q)
                      /\ q[n].call \in Closing => closing
    BY <1>1 DEF Fresh
  <2>1. n = 1 /\ q[n] = x
    BY <1>1
  <2> QED
    BY <1>1, <2>1
<1> QED
  BY <1>1, <1>2 DEF q

\* What is on the pipe may be called.
LEMMA PipeFrameIs ==
  ASSUME NEW x \in PipeFrames
  PROVE  x \in Frames /\ x.call \in Functions
<1>1. CASE x \in [call : Functions \ {"sessionCloseImpl"}, tor : Torrents]
  BY <1>1 DEF Frames, Calls
<1>2. CASE x = Call("sessionCloseImpl", NoTorrent)
  BY <1>2 DEF Call, Frames, Calls, Functions
<1> QED
  BY <1>1, <1>2 DEF PipeFrames

\* readFromPipe.
LEMMA TakeKeeps ==
  ASSUME LInv, TakeFunction
  PROVE  LInv'
<1> DEFINE x == Head(pipe)
<1>1. Parts /\ calls = <<>> /\ pipe # <<>> /\ calls' = <<x>> /\ pipe' = Tail(pipe)
      /\ UNCHANGED <<tor, verifyVars, userVars>>
  BY PartsBefore DEF TakeFunction
<1>2. /\ tor' = tor /\ verifyPc' = verifyPc /\ current' = current /\ verifyList' = verifyList /\ stopCurrent' = stopCurrent
      /\ starting' = starting /\ closing' = closing /\ removed' = removed /\ commands' = commands
  BY <1>1 DEF verifyVars, userVars
<1>3. pipe \in Seq(PipeFrames) /\ \A n \in 1 .. Len(pipe) : pipe[n].call \in Closing => closing
  BY <1>1 DEF Parts, CallsInv
<1>4. /\ Len(pipe) \in Nat \ {0} /\ 1 \in 1 .. Len(pipe) /\ x = pipe[1] /\ x \in PipeFrames
      /\ pipe' \in Seq(PipeFrames) /\ Len(pipe') = Len(pipe) - 1
      /\ \A n \in 1 .. Len(pipe) - 1 : pipe'[n] = pipe[n + 1] /\ n + 1 \in 1 .. Len(pipe)
  BY <1>1, <1>3
<1>5. x \in Frames /\ x.call \in Functions
  BY <1>4, PipeFrameIs
<1>6. x.call \notin Behind /\ x.call # "(tr_verifyRemove wait)" /\ (x.call \in Closing => closing)
  BY <1>3, <1>4, <1>5 DEF Behind, Functions
<1> HIDE DEF x
<1>7. Fresh(calls)' /\ calls'[1] = x /\ Len(calls') = 1
  <2>1. Fresh(<<x>>) /\ <<x>>[1] = x /\ Len(<<x>>) = 1
    BY <1>5, <1>6, OneFresh
  <2> QED
    BY <1>1, <1>2, <2>1 DEF Fresh
<1>8. \A n \in 1 .. Len(pipe') : pipe'[n].call \in Closing => closing'
  BY <1>2, <1>3, <1>4
<1>9. CallsInv'
  BY <1>7, <1>8, FreshIs
<1>10. ASSUME NEW t \in Torrents, Unstopped(tor'[t])
       PROVE  Comes(pipe', t) \/ Comes(calls', t)
  <2>1. ~Comes(calls, t)
    BY <1>1 DEF Comes
  <2>2. PICK n \in 1 .. Len(pipe) : pipe[n].tor = t /\ pipe[n].call \in Stopping
    BY <1>1, <1>2, <1>10, <2>1 DEF Parts, Comes
  <2>3. CASE n = 1
    BY <1>4, <1>7, <2>2, <2>3 DEF Comes
  <2>4. CASE n # 1
    <3>1. n - 1 \in 1 .. Len(pipe) - 1 /\ (n - 1) + 1 = n
      BY <1>4, <2>4
    <3>2. n - 1 \in 1 .. Len(pipe') /\ pipe'[n - 1] = pipe[n]
      BY <1>4, <3>1
    <3> QED
      BY <2>2, <3>2 DEF Comes
  <2> QED
    BY <2>3, <2>4
<1>11. Typed' /\ UserTyped' /\ VerifyInv'
  BY <1>1, <1>2 DEF Parts, Typed, UserTyped, VerifyInv, VerifyStateIsTrue, ListIsServed
<1> QED
  BY <1>4, <1>9, <1>10, <1>11, PartsAfter DEF Parts

\* A step that begins a stack and changes nothing but flags.
LEMMA BeginsKeeps ==
  ASSUME LInv, calls = <<>>, Fresh(calls)', UNCHANGED <<tor, pipe, verifyVars>>,
         UserTyped', closing' = closing
  PROVE  LInv'
<1>1. Parts
  BY PartsBefore
<1>2. /\ tor' = tor /\ pipe' = pipe /\ verifyPc' = verifyPc /\ current' = current /\ verifyList' = verifyList
      /\ stopCurrent' = stopCurrent
  BY DEF verifyVars
<1>3. \A n \in 1 .. Len(pipe') : pipe'[n].call \in Closing => closing'
  BY <1>1, <1>2 DEF Parts, CallsInv
<1>4. CallsInv'
  BY <1>3, FreshIs
<1>5. \A t \in Torrents : Unstopped(tor'[t]) => Comes(pipe', t)
  BY <1>1, <1>2 DEF Parts, Comes
<1>6. Typed' /\ VerifyInv'
  BY <1>1, <1>2 DEF Parts, Typed, VerifyInv, VerifyStateIsTrue, ListIsServed
<1> QED
  BY <1>1, <1>2, <1>4, <1>5, <1>6, PartsAfter DEF Parts

\* bandwidthPulse.
LEMMA PulseKeeps ==
  ASSUME LInv, Pulse
  PROVE  LInv'
<1> DEFINE stopping == {t \in Torrents : tor[t].exists /\ tor[t].isStopping}
<1>1. PICK order \in SetToSeqs(stopping) :
        calls' = [n \in DOMAIN order |-> Call("tr_torrentStop", order[n])] \o <<Call("queuePulse", NoTorrent)>>
  BY DEF Pulse
<1>2. calls = <<>> /\ UNCHANGED <<tor, pipe, verifyVars, userVars>>
  BY DEF Pulse
<1> DEFINE a == [n \in DOMAIN order |-> Call("tr_torrentStop", order[n])]
           b == <<Call("queuePulse", NoTorrent)>>
<1>3. /\ a \in Seq(Frames) /\ \A n \in DOMAIN a : a[n].call = "tr_torrentStop"
  <2>1. stopping \in SUBSET Torrents /\ "tr_torrentStop" \in Calls
    BY DEF Calls
  <2>2. a \in Seq(Frames)
    BY <2>1, OrderIs
  <2> QED
    BY <2>2 DEF Call
<1>4. b \in Seq(Frames) /\ Len(b) = 1 /\ b[1].call = "queuePulse"
  BY DEF Call, Frames, Calls
<1> HIDE DEF a, b
<1>5. /\ calls' \in Seq(Frames)
      /\ \A n \in 1 .. Len(calls') : calls'[n].call \in {"tr_torrentStop", "queuePulse"}
  <2>1. calls' = a \o b
    BY <1>1 DEF a, b
  <2>2. /\ a \o b \in Seq(Frames) /\ Len(a \o b) = Len(a) + 1 /\ Len(a) \in Nat /\ DOMAIN a = 1 .. Len(a)
        /\ \A i \in 1 .. Len(a) + 1 : (a \o b)[i] = IF i <= Len(a) THEN a[i] ELSE b[i - Len(a)]
    BY <1>3, <1>4, ConcatProperties
  <2>3. ASSUME NEW i \in 1 .. Len(a) + 1
        PROVE  (a \o b)[i].call \in {"tr_torrentStop", "queuePulse"}
    <3>1. CASE i <= Len(a)
      BY <1>3, <2>2, <3>1
    <3>2. CASE ~(i <= Len(a))
      <4>1. i - Len(a) = 1
        BY <2>2, <3>2
      <4> QED
        BY <1>4, <2>2, <3>2, <4>1
    <3> QED
      BY <3>1, <3>2
  <2> QED
    BY <2>1, <2>2, <2>3
<1>6. Fresh(calls)'
  BY <1>5 DEF Fresh, Behind, Outermost, Closing
<1>7. UserTyped' /\ closing' = closing
  BY <1>2, PartsBefore DEF Parts, UserTyped, userVars
<1> QED
  BY <1>2, <1>6, <1>7, BeginsKeeps

\* The end of verifyTorrent: the torrent that the verify thread has let go is given to it again.
LEMMA VerifyTorrentEndKeeps ==
  ASSUME LInv, NEW t \in Torrents, NEW b \in BOOLEAN, VerifyTorrentEnd(t, b)
  PROVE  LInv'
<1> DEFINE f == IF b THEN "(verifyTorrent end, start)" ELSE "(verifyTorrent end)"
<1>1. /\ Calling(f, t) /\ calls # <<>> /\ Head(calls).call = f /\ Head(calls).tor = t /\ Typed /\ VerifyInv
  BY CallingIs, NextCallIs DEF VerifyTorrentEnd
<1>2. f \in Behind /\ f \in Outermost /\ f \notin Letting /\ f \notin Stopping
  BY DEF Behind, Outermost, Letting, Stopping
<1> HIDE DEF f
<1>3. t \in LetGo /\ Tail(calls) = <<>> /\ tor[t] \in Flags
  BY <1>1, <1>2, NextCallIs DEF Typed
<1>4. Return(<<>>) /\ UNCHANGED <<pipe, current, stopCurrent, userVars>>
  BY DEF VerifyTorrentEnd
<1>5. CASE t \in Disappeared
  <2> DEFINE r == [tor[t] EXCEPT !.startAfterVerify = FALSE]
  <2>1. r \in Flags /\ r.exists = tor[t].exists /\ r.verifyState = tor[t].verifyState /\ (Unstopped(r) <=> Unstopped(tor[t]))
    BY <1>3 DEF Flags, Unstopped
  <2>2. SetFlags(t, r)
    BY <1>4, <1>5 DEF VerifyTorrentEnd, SetFlags, verifyVars
  <2> HIDE DEF r
  <2> QED
    BY <1>1, <1>2, <2>1, <2>2, Sets
<1>6. CASE t \notin Disappeared
  <2> DEFINE r == [tor[t] EXCEPT !.startAfterVerify = b, !.verifyState = "wait"]
  <2>1. /\ tor' = [tor EXCEPT ![t] = r] /\ verifyList' = verifyList \cup {t}
        /\ verifyPc' = IF verifyPc = "dead" THEN "loop" ELSE verifyPc
    BY <1>6 DEF VerifyTorrentEnd, Update
  <2>2. calls' = <<>> /\ Len(calls') = 0
    <3>1. calls' = <<>> \o Tail(calls)
      BY <1>4 DEF Return
    <3>2. calls' = <<>> \o <<>>
      BY <1>3, <3>1
    <3> QED
      BY <3>2
  <2>3. /\ r \in Flags /\ r.exists = tor[t].exists /\ r.verifyState = "wait" /\ (Unstopped(r) <=> Unstopped(tor[t]))
    BY <1>3 DEF Flags, Unstopped
  <2> HIDE DEF r
  <2>4. tor' \in [Torrents -> Flags] /\ tor'[t] = r /\ \A u \in Torrents : u # t => tor'[u] = tor[u]
    BY <1>1, <2>1, <2>3 DEF Typed
  <2>5. /\ pipe' = pipe /\ current' = current /\ stopCurrent' = stopCurrent /\ starting' = starting
        /\ closing' = closing /\ removed' = removed /\ commands' = commands
    BY <1>4 DEF userVars
  <2>6. Typed'
    BY <1>1, <2>1, <2>4, <2>5 DEF Typed
  <2>7. t # current /\ t \notin verifyList /\ tor[t].exists
    BY <1>1, <1>3 DEF LetGo, Calling
  <2>8. VerifyStateIsTrue'
    <3>1. VerifyStateIsTrue
      BY <1>1 DEF VerifyInv
    <3> QED
      BY <2>1, <2>3, <2>4, <2>5, <2>7, <3>1 DEF VerifyStateIsTrue
  <2>9. VerifyInv'
    <3>1. \A u \in Torrents : tor'[u].exists = tor[u].exists
      BY <2>3, <2>4
    <3>2. ListIsServed'
      BY <2>1 DEF ListIsServed
    <3> QED
      BY <1>1, <2>1, <2>5, <2>7, <2>8, <3>1, <3>2 DEF VerifyInv, Typed
  <2>10. Parts
    BY PartsBefore
  <2>11. \A u \in Torrents : Unstopped(tor'[u]) => Comes(pipe', u)
    <3>1. \A u \in Torrents : Unstopped(tor[u]) => Comes(pipe, u) \/ Comes(calls, u)
      BY <2>10 DEF Parts
    <3>2. \A u \in Torrents : Unstopped(tor'[u]) => Unstopped(tor[u])
      BY <2>3, <2>4
    <3>3. ~Comes(calls, t) /\ \A u \in Torrents : ~Comes(calls, u)
      <4>1. calls \in Seq(Frames) /\ Len(calls) = 1
        <5>1. calls \in Seq(Frames) /\ 1 \in 1 .. Len(calls) /\ Head(calls) = calls[1]
          BY <1>1, NextCallIs
        <5> QED
          BY <1>1, <1>2, <5>1 DEF LInv, CallsInv, Stack
      <4>2. \A n \in 1 .. Len(calls) : calls[n].call = f
        <5>1. \A n \in 1 .. Len(calls) : n = 1
          BY <4>1
        <5>2. calls[1].call = f
          BY <1>1, NextCallIs
        <5> QED
          BY <5>1, <5>2
      <4> QED
        BY <1>2, <4>2 DEF Comes
    <3> QED
      BY <2>5, <3>1, <3>2, <3>3
  <2>12. CallsInv'
    <3>1. Fresh(calls)'
      BY <2>2 DEF Fresh
    <3>2. \A n \in 1 .. Len(pipe') : pipe'[n].call \in Closing => closing'
      BY <2>5, <2>10 DEF Parts, CallsInv
    <3> QED
      BY <3>1, <3>2, FreshIs
  <2> QED
    BY <2>5, <2>6, <2>9, <2>10, <2>11, <2>12, PartsAfter DEF Parts, UserTyped
<1> QED
  BY <1>5, <1>6

\* sessionCloseImpl.
LEMMA CloseSessionKeeps ==
  ASSUME LInv, CloseSessionImpl
  PROVE  LInv'
<1>1. CASE /\ calls # <<>> /\ Head(calls).call = "sessionCloseImpl"
           /\ \E order \in SetToSeqs({t \in Torrents : tor[t].exists}) :
                Expand(<<Call("tr_verifyClose", NoTorrent)>> \o [n \in DOMAIN order |-> Call("removeTorrent", order[n])])
  <2> DEFINE S == {t \in Torrents : tor[t].exists}
  <2>1. PICK order \in SetToSeqs(S) :
          Expand(<<Call("tr_verifyClose", NoTorrent)>> \o [n \in DOMAIN order |-> Call("removeTorrent", order[n])])
    BY <1>1
  <2> DEFINE a == <<Call("tr_verifyClose", NoTorrent)>>
             b == [n \in DOMAIN order |-> Call("removeTorrent", order[n])]
             more == a \o b
  <2>2. a \in Seq(Frames) /\ Len(a) = 1 /\ a[1].call = "tr_verifyClose"
    <3>1. Call("tr_verifyClose", NoTorrent) \in Frames
      BY DEF Call, Frames, Calls
    <3> QED
      BY <3>1, SingleIs DEF Call
  <2>3. b \in Seq(Frames) /\ \A n \in DOMAIN b : b[n].call = "removeTorrent"
    <3>1. S \in SUBSET Torrents /\ "removeTorrent" \in Calls
      BY DEF Calls, Functions
    <3>2. b \in Seq(Frames)
      BY <3>1, OrderIs
    <3> QED
      BY <3>2 DEF Call
  <2>4. Expand(more)
    BY <2>1
  <2> HIDE DEF a, b
  <2>5. /\ more \in Seq(Frames) /\ \A n \in 1 .. Len(more) : more[n].call \in {"tr_verifyClose", "removeTorrent"}
    <3>1. /\ a \o b \in Seq(Frames) /\ Len(a \o b) = 1 + Len(b) /\ Len(b) \in Nat /\ DOMAIN b = 1 .. Len(b)
          /\ \A i \in 1 .. 1 + Len(b) : (a \o b)[i] = IF i <= 1 THEN a[i] ELSE b[i - 1]
      <4>1. /\ a \o b \in Seq(Frames) /\ Len(a \o b) = Len(a) + Len(b)
            /\ \A i \in 1 .. Len(a) + Len(b) : (a \o b)[i] = IF i <= Len(a) THEN a[i] ELSE b[i - Len(a)]
        BY <2>2, <2>3, ConcatProperties
      <4>2. Len(b) \in Nat /\ DOMAIN b = 1 .. Len(b)
        BY <2>3
      <4> QED
        BY <2>2, <4>1, <4>2
    <3>2. ASSUME NEW i \in 1 .. 1 + Len(b)
          PROVE  (a \o b)[i].call \in {"tr_verifyClose", "removeTorrent"}
      <4>1. CASE i <= 1
        <5>1. i = 1
          BY <3>1, <4>1
        <5> QED
          BY <2>2, <3>1, <5>1
      <4>2. CASE ~(i <= 1)
        <5>1. i - 1 \in 1 .. Len(b)
          BY <3>1, <4>2
        <5> QED
          BY <2>3, <3>1, <4>2, <5>1
      <4> QED
        BY <4>1, <4>2
    <3> QED
      BY <3>1, <3>2
  <2> HIDE DEF more
  <2>6. closing
    BY <1>1, NextCallIs DEF Closing
  <2>7. More(more, LetGo, Head(calls))
    BY <1>1, <2>5 DEF More, Outermost, Behind, Letting
  <2>8. Head(calls).call \notin Stopping
    BY <1>1 DEF Stopping
  <2>9. \A n \in 1 .. Len(more) : more[n].call # "(tr_verifyRemove wait)"
    BY <2>5
  <2> QED
    BY <1>1, <2>4, <2>6, <2>7, <2>8, <2>9, Expands
<1>2. CASE /\ calls # <<>> /\ Head(calls).call = "tr_verifyClose"
           /\ stopCurrent' = TRUE /\ verifyList' = {}
           /\ Return(<<>>)
           /\ UNCHANGED <<tor, pipe, verifyPc, current, userVars>>
  BY <1>2, VerifyCloseKeeps
<1> QED
  BY <1>1, <1>2 DEF CloseSessionImpl

\* The event thread.
LEMMA EventThreadKeeps ==
  ASSUME LInv, EventThread
  PROVE  LInv'
<1>1. CASE TakeFunction \/ Pulse \/ CallOnFreed \/ QueuePulse \/ StartNextQueued \/ CloseSessionImpl
  BY <1>1, TakeKeeps, PulseKeeps, OtherCalls, CloseSessionKeeps
<1>2. ASSUME NEW t \in Torrents,
             \/ StartImpl(t) \/ StartNow(t) \/ StartFromRpc(t) \/ RecheckDone(t) \/ StopNow(t) \/ StopTorrent(t)
             \/ VerifyTorrent(t) \/ VerifyTorrentEnd(t, TRUE) \/ VerifyTorrentEnd(t, FALSE)
             \/ VerifyRemove(t) \/ RemoveTorrent(t)
      PROVE  LInv'
  <2>1. CASE StartImpl(t) \/ StartNow(t) \/ StartFromRpc(t) \/ RecheckDone(t)
    BY <2>1, FlagCalls
  <2>2. CASE StopNow(t)
    BY <2>2, StopNowKeeps
  <2>3. CASE StopTorrent(t)
    BY <2>3, FlagCalls, StopCalls DEF StopTorrent
  <2>4. CASE VerifyTorrent(t)
    BY <2>4, StopCalls
  <2>5. CASE VerifyTorrentEnd(t, TRUE) \/ VerifyTorrentEnd(t, FALSE)
    BY <2>5, VerifyTorrentEndKeeps
  <2>6. CASE VerifyRemove(t)
    BY <2>6, StopVerifierKeeps, StopCalls, RemoveWaitingKeeps DEF VerifyRemove
  <2>7. CASE RemoveTorrent(t)
    BY <2>7, StopCalls, RemoveKeeps DEF RemoveTorrent
  <2> QED
    BY <1>2, <2>1, <2>2, <2>3, <2>4, <2>5, <2>6, <2>7
<1> QED
  BY <1>1, <1>2 DEF EventThread

-----------------------------------------------------------------------------
(* The other threads. *)

\* The pipe only grows.
PipeGrows ==
  /\ pipe' \in Seq(PipeFrames) /\ (closing => closing')
  /\ \A n \in 1 .. Len(pipe') : pipe'[n].call \in Closing => closing'
  /\ \A t \in Torrents : Comes(pipe, t) => Comes(pipe', t)

\* Who is waited for is let go, or stop is told.
Heard(t) == t \in Torrents \ verifyList /\ (t = current => stopCurrent)

\* A step of another thread than the event thread.
Other ==
  /\ UNCHANGED calls /\ UserTyped' /\ PipeGrows
  /\ Typed' /\ VerifyInv' /\ LetGo \subseteq LetGo'
  /\ \A t \in Torrents : Heard(t) => Heard(t)'
  /\ \A t \in Torrents : Unstopped(tor'[t]) => Unstopped(tor[t]) \/ Comes(pipe', t)

\* Such a step keeps the invariant.
LEMMA OtherKeeps ==
  ASSUME LInv, Other
  PROVE  LInv'
<1>1. Parts /\ calls' = calls
  BY PartsBefore DEF Other
<1>2. Stack(calls, LetGo) /\ LetGo \subseteq LetGo'
  BY <1>1 DEF Parts, CallsInv, Other
<1>3. Stack(calls', LetGo')
  BY <1>1, <1>2 DEF Stack
<1>4. ASSUME NEW n \in 1 .. Len(calls)
      PROVE  /\ calls[n].call = "(tr_verifyRemove wait)" => Heard(calls[n].tor)'
             /\ calls[n].call \in Closing => closing'
  <2>1. calls[n].call = "(tr_verifyRemove wait)" => calls[n].tor \in Torrents /\ Heard(calls[n].tor)
    BY <1>1 DEF Parts, CallsInv, Heard
  <2>2. calls[n].call \in Closing => closing
    BY <1>1 DEF Parts, CallsInv
  <2>3. Heard(calls[n].tor)' <=> calls'[n].tor \in Torrents \ verifyList' /\ (calls'[n].tor = current' => stopCurrent')
    BY DEF Heard
  <2>4. \A t \in Torrents : Heard(t) =>
          t \in Torrents \ verifyList' /\ (t = current' => stopCurrent')
    BY DEF Other, Heard
  <2> QED
    BY <1>1, <2>1, <2>2, <2>3, <2>4 DEF Other, PipeGrows
<1>5. CallsInv'
  <2>1. \A n \in 1 .. Len(pipe') : pipe'[n].call \in Closing => closing'
    BY DEF Other, PipeGrows
  <2>2. ASSUME NEW n \in 1 .. Len(calls')
        PROVE  /\ calls'[n].call = "(tr_verifyRemove wait)" =>
                    calls'[n].tor \in Torrents \ verifyList' /\ (calls'[n].tor = current' => stopCurrent')
               /\ calls'[n].call \in Closing => closing'
    BY <1>1, <1>4 DEF Heard
  <2> QED
    BY <1>3, <2>1, <2>2 DEF CallsInv
<1>6. \A t \in Torrents : Unstopped(tor'[t]) => Comes(pipe', t) \/ Comes(calls', t)
  BY <1>1 DEF Parts, Other, PipeGrows
<1> QED
  BY <1>5, <1>6, PartsAfter DEF Other, PipeGrows, Parts

\* Nothing is put on the pipe.
LEMMA PipeStays ==
  ASSUME LInv, pipe' = pipe, closing => closing'
  PROVE  PipeGrows
BY PartsBefore DEF Parts, CallsInv, PipeGrows, Comes

\* Something is put on the pipe.
LEMMA Posts ==
  ASSUME LInv, NEW f, NEW t, Post(f, t), Call(f, t) \in PipeFrames, f = "sessionCloseImpl" => closing', closing => closing'
  PROVE  PipeGrows /\ (f \in Stopping => Comes(pipe', t))
<1> DEFINE x == Call(f, t)
<1>1. x.call = f /\ x.tor = t /\ x \in PipeFrames /\ pipe' = Append(pipe, x)
  BY DEF Post, Call
<1> HIDE DEF x
<1>2. pipe \in Seq(PipeFrames) /\ \A n \in 1 .. Len(pipe) : pipe[n].call \in Closing => closing
  BY PartsBefore DEF Parts, CallsInv
<1>3. /\ pipe' \in Seq(PipeFrames) /\ Len(pipe) \in Nat /\ Len(pipe') = Len(pipe) + 1
      /\ \A n \in 1 .. Len(pipe) : pipe'[n] = pipe[n]
      /\ pipe'[Len(pipe) + 1] = x
  <2>1. x \in PipeFrames /\ pipe' = Append(pipe, x) /\ pipe \in Seq(PipeFrames)
    BY <1>1, <1>2
  <2> QED
    BY <2>1, AppendProperties
<1>4. \A n \in 1 .. Len(pipe') : n \in 1 .. Len(pipe) \/ n = Len(pipe) + 1
  BY <1>3
<1>5. f \in Closing => f = "sessionCloseImpl"
  <2>1. f \in Functions
    BY <1>1, PipeFrameIs
  <2> QED
    BY <2>1 DEF Functions, Closing
<1>6. \A n \in 1 .. Len(pipe') : pipe'[n].call \in Closing => closing'
  BY <1>1, <1>2, <1>3, <1>4, <1>5
<1>7. Len(pipe) + 1 \in 1 .. Len(pipe') /\ \A n \in 1 .. Len(pipe) : n \in 1 .. Len(pipe')
  BY <1>3
<1>8. \A u : Comes(pipe, u) => Comes(pipe', u)
  BY <1>3, <1>7 DEF Comes
<1>9. f \in Stopping => Comes(pipe', t)
  BY <1>1, <1>3, <1>7 DEF Comes
<1> QED
  BY <1>3, <1>6, <1>8, <1>9 DEF PipeGrows

\* The verify thread.
LEMMA VerifyThreadKeeps ==
  ASSUME LInv, VerifyThread
  PROVE  LInv'
<1>1. Parts /\ Typed /\ VerifyInv /\ VerifyStateIsTrue /\ UserTyped
  BY PartsBefore DEF Parts, VerifyInv
<1>2. UNCHANGED userVars /\ UNCHANGED calls /\ closing' = closing /\ UserTyped'
  BY <1>1 DEF VerifyThread, VerifyLoop, VerifyBegin, VerifyEnd, VerifyCheck, FireCheckDone, userVars, UserTyped
<1>3. CASE VerifyLoop
  <2>1. verifyPc = "loop" /\ stopCurrent' = FALSE /\ tor' = tor /\ pipe' = pipe
    BY <1>3 DEF VerifyLoop
  <2>2. \/ verifyList = {} /\ current' = NoTorrent /\ verifyPc' = "dead" /\ verifyList' = verifyList
        \/ \E t \in verifyList : current' = t /\ verifyList' = verifyList \ {t} /\ verifyPc' = "begin"
    BY <1>3 DEF VerifyLoop
  <2>3. Typed' /\ verifyList \subseteq Torrents /\ current' \notin verifyList'
    BY <1>1, <2>1, <2>2, LifecycleAssumption DEF Typed
  <2>4. LetGo \subseteq LetGo' /\ \A t \in Torrents : Heard(t) => Heard(t)'
    BY <1>1, <2>1, <2>2, LifecycleAssumption DEF LetGo, Heard
  <2>5. VerifyStateIsTrue'
    BY <1>1, <1>2, <2>1, <2>2, <2>3, LifecycleAssumption DEF VerifyStateIsTrue
  <2>6. VerifyInv'
    <3>1. \A t \in verifyList : t \in Torrents /\ tor[t].exists
      BY <1>1 DEF VerifyInv, Typed
    <3>2. verifyList' \subseteq verifyList /\ \A t \in verifyList' : tor'[t].exists
      BY <2>1, <2>2, <3>1
    <3>3. ListIsServed'
      BY <2>2 DEF ListIsServed
    <3>4. current' # NoTorrent => tor'[current'].exists /\ current' \notin verifyList'
      BY <2>1, <2>2, <2>3, <3>1
    <3>5. verifyPc' \in {"begin", "verifying", "check", "fire"} => current' # NoTorrent
      BY <2>2, <3>1, LifecycleAssumption
    <3> QED
      BY <2>5, <3>2, <3>3, <3>4, <3>5 DEF VerifyInv
  <2>7. PipeGrows
    BY <1>2, <2>1, PipeStays
  <2> QED
    BY <1>2, <2>1, <2>3, <2>4, <2>6, <2>7, OtherKeeps DEF Other
<1>4. ASSUME NEW s \in {"now", "none"}, NEW pc \in {"verifying", "check"},
             (s = "now" /\ pc = "verifying" /\ verifyPc = "begin") \/ (s = "none" /\ pc = "check" /\ verifyPc = "verifying"),
             verifyPc' = pc, Update(current, [tor[current] EXCEPT !.verifyState = s]),
             UNCHANGED <<pipe, calls, current, verifyList, stopCurrent, userVars>>
      PROVE  LInv'
  <2> DEFINE t == current
             r == [tor[t] EXCEPT !.verifyState = s]
  <2>1. /\ t \in Torrents /\ tor[t].exists /\ t \notin verifyList /\ t # NoTorrent
    BY <1>1, <1>4 DEF VerifyInv, Typed
  <2>2. /\ r \in Flags /\ r.exists = tor[t].exists /\ r.verifyState = s /\ (Unstopped(r) <=> Unstopped(tor[t]))
    <3>1. tor[t] \in Flags
      BY <1>1, <2>1 DEF Typed
    <3> QED
      BY <3>1 DEF Flags, Unstopped
  <2>3. tor' = [tor EXCEPT ![t] = r] /\ pipe' = pipe /\ current' = t /\ verifyList' = verifyList /\ stopCurrent' = stopCurrent
    BY <1>4 DEF Update
  <2> HIDE DEF r
  <2>4. tor' \in [Torrents -> Flags] /\ tor'[t] = r /\ \A u \in Torrents : u # t => tor'[u] = tor[u]
    BY <1>1, <2>1, <2>2, <2>3 DEF Typed
  <2>5. Typed' /\ LetGo' = LetGo /\ \A u \in Torrents : Heard(u) => Heard(u)'
    BY <1>1, <1>4, <2>3, <2>4 DEF Typed, LetGo, Heard
  <2>6. VerifyStateIsTrue'
    BY <1>1, <1>2, <1>4, <2>1, <2>2, <2>3, <2>4 DEF VerifyStateIsTrue
  <2>7. VerifyInv'
    <3>1. \A u \in Torrents : tor'[u].exists = tor[u].exists
      BY <2>2, <2>4
    <3>2. ListIsServed'
      BY <1>4 DEF ListIsServed
    <3> QED
      BY <1>1, <2>1, <2>3, <2>6, <3>1, <3>2 DEF VerifyInv, Typed
  <2>8. PipeGrows
    BY <1>2, <2>3, PipeStays
  <2>9. \A u \in Torrents : Unstopped(tor'[u]) => Unstopped(tor[u])
    BY <2>2, <2>4
  <2> QED
    BY <1>2, <2>5, <2>7, <2>8, <2>9, OtherKeeps DEF Other
<1>5. CASE VerifyBegin
  BY <1>4, <1>5 DEF VerifyBegin
<1>6. CASE VerifyEnd
  BY <1>4, <1>6 DEF VerifyEnd
<1>7. CASE VerifyCheck \/ FireCheckDone
  <2>1. /\ verifyPc \in {"check", "fire"} /\ verifyPc' \in {"loop", "fire"}
        /\ tor' = tor /\ current' = current /\ verifyList' = verifyList /\ stopCurrent' = stopCurrent
    BY <1>7 DEF VerifyCheck, FireCheckDone
  <2>2. Typed' /\ LetGo' = LetGo /\ \A u \in Torrents : Heard(u) => Heard(u)'
    BY <1>1, <2>1 DEF Typed, LetGo, Heard
  <2>3. VerifyInv'
    BY <1>1, <1>2, <2>1 DEF VerifyInv, VerifyStateIsTrue, ListIsServed
  <2>4. PipeGrows
    <3>1. CASE VerifyCheck
      BY <1>2, <3>1, PipeStays DEF VerifyCheck
    <3>2. CASE FireCheckDone
      <4>1. Post("torrentRecheckDoneImpl", current) /\ verifyPc = "fire"
        BY <3>2 DEF FireCheckDone, Post
      <4>2. Call("torrentRecheckDoneImpl", current) \in PipeFrames
        <5>1. current \in Torrents
          BY <1>1, <4>1 DEF VerifyInv, Typed
        <5> QED
          BY <5>1 DEF PipeFrames, Call, Functions
      <4> QED
        BY <1>2, <4>1, <4>2, Posts
    <3> QED
      BY <1>7, <3>1, <3>2
  <2> QED
    BY <1>2, <2>1, <2>2, <2>3, <2>4, OtherKeeps DEF Other
<1> QED
  BY <1>3, <1>5, <1>6, <1>7 DEF VerifyThread

\* A step that leaves the verify thread alone and changes neither verify states nor who exists.
LEMMA UserSets ==
  ASSUME LInv, UNCHANGED calls, UNCHANGED verifyVars, UserTyped', PipeGrows, tor' \in [Torrents -> Flags],
         \A t \in Torrents : tor'[t].exists = tor[t].exists /\ tor'[t].verifyState = tor[t].verifyState,
         \A t \in Torrents : Unstopped(tor'[t]) => Unstopped(tor[t]) \/ Comes(pipe', t)
  PROVE  LInv'
<1>1. Typed /\ VerifyInv
  BY PartsBefore DEF Parts
<1>2. Typed' /\ VerifyInv' /\ LetGo' = LetGo
  BY <1>1, VerifyKept DEF PipeGrows
<1>3. \A t \in Torrents : Heard(t) => Heard(t)'
  BY DEF Heard, verifyVars
<1> QED
  BY <1>2, <1>3, OtherKeeps DEF Other

\* A command is counted.
LEMMA CommandIs ==
  ASSUME LInv, NEW t \in Torrents, Command(t), removed' \in {removed, removed \cup {t}},
         starting' \in Torrents \cup {NoTorrent}
  PROVE  UserTyped' /\ closing' = closing
<1>1. UserTyped /\ MaxCommands \in Nat
  BY PartsBefore, LifecycleAssumption DEF Parts
<1>2. commands' \in 0 .. MaxCommands
  BY <1>1 DEF Command, UserTyped
<1> QED
  BY <1>1, <1>2 DEF Command, UserTyped

\* What the user's thread puts on the pipe.
LEMMA PostedIs ==
  ASSUME NEW f \in Functions \ {"sessionCloseImpl"}, NEW t \in Torrents
  PROVE  Call(f, t) \in PipeFrames
BY DEF Call, PipeFrames

\* tr_torrentStop, tr_torrentVerify and tr_torrentRemove.
LEMMA UserPosts ==
  ASSUME LInv, NEW t \in Torrents, UserStop(t) \/ UserVerify(t) \/ UserRemove(t)
  PROVE  LInv'
<1>1. Parts /\ tor[t] \in Flags
  BY PartsBefore DEF Parts, Typed
<1>2. /\ UNCHANGED calls /\ UNCHANGED verifyVars /\ starting' = starting
      /\ Command(t) /\ removed' \in {removed, removed \cup {t}}
  BY DEF UserStop, UserVerify, UserRemove
<1>3. UserTyped' /\ closing' = closing
  <2>1. starting' \in Torrents \cup {NoTorrent}
    BY <1>1, <1>2 DEF Parts, UserTyped
  <2> QED
    BY <1>2, <2>1, CommandIs
<1>4. ASSUME NEW f \in Functions \ {"sessionCloseImpl"}, Post(f, t)
      PROVE  PipeGrows /\ (f \in Stopping => Comes(pipe', t))
  BY <1>3, <1>4, Posts, PostedIs
<1>5. CASE UserStop(t)
  <2> DEFINE r == [tor[t] EXCEPT !.isRunning = FALSE, !.isStopping = FALSE]
  <2>1. tor' = [tor EXCEPT ![t] = r] /\ Post("stopTorrent", t)
    BY <1>5 DEF UserStop, Update
  <2>2. r \in Flags /\ r.exists = tor[t].exists /\ r.verifyState = tor[t].verifyState
    BY <1>1 DEF Flags
  <2> HIDE DEF r
  <2>3. tor' \in [Torrents -> Flags] /\ tor'[t] = r /\ \A u \in Torrents : u # t => tor'[u] = tor[u]
    BY <1>1, <2>1, <2>2 DEF Parts, Typed
  <2>4. PipeGrows /\ Comes(pipe', t)
    <3>1. "stopTorrent" \in Functions \ {"sessionCloseImpl"} /\ "stopTorrent" \in Stopping
      BY DEF Functions, Stopping
    <3> QED
      BY <1>4, <2>1, <3>1
  <2>5. \A u \in Torrents : tor'[u].exists = tor[u].exists /\ tor'[u].verifyState = tor[u].verifyState
    BY <2>2, <2>3
  <2>6. \A u \in Torrents : Unstopped(tor'[u]) => Unstopped(tor[u]) \/ Comes(pipe', u)
    BY <2>3, <2>4
  <2> QED
    BY <1>2, <1>3, <2>3, <2>4, <2>5, <2>6, UserSets
<1>6. CASE UserVerify(t) \/ UserRemove(t)
  <2>1. tor' = tor /\ tor' \in [Torrents -> Flags]
    BY <1>1, <1>6 DEF UserVerify, UserRemove, Parts, Typed
  <2>2. PipeGrows
    <3>1. "verifyTorrent" \in Functions \ {"sessionCloseImpl"} /\ "removeTorrent" \in Functions \ {"sessionCloseImpl"}
      BY DEF Functions
    <3>2. Post("verifyTorrent", t) \/ Post("removeTorrent", t)
      BY <1>6 DEF UserVerify, UserRemove
    <3> QED
      BY <1>4, <3>1, <3>2
  <2> QED
    BY <1>2, <1>3, <2>1, <2>2, UserSets
<1> QED
  BY <1>5, <1>6

\* tr_torrentStart, up to the lock.
LEMMA UserStartKeeps ==
  ASSUME LInv, NEW t \in Torrents, UserStart(t)
  PROVE  LInv'
<1>1. Parts /\ tor[t] \in Flags
  BY PartsBefore DEF Parts, Typed
<1>2. UNCHANGED <<pipe, calls, verifyVars>> /\ Command(t) /\ removed' = removed /\ starting' \in Torrents \cup {NoTorrent}
  BY DEF UserStart
<1>3. UserTyped' /\ closing' = closing
  BY <1>2, CommandIs
<1>4. PICK r \in {tor[t], [tor[t] EXCEPT !.startAfterVerify = TRUE], [tor[t] EXCEPT !.isQueued = TRUE]} :
        tor' = [tor EXCEPT ![t] = r]
  <2> DEFINE q == CASE torrentGetActivity(tor[t]) \in {"check", "checkWait"} -> [tor[t] EXCEPT !.startAfterVerify = TRUE]
                    [] torrentGetActivity(tor[t]) = "stopped" /\ ~(torrentGetActivity(tor[t]) = "stopped" /\ FreeSlots > 0)
                         -> [tor[t] EXCEPT !.isQueued = TRUE]
                    [] OTHER -> tor[t]
  <2>1. tor' = [tor EXCEPT ![t] = q]
    BY DEF UserStart, Update
  <2>2. q \in {tor[t], [tor[t] EXCEPT !.startAfterVerify = TRUE], [tor[t] EXCEPT !.isQueued = TRUE]}
    BY Zenon
  <2> QED
    BY <2>1, <2>2
<1>5. r \in Flags /\ r.exists = tor[t].exists /\ r.verifyState = tor[t].verifyState /\ (Unstopped(r) <=> Unstopped(tor[t]))
  BY <1>1, <1>4 DEF Flags, Unstopped
<1>6. tor' \in [Torrents -> Flags] /\ tor'[t] = r /\ \A u \in Torrents : u # t => tor'[u] = tor[u]
  BY <1>1, <1>4, <1>5 DEF Parts, Typed
<1>7. PipeGrows
  BY <1>2, <1>3, PipeStays
<1>8. \A u \in Torrents : /\ tor'[u].exists = tor[u].exists /\ tor'[u].verifyState = tor[u].verifyState
                          /\ Unstopped(tor'[u]) => Unstopped(tor[u])
  BY <1>5, <1>6
<1> QED
  BY <1>2, <1>3, <1>6, <1>7, <1>8, UserSets

\* tr_torrentStart, behind the lock.
LEMMA StartLockedKeeps ==
  ASSUME LInv, StartLocked
  PROVE  LInv'
<1> DEFINE t == starting
<1>1. Parts /\ t \in Torrents /\ tor[t] \in Flags
  BY PartsBefore DEF Parts, Typed, UserTyped, StartLocked
<1>2. UNCHANGED <<calls, verifyVars, closing, removed, commands>> /\ starting' = NoTorrent
  BY DEF StartLocked
<1>3. UserTyped' /\ closing' = closing
  BY <1>1, <1>2 DEF Parts, UserTyped
<1>4. PICK r \in {[tor[t] EXCEPT !.isStopping = tor[t].isStopping \/ tor[t].isRunning], [tor[t] EXCEPT !.isRunning = TRUE]} :
        tor' = [tor EXCEPT ![t] = r]
  BY DEF StartLocked, Update
<1>5. /\ r \in Flags /\ r.exists = tor[t].exists /\ r.verifyState = tor[t].verifyState
      /\ Unstopped(r) => Unstopped(tor[t])
  BY <1>1, <1>4 DEF Flags, Unstopped
<1>6. PipeGrows
  <2>1. CASE t \in Disappeared
    BY <1>3, <2>1, PipeStays DEF StartLocked
  <2>2. CASE t \notin Disappeared
    <3>1. Post("torrentStartImpl", t)
      BY <2>2 DEF StartLocked
    <3>2. "torrentStartImpl" \in Functions \ {"sessionCloseImpl"}
      BY DEF Functions
    <3> QED
      BY <1>1, <1>3, <3>1, <3>2, Posts, PostedIs
  <2> QED
    BY <2>1, <2>2
<1> HIDE DEF t
<1>7. tor' \in [Torrents -> Flags] /\ tor'[t] = r /\ \A u \in Torrents : u # t => tor'[u] = tor[u]
  BY <1>1, <1>4, <1>5 DEF Parts, Typed
<1>8. \A u \in Torrents : /\ tor'[u].exists = tor[u].exists /\ tor'[u].verifyState = tor[u].verifyState
                          /\ Unstopped(tor'[u]) => Unstopped(tor[u])
  BY <1>5, <1>7
<1> QED
  BY <1>2, <1>3, <1>6, <1>7, <1>8, UserSets

\* tr_sessionClose.
LEMMA CloseKeeps ==
  ASSUME LInv, CloseSession
  PROVE  LInv'
<1>1. Parts
  BY PartsBefore
<1>2. UNCHANGED <<tor, calls, verifyVars, starting, removed, commands>> /\ closing' = TRUE /\ Post("sessionCloseImpl", NoTorrent)
  BY DEF CloseSession
<1>3. UserTyped'
  BY <1>1, <1>2 DEF Parts, UserTyped
<1>4. PipeGrows
  <2>1. Call("sessionCloseImpl", NoTorrent) \in PipeFrames
    BY DEF PipeFrames
  <2> QED
    BY <1>2, <2>1, Posts
<1>5. tor' = tor /\ tor' \in [Torrents -> Flags]
  BY <1>1, <1>2 DEF Parts, Typed
<1> QED
  BY <1>2, <1>3, <1>4, <1>5, UserSets

\* torrentInit: the verify thread has nothing of a torrent that is not there.
LEMMA UserAddKeeps ==
  ASSUME LInv, NEW t \in Torrents, NEW b \in BOOLEAN, UserAdd(t, b)
  PROVE  LInv'
<1> DEFINE r == [NewTorrent EXCEPT !.startAfterVerify = b]
<1>1. Parts /\ Typed /\ VerifyInv
  BY PartsBefore DEF Parts
<1>2. /\ UNCHANGED <<calls, verifyVars, starting>> /\ Command(t) /\ removed' = removed /\ ~tor[t].exists
      /\ tor' = [tor EXCEPT ![t] = r] /\ Post("verifyTorrent", t)
  BY DEF UserAdd, Update
<1>3. UserTyped' /\ closing' = closing
  <2>1. starting' \in Torrents \cup {NoTorrent}
    BY <1>1, <1>2 DEF Parts, UserTyped
  <2> QED
    BY <1>2, <2>1, CommandIs
<1>4. r \in Flags /\ r.exists = TRUE /\ r.verifyState = "none" /\ ~Unstopped(r)
  BY DEF NewTorrent, Flags, Unstopped
<1> HIDE DEF r
<1>5. tor' \in [Torrents -> Flags] /\ tor'[t] = r /\ \A u \in Torrents : u # t => tor'[u] = tor[u]
  BY <1>1, <1>2, <1>4 DEF Typed
<1>6. /\ verifyPc' = verifyPc /\ current' = current /\ verifyList' = verifyList /\ stopCurrent' = stopCurrent
  BY <1>2 DEF verifyVars
<1>7. t # current /\ t \notin verifyList
  BY <1>1, <1>2, LifecycleAssumption DEF VerifyInv
<1>8. VerifyStateIsTrue'
  <2>1. VerifyStateIsTrue
    BY <1>1 DEF VerifyInv
  <2> QED
    BY <1>3, <1>4, <1>5, <1>6, <1>7, <2>1 DEF VerifyStateIsTrue
<1>9. VerifyInv'
  <2>1. \A u \in Torrents : tor[u].exists => tor'[u].exists
    BY <1>4, <1>5
  <2>2. ListIsServed'
    BY <1>1, <1>6 DEF VerifyInv, ListIsServed
  <2> QED
    BY <1>1, <1>6, <1>8, <2>1, <2>2 DEF VerifyInv, Typed
<1>10. Typed' /\ LetGo' = LetGo
  BY <1>1, <1>5, <1>6 DEF Typed, LetGo
<1>11. \A u \in Torrents : Heard(u) => Heard(u)'
  BY <1>6 DEF Heard
<1>12. PipeGrows
  <2>1. "verifyTorrent" \in Functions \ {"sessionCloseImpl"}
    BY DEF Functions
  <2> QED
    BY <1>2, <1>3, <2>1, Posts, PostedIs
<1>13. \A u \in Torrents : Unstopped(tor'[u]) => Unstopped(tor[u])
  BY <1>4, <1>5
<1> QED
  BY <1>2, <1>3, <1>9, <1>10, <1>11, <1>12, <1>13, OtherKeeps DEF Other

\* The RPC server.
LEMMA RpcKeeps ==
  ASSUME LInv, NEW t \in Torrents, RpcStart(t) \/ RpcStop(t) \/ RpcVerify(t)
  PROVE  LInv'
<1>1. Parts /\ tor[t] \in Flags
  BY PartsBefore DEF Parts, Typed
<1>2. /\ calls = <<>> /\ UNCHANGED <<pipe, verifyVars, starting, closing, removed>>
      /\ commands < MaxCommands /\ commands' = commands + 1
  BY DEF RpcStart, RpcStop, RpcVerify, RpcCommand
<1>3. UserTyped' /\ closing' = closing
  <2>1. UserTyped /\ MaxCommands \in Nat
    BY <1>1, LifecycleAssumption DEF Parts
  <2>2. commands' \in 0 .. MaxCommands
    BY <1>2, <2>1 DEF UserTyped
  <2> QED
    BY <1>2, <2>1, <2>2 DEF UserTyped
<1>4. CASE RpcStart(t) \/ RpcVerify(t)
  <2>1. tor' = tor
    BY <1>4 DEF RpcStart, RpcVerify
  <2>2. PICK f \in {"tr_torrentStart", "tr_torrentStartNow", "verifyTorrent"} : calls' = <<Call(f, t)>>
    BY <1>4 DEF RpcStart, RpcVerify
  <2>3. Call(f, t) \in Frames /\ Call(f, t).call = f
    BY DEF Call, Frames, Calls, Functions
  <2>4. f \notin Behind /\ f # "(tr_verifyRemove wait)" /\ f \notin Closing
    BY DEF Behind, Closing
  <2>5. Fresh(calls)'
    <3>1. Fresh(<<Call(f, t)>>)
      BY <2>3, <2>4, OneFresh
    <3> QED
      BY <1>3, <2>2, <3>1 DEF Fresh
  <2> QED
    BY <1>2, <1>3, <2>1, <2>5, BeginsKeeps
<1>5. CASE RpcStop(t)
  <2> DEFINE r == [tor[t] EXCEPT !.isStopping = TRUE]
  <2>1. tor' = [tor EXCEPT ![t] = r] /\ UNCHANGED calls
    BY <1>5 DEF RpcStop, Update
  <2>2. r \in Flags /\ r.exists = tor[t].exists /\ r.verifyState = tor[t].verifyState /\ (Unstopped(r) <=> Unstopped(tor[t]))
    BY <1>1 DEF Flags, Unstopped
  <2> HIDE DEF r
  <2>3. tor' \in [Torrents -> Flags] /\ tor'[t] = r /\ \A u \in Torrents : u # t => tor'[u] = tor[u]
    BY <1>1, <2>1, <2>2 DEF Parts, Typed
  <2>4. PipeGrows
    BY <1>2, <1>3, PipeStays
  <2>5. \A u \in Torrents : /\ tor'[u].exists = tor[u].exists /\ tor'[u].verifyState = tor[u].verifyState
                            /\ Unstopped(tor'[u]) => Unstopped(tor[u])
    BY <2>2, <2>3
  <2> QED
    BY <1>2, <1>3, <2>1, <2>3, <2>4, <2>5, UserSets
<1> QED
  BY <1>4, <1>5

\* The user's thread and the RPC server.
LEMMA UserKeeps ==
  ASSUME LInv, User
  PROVE  LInv'
<1>1. CASE StartLocked \/ CloseSession
  BY <1>1, StartLockedKeeps, CloseKeeps
<1>2. ASSUME NEW t \in Torrents,
             \/ UserStart(t) \/ UserStop(t) \/ UserVerify(t) \/ UserRemove(t)
             \/ \E b \in BOOLEAN : UserAdd(t, b)
             \/ RpcStart(t) \/ RpcStop(t) \/ RpcVerify(t)
      PROVE  LInv'
  BY <1>2, UserStartKeeps, UserPosts, UserAddKeeps, RpcKeeps
<1> QED
  BY <1>1, <1>2 DEF User

-----------------------------------------------------------------------------
(* The theorems. *)

\* No call is on its way and no verification on, when the session starts.
LEMMA InitLInv ==
  ASSUME Init
  PROVE  LInv
<1>1. calls = <<>> /\ pipe = <<>> /\ Len(calls) = 0 /\ Len(pipe) = 0
  BY DEF Init
<1>2. tor \in [Torrents -> Flags]
  BY DEF Init, NewTorrent, Flags
<1>3. \A t \in Torrents : tor[t].verifyState = "none" /\ ~tor[t].started
  BY DEF Init, NewTorrent
<1>4. TypeOK
  <2>1. pipe \in Seq(PipeFrames) /\ calls \in Seq(Frames)
    BY <1>1
  <2>2. /\ verifyPc \in {"dead", "loop", "begin", "verifying", "check", "fire"}
        /\ current \in Torrents \cup {NoTorrent} /\ verifyList \subseteq Torrents /\ stopCurrent \in BOOLEAN
        /\ starting \in Torrents \cup {NoTorrent} /\ closing \in BOOLEAN /\ removed \subseteq Torrents
    BY DEF Init
  <2>3. commands \in 0 .. MaxCommands
    BY LifecycleAssumption DEF Init
  <2> QED
    BY <1>2, <2>1, <2>2, <2>3 DEF TypeOK, PipeFrames, Frames
<1>5. VerifyInv
  BY <1>3, LifecycleAssumption DEF Init, VerifyInv, VerifyStateIsTrue, ListIsServed
<1>6. StopIsOnItsWay
  BY <1>3 DEF StopIsOnItsWay
<1>7. CallsInv
  BY <1>1 DEF CallsInv, Stack
<1> QED
  BY <1>4, <1>5, <1>6, <1>7 DEF LInv

\* The invariant that the calls of the event thread, the verify thread and the user's thread keep:
\* what is to find a torrent let go by the verify thread is behind a tr_verifyRemove.
THEOREM LifecycleInvariance == Spec => []LInv
<1>1. Init => LInv
  BY InitLInv
<1>2. LInv /\ [Next]_vars => LInv'
  <2> SUFFICES ASSUME LInv, [Next]_vars
               PROVE  LInv'
    OBVIOUS
  <2>1. CASE Next
    BY <2>1, EventThreadKeeps, VerifyThreadKeeps, UserKeeps DEF Next
  <2>2. CASE UNCHANGED vars
    <3>1. UNCHANGED <<tor, pipe, calls, verifyPc, current, verifyList, stopCurrent, starting, closing, removed, commands>>
      BY <2>2 DEF vars
    <3>2. TypeOK'
      BY <3>1 DEF LInv, TypeOK
    <3>3. VerifyInv'
      BY <3>1 DEF LInv, VerifyInv, VerifyStateIsTrue, ListIsServed
    <3>4. StopIsOnItsWay'
      BY <3>1 DEF LInv, StopIsOnItsWay
    <3>5. CallsInv'
      <4>1. Stack(calls, LetGo)'
        BY <3>1 DEF LInv, CallsInv, Stack, LetGo
      <4> QED
        BY <3>1, <4>1 DEF LInv, CallsInv
    <3> QED
      BY <3>2, <3>3, <3>4, <3>5 DEF LInv
  <2> QED
    BY <2>1, <2>2
<1> QED
  BY <1>1, <1>2, PTL DEF Spec

\* The verify state that the user sees is true, the verify thread holds every torrent it touches
\* (verify.c asserts that nobody frees it), its list is served, and no torrent that was stopped
\* keeps its peers unless a stop is on its way: whatever the three threads do in any order.
THEOREM ThreadsAlwaysAgree == Spec => []ThreadsAgree
<1>1. LInv => ThreadsAgree
  <2> SUFFICES ASSUME LInv
               PROVE  ThreadsAgree
    OBVIOUS
  <2>1. TypeOK /\ VerifyStateIsTrue /\ ListIsServed /\ StopIsOnItsWay
    BY DEF LInv, VerifyInv
  <2>2. VerifierHoldsTorrent
    BY DEF LInv, VerifyInv, VerifierHoldsTorrent
  <2> QED
    BY <2>1, <2>2 DEF ThreadsAgree
<1> QED
  BY <1>1, LifecycleInvariance, PTL
=============================================================================
