--------------------------- MODULE BlockCacheProofs ---------------------------
(***************************************************************************)
(* The write cache is a store of blocks, whatever the sizes of its limit,  *)
(* of the torrents and of their files.                                     *)
(*                                                                         *)
(* A handler of the cache is a composition of flushes, each of one run,    *)
(* and a flush moves data from the cache to the disk (Flushed).  That it   *)
(* moves the right data rests on what the array is (Sorted), and on where  *)
(* the runs are in it, also after some of them are gone (MovedRun).        *)
(***************************************************************************)
EXTENDS BlockCache, SequenceLemmas

-----------------------------------------------------------------------------
(* The array.                                                               *)

Entries == [key : Keys, good : BOOLEAN]
Sorted(bs) == \A m, n \in DOMAIN bs : m < n => Precedes(bs[m].key, bs[n].key)

\* What the cache works on when a handler runs.
WorkSet == [blocks : Seq(Entries), disk : [Keys -> BOOLEAN], marked : SUBSET Torrents,
            writes : Nat, err : BOOLEAN,
            plan : [at : Nat, written : Nat, torn : BOOLEAN, reported : BOOLEAN]]
Sound(w) == w \in WorkSet /\ Sorted(w.blocks)

\* No failing write goes unreported.
Reports(w) == w.plan.at = 0 \/ w.plan.reported

\* v is what becomes of w by flushes: nothing is new in the array, and of the torrents that are
\* not marked each block reads as before and is on the disk as before or as it was read.
Flushed(w, v) ==
  /\ Sound(v)
  /\ v.plan = w.plan
  /\ w.marked \subseteq v.marked
  /\ Len(v.blocks) <= Len(w.blocks)
  /\ \A n \in DOMAIN v.blocks : \E m \in DOMAIN w.blocks : v.blocks[n] = w.blocks[m]
  /\ Reports(w) =>
       \A k \in Keys : k[1] \notin v.marked =>
         /\ ContentIn(v.blocks, v.disk, k) = ContentIn(w.blocks, w.disk, k)
         /\ v.disk[k] \in {w.disk[k], ContentIn(w.blocks, w.disk, k)}

LEMMA KeyTypes ==
  ASSUME NEW k \in Keys
  PROVE  /\ k = <<k[1], k[2]>> /\ k[1] \in Torrents /\ k[1] \in Nat
         /\ k[2] \in Blocks(k[1]) /\ k[2] \in Nat
<1>1. PICK t \in Torrents : k \in {t} \X Blocks(t)
  BY DEF Keys
<1>2. Torrents \subseteq Nat /\ BlockCount[t] \in Nat
  BY CacheAssumption
<1>3. Blocks(t) \subseteq Nat
  BY <1>2 DEF Blocks
<1> QED
  BY <1>1, <1>2, <1>3

LEMMA KeyIs ==
  ASSUME NEW t \in Torrents, NEW b \in Blocks(t)
  PROVE  <<t, b>> \in Keys
BY DEF Keys

\* Precedes is a strict order of the keys.
LEMMA PrecedesOrders ==
  ASSUME NEW j \in Keys, NEW k \in Keys, NEW l \in Keys
  PROVE  /\ ~Precedes(k, k)
         /\ Precedes(j, k) /\ Precedes(k, l) => Precedes(j, l)
         /\ Precedes(j, k) \/ Precedes(k, j) \/ j = k
         /\ ~(Precedes(j, k) /\ Precedes(k, j))
<1>1. /\ j[1] \in Nat /\ j[2] \in Nat /\ k[1] \in Nat /\ k[2] \in Nat /\ l[1] \in Nat /\ l[2] \in Nat
      /\ j = <<j[1], j[2]>> /\ k = <<k[1], k[2]>>
  BY KeyTypes
<1>2. j[1] = k[1] /\ j[2] = k[2] => j = k
  BY <1>1
<1> QED
  BY <1>1, <1>2 DEF Precedes

LEMMA EntryTypes ==
  ASSUME NEW bs \in Seq(Entries)
  PROVE  /\ Len(bs) \in Nat /\ DOMAIN bs = 1 .. Len(bs)
         /\ \A n \in DOMAIN bs : bs[n] \in Entries /\ bs[n].key \in Keys /\ bs[n].good \in BOOLEAN
<1>1. Len(bs) \in Nat /\ DOMAIN bs = 1 .. Len(bs)
  BY LenProperties
<1>2. \A n \in DOMAIN bs : bs[n] \in Entries
  BY <1>1, ElementOfSeq
<1>3. \A e \in Entries : e.key \in Keys /\ e.good \in BOOLEAN
  BY DEF Entries
<1> QED
  BY <1>1, <1>2, <1>3

\* No key is there twice, so that a block is read from the one entry that it has.
LEMMA OneEntry ==
  ASSUME NEW bs \in Seq(Entries), Sorted(bs), NEW m \in DOMAIN bs, NEW n \in DOMAIN bs,
         bs[m].key = bs[n].key
  PROVE  m = n
<1>1. m \in Nat /\ n \in Nat /\ bs[m].key \in Keys /\ bs[n].key \in Keys
  BY EntryTypes
<1>2. CASE m < n
  BY <1>1, <1>2, PrecedesOrders DEF Sorted
<1>3. CASE n < m
  BY <1>1, <1>3, PrecedesOrders DEF Sorted
<1> QED
  BY <1>1, <1>2, <1>3

LEMMA ContentIs ==
  ASSUME NEW bs \in Seq(Entries), Sorted(bs), NEW d, NEW k
  PROVE  /\ \A n \in DOMAIN bs : bs[n].key = k => ContentIn(bs, d, k) = bs[n].good
         /\ (\A n \in DOMAIN bs : bs[n].key # k) => ContentIn(bs, d, k) = d[k]
<1>1. ASSUME NEW n \in DOMAIN bs, bs[n].key = k
      PROVE  ContentIn(bs, d, k) = bs[n].good
  <2> DEFINE c == CHOOSE m \in DOMAIN bs : bs[m].key = k
  <2>1. c \in DOMAIN bs /\ bs[c].key = k
    BY <1>1
  <2>2. ContentIn(bs, d, k) = bs[c].good
    BY <1>1 DEF ContentIn, InCache
  <2>3. c = n
    BY <1>1, <2>1, OneEntry
  <2> QED
    BY <2>2, <2>3
<1>2. (\A n \in DOMAIN bs : bs[n].key # k) => ContentIn(bs, d, k) = d[k]
  BY DEF ContentIn, InCache
<1> QED
  BY <1>1, <1>2

LEMMA ContentTypes ==
  ASSUME NEW bs \in Seq(Entries), Sorted(bs), NEW d \in [Keys -> BOOLEAN], NEW k \in Keys
  PROVE  ContentIn(bs, d, k) \in BOOLEAN
<1>1. \A n \in DOMAIN bs : bs[n].good \in BOOLEAN
  BY EntryTypes
<1>2. CASE \E n \in DOMAIN bs : bs[n].key = k
  BY <1>1, <1>2, ContentIs
<1>3. CASE ~(\E n \in DOMAIN bs : bs[n].key = k)
  BY <1>3, ContentIs
<1> QED
  BY <1>2, <1>3

\* The entries before the position of LowerBound precede the key, the others do not.
LEMMA LowerBoundIs ==
  ASSUME NEW bs \in Seq(Entries), Sorted(bs), NEW k \in Keys
  PROVE  /\ LowerBound(bs, k) \in 1 .. Len(bs) + 1
         /\ \A n \in DOMAIN bs : Precedes(bs[n].key, k) <=> n < LowerBound(bs, k)
<1> DEFINE D == {n \in DOMAIN bs : Precedes(bs[n].key, k)}
<1>1. Len(bs) \in Nat /\ DOMAIN bs = 1 .. Len(bs) /\ \A n \in DOMAIN bs : bs[n].key \in Keys
  BY EntryTypes
<1>2. ASSUME NEW m \in D, NEW n \in DOMAIN bs, n < m
      PROVE  n \in D
  BY <1>1, <1>2, PrecedesOrders DEF Sorted
<1>3. PICK c \in 0 .. Len(bs) : D = 1 .. c
  <2>1. CASE D = {}
    BY <1>1, <2>1
  <2>2. CASE D # {}
    <3>1. D \in SUBSET (0 .. Len(bs))
      BY <1>1
    <3> HIDE DEF D
    <3>2. PICK m \in D : \A n \in D : m >= n
      BY <1>1, <2>2, <3>1, GreatestNumber
    <3>3. D \subseteq 1 .. Len(bs)
      BY <1>1 DEF D
    <3>4. m \in Nat /\ m <= Len(bs)
      BY <1>1, <3>2, <3>3
    <3>5. \A n \in D : n \in 1 .. m
      BY <1>1, <3>2, <3>3, <3>4
    <3>6. \A n \in 1 .. m : n \in D
      <4> TAKE n \in 1 .. m
      <4>1. n = m \/ n < m
        BY <3>4
      <4>2. n \in DOMAIN bs
        BY <1>1, <3>4
      <4> QED
        BY <1>2, <3>2, <4>1, <4>2
    <3>7. D = 1 .. m
      BY <3>5, <3>6
    <3> QED
      BY <1>1, <3>4, <3>7
  <2> QED
    BY <2>1, <2>2
<1>4. Cardinality(D) = c
  <2>1. Cardinality(1 .. c) = IF 1 > c THEN 0 ELSE c - 1 + 1
    BY <1>1, FS_Interval
  <2> HIDE DEF D
  <2> QED
    BY <1>1, <1>3, <2>1
<1>5. LowerBound(bs, k) = c + 1
  BY <1>4 DEF LowerBound
<1> QED
  BY <1>1, <1>3, <1>5

-----------------------------------------------------------------------------
(* One flush.                                                               *)

\* What is left of a sequence without n elements at p.
LEMMA WithoutSegment ==
  ASSUME NEW S, NEW s \in Seq(S), NEW p \in 1 .. Len(s), NEW n \in 1 .. Len(s) - p + 1
  PROVE  LET t == SubSeq(s, 1, p - 1) \o SubSeq(s, p + n, Len(s)) IN
         /\ t \in Seq(S) /\ Len(t) = Len(s) - n
         /\ \A k \in 1 .. Len(s) - n : t[k] = IF k < p THEN s[k] ELSE s[k + n]
<1> DEFINE u == SubSeq(s, 1, p - 1)
           v == SubSeq(s, p + n, Len(s))
<1>1. Len(s) \in Nat /\ p \in Nat /\ n \in Nat /\ 1 <= p /\ p <= Len(s) /\ 1 <= n /\ p + n <= Len(s) + 1
  OBVIOUS
<1>2. \A k \in 1 .. Len(s) : s[k] \in S
  OBVIOUS
<1>3. u \in Seq(S) /\ Len(u) = p - 1 /\ \A k \in 1 .. p - 1 : u[k] = s[k]
  <2>1. \A k \in 1 .. p - 1 : s[k] \in S
    BY <1>1, <1>2
  <2>2. /\ u \in Seq(S) /\ Len(u) = (IF 1 <= p - 1 THEN (p - 1) - 1 + 1 ELSE 0)
        /\ \A k \in 1 .. (p - 1) - 1 + 1 : u[k] = s[1 + k - 1]
    BY <1>1, <2>1, SubSeqProperties
  <2> HIDE DEF u
  <2> QED
    BY <1>1, <2>2
<1>4. v \in Seq(S) /\ Len(v) = Len(s) - p - n + 1 /\ \A k \in 1 .. Len(s) - p - n + 1 : v[k] = s[p + n + k - 1]
  <2>1. \A k \in p + n .. Len(s) : s[k] \in S
    BY <1>1, <1>2
  <2>2. /\ v \in Seq(S) /\ Len(v) = (IF p + n <= Len(s) THEN Len(s) - (p + n) + 1 ELSE 0)
        /\ \A k \in 1 .. Len(s) - (p + n) + 1 : v[k] = s[(p + n) + k - 1]
    BY <1>1, <2>1, SubSeqProperties
  <2> HIDE DEF v
  <2> QED
    BY <1>1, <2>2
<1> HIDE DEF u, v
<1>5. /\ u \o v \in Seq(S) /\ Len(u \o v) = Len(u) + Len(v)
      /\ \A k \in 1 .. Len(u) + Len(v) : (u \o v)[k] = IF k <= Len(u) THEN u[k] ELSE v[k - Len(u)]
  BY <1>3, <1>4, ConcatProperties
<1>6. \A k \in 1 .. Len(s) - n : (u \o v)[k] = IF k < p THEN s[k] ELSE s[k + n]
  <2> SUFFICES ASSUME NEW k \in 1 .. Len(s) - n
               PROVE  (u \o v)[k] = IF k < p THEN s[k] ELSE s[k + n]
    OBVIOUS
  <2>1. k \in 1 .. Len(u) + Len(v)
    BY <1>1, <1>3, <1>4
  <2>2. CASE k < p
    BY <1>1, <1>3, <1>5, <2>1, <2>2
  <2>3. CASE ~(k < p)
    <3>1. /\ k - Len(u) \in 1 .. Len(s) - p - n + 1 /\ ~(k <= Len(u))
          /\ p + n + (k - Len(u)) - 1 = k + n
      BY <1>1, <1>3, <2>3
    <3> QED
      BY <1>4, <1>5, <2>1, <2>3, <3>1
  <2> QED
    BY <2>2, <2>3
<1>7. u \o v \in Seq(S) /\ Len(u \o v) = Len(s) - n
  BY <1>1, <1>3, <1>4, <1>5
<1> QED
  BY <1>6, <1>7 DEF u, v

\* A segment is sorted, and so is the array without it.
LEMMA RestIsSorted ==
  ASSUME NEW bs \in Seq(Entries), Sorted(bs), NEW p \in 1 .. Len(bs), NEW n \in 1 .. Len(bs) - p + 1,
         NEW c \in Seq(Entries), Len(c) = Len(bs) - n,
         \A k \in 1 .. Len(bs) - n : c[k] = IF k < p THEN bs[k] ELSE bs[k + n]
  PROVE  Sorted(c)
<1>1. Len(bs) \in Nat /\ DOMAIN bs = 1 .. Len(bs) /\ DOMAIN c = 1 .. Len(bs) - n
  BY LenProperties
<1>2. ASSUME NEW i \in DOMAIN c, NEW j \in DOMAIN c, i < j
      PROVE  Precedes(c[i].key, c[j].key)
  <2> DEFINE at(k) == IF k < p THEN k ELSE k + n
  <2>1. at(i) \in DOMAIN bs /\ at(j) \in DOMAIN bs /\ at(i) < at(j)
    BY <1>1, <1>2
  <2>2. c[i] = bs[at(i)] /\ c[j] = bs[at(j)]
    BY <1>1
  <2> HIDE DEF at
  <2> QED
    BY <2>1, <2>2 DEF Sorted
<1> QED
  BY <1>2 DEF Sorted

\* n adjacent blocks at p.
Adjacent(bs, p, n) ==
  /\ p \in 1 .. Len(bs) /\ n \in 1 .. Len(bs) - p + 1
  /\ \A m \in 0 .. n - 1 : bs[p + m].key = <<bs[p].key[1], bs[p].key[2] + m>>

\* A run of blocks of the torrent t that begins with b.
IsRun(run, t, b) ==
  /\ Len(run) \in Nat \ {0} /\ t \in Torrents /\ b \in Nat
  /\ \A m \in 1 .. Len(run) : run[m].key = <<t, b + m - 1>> /\ run[m].good \in BOOLEAN

\* v is w with the run on the disk, where its blocks belong, or with an error that is marked.
HasWritten(w, run, t, b, v) ==
  /\ v \in WorkSet /\ v.blocks = w.blocks /\ v.plan = w.plan
  /\ w.marked \subseteq v.marked
  /\ v.err => t \in v.marked
  /\ \A k \in Keys : k[1] # t => v.disk[k] = w.disk[k]
  /\ Reports(w) /\ ~v.err =>
       \A k \in Keys :
         v.disk[k] = IF k[1] = t /\ k[2] \in b .. b + Len(run) - 1 THEN run[k[2] - b + 1].good
                     ELSE w.disk[k]

\* tr_ioWrite writes a run.
LEMMA WriteIs ==
  ASSUME NEW w \in WorkSet, NEW run, NEW t, NEW b, IsRun(run, t, b)
  PROVE  HasWritten(w, run, t, b, tr_ioWrite(w, run))
<1> DEFINE fails == w.plan.at = w.writes + 1 /\ w.plan.written < Len(run)
           done == IF fails THEN w.plan.written ELSE Len(run)
           disk2 == [k \in Keys |-> IF k[1] = t /\ k[2] \in b .. b + done - 1 THEN run[k[2] - b + 1].good
                                    ELSE IF fails /\ w.plan.torn /\ k = <<t, b + done>> THEN FALSE
                                    ELSE w.disk[k]]
           e == fails /\ w.plan.reported
           u == [w EXCEPT !.disk = disk2, !.writes = @ + 1, !.err = e]
           v == tr_ioWrite(w, run)
<1>0. /\ Len(run) \in Nat \ {0} /\ t \in Torrents /\ b \in Nat
      /\ \A m \in 1 .. Len(run) : run[m].key = <<t, b + m - 1>> /\ run[m].good \in BOOLEAN
  BY DEF IsRun
<1>1. /\ w.writes \in Nat /\ w.plan.at \in Nat /\ w.plan.written \in Nat /\ w.plan.reported \in BOOLEAN
      /\ w.disk \in [Keys -> BOOLEAN] /\ w.marked \subseteq Torrents
  BY DEF WorkSet
<1>2. run[1].key[1] = t /\ run[1].key[2] = b
  <2>1. run[1].key = <<t, b + 1 - 1>>
    BY <1>0
  <2>2. b + 1 - 1 = b
    BY <1>0
  <2> QED
    BY <2>1, <2>2
<1>3. v = IF u.err THEN SetLocalError(u, t) ELSE u
  BY <1>2 DEF tr_ioWrite
<1>4. done \in 0 .. Len(run)
  BY <1>0, <1>1
<1>5. disk2 \in [Keys -> BOOLEAN]
  <2>1. ASSUME NEW k \in Keys, k[1] = t, k[2] \in b .. b + done - 1
        PROVE  run[k[2] - b + 1].good \in BOOLEAN
    <3>1. k[2] - b + 1 \in 1 .. Len(run)
      BY <1>0, <1>4, <2>1, KeyTypes
    <3> QED
      BY <1>0, <3>1
  <2>2. \A k \in Keys : w.disk[k] \in BOOLEAN
    BY <1>1
  <2> QED
    BY <2>1, <2>2
<1> HIDE DEF disk2
<1>6. /\ u \in WorkSet /\ u.blocks = w.blocks /\ u.plan = w.plan /\ u.marked = w.marked
      /\ u.disk = disk2 /\ u.err = e
  <2>1. e \in BOOLEAN /\ w.writes + 1 \in Nat
    BY <1>1
  <2> HIDE DEF e
  <2> QED
    BY <1>1, <1>5, <2>1 DEF WorkSet
<1> HIDE DEF u
<1>7. /\ SetLocalError(u, t) \in WorkSet
      /\ LET x == SetLocalError(u, t) IN
         x.blocks = u.blocks /\ x.plan = u.plan /\ x.marked = u.marked \cup {t} /\ x.disk = u.disk /\ x.err = u.err
  BY <1>0, <1>6 DEF SetLocalError, WorkSet
<1>8. /\ v \in WorkSet /\ v.blocks = w.blocks /\ v.plan = w.plan /\ w.marked \subseteq v.marked
      /\ v.err => t \in v.marked
      /\ v.disk = disk2 /\ v.err = e
  BY <1>3, <1>6, <1>7
<1> HIDE DEF v
<1>9. ASSUME NEW k \in Keys, k[1] # t
      PROVE  disk2[k] = w.disk[k]
  <2>1. k # <<t, b + done>>
    BY <1>9
  <2> QED
    BY <1>9, <2>1 DEF disk2
<1>10. ASSUME Reports(w), ~v.err, NEW k \in Keys
       PROVE  disk2[k] = IF k[1] = t /\ k[2] \in b .. b + Len(run) - 1 THEN run[k[2] - b + 1].good
                         ELSE w.disk[k]
  <2>1. ~fails
    BY <1>1, <1>8, <1>10 DEF Reports
  <2>2. done = Len(run)
    BY <2>1
  <2> QED
    BY <2>1, <2>2 DEF disk2
<1> QED
  BY <1>8, <1>9, <1>10 DEF v, HasWritten

\* A flush of adjacent blocks: they leave the array, and their data get to the disk, or their
\* torrent is marked.
LEMMA FlushIs ==
  ASSUME NEW w, Sound(w), NEW p, NEW n, Adjacent(w.blocks, p, n)
  PROVE  LET v == flushContiguous(w, p, n) IN
         /\ Flushed(w, v)
         /\ Len(v.blocks) = Len(w.blocks) - n
         /\ \A k \in 1 .. Len(w.blocks) - n :
              v.blocks[k] = IF k < p THEN w.blocks[k] ELSE w.blocks[k + n]
         /\ v.err => w.blocks[p].key[1] \in v.marked
<1> DEFINE bs == w.blocks
           rest == SubSeq(bs, 1, p - 1) \o SubSeq(bs, p + n, Len(bs))
           run == SubSeq(bs, p, p + n - 1)
           t == bs[p].key[1]
           b == bs[p].key[2]
           x == [w EXCEPT !.blocks = rest]
           v == flushContiguous(w, p, n)
<1>1. w \in WorkSet /\ Sorted(bs) /\ bs \in Seq(Entries)
  BY DEF Sound, WorkSet
<1>2. /\ Len(bs) \in Nat /\ DOMAIN bs = 1 .. Len(bs)
      /\ \A i \in 1 .. Len(bs) : bs[i] \in Entries /\ bs[i].key \in Keys /\ bs[i].good \in BOOLEAN
  BY <1>1, EntryTypes
<1>3. p \in 1 .. Len(bs) /\ n \in 1 .. Len(bs) - p + 1 /\ \A m \in 0 .. n - 1 : bs[p + m].key = <<t, b + m>>
  BY DEF Adjacent
<1>4. t \in Torrents /\ b \in Nat
  BY <1>2, <1>3, KeyTypes
<1>5. v = tr_ioWrite(x, run)
  BY DEF flushContiguous
<1> HIDE DEF v
<1>6. /\ rest \in Seq(Entries) /\ Len(rest) = Len(bs) - n
      /\ \A k \in 1 .. Len(bs) - n : rest[k] = IF k < p THEN bs[k] ELSE bs[k + n]
  <2> HIDE DEF bs
  <2> QED
    BY <1>1, <1>3, WithoutSegment
<1>7. Len(run) = n /\ \A m \in 1 .. n : run[m] = bs[p + m - 1]
  <2>1. \A i \in p .. p + n - 1 : bs[i] \in Entries
    BY <1>2, <1>3
  <2>2. /\ Len(run) = (IF p <= p + n - 1 THEN p + n - 1 - p + 1 ELSE 0)
        /\ \A m \in 1 .. p + n - 1 - p + 1 : run[m] = bs[p + m - 1]
    BY <1>2, <1>3, <2>1, SubSeqProperties
  <2> HIDE DEF run, bs
  <2> QED
    BY <1>2, <1>3, <2>2
<1> HIDE DEF rest, run
<1>8. Sorted(rest)
  <2> HIDE DEF bs
  <2> QED
    BY <1>1, <1>3, <1>6, RestIsSorted
<1>9. /\ x \in WorkSet /\ x.blocks = rest /\ x.plan = w.plan /\ x.marked = w.marked /\ x.disk = w.disk
      /\ Reports(x) = Reports(w)
  BY <1>1, <1>6 DEF WorkSet, Reports
<1> HIDE DEF x, t, b
<1>10. \A m \in 1 .. Len(run) : run[m].key = <<t, b + m - 1>> /\ run[m].good \in BOOLEAN
  <2> TAKE m \in 1 .. Len(run)
  <2>1. m - 1 \in 0 .. n - 1 /\ p + (m - 1) = p + m - 1 /\ p + m - 1 \in 1 .. Len(bs) /\ b + (m - 1) = b + m - 1
    BY <1>2, <1>3, <1>4, <1>7
  <2>2. run[m] = bs[p + m - 1] /\ bs[p + (m - 1)].key = <<t, b + (m - 1)>>
    BY <1>3, <1>7, <2>1
  <2> QED
    BY <1>2, <2>1, <2>2
<1>11. /\ v \in WorkSet /\ v.blocks = rest /\ v.plan = w.plan
       /\ w.marked \subseteq v.marked
       /\ v.err => t \in v.marked
       /\ \A k \in Keys : k[1] # t => v.disk[k] = w.disk[k]
       /\ Reports(w) /\ ~v.err =>
            \A k \in Keys :
              v.disk[k] = IF k[1] = t /\ k[2] \in b .. b + n - 1 THEN run[k[2] - b + 1].good
                          ELSE w.disk[k]
  <2>1. Len(run) \in Nat \ {0}
    BY <1>2, <1>3, <1>7
  <2>2. /\ v \in WorkSet /\ v.blocks = x.blocks /\ v.plan = x.plan
        /\ x.marked \subseteq v.marked
        /\ v.err => t \in v.marked
        /\ \A k \in Keys : k[1] # t => v.disk[k] = x.disk[k]
        /\ Reports(x) /\ ~v.err =>
             \A k \in Keys :
               v.disk[k] = IF k[1] = t /\ k[2] \in b .. b + Len(run) - 1 THEN run[k[2] - b + 1].good
                           ELSE x.disk[k]
    <3>1. x \in WorkSet
      BY <1>9
    <3>2. HasWritten(x, run, t, b, v)
      BY <1>4, <1>5, <1>10, <2>1, <3>1, WriteIs DEF IsRun
    <3> QED
      BY <3>2 DEF HasWritten
  <2>3. Len(run) = n
    BY <1>7
  <2> QED
    BY <1>9, <2>2, <2>3
<1>12. ASSUME NEW j \in DOMAIN rest
       PROVE  \E i \in DOMAIN bs : i \notin p .. p + n - 1 /\ rest[j] = bs[i]
  <2>1. j \in 1 .. Len(bs) - n
    BY <1>6, LenProperties
  <2>2. CASE j < p
    <3>1. j \in DOMAIN bs /\ j \notin p .. p + n - 1
      BY <1>2, <1>3, <2>1, <2>2
    <3> QED
      BY <1>6, <2>1, <2>2, <3>1
  <2>3. CASE ~(j < p)
    <3>1. j + n \in DOMAIN bs /\ j + n \notin p .. p + n - 1
      BY <1>2, <1>3, <2>1, <2>3
    <3> QED
      BY <1>6, <2>1, <2>3, <3>1
  <2> QED
    BY <2>2, <2>3
<1>13. ASSUME NEW i \in DOMAIN bs, i \notin p .. p + n - 1
       PROVE  \E j \in DOMAIN rest : rest[j] = bs[i]
  <2>0. DOMAIN rest = 1 .. Len(bs) - n
    BY <1>6, LenProperties
  <2>1. CASE i < p
    <3>1. i \in 1 .. Len(bs) - n
      BY <1>2, <1>3, <2>1
    <3> QED
      BY <1>6, <2>0, <2>1, <3>1
  <2>2. CASE ~(i < p)
    <3>1. i - n \in 1 .. Len(bs) - n /\ ~(i - n < p) /\ i - n + n = i
      BY <1>2, <1>3, <1>13, <2>2
    <3> QED
      BY <1>6, <2>0, <3>1
  <2> QED
    BY <2>1, <2>2
<1>14. ASSUME Reports(w), NEW k \in Keys, k[1] \notin v.marked
       PROVE  /\ ContentIn(v.blocks, v.disk, k) = ContentIn(bs, w.disk, k)
              /\ v.disk[k] \in {w.disk[k], ContentIn(bs, w.disk, k)}
  <2>1. k[1] = t => ~v.err
    BY <1>11, <1>14
  <2>2. CASE \E i \in p .. p + n - 1 : bs[i].key = k
    <3>1. PICK i \in p .. p + n - 1 : bs[i].key = k
      BY <2>2
    <3>2. i \in DOMAIN bs /\ i - p \in 0 .. n - 1 /\ p + (i - p) = i /\ i - p + 1 \in 1 .. n /\ p + (i - p + 1) - 1 = i
      <4>1. p \in Nat /\ n \in Nat /\ i \in Nat /\ p <= i /\ i <= p + n - 1 /\ i \in DOMAIN bs
        BY <1>2, <1>3, <3>1
      <4> HIDE <3>1
      <4> QED
        BY <4>1
    <3>3. k = <<t, b + (i - p)>>
      BY <1>3, <3>1, <3>2
    <3>4. k[1] = t /\ k[2] = b + (i - p)
      BY <3>3
    <3>5. k[2] \in b .. b + n - 1 /\ k[2] - b + 1 = i - p + 1
      <4>1. k[2] = b + (i - p) /\ i - p \in 0 .. n - 1 /\ b \in Nat /\ i \in Nat /\ p \in Nat /\ n \in Nat
        BY <1>2, <1>3, <1>4, <3>2, <3>4
      <4> QED
        BY <4>1
    <3>6. v.disk[k] = bs[i].good
      BY <1>7, <1>11, <1>14, <2>1, <3>2, <3>4, <3>5
    <3>7. ContentIn(bs, w.disk, k) = bs[i].good
      BY <1>1, <3>1, <3>2, ContentIs
    <3>8. \A j \in DOMAIN rest : rest[j].key # k
      <4> SUFFICES ASSUME NEW j \in DOMAIN rest, rest[j].key = k
                   PROVE  FALSE
        OBVIOUS
      <4>1. PICK m \in DOMAIN bs : m \notin p .. p + n - 1 /\ rest[j] = bs[m]
        BY <1>12
      <4>2. m = i
        BY <1>1, <3>1, <3>2, <4>1, OneEntry
      <4> QED
        BY <3>1, <4>1, <4>2
    <3>9. ContentIn(rest, v.disk, k) = v.disk[k]
      BY <1>6, <1>8, <3>8, ContentIs
    <3> QED
      BY <1>11, <3>6, <3>7, <3>9
  <2>3. CASE ~\E i \in p .. p + n - 1 : bs[i].key = k
    <3>1. ~(k[1] = t /\ k[2] \in b .. b + n - 1)
      <4> SUFFICES ASSUME k[1] = t, k[2] \in b .. b + n - 1
                   PROVE  FALSE
        OBVIOUS
      <4>1. k = <<k[1], k[2]>>
        BY KeyTypes
      <4>2. k[2] - b \in 0 .. n - 1 /\ b + (k[2] - b) = k[2] /\ p + (k[2] - b) \in p .. p + n - 1
        <5>1. b \in Nat /\ n \in Nat /\ p \in Nat /\ k[2] \in Nat /\ b <= k[2] /\ k[2] <= b + n - 1
          BY <1>3, <1>4, KeyTypes
        <5> QED
          BY <5>1
      <4>3. bs[p + (k[2] - b)].key = <<t, b + (k[2] - b)>>
        BY <1>3, <4>2
      <4> QED
        BY <2>3, <4>1, <4>2, <4>3
    <3>2. v.disk[k] = w.disk[k]
      BY <1>11, <1>14, <2>1, <3>1
    <3>3. CASE \E i \in DOMAIN bs : bs[i].key = k
      <4>1. PICK i \in DOMAIN bs : bs[i].key = k
        BY <3>3
      <4>2. i \notin p .. p + n - 1
        BY <2>3, <4>1
      <4>3. PICK j \in DOMAIN rest : rest[j] = bs[i]
        BY <1>13, <4>2
      <4>4. ContentIn(rest, v.disk, k) = bs[i].good
        BY <1>6, <1>8, <4>1, <4>3, ContentIs
      <4>5. ContentIn(bs, w.disk, k) = bs[i].good
        BY <1>1, <4>1, ContentIs
      <4> QED
        BY <1>11, <3>2, <4>4, <4>5
    <3>4. CASE ~\E i \in DOMAIN bs : bs[i].key = k
      <4>1. \A j \in DOMAIN rest : rest[j].key # k
        BY <1>12, <3>4
      <4>2. ContentIn(rest, v.disk, k) = v.disk[k]
        BY <1>6, <1>8, <4>1, ContentIs
      <4>3. ContentIn(bs, w.disk, k) = w.disk[k]
        BY <1>1, <3>4, ContentIs
      <4> QED
        BY <1>11, <3>2, <4>2, <4>3
    <3> QED
      BY <3>3, <3>4
  <2> QED
    BY <2>2, <2>3
<1>15. Flushed(w, v)
  <2>1. Sound(v)
    BY <1>8, <1>11 DEF Sound
  <2>2. Len(v.blocks) <= Len(w.blocks)
    BY <1>2, <1>3, <1>6, <1>11
  <2>3. \A j \in DOMAIN v.blocks : \E i \in DOMAIN w.blocks : v.blocks[j] = w.blocks[i]
    BY <1>11, <1>12
  <2> QED
    BY <1>11, <1>14, <2>1, <2>2, <2>3 DEF Flushed
<1>16. t = w.blocks[p].key[1]
  BY DEF t
<1> QED
  BY <1>6, <1>11, <1>15, <1>16 DEF v

LEMMA FlushedSelf ==
  ASSUME NEW w, Sound(w)
  PROVE  Flushed(w, w)
<1>1. Len(w.blocks) \in Nat
  BY EntryTypes DEF Sound, WorkSet
<1> QED
  BY <1>1 DEF Flushed

LEMMA FlushedTwice ==
  ASSUME NEW u, NEW v, NEW w, Sound(u), Flushed(u, v), Flushed(v, w)
  PROVE  Flushed(u, w)
<1>1. Len(u.blocks) \in Nat /\ Len(v.blocks) \in Nat /\ Len(w.blocks) \in Nat
  BY EntryTypes DEF Flushed, Sound, WorkSet
<1>2. Sound(w) /\ w.plan = u.plan /\ u.marked \subseteq w.marked
  BY DEF Flushed
<1>3. Len(w.blocks) <= Len(u.blocks)
  BY <1>1 DEF Flushed
<1>4. ASSUME NEW n \in DOMAIN w.blocks
      PROVE  \E m \in DOMAIN u.blocks : w.blocks[n] = u.blocks[m]
  <2>1. PICK i \in DOMAIN v.blocks : w.blocks[n] = v.blocks[i]
    BY DEF Flushed
  <2>2. PICK m \in DOMAIN u.blocks : v.blocks[i] = u.blocks[m]
    BY DEF Flushed
  <2> QED
    BY <2>1, <2>2
<1>5. ASSUME Reports(u), NEW k \in Keys, k[1] \notin w.marked
      PROVE  /\ ContentIn(w.blocks, w.disk, k) = ContentIn(u.blocks, u.disk, k)
             /\ w.disk[k] \in {u.disk[k], ContentIn(u.blocks, u.disk, k)}
  <2>1. Reports(v)
    BY <1>5 DEF Flushed, Reports
  <2>2. k[1] \notin v.marked
    BY <1>5 DEF Flushed
  <2>3. /\ ContentIn(v.blocks, v.disk, k) = ContentIn(u.blocks, u.disk, k)
        /\ v.disk[k] \in {u.disk[k], ContentIn(u.blocks, u.disk, k)}
    BY <1>5, <2>2 DEF Flushed
  <2>4. /\ ContentIn(w.blocks, w.disk, k) = ContentIn(v.blocks, v.disk, k)
        /\ w.disk[k] \in {v.disk[k], ContentIn(v.blocks, v.disk, k)}
    BY <1>5, <2>1 DEF Flushed
  <2> QED
    BY <2>3, <2>4
<1> QED
  BY <1>2, <1>3, <1>4, <1>5 DEF Flushed

-----------------------------------------------------------------------------
(* Flushes of a file or a torrent.                                          *)

\* From a number to the next, up to n.
LEMMA Counting ==
  ASSUME NEW n \in Nat, NEW S, 0 \in S, \A i \in 1 .. n : i - 1 \in S => i \in S
  PROVE  0 .. n \subseteq S
<1> SUFFICES ASSUME ~(0 .. n \subseteq S)
             PROVE  FALSE
  OBVIOUS
<1> DEFINE T == {i \in 0 .. n : i \notin S}
<1>1. T \in SUBSET Nat /\ T # {}
  OBVIOUS
<1>2. PICK i \in T : \A j \in T : i <= j
  BY <1>1, LeastNumber
<1>3. i \in 1 .. n /\ i - 1 \in 0 .. n /\ ~(i <= i - 1)
  BY <1>2
<1>4. i - 1 \in S
  BY <1>2, <1>3
<1> QED
  BY <1>2, <1>3, <1>4

LEMMA RunLengthIs ==
  ASSUME NEW bs \in Seq(Entries), NEW p \in DOMAIN bs
  PROVE  Adjacent(bs, p, RunLength(bs, p))
<1> DEFINE T == {n \in 1 .. Len(bs) - p + 1 :
                   \A m \in 0 .. n - 1 : bs[p + m].key = <<bs[p].key[1], bs[p].key[2] + m>>}
<1>1. /\ Len(bs) \in Nat /\ p \in 1 .. Len(bs)
      /\ bs[p].key = <<bs[p].key[1], bs[p].key[2]>> /\ bs[p].key[2] \in Nat
  BY EntryTypes, KeyTypes
<1>2. 1 \in T
  <2>1. \A m \in 0 .. 1 - 1 : m = 0
    OBVIOUS
  <2>2. p + 0 = p /\ bs[p].key[2] + 0 = bs[p].key[2]
    BY <1>1
  <2>3. \A m \in 0 .. 1 - 1 : bs[p + m].key = <<bs[p].key[1], bs[p].key[2] + m>>
    BY <1>1, <2>1, <2>2
  <2>4. 1 \in 1 .. Len(bs) - p + 1
    BY <1>1
  <2> QED
    BY <2>3, <2>4
<1>3. T \in SUBSET (0 .. Len(bs))
  BY <1>1
<1>4. \E n \in T : \A m \in T : n >= m
  <2> HIDE DEF T
  <2> QED
    BY <1>1, <1>2, <1>3, GreatestNumber
<1>5. RunLength(bs, p) = Max(T)
  BY DEF RunLength
<1>6. Max(T) \in T
  <2> HIDE DEF T
  <2> QED
    BY <1>4 DEF Max
<1> QED
  BY <1>1, <1>5, <1>6 DEF Adjacent

LEMMA FlushFromSteps ==
  ASSUME NEW w, NEW first, NEW last, Len(w.blocks) \in Nat
  PROVE  \E after :
           /\ after[0] = w
           /\ \A i \in 1 .. Len(w.blocks) :
                after[i] = FlushAt(after[i - 1], LowerBound(w.blocks, first), first, last)
           /\ FlushFrom(w, first, last) = after[Len(w.blocks)]
<1> DEFINE N == Len(w.blocks)
           Step(v) == FlushAt(v, LowerBound(w.blocks, first), first, last)
           Is(g, n) == g = [i \in 0 .. n |-> IF i = 0 THEN w ELSE Step(g[i - 1])]
           after == CHOOSE g : Is(g, N)
<1>1. FlushFrom(w, first, last) = after[N]
  BY DEF FlushFrom
<1> HIDE DEF Step
<1>2. \A n \in Nat : \E g : Is(g, n)
  <2> DEFINE T == {n \in Nat : ~\E g : Is(g, n)}
  <2> SUFFICES ASSUME T # {}
               PROVE  FALSE
    OBVIOUS
  <2>1. PICK m \in T : \A n \in T : m <= n
    BY LeastNumber
  <2>2. m # 0
    <3>1. Is([i \in 0 .. 0 |-> w], 0)
      OBVIOUS
    <3> QED
      BY <2>1, <3>1
  <2>3. m - 1 \in Nat /\ m - 1 \notin T
    <3>1. m \in Nat
      BY <2>1
    <3>2. m - 1 \in Nat /\ ~(m <= m - 1)
      BY <2>2, <3>1
    <3> HIDE DEF T
    <3> QED
      BY <2>1, <3>2
  <2>4. PICK g : Is(g, m - 1)
    BY <2>3
  <2> DEFINE h == [i \in 0 .. m |-> IF i = m THEN Step(g[m - 1]) ELSE g[i]]
  <2>5. \A i \in 0 .. m - 1 : g[i] = IF i = 0 THEN w ELSE Step(g[i - 1])
    BY <2>3, <2>4
  <2>6. \A i \in 0 .. m : h[i] = IF i = 0 THEN w ELSE Step(h[i - 1])
    <3> TAKE i \in 0 .. m
    <3>1. CASE i = m
      BY <2>1, <2>2, <3>1
    <3>2. CASE i # m /\ i # 0
      <4>1. i \in 0 .. m - 1 /\ i - 1 \in 0 .. m /\ i - 1 # m
        BY <2>1, <3>2
      <4> QED
        BY <2>5, <3>2, <4>1
    <3>3. CASE i # m /\ i = 0
      BY <2>1, <2>3, <2>5, <3>3
    <3> QED
      BY <3>1, <3>2, <3>3
  <2>7. h = [i \in 0 .. m |-> IF i = 0 THEN w ELSE Step(h[i - 1])]
    <3>1. h = [i \in 0 .. m |-> h[i]]
      OBVIOUS
    <3> HIDE DEF h
    <3> QED
      BY <2>6, <3>1
  <2> QED
    BY <2>1, <2>7
<1>3. Is(after, N)
  BY <1>2
<1> HIDE DEF after
<1>4. \A i \in 0 .. N : after[i] = IF i = 0 THEN w ELSE Step(after[i - 1])
  BY <1>3
<1>5. after[0] = w /\ \A i \in 1 .. N : after[i] = Step(after[i - 1])
  BY <1>4
<1> QED
  BY <1>1, <1>5 DEF Step

LEMMA SameWork ==
  ASSUME NEW w, Sound(w)
  PROVE  LET x == [w EXCEPT !.err = FALSE] IN
         /\ Sound(x) /\ x.blocks = w.blocks /\ x.disk = w.disk /\ x.marked = w.marked /\ x.plan = w.plan
         /\ ~x.err
         /\ \A v : Flushed(x, v) <=> Flushed(w, v)
<1> DEFINE x == [w EXCEPT !.err = FALSE]
<1>1. /\ x \in WorkSet /\ x.blocks = w.blocks /\ x.disk = w.disk /\ x.marked = w.marked /\ x.plan = w.plan
      /\ ~x.err
  BY DEF Sound, WorkSet
<1>2. Sound(x)
  BY <1>1 DEF Sound
<1> HIDE DEF x
<1>3. \A v : Flushed(x, v) <=> Flushed(w, v)
  BY <1>1 DEF Flushed, Reports
<1> QED
  BY <1>1, <1>2, <1>3 DEF x

\* A block that belongs to what is flushed.
Belongs(k, first, last) == k[1] = first[1] /\ k[2] \in first[2] .. last

\* What FlushFrom keeps up between two runs.
Underway(w, pos, first, last, v) ==
  /\ Flushed(w, v)
  /\ v.err => first[1] \in v.marked
  /\ pos \in 1 .. Len(v.blocks) + 1
  /\ \A n \in DOMAIN v.blocks : Precedes(v.blocks[n].key, first) <=> n < pos
IsOver(v, pos, first, last) ==
  v.err \/ ~(pos <= Len(v.blocks) /\ Belongs(v.blocks[pos].key, first, last))

\* One more run.
LEMMA FlushAtIs ==
  ASSUME NEW w, Sound(w), NEW first \in Keys, NEW last, NEW pos, NEW v,
         Underway(w, pos, first, last, v)
  PROVE  LET u == FlushAt(v, pos, first, last) IN
         /\ Underway(w, pos, first, last, u)
         /\ IsOver(v, pos, first, last) => u = v
         /\ ~IsOver(v, pos, first, last) => Len(u.blocks) < Len(v.blocks)
<1> DEFINE u == FlushAt(v, pos, first, last)
           n == RunLength(v.blocks, pos)
<1>1. Sound(v) /\ v.blocks \in Seq(Entries) /\ Flushed(w, v)
  BY DEF Underway, Flushed, Sound, WorkSet
<1>2. Len(v.blocks) \in Nat /\ DOMAIN v.blocks = 1 .. Len(v.blocks) /\ pos \in 1 .. Len(v.blocks) + 1
  BY <1>1, EntryTypes DEF Underway
<1>3. CASE IsOver(v, pos, first, last)
  <2>1. u = v
    BY <1>3 DEF IsOver, FlushAt, Belongs
  <2> QED
    BY <1>3, <2>1
<1>4. CASE ~IsOver(v, pos, first, last)
  <2>1. u = flushContiguous(v, pos, n) /\ pos <= Len(v.blocks) /\ v.blocks[pos].key[1] = first[1]
    BY <1>4 DEF IsOver, FlushAt, Belongs
  <2>2. pos \in DOMAIN v.blocks
    BY <1>2, <2>1
  <2>3. Adjacent(v.blocks, pos, n)
    BY <1>1, <2>2, RunLengthIs
  <2> HIDE DEF u, n
  <2>4. /\ Flushed(v, u)
        /\ Len(u.blocks) = Len(v.blocks) - n
        /\ \A k \in 1 .. Len(v.blocks) - n :
             u.blocks[k] = IF k < pos THEN v.blocks[k] ELSE v.blocks[k + n]
        /\ u.err => v.blocks[pos].key[1] \in u.marked
    BY <1>1, <2>1, <2>3, FlushIs
  <2>5. n \in 1 .. Len(v.blocks) - pos + 1
    BY <2>3 DEF Adjacent
  <2>6. Flushed(w, u)
    BY <1>1, <2>4, FlushedTwice
  <2>7. DOMAIN u.blocks = 1 .. Len(v.blocks) - n
    BY <2>4, EntryTypes DEF Flushed, Sound, WorkSet
  <2>8. pos \in 1 .. Len(u.blocks) + 1 /\ Len(u.blocks) < Len(v.blocks)
    BY <1>2, <2>1, <2>4, <2>5
  <2>9. ASSUME NEW k \in DOMAIN u.blocks
        PROVE  Precedes(u.blocks[k].key, first) <=> k < pos
    <3>1. CASE k < pos
      <4>1. k \in DOMAIN v.blocks
        BY <1>2, <2>1, <2>7, <3>1
      <4> QED
        BY <2>4, <2>7, <3>1, <4>1 DEF Underway
    <3>2. CASE ~(k < pos)
      <4>1. k + n \in DOMAIN v.blocks /\ ~(k + n < pos)
        BY <1>2, <2>5, <2>7, <3>2
      <4> QED
        BY <2>4, <2>7, <3>2, <4>1 DEF Underway
    <3> QED
      BY <3>1, <3>2
  <2>10. u.err => first[1] \in u.marked
    BY <2>1, <2>4
  <2> QED
    BY <1>4, <2>6, <2>8, <2>9, <2>10 DEF Underway, u
<1> QED
  BY <1>3, <1>4

\* A flush up to an error takes the blocks that belong out of the array.
LEMMA FlushFromIs ==
  ASSUME NEW w, Sound(w), ~w.err, NEW first \in Keys, NEW last \in Int
  PROVE  LET u == FlushFrom(w, first, last) IN
         /\ Flushed(w, u)
         /\ u.err => first[1] \in u.marked
         /\ ~u.err => \A n \in DOMAIN u.blocks : ~Belongs(u.blocks[n].key, first, last)
<1> DEFINE N == Len(w.blocks)
           pos == LowerBound(w.blocks, first)
           u == FlushFrom(w, first, last)
<1>1. w.blocks \in Seq(Entries) /\ Sorted(w.blocks) /\ N \in Nat /\ DOMAIN w.blocks = 1 .. N
  BY EntryTypes DEF Sound, WorkSet
<1>2. PICK after :
        /\ after[0] = w
        /\ \A i \in 1 .. N : after[i] = FlushAt(after[i - 1], pos, first, last)
        /\ u = after[N]
  BY <1>1, FlushFromSteps
<1>3. Underway(w, pos, first, last, w)
  BY <1>1, FlushedSelf, LowerBoundIs DEF Underway
<1> DEFINE S == {i \in 0 .. N : /\ Underway(w, pos, first, last, after[i])
                                /\ IsOver(after[i], pos, first, last) \/ Len(after[i].blocks) + i <= N}
<1>4. 0 \in S
  BY <1>1, <1>2, <1>3
<1> HIDE DEF pos, u
<1>5. ASSUME NEW i \in 1 .. N, i - 1 \in S
      PROVE  i \in S
  <2> DEFINE v == after[i - 1]
             x == after[i]
  <2>1. /\ Underway(w, pos, first, last, v)
        /\ IsOver(v, pos, first, last) \/ Len(v.blocks) + (i - 1) <= N
    BY <1>5
  <2>2. x = FlushAt(v, pos, first, last)
    BY <1>2
  <2> HIDE DEF v, x
  <2>3. /\ Underway(w, pos, first, last, x)
        /\ IsOver(v, pos, first, last) => x = v
        /\ ~IsOver(v, pos, first, last) => Len(x.blocks) < Len(v.blocks)
    BY <2>1, <2>2, FlushAtIs
  <2>4. Len(v.blocks) \in Nat /\ Len(x.blocks) \in Nat
    BY <2>1, <2>3, EntryTypes DEF Underway, Flushed, Sound, WorkSet
  <2>5. IsOver(x, pos, first, last) \/ Len(x.blocks) + i <= N
    BY <1>1, <2>1, <2>3, <2>4
  <2> QED
    BY <2>3, <2>5 DEF x
<1>6. N \in S
  <2> HIDE DEF S
  <2>1. 0 .. N \subseteq S
    BY <1>1, <1>4, <1>5, Counting
  <2> QED
    BY <1>1, <2>1
<1>7. /\ Underway(w, pos, first, last, u)
      /\ IsOver(u, pos, first, last) \/ Len(u.blocks) + N <= N
  BY <1>2, <1>6
<1>8. /\ Len(u.blocks) \in Nat /\ DOMAIN u.blocks = 1 .. Len(u.blocks) /\ u.blocks \in Seq(Entries)
      /\ \A n \in DOMAIN u.blocks : u.blocks[n].key \in Keys
      /\ Sorted(u.blocks)
  BY <1>7, EntryTypes DEF Underway, Flushed, Sound, WorkSet
<1>9. pos \in Nat /\ 1 <= pos
  BY <1>7, <1>8 DEF Underway
<1>10. IsOver(u, pos, first, last)
  <2>1. Len(u.blocks) + N <= N => ~(pos <= Len(u.blocks))
    <3>1. N \in Nat /\ Len(u.blocks) \in Nat /\ pos \in Nat /\ 1 <= pos
      BY <1>1, <1>8, <1>9
    <3> HIDE DEF N
    <3> QED
      BY <3>1
  <2>2. ~(pos <= Len(u.blocks)) => IsOver(u, pos, first, last)
    BY DEF IsOver
  <2> QED
    BY <1>7, <2>1, <2>2
<1>11. ASSUME ~u.err, NEW n \in DOMAIN u.blocks
       PROVE  ~Belongs(u.blocks[n].key, first, last)
  <2>1. /\ u.blocks[n].key \in Keys /\ u.blocks[n].key[1] \in Nat /\ u.blocks[n].key[2] \in Nat
        /\ first[1] \in Nat /\ first[2] \in Nat
    BY <1>8, KeyTypes
  <2>2. CASE n < pos
    <3>1. Precedes(u.blocks[n].key, first)
      BY <1>7, <2>2 DEF Underway
    <3> QED
      BY <2>1, <3>1 DEF Precedes, Belongs
  <2>3. CASE ~(n < pos)
    <3>1. pos \in DOMAIN u.blocks /\ (pos = n \/ pos < n)
      BY <1>8, <1>9, <2>3
    <3>2. ~Belongs(u.blocks[pos].key, first, last)
      BY <1>8, <1>10, <1>11, <3>1 DEF IsOver
    <3>3. ~Precedes(u.blocks[pos].key, first)
      BY <1>7, <1>9, <3>1 DEF Underway
    <3>4. u.blocks[pos].key[1] \in Nat /\ u.blocks[pos].key[2] \in Nat
      BY <1>8, <3>1, KeyTypes
    <3>5. pos = n \/ Precedes(u.blocks[pos].key, u.blocks[n].key)
      BY <1>8, <3>1 DEF Sorted
    <3> QED
      BY <2>1, <3>2, <3>3, <3>4, <3>5 DEF Precedes, Belongs
  <2> QED
    BY <2>2, <2>3
<1> QED
  BY <1>7, <1>11 DEF Underway, u

LEMMA FlushFilesSteps ==
  ASSUME NEW w, NEW t, NEW q, Len(q) \in Nat
  PROVE  \E after :
           /\ after[0] = w
           /\ \A i \in 1 .. Len(q) : after[i] = tr_cacheFlushFile(after[i - 1], t, q[i])
           /\ FlushFiles(w, t, q) = after[Len(q)]
<1> DEFINE N == Len(q)
           Step(v, i) == tr_cacheFlushFile(v, t, q[i])
           Is(g, n) == g = [i \in 0 .. n |-> IF i = 0 THEN w ELSE Step(g[i - 1], i)]
           after == CHOOSE g : Is(g, N)
<1>1. FlushFiles(w, t, q) = after[N]
  BY DEF FlushFiles
<1> HIDE DEF Step
<1>2. \A n \in Nat : \E g : Is(g, n)
  <2> DEFINE T == {n \in Nat : ~\E g : Is(g, n)}
  <2> SUFFICES ASSUME T # {}
               PROVE  FALSE
    OBVIOUS
  <2>1. PICK m \in T : \A n \in T : m <= n
    BY LeastNumber
  <2>2. m # 0
    <3>1. Is([i \in 0 .. 0 |-> w], 0)
      OBVIOUS
    <3> QED
      BY <2>1, <3>1
  <2>3. m - 1 \in Nat /\ m - 1 \notin T
    <3>1. m \in Nat
      BY <2>1
    <3>2. m - 1 \in Nat /\ ~(m <= m - 1)
      BY <2>2, <3>1
    <3> HIDE DEF T
    <3> QED
      BY <2>1, <3>2
  <2>4. PICK g : Is(g, m - 1)
    BY <2>3
  <2> DEFINE h == [i \in 0 .. m |-> IF i = m THEN Step(g[m - 1], m) ELSE g[i]]
  <2>5. \A i \in 0 .. m - 1 : g[i] = IF i = 0 THEN w ELSE Step(g[i - 1], i)
    BY <2>3, <2>4
  <2>6. \A i \in 0 .. m : h[i] = IF i = 0 THEN w ELSE Step(h[i - 1], i)
    <3> TAKE i \in 0 .. m
    <3>1. CASE i = m
      BY <2>1, <2>2, <3>1
    <3>2. CASE i # m /\ i # 0
      <4>1. i \in 0 .. m - 1 /\ i - 1 \in 0 .. m /\ i - 1 # m
        BY <2>1, <3>2
      <4> QED
        BY <2>5, <3>2, <4>1
    <3>3. CASE i # m /\ i = 0
      BY <2>1, <2>3, <2>5, <3>3
    <3> QED
      BY <3>1, <3>2, <3>3
  <2>7. h = [i \in 0 .. m |-> IF i = 0 THEN w ELSE Step(h[i - 1], i)]
    <3>1. h = [i \in 0 .. m |-> h[i]]
      OBVIOUS
    <3> HIDE DEF h
    <3> QED
      BY <2>6, <3>1
  <2> QED
    BY <2>1, <2>7
<1>3. Is(after, N)
  BY <1>2
<1> HIDE DEF after
<1>4. \A i \in 0 .. N : after[i] = IF i = 0 THEN w ELSE Step(after[i - 1], i)
  BY <1>3
<1>5. after[0] = w /\ \A i \in 1 .. N : after[i] = Step(after[i - 1], i)
  BY <1>4
<1> QED
  BY <1>1, <1>5 DEF Step

LEMMA FlushFileIs ==
  ASSUME NEW w, Sound(w), NEW t \in Torrents, NEW f \in Files[t]
  PROVE  LET u == tr_cacheFlushFile(w, t, f) IN
         /\ Flushed(w, u)
         /\ u.err => t \in u.marked
         /\ ~u.err => \A n \in DOMAIN u.blocks : ~Belongs(u.blocks[n].key, <<t, f[1]>>, f[2])
<1> DEFINE x == [w EXCEPT !.err = FALSE]
           first == <<t, f[1]>>
           u == FlushFrom(x, first, f[2])
<1>1. f[1] \in Blocks(t) /\ f[2] \in Blocks(t) /\ BlockCount[t] \in Nat
  BY CacheAssumption
<1>2. first \in Keys /\ f[2] \in Int
  BY <1>1, KeyIs DEF Blocks
<1>3. Sound(x) /\ ~x.err /\ \A v : Flushed(x, v) <=> Flushed(w, v)
  BY SameWork
<1>4. first[1] = t
  OBVIOUS
<1> HIDE DEF x, first
<1>5. /\ Flushed(x, u)
      /\ u.err => first[1] \in u.marked
      /\ ~u.err => \A n \in DOMAIN u.blocks : ~Belongs(u.blocks[n].key, first, f[2])
  BY <1>2, <1>3, FlushFromIs
<1>6. u = tr_cacheFlushFile(w, t, f)
  BY DEF tr_cacheFlushFile, x, first
<1> HIDE DEF u
<1> QED
  BY <1>3, <1>4, <1>5, <1>6 DEF first

LEMMA FlushTorrentIs ==
  ASSUME NEW w, Sound(w), NEW t \in Torrents
  PROVE  LET u == tr_cacheFlushTorrent(w, t) IN
         /\ Flushed(w, u)
         /\ u.err => t \in u.marked
         /\ ~u.err => \A n \in DOMAIN u.blocks : u.blocks[n].key[1] # t
<1> DEFINE x == [w EXCEPT !.err = FALSE]
           first == <<t, 0>>
           last == BlockCount[t] - 1
           u == FlushFrom(x, first, last)
<1>1. BlockCount[t] \in Nat \ {0}
  BY CacheAssumption
<1>2. first \in Keys /\ last \in Int
  BY <1>1, KeyIs DEF Blocks
<1>3. Sound(x) /\ ~x.err /\ \A v : Flushed(x, v) <=> Flushed(w, v)
  BY SameWork
<1>4. first[1] = t /\ first[2] = 0
  OBVIOUS
<1> HIDE DEF x, first
<1>5. /\ Flushed(x, u)
      /\ u.err => first[1] \in u.marked
      /\ ~u.err => \A n \in DOMAIN u.blocks : ~Belongs(u.blocks[n].key, first, last)
  BY <1>2, <1>3, FlushFromIs
<1>6. u = tr_cacheFlushTorrent(w, t)
  BY DEF tr_cacheFlushTorrent, x, first
<1> HIDE DEF u, last
<1>7. ASSUME ~u.err, NEW n \in DOMAIN u.blocks, u.blocks[n].key[1] = t
      PROVE  FALSE
  <2>1. u.blocks[n].key \in Keys
    BY <1>5, EntryTypes DEF Flushed, Sound, WorkSet
  <2>2. u.blocks[n].key[2] \in Blocks(t)
    BY <1>7, <2>1, KeyTypes
  <2>3. u.blocks[n].key[2] \in first[2] .. last
    BY <1>4, <2>2 DEF Blocks, last
  <2> QED
    BY <1>4, <1>5, <1>7, <2>3 DEF Belongs
<1> QED
  BY <1>3, <1>4, <1>5, <1>6, <1>7

\* A sequence of all elements of a set.
LEMMA SeqOfAll ==
  ASSUME NEW F, IsFiniteSet(F), NEW q \in SetToSeqs(F)
  PROVE  /\ Len(q) = Cardinality(F) /\ Len(q) \in Nat /\ DOMAIN q = 1 .. Len(q)
         /\ \A i \in 1 .. Len(q) : q[i] \in F
         /\ \A i, j \in 1 .. Len(q) : q[i] = q[j] => i = j
         /\ \A f \in F : \E i \in 1 .. Len(q) : q[i] = f
<1> DEFINE c == Cardinality(F)
<1>1. c \in Nat
  BY FS_CardinalityType
<1>2. q \in [1 .. c -> F] /\ \A i, j \in 1 .. c : i # j => q[i] # q[j]
  BY DEF SetToSeqs
<1>3. Len(q) = c
  <2>1. q \in Seq(F)
    BY <1>1, <1>2, SeqDef
  <2> HIDE DEF c
  <2>2. DOMAIN q = 1 .. c /\ DOMAIN q = 1 .. Len(q) /\ Len(q) \in Nat
    BY <1>2, <2>1, LenProperties
  <2> QED
    BY <1>1, <2>2
<1>4. q \in Injection(1 .. c, F)
  BY <1>2 DEF Injection, IsInjective
<1>5. IsFiniteSet(1 .. c) /\ Cardinality(1 .. c) = c
  BY <1>1, FS_Interval
<1>6. q \in Surjection(1 .. c, F)
  BY <1>4, <1>5, FS_Injection
<1>7. \A f \in F : \E i \in 1 .. c : q[i] = f
  BY <1>6 DEF Surjection
<1> QED
  BY <1>1, <1>2, <1>3, <1>7

LEMMA FlushFilesIs ==
  ASSUME NEW w, Sound(w), NEW t \in Torrents, NEW F \in SUBSET Files[t], NEW q \in SetToSeqs(F)
  PROVE  LET u == FlushFiles(w, t, q) IN
         /\ Flushed(w, u)
         /\ t \in u.marked \/ \A f \in F : \A n \in DOMAIN u.blocks :
                                ~Belongs(u.blocks[n].key, <<t, f[1]>>, f[2])
<1> DEFINE N == Len(q)
           Gone(v, f) == \A n \in DOMAIN v.blocks : ~Belongs(v.blocks[n].key, <<t, f[1]>>, f[2])
           u == FlushFiles(w, t, q)
<1>1. IsFiniteSet(F)
  BY CacheAssumption, FS_Subset
<1>2. /\ N \in Nat /\ \A i \in 1 .. N : q[i] \in F
      /\ \A f \in F : \E i \in 1 .. N : q[i] = f
  BY <1>1, SeqOfAll
<1>3. PICK after :
        /\ after[0] = w
        /\ \A i \in 1 .. N : after[i] = tr_cacheFlushFile(after[i - 1], t, q[i])
        /\ u = after[N]
  BY <1>2, FlushFilesSteps
<1> HIDE DEF u, N
<1> DEFINE S == {i \in 0 .. N : /\ Flushed(w, after[i])
                                /\ t \in after[i].marked \/ \A j \in 1 .. i : Gone(after[i], q[j])}
<1>4. 0 \in S
  <2>1. Flushed(w, after[0])
    BY <1>3, FlushedSelf
  <2>2. \A j \in 1 .. 0 : FALSE
    OBVIOUS
  <2> QED
    BY <1>2, <2>1, <2>2
<1>5. ASSUME NEW i \in 1 .. N, i - 1 \in S
      PROVE  i \in S
  <2> DEFINE v == after[i - 1]
             x == after[i]
  <2>1. Flushed(w, v) /\ (t \in v.marked \/ \A j \in 1 .. i - 1 : Gone(v, q[j]))
    BY <1>5
  <2>2. x = tr_cacheFlushFile(v, t, q[i]) /\ q[i] \in Files[t]
    BY <1>2, <1>3
  <2> HIDE DEF v, x
  <2>3. Sound(v)
    BY <2>1 DEF Flushed
  <2>4. Flushed(v, x) /\ (x.err => t \in x.marked) /\ (~x.err => Gone(x, q[i]))
    BY <2>2, <2>3, FlushFileIs
  <2>5. Flushed(w, x)
    BY <2>1, <2>4, FlushedTwice
  <2>6. t \in v.marked => t \in x.marked
    BY <2>4 DEF Flushed
  <2>7. \A f : Gone(v, f) => Gone(x, f)
    BY <2>4 DEF Flushed
  <2> HIDE DEF Gone
  <2>8. t \in x.marked \/ \A j \in 1 .. i : Gone(x, q[j])
    <3>1. \A j \in 1 .. i : j \in 1 .. i - 1 \/ j = i
      BY <1>2
    <3> QED
      BY <2>1, <2>4, <2>6, <2>7, <3>1
  <2> QED
    BY <2>5, <2>8 DEF x
<1>6. N \in S
  <2> HIDE DEF S
  <2>1. 0 .. N \subseteq S
    BY <1>2, <1>4, <1>5, Counting
  <2> QED
    BY <1>2, <2>1
<1>7. Flushed(w, u) /\ (t \in u.marked \/ \A j \in 1 .. N : Gone(u, q[j]))
  BY <1>3, <1>6
<1> HIDE DEF Gone
<1>8. Flushed(w, u) /\ (t \in u.marked \/ \A f \in F : Gone(u, f))
  BY <1>2, <1>7
<1> QED
  BY <1>8 DEF u, Gone

-----------------------------------------------------------------------------
(* Flushes of runs.                                                         *)

\* How many of the positions T come before p.
Before(T, p) == Cardinality({x \in T : x < p})

LEMMA BeforeIs ==
  ASSUME NEW T \in SUBSET Nat, IsFiniteSet(T), NEW p \in Nat, NEW q \in Nat, p <= q
  PROVE  /\ Before(T, p) \in Nat /\ Before(T, p) <= p /\ Before(T, q) \in Nat
         /\ Before(T, p) <= Before(T, q)
         /\ p \notin T /\ p < q => Before(T, q) - Before(T, p) < q - p
         /\ (\A x \in p .. q - 1 : x \notin T) => Before(T, q) = Before(T, p)
<1> DEFINE A == {x \in T : x < p}
           B == {x \in T : p <= x /\ x < q}
           C == {x \in T : x < q}
<1>0. \A x \in T : x \in Nat
  OBVIOUS
<1>1. C = A \cup B /\ A \cap B = {}
  <2>1. \A x \in T : x < q <=> x < p \/ (p <= x /\ x < q)
    BY <1>0
  <2>2. \A x \in T : ~(x < p /\ p <= x)
    BY <1>0
  <2> QED
    BY <2>1, <2>2
<1>2. /\ IsFiniteSet(A) /\ IsFiniteSet(B) /\ IsFiniteSet(C)
      /\ Cardinality(A) \in Nat /\ Cardinality(B) \in Nat /\ Cardinality(C) \in Nat
  <2>1. A \in SUBSET T /\ B \in SUBSET T /\ C \in SUBSET T
    OBVIOUS
  <2> QED
    BY <2>1, FS_Subset, FS_CardinalityType
<1>3. Cardinality(C) = Cardinality(A) + Cardinality(B)
  <2> HIDE DEF A, B, C
  <2>1. Cardinality(A \cap B) = 0
    BY <1>1, FS_EmptySet
  <2>2. Cardinality(A \cup B) = Cardinality(A) + Cardinality(B) - Cardinality(A \cap B)
    BY <1>2, FS_Union
  <2> QED
    BY <1>1, <1>2, <2>1, <2>2
<1>4. Cardinality(A) <= p
  <2>1. A \in SUBSET (0 .. p - 1)
    <3>1. \A x \in A : x \in 0 .. p - 1
      BY <1>0
    <3> QED
      BY <3>1
  <2>2. IsFiniteSet(0 .. p - 1) /\ Cardinality(0 .. p - 1) = p
    BY FS_Interval
  <2> HIDE DEF A
  <2> QED
    BY <2>1, <2>2, FS_Subset
<1>5. p \notin T /\ p < q => Cardinality(B) < q - p
  <2> SUFFICES ASSUME p \notin T, p < q
               PROVE  Cardinality(B) < q - p
    OBVIOUS
  <2>1. B \in SUBSET (p + 1 .. q - 1)
    <3>1. \A x \in B : x \in Nat /\ p <= x /\ x < q /\ x # p
      BY <1>0
    <3>2. \A x \in B : x \in p + 1 .. q - 1
      BY <3>1
    <3> QED
      BY <3>2
  <2>2. IsFiniteSet(p + 1 .. q - 1) /\ Cardinality(p + 1 .. q - 1) = q - p - 1
    <3>1. IsFiniteSet(p + 1 .. q - 1) /\ Cardinality(p + 1 .. q - 1) = IF p + 1 > q - 1 THEN 0 ELSE q - 1 - (p + 1) + 1
      BY FS_Interval
    <3> QED
      BY <3>1
  <2>3. Cardinality(B) <= q - p - 1
    <3> HIDE DEF B
    <3> QED
      BY <2>1, <2>2, FS_Subset
  <2> QED
    BY <1>2, <2>3
<1>6. (\A x \in p .. q - 1 : x \notin T) => Cardinality(B) = 0
  <2> SUFFICES ASSUME \A x \in p .. q - 1 : x \notin T
               PROVE  Cardinality(B) = 0
    OBVIOUS
  <2>1. \A x \in B : x \in p .. q - 1 /\ x \in T
    BY <1>0
  <2>2. B = {}
    BY <2>1
  <2> QED
    BY <2>2, FS_EmptySet
<1>7. Before(T, p) = Cardinality(A) /\ Before(T, q) = Cardinality(C)
  BY DEF Before
<1> HIDE DEF A, B, C
<1> QED
  BY <1>2, <1>3, <1>4, <1>5, <1>6, <1>7

LEMMA BeforeType ==
  ASSUME NEW T \in SUBSET Nat, IsFiniteSet(T), NEW p \in Nat
  PROVE  Before(T, p) \in Nat
<1>1. p <= p
  OBVIOUS
<1> QED
  BY <1>1, BeforeIs

\* n more positions from p on.
With(T, p, n) == T \cup (p .. p + n - 1)
Free(T, p, n) == \A x \in p .. p + n - 1 : x \notin T

LEMMA BeforeMore ==
  ASSUME NEW T \in SUBSET Nat, IsFiniteSet(T), NEW p \in Nat, NEW n \in Nat \ {0},
         Free(T, p, n), NEW q \in Nat
  PROVE  /\ IsFiniteSet(With(T, p, n))
         /\ q < p => Before(With(T, p, n), q) = Before(T, q)
         /\ p + n <= q => Before(With(T, p, n), q) = Before(T, q) + n
<1> DEFINE I == p .. p + n - 1
           A == {x \in T : x < q}
           C == {x \in T \cup I : x < q}
<1>1. IsFiniteSet(I) /\ Cardinality(I) = n
  BY FS_Interval
<1>2. IsFiniteSet(A)
  BY FS_Subset
<1>3. IsFiniteSet(T \cup I)
  <2> HIDE DEF I
  <2> QED
    BY <1>1, FS_Union
<1>4. q < p => C = A
  BY SMT
<1>5. ASSUME p + n <= q
      PROVE  Cardinality(C) = Cardinality(A) + n
  <2>1. C = A \cup I
    <3>1. \A x \in I : x < q
      BY <1>5
    <3> QED
      BY <3>1
  <2>2. A \cap I = {}
    BY DEF Free
  <2>3. Cardinality(A \cap I) = 0 /\ Cardinality(A) \in Nat
    BY <1>2, <2>2, FS_EmptySet, FS_CardinalityType
  <2> HIDE DEF A, C, I
  <2>4. Cardinality(A \cup I) = Cardinality(A) + Cardinality(I) - Cardinality(A \cap I)
    BY <1>1, <1>2, FS_Union
  <2> QED
    BY <1>1, <2>1, <2>3, <2>4
<1> QED
  BY <1>3, <1>4, <1>5 DEF Before, With

\* The array v is bs without the positions T.
Without(bs, T, v) ==
  \A p \in DOMAIN bs \ T : /\ p - Before(T, p) \in DOMAIN v
                           /\ v[p - Before(T, p)] = bs[p]

\* A run is where it was, but for what is gone before it.
LEMMA MovedRun ==
  ASSUME NEW bs \in Seq(Entries), NEW T \in SUBSET (DOMAIN bs), NEW v \in Seq(Entries), Without(bs, T, v),
         NEW p, NEW n, Adjacent(bs, p, n), Free(T, p, n)
  PROVE  /\ Adjacent(v, p - Before(T, p), n)
         /\ v[p - Before(T, p)] = bs[p]
<1>1. Len(bs) \in Nat /\ DOMAIN bs = 1 .. Len(bs) /\ Len(v) \in Nat /\ DOMAIN v = 1 .. Len(v)
  BY LenProperties
<1>2. /\ p \in 1 .. Len(bs) /\ n \in 1 .. Len(bs) - p + 1
      /\ \A m \in 0 .. n - 1 : bs[p + m].key = <<bs[p].key[1], bs[p].key[2] + m>>
  BY DEF Adjacent
<1>3. IsFiniteSet(T) /\ T \in SUBSET Nat
  <2>1. IsFiniteSet(1 .. Len(bs)) /\ T \in SUBSET (1 .. Len(bs))
    BY <1>1, FS_Interval
  <2>2. IsFiniteSet(T)
    BY <2>1, FS_Subset
  <2> QED
    BY <1>1, <2>1, <2>2
<1> DEFINE P == p - Before(T, p)
<1>4. ASSUME NEW m \in 0 .. n - 1
      PROVE  P + m \in DOMAIN v /\ v[P + m] = bs[p + m]
  <2>1. p \in Nat /\ p + m \in Nat /\ p <= p + m /\ p + m \in DOMAIN bs /\ p + m \in p .. p + n - 1
    BY <1>1, <1>2
  <2>2. \A x \in p .. (p + m) - 1 : x \notin T
    <3>1. \A x \in p .. (p + m) - 1 : x \in p .. p + n - 1
      BY <1>2
    <3> QED
      BY <3>1 DEF Free
  <2>3. Before(T, p + m) = Before(T, p) /\ Before(T, p) \in Nat
    BY <1>3, <2>1, <2>2, BeforeIs
  <2> DEFINE y == p + m
  <2>4. y - Before(T, y) \in DOMAIN v /\ v[y - Before(T, y)] = bs[y]
    <3>1. y \in DOMAIN bs \ T
      BY <2>1 DEF Free
    <3> HIDE DEF P, y
    <3> QED
      BY <3>1 DEF Without
  <2>5. y - Before(T, y) = P + m
    BY <2>1, <2>3
  <2> HIDE DEF P, y
  <2>6. v[P + m] = bs[y] /\ P + m \in DOMAIN v
    BY <2>4, <2>5
  <2> QED
    BY <2>6 DEF y
<1>5. Before(T, p) \in Nat
  BY <1>1, <1>2, <1>3, BeforeIs
<1>6. P + 0 = P /\ P \in Int /\ p + 0 = p /\ 0 \in 0 .. n - 1 /\ n - 1 \in 0 .. n - 1
  BY <1>2, <1>5
<1> HIDE DEF P
<1>7. P \in DOMAIN v /\ v[P] = bs[p] /\ P + (n - 1) \in DOMAIN v
  BY <1>4, <1>6
<1>8. P \in 1 .. Len(v) /\ n \in 1 .. Len(v) - P + 1
  BY <1>1, <1>2, <1>6, <1>7
<1>9. \A m \in 0 .. n - 1 : v[P + m].key = <<v[P].key[1], v[P].key[2] + m>>
  BY <1>2, <1>4, <1>7
<1>10. Adjacent(v, P, n)
  BY <1>8, <1>9 DEF Adjacent
<1> QED
  BY <1>7, <1>10 DEF P

\* And without the run the rest is where it was, but for that.
LEMMA RunIsGone ==
  ASSUME NEW bs \in Seq(Entries), NEW T \in SUBSET (DOMAIN bs), NEW v \in Seq(Entries), Without(bs, T, v),
         NEW p, NEW n, Adjacent(bs, p, n), Free(T, p, n),
         NEW u \in Seq(Entries), Len(u) = Len(v) - n,
         \A k \in 1 .. Len(v) - n : u[k] = IF k < p - Before(T, p) THEN v[k] ELSE v[k + n]
  PROVE  Without(bs, With(T, p, n), u)
<1> DEFINE P == p - Before(T, p)
           W == With(T, p, n)
<1>1. /\ Len(bs) \in Nat /\ DOMAIN bs = 1 .. Len(bs) /\ Len(v) \in Nat /\ DOMAIN v = 1 .. Len(v)
      /\ DOMAIN u = 1 .. Len(v) - n
  BY LenProperties
<1>2. p \in Nat \ {0} /\ n \in Nat \ {0} /\ p + n <= Len(bs) + 1
  BY <1>1 DEF Adjacent
<1>3. IsFiniteSet(T) /\ T \in SUBSET Nat
  <2>1. IsFiniteSet(1 .. Len(bs)) /\ T \in SUBSET (1 .. Len(bs))
    BY <1>1, FS_Interval
  <2>2. IsFiniteSet(T)
    BY <2>1, FS_Subset
  <2> QED
    BY <1>1, <2>1, <2>2
<1>4. P \in 1 .. Len(v) /\ n \in 1 .. Len(v) - P + 1
  BY MovedRun DEF Adjacent
<1>5. Before(T, p) \in Nat
  BY <1>2, <1>3, BeforeType
<1> SUFFICES ASSUME NEW i \in DOMAIN bs \ W
             PROVE  i - Before(W, i) \in DOMAIN u /\ u[i - Before(W, i)] = bs[i]
  BY DEF Without
<1>6. i \in Nat /\ i \notin T /\ (i < p \/ p + n <= i)
  BY <1>1, <1>2 DEF With
<1>7. i - Before(T, i) \in DOMAIN v /\ v[i - Before(T, i)] = bs[i] /\ Before(T, i) \in Nat
  BY <1>3, <1>6, BeforeIs DEF Without
<1>8. CASE i < p
  <2>1. Before(W, i) = Before(T, i)
    <3>1. p \in Nat /\ n \in Nat \ {0} /\ i \in Nat
      BY <1>2, <1>6
    <3> QED
      BY <1>3, <1>8, <3>1, BeforeMore
  <2>2. Before(T, p) - Before(T, i) < p - i
    <3>1. i \in Nat /\ p \in Nat /\ i <= p /\ i < p /\ i \notin T
      BY <1>2, <1>6, <1>8
    <3> HIDE DEF P, W
    <3> QED
      BY <1>3, <3>1, BeforeIs
  <2>3. i - Before(T, i) < P
    BY <1>2, <1>5, <1>6, <1>7, <2>2
  <2> HIDE DEF P, W
  <2>4. i - Before(T, i) \in 1 .. Len(v) - n
    BY <1>1, <1>2, <1>4, <1>6, <1>7, <2>3
  <2> QED
    BY <1>1, <1>7, <2>1, <2>3, <2>4 DEF P
<1>9. CASE p + n <= i
  <2>1. Before(W, i) = Before(T, i) + n
    <3>1. p \in Nat /\ n \in Nat \ {0} /\ i \in Nat
      BY <1>2, <1>6
    <3> QED
      BY <1>3, <1>9, <3>1, BeforeMore
  <2>2. p + n \in Nat /\ p <= p + n /\ \A x \in p .. (p + n) - 1 : x \notin T
    BY <1>2 DEF Free
  <2>3. Before(T, p + n) = Before(T, p) /\ Before(T, p + n) \in Nat
    BY <1>2, <1>3, <2>2, BeforeIs
  <2>4. Before(T, i) - Before(T, p + n) <= i - (p + n)
    <3>1. CASE p + n = i
      BY <1>6, <1>7, <2>2, <2>3, <3>1
    <3>2. CASE p + n # i /\ p + n \notin T
      <4>1. p + n < i
        <5>1. p \in Nat /\ n \in Nat /\ i \in Nat
          BY <1>2, <1>6
        <5> QED
          BY <1>9, <3>2, <5>1
      <4>2. Before(T, i) - Before(T, p + n) < i - (p + n)
        BY <1>3, <1>6, <1>9, <2>2, <3>2, <4>1, BeforeIs
      <4> QED
        BY <1>6, <1>7, <2>2, <2>3, <4>2
    <3>3. CASE p + n # i /\ p + n \in T
      <4>1. i <= i /\ p < i
        BY <1>2, <1>6, <1>9
      <4>2. p \notin T
        <5>1. p \in p .. p + n - 1
          BY <1>2
        <5> QED
          BY <5>1 DEF Free
      <4>3. Before(T, i) - Before(T, p + n - 1) < i - (p + n - 1)
        <5>1. p + n - 1 \in Nat /\ p + n - 1 < i /\ p + n - 1 <= i /\ p + n - 1 \in p .. p + n - 1
          BY <1>2, <1>6, <1>9
        <5>2. p + n - 1 \notin T
          BY <5>1 DEF Free
        <5> QED
          BY <1>3, <1>6, <5>1, <5>2, BeforeIs
      <4>4. Before(T, p + n - 1) = Before(T, p)
        <5> HIDE DEF P, W
        <5>1. p + n - 1 \in Nat /\ p <= p + n - 1
          BY <1>2
        <5>2. \A x \in p .. (p + n - 1) - 1 : x \in p .. p + n - 1
          BY <1>2
        <5>3. \A x \in p .. (p + n - 1) - 1 : x \notin T
          BY <5>2 DEF Free
        <5> QED
          BY <1>2, <1>3, <5>1, <5>3, BeforeIs
      <4>5. /\ Before(T, i) - Before(T, p) < i - (p + n - 1)
            /\ Before(T, i) \in Nat /\ Before(T, p) \in Nat /\ i \in Nat /\ p \in Nat /\ n \in Nat
        BY <1>2, <1>5, <1>6, <1>7, <4>3, <4>4
      <4>6. Before(T, i) - Before(T, p) <= i - (p + n)
        <5> HIDE DEF P, W
        <5> QED
          BY <4>5
      <4> QED
        BY <2>3, <4>6
    <3> QED
      BY <3>1, <3>2, <3>3
  <2>5. i - Before(T, i) >= P + n
    BY <1>2, <1>5, <1>6, <1>7, <2>3, <2>4
  <2> HIDE DEF P, W
  <2> DEFINE k == i - Before(T, i) - n
  <2>6. k \in 1 .. Len(v) - n /\ k + n = i - Before(T, i) /\ ~(k < P) /\ i - Before(W, i) = k
    <3>1. i - Before(T, i) \in 1 .. Len(v) /\ Len(v) \in Nat /\ P \in Nat \ {0} /\ n \in Nat \ {0}
      BY <1>1, <1>2, <1>4, <1>7
    <3>2. k \in Int /\ k <= Len(v) - n /\ k >= P /\ k + n = i - Before(T, i)
      BY <2>5, <3>1, <1>6, <1>7
    <3>3. i - Before(W, i) = k
      BY <1>6, <1>7, <2>1, <3>1
    <3> HIDE DEF k
    <3> QED
      BY <3>1, <3>2, <3>3
  <2> HIDE DEF k
  <2>7. u[k] = v[k + n]
    BY <2>6 DEF P
  <2> QED
    BY <1>1, <1>7, <2>6, <2>7
<1> QED
  BY <1>6, <1>8, <1>9

LEMMA FlushRunsSteps ==
  ASSUME NEW w, NEW runs, Len(runs) \in Nat
  PROVE  \E after :
           /\ after[0] = w
           /\ \A i \in 1 .. Len(runs) : after[i] = FlushRun(after[i - 1], runs, i)
           /\ flushRuns(w, runs) = after[Len(runs)]
<1> DEFINE N == Len(runs)
           Step(v, i) == FlushRun(v, runs, i)
           Is(g, n) == g = [i \in 0 .. n |-> IF i = 0 THEN w ELSE Step(g[i - 1], i)]
           after == CHOOSE g : Is(g, N)
<1>1. flushRuns(w, runs) = after[N]
  BY DEF flushRuns
<1> HIDE DEF Step
<1>2. \A n \in Nat : \E g : Is(g, n)
  <2> DEFINE T == {n \in Nat : ~\E g : Is(g, n)}
  <2> SUFFICES ASSUME T # {}
               PROVE  FALSE
    OBVIOUS
  <2>1. PICK m \in T : \A n \in T : m <= n
    BY LeastNumber
  <2>2. m # 0
    <3>1. Is([i \in 0 .. 0 |-> w], 0)
      OBVIOUS
    <3> QED
      BY <2>1, <3>1
  <2>3. m - 1 \in Nat /\ m - 1 \notin T
    <3>1. m \in Nat
      BY <2>1
    <3>2. m - 1 \in Nat /\ ~(m <= m - 1)
      BY <2>2, <3>1
    <3> HIDE DEF T
    <3> QED
      BY <2>1, <3>2
  <2>4. PICK g : Is(g, m - 1)
    BY <2>3
  <2> DEFINE h == [i \in 0 .. m |-> IF i = m THEN Step(g[m - 1], m) ELSE g[i]]
  <2>5. \A i \in 0 .. m - 1 : g[i] = IF i = 0 THEN w ELSE Step(g[i - 1], i)
    BY <2>3, <2>4
  <2>6. \A i \in 0 .. m : h[i] = IF i = 0 THEN w ELSE Step(h[i - 1], i)
    <3> TAKE i \in 0 .. m
    <3>1. CASE i = m
      BY <2>1, <2>2, <3>1
    <3>2. CASE i # m /\ i # 0
      <4>1. i \in 0 .. m - 1 /\ i - 1 \in 0 .. m /\ i - 1 # m
        BY <2>1, <3>2
      <4> QED
        BY <2>5, <3>2, <4>1
    <3>3. CASE i # m /\ i = 0
      BY <2>1, <2>3, <2>5, <3>3
    <3> QED
      BY <3>1, <3>2, <3>3
  <2>7. h = [i \in 0 .. m |-> IF i = 0 THEN w ELSE Step(h[i - 1], i)]
    <3>1. h = [i \in 0 .. m |-> h[i]]
      OBVIOUS
    <3> HIDE DEF h
    <3> QED
      BY <2>6, <3>1
  <2> QED
    BY <2>1, <2>7
<1>3. Is(after, N)
  BY <1>2
<1> HIDE DEF after
<1>4. \A i \in 0 .. N : after[i] = IF i = 0 THEN w ELSE Step(after[i - 1], i)
  BY <1>3
<1>5. after[0] = w /\ \A i \in 1 .. N : after[i] = Step(after[i - 1], i)
  BY <1>4
<1> QED
  BY <1>1, <1>5 DEF Step


\* The runs of the array: where they are, and that no two of them overlap.
IsStart(bs, p) ==
  p \in DOMAIN bs /\ (p > 1 => bs[p].key # <<bs[p - 1].key[1], bs[p - 1].key[2] + 1>>)

LEMMA RunIs ==
  ASSUME NEW bs \in Seq(Entries), NEW r \in RunsOf(bs)
  PROVE  /\ IsStart(bs, r.pos) /\ r = RunAt(bs, r.pos)
         /\ Adjacent(bs, r.pos, r.len)
         /\ r.pos \in Nat \ {0} /\ r.len \in Nat \ {0} /\ r.pos + r.len <= Len(bs) + 1
<1>1. PICK p \in DOMAIN bs : r = RunAt(bs, p) /\ (p > 1 => bs[p].key # <<bs[p - 1].key[1], bs[p - 1].key[2] + 1>>)
  BY DEF RunsOf
<1>2. r.pos = p /\ r.len = RunLength(bs, p)
  BY <1>1 DEF RunAt
<1>3. Adjacent(bs, r.pos, r.len)
  BY <1>2, RunLengthIs
<1>4. Len(bs) \in Nat
  BY EntryTypes
<1>5. r.pos \in Nat \ {0} /\ r.len \in Nat \ {0} /\ r.pos + r.len <= Len(bs) + 1
  BY <1>3, <1>4 DEF Adjacent
<1> QED
  BY <1>1, <1>2, <1>3, <1>5 DEF IsStart

LEMMA RunsApart ==
  ASSUME NEW bs \in Seq(Entries), NEW r \in RunsOf(bs), NEW s \in RunsOf(bs), r.pos < s.pos
  PROVE  r.pos + r.len <= s.pos
<1>1. /\ Adjacent(bs, r.pos, r.len) /\ r.pos \in Nat \ {0} /\ r.len \in Nat \ {0}
      /\ IsStart(bs, s.pos) /\ s.pos \in Nat \ {0}
  BY RunIs
<1> SUFFICES ASSUME ~(r.pos + r.len <= s.pos)
             PROVE  FALSE
  OBVIOUS
<1> DEFINE m == s.pos - r.pos
           t == bs[r.pos].key[1]
           b == bs[r.pos].key[2]
<1>2. /\ m \in 0 .. r.len - 1 /\ m - 1 \in 0 .. r.len - 1
      /\ r.pos + m = s.pos /\ r.pos + (m - 1) = s.pos - 1 /\ s.pos > 1
  BY <1>1
<1> HIDE DEF m
<1>3. bs[s.pos].key = <<t, b + m>> /\ bs[s.pos - 1].key = <<t, b + (m - 1)>>
  <2>1. \A i \in 0 .. r.len - 1 : bs[r.pos + i].key = <<t, b + i>>
    BY <1>1 DEF Adjacent
  <2> HIDE DEF t, b
  <2>2. bs[r.pos + m].key = <<t, b + m>> /\ bs[r.pos + (m - 1)].key = <<t, b + (m - 1)>>
    BY <1>2, <2>1
  <2> QED
    BY <1>2, <2>2
<1>4. b \in Nat
  <2>1. r.pos \in DOMAIN bs
    BY RunIs DEF IsStart
  <2> QED
    BY <2>1, EntryTypes, KeyTypes
<1>5. b + (m - 1) + 1 = b + m
  <2>1. m \in Int
    BY <1>1, <1>2
  <2> QED
    BY <1>4, <2>1
<1> HIDE DEF t, b
<1>6. bs[s.pos].key = <<bs[s.pos - 1].key[1], bs[s.pos - 1].key[2] + 1>>
  BY <1>3, <1>5
<1> QED
  BY <1>1, <1>2, <1>6 DEF IsStart

\* A sequence of different runs of the array.
AreRuns(q, bs) ==
  /\ Len(q) \in Nat
  /\ \A i \in 1 .. Len(q) : q[i] \in RunsOf(bs)
  /\ \A i, j \in 1 .. Len(q) : q[i] = q[j] => i = j

LEMMA TakenMore ==
  ASSUME NEW q, NEW i \in Nat \ {0}
  PROVE  Taken(q, i) = With(Taken(q, i - 1), q[i].pos, q[i].len)
<1>1. \A j : j \in 1 .. i <=> j \in 1 .. i - 1 \/ j = i
  OBVIOUS
<1> DEFINE Cells(j) == q[j].pos .. q[j].pos + q[j].len - 1
<1>2. Taken(q, i) = UNION {Cells(j) : j \in 1 .. i} /\ Taken(q, i - 1) = UNION {Cells(j) : j \in 1 .. i - 1}
  BY DEF Taken
<1>3. With(Taken(q, i - 1), q[i].pos, q[i].len) = Taken(q, i - 1) \cup Cells(i)
  BY DEF With
<1> HIDE DEF Cells
<1>4. UNION {Cells(j) : j \in 1 .. i} = (UNION {Cells(j) : j \in 1 .. i - 1}) \cup Cells(i)
  <2>1. ASSUME NEW x \in UNION {Cells(j) : j \in 1 .. i}
        PROVE  x \in (UNION {Cells(j) : j \in 1 .. i - 1}) \cup Cells(i)
    BY <1>1, <2>1
  <2>2. ASSUME NEW x \in (UNION {Cells(j) : j \in 1 .. i - 1}) \cup Cells(i)
        PROVE  x \in UNION {Cells(j) : j \in 1 .. i}
    BY <1>1, <2>2
  <2> QED
    BY <2>1, <2>2
<1> QED
  BY <1>2, <1>3, <1>4

LEMMA TakenIs ==
  ASSUME NEW bs \in Seq(Entries), NEW q, AreRuns(q, bs), NEW i \in 1 .. Len(q)
  PROVE  /\ Taken(q, i - 1) \in SUBSET (DOMAIN bs)
         /\ Free(Taken(q, i - 1), q[i].pos, q[i].len)
<1>1. Len(q) \in Nat /\ q[i] \in RunsOf(bs) /\ Len(bs) \in Nat /\ DOMAIN bs = 1 .. Len(bs)
  BY EntryTypes DEF AreRuns
<1>2. ASSUME NEW j \in 1 .. i - 1, NEW x \in q[j].pos .. q[j].pos + q[j].len - 1
      PROVE  x \in DOMAIN bs /\ x \notin q[i].pos .. q[i].pos + q[i].len - 1
  <2>1. j \in 1 .. Len(q) /\ j # i
    BY <1>1
  <2>2. q[j] \in RunsOf(bs) /\ q[j] # q[i]
    BY <2>1 DEF AreRuns
  <2>3. /\ q[j] = RunAt(bs, q[j].pos) /\ q[j].pos \in Nat \ {0} /\ q[j].len \in Nat \ {0}
        /\ q[j].pos + q[j].len <= Len(bs) + 1
        /\ q[i] = RunAt(bs, q[i].pos) /\ q[i].pos \in Nat \ {0} /\ q[i].len \in Nat \ {0}
    BY <1>1, <2>2, RunIs
  <2>4. q[j].pos # q[i].pos
    BY <2>2, <2>3
  <2>5. q[j].pos < q[i].pos => q[j].pos + q[j].len <= q[i].pos
    BY <1>1, <2>2, RunsApart
  <2>6. q[i].pos < q[j].pos => q[i].pos + q[i].len <= q[j].pos
    BY <1>1, <2>2, RunsApart
  <2> DEFINE a == q[i].pos
             b == q[j].pos
             m == q[i].len
             n == q[j].len
  <2>7. /\ a \in Nat \ {0} /\ b \in Nat \ {0} /\ m \in Nat \ {0} /\ n \in Nat \ {0} /\ b + n <= Len(bs) + 1
        /\ b + n <= a \/ a + m <= b
        /\ x \in b .. b + n - 1
    BY <1>2, <2>3, <2>4, <2>5, <2>6
  <2> HIDE DEF a, b, m, n
  <2>8. x \in 1 .. Len(bs) /\ x \notin a .. a + m - 1
    <3>0. b \in Nat /\ n \in Nat /\ x \in b .. b + n - 1
      BY <2>7
    <3>a. x \in Nat /\ b <= x /\ x < b + n
      BY <3>0
    <3>1. Len(bs) \in Nat /\ x \in Nat /\ b <= x /\ x < b + n
      BY <1>1, <3>a
    <3>2. x \in 1 .. Len(bs)
      BY <2>7, <3>1
    <3>3. CASE b + n <= a
      BY <2>7, <3>1, <3>3
    <3>4. CASE a + m <= b
      BY <2>7, <3>1, <3>4
    <3> QED
      BY <2>7, <3>2, <3>3, <3>4
  <2> QED
    BY <1>1, <2>8 DEF a, m
<1>3. \A x \in Taken(q, i - 1) : \E j \in 1 .. i - 1 : x \in q[j].pos .. q[j].pos + q[j].len - 1
  BY DEF Taken
<1> QED
  BY <1>2, <1>3 DEF Free

LEMMA WithoutNone ==
  ASSUME NEW bs \in Seq(Entries), NEW q
  PROVE  Without(bs, Taken(q, 0), bs)
<1>1. Taken(q, 0) = {}
  <2>1. \A j \in 1 .. 0 : FALSE
    OBVIOUS
  <2> QED
    BY <2>1 DEF Taken
<1>2. \A p : Before({}, p) = 0
  <2>1. \A p : {x \in {} : x < p} = {}
    OBVIOUS
  <2> QED
    BY <2>1, FS_EmptySet DEF Before
<1>3. \A p \in DOMAIN bs : p - 0 = p
  BY EntryTypes
<1> QED
  BY <1>1, <1>2, <1>3 DEF Without


\* What flushRuns keeps up between two runs.
UnderwayRuns(w, q, i, v) ==
  /\ Flushed(w, v)
  /\ v.err \/ Without(w.blocks, Taken(q, i), v.blocks)
  /\ i > 0 => Len(v.blocks) < Len(w.blocks)

LEMMA FlushRunIs ==
  ASSUME NEW w, Sound(w), NEW q, AreRuns(q, w.blocks), NEW i \in 1 .. Len(q), NEW v, UnderwayRuns(w, q, i - 1, v),
         ~w.err, i = 1 => v = w
  PROVE  UnderwayRuns(w, q, i, FlushRun(v, q, i))
<1> DEFINE bs == w.blocks
           T == Taken(q, i - 1)
           p == q[i].pos
           n == q[i].len
           u == FlushRun(v, q, i)
<1>1. /\ Sound(v) /\ Flushed(w, v) /\ bs \in Seq(Entries) /\ v.blocks \in Seq(Entries) /\ Sorted(v.blocks)
      /\ Len(bs) \in Nat /\ Len(v.blocks) \in Nat /\ Len(v.blocks) <= Len(bs)
  BY EntryTypes DEF UnderwayRuns, Flushed, Sound, WorkSet
<1>2. Len(q) \in Nat /\ i \in Nat \ {0} /\ q[i] \in RunsOf(bs)
  BY DEF AreRuns
<1>3. CASE v.err
  <2>1. u = v
    BY <1>3 DEF FlushRun
  <2>2. i # 1
    BY <1>3
  <2>3. i - 1 > 0
    BY <1>2, <2>2
  <2> HIDE DEF u
  <2> QED
    BY <1>3, <2>1, <2>3 DEF UnderwayRuns, u
<1>4. CASE ~v.err
  <2>1. u = flushContiguous(v, p - Before(T, p), n)
    BY <1>4 DEF FlushRun, Before
  <2>2. Adjacent(bs, p, n) /\ n \in Nat \ {0}
    BY <1>1, <1>2, RunIs
  <2>3. T \in SUBSET (DOMAIN bs) /\ Free(T, p, n)
    BY <1>1, TakenIs
  <2>4. Without(bs, T, v.blocks)
    BY <1>4 DEF UnderwayRuns
  <2>5. Taken(q, i) = With(T, p, n)
    BY <1>2, TakenMore
  <2> HIDE DEF u, T, p, n, bs
  <2>6. Adjacent(v.blocks, p - Before(T, p), n)
    BY <1>1, <2>2, <2>3, <2>4, MovedRun
  <2>7. /\ Flushed(v, u)
        /\ Len(u.blocks) = Len(v.blocks) - n
        /\ \A k \in 1 .. Len(v.blocks) - n :
             u.blocks[k] = IF k < p - Before(T, p) THEN v.blocks[k] ELSE v.blocks[k + n]
    BY <1>1, <2>1, <2>6, FlushIs
  <2>8. u.blocks \in Seq(Entries)
    BY <2>7 DEF Flushed, Sound, WorkSet
  <2>9. Without(bs, With(T, p, n), u.blocks)
    BY <1>1, <2>2, <2>3, <2>4, <2>7, <2>8, RunIsGone
  <2>10. Flushed(w, u)
    BY <1>1, <2>7, FlushedTwice
  <2>11. Len(u.blocks) < Len(bs)
    BY <1>1, <2>2, <2>7
  <2>12. Without(bs, Taken(q, i), u.blocks)
    BY <2>5, <2>9
  <2> QED
    BY <2>10, <2>11, <2>12 DEF UnderwayRuns, u, bs
<1> QED
  BY <1>3, <1>4

\* A flush of runs, up to an error.
LEMMA FlushRunsIs ==
  ASSUME NEW w, Sound(w), ~w.err, NEW q, AreRuns(q, w.blocks)
  PROVE  /\ Flushed(w, flushRuns(w, q))
         /\ Len(q) > 0 => Len(flushRuns(w, q).blocks) < Len(w.blocks)
<1> DEFINE N == Len(q)
           u == flushRuns(w, q)
<1>1. N \in Nat
  BY DEF AreRuns
<1>2. PICK after :
        /\ after[0] = w
        /\ \A i \in 1 .. N : after[i] = FlushRun(after[i - 1], q, i)
        /\ u = after[N]
  BY <1>1, FlushRunsSteps
<1> HIDE DEF u, N
<1> DEFINE S == {i \in 0 .. N : UnderwayRuns(w, q, i, after[i])}
<1>3. 0 \in S
  <2>1. UnderwayRuns(w, q, 0, w)
    <3>1. Flushed(w, w) /\ Without(w.blocks, Taken(q, 0), w.blocks)
      BY FlushedSelf, WithoutNone DEF Sound, WorkSet
    <3> QED
      BY <3>1 DEF UnderwayRuns
  <2> QED
    BY <1>1, <1>2, <2>1
<1>4. ASSUME NEW i \in 1 .. N, i - 1 \in S
      PROVE  i \in S
  <2>1. UnderwayRuns(w, q, i - 1, after[i - 1]) /\ after[i] = FlushRun(after[i - 1], q, i)
    BY <1>2, <1>4
  <2>2. i = 1 => after[i - 1] = w
    BY <1>2
  <2>3. i \in 1 .. Len(q)
    BY DEF N
  <2>4. UnderwayRuns(w, q, i, FlushRun(after[i - 1], q, i))
    <3> HIDE DEF S
    <3> QED
      BY <2>1, <2>2, <2>3, FlushRunIs
  <2>5. i \in 0 .. N
    BY <1>1
  <2> QED
    BY <2>1, <2>4, <2>5
<1>5. N \in S
  <2> HIDE DEF S
  <2>1. 0 .. N \subseteq S
    BY <1>1, <1>3, <1>4, Counting
  <2> QED
    BY <1>1, <2>1
<1>6. UnderwayRuns(w, q, N, u)
  BY <1>2, <1>5
<1> QED
  BY <1>1, <1>6 DEF UnderwayRuns, u, N


LEMMA SubsetOfInterval ==
  ASSUME NEW n \in Nat, NEW I \in SUBSET (1 .. n)
  PROVE  Cardinality(I) \in 0 .. n /\ (I # {} => Cardinality(I) > 0)
<1>1. IsFiniteSet(1 .. n) /\ Cardinality(1 .. n) = n
  BY FS_Interval
<1>2. IsFiniteSet(I) /\ Cardinality(I) \in Nat /\ Cardinality(I) <= n
  BY <1>1, FS_Subset, FS_CardinalityType
<1>3. I # {} => Cardinality(I) # 0
  BY <1>2, FS_EmptySet
<1> QED
  BY <1>2, <1>3

LEMMA RunsAreFinite ==
  ASSUME NEW bs \in Seq(Entries)
  PROVE  IsFiniteSet(RunsOf(bs)) /\ (Len(bs) > 0 => RunsOf(bs) # {})
<1> DEFINE D == {n \in DOMAIN bs : n > 1 => bs[n].key # <<bs[n - 1].key[1], bs[n - 1].key[2] + 1>>}
           f == [p \in D |-> RunAt(bs, p)]
<1>1. Len(bs) \in Nat /\ DOMAIN bs = 1 .. Len(bs)
  BY EntryTypes
<1>2. IsFiniteSet(D)
  <2>1. D \in SUBSET (1 .. Len(bs))
    BY <1>1
  <2> HIDE DEF D
  <2>2. IsFiniteSet(1 .. Len(bs))
    BY <1>1, FS_Interval
  <2> QED
    BY <2>1, <2>2, FS_Subset
<1>3. Len(bs) > 0 => 1 \in D
  BY <1>1
<1>4. RunsOf(bs) = {RunAt(bs, p) : p \in D}
  BY DEF RunsOf
<1> HIDE DEF D
<1>5. f \in Surjection(D, RunsOf(bs))
  BY <1>4 DEF Surjection
<1>6. IsFiniteSet(RunsOf(bs))
  BY <1>2, <1>5, FS_Surjection
<1> QED
  BY <1>3, <1>4, <1>6

LEMMA CalcRunsIs ==
  ASSUME NEW bs \in Seq(Entries), NEW q \in calcRuns(bs)
  PROVE  /\ q \in Seq(RunsOf(bs)) /\ AreRuns(q, bs) /\ DOMAIN q = 1 .. Len(q)
         /\ Len(bs) > 0 => Len(q) > 0
<1>1. q \in SetToSeqs(RunsOf(bs))
  BY DEF calcRuns
<1>2. /\ Len(q) = Cardinality(RunsOf(bs)) /\ Len(q) \in Nat /\ DOMAIN q = 1 .. Len(q)
      /\ \A i \in 1 .. Len(q) : q[i] \in RunsOf(bs)
      /\ \A i, j \in 1 .. Len(q) : q[i] = q[j] => i = j
      /\ \A r \in RunsOf(bs) : \E i \in 1 .. Len(q) : q[i] = r
  BY <1>1, RunsAreFinite, SeqOfAll
<1>3. q \in [1 .. Len(q) -> RunsOf(bs)]
  <2>1. q \in [1 .. Cardinality(RunsOf(bs)) -> RunsOf(bs)]
    BY <1>1 DEF SetToSeqs
  <2> QED
    BY <1>2, <2>1
<1>4. q \in Seq(RunsOf(bs))
  BY <1>2, <1>3, SeqDef
<1>5. Len(bs) > 0 => Len(q) > 0
  BY <1>2, RunsAreFinite
<1> QED
  BY <1>2, <1>4, <1>5 DEF AreRuns

LEMMA FirstRuns ==
  ASSUME NEW bs, NEW q \in Seq(RunsOf(bs)), AreRuns(q, bs), NEW n \in 0 .. Len(q)
  PROVE  AreRuns(SubSeq(q, 1, n), bs) /\ Len(SubSeq(q, 1, n)) = n
<1> DEFINE S == RunsOf(bs)
           s == SubSeq(q, 1, n)
<1>1. Len(q) \in Nat /\ n \in Int /\ \A i \in 1 .. Len(q) : q[i] \in S
  BY DEF AreRuns
<1>2. \A i \in 1 .. n : q[i] \in S
  BY <1>1
<1>3. /\ Len(s) = (IF 1 <= n THEN n - 1 + 1 ELSE 0)
      /\ \A i \in 1 .. n - 1 + 1 : s[i] = q[1 + i - 1]
  <2> HIDE DEF S
  <2> QED
    BY <1>1, <1>2, SubSeqProperties
<1> HIDE DEF s, S
<1>4. Len(s) = n /\ \A i \in 1 .. n : s[i] = q[i]
  BY <1>1, <1>3
<1>5. \A i \in 1 .. n : i \in 1 .. Len(q)
  BY <1>1
<1> QED
  BY <1>1, <1>4, <1>5 DEF AreRuns, s, S

\* cacheTrim flushes something if there is too much.
LEMMA TrimIs ==
  ASSUME NEW w, Sound(w), ~w.err, NEW q \in calcRuns(w.blocks), NEW limit \in Nat
  PROVE  /\ Flushed(w, cacheTrim(w, q, limit))
         /\ Len(w.blocks) > limit => Len(cacheTrim(w, q, limit).blocks) < Len(w.blocks)
<1> DEFINE cutoff == 1 + limit \div 4
           I == {i \in DOMAIN q : Cardinality(Taken(q, i - 1)) < cutoff}
           n == Cardinality(I)
           u == flushRuns(w, SubSeq(q, 1, n))
           bs == w.blocks
<1>1. bs \in Seq(Entries) /\ Len(bs) \in Nat
  BY EntryTypes DEF Sound, WorkSet
<1>2. q \in Seq(RunsOf(bs)) /\ AreRuns(q, bs) /\ DOMAIN q = 1 .. Len(q) /\ (Len(bs) > 0 => Len(q) > 0)
  BY <1>1, CalcRunsIs
<1>3. Len(q) \in Nat
  BY <1>2 DEF AreRuns
<1>4. I \in SUBSET (1 .. Len(q))
  BY <1>2
<1>5. Len(bs) > 0 => 1 \in I
  <2> SUFFICES ASSUME Len(bs) > 0
               PROVE  1 \in I
    OBVIOUS
  <2>1. 1 \in DOMAIN q
    BY <1>2, <1>3
  <2>2. Taken(q, 1 - 1) = {}
    <3>1. \A j \in 1 .. 1 - 1 : FALSE
      OBVIOUS
    <3> QED
      BY <3>1 DEF Taken
  <2>3. Cardinality(Taken(q, 1 - 1)) = 0
    BY <2>2, FS_EmptySet
  <2>4. 0 < cutoff
    <3>1. limit \div 4 \in Nat
      OBVIOUS
    <3> QED
      BY <3>1
  <2> HIDE DEF cutoff
  <2> QED
    BY <2>1, <2>3, <2>4
<1> HIDE DEF I
<1>6. n \in 0 .. Len(q) /\ (Len(bs) > 0 => n > 0)
  BY <1>3, <1>4, <1>5, SubsetOfInterval
<1> HIDE DEF n
<1>7. AreRuns(SubSeq(q, 1, n), bs) /\ Len(SubSeq(q, 1, n)) = n
  BY <1>2, <1>6, FirstRuns
<1>8. Flushed(w, u) /\ (n > 0 => Len(u.blocks) < Len(bs))
  BY <1>7, FlushRunsIs
<1>9. cacheTrim(w, q, limit) = IF Len(bs) > limit THEN u ELSE w
  BY DEF cacheTrim, n, I
<1> HIDE DEF u
<1>10. Flushed(w, w)
  BY FlushedSelf
<1>11. Len(bs) > limit => n > 0
  BY <1>1, <1>6
<1> QED
  BY <1>8, <1>9, <1>10, <1>11

LEMMA FlushDoneIs ==
  ASSUME NEW w, Sound(w), ~w.err, NEW q \in calcRuns(w.blocks)
  PROVE  Flushed(w, FlushDone(w, q))
<1> DEFINE I == {n \in DOMAIN q : \A m \in 1 .. n : q[m].done \/ q[m].multi}
           n == Cardinality(I)
           bs == w.blocks
<1>1. bs \in Seq(Entries)
  BY DEF Sound, WorkSet
<1>2. q \in Seq(RunsOf(bs)) /\ AreRuns(q, bs) /\ DOMAIN q = 1 .. Len(q)
  BY <1>1, CalcRunsIs
<1>3. Len(q) \in Nat
  BY <1>2 DEF AreRuns
<1>4. I \in SUBSET (1 .. Len(q))
  BY <1>2
<1> HIDE DEF I
<1>5. n \in 0 .. Len(q)
  BY <1>3, <1>4, SubsetOfInterval
<1> HIDE DEF n
<1>6. AreRuns(SubSeq(q, 1, n), bs)
  BY <1>2, <1>5, FirstRuns
<1>7. Flushed(w, flushRuns(w, SubSeq(q, 1, n)))
  BY <1>6, FlushRunsIs
<1> QED
  BY <1>7 DEF FlushDone, n, I


-----------------------------------------------------------------------------
(* The insertion.                                                           *)

\* t is the sequence s with e at p.
IsInserted(S, s, p, e, t) ==
  /\ t \in Seq(S) /\ Len(t) = Len(s) + 1
  /\ \A k \in 1 .. Len(s) + 1 : t[k] = IF k < p THEN s[k] ELSE IF k = p THEN e ELSE s[k - 1]

LEMMA InsertAtIs ==
  ASSUME NEW S, NEW s \in Seq(S), NEW p \in 1 .. Len(s) + 1, NEW e \in S
  PROVE  IsInserted(S, s, p, e, InsertAt(s, p, e))
<1> DEFINE u == SubSeq(s, 1, p - 1)
           x == <<e>>
           v == SubSeq(s, p, Len(s))
<1>1. Len(s) \in Nat /\ p \in Nat /\ 1 <= p /\ p <= Len(s) + 1
  OBVIOUS
<1>2. \A k \in 1 .. Len(s) : s[k] \in S
  OBVIOUS
<1>3. u \in Seq(S) /\ Len(u) = p - 1 /\ \A k \in 1 .. p - 1 : u[k] = s[k]
  <2>1. \A k \in 1 .. p - 1 : s[k] \in S
    BY <1>1, <1>2
  <2>2. /\ u \in Seq(S) /\ Len(u) = (IF 1 <= p - 1 THEN (p - 1) - 1 + 1 ELSE 0)
        /\ \A k \in 1 .. (p - 1) - 1 + 1 : u[k] = s[1 + k - 1]
    BY <1>1, <2>1, SubSeqProperties
  <2> HIDE DEF u
  <2> QED
    BY <1>1, <2>2
<1>4. v \in Seq(S) /\ Len(v) = Len(s) - p + 1 /\ \A k \in 1 .. Len(s) - p + 1 : v[k] = s[p + k - 1]
  <2>1. \A k \in p .. Len(s) : s[k] \in S
    BY <1>1, <1>2
  <2>2. /\ v \in Seq(S) /\ Len(v) = (IF p <= Len(s) THEN Len(s) - p + 1 ELSE 0)
        /\ \A k \in 1 .. Len(s) - p + 1 : v[k] = s[p + k - 1]
    BY <1>1, <2>1, SubSeqProperties
  <2> HIDE DEF v
  <2> QED
    BY <1>1, <2>2
<1>5. x \in Seq(S) /\ Len(x) = 1 /\ x[1] = e
  OBVIOUS
<1> HIDE DEF u, v, x
<1> DEFINE y == u \o x
<1>6. y \in Seq(S) /\ Len(y) = p /\ \A k \in 1 .. p : y[k] = IF k <= p - 1 THEN u[k] ELSE x[k - (p - 1)]
  <2>1. /\ y \in Seq(S) /\ Len(y) = Len(u) + Len(x)
        /\ \A k \in 1 .. Len(u) + Len(x) : y[k] = IF k <= Len(u) THEN u[k] ELSE x[k - Len(u)]
    BY <1>3, <1>5, ConcatProperties
  <2>2. Len(u) + Len(x) = p
    BY <1>1, <1>3, <1>5
  <2> HIDE DEF y
  <2> QED
    BY <1>3, <2>1, <2>2
<1> HIDE DEF y
<1>7. /\ y \o v \in Seq(S) /\ Len(y \o v) = Len(s) + 1
      /\ \A k \in 1 .. Len(s) + 1 : (y \o v)[k] = IF k <= p THEN y[k] ELSE v[k - p]
  <2>1. /\ y \o v \in Seq(S) /\ Len(y \o v) = Len(y) + Len(v)
        /\ \A k \in 1 .. Len(y) + Len(v) : (y \o v)[k] = IF k <= Len(y) THEN y[k] ELSE v[k - Len(y)]
    BY <1>4, <1>6, ConcatProperties
  <2>2. Len(y) + Len(v) = Len(s) + 1
    BY <1>1, <1>4, <1>6
  <2> QED
    BY <1>6, <2>1, <2>2
<1>8. InsertAt(s, p, e) = y \o v
  BY DEF InsertAt, u, v, x, y
<1>9. ASSUME NEW k \in 1 .. Len(s) + 1
      PROVE  (y \o v)[k] = IF k < p THEN s[k] ELSE IF k = p THEN e ELSE s[k - 1]
  <2>1. CASE k < p
    <3>1. k \in 1 .. p /\ k <= p /\ k <= p - 1 /\ k \in 1 .. p - 1
      BY <1>1, <2>1
    <3> QED
      BY <1>3, <1>6, <1>7, <2>1, <3>1
  <2>2. CASE k = p
    <3>1. k \in 1 .. p /\ k <= p /\ ~(k <= p - 1) /\ k - (p - 1) = 1 /\ ~(k < p)
      BY <1>1, <2>2
    <3> QED
      BY <1>5, <1>6, <1>7, <2>2, <3>1
  <2>3. CASE p < k
    <3>1. ~(k <= p) /\ k - p \in 1 .. Len(s) - p + 1 /\ p + (k - p) - 1 = k - 1 /\ ~(k < p) /\ k # p
      BY <1>1, <2>3
    <3> QED
      BY <1>4, <1>7, <3>1
  <2>4. k \in Int /\ (k < p \/ k = p \/ p < k)
    BY <1>1
  <2>5. (k = p => ~(k < p)) /\ (p < k => ~(k < p) /\ k # p)
    BY <1>1
  <2> HIDE DEF y, v
  <2> QED
    BY <2>1, <2>2, <2>3, <2>4, <2>5
<1> QED
  BY <1>7, <1>8, <1>9 DEF IsInserted

\* c is the array bs with the entry new for its key.
HasEntry(bs, new, c) ==
  /\ c \in Seq(Entries) /\ Sorted(c) /\ Len(c) <= Len(bs) + 1
  /\ \E n \in DOMAIN c : c[n] = new
  /\ \A n \in DOMAIN c : c[n] = new \/ \E m \in DOMAIN bs : c[n] = bs[m]
  /\ \A m \in DOMAIN bs : bs[m].key = new.key \/ \E n \in DOMAIN c : c[n] = bs[m]

\* The position of a block that is there.
LEMMA BoundOfEntry ==
  ASSUME NEW bs \in Seq(Entries), Sorted(bs), NEW n \in DOMAIN bs
  PROVE  LowerBound(bs, bs[n].key) = n
<1> DEFINE p == LowerBound(bs, bs[n].key)
<1>1. /\ Len(bs) \in Nat /\ DOMAIN bs = 1 .. Len(bs) /\ n \in Nat
      /\ \A m \in DOMAIN bs : bs[m].key \in Keys
  BY EntryTypes
<1>2. p \in 1 .. Len(bs) + 1 /\ \A m \in DOMAIN bs : Precedes(bs[m].key, bs[n].key) <=> m < p
  BY <1>1, LowerBoundIs
<1> HIDE DEF p
<1>3. ~(n < p)
  BY <1>1, <1>2, PrecedesOrders
<1>4. ~(p < n)
  <2> SUFFICES ASSUME p < n
               PROVE  FALSE
    OBVIOUS
  <2>1. p \in DOMAIN bs /\ ~(p < p)
    BY <1>1, <1>2
  <2>2. Precedes(bs[p].key, bs[n].key)
    BY <2>1 DEF Sorted
  <2> QED
    BY <1>2, <2>1, <2>2
<1>5. p = n
  BY <1>1, <1>2, <1>3, <1>4
<1> QED
  BY <1>5 DEF p

LEMMA InsertedIs ==
  ASSUME NEW bs \in Seq(Entries), Sorted(bs), NEW k \in Keys, NEW good \in BOOLEAN
  PROVE  HasEntry(bs, [key |-> k, good |-> good], Inserted(bs, k, good))
<1> DEFINE new == [key |-> k, good |-> good]
           p == LowerBound(bs, k)
           c == Inserted(bs, k, good)
<1>1. /\ Len(bs) \in Nat /\ DOMAIN bs = 1 .. Len(bs)
      /\ \A n \in DOMAIN bs : bs[n] \in Entries /\ bs[n].key \in Keys
      /\ new \in Entries /\ new.key = k
  BY EntryTypes DEF Entries
<1>2. p \in 1 .. Len(bs) + 1 /\ \A n \in DOMAIN bs : Precedes(bs[n].key, k) <=> n < p
  BY LowerBoundIs
<1>3. CASE InCache(bs, k)
  <2>1. PICK n \in DOMAIN bs : bs[n].key = k
    BY <1>3 DEF InCache
  <2>2. p = n
    BY <2>1, BoundOfEntry
  <2>3. c = [bs EXCEPT ![n] = new]
    BY <1>3, <2>2 DEF Inserted
  <2> HIDE DEF new, c, p
  <2>4. /\ c \in Seq(Entries) /\ Len(c) = Len(bs) /\ DOMAIN c = DOMAIN bs /\ c[n] = new
        /\ \A m \in DOMAIN bs : m # n => c[m] = bs[m]
    BY <1>1, <2>1, <2>3, ExceptSeq
  <2>5. \A m \in DOMAIN bs : c[m].key = bs[m].key
    BY <1>1, <2>1, <2>4
  <2>6. Sorted(c)
    BY <2>4, <2>5 DEF Sorted
  <2>7. Len(c) <= Len(bs) + 1
    BY <1>1, <2>4
  <2> QED
    BY <1>1, <2>1, <2>4, <2>6, <2>7 DEF HasEntry, new, c
<1>4. CASE ~InCache(bs, k)
  <2>1. c = InsertAt(bs, p, new)
    BY <1>4 DEF Inserted
  <2>2. \A n \in DOMAIN bs : bs[n].key # k
    BY <1>4 DEF InCache
  <2> HIDE DEF new, c, p
  <2>3. /\ c \in Seq(Entries) /\ Len(c) = Len(bs) + 1
        /\ \A i \in 1 .. Len(bs) + 1 : c[i] = IF i < p THEN bs[i] ELSE IF i = p THEN new ELSE bs[i - 1]
    <3>1. IsInserted(Entries, bs, p, new, c)
      <4>1. new \in Entries /\ p \in 1 .. Len(bs) + 1
        BY <1>1, <1>2
      <4>2. IsInserted(Entries, bs, p, new, InsertAt(bs, p, new))
        BY <4>1, InsertAtIs
      <4> QED
        BY <2>1, <4>2
    <3> QED
      BY <3>1 DEF IsInserted
  <2>4. DOMAIN c = 1 .. Len(bs) + 1
    BY <2>3, LenProperties
  <2>5. ASSUME NEW i \in DOMAIN c, NEW j \in DOMAIN c, i < j
        PROVE  Precedes(c[i].key, c[j].key)
    <3>1. CASE j < p
      <4>1. i \in DOMAIN bs /\ j \in DOMAIN bs /\ i < p
        BY <1>1, <1>2, <2>4, <2>5, <3>1
      <4>2. c[i] = bs[i] /\ c[j] = bs[j]
        BY <2>3, <2>4, <3>1, <4>1
      <4> QED
        BY <2>5, <4>1, <4>2 DEF Sorted
    <3>2. CASE j = p
      <4>1. i \in DOMAIN bs /\ i < p /\ ~(j < p)
        BY <1>1, <1>2, <2>4, <2>5, <3>2
      <4>2. c[i] = bs[i] /\ c[j] = new
        BY <2>3, <2>4, <3>2, <4>1
      <4> QED
        BY <1>1, <1>2, <4>1, <4>2
    <3>3. CASE p < j /\ i < p
      <4>1. i \in DOMAIN bs /\ j - 1 \in DOMAIN bs /\ i < j - 1 /\ ~(j < p) /\ j # p
        BY <1>1, <1>2, <2>4, <2>5, <3>3
      <4>2. c[i] = bs[i] /\ c[j] = bs[j - 1]
        BY <2>3, <2>4, <3>3, <4>1
      <4> QED
        BY <4>1, <4>2 DEF Sorted
    <3>4. CASE p < j /\ i = p
      <4>1. j - 1 \in DOMAIN bs /\ ~(j - 1 < p) /\ ~(j < p) /\ j # p /\ ~(i < p)
        BY <1>1, <1>2, <2>4, <2>5, <3>4
      <4>2. c[i] = new /\ c[j] = bs[j - 1]
        BY <2>3, <2>4, <3>4, <4>1
      <4>3. ~Precedes(bs[j - 1].key, k) /\ bs[j - 1].key # k /\ bs[j - 1].key \in Keys
        BY <1>1, <1>2, <2>2, <4>1
      <4>4. Precedes(k, bs[j - 1].key)
        BY <4>3, PrecedesOrders
      <4> QED
        BY <1>1, <4>2, <4>4
    <3>5. CASE p < j /\ p < i
      <4>1. i - 1 \in DOMAIN bs /\ j - 1 \in DOMAIN bs /\ i - 1 < j - 1 /\ ~(j < p) /\ j # p /\ ~(i < p) /\ i # p
        BY <1>1, <1>2, <2>4, <2>5, <3>5
      <4>2. c[i] = bs[i - 1] /\ c[j] = bs[j - 1]
        BY <2>3, <2>4, <4>1
      <4> QED
        BY <4>1, <4>2 DEF Sorted
    <3> QED
      BY <1>1, <1>2, <2>4, <3>1, <3>2, <3>3, <3>4, <3>5
  <2>6. p \in DOMAIN c /\ c[p] = new
    BY <1>1, <1>2, <2>3, <2>4
  <2>7. ASSUME NEW i \in DOMAIN c, i # p
        PROVE  \E m \in DOMAIN bs : c[i] = bs[m]
    <3>1. CASE i < p
      <4>1. i \in DOMAIN bs
        BY <1>1, <1>2, <2>4, <3>1
      <4> QED
        BY <2>3, <2>4, <3>1, <4>1
    <3>2. CASE ~(i < p)
      <4>1. i - 1 \in DOMAIN bs
        BY <1>1, <1>2, <2>4, <2>7, <3>2
      <4> QED
        BY <2>3, <2>4, <2>7, <3>2, <4>1
    <3> QED
      BY <3>1, <3>2
  <2>8. ASSUME NEW m \in DOMAIN bs
        PROVE  \E n \in DOMAIN c : c[n] = bs[m]
    <3>1. CASE m < p
      <4>1. m \in DOMAIN c
        BY <1>1, <2>4
      <4> QED
        BY <2>3, <2>4, <3>1, <4>1
    <3>2. CASE ~(m < p)
      <4>1. m + 1 \in DOMAIN c /\ ~(m + 1 < p) /\ m + 1 # p /\ m + 1 - 1 = m
        BY <1>1, <1>2, <2>4, <3>2
      <4>2. c[m + 1] = bs[m + 1 - 1]
        BY <2>3, <2>4, <4>1
      <4> QED
        BY <4>1, <4>2
    <3> QED
      BY <3>1, <3>2
  <2>9. Sorted(c) /\ Len(c) <= Len(bs) + 1
    BY <1>1, <2>3, <2>5 DEF Sorted
  <2> QED
    BY <2>3, <2>6, <2>7, <2>8, <2>9 DEF HasEntry, new, c
<1> QED
  BY <1>3, <1>4

\* What is read after it.
LEMMA EntryIsRead ==
  ASSUME NEW bs \in Seq(Entries), Sorted(bs), NEW k \in Keys, NEW good \in BOOLEAN, NEW c,
         HasEntry(bs, [key |-> k, good |-> good], c), NEW d, NEW l \in Keys
  PROVE  ContentIn(c, d, l) = IF l = k THEN good ELSE ContentIn(bs, d, l)
<1> DEFINE new == [key |-> k, good |-> good]
<1>1. new.key = k /\ new.good = good
  OBVIOUS
<1> HIDE DEF new
<1>2. HasEntry(bs, new, c)
  BY DEF new
<1>3. c \in Seq(Entries) /\ Sorted(c)
  BY <1>2 DEF HasEntry
<1>4. CASE l = k
  <2>1. PICK n \in DOMAIN c : c[n] = new
    BY <1>2 DEF HasEntry
  <2> QED
    BY <1>1, <1>3, <1>4, <2>1, ContentIs
<1>5. CASE l # k /\ \E m \in DOMAIN bs : bs[m].key = l
  <2>1. PICK m \in DOMAIN bs : bs[m].key = l
    BY <1>5
  <2>2. PICK n \in DOMAIN c : c[n] = bs[m]
    BY <1>1, <1>2, <1>5, <2>1 DEF HasEntry
  <2> QED
    BY <1>3, <1>5, <2>1, <2>2, ContentIs
<1>6. CASE l # k /\ \A m \in DOMAIN bs : bs[m].key # l
  <2>1. \A n \in DOMAIN c : c[n].key # l
    BY <1>1, <1>2, <1>6 DEF HasEntry
  <2> QED
    BY <1>3, <1>6, <2>1, ContentIs
<1> QED
  BY <1>4, <1>5, <1>6


-----------------------------------------------------------------------------
(* The handlers.                                                            *)

LEMMA TypesAre ==
  ASSUME TypeOK
  PROVE  /\ blocks \in Seq(Entries) /\ Sorted(blocks) /\ Len(blocks) \in Nat /\ DOMAIN blocks = 1 .. Len(blocks)
         /\ maxBlocks \in Limits /\ maxBlocks \in Nat
         /\ disk \in [Keys -> BOOLEAN] /\ localError \subseteq Torrents /\ freed \subseteq Torrents
         /\ DOMAIN have = Torrents /\ \A t \in Torrents : have[t] \subseteq Blocks(t)
<1>1. blocks \in Seq(Entries) /\ Sorted(blocks)
  BY DEF TypeOK, Entries, Sorted
<1>2. Len(blocks) \in Nat /\ DOMAIN blocks = 1 .. Len(blocks)
  BY <1>1, EntryTypes
<1>3. maxBlocks \in Limits /\ maxBlocks \in Nat
  BY CacheAssumption DEF TypeOK
<1> QED
  BY <1>1, <1>2, <1>3 DEF TypeOK

LEMMA PlanIs ==
  ASSUME NEW c \in Seq(Entries), NEW plan \in FaultPlans(c)
  PROVE  /\ plan \in [at : Nat, written : Nat, torn : BOOLEAN, reported : BOOLEAN]
         /\ ~MayWriteShort => plan.at = 0 \/ plan.reported
<1>1. CASE plan = NoFault
  BY <1>1 DEF NoFault
<1>2. CASE plan # NoFault
  <2> DEFINE A == 1 .. Cardinality(RunsOf(c))
             W == UNION {0 .. r.len - 1 : r \in RunsOf(c)}
             R == (IF DiskMayFail THEN {TRUE} ELSE {}) \cup (IF MayWriteShort THEN {FALSE} ELSE {})
  <2>1. plan \in [at : A, written : W, torn : BOOLEAN, reported : R]
    BY <1>2 DEF FaultPlans
  <2>2. \A n \in A : n \in Nat
    <3>1. Cardinality(RunsOf(c)) \in Nat
      BY RunsAreFinite, FS_CardinalityType
    <3> QED
      BY <3>1
  <2>3. \A n \in W : n \in Nat
    <3>1. \A r \in RunsOf(c) : r.len \in Nat
      BY RunIs
    <3> QED
      BY <3>1
  <2>4. R \subseteq BOOLEAN /\ (~MayWriteShort => R \subseteq {TRUE})
    OBVIOUS
  <2> HIDE DEF A, W, R
  <2>5. plan.at \in A /\ plan.written \in W /\ plan.torn \in BOOLEAN /\ plan.reported \in R
    BY <2>1
  <2>6. plan = [at |-> plan.at, written |-> plan.written, torn |-> plan.torn, reported |-> plan.reported]
    BY <2>1
  <2>7. plan.at \in Nat /\ plan.written \in Nat /\ plan.reported \in BOOLEAN
    BY <2>2, <2>3, <2>4, <2>5
  <2>8. ~MayWriteShort => plan.reported
    BY <2>4, <2>5
  <2> QED
    BY <2>5, <2>6, <2>7, <2>8
<1> QED
  BY <1>1, <1>2

\* What a handler begins with that has the array c in the cache.
Begun(c, x) ==
  /\ Sound(x) /\ ~x.err /\ x.blocks = c /\ x.disk = disk /\ x.marked = localError
  /\ ~MayWriteShort => Reports(x)

LEMMA WorkBegins ==
  ASSUME TypeOK, NEW plan \in FaultPlans(blocks)
  PROVE  Begun(blocks, Work(plan))
<1>1. /\ plan \in [at : Nat, written : Nat, torn : BOOLEAN, reported : BOOLEAN]
      /\ ~MayWriteShort => plan.at = 0 \/ plan.reported
  BY TypesAre, PlanIs
<1>2. Work(plan) \in WorkSet
  BY <1>1, TypesAre DEF Work, WorkSet
<1> QED
  BY <1>1, <1>2, TypesAre DEF Work, Begun, Sound, Reports

LEMMA InsertionBegins ==
  ASSUME TypeOK, NEW c \in Seq(Entries), Sorted(c), NEW plan \in FaultPlans(c)
  PROVE  Begun(c, [Work(plan) EXCEPT !.blocks = c])
<1>1. /\ plan \in [at : Nat, written : Nat, torn : BOOLEAN, reported : BOOLEAN]
      /\ ~MayWriteShort => plan.at = 0 \/ plan.reported
  BY PlanIs
<1> DEFINE x == [Work(plan) EXCEPT !.blocks = c]
           y == Work(plan)
<1>2. y \in WorkSet /\ ~y.err /\ y.disk = disk /\ y.marked = localError /\ y.plan = plan
  BY <1>1, TypesAre DEF WorkSet, Work
<1> HIDE DEF y
<1>3. /\ [y EXCEPT !.blocks = c] \in WorkSet
      /\ [y EXCEPT !.blocks = c].blocks = c /\ [y EXCEPT !.blocks = c].disk = y.disk
      /\ [y EXCEPT !.blocks = c].marked = y.marked /\ [y EXCEPT !.blocks = c].plan = y.plan
      /\ [y EXCEPT !.blocks = c].err = y.err
  BY <1>2 DEF WorkSet
<1>4. x = [y EXCEPT !.blocks = c]
  BY DEF y
<1> HIDE DEF x
<1>5. x \in WorkSet /\ ~x.err /\ x.blocks = c /\ x.disk = disk /\ x.marked = localError /\ x.plan = plan
  BY <1>2, <1>3, <1>4
<1> QED
  BY <1>1, <1>5 DEF Begun, Sound, Reports, x

\* What a handler leaves: flushes of c.
Ended(c) ==
  /\ blocks' \in Seq(Entries) /\ Sorted(blocks') /\ disk' \in [Keys -> BOOLEAN]
  /\ localError \subseteq localError' /\ localError' \subseteq Torrents /\ forgiven' = forgiven
  /\ Len(blocks') <= Len(c)
  /\ \A n \in DOMAIN blocks' : \E m \in DOMAIN c : blocks'[n] = c[m]
  /\ ~MayWriteShort =>
       \A k \in Keys : k[1] \notin localError' =>
         /\ ContentIn(blocks', disk', k) = ContentIn(c, disk, k)
         /\ disk'[k] \in {disk[k], ContentIn(c, disk, k)}

LEMMA EndIs ==
  ASSUME NEW c, NEW x, Begun(c, x), NEW w, Flushed(x, w), Finish(w)
  PROVE  Ended(c)
<1>1. blocks' = w.blocks /\ disk' = w.disk /\ localError' = w.marked /\ forgiven' = forgiven
  BY DEF Finish
<1>2. w \in WorkSet /\ Sorted(w.blocks)
  BY DEF Flushed, Sound
<1>3. w.blocks \in Seq(Entries) /\ w.disk \in [Keys -> BOOLEAN] /\ w.marked \subseteq Torrents
  BY <1>2 DEF WorkSet
<1>4. x.blocks = c /\ x.disk = disk /\ x.marked = localError /\ (~MayWriteShort => Reports(x))
  BY DEF Begun
<1> QED
  BY <1>1, <1>2, <1>3, <1>4 DEF Flushed, Ended

LEMMA SaveTimerIs ==
  ASSUME TypeOK, SaveTimer
  PROVE  Ended(blocks) /\ UNCHANGED <<maxBlocks, have, freed>>
<1>1. PICK plan \in FaultPlans(blocks), runs \in calcRuns(blocks) : Finish(FlushDone(Work(plan), runs))
  BY DEF SaveTimer, FlushFinished
<1>2. Begun(blocks, Work(plan))
  BY WorkBegins
<1>3. Flushed(Work(plan), FlushDone(Work(plan), runs))
  BY <1>2, FlushDoneIs DEF Begun
<1> QED
  BY <1>1, <1>2, <1>3, EndIs DEF SaveTimer, FlushFinished

LEMMA SetLimitIs ==
  ASSUME TypeOK, NEW n \in Limits, SetLimit(n)
  PROVE  /\ Ended(blocks) /\ maxBlocks' = n /\ UNCHANGED <<have, freed>>
         /\ Len(blocks) > n => Len(blocks') < Len(blocks)
<1>1. PICK plan \in FaultPlans(blocks), runs \in calcRuns(blocks) : Finish(cacheTrim(Work(plan), runs, n))
  BY DEF SetLimit
<1>2. Begun(blocks, Work(plan))
  BY WorkBegins
<1>3. n \in Nat
  BY CacheAssumption
<1>4. Sound(Work(plan)) /\ ~Work(plan).err /\ Work(plan).blocks = blocks
  BY <1>2 DEF Begun
<1>5. /\ Flushed(Work(plan), cacheTrim(Work(plan), runs, n))
      /\ Len(blocks) > n => Len(cacheTrim(Work(plan), runs, n).blocks) < Len(blocks)
  BY <1>3, <1>4, TrimIs
<1>6. Ended(blocks)
  BY <1>1, <1>2, <1>5, EndIs
<1>7. Len(blocks) > n => Len(blocks') < Len(blocks)
  BY <1>1, <1>5 DEF Finish
<1> QED
  BY <1>6, <1>7 DEF SetLimit

LEMMA StopIs ==
  ASSUME TypeOK, NEW t \in Torrents, stopTorrent(t)
  PROVE  /\ Ended(blocks) /\ UNCHANGED <<maxBlocks, have>> /\ t \notin freed
         /\ t \in localError' \/ \A n \in DOMAIN blocks' : blocks'[n].key[1] # t
<1>1. PICK plan \in FaultPlans(blocks) : Finish(tr_cacheFlushTorrent(Work(plan), t))
  BY DEF stopTorrent
<1> DEFINE w == tr_cacheFlushTorrent(Work(plan), t)
<1>2. Begun(blocks, Work(plan))
  BY WorkBegins
<1>3. Sound(Work(plan))
  BY <1>2 DEF Begun
<1>4. /\ Flushed(Work(plan), w)
      /\ w.err => t \in w.marked
      /\ ~w.err => \A n \in DOMAIN w.blocks : w.blocks[n].key[1] # t
  BY <1>3, FlushTorrentIs
<1> HIDE DEF w
<1>5. Finish(w)
  BY <1>1 DEF w
<1>6. Ended(blocks)
  BY <1>2, <1>4, <1>5, EndIs
<1>7. t \in localError' \/ \A n \in DOMAIN blocks' : blocks'[n].key[1] # t
  BY <1>4, <1>5 DEF Finish
<1> QED
  BY <1>6, <1>7 DEF stopTorrent


\* How a block is accounted for that has come in: its piece is incomplete, or it was bad and its
\* blocks are to be had again, or it is good and the files that it completes are on the disk.
Now(t, b) == [have EXCEPT ![t] = @ \cup {b}]
Touches(f, i) == PieceOf(f[1]) <= i /\ i <= PieceOf(f[2])
OnDisk(t, f) == \A a \in f[1] .. f[2] : disk'[<<t, a>>] = ContentIn(blocks', disk', <<t, a>>)
IsGood(t, i) == \A a \in PieceBlocks(t, i) : ContentIn(blocks', disk', <<t, a>>)

Incomplete(t, b) == have' = Now(t, b) /\ (b \in have[t] \/ ~PieceIsComplete(Now(t, b), t, PieceOf(b)))
Rejected(t, b) == have' = [have EXCEPT ![t] = @ \ PieceBlocks(t, PieceOf(b))]
Completed(t, b) ==
  /\ have' = Now(t, b)
  /\ ~MayWriteShort =>
       \/ t \in localError'
       \/ /\ IsGood(t, PieceOf(b))
          /\ \A f \in Files[t] : Touches(f, PieceOf(b)) /\ f[1] .. f[2] \subseteq Now(t, b)[t] => OnDisk(t, f)

\* The files have no blocks in the cache any more.
LEMMA FileIsOnDisk ==
  ASSUME blocks' \in Seq(Entries), Sorted(blocks'), NEW t \in Torrents, NEW f \in Files[t],
         \A n \in DOMAIN blocks' : ~Belongs(blocks'[n].key, <<t, f[1]>>, f[2])
  PROVE  OnDisk(t, f)
<1> SUFFICES ASSUME NEW a \in f[1] .. f[2]
             PROVE  disk'[<<t, a>>] = ContentIn(blocks', disk', <<t, a>>)
  BY DEF OnDisk
<1>1. \A n \in DOMAIN blocks' : blocks'[n].key # <<t, a>>
  BY DEF Belongs
<1> QED
  BY <1>1, ContentIs

LEMMA GotBlockIs ==
  ASSUME TypeOK, NEW c, NEW x, Begun(c, x), NEW w, Flushed(x, w),
         NEW t \in Torrents, NEW b \in Blocks(t), GotBlock(w, t, b)
  PROVE  /\ Ended(c) /\ Len(blocks') <= Len(w.blocks)
         /\ Incomplete(t, b) \/ Rejected(t, b) \/ Completed(t, b)
<1> DEFINE i == PieceOf(b)
           now == Now(t, b)
           complete == b \notin have[t] /\ PieceIsComplete(now, t, i)
           finished == {f \in Files[t] : Touches(f, i) /\ f[1] .. f[2] \subseteq now[t]}
<1>1. Sound(w) /\ w.blocks \in Seq(Entries) /\ Len(w.blocks) \in Nat
  BY EntryTypes DEF Flushed, Sound, WorkSet
<1>2. IF ~complete THEN Finish(w) /\ have' = now
      ELSE IF PieceIsGood(w, t, i)
        THEN /\ \E q \in SetToSeqs(finished) :
                  /\ \A m, n \in DOMAIN q : m < n => q[m][1] <= q[n][1]
                  /\ Finish(FlushFiles(w, t, q))
             /\ have' = now
        ELSE Finish(w) /\ have' = [have EXCEPT ![t] = @ \ PieceBlocks(t, i)]
  BY DEF GotBlock, Now, Touches
<1>3. CASE ~complete
  <2>1. Finish(w) /\ have' = now
    BY <1>2, <1>3
  <2>2. Ended(c) /\ Len(blocks') <= Len(w.blocks)
    BY <1>1, <2>1, EndIs DEF Finish
  <2> QED
    BY <1>3, <2>1, <2>2 DEF Incomplete
<1>4. CASE complete /\ ~PieceIsGood(w, t, i)
  <2>1. Finish(w) /\ have' = [have EXCEPT ![t] = @ \ PieceBlocks(t, i)]
    BY <1>2, <1>4
  <2>2. Ended(c) /\ Len(blocks') <= Len(w.blocks)
    BY <1>1, <2>1, EndIs DEF Finish
  <2> QED
    BY <2>1, <2>2 DEF Rejected
<1>5. CASE complete /\ PieceIsGood(w, t, i)
  <2>1. have' = now /\ \E q \in SetToSeqs(finished) : Finish(FlushFiles(w, t, q))
    BY <1>2, <1>5
  <2>2. PICK q \in SetToSeqs(finished) : Finish(FlushFiles(w, t, q))
    BY <2>1
  <2> DEFINE u == FlushFiles(w, t, q)
  <2>3. finished \in SUBSET Files[t]
    OBVIOUS
  <2> HIDE DEF finished
  <2>4. /\ Flushed(w, u)
        /\ t \in u.marked \/ \A f \in finished : \A n \in DOMAIN u.blocks :
                               ~Belongs(u.blocks[n].key, <<t, f[1]>>, f[2])
    BY <1>1, <2>3, FlushFilesIs
  <2>5. Finish(u)
    BY <2>2
  <2> HIDE DEF u
  <2>6. Flushed(x, u)
    BY <2>4, FlushedTwice DEF Begun
  <2>7. Ended(c)
    BY <2>5, <2>6, EndIs
  <2>8. blocks' = u.blocks /\ disk' = u.disk /\ localError' = u.marked
    BY <2>5 DEF Finish
  <2>9. Len(blocks') <= Len(w.blocks)
    BY <2>4, <2>8 DEF Flushed
  <2>10. ASSUME t \notin localError'
         PROVE  \A f \in Files[t] : Touches(f, i) /\ f[1] .. f[2] \subseteq now[t] => OnDisk(t, f)
    <3> SUFFICES ASSUME NEW f \in Files[t], Touches(f, i), f[1] .. f[2] \subseteq now[t]
                 PROVE  OnDisk(t, f)
      OBVIOUS
    <3>1. f \in finished
      BY DEF finished
    <3>2. \A n \in DOMAIN blocks' : ~Belongs(blocks'[n].key, <<t, f[1]>>, f[2])
      BY <2>4, <2>8, <2>10, <3>1
    <3> HIDE DEF now
    <3> QED
      BY <2>7, <3>2, FileIsOnDisk DEF Ended
  <2>11. ASSUME t \notin localError', ~MayWriteShort
         PROVE  IsGood(t, i)
    <3> SUFFICES ASSUME NEW a \in PieceBlocks(t, i)
                 PROVE  ContentIn(blocks', disk', <<t, a>>)
      BY DEF IsGood
    <3>1. <<t, a>> \in Keys /\ <<t, a>>[1] = t
      BY KeyIs DEF PieceBlocks
    <3>2. ContentIn(w.blocks, w.disk, <<t, a>>)
      BY <1>5 DEF PieceIsGood
    <3>3. Reports(w)
      BY <2>11 DEF Begun, Flushed, Reports
    <3>4. ContentIn(u.blocks, u.disk, <<t, a>>) = ContentIn(w.blocks, w.disk, <<t, a>>)
      BY <2>4, <2>8, <2>11, <3>1, <3>3 DEF Flushed
    <3> QED
      BY <2>8, <3>2, <3>4
  <2>12. Completed(t, b)
    BY <2>1, <2>10, <2>11 DEF Completed
  <2> QED
    BY <2>7, <2>9, <2>12
<1> QED
  BY <1>3, <1>4, <1>5

\* A block from a peer or a webseed.
Arrived(t, b, good, c) ==
  /\ t \notin freed
  /\ HasEntry(blocks, [key |-> <<t, b>>, good |-> good], c)
  /\ Ended(c)
  /\ \/ have' = have /\ b \notin have[t]
     \/ Incomplete(t, b) \/ Rejected(t, b) \/ Completed(t, b)
  /\ UNCHANGED <<maxBlocks, freed>>
  /\ Len(c) > maxBlocks => Len(blocks') < Len(c)

LEMMA PeerBlockIs ==
  ASSUME TypeOK, NEW t \in Torrents, NEW b \in Blocks(t), NEW good \in BOOLEAN, PeerBlock(t, b, good)
  PROVE  Arrived(t, b, good, Inserted(blocks, <<t, b>>, good)) /\ b \notin have[t]
<1> DEFINE c == Inserted(blocks, <<t, b>>, good)
           x(p) == [Work(p) EXCEPT !.blocks = c]
           w(p, q) == cacheTrim(x(p), q, maxBlocks)
<1>1. PICK plan \in FaultPlans(c), runs \in calcRuns(c) :
        IF w(plan, runs).err THEN Finish(w(plan, runs)) /\ UNCHANGED have ELSE GotBlock(w(plan, runs), t, b)
  BY DEF PeerBlock
<1>2. HasEntry(blocks, [key |-> <<t, b>>, good |-> good], c)
  BY KeyIs, TypesAre, InsertedIs
<1>3. t \notin freed /\ b \notin have[t] /\ UNCHANGED <<maxBlocks, freed>>
  BY DEF PeerBlock
<1>4. c \in Seq(Entries) /\ Sorted(c) /\ Len(c) \in Nat
  BY <1>2, EntryTypes DEF HasEntry
<1> HIDE DEF c
<1>5. Begun(c, x(plan))
  BY <1>4, InsertionBegins
<1> DEFINE y == x(plan)
           v == cacheTrim(y, runs, maxBlocks)
<1>6. IF v.err THEN Finish(v) /\ UNCHANGED have ELSE GotBlock(v, t, b)
  BY <1>1
<1>7. Begun(c, y)
  BY <1>5
<1> HIDE DEF y, x
<1>8. Flushed(y, v) /\ (Len(c) > maxBlocks => Len(v.blocks) < Len(c))
  BY <1>7, TypesAre, TrimIs DEF Begun
<1> HIDE DEF v, w
<1>9. Len(v.blocks) \in Nat
  BY <1>8, EntryTypes DEF Flushed, Sound, WorkSet
<1>10. CASE v.err
  <2>1. Finish(v) /\ UNCHANGED have
    BY <1>6, <1>10
  <2>2. Ended(c)
    BY <1>7, <1>8, <2>1, EndIs
  <2>3. Len(c) > maxBlocks => Len(blocks') < Len(c)
    BY <1>8, <2>1 DEF Finish
  <2> QED
    BY <1>2, <1>3, <2>1, <2>2, <2>3 DEF Arrived, c
<1>11. CASE ~v.err
  <2>1. GotBlock(v, t, b)
    BY <1>6, <1>11
  <2>2. /\ Ended(c) /\ Len(blocks') <= Len(v.blocks)
        /\ Incomplete(t, b) \/ Rejected(t, b) \/ Completed(t, b)
    BY <1>7, <1>8, <2>1, GotBlockIs
  <2>3. Len(blocks') \in Nat
    BY <2>2, EntryTypes DEF Ended
  <2>4. Len(c) > maxBlocks => Len(blocks') < Len(c)
    BY <1>4, <1>8, <1>9, <2>2, <2>3
  <2> QED
    BY <1>2, <1>3, <2>2, <2>4 DEF Arrived, c
<1> QED
  BY <1>10, <1>11

LEMMA WebseedBlockIs ==
  ASSUME TypeOK, NEW t \in Torrents, NEW b \in Blocks(t), NEW good \in BOOLEAN, WebseedBlock(t, b, good)
  PROVE  Arrived(t, b, good, Inserted(blocks, <<t, b>>, good))
<1> DEFINE c == Inserted(blocks, <<t, b>>, good)
           x(p) == [Work(p) EXCEPT !.blocks = c]
<1>1. PICK plan \in FaultPlans(c), runs \in calcRuns(c) : GotBlock(cacheTrim(x(plan), runs, maxBlocks), t, b)
  BY DEF WebseedBlock
<1>2. HasEntry(blocks, [key |-> <<t, b>>, good |-> good], c)
  BY KeyIs, TypesAre, InsertedIs
<1>3. t \notin freed /\ UNCHANGED <<maxBlocks, freed>>
  BY DEF WebseedBlock
<1>4. c \in Seq(Entries) /\ Sorted(c) /\ Len(c) \in Nat
  BY <1>2, EntryTypes DEF HasEntry
<1> HIDE DEF c
<1>5. Begun(c, x(plan))
  BY <1>4, InsertionBegins
<1> DEFINE y == x(plan)
           v == cacheTrim(y, runs, maxBlocks)
<1>6. GotBlock(v, t, b) /\ Begun(c, y)
  BY <1>1, <1>5
<1> HIDE DEF y, x
<1>7. Flushed(y, v) /\ (Len(c) > maxBlocks => Len(v.blocks) < Len(c))
  BY <1>6, TypesAre, TrimIs DEF Begun
<1> HIDE DEF v
<1>8. Len(v.blocks) \in Nat
  BY <1>7, EntryTypes DEF Flushed, Sound, WorkSet
<1>9. /\ Ended(c) /\ Len(blocks') <= Len(v.blocks)
      /\ Incomplete(t, b) \/ Rejected(t, b) \/ Completed(t, b)
  BY <1>6, <1>7, GotBlockIs
<1>10. Len(blocks') \in Nat
  BY <1>9, EntryTypes DEF Ended
<1>11. Len(c) > maxBlocks => Len(blocks') < Len(c)
  BY <1>4, <1>7, <1>8, <1>9, <1>10, TypesAre
<1> QED
  BY <1>2, <1>3, <1>9, <1>11 DEF Arrived, c


-----------------------------------------------------------------------------
(* What is claimed stays true.                                              *)

LEMMA PieceIsMonotone ==
  ASSUME NEW p \in Nat, NEW q \in Nat, p <= q
  PROVE  PieceOf(p) <= PieceOf(q) /\ PieceOf(p) \in Nat
<1> DEFINE n == BlocksInPiece
           x == p \div n
           y == q \div n
<1>1. n \in Nat \ {0}
  BY CacheAssumption
<1> HIDE DEF n
<1>2. x \in Nat /\ n * x <= p /\ p < n * x + n
  BY <1>1, Z3
<1>3. y \in Nat /\ n * y <= q /\ q < n * y + n
  BY <1>1, Z3
<1> HIDE DEF x, y
<1>4. ~(y + 1 <= x)
  <2> SUFFICES ASSUME y + 1 <= x
               PROVE  FALSE
    OBVIOUS
  <2>1. n * (y + 1) <= n * x
    BY <1>1, <1>2, <1>3, Z3
  <2>2. n * (y + 1) = n * y + n
    BY <1>1, <1>3, Z3
  <2>3. n * x \in Int /\ n * y \in Int
    BY <1>1, <1>2, <1>3
  <2> QED
    BY <1>1, <1>2, <1>3, <2>1, <2>2, <2>3
<1> QED
  BY <1>2, <1>3, <1>4 DEF PieceOf, x, y, n

\* Of a piece that is claimed the array c has what was read before.
Keeps(c) ==
  \A k \in Keys : PieceIsComplete(have, k[1], PieceOf(k[2])) /\ ContentIn(blocks, disk, k)
                    => ContentIn(c, disk, k)

LEMMA ClaimsAreKept ==
  ASSUME FinishedDataIsSafe, ~Dangling, ~MayWriteShort, NEW c, Ended(c), Keeps(c)
  PROVE  /\ \A t \in Torrents \ (Failed' \cup freed) : \A a \in Blocks(t) :
              PieceIsComplete(have, t, PieceOf(a)) => ContentIn(blocks', disk', <<t, a>>)
         /\ \A t \in Torrents \ Failed' : \A f \in Files[t] :
              (\A a \in f[1] .. f[2] : PieceIsComplete(have, t, PieceOf(a)))
                => \A a \in f[1] .. f[2] : disk'[<<t, a>>]
<1>1. /\ blocks \in Seq(Entries) /\ Sorted(blocks)
      /\ Failed \subseteq Failed' /\ localError' \subseteq Failed'
      /\ disk \in [Keys -> BOOLEAN]
  BY TypesAre DEF FinishedDataIsSafe, Ended, Failed
<1>2. ASSUME NEW t \in Torrents \ (Failed' \cup freed), NEW a \in Blocks(t), PieceIsComplete(have, t, PieceOf(a))
      PROVE  ContentIn(blocks, disk, <<t, a>>)
  <2>1. PieceOf(a) \in Pieces(t) /\ a \in PieceBlocks(t, PieceOf(a))
    BY DEF Pieces, PieceBlocks
  <2>2. t \in Torrents \ (Failed \cup freed)
    BY <1>1
  <2>3. content[<<t, a>>]
    BY <1>2, <2>1, <2>2 DEF FinishedDataIsSafe, CompletePiecesAreGood
  <2> QED
    BY <2>3, KeyIs DEF content
<1>3. ASSUME NEW t \in Torrents \ (Failed' \cup freed), NEW a \in Blocks(t), PieceIsComplete(have, t, PieceOf(a))
      PROVE  ContentIn(blocks', disk', <<t, a>>)
  <2>1. ContentIn(blocks, disk, <<t, a>>)
    BY <1>2, <1>3
  <2>2. <<t, a>> \in Keys /\ <<t, a>>[1] = t /\ <<t, a>>[2] = a
    BY KeyIs
  <2>3. ContentIn(c, disk, <<t, a>>)
    BY <1>3, <2>1, <2>2 DEF Keeps
  <2>4. t \notin localError'
    BY <1>1
  <2> QED
    BY <2>2, <2>3, <2>4 DEF Ended
<1>4. ASSUME NEW t \in Torrents \ Failed', NEW f \in Files[t],
             \A a \in f[1] .. f[2] : PieceIsComplete(have, t, PieceOf(a)), NEW a \in f[1] .. f[2]
      PROVE  disk'[<<t, a>>]
  <2>1. t \in Torrents \ Failed
    BY <1>1
  <2>2. disk[<<t, a>>]
    BY <1>4, <2>1 DEF FinishedDataIsSafe, CompleteFilesAreOnDisk
  <2>3. a \in Blocks(t)
    <3>1. f[1] \in Blocks(t) /\ f[2] \in Blocks(t) /\ BlockCount[t] \in Nat
      BY CacheAssumption
    <3> QED
      BY <3>1 DEF Blocks
  <2>4. <<t, a>> \in Keys /\ <<t, a>>[1] = t /\ <<t, a>>[2] = a
    BY <2>3, KeyIs
  <2>5. PieceIsComplete(have, t, PieceOf(a))
    BY <1>4
  <2>6. ContentIn(blocks, disk, <<t, a>>)
    <3>1. CASE t \notin freed
      BY <1>2, <2>3, <2>5, <3>1
    <3>2. CASE t \in freed
      <4>1. \A n \in DOMAIN blocks : blocks[n].key # <<t, a>>
        <5>1. \A n \in DOMAIN blocks : blocks[n].key[1] \notin freed
          BY DEF Dangling
        <5> QED
          BY <2>4, <3>2, <5>1
      <4>2. blocks \in Seq(Entries) /\ Sorted(blocks)
        BY <1>1
      <4>3. ContentIn(blocks, disk, <<t, a>>) = disk[<<t, a>>]
        BY <4>1, <4>2, ContentIs
      <4> QED
        BY <2>2, <4>3
    <3> QED
      BY <3>1, <3>2
  <2>7. ContentIn(c, disk, <<t, a>>)
    BY <2>4, <2>5, <2>6 DEF Keeps
  <2>8. t \notin localError'
    BY <1>1
  <2> QED
    BY <2>2, <2>4, <2>7, <2>8 DEF Ended
<1> QED
  BY <1>3, <1>4

LEMMA EndTypes ==
  ASSUME TypeOK, NEW c, Ended(c), maxBlocks' \in Limits, freed' \subseteq Torrents,
         DOMAIN have' = Torrents, \A t \in Torrents : have'[t] \subseteq Blocks(t)
  PROVE  TypeOK'
BY DEF Ended, TypeOK, Entries, Sorted

\* A flush claims nothing new.
LEMMA FlushIsSafe ==
  ASSUME FinishedDataIsSafe, ~Dangling, ~MayWriteShort, Ended(blocks), have' = have, freed \subseteq freed',
         \A t \in freed' \ freed : t \in localError' \/ \A n \in DOMAIN blocks' : blocks'[n].key[1] # t
  PROVE  CompletePiecesAreGood' /\ CompleteFilesAreOnDisk' /\ FlushedWhenFreed'
<1>1. Keeps(blocks)
  BY DEF Keeps
<1>2. CompletePiecesAreGood'
  <2> SUFFICES ASSUME NEW t \in Torrents \ (Failed' \cup freed'), NEW i \in Pieces(t),
                      PieceIsComplete(have, t, i), NEW b \in PieceBlocks(t, i)
               PROVE  content'[<<t, b>>]
    BY DEF CompletePiecesAreGood
  <2>1. b \in Blocks(t) /\ PieceOf(b) = i /\ <<t, b>> \in Keys /\ t \notin freed
    BY KeyIs DEF PieceBlocks
  <2>2. ContentIn(blocks', disk', <<t, b>>)
    BY <1>1, <2>1, ClaimsAreKept
  <2> QED
    BY <2>1, <2>2 DEF content
<1>3. CompleteFilesAreOnDisk'
  BY <1>1, ClaimsAreKept DEF CompleteFilesAreOnDisk
<1>4. FlushedWhenFreed'
  <2> SUFFICES ASSUME NEW n \in DOMAIN blocks', blocks'[n].key[1] \in freed'
               PROVE  blocks'[n].key[1] \in localError'
    BY DEF FlushedWhenFreed
  <2>1. PICK m \in DOMAIN blocks : blocks'[n] = blocks[m]
    BY DEF Ended
  <2>2. blocks[m].key[1] \notin freed
    BY DEF Dangling
  <2> QED
    BY <2>1, <2>2
<1> QED
  BY <1>2, <1>3, <1>4

\* A piece that is claimed was claimed before, or it is the one that has come in.
LEMMA ClaimIsOldOrNew ==
  ASSUME TypeOK, NEW t \in Torrents, NEW b \in Blocks(t),
         have' = have \/ Incomplete(t, b) \/ Rejected(t, b) \/ Completed(t, b)
  PROVE  /\ DOMAIN have' = Torrents /\ \A u \in Torrents : have'[u] \subseteq Blocks(u)
         /\ \A u \in Torrents : \A i : PieceIsComplete(have', u, i) =>
              PieceIsComplete(have, u, i) \/ (Completed(t, b) /\ u = t /\ i = PieceOf(b))
<1>1. DOMAIN have = Torrents /\ \A u \in Torrents : have[u] \subseteq Blocks(u)
  BY TypesAre
<1>2. CASE have' = have
  BY <1>1, <1>2
<1>3. CASE Rejected(t, b)
  <2>1. DOMAIN have' = Torrents /\ \A u \in Torrents : have'[u] \subseteq have[u]
    BY <1>1, <1>3 DEF Rejected
  <2> QED
    BY <1>1, <2>1 DEF PieceIsComplete
<1>4. CASE Incomplete(t, b) \/ Completed(t, b)
  <2>1. have' = Now(t, b)
    BY <1>4 DEF Incomplete, Completed
  <2>2. DOMAIN have' = Torrents /\ \A u \in Torrents : have'[u] = IF u = t THEN have[t] \cup {b} ELSE have[u]
    BY <1>1, <2>1 DEF Now
  <2>3. ASSUME NEW u \in Torrents, NEW i, PieceIsComplete(have', u, i), ~PieceIsComplete(have, u, i)
        PROVE  Completed(t, b) /\ u = t /\ i = PieceOf(b)
    <3>1. PICK a \in PieceBlocks(u, i) : a \notin have[u]
      BY <2>3 DEF PieceIsComplete
    <3>2. a \in have'[u]
      BY <2>3, <3>1 DEF PieceIsComplete
    <3>3. u = t /\ a = b
      BY <2>2, <3>1, <3>2
    <3>4. i = PieceOf(b)
      BY <3>1, <3>3 DEF PieceBlocks
    <3>5. ~Incomplete(t, b)
      BY <2>1, <2>3, <3>1, <3>3, <3>4 DEF Incomplete
    <3> QED
      BY <1>4, <3>3, <3>4, <3>5
  <2> QED
    BY <1>1, <2>2, <2>3
<1> QED
  BY <1>2, <1>3, <1>4

LEMMA ArrivalIsSafe ==
  ASSUME FinishedDataIsSafe, ~Dangling, ~MayWriteShort, NEW t \in Torrents, NEW b \in Blocks(t), NEW good \in BOOLEAN,
         NEW c, Arrived(t, b, good, c), b \in have[t] => good
  PROVE  CompletePiecesAreGood' /\ CompleteFilesAreOnDisk' /\ FlushedWhenFreed'
<1>1. TypeOK /\ blocks \in Seq(Entries) /\ Sorted(blocks) /\ freed' = freed /\ t \notin freed /\ Ended(c)
      /\ localError' \subseteq Failed'
  BY TypesAre DEF FinishedDataIsSafe, Arrived, Failed
<1>2. /\ <<t, b>> \in Keys
      /\ \A k \in Keys : ContentIn(c, disk, k) = IF k = <<t, b>> THEN good ELSE ContentIn(blocks, disk, k)
  BY <1>1, KeyIs, EntryIsRead DEF Arrived
<1>3. Keeps(c)
  <2> SUFFICES ASSUME NEW k \in Keys, PieceIsComplete(have, k[1], PieceOf(k[2])), ContentIn(blocks, disk, k)
               PROVE  ContentIn(c, disk, k)
    BY DEF Keeps
  <2>1. CASE k # <<t, b>>
    BY <1>2, <2>1
  <2>2. CASE k = <<t, b>>
    <3>1. b \in PieceBlocks(t, PieceOf(b)) /\ k[1] = t /\ k[2] = b
      BY <2>2 DEF PieceBlocks
    <3>2. b \in have[t]
      BY <3>1 DEF PieceIsComplete
    <3> QED
      BY <1>2, <2>2, <3>2
  <2> QED
    BY <2>1, <2>2
<1>4. \A u \in Torrents : \A i : PieceIsComplete(have', u, i) =>
        PieceIsComplete(have, u, i) \/ (Completed(t, b) /\ u = t /\ i = PieceOf(b))
  BY <1>1, ClaimIsOldOrNew DEF Arrived
<1>5. ASSUME NEW u \in Torrents \ (Failed' \cup freed), NEW a \in Blocks(u), PieceIsComplete(have', u, PieceOf(a))
      PROVE  ContentIn(blocks', disk', <<u, a>>)
  <2>1. CASE PieceIsComplete(have, u, PieceOf(a))
    BY <1>1, <1>3, <2>1, ClaimsAreKept
  <2>2. CASE Completed(t, b) /\ u = t /\ PieceOf(a) = PieceOf(b)
    <3>1. IsGood(t, PieceOf(b)) /\ a \in PieceBlocks(t, PieceOf(b))
      BY <1>1, <1>5, <2>2 DEF Completed, PieceBlocks
    <3> QED
      BY <2>2, <3>1 DEF IsGood
  <2> QED
    BY <1>4, <1>5, <2>1, <2>2
<1>6. CompletePiecesAreGood'
  <2> SUFFICES ASSUME NEW u \in Torrents \ (Failed' \cup freed'), NEW i \in Pieces(u),
                      PieceIsComplete(have', u, i), NEW a \in PieceBlocks(u, i)
               PROVE  content'[<<u, a>>]
    BY DEF CompletePiecesAreGood
  <2>1. a \in Blocks(u) /\ PieceOf(a) = i /\ <<u, a>> \in Keys /\ u \notin freed
    BY <1>1, KeyIs DEF PieceBlocks
  <2>2. ContentIn(blocks', disk', <<u, a>>)
    BY <1>5, <2>1
  <2> QED
    BY <2>1, <2>2 DEF content
<1>7. CompleteFilesAreOnDisk'
  <2> SUFFICES ASSUME NEW u \in Torrents \ Failed', NEW f \in Files[u],
                      \A a \in f[1] .. f[2] : PieceIsComplete(have', u, PieceOf(a)), NEW a0 \in f[1] .. f[2]
               PROVE  disk'[<<u, a0>>]
    BY DEF CompleteFilesAreOnDisk
  <2>1. CASE \A a \in f[1] .. f[2] : PieceIsComplete(have, u, PieceOf(a))
    BY <1>1, <1>3, <2>1, ClaimsAreKept
  <2>2. CASE ~(\A a \in f[1] .. f[2] : PieceIsComplete(have, u, PieceOf(a)))
    <3>1. PICK a1 \in f[1] .. f[2] : ~PieceIsComplete(have, u, PieceOf(a1))
      BY <2>2
    <3>2. Completed(t, b) /\ u = t /\ PieceOf(a1) = PieceOf(b)
      BY <1>4, <3>1
    <3>3. f[1] \in Nat /\ f[2] \in Nat /\ \A a \in f[1] .. f[2] : a \in Blocks(u) /\ a \in Nat
      <4>1. f[1] \in Blocks(u) /\ f[2] \in Blocks(u) /\ BlockCount[u] \in Nat
        BY CacheAssumption
      <4> QED
        BY <4>1 DEF Blocks
    <3>4. Touches(f, PieceOf(b))
      <4>1. f[1] <= a1 /\ a1 <= f[2] /\ a1 \in Nat
        BY <3>1, <3>3
      <4>2. PieceOf(f[1]) <= PieceOf(a1) /\ PieceOf(a1) <= PieceOf(f[2])
        BY <3>3, <4>1, PieceIsMonotone
      <4> QED
        BY <3>2, <4>2 DEF Touches
    <3>5. f[1] .. f[2] \subseteq Now(t, b)[t]
      <4>1. have' = Now(t, b)
        BY <3>2 DEF Completed
      <4>2. ASSUME NEW a \in f[1] .. f[2]
            PROVE  a \in have'[t]
        <5>1. a \in PieceBlocks(u, PieceOf(a)) /\ PieceIsComplete(have', u, PieceOf(a))
          BY <3>3 DEF PieceBlocks
        <5> QED
          BY <3>2, <5>1 DEF PieceIsComplete
      <4> QED
        BY <4>1, <4>2
    <3>6. OnDisk(t, f)
      BY <1>1, <3>2, <3>4, <3>5 DEF Completed
    <3>7. ContentIn(blocks', disk', <<u, a0>>)
      BY <1>1, <1>5, <3>2, <3>3
    <3> QED
      BY <3>2, <3>6, <3>7 DEF OnDisk
  <2> QED
    BY <2>1, <2>2
<1>8. FlushedWhenFreed'
  <2> SUFFICES ASSUME NEW n \in DOMAIN blocks', blocks'[n].key[1] \in freed
               PROVE  FALSE
    BY <1>1 DEF FlushedWhenFreed
  <2>1. PICK m \in DOMAIN c : blocks'[n] = c[m]
    BY <1>1 DEF Ended
  <2> DEFINE new == [key |-> <<t, b>>, good |-> good]
  <2>2. new.key[1] = t
    OBVIOUS
  <2> HIDE DEF new
  <2>3. c[m] = new \/ \E l \in DOMAIN blocks : c[m] = blocks[l]
    BY DEF Arrived, HasEntry, new
  <2> QED
    BY <1>1, <2>1, <2>2, <2>3 DEF Dangling
<1> QED
  BY <1>6, <1>7, <1>8


-----------------------------------------------------------------------------
(* The theorems.                                                            *)

LEMMA NextTypes ==
  ASSUME TypeOK, [Next]_vars
  PROVE  TypeOK'
<1>0. maxBlocks \in Limits /\ freed \subseteq Torrents /\ DOMAIN have = Torrents /\ \A t \in Torrents : have[t] \subseteq Blocks(t)
  BY DEF TypeOK
<1>1. CASE UNCHANGED vars
  BY <1>1 DEF vars, TypeOK
<1>2. ASSUME NEW t \in Torrents, NEW b \in Blocks(t), NEW good, NEW c, Arrived(t, b, good, c)
      PROVE  TypeOK'
  <2>1. have' = have \/ Incomplete(t, b) \/ Rejected(t, b) \/ Completed(t, b)
    BY <1>2 DEF Arrived
  <2>2. DOMAIN have' = Torrents /\ \A u \in Torrents : have'[u] \subseteq Blocks(u)
    BY <2>1, ClaimIsOldOrNew
  <2>3. Ended(c) /\ maxBlocks' \in Limits /\ freed' \subseteq Torrents
    BY <1>0, <1>2 DEF Arrived
  <2> QED
    BY <2>2, <2>3, EndTypes
<1>3. CASE Next
  <2>1. ASSUME NEW k \in Keys, NEW good \in BOOLEAN, PeerBlock(k[1], k[2], good)
        PROVE  TypeOK'
    <3>1. k[1] \in Torrents /\ k[2] \in Blocks(k[1])
      BY KeyTypes
    <3>2. Arrived(k[1], k[2], good, Inserted(blocks, <<k[1], k[2]>>, good))
      BY <2>1, <3>1, PeerBlockIs
    <3> QED
      BY <1>2, <3>1, <3>2
  <2>2. ASSUME NEW k \in Keys, NEW good \in WebseedData, WebseedBlock(k[1], k[2], good)
        PROVE  TypeOK'
    <3>1. k[1] \in Torrents /\ k[2] \in Blocks(k[1]) /\ good \in BOOLEAN
      BY KeyTypes, CacheAssumption
    <3>2. Arrived(k[1], k[2], good, Inserted(blocks, <<k[1], k[2]>>, good))
      BY <2>2, <3>1, WebseedBlockIs
    <3> QED
      BY <1>2, <3>1, <3>2
  <2>3. ASSUME NEW n \in Limits, SetLimit(n)
        PROVE  TypeOK'
    <3>1. Ended(blocks) /\ maxBlocks' = n /\ UNCHANGED <<have, freed>>
      BY <2>3, SetLimitIs
    <3> QED
      BY <1>0, <3>1, EndTypes
  <2>4. ASSUME NEW t \in Torrents, stopTorrent(t), UNCHANGED freed \/ freed' = freed \cup {t}
        PROVE  TypeOK'
    <3>1. Ended(blocks) /\ UNCHANGED <<maxBlocks, have>>
      BY <2>4, StopIs
    <3>2. freed' \subseteq Torrents
      BY <1>0, <2>4
    <3> QED
      BY <1>0, <3>1, <3>2, EndTypes
  <2>5. ASSUME SaveTimer
        PROVE  TypeOK'
    <3>1. Ended(blocks) /\ UNCHANGED <<maxBlocks, have, freed>>
      BY <2>5, SaveTimerIs
    <3> QED
      BY <1>0, <3>1, EndTypes
  <2>6. ASSUME NEW t \in Torrents, Start(t)
        PROVE  TypeOK'
    BY <2>6 DEF Start, TypeOK
  <2> QED
    BY <1>3, <2>1, <2>2, <2>3, <2>4, <2>5, <2>6 DEF Next, Stop, Close
<1> QED
  BY <1>1, <1>3

LEMMA InitTypes ==
  ASSUME Init
  PROVE  TypeOK
<1>1. DOMAIN blocks = {} /\ blocks \in Seq([key : Keys, good : BOOLEAN])
  BY DEF Init
<1>2. disk \in [Keys -> BOOLEAN] /\ DOMAIN have = Torrents /\ \A t \in Torrents : have[t] \subseteq Blocks(t)
  BY DEF Init
<1> QED
  BY <1>1, <1>2 DEF Init, TypeOK

\* The types are right, and the array of the cache stays sorted, which its binary searches need.
THEOREM CacheStaysSorted == Spec => []TypeOK
<1> QED
  BY InitTypes, NextTypes, PTL DEF Spec

\* A start moves the torrent from the marked ones to the forgiven ones, and touches no data.
LEMMA StartIsSafe ==
  ASSUME FinishedDataIsSafe, NEW t \in Torrents, Start(t)
  PROVE  CompletePiecesAreGood' /\ CompleteFilesAreOnDisk' /\ FlushedWhenFreed'
<1>1. /\ t \notin freed /\ localError' = localError \ {t}
      /\ blocks' = blocks /\ disk' = disk /\ have' = have /\ freed' = freed
  BY DEF Start
<1>2. Failed' = Failed
  BY DEF Start, Failed
<1>3. content' = content
  BY <1>1 DEF content
<1>4. CompletePiecesAreGood'
  BY <1>1, <1>2, <1>3 DEF FinishedDataIsSafe, CompletePiecesAreGood
<1>5. CompleteFilesAreOnDisk'
  BY <1>1, <1>2 DEF FinishedDataIsSafe, CompleteFilesAreOnDisk
<1>6. FlushedWhenFreed'
  BY <1>1 DEF FinishedDataIsSafe, FlushedWhenFreed
<1> QED
  BY <1>4, <1>5, <1>6

\* If no write is cut short without an error and webseeds deliver what the metainfo asks for, a torrent
\* whose writes have not failed has the data of every piece that it claims, and its complete files are
\* on the disk; one whose writes have failed is marked, or it was until a start took the mark away.
THEOREM DataStaysSafe ==
  ASSUME ~MayWriteShort, WebseedData \subseteq {TRUE}
  PROVE  Spec => []FinishedDataIsSafe
<1>1. ASSUME Init
      PROVE  FinishedDataIsSafe
  <2>1. TypeOK /\ DOMAIN blocks = {}
    BY <1>1, InitTypes DEF Init
  <2>2. ASSUME NEW t \in Torrents, NEW b \in Blocks(t)
        PROVE  ~PieceIsComplete(have, t, PieceOf(b))
    <3>1. b \in PieceBlocks(t, PieceOf(b)) /\ have[t] = {}
      BY <1>1 DEF PieceBlocks, Init
    <3> QED
      BY <3>1 DEF PieceIsComplete
  <2>3. CompletePiecesAreGood
    <3> SUFFICES ASSUME NEW t \in Torrents, NEW i \in Pieces(t), PieceIsComplete(have, t, i)
                 PROVE  FALSE
      BY DEF CompletePiecesAreGood
    <3> QED
      BY <2>2 DEF Pieces
  <2>4. CompleteFilesAreOnDisk
    <3> SUFFICES ASSUME NEW t \in Torrents, NEW f \in Files[t], NEW b \in f[1] .. f[2],
                        PieceIsComplete(have, t, PieceOf(b))
                 PROVE  FALSE
      BY DEF CompleteFilesAreOnDisk
    <3>1. f[1] \in Blocks(t) /\ f[2] \in Blocks(t) /\ BlockCount[t] \in Nat
      BY CacheAssumption
    <3>2. b \in Blocks(t)
      BY <3>1 DEF Blocks
    <3> QED
      BY <2>2, <3>2
  <2>5. FlushedWhenFreed
    BY <2>1 DEF FlushedWhenFreed
  <2> QED
    BY <2>1, <2>3, <2>4, <2>5 DEF FinishedDataIsSafe
<1>2. ASSUME FinishedDataIsSafe, Next
      PROVE  FinishedDataIsSafe'
  <2> DEFINE Safe == CompletePiecesAreGood' /\ CompleteFilesAreOnDisk' /\ FlushedWhenFreed'
  <2>0. TypeOK /\ ~Dangling
    BY <1>2 DEF FinishedDataIsSafe, Next
  <2>1. ASSUME NEW k \in Keys, NEW good \in BOOLEAN, PeerBlock(k[1], k[2], good)
        PROVE  Safe
    <3>1. k[1] \in Torrents /\ k[2] \in Blocks(k[1])
      BY KeyTypes
    <3>2. Arrived(k[1], k[2], good, Inserted(blocks, <<k[1], k[2]>>, good)) /\ k[2] \notin have[k[1]]
      BY <2>0, <2>1, <3>1, PeerBlockIs
    <3> QED
      BY <1>2, <2>0, <3>1, <3>2, ArrivalIsSafe
  <2>2. ASSUME NEW k \in Keys, NEW good \in WebseedData, WebseedBlock(k[1], k[2], good)
        PROVE  Safe
    <3>1. k[1] \in Torrents /\ k[2] \in Blocks(k[1]) /\ good \in BOOLEAN /\ good
      BY KeyTypes
    <3>2. Arrived(k[1], k[2], good, Inserted(blocks, <<k[1], k[2]>>, good))
      BY <2>0, <2>2, <3>1, WebseedBlockIs
    <3> QED
      BY <1>2, <2>0, <3>1, <3>2, ArrivalIsSafe
  <2>3. ASSUME NEW n \in Limits, SetLimit(n)
        PROVE  Safe
    <3>1. Ended(blocks) /\ UNCHANGED <<have, freed>>
      BY <2>0, <2>3, SetLimitIs
    <3> QED
      BY <1>2, <2>0, <3>1, FlushIsSafe
  <2>4. ASSUME NEW t \in Torrents, Stop(t) \/ Close(t)
        PROVE  Safe
    <3>1. stopTorrent(t) /\ (freed' = freed \/ freed' = freed \cup {t})
      BY <2>4 DEF Stop, Close
    <3>2. /\ Ended(blocks) /\ UNCHANGED <<maxBlocks, have>>
          /\ t \in localError' \/ \A n \in DOMAIN blocks' : blocks'[n].key[1] # t
      BY <2>0, <3>1, StopIs
    <3>3. freed \subseteq freed' /\ \A u \in freed' \ freed : u = t
      BY <3>1
    <3> QED
      BY <1>2, <2>0, <3>2, <3>3, FlushIsSafe
  <2>5. ASSUME SaveTimer
        PROVE  Safe
    <3>1. Ended(blocks) /\ UNCHANGED <<maxBlocks, have, freed>>
      BY <2>0, <2>5, SaveTimerIs
    <3> QED
      BY <1>2, <2>0, <3>1, FlushIsSafe
  <2>6. ASSUME NEW t \in Torrents, Start(t)
        PROVE  Safe
    BY <1>2, <2>6, StartIsSafe
  <2>7. Safe
    <3> HIDE DEF Safe
    <3> QED
      BY <1>2, <2>1, <2>2, <2>3, <2>4, <2>5, <2>6 DEF Next
  <2>8. TypeOK'
    BY <1>2, <2>0, NextTypes
  <2> QED
    BY <2>7, <2>8 DEF FinishedDataIsSafe
<1>3. ASSUME FinishedDataIsSafe, UNCHANGED vars
      PROVE  FinishedDataIsSafe'
  <2>1. TypeOK'
    BY <1>3, NextTypes DEF FinishedDataIsSafe
  <2>2. content' = content
    BY <1>3 DEF vars, content
  <2> QED
    BY <1>3, <2>1, <2>2 DEF vars, FinishedDataIsSafe, CompletePiecesAreGood, CompleteFilesAreOnDisk, FlushedWhenFreed, Failed
<1> QED
  BY <1>1, <1>2, <1>3, PTL DEF Spec


\* Every torrent has a block in the store.
LEMMA StoredTorrents == Torrents \subseteq Store!Torrents
<1> SUFFICES ASSUME NEW t \in Torrents
             PROVE  t \in Store!Torrents
  OBVIOUS
<1>1. 0 \in Blocks(t)
  BY CacheAssumption DEF Blocks
<1>2. <<t, 0>> \in Keys /\ <<t, 0>>[1] = t
  BY <1>1, KeyIs
<1> QED
  BY <1>2 DEF Store!Torrents

\* A step of the store: what is outside of W reads as before.
LEMMA EndIsStore ==
  ASSUME TypeOK, ~MayWriteShort, NEW c, Ended(c), NEW W,
         \A k \in Keys \ W : ContentIn(c, disk, k) = ContentIn(blocks, disk, k)
  PROVE  Store!KeepAllBut(W)
<1>1. /\ blocks' \in Seq(Entries) /\ Sorted(blocks') /\ disk' \in [Keys -> BOOLEAN]
      /\ localError \subseteq localError' /\ localError' \subseteq Torrents
  BY DEF Ended
<1>2. content' = [k \in Keys |-> ContentIn(blocks', disk', k)]
  BY DEF content
<1>3. content' \in [Keys -> BOOLEAN]
  BY <1>1, <1>2, ContentTypes
<1>4. \A k \in Keys \ W : k[1] \notin localError' => content'[k] = content[k]
  BY <1>2 DEF content, Ended
<1>5. localError' \subseteq Store!Torrents
  BY <1>1, StoredTorrents
<1> QED
  BY <1>1, <1>3, <1>4, <1>5 DEF Store!KeepAllBut

\* The cache and the disk implement the store of blocks, if no write is cut short without an error.
THEOREM CacheIsStore ==
  ASSUME ~MayWriteShort
  PROVE  Spec => IsStore
<1>1. ASSUME Init
      PROVE  Store!Init
  <2>1. \A d, k : ContentIn(<<>>, d, k) = d[k]
    BY DEF ContentIn, InCache
  <2>2. content = [k \in Keys |-> FALSE]
    BY <1>1, <2>1 DEF content, Init
  <2> QED
    BY <1>1, <2>2 DEF Store!Init, Init
<1>2. ASSUME TypeOK, Next
      PROVE  Store!Next
  <2>1. ASSUME Ended(blocks)
        PROVE  Store!Next
    <3>1. Store!KeepAllBut({})
      BY <1>2, <2>1, EndIsStore
    <3> QED
      BY <3>1 DEF Store!Next, Store!Flush
  <2>2. ASSUME NEW k \in Keys, NEW good \in BOOLEAN, NEW c, Arrived(k[1], k[2], good, c)
        PROVE  Store!Next
    <3>1. k = <<k[1], k[2]>> /\ HasEntry(blocks, [key |-> k, good |-> good], c) /\ Ended(c)
      BY <2>2, KeyTypes DEF Arrived
    <3>2. \A l \in Keys : ContentIn(c, disk, l) = IF l = k THEN good ELSE ContentIn(blocks, disk, l)
      BY <1>2, <3>1, TypesAre, EntryIsRead
    <3>3. Store!KeepAllBut({k})
      BY <1>2, <3>1, <3>2, EndIsStore
    <3>4. k[1] \notin localError' => content'[k] = good
      BY <3>1, <3>2 DEF Ended, content
    <3>5. Store!Write(k, good)
      BY <3>3, <3>4 DEF Store!Write
    <3> QED
      BY <3>5 DEF Store!Next
  <2>3. ASSUME NEW k \in Keys, NEW good \in BOOLEAN, PeerBlock(k[1], k[2], good)
        PROVE  Store!Next
    <3>1. k[1] \in Torrents /\ k[2] \in Blocks(k[1])
      BY KeyTypes
    <3>2. Arrived(k[1], k[2], good, Inserted(blocks, <<k[1], k[2]>>, good))
      BY <1>2, <2>3, <3>1, PeerBlockIs
    <3> QED
      BY <2>2, <3>2
  <2>4. ASSUME NEW k \in Keys, NEW good \in WebseedData, WebseedBlock(k[1], k[2], good)
        PROVE  Store!Next
    <3>1. k[1] \in Torrents /\ k[2] \in Blocks(k[1]) /\ good \in BOOLEAN
      BY KeyTypes, CacheAssumption
    <3>2. Arrived(k[1], k[2], good, Inserted(blocks, <<k[1], k[2]>>, good))
      BY <1>2, <2>4, <3>1, WebseedBlockIs
    <3> QED
      BY <2>2, <3>1, <3>2
  <2>5. ASSUME NEW n \in Limits, SetLimit(n)
        PROVE  Store!Next
    BY <1>2, <2>1, <2>5, SetLimitIs
  <2>6. ASSUME NEW t \in Torrents, Stop(t) \/ Close(t)
        PROVE  Store!Next
    BY <1>2, <2>1, <2>6, StopIs DEF Stop, Close
  <2>7. ASSUME SaveTimer
        PROVE  Store!Next
    BY <1>2, <2>1, <2>7, SaveTimerIs
  <2>8. ASSUME NEW t \in Torrents, Start(t)
        PROVE  Store!Next
    <3>1. localError' = localError \ {t} /\ content' = content
      BY <2>8 DEF Start, content
    <3>2. t \in Store!Torrents
      BY StoredTorrents
    <3>3. Store!Start(t)
      BY <3>1 DEF Store!Start
    <3> QED
      BY <3>2, <3>3 DEF Store!Next
  <2> QED
    BY <1>2, <2>3, <2>4, <2>5, <2>6, <2>7, <2>8 DEF Next
<1>3. ASSUME UNCHANGED vars
      PROVE  UNCHANGED Store!vars
  BY <1>3 DEF vars, Store!vars, content
<1>4. TypeOK /\ [Next]_vars => [Store!Next]_(Store!vars)
  BY <1>2, <1>3
<1>5. Init => Store!Init
  BY <1>1
<1>6. Spec => []TypeOK
  BY CacheStaysSorted
<1> QED
  BY <1>4, <1>5, <1>6, PTL DEF Spec, IsStore, Store!Spec

LEMMA MaxIs ==
  ASSUME NEW m \in Nat, NEW n \in Nat, NEW x \in Nat, x <= m \/ x <= n
  PROVE  x <= Max({m, n})
<1>1. \E y \in {m, n} : \A z \in {m, n} : y >= z
  OBVIOUS
<1>2. Max({m, n}) \in {m, n} /\ \A z \in {m, n} : Max({m, n}) >= z
  BY <1>1 DEF Max
<1> DEFINE y == Max({m, n})
<1>3. y \in Nat /\ y >= m /\ y >= n
  BY <1>2
<1> HIDE DEF y
<1>4. x <= y
  BY <1>3
<1> QED
  BY <1>4 DEF y

\* No step leaves the cache over its limit and longer than before, also if writes fail.
THEOREM LimitStaysKept == Spec => LimitIsKept
<1> DEFINE Kept == Len(blocks') <= Max({maxBlocks', Len(blocks)})
<1>1. ASSUME TypeOK, Next
      PROVE  Kept
  <2>0. TypeOK' /\ maxBlocks \in Nat /\ maxBlocks' \in Nat /\ Len(blocks) \in Nat /\ Len(blocks') \in Nat
    <3>1. TypeOK'
      BY <1>1, NextTypes
    <3>2. maxBlocks' \in Nat
      BY <3>1, CacheAssumption DEF TypeOK
    <3>3. blocks' \in Seq([key : Keys, good : BOOLEAN])
      BY <3>1 DEF TypeOK
    <3> QED
      BY <1>1, <3>1, <3>2, <3>3, TypesAre, LenProperties
  <2>1. ASSUME Ended(blocks)
        PROVE  Kept
    BY <2>0, <2>1, MaxIs DEF Ended
  <2>2. ASSUME NEW k \in Keys, NEW good \in BOOLEAN, NEW c, Arrived(k[1], k[2], good, c)
        PROVE  Kept
    <3>1. c \in Seq(Entries) /\ Len(c) <= Len(blocks) + 1 /\ Len(blocks') <= Len(c) /\ maxBlocks' = maxBlocks
      BY <2>2 DEF Arrived, HasEntry, Ended
    <3>2. Len(c) > maxBlocks => Len(blocks') < Len(c)
      BY <2>2 DEF Arrived
    <3>3. Len(c) \in Nat
      BY <3>1, EntryTypes
    <3>4. Len(blocks') <= maxBlocks' \/ Len(blocks') <= Len(blocks)
      BY <2>0, <3>1, <3>2, <3>3
    <3> QED
      BY <2>0, <3>4, MaxIs
  <2>3. ASSUME NEW k \in Keys, NEW good \in BOOLEAN, PeerBlock(k[1], k[2], good)
        PROVE  Kept
    <3>1. k[1] \in Torrents /\ k[2] \in Blocks(k[1])
      BY KeyTypes
    <3>2. Arrived(k[1], k[2], good, Inserted(blocks, <<k[1], k[2]>>, good))
      BY <1>1, <2>3, <3>1, PeerBlockIs
    <3> QED
      BY <2>2, <3>2
  <2>4. ASSUME NEW k \in Keys, NEW good \in WebseedData, WebseedBlock(k[1], k[2], good)
        PROVE  Kept
    <3>1. k[1] \in Torrents /\ k[2] \in Blocks(k[1]) /\ good \in BOOLEAN
      BY KeyTypes, CacheAssumption
    <3>2. Arrived(k[1], k[2], good, Inserted(blocks, <<k[1], k[2]>>, good))
      BY <1>1, <2>4, <3>1, WebseedBlockIs
    <3> QED
      BY <2>2, <3>1, <3>2
  <2>5. ASSUME NEW n \in Limits, SetLimit(n)
        PROVE  Kept
    BY <1>1, <2>1, <2>5, SetLimitIs
  <2>6. ASSUME NEW t \in Torrents, Stop(t) \/ Close(t)
        PROVE  Kept
    BY <1>1, <2>1, <2>6, StopIs DEF Stop, Close
  <2>7. ASSUME SaveTimer
        PROVE  Kept
    BY <1>1, <2>1, <2>7, SaveTimerIs
  <2>8. ASSUME NEW t \in Torrents, Start(t)
        PROVE  Kept
    BY <2>0, <2>8, MaxIs DEF Start
  <2> HIDE DEF Kept
  <2> QED
    BY <1>1, <2>3, <2>4, <2>5, <2>6, <2>7, <2>8 DEF Next
<1>2. TypeOK /\ [Next]_vars => [Kept \/ blocks' = <<>>]_vars
  BY <1>1
<1> QED
  BY <1>2, CacheStaysSorted, PTL DEF Spec, LimitIsKept
=============================================================================
