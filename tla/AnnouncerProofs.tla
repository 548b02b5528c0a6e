---------------------------- MODULE AnnouncerProofs ----------------------------
(***************************************************************************)
(* Proofs about Announcer, for any tiers, trackers, slots and commands.    *)
(*                                                                         *)
(* A tracker must not miss that the torrent is complete, nor that it was   *)
(* stopped, whatever fails and in whatever order the answers come.         *)
(***************************************************************************)
EXTENDS Announcer, SequenceLemmas

-----------------------------------------------------------------------------
(* The inductive invariant. *)

Tier == [events : Seq(Events), announceAt : Times, scrapeAt : Times, isAnnouncing : BOOLEAN,
         isScraping : BOOLEAN, isRunning : BOOLEAN, tracker : Nat, key : 0 .. MaxCommands, reliable : BOOLEAN]

\* Types, as far as the events go.
Typed ==
  /\ tier \in [Tiers -> Tier]
  /\ isRunning \in BOOLEAN /\ exists \in BOOLEAN /\ completedLate \in BOOLEAN
  /\ IsABag(announces) /\ BagToSet(announces) \subseteq Requests
  /\ IsABag(scrapes) /\ BagToSet(scrapes) \subseteq [tier : Tiers, key : 0 .. MaxCommands, tracker : Nat]
  /\ told \subseteq Tiers \X Nat /\ completing \subseteq Tiers
  /\ commands \in 0 .. MaxCommands

\* A reliable tier never turns to another tracker.
FirstTracker ==
  /\ \A t \in Tiers : tier[t].reliable => tier[t].tracker = 0
  /\ \A q \in BagToSet(announces) : tier[q.tier].reliable => q.tracker = 0
  /\ \A k \in told : tier[k[1]].reliable => k[2] = 0

\* A request has the key of its tier, or an older one.
KeysAreOld ==
  /\ \A t \in Tiers : tier[t].key <= commands
  /\ \A q \in BagToSet(announces) : q.key <= tier[q.tier].key

\* The announces of t whose answers it takes.
Flight(t) == {q \in BagToSet(announces) : q.tier = t /\ q.key = tier[t].key}

\* The torrent is stopped, and what it still had to tell was told before that.
Quiet == ~isRunning /\ ~completedLate

\* A reliable tier has one announce at a time.  When all is quiet the last event of its queue is
\* a "stopped"; when the queue is empty the one in flight is a "stopped", and there is one as long
\* as a tracker takes the torrent to be running.
StopIsLast(t) ==
  LET s == tier[t].events IN
  /\ s # <<>> => s[Len(s)] = "stopped"
  /\ s = <<>> => \A q \in Flight(t) : q.event = "stopped"
  /\ s = <<>> /\ (\E k \in told : k[1] = t) => Flight(t) # {}

TierInv(t) ==
  /\ t \in completing => \/ "completed" \in Range(tier[t].events)
                         \/ \E q \in Flight(t) : q.event = "completed"
  /\ tier[t].reliable =>
       /\ Flight(t) # {} => tier[t].isAnnouncing /\ \E q : Flight(t) = {q} /\ announces[q] = 1
       /\ Quiet => StopIsLast(t)

AInv == Typed /\ FirstTracker /\ (exists => KeysAreOld /\ \A t \in Tiers : TierInv(t))

-----------------------------------------------------------------------------
(* The queue of a tier. *)

\* The greatest of some numbers.
LEMMA MaxIs ==
  ASSUME NEW n \in Nat, NEW T \in SUBSET (0 .. n), T # {}
  PROVE  Max(T) \in T /\ \A k \in T : k <= Max(T)
<1>1. PICK m \in T : \A k \in T : m >= k
  BY GreatestNumber
<1>2. Max(T) \in T /\ \A k \in T : Max(T) >= k
  BY <1>1 DEF Max
<1>3. \A k \in T : k \in Int
  OBVIOUS
<1> QED
  BY <1>2, <1>3

\* The next tracker.
LEMMA NextIs ==
  ASSUME NEW a \in Nat, NEW b \in Nat \ {0}
  PROVE  (a + 1) % b \in Nat
OBVIOUS

\* Only the end of the queue is cut off, and only e.
LEMMA WithoutIs ==
  ASSUME NEW s \in Seq(Events), NEW e
  PROVE  /\ Without(s, e) \in Seq(Events)
         /\ \A x \in Range(s) : x # e => x \in Range(Without(s, e))
<1> DEFINE T == {0} \cup {n \in DOMAIN s : s[n] # e}
           m == Max(T)
           w == SubSeq(s, 1, m)
<1>1. Len(s) \in Nat /\ DOMAIN s = 1 .. Len(s) /\ \A n \in 1 .. Len(s) : s[n] \in Events
  OBVIOUS
<1>2. T \in SUBSET (0 .. Len(s)) /\ T # {}
  BY <1>1
<1>3. m \in T /\ \A k \in T : k <= m
  BY <1>1, <1>2, MaxIs
<1>4. m \in 0 .. Len(s) /\ \A n \in 1 .. Len(s) : s[n] # e => n <= m
  BY <1>1, <1>2, <1>3
<1> HIDE DEF m, T
<1>5. w \in Seq(Events) /\ Len(w) = m /\ \A n \in 1 .. m : w[n] = s[n]
  BY <1>1, <1>4
<1> HIDE DEF w
<1>6. ASSUME NEW x \in Range(s), x # e
      PROVE  x \in Range(w)
  <2>1. PICK n \in 1 .. Len(s) : s[n] = x
    BY <1>1 DEF Range
  <2>2. n \in 1 .. m /\ DOMAIN w = 1 .. m
    BY <1>4, <1>5, <1>6, <2>1
  <2> QED
    BY <1>5, <2>1, <2>2 DEF Range
<1> QED
  BY <1>5, <1>6 DEF w, m, T, Without

\* A "completed" is not dumped.
LEMMA LeadingIs ==
  ASSUME NEW s \in Seq(Events), NEW e
  PROVE  /\ Leading(s, e) \in Seq(Events)
         /\ "completed" \in Range(s) => "completed" \in Range(Leading(s, e))
<1>1. <<"completed">> \in Seq(Events) /\ <<>> \in Seq(Events)
  BY DEF Events
<1>2. "completed" \in Range(<<"completed">>)
  BY DEF Range
<1> QED
  BY <1>1, <1>2 DEF Leading

\* An event put in the queue is its last; a "completed" stays.
LEMMA PushIs ==
  ASSUME NEW r \in Tier, NEW e \in Events, NEW at \in Times
  PROVE  LET p == tier_announce_event_push(r, e, at) IN
         /\ p \in Tier /\ p.isAnnouncing = r.isAnnouncing /\ p.key = r.key /\ p.reliable = r.reliable
         /\ p.tracker = r.tracker
         /\ p.events # <<>> /\ p.events[Len(p.events)] = e
         /\ "completed" \in Range(r.events) \/ e = "completed" => "completed" \in Range(p.events)
<1> DEFINE l == Leading(r.events, e)
           w == Without(Without(l, "none"), e)
           q == Append(w, e)
           p == tier_announce_event_push(r, e, at)
<1>1. p = [r EXCEPT !.events = q, !.announceAt = at]
  BY DEF tier_announce_event_push
<1>2. r.events \in Seq(Events)
  BY DEF Tier
<1>3. l \in Seq(Events) /\ ("completed" \in Range(r.events) => "completed" \in Range(l))
  BY <1>2, LeadingIs
<1> HIDE DEF l
<1>4. /\ w \in Seq(Events)
      /\ "completed" \in Range(l) /\ e # "completed" => "completed" \in Range(w)
  <2>1. Without(l, "none") \in Seq(Events) /\ ("completed" \in Range(l) => "completed" \in Range(Without(l, "none")))
    BY <1>3, WithoutIs
  <2> QED
    BY <2>1, WithoutIs
<1> HIDE DEF w
<1>5. /\ q \in Seq(Events) /\ Len(w) \in Nat /\ Len(q) = Len(w) + 1 /\ q[Len(q)] = e /\ q # <<>>
      /\ DOMAIN q = 1 .. Len(q) /\ DOMAIN w = 1 .. Len(w)
      /\ \A n \in 1 .. Len(w) : q[n] = w[n]
  BY <1>4
<1>6. /\ e \in Range(q)
      /\ \A x \in Range(w) : x \in Range(q)
  <2>1. Len(q) \in DOMAIN q /\ \A n \in DOMAIN w : n \in DOMAIN q /\ q[n] = w[n]
    BY <1>5
  <2> QED
    BY <1>5, <2>1 DEF Range
<1> HIDE DEF q
<1>7. /\ p \in Tier /\ p.isAnnouncing = r.isAnnouncing /\ p.key = r.key /\ p.reliable = r.reliable
      /\ p.tracker = r.tracker /\ p.events = q
  BY <1>1, <1>5 DEF Tier
<1> QED
  BY <1>3, <1>4, <1>5, <1>6, <1>7

-----------------------------------------------------------------------------
(* The requests in flight. *)

\* A set of requests is sent.
LEMMA BagGrows ==
  ASSUME NEW B, IsABag(B), NEW S
  PROVE  LET C == B (+) SetToBag(S) IN
         /\ IsABag(C) /\ BagToSet(C) = BagToSet(B) \cup S
         /\ \A e \in BagToSet(B) : e \notin S => C[e] = B[e]
         /\ \A e \in S : e \notin BagToSet(B) => C[e] = 1
BY DEF SetToBag, (+), IsABag, BagToSet

\* One request is answered.
LEMMA BagShrinks ==
  ASSUME NEW B, IsABag(B), NEW q, BagIn(q, B)
  PROVE  LET C == B (-) SetToBag({q}) IN
         /\ IsABag(C) /\ BagToSet(C) \subseteq BagToSet(B)
         /\ \A e \in BagToSet(B) : e # q => e \in BagToSet(C) /\ C[e] = B[e]
         /\ B[q] = 1 => q \notin BagToSet(C)
BY DEF SetToBag, (-), IsABag, BagToSet, BagIn

-----------------------------------------------------------------------------
(* The tiers that a step leaves alone. *)

\* Nothing that matters to the events happens to t.
Same(t) ==
  /\ tier'[t].events = tier[t].events /\ tier'[t].key = tier[t].key /\ tier'[t].reliable = tier[t].reliable
  /\ tier[t].reliable => tier'[t].isAnnouncing = tier[t].isAnnouncing

\* Nothing happens to the requests of t whose answers it takes.
SameRequests(t) ==
  \A q : q.tier = t /\ q.key = tier[t].key =>
    /\ q \in BagToSet(announces') <=> q \in BagToSet(announces)
    /\ q \in BagToSet(announces) => announces'[q] = announces[q]

\* What holds of a tier still holds after a step that leaves the tier and its requests alone.
LEMMA TierKept ==
  ASSUME NEW t \in Tiers, TierInv(t), Same(t), SameRequests(t), Quiet' => Quiet,
         t \in completing' => t \in completing,
         tier[t].reliable => \A k \in told' : k[1] = t => k \in told
  PROVE  TierInv(t)'
<1>1. Flight(t)' = Flight(t)
  BY DEF Flight, Same, SameRequests
<1>2. \A q \in Flight(t) : announces'[q] = announces[q]
  BY DEF Flight, SameRequests
<1>3. \A q : Flight(t) = {q} => announces'[q] = announces[q]
  BY <1>2
<1>4. t \in completing' => \/ "completed" \in Range(tier'[t].events)
                           \/ \E q \in Flight(t)' : q.event = "completed"
  BY <1>1 DEF TierInv, Same
<1>5. CASE tier[t].reliable
  <2>1. Flight(t) # {} => tier[t].isAnnouncing /\ \E q : Flight(t) = {q} /\ announces[q] = 1
    BY <1>5 DEF TierInv
  <2>2. Flight(t)' # {} => tier'[t].isAnnouncing /\ \E q : Flight(t)' = {q} /\ announces'[q] = 1
    BY <1>1, <1>3, <1>5, <2>1 DEF Same
  <2>3. Quiet' => StopIsLast(t)
    BY <1>5 DEF TierInv
  <2>4. Quiet' => StopIsLast(t)'
    BY <1>1, <1>5, <2>3 DEF StopIsLast, Same
  <2> QED
    BY <1>4, <2>2, <2>4 DEF TierInv
<1>6. CASE ~tier[t].reliable
  BY <1>4, <1>6 DEF TierInv, Same
<1> QED
  BY <1>5, <1>6

\* A step that leaves all tiers and requests alone.
LEMMA AllKept ==
  ASSUME AInv, Typed', UNCHANGED <<announces, isRunning, completedLate>>, exists' => exists,
         \A t \in Tiers : Same(t) /\ (tier[t].reliable => tier'[t].tracker = tier[t].tracker),
         told' \subseteq told, completing' \subseteq completing, commands <= commands'
  PROVE  AInv'
<1>1. Typed /\ FirstTracker
  BY DEF AInv
<1>2. FirstTracker'
  <2>1. \A q \in BagToSet(announces') : q.tier \in Tiers
    BY DEF Typed, Requests
  <2>2. \A k \in told' : k[1] \in Tiers
    BY DEF Typed
  <2> QED
    BY <1>1, <2>1, <2>2 DEF FirstTracker, Same
<1>3. ASSUME exists'
      PROVE  KeysAreOld' /\ \A t \in Tiers : TierInv(t)'
  <2>1. KeysAreOld /\ \A t \in Tiers : TierInv(t)
    BY <1>3 DEF AInv
  <2>2. KeysAreOld'
    <3>1. \A q \in BagToSet(announces') : q.tier \in Tiers
      BY DEF Typed, Requests
    <3>2. \A t \in Tiers : tier'[t].key <= commands'
      BY <1>1, <2>1 DEF KeysAreOld, Same, Typed, Tier
    <3> QED
      BY <2>1, <3>1, <3>2 DEF KeysAreOld, Same
  <2>3. ASSUME NEW t \in Tiers
        PROVE  TierInv(t)'
    <3>1. SameRequests(t) /\ (Quiet' => Quiet)
      BY DEF SameRequests, Quiet
    <3> QED
      BY <2>1, <3>1, TierKept
  <2> QED
    BY <2>2, <2>3
<1> QED
  BY <1>2, <1>3 DEF AInv

\* The timer sends the last messages of a torrent that is gone.
LEMMA FlushKeeps ==
  ASSUME AInv, FlushCloseMessages
  PROVE  AInv'
<1>1. /\ UNCHANGED <<tier, isRunning, exists, announces, scrapes, completing, completedLate, commands>>
      /\ told' \subseteq told
  BY DEF FlushCloseMessages
<1>2. Typed' /\ commands <= commands'
  BY <1>1 DEF AInv, Typed
<1> QED
  BY <1>1, <1>2, AllKept DEF Same

\* Time passes.
LEMMA FallsDueKeeps ==
  ASSUME AInv, NEW t \in Tiers, FallsDue(t)
  PROVE  AInv'
<1>1. UNCHANGED <<isRunning, exists, announces, scrapes, told, completing, completedLate, commands>>
  BY DEF FallsDue, network
<1>2. tier[t] \in Tier /\ Typed
  BY DEF AInv, Typed
<1>3. PICK r \in Tier : /\ tier' = [tier EXCEPT ![t] = r] /\ r.events = tier[t].events
                        /\ r.isAnnouncing = tier[t].isAnnouncing /\ r.key = tier[t].key
                        /\ r.reliable = tier[t].reliable /\ r.tracker = tier[t].tracker
  <2>1. CASE tier' = [tier EXCEPT ![t].announceAt = "due"]
    <3> DEFINE r == [tier[t] EXCEPT !.announceAt = "due"]
    <3>1. /\ r \in Tier /\ r.events = tier[t].events /\ r.isAnnouncing = tier[t].isAnnouncing
          /\ r.key = tier[t].key /\ r.reliable = tier[t].reliable /\ r.tracker = tier[t].tracker
      BY <1>2 DEF Tier, Times
    <3>2. tier' = [tier EXCEPT ![t] = r]
      BY <2>1
    <3> QED
      BY <3>1, <3>2
  <2>2. CASE tier' = [tier EXCEPT ![t].scrapeAt = "due"]
    <3> DEFINE r == [tier[t] EXCEPT !.scrapeAt = "due"]
    <3>1. /\ r \in Tier /\ r.events = tier[t].events /\ r.isAnnouncing = tier[t].isAnnouncing
          /\ r.key = tier[t].key /\ r.reliable = tier[t].reliable /\ r.tracker = tier[t].tracker
      BY <1>2 DEF Tier, Times
    <3>2. tier' = [tier EXCEPT ![t] = r]
      BY <2>2
    <3> QED
      BY <3>1, <3>2
  <2> QED
    BY <2>1, <2>2 DEF FallsDue
<1>4. tier' \in [Tiers -> Tier] /\ \A u \in Tiers : tier'[u] = IF u = t THEN r ELSE tier[u]
  BY <1>2, <1>3 DEF Typed
<1>5. Typed' /\ commands <= commands'
  BY <1>1, <1>2, <1>4 DEF Typed
<1>6. \A u \in Tiers : Same(u) /\ tier'[u].tracker = tier[u].tracker
  BY <1>3, <1>4 DEF Same
<1> QED
  BY <1>1, <1>5, <1>6, AllKept

\* A scrape is answered, or fails.
LEMMA ScrapeDoneKeeps ==
  ASSUME AInv, NEW q \in BagToSet(scrapes), NEW ok \in BOOLEAN, ScrapeDone(q, ok)
  PROVE  AInv'
<1> DEFINE t == q.tier
           s == IF ok THEN tier[t] ELSE NextTracker(tier[t])
           r == [s EXCEPT !.isScraping = FALSE, !.scrapeAt = "later"]
<1>1. Typed /\ t \in Tiers /\ tier[t] \in Tier
  BY DEF AInv, Typed
<1>2. /\ UNCHANGED <<isRunning, exists, announces, told, completing, completedLate, commands>>
      /\ scrapes' = scrapes (-) SetToBag({q}) /\ (ok \/ ~tier[t].reliable) /\ BagIn(q, scrapes)
      /\ tier' = tier \/ tier' = [tier EXCEPT ![t] = r]
  BY DEF ScrapeDone
<1>3. /\ s \in Tier /\ s.events = tier[t].events /\ s.key = tier[t].key /\ s.reliable = tier[t].reliable
      /\ tier[t].reliable => s.isAnnouncing = tier[t].isAnnouncing /\ s.tracker = tier[t].tracker
  <2>1. (tier[t].tracker + 1) % TrackerCount \in Nat
    BY <1>1, AnnouncerAssumption, NextIs DEF Tier
  <2>2. CASE ok
    BY <1>1, <2>2
  <2>3. CASE ~ok
    <3>1. s = [tier[t] EXCEPT !.tracker = (tier[t].tracker + 1) % TrackerCount, !.isAnnouncing = FALSE, !.isScraping = FALSE]
      BY <2>3 DEF NextTracker
    <3> DEFINE n == (tier[t].tracker + 1) % TrackerCount
    <3> HIDE DEF n, s
    <3>2. n \in Nat /\ s = [tier[t] EXCEPT !.tracker = n, !.isAnnouncing = FALSE, !.isScraping = FALSE]
      BY <2>1, <3>1 DEF n
    <3> QED
      BY <1>1, <1>2, <2>3, <3>2 DEF Tier
  <2> QED
    BY <2>2, <2>3
<1> HIDE DEF s
<1>4. /\ r \in Tier /\ r.events = tier[t].events /\ r.key = tier[t].key /\ r.reliable = tier[t].reliable
      /\ tier[t].reliable => r.isAnnouncing = tier[t].isAnnouncing /\ r.tracker = tier[t].tracker
  BY <1>3 DEF Tier, Times
<1> HIDE DEF r
<1>5. \A u \in Tiers : Same(u) /\ (tier[u].reliable => tier'[u].tracker = tier[u].tracker)
  BY <1>1, <1>2, <1>4 DEF Same, Typed
<1>6. IsABag(scrapes') /\ BagToSet(scrapes') \subseteq BagToSet(scrapes)
  BY <1>1, <1>2, BagShrinks DEF Typed
<1>7. tier' \in [Tiers -> Tier]
  BY <1>1, <1>2, <1>4 DEF Typed
<1>8. Typed' /\ commands <= commands'
  BY <1>1, <1>2, <1>6, <1>7 DEF Typed
<1> QED
  BY <1>2, <1>5, <1>8, AllKept

\* The torrent is removed: nothing is said of its tiers any more.
LEMMA RemoveKeeps ==
  ASSUME AInv, RemoveTorrent
  PROVE  AInv'
<1>1. Typed /\ FirstTracker
  BY DEF AInv
<1>2. /\ exists' = FALSE /\ isRunning' = FALSE /\ completing' = {} /\ completedLate' = FALSE
      /\ UNCHANGED <<announces, scrapes, told, commands>>
      /\ tier' = [t \in Tiers |-> NewTier(tier[t].reliable, 0)]
  BY DEF RemoveTorrent
<1>3. \A t \in Tiers : NewTier(tier[t].reliable, 0) \in Tier
  <2>1. \A t \in Tiers : tier[t].reliable \in BOOLEAN /\ 0 \in 0 .. MaxCommands
    BY <1>1, AnnouncerAssumption DEF Typed, Tier
  <2>2. <<>> \in Seq(Events)
    OBVIOUS
  <2> QED
    BY <2>1, <2>2 DEF NewTier, Tier, Times
<1>4. \A t \in Tiers : tier'[t].reliable = tier[t].reliable /\ tier'[t].tracker = 0
  BY <1>2 DEF NewTier
<1>5. Typed'
  BY <1>1, <1>2, <1>3 DEF Typed
<1>6. FirstTracker'
  <2>1. \A q \in BagToSet(announces) : q.tier \in Tiers
    BY <1>1 DEF Typed, Requests
  <2>2. \A k \in told : k[1] \in Tiers
    BY <1>1 DEF Typed
  <2> QED
    BY <1>1, <1>2, <1>4, <2>1, <2>2 DEF FirstTracker
<1> QED
  BY <1>2, <1>5, <1>6 DEF AInv

-----------------------------------------------------------------------------
(* What the torrent tells the announcer. *)

\* All tiers get the event e.
LEMMA AddsKeep ==
  ASSUME AInv, NEW e \in Events, torrentAddAnnounce(e), exists, exists' = exists, isRunning' \in BOOLEAN,
         completedLate' \in BOOLEAN, commands' = commands + 1, commands < MaxCommands,
         UNCHANGED <<announces, scrapes, told>>, completing' \subseteq Tiers,
         e = "completed" \/ completing' \subseteq completing,
         Quiet' => e = "stopped"
  PROVE  AInv'
<1> DEFINE p(t) == tier_announce_event_push(tier[t], e, "due")
<1>1. Typed /\ FirstTracker /\ KeysAreOld
  BY DEF AInv
<1>2. tier' = [t \in Tiers |-> p(t)]
  BY DEF torrentAddAnnounce
<1>3. ASSUME NEW t \in Tiers
      PROVE  /\ p(t) \in Tier /\ p(t).isAnnouncing = tier[t].isAnnouncing /\ p(t).key = tier[t].key
             /\ p(t).reliable = tier[t].reliable /\ p(t).tracker = tier[t].tracker
             /\ p(t).events # <<>> /\ p(t).events[Len(p(t).events)] = e
             /\ "completed" \in Range(tier[t].events) \/ e = "completed" => "completed" \in Range(p(t).events)
  <2>1. tier[t] \in Tier /\ "due" \in Times
    BY <1>1 DEF Typed, Times
  <2> QED
    BY <2>1, PushIs
<1> HIDE DEF p
<1>4. \A t \in Tiers : tier'[t] = p(t)
  BY <1>2
<1>5. commands \in Nat /\ commands' \in 0 .. MaxCommands
  BY <1>1, AnnouncerAssumption DEF Typed
<1>6. Typed'
  BY <1>1, <1>2, <1>3, <1>5 DEF Typed
<1>7. \A q \in BagToSet(announces) : q.tier \in Tiers
  BY <1>1 DEF Typed, Requests
<1>8. FirstTracker'
  <2>1. \A k \in told : k[1] \in Tiers
    BY <1>1 DEF Typed
  <2> QED
    BY <1>1, <1>3, <1>4, <1>7, <2>1 DEF FirstTracker
<1>9. KeysAreOld'
  <2>1. \A t \in Tiers : tier'[t].key <= commands'
    BY <1>1, <1>3, <1>4, <1>5 DEF KeysAreOld, Typed, Tier
  <2> QED
    BY <1>1, <1>3, <1>4, <1>7, <2>1 DEF KeysAreOld
<1>10. ASSUME NEW t \in Tiers
       PROVE  TierInv(t)'
  <2>1. TierInv(t)
    BY DEF AInv
  <2>2. Flight(t)' = Flight(t)
    BY <1>3, <1>4 DEF Flight
  <2>3. t \in completing' => \/ "completed" \in Range(tier'[t].events)
                             \/ \E q \in Flight(t)' : q.event = "completed"
    BY <1>3, <1>4, <2>1, <2>2 DEF TierInv
  <2>4. tier'[t].reliable => (Flight(t)' # {} => tier'[t].isAnnouncing /\ \E q : Flight(t)' = {q} /\ announces'[q] = 1)
    BY <1>3, <1>4, <2>1, <2>2 DEF TierInv
  <2>5. Quiet' => StopIsLast(t)'
    BY <1>3, <1>4 DEF StopIsLast
  <2> QED
    BY <2>3, <2>4, <2>5 DEF TierInv
<1> QED
  BY <1>6, <1>8, <1>9, <1>10 DEF AInv

\* Start, stop, completion and manual announces.
LEMMA CommandsKeep ==
  ASSUME AInv, Start \/ Stop \/ Complete \/ Reannounce
  PROVE  AInv'
<1>1. Typed
  BY DEF AInv
<1>2. /\ exists /\ exists' = exists /\ commands' = commands + 1 /\ commands < MaxCommands
      /\ UNCHANGED <<announces, scrapes, told>>
  BY DEF Start, Stop, Complete, Reannounce, Command, network
<1>3. CASE Start
  <2>1. "started" \in Events
    BY DEF Events
  <2>2. /\ torrentAddAnnounce("started") /\ isRunning' = TRUE /\ completing' = completing /\ completedLate' = completedLate
    BY <1>3 DEF Start
  <2>3. ~Quiet'
    BY <2>2 DEF Quiet
  <2> QED
    BY <1>1, <1>2, <2>1, <2>2, <2>3, AddsKeep DEF Typed
<1>4. CASE Stop
  <2>1. "stopped" \in Events
    BY DEF Events
  <2>2. /\ torrentAddAnnounce("stopped") /\ isRunning' = FALSE /\ completing' = completing /\ completedLate' = FALSE
    BY <1>4 DEF Stop
  <2> QED
    BY <1>1, <1>2, <2>1, <2>2, AddsKeep DEF Typed
<1>5. CASE Complete
  <2>1. "completed" \in Events
    BY DEF Events
  <2>2. /\ torrentAddAnnounce("completed") /\ isRunning' = isRunning /\ completing' = Tiers /\ completedLate' = ~isRunning
    BY <1>5 DEF Complete
  <2>3. ~Quiet'
    BY <2>2 DEF Quiet
  <2> QED
    BY <1>1, <1>2, <2>1, <2>2, <2>3, AddsKeep DEF Typed
<1>6. CASE Reannounce
  <2>1. PICK e \in {"none", "started"} : torrentAddAnnounce(e)
    BY <1>6 DEF Reannounce
  <2>2. e \in Events
    BY DEF Events
  <2>3. /\ isRunning /\ isRunning' = isRunning /\ completing' = completing /\ completedLate' = completedLate
    BY <1>6 DEF Reannounce
  <2>4. ~Quiet'
    BY <2>3 DEF Quiet
  <2> QED
    BY <1>1, <1>2, <2>1, <2>2, <2>3, <2>4, AddsKeep DEF Typed
<1> QED
  BY <1>3, <1>4, <1>5, <1>6

\* The trackers are edited: the tiers F are new, with a key that no request has.
LEMMA ResetKeeps ==
  ASSUME AInv, NEW F \in SUBSET Tiers, ResetTorrent(F)
  PROVE  AInv'
<1> DEFINE new(t) == NewTier(tier[t].reliable, tier[t].key + 1)
           r(t) == IF isRunning THEN tier_announce_event_push(new(t), "started", "due") ELSE new(t)
<1>1. Typed /\ FirstTracker /\ exists
  BY DEF AInv, ResetTorrent
<1>2. KeysAreOld
  BY <1>1 DEF AInv
<1>3. /\ commands < MaxCommands /\ commands' = commands + 1
      /\ tier' = [t \in Tiers |-> IF t \notin F THEN tier[t] ELSE r(t)]
      /\ told' = {k \in told : k[1] \notin F} /\ completing' = completing \ F
      /\ UNCHANGED <<isRunning, exists, announces, scrapes, completedLate>>
  BY DEF ResetTorrent
<1>4. commands \in Nat /\ commands' \in 0 .. MaxCommands
  BY <1>1, <1>3, AnnouncerAssumption DEF Typed
<1>5. ASSUME NEW t \in Tiers
      PROVE  /\ r(t) \in Tier /\ r(t).key = tier[t].key + 1 /\ r(t).key <= commands'
             /\ r(t).reliable = tier[t].reliable /\ r(t).tracker = 0
             /\ ~isRunning => r(t).events = <<>>
  <2>1. tier[t].reliable \in BOOLEAN /\ tier[t].key + 1 \in 0 .. MaxCommands /\ tier[t].key + 1 <= commands'
    BY <1>1, <1>2, <1>3, <1>4, AnnouncerAssumption DEF KeysAreOld, Typed, Tier
  <2>2. <<>> \in Seq(Events)
    OBVIOUS
  <2>3. /\ new(t) \in Tier /\ new(t).key = tier[t].key + 1 /\ new(t).reliable = tier[t].reliable
        /\ new(t).tracker = 0 /\ new(t).events = <<>>
    BY <2>1, <2>2 DEF NewTier, Tier, Times
  <2> HIDE DEF new
  <2>4. "started" \in Events /\ "due" \in Times
    BY DEF Events, Times
  <2> QED
    BY <2>1, <2>3, <2>4, PushIs
<1> HIDE DEF r
<1>6. \A t \in Tiers : tier'[t] = IF t \in F THEN r(t) ELSE tier[t]
  BY <1>3
<1>7. Typed'
  <2>1. tier' \in [Tiers -> Tier]
    BY <1>1, <1>3, <1>5 DEF Typed
  <2>2. told' \subseteq Tiers \X Nat /\ completing' \subseteq Tiers
    BY <1>1, <1>3 DEF Typed
  <2> QED
    BY <1>1, <1>3, <1>4, <2>1, <2>2 DEF Typed
<1>8. \A q \in BagToSet(announces) : q.tier \in Tiers /\ q.key \in Nat
  BY <1>1, AnnouncerAssumption DEF Typed, Requests
<1>9. FirstTracker'
  <2>1. \A k \in told' : k \in told /\ k[1] \in Tiers
    BY <1>1, <1>3 DEF Typed
  <2> QED
    BY <1>1, <1>3, <1>5, <1>6, <1>8, <2>1 DEF FirstTracker
<1>10. \A t \in Tiers : tier[t].key \in Nat
  BY <1>1, AnnouncerAssumption DEF Typed, Tier
<1>11. KeysAreOld'
  <2>1. \A t \in Tiers : tier'[t].key <= commands' /\ tier[t].key <= tier'[t].key
    BY <1>2, <1>3, <1>4, <1>5, <1>6, <1>10 DEF KeysAreOld
  <2>2. \A q \in BagToSet(announces') : q.key <= tier'[q.tier].key
    <3> SUFFICES ASSUME NEW q \in BagToSet(announces) PROVE q.key <= tier'[q.tier].key
      BY <1>3
    <3>1. q.key <= tier[q.tier].key /\ tier[q.tier].key <= tier'[q.tier].key
      BY <1>2, <1>8, <2>1 DEF KeysAreOld
    <3>2. q.key \in Nat /\ tier[q.tier].key \in Nat /\ tier'[q.tier].key \in Nat
      BY <1>5, <1>6, <1>8, <1>10
    <3> QED
      BY <3>1, <3>2
  <2> QED
    BY <2>1, <2>2 DEF KeysAreOld
<1>12. ASSUME NEW t \in Tiers
       PROVE  TierInv(t)'
  <2>1. CASE t \in F
    <3>1. Flight(t)' = {}
      <4> SUFFICES ASSUME NEW q \in BagToSet(announces), q.tier = t, q.key = r(t).key
                   PROVE  FALSE
        BY <1>3, <1>6, <2>1 DEF Flight
      <4>1. q.key <= tier[t].key
        BY <1>2 DEF KeysAreOld
      <4> QED
        BY <1>5, <1>10, <4>1
    <3>2. t \notin completing' /\ \A k \in told' : k[1] # t
      BY <1>3, <2>1
    <3>3. Quiet' => tier'[t].events = <<>>
      BY <1>3, <1>5, <1>6, <2>1 DEF Quiet
    <3>4. Quiet' => StopIsLast(t)'
      BY <3>1, <3>2, <3>3 DEF StopIsLast
    <3> QED
      BY <3>1, <3>2, <3>4 DEF TierInv
  <2>2. CASE t \notin F
    <3>1. TierInv(t) /\ Same(t)
      BY <1>1, <1>6, <2>2 DEF AInv, Same
    <3>2. SameRequests(t) /\ (Quiet' => Quiet)
      BY <1>3 DEF SameRequests, Quiet
    <3> QED
      BY <1>3, <3>1, <3>2, TierKept
  <2> QED
    BY <2>1, <2>2
<1> QED
  BY <1>7, <1>9, <1>11, <1>12 DEF AInv

-----------------------------------------------------------------------------
(* The upkeep timer. *)

\* The first event of a queue becomes a request.
Sent(t) == [tier[t] EXCEPT !.events = Tail(tier[t].events), !.isAnnouncing = TRUE]

\* A queue without its first event.
LEMMA TailIs ==
  ASSUME NEW S, NEW s \in Seq(S), s # <<>>
  PROVE  /\ Tail(s) \in Seq(S) /\ Head(s) \in S
         /\ Tail(s) # <<>> => Tail(s)[Len(Tail(s))] = s[Len(s)]
         /\ Tail(s) = <<>> => Head(s) = s[Len(s)]
         /\ \A x \in Range(s) : x = Head(s) \/ x \in Range(Tail(s))
<1> DEFINE u == Tail(s)
<1>1. /\ Len(s) \in Nat \ {0} /\ Head(s) = s[1] /\ Head(s) \in S /\ u \in Seq(S) /\ Len(u) = Len(s) - 1
      /\ \A n \in 1 .. Len(s) - 1 : u[n] = s[n + 1]
      /\ DOMAIN s = 1 .. Len(s) /\ DOMAIN u = 1 .. Len(u)
  OBVIOUS
<1> HIDE DEF u
<1>2. u # <<>> => u[Len(u)] = s[Len(s)]
  <2> SUFFICES ASSUME u # <<>> PROVE u[Len(u)] = s[Len(s)]
    OBVIOUS
  <2>1. Len(u) # 0
    BY <1>1
  <2>2. Len(s) - 1 \in 1 .. Len(s) - 1 /\ (Len(s) - 1) + 1 = Len(s)
    BY <1>1, <2>1
  <2> QED
    BY <1>1, <2>2
<1>3. u = <<>> => Head(s) = s[Len(s)]
  <2> SUFFICES ASSUME u = <<>> PROVE Head(s) = s[Len(s)]
    OBVIOUS
  <2>1. Len(u) = 0
    OBVIOUS
  <2>2. Len(s) = 1
    BY <1>1, <2>1
  <2> QED
    BY <1>1, <2>2
<1>4. ASSUME NEW x \in Range(s), x # Head(s)
      PROVE  x \in Range(u)
  <2>1. PICK n \in 1 .. Len(s) : s[n] = x
    BY <1>1 DEF Range
  <2>2. n # 1
    BY <1>1, <1>4, <2>1
  <2>3. n - 1 \in 1 .. Len(s) - 1 /\ (n - 1) + 1 = n
    BY <1>1, <2>2
  <2>4. n - 1 \in DOMAIN u /\ u[n - 1] = x
    BY <1>1, <2>1, <2>3
  <2> QED
    BY <2>4 DEF Range
<1> QED
  BY <1>1, <1>2, <1>3, <1>4 DEF u

\* The tier that sends an announce.
LEMMA SentKeeps ==
  ASSUME NEW t \in Tiers, Typed, KeysAreOld, TierInv(t), tierNeedsToAnnounce(tier[t]), tier'[t] = Sent(t),
         NEW q, q = Request(t), UNCHANGED <<isRunning, completedLate, told, completing>>,
         \A p : p.tier = t => (p \in BagToSet(announces') <=> p \in BagToSet(announces) \/ p = q),
         q \notin BagToSet(announces) => announces'[q] = 1
  PROVE  TierInv(t)'
<1> DEFINE s == tier[t].events
<1>1. s \in Seq(Events) /\ s # <<>> /\ ~tier[t].isAnnouncing /\ tier[t] \in Tier
  BY DEF Typed, Tier, tierNeedsToAnnounce
<1>2. /\ tier'[t].events = Tail(s) /\ tier'[t].isAnnouncing = TRUE /\ tier'[t].key = tier[t].key
      /\ tier'[t].reliable = tier[t].reliable
  BY <1>1 DEF Sent, Tier
<1>3. q.tier = t /\ q.key = tier[t].key /\ q.event = Head(s)
  BY DEF Request
<1>4. Flight(t)' = Flight(t) \cup {q}
  BY <1>2, <1>3 DEF Flight
<1> HIDE DEF s
<1>5. /\ Tail(s) # <<>> => Tail(s)[Len(Tail(s))] = s[Len(s)]
      /\ Tail(s) = <<>> => Head(s) = s[Len(s)]
      /\ \A x \in Range(s) : x = Head(s) \/ x \in Range(Tail(s))
  BY <1>1, TailIs
<1>6. t \in completing' => \/ "completed" \in Range(tier'[t].events)
                           \/ \E p \in Flight(t)' : p.event = "completed"
  <2>1. t \in completing => \/ "completed" \in Range(s)
                            \/ \E p \in Flight(t) : p.event = "completed"
    BY DEF TierInv, s
  <2> QED
    BY <1>2, <1>3, <1>4, <1>5, <2>1
<1>7. ASSUME tier[t].reliable
      PROVE  /\ tier'[t].isAnnouncing /\ \E p : Flight(t)' = {p} /\ announces'[p] = 1
             /\ Quiet' => StopIsLast(t)'
  <2>1. Flight(t) = {}
    BY <1>1, <1>7 DEF TierInv
  <2>2. q \notin BagToSet(announces)
    BY <1>3, <2>1 DEF Flight
  <2>3. Flight(t)' = {q} /\ announces'[q] = 1
    BY <1>4, <2>1, <2>2
  <2>4. Quiet' => s[Len(s)] = "stopped"
    BY <1>1, <1>7 DEF TierInv, StopIsLast, Quiet, s
  <2>5. Quiet' => StopIsLast(t)'
    BY <1>2, <1>3, <1>5, <2>3, <2>4 DEF StopIsLast
  <2> QED
    BY <1>2, <2>3, <2>5
<1> QED
  BY <1>2, <1>6, <1>7 DEF TierInv

\* announceMore.
LEMMA MoreKeeps ==
  ASSUME AInv, announceMore
  PROVE  AInv'
<1> DEFINE needAnnounce == {t \in Tiers : exists /\ tierNeedsToAnnounce(tier[t])}
           needScrape   == {t \in Tiers \ needAnnounce : exists /\ tierNeedsToScrape(tier[t])}
<1>1. PICK A \in SUBSET needAnnounce, S \in SUBSET needScrape :
        /\ tier' = [t \in Tiers |->
                      IF t \in A THEN [tier[t] EXCEPT !.events = Tail(@), !.isAnnouncing = TRUE]
                      ELSE IF t \in S THEN [tier[t] EXCEPT !.isScraping = TRUE]
                      ELSE tier[t]]
        /\ announces' = announces (+) SetToBag({Request(t) : t \in A})
        /\ scrapes' = scrapes (+) SetToBag({Scrape(t) : t \in S})
  BY DEF announceMore, Fill
<1>2. Typed /\ FirstTracker /\ UNCHANGED <<isRunning, exists, told, completing, completedLate, commands>>
  BY DEF AInv, announceMore
<1> DEFINE Q == {Request(t) : t \in A}
           P == {Scrape(t) : t \in S}
<1>3. \A t \in A : t \in Tiers /\ exists /\ tierNeedsToAnnounce(tier[t])
  OBVIOUS
<1>4. S \subseteq Tiers
  OBVIOUS
<1> HIDE DEF needAnnounce, needScrape
<1>5. \A t \in Tiers : tier'[t] = IF t \in A THEN Sent(t)
                                  ELSE IF t \in S THEN [tier[t] EXCEPT !.isScraping = TRUE] ELSE tier[t]
  BY <1>1 DEF Sent
<1>6. ASSUME NEW t \in Tiers
      PROVE  /\ tier'[t] \in Tier /\ tier'[t].key = tier[t].key /\ tier'[t].reliable = tier[t].reliable
             /\ tier'[t].tracker = tier[t].tracker
             /\ t \notin A => Same(t)
  <2>1. tier[t] \in Tier
    BY <1>2 DEF Typed
  <2>2. CASE t \in A
    <3>1. tier[t].events \in Seq(Events) /\ tier[t].events # <<>>
      BY <1>3, <2>1, <2>2 DEF Tier, tierNeedsToAnnounce
    <3>2. Tail(tier[t].events) \in Seq(Events)
      BY <3>1
    <3> QED
      BY <1>5, <2>1, <2>2, <3>2 DEF Sent, Tier
  <2>3. CASE t \notin A
    BY <1>5, <2>1, <2>3 DEF Tier, Same
  <2> QED
    BY <2>2, <2>3
<1>7. ASSUME NEW t \in A
      PROVE  Request(t) \in Requests /\ Request(t).tier = t /\ Request(t).key = tier[t].key /\ Request(t).tracker = tier[t].tracker
  <2>1. tier[t] \in Tier /\ tier[t].events # <<>> /\ isRunning \in BOOLEAN /\ t \in Tiers
    BY <1>2, <1>3 DEF Typed, tierNeedsToAnnounce
  <2>2. tier[t].events \in Seq(Events) /\ tier[t].key \in 0 .. MaxCommands /\ tier[t].tracker \in Nat
    BY <2>1 DEF Tier
  <2>3. Head(tier[t].events) \in Events
    BY <2>1, <2>2
  <2> QED
    BY <2>1, <2>2, <2>3 DEF Request, Requests
<1>8. /\ IsABag(announces') /\ BagToSet(announces') = BagToSet(announces) \cup Q
      /\ \A p \in BagToSet(announces) : p \notin Q => announces'[p] = announces[p]
      /\ \A p \in Q : p \notin BagToSet(announces) => announces'[p] = 1
  <2>1. IsABag(announces) /\ announces' = announces (+) SetToBag(Q)
    BY <1>1, <1>2 DEF Typed
  <2> HIDE DEF Q
  <2> QED
    BY <2>1, BagGrows
<1>9. IsABag(scrapes') /\ BagToSet(scrapes') = BagToSet(scrapes) \cup P
  <2>1. IsABag(scrapes) /\ scrapes' = scrapes (+) SetToBag(P)
    BY <1>1, <1>2 DEF Typed
  <2> HIDE DEF P
  <2> QED
    BY <2>1, BagGrows
<1>10. P \subseteq [tier : Tiers, key : 0 .. MaxCommands, tracker : Nat]
  BY <1>2, <1>4 DEF Scrape, Typed, Tier
<1>11. Q \subseteq Requests /\ \A p \in Q : p.tier \in A /\ p = Request(p.tier)
  BY <1>7
<1>12. Typed'
  <2>1. tier' \in [Tiers -> Tier]
    BY <1>1, <1>6
  <2> HIDE DEF P, Q
  <2> QED
    BY <1>2, <1>8, <1>9, <1>10, <1>11, <2>1 DEF Typed
<1> HIDE DEF P, Q
<1>13. \A q \in BagToSet(announces) : q.tier \in Tiers
  BY <1>2 DEF Typed, Requests
<1>14. FirstTracker'
  <2>1. \A k \in told : k[1] \in Tiers
    BY <1>2 DEF Typed
  <2>2. \A q \in Q : tier'[q.tier].reliable => q.tracker = 0
    BY <1>2, <1>3, <1>6, <1>7, <1>11 DEF FirstTracker
  <2>3. \A q \in BagToSet(announces) : tier'[q.tier].reliable => q.tracker = 0
    BY <1>2, <1>6, <1>13 DEF FirstTracker
  <2> QED
    BY <1>2, <1>6, <1>8, <2>1, <2>2, <2>3 DEF FirstTracker
<1>15. ASSUME exists'
       PROVE  KeysAreOld' /\ \A t \in Tiers : TierInv(t)'
  <2>1. KeysAreOld /\ \A t \in Tiers : TierInv(t)
    BY <1>2, <1>15 DEF AInv
  <2>2. KeysAreOld'
    <3>1. \A t \in Tiers : tier'[t].key <= commands'
      BY <1>2, <1>6, <2>1 DEF KeysAreOld
    <3>2. \A q \in BagToSet(announces) : q.key <= tier'[q.tier].key
      BY <1>6, <1>13, <2>1 DEF KeysAreOld
    <3>3. \A q \in Q : q.key <= tier'[q.tier].key
      <4> SUFFICES ASSUME NEW q \in Q PROVE q.key <= tier'[q.tier].key
        OBVIOUS
      <4>1. q.tier \in Tiers /\ q.key = tier[q.tier].key /\ tier'[q.tier].key = tier[q.tier].key
        BY <1>3, <1>6, <1>7, <1>11
      <4>2. tier[q.tier].key \in Nat
        BY <1>2, <4>1, AnnouncerAssumption DEF Typed, Tier
      <4> QED
        BY <4>1, <4>2
    <3> QED
      BY <1>8, <3>1, <3>2, <3>3 DEF KeysAreOld
  <2>3. ASSUME NEW t \in Tiers
        PROVE  TierInv(t)'
    <3>1. CASE t \in A
      <4> DEFINE q == Request(t)
      <4>1. q \in Q
        BY <3>1 DEF Q
      <4>2. \A p : p.tier = t => (p \in BagToSet(announces') <=> p \in BagToSet(announces) \/ p = q)
        BY <1>8, <1>11, <4>1
      <4>3. q \notin BagToSet(announces) => announces'[q] = 1
        BY <1>8, <4>1
      <4>4. tierNeedsToAnnounce(tier[t]) /\ tier'[t] = Sent(t)
        BY <1>3, <1>5, <3>1
      <4> HIDE DEF q
      <4>5. q = Request(t)
        BY DEF q
      <4> QED
        BY <1>2, <2>1, <4>2, <4>3, <4>4, <4>5, SentKeeps
    <3>2. CASE t \notin A
      <4>1. SameRequests(t)
        BY <1>8, <1>11, <3>2 DEF SameRequests
      <4>2. Same(t) /\ (Quiet' => Quiet)
        BY <1>2, <1>6, <3>2 DEF Quiet
      <4> QED
        BY <1>2, <2>1, <4>1, <4>2, TierKept
    <3> QED
      BY <3>1, <3>2
  <2> QED
    BY <2>2, <2>3
<1> QED
  BY <1>12, <1>14, <1>15 DEF AInv

-----------------------------------------------------------------------------
(* The responses. *)

\* A response is taken: r is the tier that sent q, behind it.
Taken(q, r) ==
  /\ q \in BagToSet(announces) /\ Answered(q)
  /\ UNCHANGED <<isRunning, exists, scrapes, completedLate, commands>>
  /\ tier' = [tier EXCEPT ![q.tier] = r] /\ r \in Tier
  /\ r.key = tier[q.tier].key /\ r.reliable = tier[q.tier].reliable
  /\ r.reliable => r.tracker = tier[q.tier].tracker
  /\ told' \in {told, Hears(q)} /\ completing' \in {completing, completing \ {q.tier}}

\* The other tiers do not notice, and neither does the tier that sent it when it is too late.
LEMMA TakenKeeps ==
  ASSUME AInv, NEW q, NEW r, Taken(q, r), exists => (IF IsFor(q) THEN TierInv(q.tier)' ELSE Same(q.tier))
  PROVE  AInv'
<1> DEFINE t == q.tier
           k == <<q.tier, q.tracker>>
<1>1. Typed /\ FirstTracker /\ q \in Requests /\ t \in Tiers /\ k \in Tiers \X Nat /\ k[1] = t /\ k[2] = q.tracker
  BY DEF AInv, Taken, Typed, Requests
<1>2. /\ UNCHANGED <<isRunning, exists, scrapes, completedLate, commands>>
      /\ tier' = [tier EXCEPT ![t] = r] /\ r \in Tier /\ r.key = tier[t].key /\ r.reliable = tier[t].reliable
      /\ r.reliable => r.tracker = tier[t].tracker
      /\ q \in BagToSet(announces) /\ completing' \subseteq completing
      /\ announces' = announces (-) SetToBag({q})
  BY DEF Taken, Answered
<1>3. /\ told' \subseteq told \cup {k}
      /\ exists /\ ~IsFor(q) => told' = told
  BY DEF Taken, Hears
<1>4. /\ IsABag(announces') /\ BagToSet(announces') \subseteq BagToSet(announces)
      /\ \A e \in BagToSet(announces) : e # q => e \in BagToSet(announces') /\ announces'[e] = announces[e]
  <2>1. IsABag(announces) /\ BagIn(q, announces)
    BY <1>1, <1>2 DEF Typed, BagIn
  <2> QED
    BY <1>2, <2>1, BagShrinks
<1>5. tier' \in [Tiers -> Tier] /\ tier'[t] = r /\ \A u \in Tiers : u # t => tier'[u] = tier[u]
  BY <1>1, <1>2 DEF Typed
<1>6. Typed'
  <2>1. BagToSet(announces') \subseteq Requests /\ told' \subseteq Tiers \X Nat /\ completing' \subseteq Tiers
    BY <1>1, <1>2, <1>3, <1>4 DEF Typed
  <2> QED
    BY <1>1, <1>2, <1>4, <1>5, <2>1 DEF Typed
<1>7. \A p \in BagToSet(announces) : p.tier \in Tiers
  BY <1>1 DEF Typed, Requests
<1>8. \A u \in Tiers : /\ tier'[u].reliable = tier[u].reliable /\ tier'[u].key = tier[u].key
                       /\ tier[u].reliable => tier'[u].tracker = tier[u].tracker
  BY <1>2, <1>5
<1>9. FirstTracker'
  <2>1. \A p \in BagToSet(announces') : tier'[p.tier].reliable => p.tracker = 0
    BY <1>1, <1>4, <1>7, <1>8 DEF FirstTracker
  <2>2. tier[t].reliable => q.tracker = 0
    BY <1>1, <1>2 DEF FirstTracker
  <2>3. \A j \in told : j[1] \in Tiers
    BY <1>1 DEF Typed
  <2>4. \A j \in told' : tier'[j[1]].reliable => j[2] = 0
    BY <1>1, <1>3, <1>8, <2>2, <2>3 DEF FirstTracker
  <2> QED
    BY <1>1, <1>8, <2>1, <2>4 DEF FirstTracker
<1>10. ASSUME exists'
       PROVE  KeysAreOld' /\ \A u \in Tiers : TierInv(u)'
  <2>1. KeysAreOld /\ exists /\ \A u \in Tiers : TierInv(u)
    BY <1>2, <1>10 DEF AInv
  <2>2. KeysAreOld'
    BY <1>2, <1>4, <1>7, <1>8, <2>1 DEF KeysAreOld
  <2>3. ASSUME NEW u \in Tiers, u # t \/ ~IsFor(q)
        PROVE  TierInv(u)'
    <3>1. Same(u)
      BY <1>5, <2>1, <2>3 DEF Same
    <3>2. SameRequests(u)
      <4>1. ~(q.tier = u /\ q.key = tier[u].key)
        BY <2>1, <2>3 DEF IsFor
      <4> QED
        BY <1>4, <4>1 DEF SameRequests
    <3>3. \A j \in told' : j[1] = u => j \in told
      BY <1>1, <1>3, <2>1, <2>3
    <3>4. Quiet' => Quiet
      BY <1>2 DEF Quiet
    <3> QED
      BY <1>2, <2>1, <3>1, <3>2, <3>3, <3>4, TierKept
  <2> QED
    BY <1>1, <2>1, <2>2, <2>3
<1> QED
  BY <1>6, <1>9, <1>10 DEF AInv

\* What is left in flight.
LEMMA FlightLeft ==
  ASSUME AInv, NEW q, NEW r, Taken(q, r), IsFor(q)
  PROVE  /\ q \in Flight(q.tier)
         /\ \A p \in Flight(q.tier) : p # q => p \in Flight(q.tier)'
         /\ tier'[q.tier] = r /\ q.tier \in Tiers
         /\ Flight(q.tier) = {q} /\ announces[q] = 1 => Flight(q.tier)' = {}
<1>1. Typed /\ q.tier \in Tiers /\ IsABag(announces) /\ BagIn(q, announces)
  BY DEF AInv, Taken, Typed, Requests, BagIn
<1>2. announces' = announces (-) SetToBag({q}) /\ tier' = [tier EXCEPT ![q.tier] = r] /\ r.key = tier[q.tier].key
  BY DEF Taken, Answered
<1>3. /\ BagToSet(announces') \subseteq BagToSet(announces)
      /\ \A e \in BagToSet(announces) : e # q => e \in BagToSet(announces')
      /\ announces[q] = 1 => q \notin BagToSet(announces')
  BY <1>1, <1>2, BagShrinks
<1>4. tier'[q.tier] = r
  BY <1>1, <1>2 DEF Typed
<1>5. q \in Flight(q.tier)
  BY <1>1 DEF Flight, IsFor, BagIn
<1>6. \A p : p \in Flight(q.tier)' <=> p \in BagToSet(announces') /\ p.tier = q.tier /\ p.key = tier[q.tier].key
  BY <1>2, <1>4 DEF Flight
<1>7. \A p : p \in Flight(q.tier) <=> p \in BagToSet(announces) /\ p.tier = q.tier /\ p.key = tier[q.tier].key
  BY DEF Flight
<1> QED
  BY <1>1, <1>3, <1>4, <1>5, <1>6, <1>7

\* An announce fails: its event goes back to the queue.
LEMMA FailsKeep ==
  ASSUME AInv, NEW q \in BagToSet(announces), AnnounceFails(q)
  PROVE  AInv'
<1> DEFINE t == q.tier
           n == NextTracker([tier[t] EXCEPT !.isAnnouncing = FALSE])
           r == tier_announce_event_push(n, q.event, "later")
<1>1. Typed /\ q \in Requests /\ t \in Tiers /\ tier[t] \in Tier /\ q.event \in Events /\ ~tier[t].reliable
  BY DEF AInv, Typed, Requests, AnnounceFails
<1>2. /\ Answered(q) /\ told' \in {told, Hears(q)} /\ completing' = completing
      /\ UNCHANGED <<isRunning, exists, scrapes, completedLate, commands>>
      /\ tier' = IF ~IsFor(q) THEN tier ELSE [tier EXCEPT ![t] = r]
  BY DEF AnnounceFails
<1>3. n \in Tier /\ n.events = tier[t].events /\ n.key = tier[t].key /\ n.reliable = tier[t].reliable
  <2> DEFINE m == (tier[t].tracker + 1) % TrackerCount
  <2>1. m \in Nat
    BY <1>1, AnnouncerAssumption, NextIs DEF Tier
  <2>2. n = [[tier[t] EXCEPT !.isAnnouncing = FALSE] EXCEPT !.tracker = m, !.isAnnouncing = FALSE, !.isScraping = FALSE]
    BY <1>1 DEF NextTracker, Tier
  <2> HIDE DEF m, n
  <2> QED
    BY <1>1, <2>1, <2>2 DEF Tier
<1> HIDE DEF n
<1>4. /\ r \in Tier /\ r.key = tier[t].key /\ r.reliable = tier[t].reliable
      /\ "completed" \in Range(tier[t].events) \/ q.event = "completed" => "completed" \in Range(r.events)
  <2>1. "later" \in Times
    BY DEF Times
  <2> QED
    BY <1>1, <1>3, <2>1, PushIs
<1> HIDE DEF r
<1>5. CASE IsFor(q)
  <2>1. Taken(q, r)
    BY <1>1, <1>2, <1>4, <1>5 DEF Taken
  <2>2. TierInv(t)'
    <3>1. /\ \A p \in Flight(t) : p # q => p \in Flight(t)'
          /\ tier'[t] = r
      BY <1>5, <2>1, FlightLeft
    <3>2. TierInv(t)
      BY <1>1, <1>5 DEF AInv, IsFor
    <3>3. t \in completing' => \/ "completed" \in Range(tier'[t].events)
                               \/ \E p \in Flight(t)' : p.event = "completed"
      <4> SUFFICES ASSUME t \in completing, "completed" \notin Range(r.events)
                   PROVE  \E p \in Flight(t)' : p.event = "completed"
        BY <1>2, <3>1
      <4>1. PICK p \in Flight(t) : p.event = "completed"
        BY <1>4, <3>2 DEF TierInv
      <4> QED
        BY <1>4, <3>1, <4>1
    <3> QED
      BY <1>1, <1>4, <3>1, <3>3 DEF TierInv
  <2> QED
    BY <1>5, <2>1, <2>2, TakenKeeps
<1>6. CASE ~IsFor(q)
  <2>1. tier' = [tier EXCEPT ![t] = tier[t]]
    BY <1>1, <1>2, <1>6 DEF Typed
  <2>2. Taken(q, tier[t])
    BY <1>1, <1>2, <2>1 DEF Taken
  <2>3. Same(t)
    BY <1>2, <1>6 DEF Same
  <2> QED
    BY <1>6, <2>2, <2>3, TakenKeeps
<1> QED
  BY <1>5, <1>6

\* An announce succeeds.
LEMMA SucceedsKeep ==
  ASSUME AInv, NEW q \in BagToSet(announces), AnnounceSucceeds(q)
  PROVE  AInv'
<1> DEFINE t == q.tier
<1>1. Typed /\ q \in Requests /\ t \in Tiers /\ tier[t] \in Tier /\ q.event \in Events
  BY DEF AInv, Typed, Requests
<1>2. /\ Answered(q) /\ told' = Hears(q)
      /\ UNCHANGED <<isRunning, exists, scrapes, completedLate, commands>>
  BY DEF AnnounceSucceeds
<1>5. CASE IsFor(q)
  <2>1. PICK scrapeAt \in {tier[t].scrapeAt, "later", "due"} : tier' = [tier EXCEPT ![t] = Succeeded(tier[t], q, scrapeAt)]
    BY <1>1, <1>5 DEF AnnounceSucceeds, Typed
  <2>2. completing' = IF q.event = "completed" THEN completing \ {t} ELSE completing
    BY <1>5 DEF AnnounceSucceeds
  <2> DEFINE s == [tier[t] EXCEPT !.isAnnouncing = FALSE, !.isRunning = q.isRunningOnSuccess, !.scrapeAt = scrapeAt]
             r == Succeeded(tier[t], q, scrapeAt)
  <2>3. /\ s \in Tier /\ s.events = tier[t].events /\ s.key = tier[t].key /\ s.reliable = tier[t].reliable
        /\ s.tracker = tier[t].tracker
    BY <1>1, <2>1 DEF Tier, Times, Requests
  <2>4. r = IF q.event # "stopped" /\ s.events = <<>> THEN tier_announce_event_push(s, "none", "later") ELSE s
    BY DEF Succeeded
  <2> HIDE DEF s, r
  <2>5. /\ r \in Tier /\ r.key = tier[t].key /\ r.reliable = tier[t].reliable /\ r.tracker = tier[t].tracker
        /\ "completed" \in Range(tier[t].events) => "completed" \in Range(r.events)
        /\ q.event = "stopped" \/ tier[t].events # <<>> => r.events = tier[t].events
    <3>1. "none" \in Events /\ "later" \in Times
      BY DEF Events, Times
    <3>2. CASE q.event # "stopped" /\ s.events = <<>>
      <4>1. r = tier_announce_event_push(s, "none", "later")
        BY <2>4, <3>2
      <4> QED
        BY <2>3, <3>1, <3>2, <4>1, PushIs
    <3>3. CASE ~(q.event # "stopped" /\ s.events = <<>>)
      BY <2>3, <2>4, <3>3
    <3> QED
      BY <3>2, <3>3
  <2>6. Taken(q, r)
    BY <1>2, <2>1, <2>2, <2>5 DEF Taken, r
  <2>7. TierInv(t) /\ exists
    BY <1>1, <1>5 DEF AInv, IsFor
  <2>8. /\ q \in Flight(t) /\ tier'[t] = r
        /\ \A p \in Flight(t) : p # q => p \in Flight(t)'
        /\ Flight(t) = {q} /\ announces[q] = 1 => Flight(t)' = {}
    BY <1>5, <2>6, FlightLeft
  <2>9. t \in completing' => \/ "completed" \in Range(tier'[t].events)
                             \/ \E p \in Flight(t)' : p.event = "completed"
    <3> SUFFICES ASSUME t \in completing', "completed" \notin Range(r.events)
                 PROVE  \E p \in Flight(t)' : p.event = "completed"
      BY <2>8
    <3>1. t \in completing /\ q.event # "completed"
      BY <2>2
    <3>2. PICK p \in Flight(t) : p.event = "completed"
      BY <2>5, <2>7, <3>1 DEF TierInv
    <3> QED
      BY <2>8, <3>1, <3>2
  <2>10. ASSUME tier[t].reliable
         PROVE  Flight(t)' = {} /\ (Quiet' => StopIsLast(t)')
    <3>1. Flight(t) = {q} /\ announces[q] = 1
      BY <2>7, <2>8, <2>10 DEF TierInv
    <3>2. Flight(t)' = {}
      BY <2>8, <3>1
    <3>3. ASSUME Quiet'
          PROVE  StopIsLast(t)'
      <4>1. StopIsLast(t)
        BY <1>2, <2>7, <2>10, <3>3 DEF TierInv, Quiet
      <4>2. q.event = "stopped" \/ tier[t].events # <<>>
        BY <3>1, <4>1 DEF StopIsLast
      <4>3. r.events = tier[t].events
        BY <2>5, <4>2
      <4>4. tier[t].events = <<>> => \A k \in told' : k[1] # t
        <5> SUFFICES ASSUME tier[t].events = <<>>, NEW k \in told', k[1] = t
                     PROVE  FALSE
          OBVIOUS
        <5>1. told' = told \ {<<t, q.tracker>>}
          BY <1>2, <1>5, <4>2 DEF Hears
        <5>2. q.tracker = 0 /\ k[2] = 0
          BY <2>10, <5>1 DEF AInv, FirstTracker
        <5>3. k = <<k[1], k[2]>>
          BY <1>1, <5>1 DEF Typed
        <5> QED
          BY <5>1, <5>2, <5>3
      <4> QED
        BY <2>8, <3>2, <4>1, <4>3, <4>4 DEF StopIsLast
    <3> QED
      BY <3>2, <3>3
  <2>11. TierInv(t)'
    BY <2>5, <2>8, <2>9, <2>10 DEF TierInv
  <2> QED
    BY <1>5, <2>6, <2>11, TakenKeeps
<1>6. CASE ~IsFor(q)
  <2>0. tier' = tier /\ completing' = completing
    BY <1>6 DEF AnnounceSucceeds
  <2>1. tier' = [tier EXCEPT ![t] = tier[t]]
    BY <1>1, <2>0 DEF Typed
  <2>2. Taken(q, tier[t])
    BY <1>1, <1>2, <2>0, <2>1 DEF Taken
  <2>3. Same(t)
    BY <2>0 DEF Same
  <2> QED
    BY <1>6, <2>2, <2>3, TakenKeeps
<1> QED
  BY <1>5, <1>6

-----------------------------------------------------------------------------
(* The theorems. *)

\* Nothing has been told to anybody when the session starts.
LEMMA InitAInv ==
  ASSUME Init
  PROVE  AInv
<1>1. PICK reliable \in [Tiers -> BOOLEAN] : tier = [t \in Tiers |-> NewTier(reliable[t], 0)]
  BY DEF Init
<1>2. ASSUME NEW t \in Tiers
      PROVE  tier[t] \in Tier /\ tier[t].events = <<>> /\ tier[t].key = 0 /\ tier[t].tracker = 0
  <2>1. reliable[t] \in BOOLEAN /\ 0 \in 0 .. MaxCommands /\ <<>> \in Seq(Events)
    BY AnnouncerAssumption
  <2> QED
    BY <1>1, <2>1 DEF NewTier, Tier, Times
<1>3. BagToSet(announces) = {} /\ BagToSet(scrapes) = {} /\ IsABag(announces) /\ IsABag(scrapes)
  BY DEF Init, EmptyBag, SetToBag, BagToSet, IsABag
<1>4. Typed
  <2>1. tier \in [Tiers -> Tier]
    BY <1>1, <1>2
  <2>2. told \subseteq Tiers \X Nat /\ completing \subseteq Tiers
    BY DEF Init
  <2>3. isRunning \in BOOLEAN /\ exists \in BOOLEAN /\ completedLate \in BOOLEAN
    BY DEF Init
  <2>4. commands \in 0 .. MaxCommands
    BY AnnouncerAssumption DEF Init
  <2> QED
    BY <1>3, <2>1, <2>2, <2>3, <2>4 DEF Typed
<1>5. FirstTracker /\ KeysAreOld
  BY <1>2, <1>3 DEF Init, FirstTracker, KeysAreOld
<1>6. \A t \in Tiers : TierInv(t)
  BY <1>2, <1>3 DEF Init, TierInv, Flight, StopIsLast
<1> QED
  BY <1>4, <1>5, <1>6 DEF AInv

\* A tier that still has to tell of "completed" or "stopped" has it in its queue or on its way.
THEOREM AnnouncerInvariance == Spec => []AInv
<1>1. Init => AInv
  BY InitAInv
<1>2. AInv /\ [Next]_vars => AInv'
  <2> SUFFICES ASSUME AInv, [Next]_vars
               PROVE  AInv'
    OBVIOUS
  <2>1. CASE announceMore \/ FlushCloseMessages \/ RemoveTorrent
    BY <2>1, MoreKeeps, FlushKeeps, RemoveKeeps
  <2>2. CASE \E t \in Tiers : FallsDue(t)
    BY <2>2, FallsDueKeeps
  <2>3. CASE \E t \in Tiers, key \in 0 .. MaxCommands : AnnounceAnswered(t, key)
    BY <2>3, FailsKeep, SucceedsKeep DEF AnnounceAnswered
  <2>4. CASE ScrapeAnswered
    BY <2>4, ScrapeDoneKeeps DEF ScrapeAnswered
  <2>5. CASE Start \/ Stop \/ Complete \/ Reannounce
    BY <2>5, CommandsKeep
  <2>6. CASE \E F \in SUBSET Tiers \ {{}} : ResetTorrent(F)
    BY <2>6, ResetKeeps
  <2>7. CASE UNCHANGED vars
    <3>1. UNCHANGED <<tier, isRunning, exists, announces, scrapes, told, completing, completedLate, commands>>
      BY <2>7 DEF vars
    <3>2. Typed' /\ commands <= commands'
      BY <3>1 DEF AInv, Typed
    <3> QED
      BY <3>1, <3>2, AllKept DEF Same
  <2> QED
    BY <2>1, <2>2, <2>3, <2>4, <2>5, <2>6, <2>7 DEF Next
<1> QED
  BY <1>1, <1>2, PTL DEF Spec

\* "completed" is queued or in flight until a tracker has acknowledged it, and so is a "stopped"
\* to the reliable trackers that take a stopped torrent to be running (announcer.c), for any number
\* of tiers, whatever fails and however late the answers are, as long as the torrent exists.
THEOREM EventsAreAlwaysTold == Spec => []EventsAreTold
<1>1. AInv => EventsAreTold
  <2> SUFFICES ASSUME AInv
               PROVE  EventsAreTold
    OBVIOUS
  <2>1. CompletedIsKept
    <3> SUFFICES ASSUME exists, NEW t \in completing
                 PROVE  \/ "completed" \in Range(tier[t].events)
                        \/ \E q \in BagToSet(announces) : q.tier = t /\ q.key = tier[t].key /\ q.event = "completed"
      BY DEF CompletedIsKept
    <3>1. TierInv(t)
      BY DEF AInv, Typed
    <3> QED
      BY <3>1 DEF TierInv, Flight
  <2>2. StoppedIsTold
    <3> SUFFICES ASSUME exists, Quiet, NEW k \in told, tier[k[1]].reliable
                 PROVE  \/ "stopped" \in Range(tier[k[1]].events)
                        \/ \E q \in BagToSet(announces) : <<q.tier, q.tracker>> = k /\ IsFor(q) /\ q.event = "stopped"
      BY DEF StoppedIsTold, Quiet
    <3> DEFINE t == k[1]
               s == tier[t].events
    <3>1. Typed /\ FirstTracker /\ t \in Tiers /\ k = <<t, k[2]>>
      BY DEF AInv, Typed
    <3>2. StopIsLast(t) /\ s \in Seq(Events)
      BY <3>1 DEF AInv, TierInv, Typed, Tier
    <3>3. CASE s # <<>>
      <4>1. Len(s) \in DOMAIN s /\ s[Len(s)] = "stopped"
        <5>1. s[Len(s)] = "stopped"
          BY <3>2, <3>3 DEF StopIsLast
        <5> HIDE DEF s
        <5>2. Len(s) \in DOMAIN s
          BY <3>2, <3>3
        <5> QED
          BY <5>1, <5>2
      <4> QED
        BY <4>1 DEF Range
    <3>4. CASE s = <<>>
      <4>1. PICK q \in Flight(t) : q.event = "stopped"
        BY <3>2, <3>4 DEF StopIsLast
      <4>2. q \in BagToSet(announces) /\ q.tier = t /\ q.key = tier[t].key
        BY DEF Flight
      <4>3. q.tracker = 0 /\ k[2] = 0
        BY <3>1, <4>2 DEF FirstTracker
      <4>4. <<q.tier, q.tracker>> = k /\ IsFor(q)
        BY <3>1, <4>2, <4>3 DEF IsFor
      <4> QED
        BY <4>1, <4>2, <4>4
    <3> QED
      BY <3>3, <3>4
  <2> QED
    BY <2>1, <2>2 DEF EventsAreTold
<1> QED
  BY <1>1, AnnouncerInvariance, PTL
-----------------------------------------------------------------------------
(* Queues and slots. *)

\* What tier_announce_event_push leaves in a queue.
Tidy(s) ==
  /\ \A n \in 1 .. Len(s) - 1 : s[n] # s[n + 1] /\ s[n] # "none"
  /\ \A m, n \in DOMAIN s : m < n /\ s[n] = "stopped" => s[m] = "completed"

Sound(r) == r.tracker \in Trackers /\ (r.announceAt = "never" => r.events = <<>>) /\ Tidy(r.events)

\* The slots that are free and those that are taken, and the rest of the types.
Counted ==
  /\ slotsAvailable \in Nat /\ IsFiniteSet(InFlight)
  /\ slotsAvailable + Cardinality(InFlight) >= MaxTasks
  /\ stops \subseteq Tiers \X Nat /\ scraped \in 0 .. MaxScrapes

SoundInv == (\A t \in Tiers : Sound(tier[t])) /\ Counted

\* The beginning of a tidy queue is tidy, and so is the rest of it.
LEMMA TidyParts ==
  ASSUME NEW s \in Seq(Events), Tidy(s)
  PROVE  /\ \A m \in 0 .. Len(s) : Tidy(SubSeq(s, 1, m))
         /\ s # <<>> => Tidy(Tail(s))
<1>1. Len(s) \in Nat /\ DOMAIN s = 1 .. Len(s)
  OBVIOUS
<1>2. ASSUME NEW m \in 0 .. Len(s)
      PROVE  Tidy(SubSeq(s, 1, m))
  <2> DEFINE u == SubSeq(s, 1, m)
  <2>1. Len(u) = m /\ DOMAIN u = 1 .. m /\ \A n \in 1 .. m : u[n] = s[n]
    BY <1>1
  <2> HIDE DEF u
  <2>2. \A n \in 1 .. Len(u) - 1 : u[n] # u[n + 1] /\ u[n] # "none"
    <3> SUFFICES ASSUME NEW n \in 1 .. Len(u) - 1
                 PROVE  u[n] # u[n + 1] /\ u[n] # "none"
      OBVIOUS
    <3>1. n \in 1 .. m /\ n + 1 \in 1 .. m /\ n \in 1 .. Len(s) - 1
      BY <1>1, <2>1
    <3> QED
      BY <2>1, <3>1 DEF Tidy
  <2>3. \A k, n \in DOMAIN u : k < n /\ u[n] = "stopped" => u[k] = "completed"
    <3> SUFFICES ASSUME NEW k \in 1 .. m, NEW n \in 1 .. m, k < n, u[n] = "stopped"
                 PROVE  u[k] = "completed"
      BY <2>1
    <3>1. k \in DOMAIN s /\ n \in DOMAIN s
      BY <1>1
    <3> QED
      BY <2>1, <3>1 DEF Tidy
  <2> QED
    BY <2>2, <2>3 DEF Tidy, u
<1>3. ASSUME s # <<>>
      PROVE  Tidy(Tail(s))
  <2> DEFINE u == Tail(s)
  <2>1. /\ Len(s) \in Nat \ {0} /\ Len(u) = Len(s) - 1 /\ DOMAIN u = 1 .. Len(u)
        /\ \A n \in 1 .. Len(s) - 1 : u[n] = s[n + 1]
    BY <1>3
  <2> HIDE DEF u
  <2>2. \A n \in 1 .. Len(u) - 1 : u[n] # u[n + 1] /\ u[n] # "none"
    <3> SUFFICES ASSUME NEW n \in 1 .. Len(u) - 1
                 PROVE  u[n] # u[n + 1] /\ u[n] # "none"
      OBVIOUS
    <3>1. n \in 1 .. Len(s) - 1 /\ n + 1 \in 1 .. Len(s) - 1
      BY <2>1
    <3>2. u[n] = s[n + 1] /\ u[n + 1] = s[(n + 1) + 1]
      BY <2>1, <3>1
    <3> QED
      BY <3>1, <3>2 DEF Tidy
  <2>3. \A k, n \in DOMAIN u : k < n /\ u[n] = "stopped" => u[k] = "completed"
    <3> SUFFICES ASSUME NEW k \in 1 .. Len(s) - 1, NEW n \in 1 .. Len(s) - 1, k < n, u[n] = "stopped"
                 PROVE  u[k] = "completed"
      BY <2>1
    <3>1. k + 1 \in DOMAIN s /\ n + 1 \in DOMAIN s /\ k + 1 < n + 1
      BY <1>1
    <3> QED
      BY <2>1, <3>1 DEF Tidy
  <2> QED
    BY <2>2, <2>3 DEF Tidy, u
<1> QED
  BY <1>2, <1>3

\* What is left when the end of a queue is cut off does not end with e.
LEMMA WithoutEnds ==
  ASSUME NEW s \in Seq(Events), NEW e
  PROVE  LET w == Without(s, e) IN
         /\ \E m \in 0 .. Len(s) : w = SubSeq(s, 1, m)
         /\ w # <<>> => w[Len(w)] # e
<1> DEFINE T == {0} \cup {n \in DOMAIN s : s[n] # e}
           m == Max(T)
           w == SubSeq(s, 1, m)
<1>1. Len(s) \in Nat /\ DOMAIN s = 1 .. Len(s)
  OBVIOUS
<1>2. T \in SUBSET (0 .. Len(s)) /\ T # {}
  BY <1>1
<1>3. m \in T
  BY <1>1, <1>2, MaxIs
<1>4. m \in 0 .. Len(s) /\ (m # 0 => s[m] # e)
  BY <1>2, <1>3
<1> HIDE DEF m, T
<1>5. Len(w) = m /\ \A n \in 1 .. m : w[n] = s[n]
  BY <1>1, <1>4
<1>6. w # <<>> => m \in 1 .. m
  <2> SUFFICES ASSUME w # <<>> PROVE m # 0
    BY <1>4
  <2>1. m = 0 => SubSeq(s, 1, m) = <<>>
    BY <1>1
  <2> QED
    BY <2>1
<1>7. w # <<>> => w[Len(w)] # e
  BY <1>4, <1>5, <1>6
<1>8. Without(s, e) = w
  BY DEF Without, w, m, T
<1> QED
  BY <1>4, <1>7, <1>8

\* An event is put in a tidy queue.
LEMMA TidyPush ==
  ASSUME NEW s \in Seq(Events), Tidy(s), NEW e \in Events
  PROVE  Tidy(Append(Without(Without(Leading(s, e), "none"), e), e))
<1> DEFINE l == Leading(s, e)
           v == Without(l, "none")
           w == Without(v, e)
           q == Append(w, e)
<1>1. /\ l \in Seq(Events) /\ Tidy(l)
      /\ e = "stopped" => \A n \in DOMAIN l : l[n] = "completed"
  <2>1. CASE e # "stopped"
    BY <2>1 DEF Leading
  <2>2. CASE e = "stopped" /\ "completed" \in Range(s)
    <3>1. l = <<"completed">>
      BY <2>2 DEF Leading
    <3>2. l \in Seq(Events) /\ Len(l) = 1 /\ DOMAIN l = {1} /\ l[1] = "completed"
      BY <3>1 DEF Events
    <3> HIDE DEF l
    <3> QED
      BY <3>2 DEF Tidy
  <2>3. CASE e = "stopped" /\ "completed" \notin Range(s)
    <3>1. l = <<>>
      BY <2>3 DEF Leading
    <3>2. l \in Seq(Events) /\ Len(l) = 0 /\ DOMAIN l = {}
      BY <3>1
    <3> HIDE DEF l
    <3> QED
      BY <3>2 DEF Tidy
  <2> QED
    BY <2>1, <2>2, <2>3
<1> HIDE DEF l
<1>2. PICK i \in 0 .. Len(l) : v = SubSeq(l, 1, i)
  BY <1>1, WithoutEnds
<1>3. v # <<>> => v[Len(v)] # "none"
  BY <1>1, WithoutEnds
<1> HIDE DEF v
<1>4. v \in Seq(Events) /\ Tidy(v) /\ Len(v) = i /\ \A n \in 1 .. i : v[n] = l[n]
  BY <1>1, <1>2, TidyParts
<1>5. PICK j \in 0 .. Len(v) : w = SubSeq(v, 1, j)
  BY <1>4, WithoutEnds
<1>6. w # <<>> => w[Len(w)] # e
  BY <1>4, WithoutEnds
<1> HIDE DEF w
<1>7. w \in Seq(Events) /\ Tidy(w) /\ Len(w) = j /\ \A n \in 1 .. j : w[n] = v[n]
  BY <1>4, <1>5, TidyParts
<1>8. \A n \in 1 .. j : w[n] # "none"
  <2> SUFFICES ASSUME NEW n \in 1 .. j PROVE v[n] # "none"
    BY <1>7
  <2>1. CASE n = Len(v)
    <3>1. v # <<>>
      BY <1>4, <2>1
    <3> QED
      BY <1>3, <2>1, <3>1
  <2>2. CASE n # Len(v)
    <3>1. n \in 1 .. Len(v) - 1
      BY <1>4, <1>5, <2>2
    <3> QED
      BY <1>4, <3>1 DEF Tidy
  <2> QED
    BY <2>1, <2>2
<1>9. e = "stopped" => \A n \in 1 .. j : w[n] = "completed"
  <2> SUFFICES ASSUME e = "stopped", NEW n \in 1 .. j PROVE l[n] = "completed"
    BY <1>4, <1>7, <1>5
  <2>1. n \in DOMAIN l
    BY <1>1, <1>2, <1>4, <1>5
  <2> QED
    BY <1>1, <2>1
<1>10. /\ j \in Nat /\ Len(q) = j + 1 /\ DOMAIN q = 1 .. j + 1 /\ q[j + 1] = e
       /\ \A n \in 1 .. j : q[n] = w[n]
  BY <1>5, <1>7, <1>4
<1> HIDE DEF q
<1>11. \A n \in 1 .. Len(q) - 1 : q[n] # q[n + 1] /\ q[n] # "none"
  <2> SUFFICES ASSUME NEW n \in 1 .. j
               PROVE  q[n] # q[n + 1] /\ q[n] # "none"
    BY <1>10
  <2>1. CASE n = j
    <3>1. w # <<>>
      BY <1>7, <1>10, <2>1
    <3> QED
      BY <1>6, <1>7, <1>8, <1>10, <2>1, <3>1
  <2>2. CASE n # j
    <3>1. n \in 1 .. Len(w) - 1 /\ n + 1 \in 1 .. j
      BY <1>7, <1>10, <2>2
    <3>2. w[n] # w[n + 1] /\ w[n] # "none"
      BY <1>7, <3>1 DEF Tidy
    <3> QED
      BY <1>10, <3>1, <3>2
  <2> QED
    BY <2>1, <2>2
<1>12. \A m, n \in DOMAIN q : m < n /\ q[n] = "stopped" => q[m] = "completed"
  <2> SUFFICES ASSUME NEW m \in 1 .. j + 1, NEW n \in 1 .. j + 1, m < n, q[n] = "stopped"
               PROVE  q[m] = "completed"
    BY <1>10
  <2>1. m \in 1 .. j /\ m \in DOMAIN w
    BY <1>7, <1>10
  <2>2. CASE n = j + 1
    BY <1>9, <1>10, <2>1, <2>2
  <2>3. CASE n # j + 1
    <3>1. n \in 1 .. j /\ n \in DOMAIN w
      BY <1>7, <1>10, <2>3
    <3>2. w[n] = "stopped"
      BY <1>10, <3>1
    <3>3. w[m] = "completed"
      BY <1>7, <2>1, <3>1, <3>2 DEF Tidy
    <3> QED
      BY <1>10, <2>1, <3>3
  <2> QED
    BY <2>2, <2>3
<1>13. Tidy(q)
  BY <1>11, <1>12 DEF Tidy
<1> QED
  BY <1>13 DEF q, w, v, l
\* The copies in a bag.
Copies(B) == UNION {{q} \X (1 .. B[q]) : q \in BagToSet(B)}

\* When a set is added there is one more for each element,
LEMMA CopiesGrow ==
  ASSUME NEW B, IsABag(B), NEW S, IsFiniteSet(S), IsFiniteSet(Copies(B))
  PROVE  LET C == B (+) SetToBag(S) IN
         IsFiniteSet(Copies(C)) /\ Cardinality(Copies(C)) = Cardinality(Copies(B)) + Cardinality(S)
<1> DEFINE C == B (+) SetToBag(S)
           P(e) == IF e \in DOMAIN B THEN B[e] ELSE 0
           f == [e \in S |-> <<e, P(e) + 1>>]
           N == {<<e, P(e) + 1>> : e \in S}
<1>1. /\ DOMAIN C = DOMAIN B \cup S
      /\ \A e \in DOMAIN C : C[e] = P(e) + (IF e \in S THEN 1 ELSE 0)
      /\ \A e \in DOMAIN B : B[e] \in Nat
  BY DEF SetToBag, (+), IsABag
<1> HIDE DEF C
<1>2. \A e : P(e) \in Nat
  BY <1>1
<1>3. \A x : x \in Copies(B) <=> \E e, n : x = <<e, n>> /\ e \in DOMAIN B /\ n \in 1 .. P(e)
  BY DEF Copies, BagToSet
<1>4. \A x : x \in Copies(C) <=> \E e, n : x = <<e, n>> /\ e \in DOMAIN C /\ n \in 1 .. C[e]
  BY DEF Copies, BagToSet
<1>5. Copies(C) = Copies(B) \cup N
  <2>1. ASSUME NEW x \in Copies(C)
        PROVE  x \in Copies(B) \cup N
    <3>1. PICK e, n : x = <<e, n>> /\ e \in DOMAIN C /\ n \in 1 .. C[e]
      BY <1>4
    <3>2. C[e] = P(e) + (IF e \in S THEN 1 ELSE 0) /\ P(e) \in Nat
      BY <1>1, <1>2, <3>1
    <3> HIDE DEF P
    <3>3. CASE n \in 1 .. P(e)
      <4>1. e \in DOMAIN B
        BY <3>3, <3>2 DEF P
      <4> QED
        BY <1>3, <3>1, <3>3, <4>1
    <3>4. CASE n \notin 1 .. P(e)
      <4>1. e \in S /\ n = P(e) + 1
        BY <3>1, <3>2, <3>4
      <4> QED
        BY <3>1, <4>1
    <3> QED
      BY <3>3, <3>4
  <2>2. ASSUME NEW x \in Copies(B)
        PROVE  x \in Copies(C)
    <3>1. PICK e, n : x = <<e, n>> /\ e \in DOMAIN B /\ n \in 1 .. P(e)
      BY <1>3
    <3>2. e \in DOMAIN C /\ C[e] = P(e) + (IF e \in S THEN 1 ELSE 0) /\ P(e) \in Nat
      BY <1>1, <1>2, <3>1
    <3> HIDE DEF P
    <3>3. n \in 1 .. C[e]
      BY <3>1, <3>2
    <3> QED
      BY <1>4, <3>1, <3>2, <3>3
  <2>3. ASSUME NEW e \in S
        PROVE  <<e, P(e) + 1>> \in Copies(C)
    <3>1. e \in DOMAIN C /\ C[e] = P(e) + 1 /\ P(e) \in Nat
      BY <1>1, <1>2
    <3> HIDE DEF P
    <3>2. P(e) + 1 \in 1 .. C[e]
      BY <3>1
    <3> QED
      BY <1>4, <3>1, <3>2
  <2> QED
    BY <2>1, <2>2, <2>3
<1>6. Copies(B) \cap N = {}
  <2> SUFFICES ASSUME NEW e \in S, <<e, P(e) + 1>> \in Copies(B)
               PROVE  FALSE
    OBVIOUS
  <2>1. P(e) + 1 \in 1 .. P(e) /\ P(e) \in Nat
    BY <1>2, <1>3
  <2> HIDE DEF P
  <2> QED
    BY <2>1
<1>7. IsFiniteSet(N) /\ Cardinality(N) = Cardinality(S)
  <2> HIDE DEF P
  <2>1. f \in Bijection(S, N)
    <3>1. f \in [S -> N] /\ (\A e, g \in S : f[e] = f[g] => e = g) /\ \A x \in N : \E e \in S : f[e] = x
      OBVIOUS
    <3> HIDE DEF f, N
    <3> QED
      BY <3>1 DEF Bijection, Injection, Surjection, IsInjective
  <2> HIDE DEF f, N
  <2> QED
    BY <2>1, FS_Bijection DEF ExistsBijection
<1> HIDE DEF N
<1>8. /\ IsFiniteSet(Copies(B) \cup N)
      /\ Cardinality(Copies(B) \cup N) = Cardinality(Copies(B)) + Cardinality(N) - Cardinality(Copies(B) \cap N)
  BY <1>7, FS_Union
<1>9. Cardinality(Copies(B) \cap N) = 0 /\ Cardinality(Copies(B)) \in Nat /\ Cardinality(N) \in Nat
  BY <1>6, <1>7, FS_EmptySet, FS_CardinalityType
<1> QED
  BY <1>5, <1>7, <1>8, <1>9 DEF C

\* and when one is taken out there is one less.
LEMMA CopiesShrink ==
  ASSUME NEW B, IsABag(B), NEW q, BagIn(q, B), IsFiniteSet(Copies(B))
  PROVE  LET C == B (-) SetToBag({q}) IN
         IsFiniteSet(Copies(C)) /\ Cardinality(Copies(C)) + 1 = Cardinality(Copies(B))
<1> DEFINE C == B (-) SetToBag({q})
<1>1. /\ q \in DOMAIN B /\ \A e \in DOMAIN B : B[e] \in Nat \ {0}
      /\ \A e : e \in DOMAIN C <=> e \in DOMAIN B /\ (e = q => B[e] > 1)
      /\ \A e \in DOMAIN C : C[e] = IF e = q THEN B[e] - 1 ELSE B[e]
  BY DEF SetToBag, (-), IsABag, BagIn, BagToSet
<1> HIDE DEF C
<1>2. \A x : x \in Copies(B) <=> \E e, n : x = <<e, n>> /\ e \in DOMAIN B /\ n \in 1 .. B[e]
  BY DEF Copies, BagToSet
<1>3. \A x : x \in Copies(C) <=> \E e, n : x = <<e, n>> /\ e \in DOMAIN C /\ n \in 1 .. C[e]
  BY DEF Copies, BagToSet
<1>4. Copies(C) = Copies(B) \ {<<q, B[q]>>}
  <2>1. ASSUME NEW e, NEW n
        PROVE  <<e, n>> \in Copies(C) <=> <<e, n>> \in Copies(B) /\ <<e, n>> # <<q, B[q]>>
    <3>1. <<e, n>> \in Copies(C) <=> e \in DOMAIN C /\ n \in 1 .. C[e]
      BY <1>3
    <3>2. <<e, n>> \in Copies(B) <=> e \in DOMAIN B /\ n \in 1 .. B[e]
      BY <1>2
    <3>3. CASE e = q
      BY <1>1, <3>1, <3>2, <3>3
    <3>4. CASE e # q
      BY <1>1, <3>1, <3>2, <3>4
    <3> QED
      BY <3>3, <3>4
  <2>2. \A x \in Copies(C) \cup Copies(B) : \E e, n : x = <<e, n>>
    BY <1>2, <1>3
  <2> QED
    BY <2>1, <2>2
<1>5. <<q, B[q]>> \in Copies(B)
  <2>1. B[q] \in 1 .. B[q]
    BY <1>1
  <2> QED
    BY <1>1, <1>2, <2>1
<1>6. Cardinality(Copies(B)) \in Nat
  BY FS_CardinalityType
<1>7. IsFiniteSet(Copies(C)) /\ Cardinality(Copies(C)) = Cardinality(Copies(B)) - 1
  BY <1>4, <1>5, FS_RemoveElement
<1>8. Cardinality(Copies(C)) + 1 = Cardinality(Copies(B))
  BY <1>6, <1>7
<1> QED
  BY <1>7, <1>8 DEF C

\* A tier gets an event, is new, or turns to its next tracker.
LEMMA PushIsSound ==
  ASSUME NEW r \in Tier, Sound(r), NEW e \in Events, NEW at \in {"later", "due"}
  PROVE  Sound(tier_announce_event_push(r, e, at))
<1> DEFINE q == Append(Without(Without(Leading(r.events, e), "none"), e), e)
           p == tier_announce_event_push(r, e, at)
<1>1. Tidy(q)
  BY TidyPush DEF Tier, Sound
<1> HIDE DEF q
<1>2. p = [r EXCEPT !.events = q, !.announceAt = at]
  BY DEF tier_announce_event_push, q
<1>3. p.events = q /\ p.announceAt = at /\ p.tracker = r.tracker
  BY <1>2 DEF Tier
<1> QED
  BY <1>1, <1>3 DEF Sound

LEMMA NewIsSound ==
  ASSUME NEW reliable \in BOOLEAN, NEW key \in 0 .. MaxCommands
  PROVE  NewTier(reliable, key) \in Tier /\ Sound(NewTier(reliable, key))
<1> DEFINE r == NewTier(reliable, key)
<1>1. r \in Tier /\ r.events = <<>> /\ r.tracker = 0
  <2>1. <<>> \in Seq(Events)
    OBVIOUS
  <2> QED
    BY <2>1 DEF NewTier, Tier, Times
<1> HIDE DEF r
<1>2. 0 \in Trackers
  BY AnnouncerAssumption DEF Trackers
<1>3. Tidy(<<>>)
  BY DEF Tidy
<1> QED
  BY <1>1, <1>2, <1>3 DEF Sound, r

LEMMA NextIsSound ==
  ASSUME NEW r \in Tier, Sound(r)
  PROVE  NextTracker(r) \in Tier /\ Sound(NextTracker(r))
<1> DEFINE m == (r.tracker + 1) % TrackerCount
<1>1. m \in Trackers /\ m \in Nat
  BY AnnouncerAssumption DEF Tier, Trackers
<1>2. NextTracker(r) = [r EXCEPT !.tracker = m, !.isAnnouncing = FALSE, !.isScraping = FALSE]
  BY DEF NextTracker
<1> HIDE DEF m
<1> QED
  BY <1>1, <1>2 DEF Tier, Sound

\* The slots do not change, and neither do the requests that take them.
LEMMA CountedKept ==
  ASSUME Counted, UNCHANGED <<slotsAvailable, announces, scraped>>, stops' \subseteq Tiers \X Nat
  PROVE  Counted'
BY DEF Counted, InFlight

\* announceMore takes a slot for each announce,
LEMMA MoreIsSound ==
  ASSUME AInv, SoundInv, announceMore
  PROVE  SoundInv'
<1> DEFINE needAnnounce == {t \in Tiers : exists /\ tierNeedsToAnnounce(tier[t])}
           needScrape   == {t \in Tiers \ needAnnounce : exists /\ tierNeedsToScrape(tier[t])}
<1>1. PICK A \in Fill(needAnnounce, slotsAvailable) :
      \E S \in Fill(needScrape, Min({slotsAvailable - Cardinality(A), MaxScrapes - scraped})) :
        /\ scraped' = scraped + Cardinality(S)
        /\ tier' = [t \in Tiers |->
                      IF t \in A THEN [tier[t] EXCEPT !.events = Tail(@), !.isAnnouncing = TRUE]
                      ELSE IF t \in S THEN [tier[t] EXCEPT !.isScraping = TRUE]
                      ELSE tier[t]]
        /\ announces' = announces (+) SetToBag({Request(t) : t \in A})
        /\ slotsAvailable' = slotsAvailable - Cardinality(A)
  BY DEF announceMore
<1>2. PICK S \in Fill(needScrape, Min({slotsAvailable - Cardinality(A), MaxScrapes - scraped})) :
        /\ scraped' = scraped + Cardinality(S)
        /\ tier' = [t \in Tiers |->
                      IF t \in A THEN [tier[t] EXCEPT !.events = Tail(@), !.isAnnouncing = TRUE]
                      ELSE IF t \in S THEN [tier[t] EXCEPT !.isScraping = TRUE]
                      ELSE tier[t]]
        /\ announces' = announces (+) SetToBag({Request(t) : t \in A})
        /\ slotsAvailable' = slotsAvailable - Cardinality(A)
  BY <1>1
<1>3. Typed /\ Counted /\ stops' = stops
  BY DEF AInv, SoundInv, announceMore
<1>4. /\ A \subseteq needAnnounce
      /\ Cardinality(A) = IF Cardinality(needAnnounce) < slotsAvailable THEN Cardinality(needAnnounce) ELSE slotsAvailable
  BY <1>1 DEF Fill
<1>5. /\ S \subseteq needScrape
      /\ LET n == Min({slotsAvailable - Cardinality(A), MaxScrapes - scraped}) IN
         Cardinality(S) = IF Cardinality(needScrape) < n THEN Cardinality(needScrape) ELSE n
  BY <1>2 DEF Fill
<1>6. \A t \in A : t \in Tiers /\ tierNeedsToAnnounce(tier[t])
  BY <1>4
<1>7. IsFiniteSet(needAnnounce) /\ IsFiniteSet(needScrape) /\ IsFiniteSet(A) /\ IsFiniteSet(S) /\ A \subseteq Tiers
  <2>1. IsFiniteSet(Tiers)
    BY AnnouncerAssumption
  <2>2. needAnnounce \subseteq Tiers /\ needScrape \subseteq Tiers
    OBVIOUS
  <2> HIDE DEF needAnnounce, needScrape
  <2>3. A \subseteq Tiers /\ S \subseteq Tiers
    BY <1>4, <1>5, <2>2
  <2> QED
    BY <2>1, <2>2, <2>3, FS_Subset
<1> HIDE DEF needAnnounce, needScrape
<1>8. Cardinality(A) \in Nat /\ Cardinality(S) \in Nat /\ Cardinality(needAnnounce) \in Nat /\ Cardinality(needScrape) \in Nat
  BY <1>7, FS_CardinalityType
<1>9. slotsAvailable' \in Nat /\ slotsAvailable' = slotsAvailable - Cardinality(A)
  <2>1. slotsAvailable \in Nat
    BY <1>3 DEF Counted
  <2>2. slotsAvailable - Cardinality(A) \in Nat
    BY <1>4, <1>8, <2>1
  <2> QED
    BY <1>2, <2>2
<1>10. scraped' \in 0 .. MaxScrapes
  <2> DEFINE T == {slotsAvailable - Cardinality(A), MaxScrapes - scraped}
  <2>0. scraped \in 0 .. MaxScrapes /\ MaxScrapes \in Nat
    BY <1>3, AnnouncerAssumption DEF Counted
  <2>1. T \subseteq Nat /\ T # {} /\ slotsAvailable - Cardinality(A) \in Nat /\ MaxScrapes - scraped \in Nat
    BY <1>9, <2>0
  <2>2. \E m \in T : \A k \in T : m <= k
    BY <2>1, LeastNumber
  <2>3. Min(T) \in T /\ \A k \in T : Min(T) <= k
    BY <2>2 DEF Min
  <2>4. Min(T) \in Nat /\ Min(T) <= MaxScrapes - scraped
    BY <2>1, <2>3
  <2>5. Cardinality(S) = IF Cardinality(needScrape) < Min(T) THEN Cardinality(needScrape) ELSE Min(T)
    BY <1>5
  <2>6. scraped' = scraped + Cardinality(S) /\ scraped \in 0 .. MaxScrapes /\ MaxScrapes \in Nat
    BY <1>2, <1>3, AnnouncerAssumption DEF Counted
  <2> HIDE DEF T
  <2> QED
    BY <1>8, <2>4, <2>5, <2>6
<1>11. Counted'
  <2> DEFINE Q == {Request(t) : t \in A}
             f == [t \in A |-> Request(t)]
  <2>1. f \in Bijection(A, Q)
    <3>1. f \in [A -> Q] /\ (\A t, u \in A : f[t] = f[u] => t = u) /\ \A x \in Q : \E t \in A : f[t] = x
      BY DEF Request
    <3> HIDE DEF f, Q
    <3> QED
      BY <3>1 DEF Bijection, Injection, Surjection, IsInjective
  <2>2. announces' = announces (+) SetToBag(Q) /\ IsABag(announces) /\ Copies(announces) = InFlight
    BY <1>2, <1>3 DEF Typed, Copies, InFlight
  <2> HIDE DEF f, Q
  <2>3. IsFiniteSet(Q) /\ Cardinality(Q) = Cardinality(A)
    BY <1>7, <2>1, FS_Bijection DEF ExistsBijection
  <2>4. IsFiniteSet(Copies(announces')) /\ Cardinality(Copies(announces')) = Cardinality(InFlight) + Cardinality(A)
    BY <1>3, <2>2, <2>3, CopiesGrow DEF Counted
  <2>5. Copies(announces') = InFlight'
    BY DEF Copies, InFlight
  <2>6. slotsAvailable + Cardinality(InFlight) >= MaxTasks /\ Cardinality(InFlight) \in Nat /\ slotsAvailable \in Nat
    BY <1>3, FS_CardinalityType DEF Counted
  <2>7. slotsAvailable' + (Cardinality(InFlight) + Cardinality(A)) >= MaxTasks
    BY <1>8, <1>9, <2>6, AnnouncerAssumption
  <2>8. stops' \subseteq Tiers \X Nat
    BY <1>3 DEF Counted
  <2> QED
    BY <1>9, <1>10, <2>4, <2>5, <2>7, <2>8 DEF Counted
<1>12. ASSUME NEW t \in Tiers
       PROVE  Sound(tier'[t])
  <2>1. tier[t] \in Tier /\ Sound(tier[t]) /\ tier[t].events \in Seq(Events)
    BY <1>3 DEF Typed, SoundInv, Tier
  <2>2. CASE t \in A
    <3>1. tier'[t] = [tier[t] EXCEPT !.events = Tail(@), !.isAnnouncing = TRUE]
      BY <1>2, <2>2
    <3>2. /\ tier'[t].events = Tail(tier[t].events) /\ tier'[t].announceAt = tier[t].announceAt
          /\ tier'[t].tracker = tier[t].tracker
      BY <2>1, <3>1 DEF Tier
    <3>3. tier[t].announceAt = "due" /\ tier[t].events # <<>>
      BY <1>6, <2>2 DEF tierNeedsToAnnounce
    <3>4. Tidy(Tail(tier[t].events))
      BY <2>1, <3>3, TidyParts DEF Sound
    <3> QED
      BY <2>1, <3>2, <3>3, <3>4 DEF Sound
  <2>3. CASE t \notin A
    <3>1. tier'[t] = IF t \in S THEN [tier[t] EXCEPT !.isScraping = TRUE] ELSE tier[t]
      BY <1>2, <2>3
    <3> QED
      BY <2>1, <3>1 DEF Sound, Tier
  <2> QED
    BY <2>2, <2>3
<1> QED
  BY <1>11, <1>12 DEF SoundInv

\* and each answer gives one back.
LEMMA AnsweredIsCounted ==
  ASSUME Typed, Counted, NEW q \in BagToSet(announces), Answered(q), UNCHANGED <<stops, scraped>>
  PROVE  Counted'
<1>1. IsABag(announces) /\ BagIn(q, announces) /\ IsFiniteSet(Copies(announces))
  BY DEF Typed, BagIn, Counted, Copies, InFlight
<1>2. announces' = announces (-) SetToBag({q}) /\ slotsAvailable' = slotsAvailable + 1
  BY DEF Answered
<1>3. IsFiniteSet(Copies(announces')) /\ Cardinality(Copies(announces')) + 1 = Cardinality(Copies(announces))
  BY <1>1, <1>2, CopiesShrink
<1>4. Copies(announces') = InFlight' /\ Copies(announces) = InFlight
  BY DEF Copies, InFlight
<1>5. slotsAvailable \in Nat /\ slotsAvailable + Cardinality(InFlight) >= MaxTasks
  BY DEF Counted
<1>6. Cardinality(InFlight') \in Nat /\ Cardinality(InFlight') + 1 = Cardinality(InFlight)
  BY <1>3, <1>4, FS_CardinalityType
<1>7. slotsAvailable' \in Nat /\ slotsAvailable' + Cardinality(InFlight') >= MaxTasks
  BY <1>2, <1>5, <1>6, AnnouncerAssumption
<1> QED
  BY <1>3, <1>4, <1>7 DEF Counted

LEMMA FailsIsSound ==
  ASSUME AInv, SoundInv, NEW q \in BagToSet(announces), AnnounceFails(q)
  PROVE  SoundInv'
<1> DEFINE t == q.tier
           n == NextTracker([tier[t] EXCEPT !.isAnnouncing = FALSE])
           r == tier_announce_event_push(n, q.event, "later")
<1>1. Typed /\ q \in Requests /\ t \in Tiers /\ tier[t] \in Tier /\ q.event \in Events /\ Sound(tier[t])
  BY DEF AInv, SoundInv, Typed, Requests
<1>2. tier' = (IF ~IsFor(q) THEN tier ELSE [tier EXCEPT ![t] = r])
  BY DEF AnnounceFails
<1>3. Counted'
  BY <1>1, AnsweredIsCounted DEF AnnounceFails, SoundInv
<1>4. Sound(r)
  <2> DEFINE m == [tier[t] EXCEPT !.isAnnouncing = FALSE]
  <2>1. m \in Tier /\ Sound(m)
    BY <1>1 DEF Tier, Sound
  <2> HIDE DEF m
  <2>2. NextTracker(m) \in Tier /\ Sound(NextTracker(m))
    BY <2>1, NextIsSound
  <2>3. Sound(tier_announce_event_push(NextTracker(m), q.event, "later"))
    BY <1>1, <2>2, PushIsSound
  <2> QED
    BY <2>3 DEF m
<1> HIDE DEF r
<1>5. \A u \in Tiers : tier'[u] \in {tier[u], r}
  BY <1>1, <1>2 DEF Typed
<1> QED
  BY <1>3, <1>4, <1>5 DEF SoundInv

LEMMA SucceedsIsSound ==
  ASSUME AInv, SoundInv, NEW q \in BagToSet(announces), AnnounceSucceeds(q)
  PROVE  SoundInv'
<1> DEFINE t == q.tier
<1>1. Typed /\ q \in Requests /\ t \in Tiers /\ tier[t] \in Tier /\ Sound(tier[t])
  BY DEF AInv, SoundInv, Typed, Requests
<1>2. Counted'
  BY <1>1, AnsweredIsCounted DEF AnnounceSucceeds, SoundInv
<1>3. CASE IsFor(q)
  <2>1. PICK scrapeAt \in {tier[t].scrapeAt, "later", "due"} : tier' = [tier EXCEPT ![t] = Succeeded(tier[t], q, scrapeAt)]
    BY <1>1, <1>3 DEF AnnounceSucceeds, Typed
  <2> DEFINE s == [tier[t] EXCEPT !.isAnnouncing = FALSE, !.isRunning = q.isRunningOnSuccess, !.scrapeAt = scrapeAt]
             r == Succeeded(tier[t], q, scrapeAt)
  <2>2. s \in Tier /\ Sound(s)
    <3>1. s \in Tier /\ s.events = tier[t].events /\ s.tracker = tier[t].tracker /\ s.announceAt = tier[t].announceAt
      BY <1>1, <2>1 DEF Tier, Times, Requests
    <3> HIDE DEF s
    <3> QED
      BY <1>1, <3>1 DEF Sound
  <2>3. r = IF q.event # "stopped" /\ s.events = <<>> THEN tier_announce_event_push(s, "none", "later") ELSE s
    BY DEF Succeeded
  <2> HIDE DEF s, r
  <2>4. Sound(tier_announce_event_push(s, "none", "later"))
    BY <2>2, PushIsSound DEF Events
  <2>5. Sound(r)
    BY <2>2, <2>3, <2>4
  <2>6. \A u \in Tiers : tier'[u] \in {tier[u], r}
    BY <1>1, <2>1 DEF Typed, r
  <2> QED
    BY <1>2, <2>5, <2>6 DEF SoundInv
<1>4. CASE ~IsFor(q)
  BY <1>2, <1>4 DEF AnnounceSucceeds, SoundInv
<1> QED
  BY <1>3, <1>4

LEMMA ScrapeIsSound ==
  ASSUME AInv, SoundInv, NEW q \in BagToSet(scrapes), NEW ok \in BOOLEAN, ScrapeDone(q, ok)
  PROVE  SoundInv'
<1> DEFINE t == q.tier
           s == IF ok THEN tier[t] ELSE NextTracker(tier[t])
           r == [s EXCEPT !.isScraping = FALSE, !.scrapeAt = "later"]
<1>1. Typed /\ t \in Tiers /\ tier[t] \in Tier /\ Sound(tier[t]) /\ Counted
  BY DEF AInv, SoundInv, Typed
<1>2. tier' = tier \/ tier' = [tier EXCEPT ![t] = r]
  BY DEF ScrapeDone
<1>3. Counted'
  <2>1. slotsAvailable' = slotsAvailable + 1 /\ InFlight' = InFlight /\ UNCHANGED <<stops, scraped>>
    BY DEF ScrapeDone, InFlight
  <2>2. slotsAvailable \in Nat /\ Cardinality(InFlight) \in Nat /\ slotsAvailable + Cardinality(InFlight) >= MaxTasks
    BY <1>1, FS_CardinalityType DEF Counted
  <2>3. slotsAvailable' \in Nat /\ slotsAvailable' + Cardinality(InFlight') >= MaxTasks
    BY <2>1, <2>2, AnnouncerAssumption
  <2> QED
    BY <1>1, <2>1, <2>3 DEF Counted
<1>4. Sound(r)
  <2>1. s \in Tier /\ Sound(s)
    BY <1>1, NextIsSound
  <2> HIDE DEF s
  <2> QED
    BY <2>1 DEF Tier, Sound
<1> HIDE DEF r
<1>5. \A u \in Tiers : tier'[u] \in {tier[u], r}
  BY <1>1, <1>2 DEF Typed
<1> QED
  BY <1>3, <1>4, <1>5 DEF SoundInv

\* All tiers get an event.
LEMMA AddsAreSound ==
  ASSUME AInv, SoundInv, NEW e \in Events, torrentAddAnnounce(e), UNCHANGED network
  PROVE  SoundInv'
<1>1. Counted'
  BY CountedKept DEF SoundInv, Counted, network
<1>2. ASSUME NEW t \in Tiers
      PROVE  Sound(tier'[t])
  <2>1. tier'[t] = tier_announce_event_push(tier[t], e, "due")
    BY DEF torrentAddAnnounce
  <2>2. tier[t] \in Tier /\ Sound(tier[t])
    BY DEF AInv, Typed, SoundInv
  <2> QED
    BY <2>1, <2>2, PushIsSound
<1> QED
  BY <1>1, <1>2 DEF SoundInv

LEMMA CommandsAreSound ==
  ASSUME AInv, SoundInv, Start \/ Stop \/ Complete \/ Reannounce
  PROVE  SoundInv'
<1>1. UNCHANGED network /\ \E e \in Events : torrentAddAnnounce(e)
  BY DEF Start, Stop, Complete, Reannounce, Command, Events
<1> QED
  BY <1>1, AddsAreSound

LEMMA ResetIsSound ==
  ASSUME AInv, SoundInv, NEW F \in SUBSET Tiers, ResetTorrent(F)
  PROVE  SoundInv'
<1>1. Counted'
  BY CountedKept DEF SoundInv, Counted, ResetTorrent
<1>2. ASSUME NEW t \in Tiers
      PROVE  Sound(tier'[t])
  <2> DEFINE n == NewTier(tier[t].reliable, tier[t].key + 1)
  <2>1. tier'[t] \in {tier[t], n, tier_announce_event_push(n, "started", "due")}
    BY DEF ResetTorrent
  <2>2. tier[t] \in Tier /\ Sound(tier[t])
    BY DEF AInv, Typed, SoundInv
  <2>3. n \in Tier /\ Sound(n)
    <3>1. tier[t].key <= commands /\ commands \in 0 .. MaxCommands /\ commands < MaxCommands /\ tier[t].key \in 0 .. MaxCommands
      BY <2>2 DEF AInv, KeysAreOld, Typed, ResetTorrent, Tier
    <3>2. tier[t].key + 1 \in 0 .. MaxCommands /\ tier[t].reliable \in BOOLEAN
      BY <2>2, <3>1, AnnouncerAssumption DEF Tier
    <3> QED
      BY <3>2, NewIsSound
  <2> HIDE DEF n
  <2>4. Sound(tier_announce_event_push(n, "started", "due"))
    BY <2>3, PushIsSound DEF Events
  <2> QED
    BY <2>1, <2>2, <2>3, <2>4
<1> QED
  BY <1>1, <1>2 DEF SoundInv

LEMMA OthersAreSound ==
  ASSUME AInv, SoundInv, FlushCloseMessages \/ RemoveTorrent \/ UNCHANGED vars \/ \E t \in Tiers : FallsDue(t)
  PROVE  SoundInv'
<1>1. Typed /\ Counted /\ \A t \in Tiers : tier[t] \in Tier /\ Sound(tier[t])
  BY DEF AInv, SoundInv, Typed
<1>2. UNCHANGED <<slotsAvailable, announces, scraped>>
  BY DEF FlushCloseMessages, RemoveTorrent, vars, FallsDue, network
<1>3. stops' \subseteq Tiers \X Nat
  BY <1>1 DEF FlushCloseMessages, RemoveTorrent, vars, FallsDue, network, Counted, Tier
<1>4. ASSUME NEW t \in Tiers
      PROVE  Sound(tier'[t])
  <2>1. CASE RemoveTorrent
    <3>1. tier[t].reliable \in BOOLEAN /\ 0 \in 0 .. MaxCommands
      BY <1>1, AnnouncerAssumption DEF Tier
    <3> QED
      BY <2>1, <3>1, NewIsSound DEF RemoveTorrent
  <2>2. CASE FlushCloseMessages \/ UNCHANGED vars
    BY <1>1, <2>2 DEF FlushCloseMessages, vars
  <2>3. CASE \E u \in Tiers : FallsDue(u)
    <3>1. PICK u \in Tiers : \/ tier[u].announceAt = "later" /\ tier' = [tier EXCEPT ![u].announceAt = "due"]
                             \/ tier[u].scrapeAt = "later" /\ tier' = [tier EXCEPT ![u].scrapeAt = "due"]
      BY <2>3 DEF FallsDue
    <3>2. tier'[t] \in {tier[t], [tier[t] EXCEPT !.announceAt = "due"], [tier[t] EXCEPT !.scrapeAt = "due"]}
      BY <1>1, <3>1 DEF Typed
    <3>3. Sound([tier[t] EXCEPT !.announceAt = "due"]) /\ Sound([tier[t] EXCEPT !.scrapeAt = "due"])
      BY <1>1 DEF Sound, Tier
    <3> QED
      BY <1>1, <3>2, <3>3
  <2> QED
    BY <2>1, <2>2, <2>3
<1> QED
  BY <1>1, <1>2, <1>3, <1>4, CountedKept DEF SoundInv

LEMMA InitIsSound ==
  ASSUME Init
  PROVE  SoundInv
<1>1. PICK reliable \in [Tiers -> BOOLEAN] : tier = [t \in Tiers |-> NewTier(reliable[t], 0)]
  BY DEF Init
<1>2. \A t \in Tiers : Sound(tier[t])
  BY <1>1, NewIsSound, AnnouncerAssumption
<1>3. announces = EmptyBag /\ slotsAvailable = MaxTasks /\ stops = {} /\ scraped = 0
  BY DEF Init
<1>4. InFlight = {}
  BY <1>3 DEF InFlight, EmptyBag, SetToBag, BagToSet
<1>5. IsFiniteSet(InFlight) /\ Cardinality(InFlight) = 0
  BY <1>4, FS_EmptySet
<1>6. Counted
  BY <1>3, <1>5, AnnouncerAssumption DEF Counted
<1> QED
  BY <1>2, <1>6 DEF SoundInv

\* The queue of each tier is as tier_announce_event_push leaves it, and every slot that an announce
\* takes is given back (announcer.c), for any number of tiers, trackers and slots, whatever fails
\* and in whatever order the answers come.
THEOREM TiersStaySound == Spec => []TiersAreSound
<1>1. Init => SoundInv
  BY InitIsSound
<1>2. AInv /\ SoundInv /\ [Next]_vars => SoundInv'
  <2> SUFFICES ASSUME AInv, SoundInv, [Next]_vars
               PROVE  SoundInv'
    OBVIOUS
  <2>1. CASE announceMore
    BY <2>1, MoreIsSound
  <2>2. CASE FlushCloseMessages \/ RemoveTorrent \/ UNCHANGED vars \/ \E t \in Tiers : FallsDue(t)
    BY <2>2, OthersAreSound
  <2>3. CASE \E t \in Tiers, key \in 0 .. MaxCommands : AnnounceAnswered(t, key)
    BY <2>3, FailsIsSound, SucceedsIsSound DEF AnnounceAnswered
  <2>4. CASE ScrapeAnswered
    BY <2>4, ScrapeIsSound DEF ScrapeAnswered
  <2>5. CASE Start \/ Stop \/ Complete \/ Reannounce
    BY <2>5, CommandsAreSound
  <2>6. CASE \E F \in SUBSET Tiers \ {{}} : ResetTorrent(F)
    BY <2>6, ResetIsSound
  <2> QED
    BY <2>1, <2>2, <2>3, <2>4, <2>5, <2>6 DEF Next
<1>3. AInv /\ SoundInv => TiersAreSound
  <2> SUFFICES ASSUME AInv, SoundInv
               PROVE  TiersAreSound
    OBVIOUS
  <2>1. Typed /\ Counted /\ \A t \in Tiers : tier[t] \in Tier /\ Sound(tier[t])
    BY DEF AInv, SoundInv, Typed
  <2>2. TypeOK
    <3>1. \A t \in Tiers : tier[t] \in [events : Seq(Events), announceAt : Times, scrapeAt : Times,
                                        isAnnouncing : BOOLEAN, isScraping : BOOLEAN, isRunning : BOOLEAN,
                                        tracker : Trackers, key : 0 .. MaxCommands, reliable : BOOLEAN]
      BY <2>1 DEF Sound, Tier
    <3>2. \A t \in Tiers : tier[t].announceAt = "never" => tier[t].events = <<>>
      BY <2>1 DEF Sound
    <3> QED
      BY <2>1, <3>1, <3>2 DEF TypeOK, Typed, Counted
  <2>3. QueueIsTidy
    BY <2>1 DEF QueueIsTidy, Sound, Tidy
  <2>4. SlotsNeverLost
    BY <2>1 DEF SlotsNeverLost, Counted
  <2> QED
    BY <2>2, <2>3, <2>4 DEF TiersAreSound
<1> QED
  BY <1>1, <1>2, <1>3, AnnouncerInvariance, PTL DEF Spec
=============================================================================
