------------------------------- MODULE Announcer -------------------------------
(***************************************************************************)
(* The announces and scrapes of a torrent (announcer.c).                   *)
(*                                                                         *)
(* Each tier of trackers has a queue of events to announce ("started",     *)
(* "completed", "stopped", or none for a periodic announce) and a time for *)
(* the first of them.  Once a second the upkeep timer sends what is due,   *)
(* as far as the session's slots for web tasks go; the responses come in   *)
(* any order, or an error in their place, upon which the tier turns to its *)
(* next tracker and the event goes back to the queue.                      *)
(*                                                                         *)
(* Abstractions.  A time is never, later or due; intervals and back-off    *)
(* are not compared.  All tiers have as many trackers.  Which tiers get    *)
(* the slots when there are too few is left open.  Each tracker has a      *)
(* scrape URL of its own.  The byte counts and the statistics of the       *)
(* trackers are left out.                                                  *)
(***************************************************************************)
EXTENDS Integers, FiniteSets, Sequences, SequencesExt, Bags

CONSTANTS
  Tiers,         \* the tiers of the torrent
  TrackerCount,  \* tr_tier::tracker_count, the same for each
  MaxTasks,      \* MAX_CONCURRENT_TASKS
  MaxScrapes,    \* bound: scrapes
  MaxCommands    \* bound: what the user and the download do

Events == {"none", "completed", "started", "stopped"}
Times  == {"never", "later", "due"}
Trackers == 0 .. TrackerCount - 1

ASSUME AnnouncerAssumption ==
  /\ IsFiniteSet(Tiers)
  /\ TrackerCount \in Nat \ {0}
  /\ MaxTasks \in Nat \ {0}
  /\ MaxScrapes \in Nat /\ MaxCommands \in Nat

VARIABLES
  tier,            \* the tiers: queue, times, flags, current tracker, key
  isRunning,       \* tr_torrent::isRunning
  exists,          \* tr_torrent::tiers is not NULL
  slotsAvailable,  \* tr_announcer::slotsAvailable
  announces,       \* the announce requests that are not answered
  scrapes,         \* the scrape requests that are not answered
  stops,           \* tr_announcer::stops: the trackers to tell of a removed torrent
  told,            \* the trackers for which the torrent is running
  completing,      \* history: the tiers whose tracker has to hear of "completed"
  completedLate,   \* history: whether the torrent was found complete since it was stopped
  scraped,         \* how many scrapes there were
  commands         \* how many commands there were

vars == <<tier, isRunning, exists, slotsAvailable, announces, scrapes, stops, told,
          completing, completedLate, scraped, commands>>
network == <<slotsAvailable, announces, scrapes, stops, told, scraped>>

Requests == [tier : Tiers, key : 0 .. MaxCommands, tracker : Nat, event : Events,
             isRunningOnSuccess : BOOLEAN]

\* tierConstruct and tierIncrementTracker.  The trackers of a reliable tier answer, with no
\* error; that never changes.
NewTier(reliable, key) ==
  [events |-> <<>>, announceAt |-> "never", scrapeAt |-> "later", isAnnouncing |-> FALSE,
   isScraping |-> FALSE, isRunning |-> FALSE, tracker |-> 0, key |-> key, reliable |-> reliable]

Init ==
  /\ \E reliable \in [Tiers -> BOOLEAN] : tier = [t \in Tiers |-> NewTier(reliable[t], 0)]
  /\ isRunning = FALSE /\ exists = TRUE
  /\ slotsAvailable = MaxTasks
  /\ announces = EmptyBag /\ scrapes = EmptyBag
  /\ stops = {} /\ told = {}
  /\ completing = {} /\ completedLate = FALSE
  /\ scraped = 0 /\ commands = 0

-----------------------------------------------------------------------------
(* The queue of a tier. *)

Without(s, e) == SubSeq(s, 1, Max({0} \cup {n \in DOMAIN s : s[n] # e}))

\* A "stopped" dumps everything leading up to it except "completed".
Leading(s, e) ==
  IF e # "stopped" THEN s ELSE IF "completed" \in Range(s) THEN <<"completed">> ELSE <<>>

tier_announce_event_push(r, e, at) ==
  [r EXCEPT !.events = Append(Without(Without(Leading(@, e), "none"), e), e), !.announceAt = at]

\* tierIncrementTracker
NextTracker(r) ==
  [r EXCEPT !.tracker = (@ + 1) % TrackerCount, !.isAnnouncing = FALSE, !.isScraping = FALSE]

tierNeedsToAnnounce(r) ==
  ~r.isAnnouncing /\ ~r.isScraping /\ r.announceAt = "due" /\ r.events # <<>>
tierNeedsToScrape(r) == ~r.isScraping /\ r.scrapeAt = "due"

-----------------------------------------------------------------------------
(* The upkeep timer. *)

\* Subsets of S that fill the slots.
Fill(S, slots) == {C \in SUBSET S : Cardinality(C) = IF Cardinality(S) < slots THEN Cardinality(S) ELSE slots}

\* announce_request_new, for the event pulled from the queue.
Request(t) ==
  [tier |-> t, key |-> tier[t].key, tracker |-> tier[t].tracker, event |-> Head(tier[t].events),
   isRunningOnSuccess |-> isRunning]

Scrape(t) == [tier |-> t, key |-> tier[t].key, tracker |-> tier[t].tracker]

\* announceMore: tierAnnounce, then multiscrape, which counts on the slots but takes none.
announceMore ==
  LET needAnnounce == {t \in Tiers : exists /\ tierNeedsToAnnounce(tier[t])}
      needScrape   == {t \in Tiers \ needAnnounce : exists /\ tierNeedsToScrape(tier[t])}
  IN
  /\ slotsAvailable > 0
  /\ needAnnounce # {} \/ (needScrape # {} /\ scraped < MaxScrapes)
  /\ \E A \in Fill(needAnnounce, slotsAvailable) :
     \E S \in Fill(needScrape, Min({slotsAvailable - Cardinality(A), MaxScrapes - scraped})) :
       /\ scraped' = scraped + Cardinality(S)
       /\ tier' = [t \in Tiers |->
                     IF t \in A THEN [tier[t] EXCEPT !.events = Tail(@), !.isAnnouncing = TRUE]
                     ELSE IF t \in S THEN [tier[t] EXCEPT !.isScraping = TRUE]
                     ELSE tier[t]]
       /\ announces' = announces (+) SetToBag({Request(t) : t \in A})
       /\ scrapes' = scrapes (+) SetToBag({Scrape(t) : t \in S})
       /\ slotsAvailable' = slotsAvailable - Cardinality(A)
  /\ UNCHANGED <<isRunning, exists, stops, told, completing, completedLate, commands>>

\* flushCloseMessages: nobody waits for the answers.
FlushCloseMessages ==
  /\ stops # {} /\ stops' = {}
  /\ \E lost \in SUBSET {k \in stops : ~tier[k[1]].reliable} : told' = told \ (stops \ lost)
  /\ UNCHANGED <<tier, isRunning, exists, slotsAvailable, announces, scrapes, completing, completedLate,
                 scraped, commands>>

\* Time passes.
FallsDue(t) ==
  /\ \/ tier[t].announceAt = "later" /\ tier' = [tier EXCEPT ![t].announceAt = "due"]
     \/ tier[t].scrapeAt = "later" /\ tier' = [tier EXCEPT ![t].scrapeAt = "due"]
  /\ UNCHANGED <<isRunning, exists, network, completing, completedLate, commands>>

-----------------------------------------------------------------------------
(* The responses. *)

\* getTier: the tier that sent q may be gone.
IsFor(q) == exists /\ tier[q.tier].key = q.key

\* What the tracker makes of an announce that reaches it.
Hears(q) ==
  LET k == <<q.tier, q.tracker>> IN
  IF ~exists \/ IsFor(q) THEN (IF q.event = "stopped" THEN told \ {k} ELSE told \cup {k}) ELSE told

\* Mutant: a response for a tier that is gone gives no slot back.
Answered_SlotLost(q) ==
  /\ announces' = announces (-) SetToBag({q})
  /\ slotsAvailable' = IF IsFor(q) THEN slotsAvailable + 1 ELSE slotsAvailable

Answered(q) ==
  /\ announces' = announces (-) SetToBag({q})
  /\ slotsAvailable' = slotsAvailable + 1

\* on_announce_done, with an error: on_announce_error.
AnnounceFails(q) ==
  /\ BagIn(q, announces) /\ ~tier[q.tier].reliable
  /\ Answered(q)
  /\ told' \in {told, Hears(q)}
  /\ tier' = IF ~IsFor(q) THEN tier
             ELSE [tier EXCEPT ![q.tier] =
                     tier_announce_event_push(NextTracker([@ EXCEPT !.isAnnouncing = FALSE]),
                                              q.event, "later")]
  /\ UNCHANGED <<isRunning, exists, scrapes, stops, completing, completedLate, scraped, commands>>

\* Mutant: no periodic announce is put in the queue.
Succeeded_NoPeriodic(r, q, scrapeAt) ==
  [r EXCEPT !.isAnnouncing = FALSE, !.isRunning = q.isRunningOnSuccess, !.scrapeAt = scrapeAt]

\* The tier after a successful announce; after anything but "stopped" an empty queue gets a
\* periodic announce.
Succeeded(r, q, scrapeAt) ==
  LET s == [r EXCEPT !.isAnnouncing = FALSE, !.isRunning = q.isRunningOnSuccess, !.scrapeAt = scrapeAt]
  IN  IF q.event # "stopped" /\ s.events = <<>> THEN tier_announce_event_push(s, "none", "later") ELSE s

\* on_announce_done, with success.  A response may bring the numbers that a scrape would.
AnnounceSucceeds(q) ==
  /\ BagIn(q, announces)
  /\ Answered(q)
  /\ told' = Hears(q)
  /\ IF ~IsFor(q) THEN UNCHANGED <<tier, completing>>
     ELSE /\ \E scrapeAt \in {tier[q.tier].scrapeAt, "later", "due"} :
               tier' = [tier EXCEPT ![q.tier] = Succeeded(@, q, scrapeAt)]
          /\ completing' = IF q.event = "completed" THEN completing \ {q.tier} ELSE completing
  /\ UNCHANGED <<isRunning, exists, scrapes, stops, completedLate, scraped, commands>>

\* on_scrape_done: the tier is the one whose current tracker was scraped.
ScrapeDone(q, ok) ==
  LET found == IsFor(q) /\ tier[q.tier].tracker = q.tracker IN
  /\ BagIn(q, scrapes) /\ (ok \/ ~tier[q.tier].reliable)
  /\ scrapes' = scrapes (-) SetToBag({q})
  /\ slotsAvailable' = slotsAvailable + 1
  /\ tier' = IF ~found THEN tier
             ELSE [tier EXCEPT ![q.tier] =
                     [(IF ok THEN @ ELSE NextTracker(@)) EXCEPT !.isScraping = FALSE, !.scrapeAt = "later"]]
  /\ UNCHANGED <<isRunning, exists, announces, stops, told, completing, completedLate, scraped, commands>>

-----------------------------------------------------------------------------
(* What the torrent tells the announcer. *)

Command ==
  /\ exists /\ commands < MaxCommands /\ commands' = commands + 1
  /\ UNCHANGED network

torrentAddAnnounce(e) == tier' = [t \in Tiers |-> tier_announce_event_push(tier[t], e, "due")]

\* torrentStartImpl
Start ==
  /\ Command /\ ~isRunning /\ isRunning' = TRUE
  /\ torrentAddAnnounce("started")
  /\ UNCHANGED <<exists, completing, completedLate>>

\* Mutant: a torrent that is not running is not stopped.
Stop_IfTold ==
  /\ Command /\ isRunning' = FALSE
  /\ tier' = [t \in Tiers |->
                IF tier[t].isRunning THEN tier_announce_event_push(tier[t], "stopped", "due") ELSE tier[t]]
  /\ completedLate' = FALSE
  /\ UNCHANGED <<exists, completing>>

\* stopTorrent
Stop ==
  /\ Command /\ isRunning' = FALSE
  /\ torrentAddAnnounce("stopped")
  /\ completedLate' = FALSE
  /\ UNCHANGED <<exists, completing>>

\* tr_torrentRecheckCompleteness, in the download or at the end of a verification.
Complete ==
  /\ Command
  /\ torrentAddAnnounce("completed")
  /\ completing' = Tiers
  /\ completedLate' = ~isRunning
  /\ UNCHANGED <<isRunning, exists>>

\* tr_torrentManualUpdateImpl, tr_torrentChangeMyPort
Reannounce ==
  /\ Command /\ isRunning
  /\ \E e \in {"none", "started"} : torrentAddAnnounce(e)
  /\ UNCHANGED <<isRunning, exists, completing, completedLate>>

\* tr_announcerResetTorrent, after the user has edited the trackers: the current trackers
\* of the tiers F are not in the list any more.
ResetTorrent(F) ==
  /\ exists /\ commands < MaxCommands /\ commands' = commands + 1
  /\ tier' = [t \in Tiers |->
                IF t \notin F THEN tier[t]
                ELSE IF isRunning THEN tier_announce_event_push(NewTier(tier[t].reliable, tier[t].key + 1), "started", "due")
                ELSE NewTier(tier[t].reliable, tier[t].key + 1)]
  /\ told' = {k \in told : k[1] \notin F}
  /\ completing' = completing \ F
  /\ UNCHANGED <<isRunning, exists, slotsAvailable, announces, scrapes, stops, completedLate, scraped>>

\* tr_announcerRemoveTorrent
RemoveTorrent ==
  /\ exists /\ exists' = FALSE
  /\ isRunning' = FALSE
  /\ stops' = {<<t, tier[t].tracker>> : t \in {u \in Tiers : tier[u].isRunning}}
  /\ tier' = [t \in Tiers |-> NewTier(tier[t].reliable, 0)]
  /\ completing' = {} /\ completedLate' = FALSE
  /\ UNCHANGED <<slotsAvailable, announces, scrapes, told, scraped, commands>>

-----------------------------------------------------------------------------
AnnounceAnswered(t, key) ==
  \E q \in BagToSet(announces) :
    q.tier = t /\ q.key = key /\ (AnnounceFails(q) \/ AnnounceSucceeds(q))

ScrapeAnswered == \E q \in BagToSet(scrapes), ok \in BOOLEAN : ScrapeDone(q, ok)

Next ==
  \/ announceMore \/ FlushCloseMessages
  \/ \E t \in Tiers : FallsDue(t)
  \/ \E t \in Tiers, key \in 0 .. MaxCommands : AnnounceAnswered(t, key)
  \/ ScrapeAnswered
  \/ Start \/ Stop \/ Complete \/ Reannounce
  \/ \E F \in SUBSET Tiers \ {{}} : ResetTorrent(F)
  \/ RemoveTorrent

\* The timer runs, time passes, and every request is answered or times out.
Fairness ==
  /\ WF_vars(announceMore)
  /\ \A t \in Tiers : WF_vars(FallsDue(t))
  /\ \A t \in Tiers, key \in 0 .. MaxCommands : WF_vars(AnnounceAnswered(t, key))
  /\ WF_vars(ScrapeAnswered)

Spec == Init /\ [][Next]_vars /\ Fairness

-----------------------------------------------------------------------------
(* Properties *)

TypeOK ==
  /\ \A t \in Tiers :
       /\ tier[t] \in [events : Seq(Events), announceAt : Times, scrapeAt : Times,
                       isAnnouncing : BOOLEAN, isScraping : BOOLEAN, isRunning : BOOLEAN,
                       tracker : Trackers, key : 0 .. MaxCommands, reliable : BOOLEAN]
       /\ tier[t].announceAt = "never" => tier[t].events = <<>>
  /\ isRunning \in BOOLEAN /\ exists \in BOOLEAN
  /\ slotsAvailable \in Nat
  /\ IsABag(announces) /\ BagToSet(announces) \subseteq Requests
  /\ IsABag(scrapes) /\ BagToSet(scrapes) \subseteq [tier : Tiers, key : 0 .. MaxCommands, tracker : Nat]
  /\ stops \cup told \subseteq Tiers \X Nat
  /\ completing \subseteq Tiers /\ completedLate \in BOOLEAN
  /\ scraped \in 0 .. MaxScrapes /\ commands \in 0 .. MaxCommands

\* tier_announce_event_push keeps the queue short, whatever failed announces put back into
\* it: no event twice in a row, a periodic announce only when nothing else is to be said, and
\* nothing but "completed" before a "stopped".
QueueIsTidy ==
  \A t \in Tiers : LET s == tier[t].events IN
    /\ \A n \in 1 .. Len(s) - 1 : s[n] # s[n + 1] /\ s[n] # "none"
    /\ \A m, n \in DOMAIN s : m < n /\ s[n] = "stopped" => s[m] = "completed"

\* Every slot that an announce takes is given back, even when the torrent or the tier has
\* gone by the time of the response.
InFlight == UNION {{q} \X (1 .. announces[q]) : q \in BagToSet(announces)}
SlotsNeverLost == slotsAvailable + Cardinality(InFlight) >= MaxTasks

\* "completed" is announced until a tracker acknowledges it, however many errors, stops and
\* restarts there are in between.
CompletedIsKept ==
  exists => \A t \in completing :
    \/ "completed" \in Range(tier[t].events)
    \/ \E q \in BagToSet(announces) : q.tier = t /\ q.key = tier[t].key /\ q.event = "completed"

\* A stopped torrent is going to be taken back from every reliable tracker that was told of
\* it: the "stopped" is in flight or in the queue, where nothing but "completed" comes before
\* it.  (A torrent that is found complete while it is stopped is announced again.)
StoppedIsTold ==
  exists /\ ~isRunning /\ ~completedLate => \A k \in told : tier[k[1]].reliable =>
    \/ "stopped" \in Range(tier[k[1]].events)
    \/ \E q \in BagToSet(announces) : <<q.tier, q.tracker>> = k /\ IsFor(q) /\ q.event = "stopped"

\* A running torrent never falls silent: each reliable tier announces again and again.
KeepsAnnouncing ==
  \A t \in Tiers : []<>(~tier[t].reliable \/ ~isRunning \/ \E q \in BagToSet(announces) : q.tier = t)

\* Each tier's queue is as its operations leave it, and every slot comes back.
TiersAreSound == TypeOK /\ QueueIsTidy /\ SlotsNeverLost

\* The two events that a tracker must not miss are queued or in flight, for a torrent that exists
\* (tier_announce_event_push, tr_announcerTorrentStopped).
EventsAreTold == CompletedIsKept /\ StoppedIsTold
=============================================================================
