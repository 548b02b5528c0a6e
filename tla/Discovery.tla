------------------------------- MODULE Discovery -------------------------------
(***************************************************************************)
(* How peers are found without a tracker: the announcements in the local   *)
(* network (tr-lpd.c), and the distributed hash table (tr-dht.c) with the  *)
(* sockets that it shares with uTP and the UDP trackers (tr-udp.c).  The   *)
(* hash table itself, a library, is its status, which changes at any time. *)
(*                                                                         *)
(* The event thread does all of it but for the bootstrap, which has a      *)
(* thread for every tr_dhtInit: it asks the event thread for the status,   *)
(* waits for the answer, and pings the nodes of the last run and those of  *)
(* a few names until the status is good.                                   *)
(*                                                                         *)
(* A unit of time is an upkeep.  LpdNext and DhtNext share only the        *)
(* torrents' activity.                                                     *)
(***************************************************************************)
EXTENDS Integers, Sequences, SequencesExt, FiniteSets, FiniteSetsExt

CONSTANTS
  List,       \* the torrents in the session's order
  Private,    \* those that may only ask their trackers
  Interval,   \* lpd_announceInterval, in upkeeps
  Cap,        \* the messages that are considered in an upkeep interval
  First,      \* the upkeeps from a start to the first DHT announce, at most: the delay is random
  Again, Retry,  \* those from a DHT announce, and from a failed one, to the next, at most
  Saved,      \* the nodes of each family that dht.dat holds at first
  Names,      \* the names that are asked for nodes, those of dht.bootstrap included
  MaxToggles

VARIABLES
  act,        \* what the torrents do: "stopped", "download" or "seed"
  at,         \* the upkeeps until lpdAnnounceAt
  lpd,        \* [on, left]: the switch, lpd_unsolicitedMsgCounter
  late,       \* history: the upkeeps for which a torrent has been due since one was started
  heard,      \* history: the messages that were considered since the last upkeep
  dht,        \* [on, up, closed, toggles]: isDHTEnabled, whether the DHT runs, tr_sessionClose
  sock,       \* the families that have a socket
  status,     \* how much of the DHT each family knows
  boot,       \* the bootstrap threads: [pc, af, of, n, left, more, waits]
  file,       \* dht.dat: how many nodes of each family
  ready,      \* [at, since, last] of a torrent's announces to each family: the upkeeps to
              \* the next; history: those since the last with a family that is ready, and
              \* whether the last failed or was believed to be all right
  stray       \* history: the pings that a thread made since the DHT was closed

lpdVars == <<act, at, lpd, late, heard>>
dhtVars == <<dht, sock, status, boot, file, ready, stray>>

Members == Range(List)
Families == {4, 6}
Running(t) == act[t] # "stopped"
Down(n) == IF n > 0 THEN n - 1 ELSE 0

(***************************************************************************)
(* The local network.                                                      *)
(***************************************************************************)
InitLpd ==
  /\ act = [t \in Members |-> "stopped"] /\ at = [t \in Members |-> 0]
  /\ lpd = [on |-> TRUE, left |-> 0]
  /\ late = [t \in Members |-> 0] /\ heard = 0

\* tr_torrentAllowsLPD
Allows(t) == t \notin Private
announcePrio(t) == IF act[t] = "seed" THEN 2 ELSE 1
Due(t) == Allows(t) /\ Running(t) /\ at[t] = 0

\* tr_lpdAnnounceMore: the first that is due is announced, and no other.
FirstDue ==
  LET due == {i \in 1..Len(List) : Due(List[i])} IN IF due = {} THEN {} ELSE {List[Min(due)]}
tr_lpdAnnounceMore ==
  LET sent == IF lpd.on THEN FirstDue ELSE {}
  IN /\ at' = [t \in Members |-> Down(IF t \in sent THEN Interval * announcePrio(t) ELSE at[t])]
     /\ late' = [t \in Members |-> IF lpd.on /\ Due(t) /\ t \notin sent THEN late[t] + 1 ELSE 0]
     /\ lpd' = [lpd EXCEPT !.left = IF lpd.on THEN Cap ELSE @]
     /\ heard' = IF lpd.on THEN 0 ELSE heard
     /\ UNCHANGED act

\* event_callback: a message counts, whatever it holds; one for a torrent that is not allowed
\* is dropped.
event_callback ==
  /\ lpd.on /\ lpd.left >= 0
  /\ lpd' = [lpd EXCEPT !.left = @ - 1]
  /\ heard' = IF lpd.left > 0 THEN heard + 1 ELSE heard
  /\ UNCHANGED <<act, at, late>>

\* toggleLPDImpl: the counter stays as it was.
toggleLPD ==
  /\ lpd' = [lpd EXCEPT !.on = ~@] /\ late' = [t \in Members |-> 0]
  /\ UNCHANGED <<act, at, heard>>

\* torrentStartImpl is due at once, and may go before those that wait.
Start(t) ==
  /\ ~Running(t)
  /\ act' = [act EXCEPT ![t] = "download"] /\ at' = [at EXCEPT ![t] = 0]
  /\ late' = [u \in Members |-> 0]
  /\ UNCHANGED <<lpd, heard>>
Becomes(t, state) ==
  /\ act' = [act EXCEPT ![t] = state] /\ late' = [late EXCEPT ![t] = 0]
  /\ UNCHANGED <<at, lpd, heard>>
Stop(t) == Running(t) /\ Becomes(t, "stopped")
Complete(t) == act[t] = "download" /\ Becomes(t, "seed")

LpdNext ==
  \/ tr_lpdAnnounceMore \/ event_callback \/ toggleLPD
  \/ \E t \in Members : Start(t) \/ Stop(t) \/ Complete(t)

(***************************************************************************)
(* The distributed hash table.                                             *)
(***************************************************************************)
STOPPED == 0
BROKEN == 1
POOR == 2
FIREWALLED == 3
GOOD == 4

Announce(delay) == [at |-> delay, since |-> 0, last |-> "none"]
NewBoot == [pc |-> "start", af |-> 4, of |-> 0, n |-> 1, left |-> Saved, more |-> 0, waits |-> FALSE]

\* tr_udpInit: binding may fail, for IPv6 also because there is none; tr_dhtInit starts a
\* thread with the nodes of the families that have a socket.
tr_udpInit(on, had) ==
  \E s \in SUBSET Families, ok \in BOOLEAN :
    /\ sock' = s
    /\ dht' = [dht EXCEPT !.on = on, !.up = on /\ ok, !.toggles = @ + 1]
    /\ boot' = IF on /\ ok THEN Append(boot, [NewBoot EXCEPT !.left = [f \in Families |-> IF f \in s THEN had[f] ELSE 0]])
                           ELSE boot
    /\ status' = [f \in Families |-> BROKEN]

InitDht ==
  /\ act = [t \in Members |-> "stopped"]
  /\ dht = [on |-> FALSE, up |-> FALSE, closed |-> FALSE, toggles |-> 0]
  /\ sock = {} /\ status = [f \in Families |-> BROKEN] /\ boot = <<>>
  /\ file = Saved /\ stray = <<>>
  /\ ready = [t \in Members |-> [f \in Families |-> Announce(0)]]

\* tr_dhtStatus in the event thread.
tr_dhtStatus(f) == IF ~dht.up \/ f \notin sock THEN STOPPED ELSE status[f]

\* tr_dhtUninit saves the nodes when one of the families knows enough of them; those that a
\* family does not know are not in the file any more.
tr_dhtUninit ==
  IF dht.up /\ \E f \in Families : tr_dhtStatus(f) >= FIREWALLED
  THEN [f \in Families |-> IF tr_dhtStatus(f) >= POOR THEN Saved[f] ELSE 0] ELSE file
Closed == IF dht.up THEN [i \in 1..Len(boot) |-> 0] ELSE stray

\* toggleDHTImpl: tr_udpUninit, tr_udpInit.
toggleDHT ==
  /\ ~dht.closed /\ dht.toggles < MaxToggles
  /\ file' = tr_dhtUninit
  /\ tr_udpInit(~dht.on, file')
  /\ stray' = [i \in 1..Len(boot') |-> IF i \in DOMAIN Closed THEN Closed[i] ELSE 0]
  /\ UNCHANGED <<act, ready>>
\* sessionCloseImpl
Close ==
  /\ ~dht.closed
  /\ file' = tr_dhtUninit /\ sock' = {} /\ stray' = Closed
  /\ dht' = [dht EXCEPT !.up = FALSE, !.closed = TRUE]
  /\ UNCHANGED <<act, status, boot, ready>>

\* The network.
StatusChanges ==
  /\ dht.up
  /\ \E f \in sock, s \in BROKEN..GOOD : status[f] # s /\ status' = [status EXCEPT ![f] = s]
  /\ UNCHANGED <<act, dht, sock, boot, file, ready, stray>>

(***************************************************************************)
(* The bootstrap.  At "list" and "name" it is about to ping, at the other  *)
(* points, but for "lookup", it asks for the status of the family af:      *)
(*    look, add   whether node n is pinged                                 *)
(*    listed      after the nodes n, whether that is enough                *)
(*    next        before name n, and `family' of which kind                *)
(*    named       after each of its addresses                              *)
(***************************************************************************)
Asking == {"look", "add", "listed", "next", "family", "named"}
At(b, pc, af) == [b EXCEPT !.pc = pc, !.af = af]
Ends(b) == [b EXCEPT !.pc = "end"]
FirstName(b) == IF Names = 0 THEN Ends(b) ELSE [At(b, "next", 4) EXCEPT !.n = 1]
NextName(b) == IF b.n = Names THEN Ends(b) ELSE [At(b, "next", 4) EXCEPT !.n = @ + 1]
Listed(b) == IF \A f \in Families : b.n > b.left[f] THEN FirstName(b) ELSE At(b, "look", 4)
NextNode(b) == Listed([b EXCEPT !.n = @ + 1])
NextFamily(b) == IF b.af = 4 THEN At(b, "look", 6) ELSE At(b, "listed", 4)
NextAddress(b) == IF b.more = 0 THEN NextName(b) ELSE [b EXCEPT !.pc = "name", !.more = @ - 1]

\* bootstrap_done of v; of both families, IPv4 is asked first.
Done(v) == v = STOPPED \/ v >= FIREWALLED
Both(b, v, yes, no) == IF ~Done(v) THEN no ELSE IF b.af = 4 THEN [b EXCEPT !.af = 6] ELSE yes

\* What the thread does when it is told that the status of b.af is v.
Told(b, v) ==
  CASE b.pc = "look"   -> IF b.n > b.left[b.af] \/ Done(v) THEN NextFamily(b) ELSE At(b, "add", b.af)
    [] b.pc = "add"    -> IF v >= FIREWALLED THEN NextFamily(b) ELSE At(b, "list", b.af)
    [] b.pc = "listed" -> Both(b, v, Ends(b), NextNode(b))
    [] b.pc = "next"   -> Both(b, v, Ends(b), At(b, "family", 6))
    [] b.pc = "family" -> IF Done(v) THEN [b EXCEPT !.pc = "lookup", !.of = 10 - b.af]
                          ELSE IF b.af = 6 THEN [b EXCEPT !.af = 4] ELSE [b EXCEPT !.pc = "lookup", !.of = 0]
    [] b.pc = "named" /\ b.of = 0 -> Both(b, v, NextName(b), NextAddress(b))
    [] OTHER -> IF Done(v) THEN NextName(b) ELSE NextAddress(b)

Step(i, b) == boot' = [boot EXCEPT ![i] = b]
KeepDht == UNCHANGED <<act, dht, sock, status, file, ready>>

BootBegins(i) ==
  /\ boot[i].pc = "start"
  /\ Step(i, IF dht.up THEN Listed(boot[i]) ELSE Ends(boot[i]))
  /\ KeepDht /\ UNCHANGED stray

\* Nothing is asked when there are no more nodes, and tr_dhtAddNode looks first whether there
\* is a DHT.  tr_dhtStatus answers at once when there is none, or else by the event thread.
Answered(b) == tr_dhtStatus(b.af) = STOPPED \/ (b.pc = "look" /\ b.n > b.left[b.af])
BootAsks(i) ==
  LET b == boot[i] IN
  /\ b.pc \in Asking /\ ~b.waits
  /\ Step(i, IF b.pc = "add" /\ ~dht.up THEN NextFamily(b)
             ELSE IF Answered(b) THEN Told(b, STOPPED) ELSE [b EXCEPT !.waits = TRUE])
  /\ KeepDht /\ UNCHANGED stray
\* getstatus: of a DHT that was closed in the meantime it counts no nodes.
getstatus(i) ==
  LET b == boot[i] IN
  /\ b.waits /\ ~dht.closed
  /\ Step(i, Told([b EXCEPT !.waits = FALSE], IF dht.up THEN status[b.af] ELSE BROKEN))
  /\ KeepDht /\ UNCHANGED stray
\* dht_ping_node, in the bootstrap thread; a name may have no address, or several.
BootPings(i) ==
  LET b == boot[i]
      address == [b EXCEPT !.pc = "named", !.af = IF b.of = 0 THEN 4 ELSE b.of]
  IN /\ b.pc \in {"list", "name"}
     /\ Step(i, IF b.pc = "list" THEN NextFamily(b) ELSE address)
     /\ stray' = IF dht.up THEN stray ELSE [stray EXCEPT ![i] = @ + 1]
     /\ KeepDht
getaddrinfo(i) ==
  LET b == boot[i] IN
  /\ b.pc = "lookup"
  /\ \E k \in 0..2 : Step(i, NextAddress([b EXCEPT !.more = k]))
  /\ KeepDht /\ UNCHANGED stray

(***************************************************************************)
(* tr_dhtUpkeep.  A search that finds nobody fails; a family that has no   *)
(* socket "lets the caller believe everything is all right".               *)
(***************************************************************************)
Ready(f) == tr_dhtStatus(f) >= POOR
Announced(r, f, ok) ==
  CASE ~Ready(f) /\ tr_dhtStatus(f) # STOPPED -> [r EXCEPT !.at = Retry, !.last = "failed"]
    [] tr_dhtStatus(f) = STOPPED -> [r EXCEPT !.at = Again, !.last = "fine"]
    [] OTHER -> [at |-> IF ok THEN Again ELSE Retry, since |-> 0,
                 last |-> IF ok THEN "fine" ELSE "failed"]
Later(r, f) ==
  [r EXCEPT !.at = Down(@), !.since = IF ~Ready(f) THEN 0 ELSE IF @ > First + Again THEN @ ELSE @ + 1]
tr_dhtUpkeep ==
  /\ ~dht.closed
  /\ \E ok \in BOOLEAN :
       ready' = [t \in Members |-> [f \in Families |->
         LET r == ready[t][f]
         IN IF ~Running(t) \/ ~dht.on \/ ~Allows(t) THEN [r EXCEPT !.at = Down(@), !.since = 0]
            ELSE Later(IF r.at = 0 THEN Announced(r, f, ok) ELSE r, f)]]
  /\ UNCHANGED <<act, dht, sock, status, boot, file, stray>>

\* torrentStartImpl draws a delay for each family.
StartsOrStops(t) ==
  /\ \/ /\ Running(t) /\ act' = [act EXCEPT ![t] = "stopped"] /\ UNCHANGED ready
     \/ /\ ~Running(t) /\ act' = [act EXCEPT ![t] = "download"]
        /\ \E delay \in [Families -> 0 .. First] :
             ready' = [ready EXCEPT ![t] = [f \in Families |-> Announce(delay[f])]]
  /\ UNCHANGED <<dht, sock, status, boot, file, stray>>

\* dht_bootstrap
BootSteps(i) ==
  /\ i \in 1..Len(boot)
  /\ BootBegins(i) \/ BootAsks(i) \/ getstatus(i) \/ getaddrinfo(i) \/ BootPings(i)

DhtNext ==
  \/ toggleDHT \/ Close \/ StatusChanges
  \/ \E i \in 1..MaxToggles : BootSteps(i)
  \/ Members # {} /\ tr_dhtUpkeep
  \/ \E t \in Members : StartsOrStops(t)

(***************************************************************************)
(* Properties.                                                             *)
(***************************************************************************)
\* Every torrent gets its turn, though the first one that is due always goes first, as long as
\* there are no more than an interval has room for and none is started (tr_lpdAnnounceMore).
NoneWaitsLong ==
  LET allowed == {t \in Members : Allows(t)}
  IN Cardinality(allowed) <= Interval =>
       \A t \in allowed : Running(t) => late[t] < Cardinality(allowed)

\* No more messages are considered between two upkeeps than the cap allows, whatever is
\* switched off and on (event_callback, toggleLPDImpl).
FloodIsCapped == heard <= Cap /\ lpd.left \in -1..Cap

DhtTypeOK ==
  /\ dht.up => dht.on
  /\ \A i \in 1..Len(boot) : boot[i].waits => boot[i].pc \in Asking
  /\ \A f \in Families : file[f] \in {0, Saved[f]}

\* A bootstrap thread that outlives the DHT pings once more at most, unless the DHT is started
\* again (tr_dhtStatus, dht_bootstrap).
StrayPingsAreFew == \A i \in 1..Len(stray) : stray[i] <= 1

\* The nodes that were saved are not all given up for a run that knew none; but those of one
\* family are, when the run knew enough of the other (tr_dhtUninit).
SomeNodesAreKept == \E f \in Families : file[f] = Saved[f]

\* A running torrent is searched for within the delay of its first announce, at the latest when
\* its time has come again, and soon after the DHT gets ready unless the last try was believed to
\* be all right (torrentStartImpl, tr_dhtUpkeep, tr_dhtAnnounce).
Patience(last) == CASE last = "none" -> First [] last = "failed" -> Retry [] OTHER -> Again
SearchedInTime ==
  \A t \in Members, f \in Families : ready[t][f].since <= Patience(ready[t][f].last)

\* Every bootstrap thread ends, unless the session does while it waits for an answer.
HasBegun(i) == i \in 1..Len(boot)
HasEnded(i) == boot[i].pc = "end" \/ (boot[i].waits /\ dht.closed)
================================================================================
