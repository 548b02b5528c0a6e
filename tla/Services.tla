-------------------------------- MODULE Services --------------------------------
(***************************************************************************)
(* What the session does beside its torrents: its settings (Settings), the *)
(* speed limits (Turtle) and how the bandwidth is shared out by them       *)
(* (Bandwidth), the port that the router forwards (PortMapping), the       *)
(* trackers that are spoken to by UDP (UdpTracker), the other ways to find *)
(* peers (Discovery), and its end (Shutdown).  Discovery appears three     *)
(* times: the local network ("lpd"), the bootstrap of the DHT ("dht") and  *)
(* a torrent that it is asked about ("search").                            *)
(*                                                                         *)
(* The parts share no state: a behaviour is one of the part that `part'    *)
(* names, and the variables of the others are Absent.                      *)
(***************************************************************************)
EXTENDS Integers, FiniteSets, Sequences

CONSTANTS
  Flags, Posted, Ports, Loaded, MaxQueue, MaxMissed,
  WeekDays, MinutesPerDay, Speeds,
  Peers, TorrentOf, PriorityOf, Increment, Limits, Paces, MaxOut,
  PublicPorts, MaxStray, Routers,
  Requests, Silent, Ttl, AddrTtl, CloseIn,
  Torrents, Http,
  List, Private, Interval, Cap, First, Again, Retry, Nodes, Names, MaxToggles

\* The port is set by a call of its own, and settings.json has a value of every setting.
ASSUME SettingsAssumption ==
  /\ "port" \notin Flags /\ Posted \subseteq Flags
  /\ Loaded \subseteq [enabled : [Flags -> BOOLEAN], port : Ports]

\* A week has minutes, and a band is slowed down, or not, and never sped up.
ASSUME ScheduleAssumption == WeekDays \in Nat \ {0} /\ MinutesPerDay \in Nat \ {0}
ASSUME BandwidthAssumption ==
  /\ TorrentOf \in [Peers -> {"t"}] /\ Increment \in Nat /\ Limits \subseteq Nat
  /\ Paces \subseteq 0 .. 100

\* There may be so many stray timers; times are numbers.
ASSUME PortsAssumption == MaxStray \in Nat
ASSUME TrackersAssumption == Ttl \in Nat /\ AddrTtl \in Nat /\ CloseIn \in Nat

\* A session has finitely many torrents; what the threads tell each other is told apart from them.
ASSUME TorrentsAssumption ==
  IsFiniteSet(Torrents) /\ Http \subseteq Torrents /\ "close" \notin Torrents /\ "eof" \notin Torrents

\* The torrents are a sequence, each is announced again after a while, and a file holds so many nodes.
ASSUME PeersAssumption ==
  /\ Len(List) \in Nat /\ DOMAIN List = 1 .. Len(List)
  /\ Interval \in Nat \ {0} /\ Cap \in Nat
  /\ First \in Nat /\ Again \in Nat \ {0} /\ Retry \in Nat \ {0}
  /\ Nodes \in [{4, 6} -> Nat] /\ Names \in Nat /\ MaxToggles \in Nat

VARIABLES
  part,
  enabled, port, queue, boxes, file, wanted, saved, missed,
  now, turtle, limit, bandwidth, choice,
  band, honor, out, ready, turn, granted, used,
  shared, stray, natpmp, upnp, session, overtaken, router, left,
  tracker, request, told, due,
  caller, time, event, pipe, die, web, open, stops, udp, answered, dropped,
  act, at, lpd, late, heard, dht, sock, status, boot, nodes, announces, pings

Set  == INSTANCE Settings
Alt  == INSTANCE Turtle
Band == INSTANCE Bandwidth WITH enabled <- ready, Torrents <- {"t"}
Map  == INSTANCE PortMapping
Udp  == INSTANCE UdpTracker
End  == INSTANCE Shutdown
Near == INSTANCE Discovery WITH file <- nodes, ready <- announces, stray <- pings, Saved <- Nodes
Boot == INSTANCE Discovery WITH file <- nodes, ready <- announces, stray <- pings, Saved <- Nodes,
                                List <- <<>>
Find == INSTANCE Discovery WITH file <- nodes, ready <- announces, stray <- pings,
                                Saved <- [f \in {4, 6} |-> 0], List <- <<"t">>, Names <- 0,
                                MaxToggles <- MaxToggles + 1

settingsVars == <<enabled, port, queue, boxes, file, wanted, saved, missed>>
turtleVars   == <<now, turtle, limit, bandwidth, choice>>
bandVars     == <<band, honor, out, ready, turn, granted, used>>
mapVars      == <<shared, stray, natpmp, upnp, session, overtaken, router, left>>
udpVars      == <<tracker, request, told, due>>
endVars      == <<caller, time, event, pipe, die, web, open, stops, udp, answered, dropped>>
lpdVars      == <<at, lpd, late, heard>>
dhtVars      == <<dht, sock, status, boot, nodes, announces, pings>>
sessionVars  == <<settingsVars, turtleVars, bandVars, mapVars>>
peerVars     == <<act, lpdVars, dhtVars>>
vars == <<part, sessionVars, udpVars, endVars, peerVars>>

Absent == "absent"
NoSettings == /\ enabled = Absent /\ port = Absent /\ queue = Absent /\ boxes = Absent
              /\ file = Absent /\ wanted = Absent /\ saved = Absent /\ missed = Absent
NoTurtle == /\ now = Absent /\ turtle = Absent /\ limit = Absent /\ bandwidth = Absent
            /\ choice = Absent
NoBand == /\ band = Absent /\ honor = Absent /\ out = Absent /\ ready = Absent
          /\ turn = Absent /\ granted = Absent /\ used = Absent
NoMap == /\ shared = Absent /\ stray = Absent /\ natpmp = Absent /\ upnp = Absent
         /\ session = Absent /\ overtaken = Absent /\ router = Absent /\ left = Absent
NoUdp == tracker = Absent /\ request = Absent /\ told = Absent /\ due = Absent
NoEnd == /\ caller = Absent /\ time = Absent /\ event = Absent /\ pipe = Absent /\ die = Absent
         /\ web = Absent /\ open = Absent /\ stops = Absent /\ udp = Absent
         /\ answered = Absent /\ dropped = Absent

NoLpd == at = Absent /\ lpd = Absent /\ late = Absent /\ heard = Absent
NoDht == /\ dht = Absent /\ sock = Absent /\ status = Absent /\ boot = Absent /\ nodes = Absent
         /\ announces = Absent /\ pings = Absent
NoPeers == act = Absent /\ NoLpd /\ NoDht

Init ==
  \/ /\ NoUdp /\ NoEnd /\ NoPeers
     /\ \/ part = "settings" /\ Set!Init /\ NoTurtle /\ NoBand /\ NoMap
        \/ part = "turtle" /\ Alt!Init /\ NoSettings /\ NoBand /\ NoMap
        \/ part = "bandwidth" /\ Band!Init /\ NoSettings /\ NoTurtle /\ NoMap
        \/ part = "mapping" /\ Map!Init /\ NoSettings /\ NoTurtle /\ NoBand
  \/ /\ NoSettings /\ NoTurtle /\ NoBand /\ NoMap
     /\ \/ part = "udp" /\ Udp!Init /\ NoEnd /\ NoPeers
        \/ part = "shutdown" /\ End!Init /\ NoUdp /\ NoPeers
        \/ part = "lpd" /\ Near!InitLpd /\ NoUdp /\ NoEnd /\ NoDht
        \/ part = "dht" /\ Boot!InitDht /\ NoUdp /\ NoEnd /\ NoLpd
        \/ part = "search" /\ Find!InitDht /\ NoUdp /\ NoEnd /\ NoLpd

\* What the other parts keep.
SettingsOnly == UNCHANGED <<part, turtleVars, bandVars, mapVars, udpVars, endVars, peerVars>>
TurtleOnly   == UNCHANGED <<part, settingsVars, bandVars, mapVars, udpVars, endVars, peerVars>>
BandOnly     == UNCHANGED <<part, settingsVars, turtleVars, mapVars, udpVars, endVars, peerVars>>
MapOnly      == UNCHANGED <<part, settingsVars, turtleVars, bandVars, udpVars, endVars, peerVars>>
UdpOnly      == part = "udp" /\ UNCHANGED <<part, sessionVars, endVars, peerVars>>
EndOnly      == part = "shutdown" /\ UNCHANGED <<part, sessionVars, udpVars, peerVars>>
LpdOnly      == UNCHANGED <<part, sessionVars, udpVars, endVars, dhtVars>>
DhtOnly      == part = "dht" /\ UNCHANGED <<part, sessionVars, udpVars, endVars, lpdVars>>
FindOnly     == UNCHANGED <<part, sessionVars, udpVars, endVars, lpdVars>>

Next ==
  \/ part = "settings" /\ Set!Next /\ SettingsOnly
  \/ part = "turtle" /\ Alt!Next /\ TurtleOnly
  \/ part = "bandwidth" /\ Band!Next /\ BandOnly
  \/ part = "mapping" /\ Map!Next /\ MapOnly
  \/ UdpOnly /\ Udp!Next
  \/ EndOnly /\ End!Next
  \/ part = "lpd" /\ Near!LpdNext /\ LpdOnly
  \/ DhtOnly /\ Boot!DhtNext
  \/ part = "search" /\ Find!DhtNext /\ FindOnly

\* The announcer's timer runs and time goes by, and no tracker need ever answer; every thread
\* of a session that ends gets on, and so do those of the bootstrap.
Fairness ==
  /\ WF_vars(UdpOnly /\ Udp!tr_tracker_udp_upkeep) /\ WF_vars(UdpOnly /\ Udp!Tick)
  /\ WF_vars(EndOnly /\ End!CallerSteps) /\ WF_vars(EndOnly /\ End!EventSteps)
  /\ WF_vars(EndOnly /\ End!WebSteps) /\ WF_vars(EndOnly /\ End!Clock)
  /\ \A i \in 1..MaxToggles : WF_vars(DhtOnly /\ Boot!BootSteps(i))

Spec == Init /\ [][Next]_vars /\ Fairness

(***************************************************************************)
(* Properties: those of the parts, each with the types of its part.        *)
(***************************************************************************)
\* The settings are what was asked for last, by the window or by RPC, and so are the boxes, the
\* sockets and the file, but for the races that Settings names (tr_sessionSet, setPeerPort).
SettingsAreHonoured ==
  part = "settings" => /\ Set!TypeOK /\ Set!RequestsAreHonoured /\ Set!PortIsBound
                       /\ Set!FileIsTrue

\* The speed limits follow the user's schedule and then the user, and the bandwidth follows the
\* limits, by however many peers it is used (turtleCheckClock, tr_bandwidthAllocate).
LimitsAreKept ==
  /\ part = "turtle" => Alt!ScheduleIsFollowed /\ Alt!LimitIsInForce
  /\ part = "bandwidth" => Band!TypeOK /\ Band!LimitIsKept

\* The router lets in the port that the trackers are told, and is left with no port that is
\* forgotten, but for the answers that failed, came late or were not looked at, and the changes
\* in between, that PortMapping names (natPulse, tr_natpmpPulse, tr_upnpPulse); and every torrent
\* gets its turn to look for peers, in the local network and in the DHT, whose nodes are kept and
\* left in peace (tr_lpdAnnounceMore, tr_dhtUpkeep, dht_bootstrap, tr_dhtUninit).
PeersFindTheirWay ==
  /\ part = "mapping" => /\ Map!TypeOK /\ Map!UpnpClosesCleanly /\ Map!NothingIsLeftOpen
                         /\ Map!PublicPortIsMapped /\ Map!TimerFollowsSwitch
  /\ part = "lpd" => Near!NoneWaitsLong /\ Near!FloodIsCapped
  /\ part = "dht" => Boot!DhtTypeOK /\ Boot!StrayPingsAreFew /\ Boot!SomeNodesAreKept
  /\ part = "search" => Find!SearchedInTime

\* No thread of a session that ends uses what is freed, or loses or repeats a last announce,
\* and a request by UDP is answered once (sessionCloseImpl, tr_webThreadFunc,
\* tau_announce_request_finished).
NothingIsLostAtTheEnd ==
  /\ part = "shutdown" => /\ End!TypeOK /\ End!NothingUsesTheFreed /\ End!WebIsThereWhenTold
                          /\ End!ClosedIsDone /\ End!AnnouncedOnce
  /\ part = "udp" => Udp!TypeOK /\ Udp!ReadyToSend /\ Udp!ToldOnce

\* tr_sessionClose returns, every request to a tracker by UDP is answered, refused or given up,
\* which the loop of sessionCloseImpl waits for, and the threads of the bootstrap end, of which
\* there are so many and no more, unless they wait for an answer when the session ends
\* (dht_bootstrap, getstatus).
Unfinished(r) ==
  \/ part = "shutdown" /\ caller # "freed"
  \/ part = "udp" /\ Udp!IsPending(request[r])
  \/ part = "dht" /\ \E i \in 1..MaxToggles : Boot!HasBegun(i) /\ ~Boot!HasEnded(i)
EverythingEnds == \A r \in Requests : Unfinished(r) ~> ~Unfinished(r)

-----------------------------------------------------------------------------
(* An instance for TLC: two peers of a torrent, and four torrents that look for peers. *)
OneOfEach == {[upnp |-> TRUE, late |-> FALSE], [upnp |-> FALSE, late |-> TRUE]}
InitialSettings == [enabled : [Flags -> {FALSE}], port : {1}]
TorrentOfPeer == [p |-> "t", q |-> "t"]
PriorityOfPeer == [p |-> "high", q |-> "low"]
FourTorrents == <<"a", "b", "c", "d">>
SavedNodes == [f \in {4, 6} |-> IF f = 4 THEN 2 ELSE 1]
================================================================================
