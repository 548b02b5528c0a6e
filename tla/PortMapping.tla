------------------------------ MODULE PortMapping ------------------------------
(***************************************************************************)
(* Port forwarding (port-forwarding.c, natpmp.c, upnp.c): one timer pulses *)
(* two state machines that ask the router, by NAT-PMP and by UPnP, to let  *)
(* the peers in.  All of it runs in the event thread; a change of the port *)
(* is made by any thread and posted to it.                                 *)
(*                                                                         *)
(* The router and libnatpmp and miniupnpc are external: a request may be   *)
(* refused, lost or carried out without an answer.  libnatpmp asks again   *)
(* until there is an answer, takes any for that of the request under way,  *)
(* and answers that come twice or too late wait in the socket.             *)
(***************************************************************************)
EXTENDS Integers, FiniteSets

CONSTANTS
  Ports, PublicPorts, MaxStray,
  Routers   \* the kinds of router: [upnp: it may have UPnP, late: its answers may come twice or late]

VARIABLES
  shared,   \* tr_shared: [alive, isEnabled, timer, doPortCheck, natpmpStatus, upnpStatus]
  stray,    \* timers that are armed and that no pointer leads to
  natpmp,   \* tr_natpmp, with `asked', the port of the request under way, or None
  upnp,     \* tr_upnp, or None
  session,  \* [private, public, changed]: the peer ports, and a change that is posted
  overtaken,  \* history: the port has changed since the mapping was asked for
  router,   \* [pmp, upnp, kind]: the ports that it lets in, and by UPnP the protocol as well
  left      \* history: the router may keep a port, because an answer failed or was not the one
            \* that was awaited, a deletion failed, or a stop was hasty

portVars == <<shared, stray, natpmp, upnp, session, overtaken, router, left>>

None == [state |-> "NONE", mapped |-> FALSE]
Protocols == {"TCP", "UDP"}

\* tr_port_forwarding, in the order of the enumeration.
Rank == [ERROR |-> 0, UNMAPPED |-> 1, UNMAPPING |-> 2, MAPPING |-> 3, MAPPED |-> 4]
TraversalStatus(s) ==
  IF Rank[s.natpmpStatus] >= Rank[s.upnpStatus] THEN s.natpmpStatus ELSE s.upnpStatus

\* An answer: the port that it names, and whether the mapping is to be renewed at once.  That of
\* the public address, read as one of a mapping, names a port by chance.
NoAnswer == [private |-> 0, due |-> FALSE]
Foreign == -1

\* late: an answer of an earlier request, still to be read.  sure (history): what is mapped is
\* what the router answered when it was asked for, and has not forgotten.
tr_natpmpInit ==
  [state |-> "DISCOVER", discovered |-> FALSE, mapped |-> FALSE, private |-> 0, public |-> 0,
   asked |-> 0, wait |-> FALSE, due |-> FALSE, late |-> NoAnswer, sure |-> TRUE]
tr_upnpInit == [state |-> "DISCOVER", mapped |-> FALSE, port |-> -1]

Init ==
  /\ shared = [alive |-> TRUE, isEnabled |-> FALSE, timer |-> FALSE, doPortCheck |-> FALSE,
               natpmpStatus |-> "UNMAPPED", upnpStatus |-> "UNMAPPED"]
  /\ stray = 0 /\ natpmp = None /\ upnp = None /\ left = FALSE /\ overtaken = FALSE
  /\ \E p \in Ports : session = [private |-> p, public |-> p, changed |-> FALSE]
  /\ \E r \in Routers : router = [pmp |-> {}, upnp |-> {}, kind |-> r]

(***************************************************************************)
(* tr_natpmpPulse: its stages in their order, each on what the one before  *)
(* has left.  x holds the machine, the ports the router lets in, and what  *)
(* was left there.  An input says how the stage's request and answer fare. *)
(***************************************************************************)
\* When a request is sent it may fail; be lost; be carried out, without an answer yet, or with
\* one; or a late answer is there, while the request is lost, or carried out as well ("crossed").
\* Of a request that is listened for again the answer may come twice, or once it is given up.
Outcomes == {"failed", "lost", "done", "answered", "late", "crossed"}
Listening == {"failed", "lost", "answered", "twice", "given up", "late"}
Asked(outcome) == outcome # "failed"
Carried(outcome) == outcome \in {"done", "answered", "crossed"}
Answers(outcome) == outcome \in {"answered", "twice"}
Misleads(n, outcome) == outcome \in {"late", "crossed"} /\ n.late # NoAnswer

\* The answer of the request under way, and the answer that is late afterwards.
Own(n) == [private |-> IF n.state = "RECV_PUB" THEN Foreign ELSE n.asked,
           due |-> n.state # "RECV_MAP"]
Late(n, outcome) ==
  IF outcome \in {"twice", "given up", "crossed"} THEN Own(n)
  ELSE IF outcome = "late" THEN NoAnswer ELSE n.late

Sent(n, next, outcome, port) ==
  [n EXCEPT !.state = IF Asked(outcome) THEN next ELSE "ERR", !.wait = TRUE,
            !.asked = IF Asked(outcome) THEN port ELSE 0]

Discovered(x, enabled, outcome) ==
  IF enabled /\ x.nat.state = "DISCOVER"
  THEN [x EXCEPT !.nat = [Sent(x.nat, "RECV_PUB", outcome, 0) EXCEPT !.discovered = TRUE]]
  ELSE IF x.nat.state = "RECV_PUB" /\ ~x.nat.wait
  THEN [x EXCEPT !.nat.state = IF Answers(outcome) THEN "IDLE"
                               ELSE IF outcome \in {"failed", "given up"} THEN "ERR" ELSE @,
                 !.nat.late = Late(x.nat, outcome)]
  ELSE x

\* Mutant: a mapping of an old port is kept.
Leaves_OnlyWhenDisabled(x, enabled, port) ==
  IF x.nat.state \in {"IDLE", "ERR"} /\ x.nat.mapped /\ ~enabled
  THEN [x EXCEPT !.nat.state = "SEND_UNMAP"] ELSE x
Leaves(x, enabled, port) ==
  IF x.nat.state \in {"IDLE", "ERR"} /\ x.nat.mapped /\ (~enabled \/ x.nat.private # port)
  THEN [x EXCEPT !.nat.state = "SEND_UNMAP"] ELSE x

\* A request ends without an answer, or is given up before its answer comes.
Fails(n) == [n EXCEPT !.state = "ERR", !.asked = 0]
GivesUp(n) == [n EXCEPT !.state = "ERR", !.asked = 0, !.late = Own(n)]

\* The answer to an unmapping.  One that names another port ends the request, and the machine
\* that still listens fails.
Gone(n, outcome) ==
  [n EXCEPT !.state = "IDLE", !.mapped = FALSE, !.private = 0, !.public = 0, !.asked = 0,
            !.due = FALSE, !.late = Late(n, outcome), !.sure = TRUE]
Unmapped(x, outcome) ==
  IF x.nat.state # "RECV_UNMAP" THEN x
  ELSE IF x.nat.asked = 0 \/ outcome = "failed"
  THEN [x EXCEPT !.nat = Fails(x.nat)]
  ELSE CASE Answers(outcome) -> [x EXCEPT !.pmp = @ \ {x.nat.asked}, !.nat = Gone(x.nat, outcome)]
         [] outcome = "given up" -> [x EXCEPT !.pmp = @ \ {x.nat.asked}, !.nat = GivesUp(x.nat)]
         [] Misleads(x.nat, outcome) ->
              IF x.nat.late.private = x.nat.private
              THEN [x EXCEPT !.left = @ \/ x.nat.private \in x.pmp, !.nat = Gone(x.nat, outcome)]
              ELSE [x EXCEPT !.nat = [x.nat EXCEPT !.asked = 0, !.late = Late(x.nat, outcome)]]
         [] OTHER -> x

Unmaps(x, outcome) ==
  Unmapped(IF x.nat.state = "SEND_UNMAP" /\ ~x.nat.wait
           THEN [x EXCEPT !.nat = Sent(x.nat, "RECV_UNMAP", outcome, x.nat.private),
                          !.pmp = IF Carried(outcome) THEN @ \ {x.nat.private} ELSE @]
           ELSE x, outcome)

Wants(x, enabled) ==
  IF x.nat.state = "IDLE" /\ (IF enabled /\ ~x.nat.mapped /\ x.nat.discovered THEN TRUE
                              ELSE x.nat.mapped /\ x.nat.due)
  THEN [x EXCEPT !.nat.state = "SEND_MAP"] ELSE x

Takes(n, answer, outcome, public, sure) ==
  [n EXCEPT !.state = "IDLE", !.mapped = TRUE, !.private = answer.private, !.public = public,
            !.asked = 0, !.due = answer.due, !.late = Late(n, outcome), !.sure = sure]
Mapped(x, outcome, public) ==
  IF x.nat.state # "RECV_MAP" THEN x
  ELSE CASE Answers(outcome) ->
              [x EXCEPT !.pmp = @ \cup {x.nat.asked},
                        !.nat = Takes(x.nat, Own(x.nat), outcome, public, TRUE)]
         [] outcome = "failed" -> [x EXCEPT !.left = TRUE, !.nat = Fails(x.nat)]
         [] outcome = "given up" ->
              [x EXCEPT !.pmp = @ \cup {x.nat.asked}, !.left = TRUE, !.nat = GivesUp(x.nat)]
         [] Misleads(x.nat, outcome) ->
              [x EXCEPT !.left = @ \/ ~(x.pmp \subseteq {x.nat.late.private}),
                        !.nat = Takes(x.nat, x.nat.late, outcome, public, FALSE)]
         [] OTHER -> x

Maps(x, port, outcome, public) ==
  Mapped(IF x.nat.state = "SEND_MAP" /\ ~x.nat.wait
         THEN [x EXCEPT !.nat = Sent(x.nat, "RECV_MAP", outcome, port),
                        !.pmp = IF Carried(outcome) THEN @ \cup {port} ELSE @]
         ELSE x, outcome, public)

natpmpPulse(x, port, enabled, in) ==
  Maps(Wants(Unmaps(Leaves(Discovered(x, enabled, in.first), enabled, port), in.first), enabled),
       port, in.map, in.public)

natpmpStatus(n) ==
  CASE n.state = "IDLE" -> IF n.mapped THEN "MAPPED" ELSE "UNMAPPED"
    [] n.state = "DISCOVER" -> "UNMAPPED"
    [] n.state \in {"RECV_PUB", "SEND_MAP", "RECV_MAP"} -> "MAPPING"
    [] n.state \in {"SEND_UNMAP", "RECV_UNMAP"} -> "UNMAPPING"
    [] OTHER -> "ERROR"

(***************************************************************************)
(* tr_upnpPulse, whose requests are answered before it goes on.  y holds   *)
(* the machine and the mappings of the router.                             *)
(***************************************************************************)
Found(y, enabled, found) ==
  IF enabled /\ y.upnp.state = "DISCOVER"
  THEN [y EXCEPT !.upnp.state = IF found THEN "IDLE" ELSE "ERR"] ELSE y

\* Unmapping is decided upon before the port is checked, and done after it.  deleted: the
\* protocols whose mapping the router deletes; what it answers is not looked at.
Checked(y, port, enabled, check, deleted) ==
  LET unmap == y.upnp.state = "IDLE" /\ y.upnp.mapped /\ (~enabled \/ y.upnp.port # port)
      gone == /\ enabled /\ y.upnp.mapped /\ check
              /\ ~(Protocols \X {y.upnp.port} \subseteq y.at)
      kept == y.at \ (deleted \X {y.upnp.port})
  IN IF unmap THEN [y EXCEPT !.upnp = [@ EXCEPT !.mapped = FALSE, !.port = -1],
                             !.at = kept, !.left = @ \/ kept # {}]
     ELSE IF gone THEN [y EXCEPT !.upnp.mapped = FALSE] ELSE y

\* accepted: the protocols for which the router takes the mapping.
Added(y, port, enabled, accepted) ==
  IF ~(y.upnp.state = "IDLE" /\ enabled /\ ~y.upnp.mapped) THEN y
  ELSE IF accepted # {}
  THEN [y EXCEPT !.upnp = [@ EXCEPT !.mapped = TRUE, !.port = port],
                 !.at = @ \cup (accepted \X {port})]
  ELSE [y EXCEPT !.upnp = [@ EXCEPT !.port = -1, !.state = "ERR"], !.left = TRUE]

upnpPulse(y, port, enabled, check, in) ==
  Added(Checked(Found(y, enabled, in.found), port, enabled, check, in.deleted),
        port, enabled, in.accepted)

upnpStatus(u) ==
  CASE u.state = "IDLE" -> IF u.mapped THEN "MAPPED" ELSE "UNMAPPED"
    [] u.state = "DISCOVER" -> "UNMAPPED"
    [] OTHER -> "ERROR"

(***************************************************************************)
(* The timer and the calls of the session.                                 *)
(***************************************************************************)
\* The inputs that make a difference: an outcome counts where a machine is about to ask or to
\* listen, and not where all is as it should be.
Wanted(on) == on /\ natpmp.private = session.private
Possible(outcomes) ==
  (IF natpmp.late = NoAnswer THEN outcomes \ {"late", "crossed"} ELSE outcomes)
     \ (IF router.kind.late THEN {} ELSE {"twice", "given up"})
FirstOutcomes(on) ==
  IF natpmp.state \in {"RECV_PUB", "RECV_UNMAP"} THEN Possible(Listening)
  ELSE IF natpmp.state \in {"NONE", "DISCOVER"} THEN {"failed", "lost"}
  ELSE IF /\ natpmp.mapped /\ ~natpmp.wait
          /\ natpmp.state = "SEND_UNMAP" \/ (natpmp.state \in {"IDLE", "ERR"} /\ ~Wanted(on))
  THEN Possible(Outcomes) ELSE {"lost"}
MapOutcomes(on) ==
  IF natpmp.state = "RECV_MAP" THEN Possible(Listening)
  ELSE IF natpmp.state \in {"RECV_PUB", "RECV_UNMAP"} /\ ~natpmp.wait /\ on
  THEN IF router.kind.late THEN Outcomes ELSE Possible(Outcomes)
  ELSE IF /\ natpmp.state \in {"IDLE", "SEND_MAP"} /\ ~natpmp.wait
          /\ natpmp.state = "SEND_MAP" \/ (on /\ (natpmp.mapped => natpmp.due /\ Wanted(on)))
  THEN Possible(Outcomes) ELSE {"lost"}
AcceptedInputs(on) ==
  IF on /\ upnp.state # "ERR"
        /\ ~(upnp.mapped /\ upnp.port = session.private /\ Protocols \X {upnp.port} \subseteq router.upnp)
  THEN {{}, {"UDP"}, Protocols} ELSE {{}}
DeletedInputs(on) ==
  IF upnp.mapped /\ ~(on /\ upnp.port = session.private)
  THEN {{}, {"TCP"}, Protocols} ELSE {Protocols}

natpmpPulses(on) ==
  LET n == IF natpmp = None THEN tr_natpmpInit ELSE natpmp
  IN {natpmpPulse([nat |-> n, pmp |-> router.pmp, left |-> left], session.private, on, in) :
        in \in [first : FirstOutcomes(on), map : MapOutcomes(on), public : PublicPorts]}
upnpPulses(on, check) ==
  LET u == IF upnp = None THEN tr_upnpInit ELSE upnp
  IN {upnpPulse([upnp |-> u, at |-> router.upnp, left |-> left], session.private, on, check, in) :
        in \in [found : IF upnp.state \in {"NONE", "DISCOVER"} THEN {FALSE, router.kind.upnp} ELSE {TRUE},
                accepted : AcceptedInputs(on), deleted : DeletedInputs(on)]}

\* natPulse on the settings s: what it may make of everything.
AfterPulse(s, x, y) ==
  [natpmp |-> x.nat, upnp |-> y.upnp, left |-> x.left \/ y.left,
   router |-> [router EXCEPT !.pmp = x.pmp, !.upnp = y.at],
   session |-> IF natpmpStatus(x.nat) = "MAPPED"
               THEN [session EXCEPT !.public = x.nat.public] ELSE session,
   shared |-> [s EXCEPT !.natpmpStatus = natpmpStatus(x.nat), !.upnpStatus = upnpStatus(y.upnp)]]
natPulse(s, check) ==
  LET on == s.isEnabled /\ s.alive
  IN {AfterPulse(s, x, y) : x \in natpmpPulses(on), y \in upnpPulses(on, check)}

\* set_evtimer_from_status.
Armed(s) == IF TraversalStatus(s) = "MAPPED" THEN [s EXCEPT !.doPortCheck = TRUE] ELSE s

Becomes(r) ==
  /\ natpmp' = r.natpmp /\ upnp' = r.upnp /\ left' = r.left /\ router' = r.router
  /\ session' = r.session /\ shared' = r.shared
  /\ overtaken' = (overtaken /\ r.natpmp.state \in {"RECV_MAP", "IDLE"})

\* onTimer, of the timer or of a stray one: it asserts that there is a timer, and arms that.
onTimer ==
  /\ shared.alive /\ shared.timer
  /\ stray' \in {stray, stray - 1} \cap 0 .. MaxStray
  /\ \E r \in natPulse(shared, shared.doPortCheck) :
       Becomes([r EXCEPT !.shared = Armed([r.shared EXCEPT !.doPortCheck = FALSE])])

\* start_timer does not look for a timer that runs already.
start_timer(s) == Armed([s EXCEPT !.timer = TRUE])

TraversalEnable ==
  /\ shared.alive /\ (shared.timer => stray < MaxStray)
  /\ shared' = start_timer([shared EXCEPT !.isEnabled = TRUE])
  /\ stray' = IF shared.timer THEN stray + 1 ELSE stray
  /\ UNCHANGED <<natpmp, upnp, session, overtaken, router, left>>

\* stop_forwarding: one pulse, and both machines are thrown away wherever they are.
Hasty(r) == ~(r.natpmp.state \in {"IDLE", "DISCOVER"} /\ ~r.natpmp.mapped)
stop_forwarding(s) ==
  \E r \in natPulse(s, FALSE) :
    Becomes([r EXCEPT !.natpmp = None, !.upnp = None, !.left = @ \/ Hasty(r),
                      !.shared = [r.shared EXCEPT !.natpmpStatus = "UNMAPPED",
                                                  !.upnpStatus = "UNMAPPED", !.timer = FALSE]])

TraversalDisable ==
  shared.alive /\ stop_forwarding([shared EXCEPT !.isEnabled = FALSE]) /\ UNCHANGED stray
tr_sharedClose == shared.alive /\ stop_forwarding([shared EXCEPT !.alive = FALSE]) /\ UNCHANGED stray

\* setPeerPort, in any thread, and tr_sharedPortChanged in the event thread.
setPeerPort ==
  /\ shared.alive
  /\ \E p \in Ports \ {session.private} :
       session' = [private |-> p, public |-> p, changed |-> TRUE]
  /\ overtaken' = (natpmp.state = "RECV_MAP")
  /\ left' = (left \/ (natpmp.state = "SEND_MAP" /\ natpmp.mapped))
  /\ UNCHANGED <<shared, stray, natpmp, upnp, router>>

tr_sharedPortChanged ==
  /\ session.changed /\ shared.alive
  /\ IF shared.isEnabled
     THEN \E r \in natPulse(shared, FALSE) :
            Becomes([r EXCEPT !.shared = start_timer(r.shared), !.session.changed = FALSE])
     ELSE session' = [session EXCEPT !.changed = FALSE] /\
          UNCHANGED <<shared, natpmp, upnp, overtaken, router, left>>
  /\ UNCHANGED stray

\* Time goes by (whether a mapping is due is looked at where the machine is idle), and the router
\* forgets.
Later ==
  /\ natpmp # None
  /\ natpmp' \in {[natpmp EXCEPT !.wait = FALSE],
                 [natpmp EXCEPT !.due = @ \/ (natpmp.mapped /\ natpmp.state = "IDLE")]}
  /\ UNCHANGED <<shared, stray, upnp, session, overtaken, router, left>>
RouterForgets ==
  /\ \/ /\ \E protocols \in {{"TCP"}, Protocols}, p \in Ports :
             router' = [router EXCEPT !.upnp = @ \ (protocols \X {p})]
        /\ UNCHANGED natpmp
     \/ /\ \E p \in router.pmp : router' = [router EXCEPT !.pmp = @ \ {p}]
        /\ natpmp' = IF natpmp.mapped THEN [natpmp EXCEPT !.sure = FALSE] ELSE natpmp
  /\ UNCHANGED <<shared, stray, upnp, session, overtaken, left>>

Next ==
  \/ onTimer \/ TraversalEnable \/ TraversalDisable \/ tr_sharedClose
  \/ setPeerPort \/ tr_sharedPortChanged \/ Later \/ RouterForgets

Spec == Init /\ [][Next]_portVars

(***************************************************************************)
(* Properties.                                                             *)
(***************************************************************************)
TypeOK ==
  /\ stray \in 0 .. MaxStray /\ session.private \in Ports /\ router.pmp \subseteq Ports
  /\ router.upnp \subseteq Protocols \X Ports
  /\ (natpmp = None) = (upnp = None)

\* What tr_upnpClose asserts can be had: between the pulses nothing is under way, and what is
\* mapped is idle, so that the pulse of stop_forwarding unmaps it.
UpnpClosesCleanly ==
  upnp # None => /\ upnp.state \in {"IDLE", "ERR", "DISCOVER"}
                 /\ upnp.mapped => upnp.state = "IDLE" /\ upnp.port \in Ports

\* The router lets in no port that this machine does not know of, unless an answer failed or
\* another was taken for it, the router did not delete a mapping when it was told to, the
\* forwarding was stopped before the router had answered, or the port changed while a mapping was
\* to be renewed.
NothingIsLeftOpen ==
  left \/ /\ router.pmp \subseteq (IF natpmp = None THEN {} ELSE {natpmp.private, natpmp.asked})
          /\ router.upnp \subseteq (IF upnp = None THEN {} ELSE Protocols \X {upnp.port})

\* When no change of the port is on its way, the trackers are told the public port of the last
\* answer.  By the port it maps the router lets the peers in, and it is the port that the session
\* listens to, unless that changed between the request and its answer, a late answer was taken for
\* the one awaited, or the router has forgotten the mapping since.
PublicPortIsMapped ==
  shared.natpmpStatus = "MAPPED" /\ ~session.changed =>
    /\ session.public = natpmp.public
    /\ natpmp.sure => natpmp.private \in router.pmp /\ (overtaken \/ natpmp.private = session.private)

\* Forwarding that is on is looked after, and forwarding that is off is not.
TimerFollowsSwitch == shared.alive => shared.timer = shared.isEnabled

\* A timer that fires finds the timer it belongs to (the assertion of onTimer).
TimerIsHeld == stray > 0 => shared.alive /\ shared.timer
================================================================================
