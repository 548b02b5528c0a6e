------------------------------- MODULE UdpTracker -------------------------------
(***************************************************************************)
(* One UDP tracker (tau_tracker of announcer-udp.c): its address is looked *)
(* up, a connection is asked for, and then each request is sent once and   *)
(* answered, refused or given up after a minute.                           *)
(*                                                                         *)
(* All of it runs in the event thread: the calls of the announcer, the     *)
(* answers, and the upkeep every five seconds.  When the session closes,   *)
(* the event thread does nothing but the upkeep, and no answer comes.      *)
(* Times are in units of which TAU_REQUEST_TTL holds Ttl.                  *)
(***************************************************************************)
EXTENDS Integers, FiniteSets

CONSTANTS
  Requests,  \* announces and scrapes
  Silent,    \* those without a callback: the last announces of torrents that stop
  Ttl,       \* TAU_REQUEST_TTL, TAU_CONNECTION_TTL_SECS
  AddrTtl,   \* an hour
  CloseIn    \* the three seconds of tr_tracker_udp_start_shutdown

VARIABLES
  tracker,  \* [asking, addr, connecting, connection, close]: the time that the address, the
            \* connection and the shutdown have left, and how long it has been connecting
  request,  \* [state, age] of each request
  told,     \* history: how often each request's callback was called since it was made
  due       \* the upkeep of this unit of time is still to come

udpVars == <<tracker, request, told, due>>

Never == -1  \* connecting_at = 0, close_at = 0
Pending == {r \in Requests : request[r].state \in {"waiting", "sent"}}
IsPending(q) == q.state \in {"waiting", "sent"}
Closing == tracker.close # Never

Init ==
  /\ tracker = [asking |-> FALSE, addr |-> 0, connecting |-> Never, connection |-> 0, close |-> Never]
  /\ request = [r \in Requests |-> [state |-> "none", age |-> 0]]
  /\ told = [r \in Requests |-> 0] /\ due = FALSE

(***************************************************************************)
(* tau_tracker_upkeep, on x: the tracker, its requests and the callbacks.  *)
(***************************************************************************)
\* The requests that fail are taken off the list, and their callbacks are called.
Failed(x, failing) ==
  [x EXCEPT !.request = [r \in Requests |-> IF r \in failing THEN [state |-> "done", age |-> 0] ELSE @[r]],
            !.told = [r \in Requests |-> IF r \in failing \ Silent THEN @[r] + 1 ELSE @[r]]]

Listed(x) == {r \in Requests : IsPending(x.request[r])}

\* on_tracker_connection_response with an error, and an upkeep that finds nothing left.
ConnectionFailed(x) == Failed([x EXCEPT !.tracker.connecting = Never], Listed(x))

\* Mutant: a request that was never sent does not time out.
Overdue_SentOnly(x) ==
  IF x.tracker.close = 0 THEN Listed(x)
  ELSE {r \in Requests : x.request[r].state = "sent" /\ x.request[r].age > Ttl}
Overdue(x) == IF x.tracker.close = 0 THEN Listed(x) ELSE {r \in Listed(x) : x.request[r].age > Ttl}
TimedOut(x) ==
  LET y == IF x.tracker.connecting > Ttl THEN ConnectionFailed(x) ELSE x
  IN Failed(y, Overdue(y))

\* tau_tracker_send_reqs: one without a callback is done with when it is sent.
Sends(x) ==
  [x EXCEPT !.request = [r \in Requests |->
     IF @[r].state # "waiting" THEN @[r]
     ELSE [@[r] EXCEPT !.state = IF r \in Silent THEN "done" ELSE "sent"]]]

Upkept(x) ==
  LET t == x.tracker IN
  IF Listed(x) = {} THEN x
  ELSE IF t.addr = 0 /\ ~t.asking THEN [x EXCEPT !.tracker.asking = TRUE]
  ELSE IF t.addr > 0 /\ t.connection = 0 /\ t.connecting = Never
  THEN [x EXCEPT !.tracker.connecting = 0]
  ELSE LET y == TimedOut(x)
       IN IF t.addr > 0 /\ t.connection > 0 THEN Sends(y) ELSE y

Here == [tracker |-> tracker, request |-> request, told |-> told]
Becomes(x) == tracker' = x.tracker /\ request' = x.request /\ told' = x.told

(***************************************************************************)
(* Actions.                                                                *)
(***************************************************************************)
\* tr_tracker_udp_announce and tr_tracker_udp_scrape.
Announce(r) ==
  /\ ~Closing /\ ~IsPending(request[r])
  /\ Becomes(Upkept([Here EXCEPT !.request[r] = [state |-> "waiting", age |-> 0], !.told[r] = 0]))
  /\ UNCHANGED due

tr_tracker_udp_upkeep == Becomes(Upkept(Here)) /\ due' = FALSE

\* tau_tracker_on_dns.
on_dns ==
  /\ tracker.asking /\ ~Closing
  /\ LET x == [Here EXCEPT !.tracker.asking = FALSE]
     IN \/ Becomes(Failed(x, Pending))
        \/ Becomes(Upkept([x EXCEPT !.tracker.addr = AddrTtl]))
  /\ UNCHANGED due

\* on_tracker_connection_response, of an answer that arrives.
on_connection ==
  /\ tracker.connecting # Never /\ ~Closing
  /\ \/ Becomes(Upkept(ConnectionFailed(Here)))
     \/ Becomes(Upkept([Here EXCEPT !.tracker.connecting = Never, !.tracker.connection = Ttl]))
  /\ UNCHANGED due

\* on_announce_response and on_scrape_response: an error is told as well.
on_response(r) ==
  /\ request[r].state = "sent" /\ ~Closing
  /\ Becomes(Failed(Here, {r}))
  /\ UNCHANGED due

tr_tracker_udp_start_shutdown ==
  /\ ~Closing
  /\ Becomes(Upkept([Here EXCEPT !.tracker.close = CloseIn]))
  /\ UNCHANGED due

\* A unit of time, in which the announcer's timer has run.
Older(age) == IF age \in 0 .. Ttl THEN age + 1 ELSE age
Less(left) == IF left > 0 THEN left - 1 ELSE left
Tick ==
  /\ ~due /\ due' = TRUE
  /\ tracker' = [tracker EXCEPT !.addr = Less(@), !.connection = Less(@), !.close = Less(@),
                                !.connecting = Older(@)]
  /\ request' = [r \in Requests |-> IF r \in Pending THEN [request[r] EXCEPT !.age = Older(@)]
                                    ELSE request[r]]
  /\ UNCHANGED told

Next ==
  \/ \E r \in Requests : Announce(r) \/ on_response(r)
  \/ tr_tracker_udp_upkeep \/ on_dns \/ on_connection \/ tr_tracker_udp_start_shutdown \/ Tick

\* The timer runs and time goes by; no answer need ever come.
Fairness == WF_udpVars(tr_tracker_udp_upkeep) /\ WF_udpVars(Tick)
Spec == Init /\ [][Next]_udpVars /\ Fairness

(***************************************************************************)
(* Properties.                                                             *)
(***************************************************************************)
TypeOK ==
  /\ tracker \in [asking : BOOLEAN, addr : 0 .. AddrTtl, connecting : Never .. Ttl + 1,
                  connection : 0 .. Ttl, close : Never .. CloseIn]
  /\ request \in [Requests -> [state : {"none", "waiting", "sent", "done"}, age : 0 .. Ttl + 1]]

\* What tau_tracker_send_reqs asserts can be had: with an address no lookup is under way, and
\* with a connection no other is asked for.
ReadyToSend ==
  /\ tracker.asking => tracker.addr = 0
  /\ tracker.connecting # Never => tracker.connection = 0

\* Each request's callback is called once, when the request is done with.
ToldOnce ==
  \A r \in Requests :
    told[r] = IF r \notin Silent /\ request[r].state = "done" THEN 1 ELSE 0

\* Every request is answered, refused or given up, though no answer ever comes: also in the
\* loop of sessionCloseImpl that waits for it.
EveryRequestEnds == \A r \in Requests : IsPending(request[r]) ~> ~IsPending(request[r])
================================================================================
