-------------------------------- MODULE Shutdown --------------------------------
(***************************************************************************)
(* The end of a session (tr_sessionClose and sessionCloseImpl of           *)
(* session.c, web.c, trevent.c): three threads come to a stop.             *)
(*                                                                         *)
(* The caller posts sessionCloseImpl to the event thread and waits for it, *)
(* for the trackers and for the web thread, in a loop each, until a        *)
(* deadline; then it stops the web thread and the event thread and frees   *)
(* the session.  The event thread frees the torrents, whose last announces *)
(* it gives to the web thread and sends by UDP.                            *)
(***************************************************************************)
EXTENDS Integers, Sequences, FiniteSets, SequencesExt

CONSTANTS
  Torrents,  \* all of them are running
  Http       \* those whose tracker is announced to by HTTP; the others' is by UDP

VARIABLES
  caller,   \* where tr_sessionClose is
  time,     \* 0, 1 when its deadline is reached, 2 three seconds later
  event,    \* where the event thread is
  pipe,     \* the calls posted to the event thread, and "eof" when it is closed
  die,      \* tr_event_handle.die
  web,      \* [at, mode, tasks, curl]: the web thread, and the tasks that it has and has begun
  open,     \* the torrents not freed yet
  stops,    \* announcer's stops: the last announces that nobody has been given yet
  udp,      \* the last announces that wait for a UDP tracker
  answered, \* history: the last announces whose answer came to the event thread
  dropped   \* history: the tasks that were thrown away

shutVars == <<caller, time, event, pipe, die, web, open, stops, udp, answered, dropped>>

Init ==
  /\ caller = "running" /\ time = 0 /\ event = "loop" /\ pipe = <<>> /\ die = FALSE
  /\ web = [at |-> "top", mode |-> "none", tasks |-> <<>>, curl |-> {}]
  /\ open = Torrents /\ stops = {} /\ udp = {} /\ answered = {} /\ dropped = {}

(***************************************************************************)
(* The caller: tr_sessionClose.                                            *)
(***************************************************************************)
Posts ==
  /\ caller = "running" /\ caller' = "isClosed"
  /\ pipe' = Append(pipe, "close")
  /\ UNCHANGED <<time, event, die, web, open, stops, udp, answered, dropped>>

\* What the two loops wait for: isClosed, and web, announcer and announcer_udp to be NULL.
\* The announcers go before isClosed is set.
ClosedOrLate == event \in {"closed", "ended"} \/ time > 0
QuietOrLate == (event \in {"closed", "ended"} /\ web.at = "gone") \/ time > 0

Waits ==
  /\ \/ caller = "isClosed" /\ ClosedOrLate /\ caller' = "isQuiet"
     \/ caller = "isQuiet" /\ QuietOrLate /\ caller' = "webTest"
  /\ UNCHANGED <<time, event, pipe, die, web, open, stops, udp, answered, dropped>>

\* tr_webClose (TR_WEB_CLOSE_NOW): the mode is set after the test, in another step; then it
\* waits for the web thread, without a deadline.
WebCloseNow ==
  /\ \/ /\ caller = "webTest"
        /\ caller' = IF web.at = "gone" THEN "eventClose" ELSE "webSet"
        /\ UNCHANGED web
     \/ caller = "webSet" /\ caller' = "webWait" /\ web' = [web EXCEPT !.mode = "now"]
     \/ caller = "webWait" /\ web.at = "gone" /\ caller' = "eventClose" /\ UNCHANGED web
  /\ UNCHANGED <<time, event, pipe, die, open, stops, udp, answered, dropped>>

tr_eventClose ==
  /\ caller = "eventClose" /\ caller' = "events"
  /\ die' = TRUE /\ pipe' = Append(pipe, "eof")
  /\ UNCHANGED <<time, event, web, open, stops, udp, answered, dropped>>

\* Mutant: the last three seconds are not waited for.
Frees_AtTheDeadline == caller = "events" /\ (event = "ended" \/ time > 0)

\* The session is freed when the event thread has ended, or at last without it.
Frees == caller = "events" /\ (event = "ended" \/ time = 2)
Freed ==
  /\ Frees /\ caller' = "freed"
  /\ UNCHANGED <<time, event, pipe, die, web, open, stops, udp, answered, dropped>>

Clock ==
  /\ caller \notin {"running", "freed"} /\ time < 2 /\ time' = time + 1
  /\ UNCHANGED <<caller, event, pipe, die, web, open, stops, udp, answered, dropped>>

(***************************************************************************)
(* The event thread: readFromPipe, and sessionCloseImpl in its steps.      *)
(***************************************************************************)
\* task_finish_func: a task that comes back is answered; with `die' set nothing is run.
readFromPipe ==
  /\ event \in {"loop", "closed"} /\ pipe # <<>>
  /\ pipe' = Tail(pipe)
  /\ LET call == Head(pipe) IN
     CASE call = "eof" -> event' = "ended" /\ UNCHANGED <<answered, dropped>>
       [] call = "close" /\ ~die -> event' = "torrents" /\ UNCHANGED <<answered, dropped>>
       [] call = "close" /\ die -> UNCHANGED <<event, answered, dropped>>
       [] OTHER -> /\ answered' = IF die THEN answered ELSE answered \cup {call}
                   /\ dropped' = IF die THEN dropped \cup {call} ELSE dropped
                   /\ UNCHANGED event
  /\ UNCHANGED <<caller, time, die, web, open, stops, udp>>

\* event_base_loopbreak at the deadline: the loop sees `die' though the pipe is not empty.
Loopbreak ==
  /\ event \in {"loop", "closed"} /\ die /\ time > 0 /\ event' = "ended"
  /\ UNCHANGED <<caller, time, pipe, die, web, open, stops, udp, answered, dropped>>

\* tr_torrentFree: it is saved, and its last announce is queued.
FreeTorrent ==
  /\ event = "torrents"
  /\ \/ \E t \in open : open' = open \ {t} /\ stops' = stops \cup {t} /\ UNCHANGED event
     \/ open = {} /\ event' = "announcer" /\ UNCHANGED <<open, stops>>
  /\ UNCHANGED <<caller, time, pipe, die, web, udp, answered, dropped>>

\* tr_webRun takes nothing when the web thread has gone, and puts a task at the front.
tr_webRun(t) ==
  IF web.at = "gone" THEN dropped' = dropped \cup {t} /\ UNCHANGED web
  ELSE web' = [web EXCEPT !.tasks = <<t>> \o @] /\ UNCHANGED dropped

\* tr_announcerClose sends the last announces.
tr_announcerClose ==
  /\ event = "announcer"
  /\ \/ \E t \in stops :
          /\ stops' = stops \ {t} /\ UNCHANGED event
          /\ IF t \in Http THEN tr_webRun(t) /\ UNCHANGED udp
             ELSE udp' = udp \cup {t} /\ UNCHANGED <<web, dropped>>
     \/ stops = {} /\ event' = "webClose" /\ UNCHANGED <<stops, web, udp, dropped>>
  /\ UNCHANGED <<caller, time, pipe, die, open, answered>>

\* tr_webClose (TR_WEB_CLOSE_WHEN_IDLE); it may overwrite the caller's CLOSE_NOW.
WebCloseWhenIdle ==
  /\ event = "webClose" /\ event' = "udp"
  /\ web' = IF web.at = "gone" THEN web ELSE [web EXCEPT !.mode = "whenIdle"]
  /\ UNCHANGED <<caller, time, pipe, die, open, stops, udp, answered, dropped>>

\* The loop that lasts until the UDP trackers are idle.  The event loop does not run meanwhile:
\* no answer comes, and an announce goes when its time is up.
UdpUpkeep ==
  /\ event = "udp"
  /\ \/ \E t \in udp : udp' = udp \ {t} /\ UNCHANGED event
     \/ udp = {} /\ event' = "closed" /\ UNCHANGED udp
  /\ UNCHANGED <<caller, time, pipe, die, web, open, stops, answered, dropped>>

(***************************************************************************)
(* The web thread: tr_webThreadFunc.                                       *)
(***************************************************************************)
\* The top of the loop: tasks that are with curl already do not keep it from ending.
Idle == web.tasks = <<>>
WebTop ==
  /\ web.at = "top"
  /\ web' = [web EXCEPT !.at = IF web.mode = "now" \/ (web.mode = "whenIdle" /\ Idle)
                               THEN "ending" ELSE "begin"]
  /\ UNCHANGED <<caller, time, event, pipe, die, open, stops, udp, answered, dropped>>

WebBegin ==
  /\ web.at = "begin"
  /\ web' = [web EXCEPT !.at = "perform", !.tasks = <<>>, !.curl = @ \cup Range(web.tasks)]
  /\ UNCHANGED <<caller, time, event, pipe, die, open, stops, udp, answered, dropped>>

\* curl_multi_perform, and the finished tasks posted to the event thread.
WebPerform ==
  /\ web.at = "perform"
  /\ \E done \in SUBSET web.curl :
       /\ web' = [web EXCEPT !.at = "top", !.curl = @ \ done]
       /\ pipe' = pipe \o SetToSeq(done)
  /\ UNCHANGED <<caller, time, event, die, open, stops, udp, answered, dropped>>

WebEnds ==
  /\ web.at = "ending"
  /\ web' = [web EXCEPT !.at = "gone", !.tasks = <<>>, !.curl = {}]
  /\ dropped' = dropped \cup web.curl \cup Range(web.tasks)
  /\ UNCHANGED <<caller, time, event, pipe, die, open, stops, udp, answered>>

CallerSteps == Posts \/ Waits \/ WebCloseNow \/ tr_eventClose \/ Freed
EventSteps == \/ readFromPipe \/ Loopbreak \/ FreeTorrent \/ tr_announcerClose
              \/ WebCloseWhenIdle \/ UdpUpkeep
WebSteps == WebTop \/ WebBegin \/ WebPerform \/ WebEnds

Next == CallerSteps \/ EventSteps \/ WebSteps \/ Clock

\* Every thread gets on, and so does the clock.
Fairness == /\ WF_shutVars(CallerSteps) /\ WF_shutVars(EventSteps)
            /\ WF_shutVars(WebSteps) /\ WF_shutVars(Clock)
Spec == Init /\ [][Next]_shutVars /\ Fairness

(***************************************************************************)
(* Properties.                                                             *)
(***************************************************************************)
TypeOK ==
  /\ time \in 0 .. 2 /\ open \subseteq Torrents /\ stops \subseteq Torrents
  /\ udp \subseteq Torrents \ Http /\ Range(web.tasks) \subseteq Http /\ web.curl \subseteq Http

\* Nothing uses the session when it is freed, unless the event thread took too long; the web
\* thread never does.
NothingUsesTheFreed ==
  /\ caller \in {"eventClose", "events", "freed"} => web.at = "gone"
  /\ caller = "freed" /\ time = 0 => event = "ended"
  /\ caller = "freed" => event = "ended" \/ time = 2

\* A web thread that the caller found alive is alive when it is told to end, unless the
\* deadline made the caller look too soon.
WebIsThereWhenTold == caller = "webSet" => web.at # "gone" \/ time > 0

\* A session that is closed in time has freed every torrent and sent every last announce: to
\* the trackers by UDP, or to the web thread.
ClosedIsDone ==
  /\ event = "closed" => open = {} /\ stops = {} /\ udp = {}
  /\ caller = "freed" /\ time = 0 => open = {} /\ answered \cup dropped = Http

\* No last announce by HTTP is answered and thrown away as well, or is in two places.
In(t, place) == IF t \in place THEN 1 ELSE 0
Listed(t, list) == Cardinality({i \in DOMAIN list : list[i] = t})
AnnouncedOnce ==
  \A t \in Http :
    In(t, open) + In(t, stops) + Listed(t, web.tasks) + In(t, web.curl) + Listed(t, pipe)
      + In(t, answered) + In(t, dropped) = 1

\* The last announces by HTTP are answered when nothing was late (session.c: the web thread
\* "won't be idle until the announce events are sent").
StopsAreSent == time = 0 => dropped = {}

\* tr_sessionClose returns.
CloseReturns == <>(caller = "freed")
================================================================================
