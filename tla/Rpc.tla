---------------------------------- MODULE Rpc ----------------------------------
(***************************************************************************)
(* The RPC server (rpc-server.c) and its methods (rpcimpl.c), with a       *)
(* client that sends requests and asks for what was recently active.       *)
(*                                                                         *)
(* A request passes the checks of handle_request and is answered at once,  *)
(* or when a web task is done (torrent-add of a URL, port-test,            *)
(* blocklist-update).  The client is not part of the code: it sends the    *)
(* session id that it last got, one torrent-get at a time, and does not    *)
(* trust an answer on what was recently active when the last one is older  *)
(* than the window.  Ages stop counting after Window.                      *)
(***************************************************************************)
EXTENDS Integers, Sequences, SequencesExt, FiniteSets

CONSTANTS
  Ids,         \* the torrents: those of New are added in the course of the run
  New,
  Broken,      \* those whose .torrent file cannot be loaded and parsed again
  Requests,    \* the requests that may be under way at a time
  Questions,   \* what each asks for: [method, ids, list, allowed]
  Window,      \* RECENTLY_ACTIVE_SECONDS
  Expiry,      \* how long a session id is good
  FileCount,   \* the files of a torrent
  Urls,        \* the announce URLs; BadUrl is not one of a tracker
  BadUrl,
  Settings,    \* the arguments of torrent-set: [limit, files, unwanted, add, remove, replace]
  MaxRestarts

VARIABLES
  tor,     \* [state, any, gone]: what the torrent is doing, how long ago it changed (anyDate),
           \* and how long ago it was put into removedTorrents
  info,    \* [limit, unwanted, trackers] of each torrent: what torrent-set changes
  server,  \* [enabled, up, posted, age]: the HTTP server, the age of its session id
  req,     \* the requests: [state, ask, sid, answers, result, seen, truth]; sid: whether the
           \* session id that it has is the server's
  tasks,   \* the requests that a web task is under way for
  client,  \* [sid, view, age]: its session id, what it thinks of the torrents, and how long
           \* ago it learned that
  polled,  \* history: what the torrents did when the client learned of them
  restarts

rpcVars == <<tor, info, server, req, tasks, client, polled, restarts>>
serverVars == <<server, req, tasks, restarts>>
clientVars == <<client, polled>>

Old == Window + 1
Aged(age) == IF age < Old THEN age + 1 ELSE age
Live(t) == tor[t].state # "absent"
Running(x) == x.state \in {"running", "stopping"}
\* To be checked, and then to be started.
Checking(x) == x.state \in {"check", "recheck"}
\* What a client sees; isStopping and startAfterVerify are not shown.
Shown(x) == CASE Running(x) -> "running" [] Checking(x) -> "check" [] OTHER -> x.state

Nobody == [method |-> "none", ids |-> "all", list |-> <<>>, allowed |-> TRUE]

(***************************************************************************)
(* The methods.                                                            *)
(***************************************************************************)
\* getTorrents: the ids that there are, those that were active lately, or all.
Recent == {t \in Ids : Live(t) /\ tor[t].any <= Window}
getTorrents(ask) ==
  CASE ask.ids = "list" -> {t \in Ids \cap Range(ask.list) : Live(t)}
    [] ask.ids = "recent" -> Recent
    [] OTHER -> {t \in Ids : Live(t)}

\* What torrent-get tells of a torrent, here its activity; and the torrents that were
\* removed lately.
addInfo(t) == [id |-> t, shown |-> Shown(tor[t])]
Removed == {[id |-> t, shown |-> "absent"] : t \in {t \in Ids : tor[t].gone <= Window}}
torrentGet(ask) ==
  {addInfo(t) : t \in getTorrents(ask)} \cup (IF ask.ids = "recent" THEN Removed ELSE {})

\* torrentStart, torrentStop, torrentVerify, torrentRemove on one torrent; torrentReannounce
\* changes nothing here.
torrentStart(x) == CASE x.state = "stopped" -> [x EXCEPT !.state = "running", !.any = 0]
                     [] x.state = "check"   -> [x EXCEPT !.state = "recheck"]
                     [] OTHER -> x
torrentStop(x) == IF Running(x) THEN [x EXCEPT !.state = "stopping"] ELSE x
torrentVerify(x) ==
  [x EXCEPT !.state = IF @ \in {"running", "recheck"} THEN "recheck" ELSE "check", !.any = 0]
torrentRemove(x) == [state |-> "absent", any |-> Old, gone |-> 0]
MethodOn(method, x) ==
  CASE method = "torrent-start"  -> torrentStart(x)
    [] method = "torrent-stop"   -> torrentStop(x)
    [] method = "torrent-verify" -> torrentVerify(x)
    [] method = "torrent-remove" -> torrentRemove(x)
    [] OTHER -> x

\* setFileDLs, and setFilePriorities with the priorities: an index out of range is an error, but
\* those in range are applied; an empty list is all files.
setFileDLs(i, list) ==
  LET named == IF list = <<>> THEN 0..FileCount - 1 ELSE Range(list)
      inRange == named \cap (0..FileCount - 1)
  IN [info |-> [i EXCEPT !.unwanted = @ \cup inRange],
      err |-> IF named = inRange THEN "none" ELSE "file index out of range"]

\* tr_torrentSetAnnounceList, for a .torrent file that can be loaded and, changed, parsed again;
\* when it cannot (that of a magnet link is not there), nothing changes, and it says success too.
tr_torrentSetAnnounceList(i, trackers, hasFile) ==
  [info |-> IF hasFile THEN [i EXCEPT !.trackers = trackers] ELSE i, err |-> "none"]
Refused(i) == [info |-> i, err |-> "invalid argument"]

\* addTrackerUrls: what is no URL or is there already is left out.
addTrackerUrls(i, urls, hasFile) ==
  LET Added(list, u) == IF u = BadUrl \/ u \in Range(list) THEN list ELSE Append(list, u)
      longer == FoldLeft(Added, i.trackers, urls)
  IN IF longer = i.trackers THEN Refused(i) ELSE tr_torrentSetAnnounceList(i, longer, hasFile)

\* removeTrackers: from the largest position to the smallest.
removeTrackers(i, ids, hasFile) ==
  LET named == {k \in Range(ids) : k < Len(i.trackers)}
      Without(list, k) == RemoveAt(list, k + 1)
  IN IF named = {} THEN Refused(i)
     ELSE tr_torrentSetAnnounceList(i, FoldLeft(Without, i.trackers, SetToSortSeq(named, >)), hasFile)

\* replaceTrackers: pairs of a position and a URL.
replaceTrackers(i, pairs, hasFile) ==
  LET good == SelectSeq(pairs, LAMBDA p : p.pos < Len(i.trackers) /\ p.url # BadUrl)
      Replaced(list, p) == [list EXCEPT ![p.pos + 1] = p.url]
  IN IF good = <<>> THEN Refused(i)
     ELSE tr_torrentSetAnnounceList(i, FoldLeft(Replaced, i.trackers, good), hasFile)

\* torrentSet, one torrent after the other.  After an error, the file lists and the trackers are
\* passed over, also those of the torrents that follow; the other settings are not.
SetOne(x, args, hasFile) ==
  LET limited == [x EXCEPT !.info.limit = args.limit]
      files == IF limited.err # "none" \/ ~args.files THEN limited
               ELSE setFileDLs(limited.info, args.unwanted)
      added == IF files.err # "none" \/ args.add = <<>> THEN files
               ELSE addTrackerUrls(files.info, args.add, hasFile)
      removed == IF added.err # "none" \/ args.remove = <<>> THEN added
                 ELSE removeTrackers(added.info, args.remove, hasFile)
  IN IF removed.err # "none" \/ args.replace = <<>> THEN removed
     ELSE replaceTrackers(removed.info, args.replace, hasFile)
torrentSet(list, args) ==
  LET Also(x, t) == LET y == SetOne([info |-> x.info[t], err |-> x.err], args, t \notin Broken)
                    IN [info |-> [x.info EXCEPT ![t] = y.info], err |-> y.err]
  IN FoldLeft(Also, [info |-> info, err |-> "none"], list)

(***************************************************************************)
(* The server.                                                             *)
(***************************************************************************)
NewInfo == [limit |-> 0, unwanted |-> {}, trackers |-> <<>>]
Idle == [state |-> "idle", ask |-> Nobody, sid |-> FALSE, answers |-> 0, result |-> "none",
         seen |-> {}, truth |-> [t \in Ids |-> "absent"]]

Init ==
  /\ tor = [t \in Ids |-> [state |-> IF t \in New THEN "absent" ELSE "stopped", any |-> Old, gone |-> Old]]
  /\ info = [t \in Ids |-> NewInfo]
  /\ server = [enabled |-> TRUE, up |-> TRUE, posted |-> 0, age |-> Expiry]
  /\ req = [r \in Requests |-> Idle] /\ tasks = {}
  /\ client = [sid |-> FALSE, view |-> [t \in Ids |-> Shown(tor[t])], age |-> 0]
  /\ polled = [t \in Ids |-> Shown(tor[t])]
  /\ restarts = 0

\* The client asks, with the session id that it has.
Send(r, ask) ==
  /\ req[r].state = "idle" /\ server.up
  /\ ask.method = "torrent-get" => \A q \in Requests : req[q].ask.method # "torrent-get"
  /\ req' = [req EXCEPT ![r] = [Idle EXCEPT !.state = "sent", !.ask = ask, !.sid = client.sid]]
  /\ UNCHANGED <<tor, info, server, tasks, clientVars, restarts>>

\* evhttp_send_reply
Reply(x, result) == [x EXCEPT !.state = "answered", !.answers = @ + 1, !.result = result]

\* get_current_session_id: when it has expired, a new one takes its place, and none that was
\* sent is good any more.
Renewed(x) == [x EXCEPT !.sid = FALSE]
Expired == server.age >= Expiry
SessionId ==
  /\ server' = IF Expired THEN [server EXCEPT !.age = 0] ELSE server
  /\ client' = IF Expired THEN Renewed(client) ELSE client
HasSessionId(r) == req[r].sid /\ ~Expired
Others(r, x) ==
  LET next == [req EXCEPT ![r] = x]
  IN IF Expired THEN [q \in Requests |-> Renewed(next[q])] ELSE next

Handles(r) == server.up /\ req[r].state = "sent"
Asks(r, methods) == req[r].ask.method \in methods
\* An answer with no effect but that of get_current_session_id.
Answer(r, x) ==
  /\ SessionId /\ req' = Others(r, x)
  /\ UNCHANGED <<tor, info, tasks, polled, restarts>>

\* handle_request: an address or a password that is not allowed, and the files of the web
\* client, are answered before the session id is looked at.
Unauthorized(r) ==
  /\ Handles(r) /\ ~req[r].ask.allowed
  /\ req' = [req EXCEPT ![r] = Reply(@, "unauthorized")]
  /\ UNCHANGED <<tor, info, server, tasks, clientVars, restarts>>
WebClient(r) ==
  /\ Handles(r) /\ req[r].ask.allowed /\ Asks(r, {"web"})
  /\ req' = [req EXCEPT ![r] = Reply(@, "file")]
  /\ UNCHANGED <<tor, info, server, tasks, clientVars, restarts>>

Refuse(r) ==
  /\ Handles(r) /\ req[r].ask.allowed /\ ~HasSessionId(r) /\ ~Asks(r, {"web", "upload"})
  /\ Answer(r, Reply(req[r], "409"))

\* handle_upload answers a second time when it has refused the session id.
RefuseUpload(r) ==
  /\ Handles(r) /\ req[r].ask.allowed /\ ~HasSessionId(r) /\ Asks(r, {"upload"})
  /\ Answer(r, Reply(Reply(req[r], "409"), "success"))

Executes(r, methods) ==
  Handles(r) /\ req[r].ask.allowed /\ HasSessionId(r) /\ Asks(r, methods)

\* request_exec: the method is not known, or has nothing to change here (session-get).
SessionGet(r) == Executes(r, {"session-get", "unknown"}) /\
  Answer(r, Reply(req[r], IF Asks(r, {"unknown"}) THEN "method name not recognized" ELSE "success"))

TorrentGet(r) ==
  /\ Executes(r, {"torrent-get"})
  /\ Answer(r, [Reply(req[r], "success") EXCEPT !.seen = torrentGet(req[r].ask),
                                                !.truth = [t \in Ids |-> Shown(tor[t])]])

TorrentAction(r) ==
  LET named == getTorrents(req[r].ask)
      method == req[r].ask.method
  IN /\ Executes(r, {"torrent-start", "torrent-stop", "torrent-verify", "torrent-reannounce",
                       "torrent-remove"})
     /\ tor' = [t \in Ids |-> IF t \in named THEN MethodOn(method, tor[t]) ELSE tor[t]]
     /\ info' = [t \in Ids |-> IF t \in named /\ method = "torrent-remove" THEN NewInfo ELSE info[t]]
     /\ req' = [req EXCEPT ![r] = Reply(@, "success")]
     /\ UNCHANGED <<server, tasks, clientVars, restarts>>

TorrentSet(r) ==
  /\ Executes(r, {"torrent-set"})
  /\ \E args \in Settings, list \in SetToSeqs(getTorrents(req[r].ask)) :
       LET done == torrentSet(list, args)
       IN info' = done.info /\ req' = [req EXCEPT ![r] = Reply(@, IF done.err = "none" THEN "success" ELSE done.err)]
  /\ UNCHANGED <<tor, server, tasks, clientVars, restarts>>

\* addTorrentImpl: the torrent is new, or there already, or what came is none.  A new one is
\* checked, and then started unless it is to be paused; at once when its .torrent file is
\* left of an earlier time.
Adds(r, next) ==
  \/ /\ \E t \in New :
          /\ tor[t].state = "absent" /\ tor[t].gone = Old
          /\ \E s \in {"check", "recheck", "stopped", "running"} :
               tor' = [tor EXCEPT ![t] = [state |-> s, any |-> 0, gone |-> Old]]
     /\ req' = next["success"]
  \/ /\ \E t \in New : Live(t)
     /\ req' = next["duplicate torrent"] /\ UNCHANGED tor
  \/ req' = next["invalid or corrupt torrent file"] /\ UNCHANGED tor
Added == {"success", "duplicate torrent", "invalid or corrupt torrent file"}

\* torrentAdd of a file or a magnet link, also by an upload.
TorrentAdd(r) ==
  /\ Executes(r, {"torrent-add", "upload"})
  /\ Adds(r, [s \in Added |-> [req EXCEPT ![r] = Reply(@, IF Asks(r, {"upload"}) THEN "success" ELSE s)]])
  /\ UNCHANGED <<info, server, tasks, clientVars, restarts>>

\* tr_webRun: torrentAdd of a URL, portTest, blocklistUpdate.
RunTask(r) ==
  /\ Executes(r, {"torrent-add-url", "port-test"})
  /\ req' = [req EXCEPT ![r].state = "waiting"] /\ tasks' = tasks \cup {r}
  /\ UNCHANGED <<tor, info, server, clientVars, restarts>>

\* torrentAdd with nothing to add returns its message to nobody; handle_rpc passes over a GET
\* without a query, and what is neither a GET nor a POST.
NeverAnswered == {"torrent-add-nothing", "no-query", "put"}
Ignore(r) ==
  /\ Executes(r, NeverAnswered)
  /\ req' = [req EXCEPT ![r].state = "waiting"]
  /\ UNCHANGED <<tor, info, server, tasks, clientVars, restarts>>

\* gotMetadataFromURL, portTested, gotNewBlocklist: tr_idle_function_done answers.  When the
\* client or the server has gone, nobody gets it.
Told(r, s) == [req EXCEPT ![r] = IF @.state = "waiting" THEN Reply(@, s) ELSE Idle]
TaskDone(r) ==
  /\ r \in tasks
  /\ tasks' = tasks \ {r}
  /\ \/ /\ req[r].ask.method = "torrent-add-url"
        /\ Adds(r, [s \in Added |-> Told(r, s)])
     \/ /\ req[r].ask.method # "torrent-add-url"
        /\ req' = Told(r, "success") /\ UNCHANGED tor
     \/ req' = Told(r, "http error") /\ UNCHANGED tor
  /\ UNCHANGED <<info, server, clientVars, restarts>>

\* The client reads the answer; from a refusal it takes the session id.
Receive(r) ==
  /\ req[r].state = "answered"
  /\ LET told == {s.id : s \in req[r].seen}
         all == req[r].ask.ids = "all"
         ShownIn(t) == (CHOOSE s \in req[r].seen : s.id = t).shown
         trusts == req[r].ask.method = "torrent-get" /\ req[r].result = "success" /\ (all \/ client.age <= Window)
         view == [t \in Ids |-> IF t \in told THEN ShownIn(t) ELSE IF all THEN "absent" ELSE client.view[t]]
     IN /\ client' = [sid |-> client.sid \/ req[r].result = "409",
                      view |-> IF trusts THEN view ELSE client.view,
                      age |-> IF trusts THEN 0 ELSE client.age]
        /\ polled' = IF trusts THEN req[r].truth ELSE polled
  /\ req' = [req EXCEPT ![r] = Idle]
  /\ UNCHANGED <<tor, info, server, tasks, restarts>>

\* The client closes its connection.
GiveUp(r) ==
  /\ req[r].state \in {"sent", "waiting", "answered"}
  /\ req' = [req EXCEPT ![r] = IF r \in tasks THEN [Idle EXCEPT !.state = "left", !.ask = req[r].ask] ELSE Idle]
  /\ UNCHANGED <<tor, info, server, tasks, clientVars, restarts>>

\* tr_rpcSetEnabled, tr_rpcSetPort: the change is made in the event thread.
SetEnabled ==
  /\ restarts < MaxRestarts /\ restarts' = restarts + 1
  /\ server' = [server EXCEPT !.enabled = ~@, !.posted = @ + 1]
  /\ UNCHANGED <<tor, info, req, tasks, clientVars>>
SetPort ==
  /\ restarts < MaxRestarts /\ server.enabled /\ restarts' = restarts + 1
  /\ server' = [server EXCEPT !.posted = @ + 1]
  /\ UNCHANGED <<tor, info, req, tasks, clientVars>>

\* onEnabledChanged, restartServer: stopServer closes all connections.  (A change of the port
\* that runs when the server has been enabled only after it, restarts it once more.)
Run ==
  /\ server.posted > 0
  /\ \/ server.enabled /\ server' = [server EXCEPT !.posted = @ - 1, !.up = TRUE] /\ UNCHANGED req
     \/ /\ server' = [server EXCEPT !.posted = @ - 1, !.up = server.enabled]
        /\ req' = [r \in Requests |-> IF r \in tasks THEN [Idle EXCEPT !.state = "left", !.ask = req[r].ask] ELSE Idle]
  /\ UNCHANGED <<tor, info, tasks, clientVars, restarts>>

\* bandwidthPulse stops what is stopping; stopTorrent and the end of a check reset the
\* verification state, and with it anyDate.
Becomes(t, state) == [tor EXCEPT ![t].state = state, ![t].any = 0]
Pulse(t) ==
  /\ tor[t].state = "stopping" /\ tor' = Becomes(t, "stopped")
  /\ UNCHANGED <<info, serverVars, clientVars>>
RecheckDone(t) ==
  /\ Checking(tor[t])
  /\ tor' = Becomes(t, IF tor[t].state = "recheck" THEN "running" ELSE "stopped")
  /\ UNCHANGED <<info, serverVars, clientVars>>

\* tr_torrentSetActivityDate
Transfer(t) ==
  /\ Running(tor[t]) /\ tor[t].any > 0
  /\ tor' = [tor EXCEPT ![t].any = 0]
  /\ UNCHANGED <<info, serverVars, clientVars>>

\* Time passes; the client reads faster than that.
Tick ==
  /\ \A r \in Requests : req[r].state # "answered"
  /\ tor' = [t \in Ids |-> [tor[t] EXCEPT !.any = Aged(@), !.gone = Aged(@)]]
  /\ server' = [server EXCEPT !.age = IF @ < Expiry THEN @ + 1 ELSE @]
  /\ client' = [client EXCEPT !.age = Aged(@)]
  /\ UNCHANGED <<info, req, tasks, polled, restarts>>

Next ==
  \/ \E r \in Requests :
       \/ \E ask \in Questions[r] : Send(r, ask)
       \/ Unauthorized(r) \/ WebClient(r) \/ Refuse(r) \/ RefuseUpload(r) \/ SessionGet(r)
       \/ TorrentGet(r) \/ TorrentAction(r) \/ TorrentSet(r) \/ TorrentAdd(r) \/ RunTask(r)
       \/ Ignore(r) \/ TaskDone(r) \/ Receive(r) \/ GiveUp(r)
  \/ SetEnabled \/ SetPort \/ Run \/ Tick
  \/ \E t \in Ids : Pulse(t) \/ RecheckDone(t) \/ Transfer(t)

(***************************************************************************)
(* Properties.                                                             *)
(***************************************************************************)
TypeOK ==
  /\ \A t \in Ids : tor[t].state \in {"absent", "stopped", "running", "stopping", "check", "recheck"}
                    /\ tor[t].any \in 0..Old /\ tor[t].gone \in 0..Old
  /\ \A t \in Ids : info[t].unwanted \subseteq 0..FileCount - 1 /\ Range(info[t].trackers) \subseteq Urls
  /\ \A r \in Requests : req[r].state \in {"idle", "sent", "waiting", "answered", "left"}
  /\ tasks \subseteq Requests

\* A request is answered once: now, or when its task is done; only an upload with a wrong
\* session id is answered twice, and a torrent-add of nothing, a GET without a query and what is
\* neither GET nor POST never (tr_idle_function_done, request_exec, handle_rpc).
EachIsAnswered ==
  \A r \in Requests :
    /\ req[r].state = "waiting" => r \in tasks \/ req[r].ask.method \in NeverAnswered
    /\ req[r].state = "answered" =>
         r \notin tasks /\ (req[r].answers = 1 \/ (req[r].ask.method = "upload" /\ ~req[r].sid))

\* Who asks often enough for what was recently active misses no torrent that is added or removed,
\* starts, stops or is checked (getTorrents, torrentGet, anyDate).
RecentIsEnough == client.view = polled

\* A success of torrent-set means that all of it holds for all the torrents, but the trackers
\* of those whose .torrent file cannot be read, which stay as they were; whether it succeeds or
\* not, the simple settings hold, and torrents that are not named are left alone.
SetIsKept ==
  \A args \in Settings, list \in SetToSeqs({t \in Ids : Live(t)}) :
    LET done == torrentSet(list, args)
        Kept(t) ==
          LET before == info[t].trackers
              longer == before \o SelectSeq(args.add, LAMBDA u : u # BadUrl /\ u \notin Range(before))
              left == {k \in 1..Len(longer) : k - 1 \notin Range(args.remove)}
          IN /\ args.files => done.info[t].unwanted = info[t].unwanted \cup
                                (IF args.unwanted = <<>> THEN 0..FileCount - 1 ELSE Range(args.unwanted))
             /\ t \in Broken => done.info[t].trackers = info[t].trackers
             /\ t \notin Broken /\ args.replace = <<>> =>
                  done.info[t].trackers = [k \in 1..Cardinality(left) |-> longer[SetToSortSeq(left, <)[k]]]
    IN /\ \A t \in Range(list) : done.info[t].limit = args.limit
       /\ done.err = "none" => \A t \in Range(list) : Kept(t)
       /\ \A t \in Ids \ Range(list) : done.info[t] = info[t]
================================================================================
