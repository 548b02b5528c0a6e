------------------------------- MODULE Lifecycle -------------------------------
(***************************************************************************)
(* The life of a torrent in libtransmission, as three threads see it:      *)
(*                                                                         *)
(*  - the user's thread calls tr_torrentStart, tr_torrentStop,             *)
(*    tr_torrentRemove, tr_torrentNew, tr_sessionClose (torrent.c);        *)
(*  - the event thread (trevent.c) runs the functions that other threads   *)
(*    put on its pipe, the calls of the RPC server and the bandwidth timer *)
(*    of peer-mgr.c;                                                       *)
(*  - the verify thread (verify.c) checks one torrent after the other and  *)
(*    ends when its list is empty.                                         *)
(*                                                                         *)
(* A function of the event thread is a stack of calls, which may get stuck *)
(* in tr_verifyRemove until the verify thread lets go of the torrent.  The *)
(* event thread holds the session's lock while it has calls to make; the   *)
(* user's thread reads the activity of a torrent before it takes the lock. *)
(*                                                                         *)
(* Abstractions.  All torrents belong to the download queue and none is    *)
(* stalled; seeding has a queue of its own that works the same way.  The   *)
(* order of verifyList is left open: it follows the priorities and sizes   *)
(* of the torrents, which change.                                          *)
(***************************************************************************)
EXTENDS Integers, FiniteSets, Sequences, SequencesExt

CONSTANTS
  Torrents,
  QueuePosition,  \* tr_torrent::queuePosition, which orders the queue
  Slots,          \* tr_session::queueSize of the downloads
  NewTorrents,    \* the torrents that are added in the course of the run
  Disappeared,    \* the torrents with data whose files are not there any more
  RpcCommands,    \* the commands that the RPC server gets: "start", "stop", "verify"
  MaxCommands,    \* bound: commands of the user and of the RPC server
  NoTorrent       \* NULL

ASSUME LifecycleAssumption ==
  /\ IsFiniteSet(Torrents)
  /\ QueuePosition \in [Torrents -> Nat]
  /\ Slots \in Nat
  /\ NewTorrents \subseteq Torrents /\ Disappeared \subseteq Torrents
  /\ RpcCommands \subseteq {"start", "stop", "verify"}
  /\ MaxCommands \in Nat
  /\ NoTorrent \notin Torrents

VARIABLES
  tor,         \* the torrents: their flags, whether they exist, whether peers and tracker are started
  pipe,        \* the functions on the event thread's pipe, with their torrents
  calls,       \* the calls that the event thread has yet to make
  verifyPc,    \* where the verify thread is; "dead" is verifyThread == NULL
  current,     \* currentNode.torrent
  verifyList,  \* the torrents of verifyList
  stopCurrent, \* stopCurrent
  starting,    \* the torrent that the user's thread found stopped in tr_torrentStart
  closing,     \* tr_sessionClose has been called
  removed,     \* the torrents that the user has removed, and calls no more
  commands     \* how many commands there were

vars == <<tor, pipe, calls, verifyPc, current, verifyList, stopCurrent, starting,
          closing, removed, commands>>
verifyVars == <<verifyPc, current, verifyList, stopCurrent>>
userVars   == <<starting, closing, removed, commands>>

Flags == [exists : BOOLEAN, isRunning : BOOLEAN, started : BOOLEAN, isQueued : BOOLEAN,
          isStopping : BOOLEAN, startAfterVerify : BOOLEAN, verifyState : {"none", "wait", "now"}]

\* What other threads put on the pipe.
Functions == {"torrentStartImpl", "stopTorrent", "verifyTorrent", "torrentRecheckDoneImpl",
              "removeTorrent", "sessionCloseImpl"}

\* What the event thread calls; in brackets, what is left of a function after a call.
Calls == Functions \cup
         {"tr_torrentStop", "tr_torrentStart", "tr_torrentStartNow", "queuePulse", "(queuePulse loop)", "tr_verifyClose",
          "tr_verifyRemove", "(tr_verifyRemove wait)", "(stopTorrent)", "(removeTorrent)",
          "(verifyTorrent)", "(verifyTorrent end)", "(verifyTorrent end, start)"}

Call(f, t) == [call |-> f, tor |-> t]

NewTorrent == [exists |-> TRUE, isRunning |-> FALSE, started |-> FALSE, isQueued |-> FALSE,
               isStopping |-> FALSE, startAfterVerify |-> FALSE, verifyState |-> "none"]

Init ==
  /\ tor = [t \in Torrents |-> [NewTorrent EXCEPT !.exists = t \notin NewTorrents]]
  /\ pipe = <<>> /\ calls = <<>>
  /\ verifyPc = "dead" /\ current = NoTorrent /\ verifyList = {} /\ stopCurrent = FALSE
  /\ starting = NoTorrent /\ closing = FALSE
  /\ removed = {} /\ commands = 0

-----------------------------------------------------------------------------
(* What the threads read and write. *)

torrentGetActivity(r) ==
  CASE r.verifyState = "now"  -> "check"
    [] r.verifyState = "wait" -> "checkWait"
    [] r.verifyState = "none" /\ r.isRunning -> "download"
    [] r.verifyState = "none" /\ ~r.isRunning /\ r.isQueued -> "downloadWait"
    [] OTHER -> "stopped"

Downloading == {t \in Torrents : tor[t].exists /\ torrentGetActivity(tor[t]) = "download"}

\* tr_sessionCountQueueFreeSlots
FreeSlots == IF Cardinality(Downloading) >= Slots THEN 0 ELSE Slots - Cardinality(Downloading)

Queued == {t \in Torrents : tor[t].exists /\ tor[t].isQueued}
NextQueued == CHOOSE t \in Queued : \A u \in Queued : QueuePosition[t] <= QueuePosition[u]

torrentStartImpl(r) == [r EXCEPT !.isRunning = TRUE, !.started = TRUE, !.isQueued = FALSE]

\* torrentStart in the event thread, where torrentStartImpl is called at once.
torrentStart(t, r, bypassQueue) ==
  LET activity == torrentGetActivity(r)
  IN  CASE activity = "download" \/ (activity = "downloadWait" /\ ~bypassQueue) -> r
        [] activity \in {"check", "checkWait"} -> [r EXCEPT !.startAfterVerify = TRUE]
        [] activity = "stopped" /\ ~bypassQueue /\ FreeSlots = 0 -> [r EXCEPT !.isQueued = TRUE]
        [] OTHER -> IF t \in Disappeared THEN r ELSE torrentStartImpl(r)

SessionIsLocked == calls # <<>>

-----------------------------------------------------------------------------
(* The event thread. *)

\* readFromPipe
TakeFunction ==
  /\ calls = <<>> /\ pipe # <<>>
  /\ calls' = <<Head(pipe)>> /\ pipe' = Tail(pipe)
  /\ UNCHANGED <<tor, verifyVars, userVars>>

\* bandwidthPulse, when it has something to do.
Pulse ==
  LET stopping == {t \in Torrents : tor[t].exists /\ tor[t].isStopping} IN
  /\ calls = <<>>
  /\ stopping # {} \/ (Queued # {} /\ FreeSlots > 0)
  /\ \E order \in SetToSeqs(stopping) :
       calls' = [n \in DOMAIN order |-> Call("tr_torrentStop", order[n])]
                  \o <<Call("queuePulse", NoTorrent)>>
  /\ UNCHANGED <<tor, pipe, verifyVars, userVars>>

\* The next call is f on t; it returns, having called first what is in more.
Calling(f, t) == calls # <<>> /\ Head(calls) = Call(f, t) /\ t \in Torrents /\ tor[t].exists
Return(more)  == calls' = more \o Tail(calls)
Update(t, r)  == tor' = [tor EXCEPT ![t] = r]

\* A call that sets flags of its torrent, and one that only calls others.
SetFlags(t, r) == Update(t, r) /\ Return(<<>>) /\ UNCHANGED <<pipe, verifyVars, userVars>>
Expand(more) == Return(more) /\ UNCHANGED <<tor, pipe, verifyVars, userVars>>

\* A call on a torrent that has been freed is undefined behaviour; the model drops it.
CallOnFreed ==
  /\ calls # <<>> /\ Head(calls).tor \in Torrents /\ ~tor[Head(calls).tor].exists
  /\ Expand(<<>>)

StartImpl(t)  == Calling("torrentStartImpl", t) /\ SetFlags(t, torrentStartImpl(tor[t]))
StartNow(t)   == Calling("tr_torrentStartNow", t) /\ SetFlags(t, torrentStart(t, tor[t], TRUE))
StartFromRpc(t) == Calling("tr_torrentStart", t) /\ SetFlags(t, torrentStart(t, tor[t], FALSE))

\* torrentRecheckDoneImpl
RecheckDone(t) ==
  /\ Calling("torrentRecheckDoneImpl", t)
  /\ SetFlags(t, IF tor[t].startAfterVerify
                   THEN torrentStart(t, [tor[t] EXCEPT !.startAfterVerify = FALSE], FALSE)
                   ELSE tor[t])

\* Mutant: one time too few.
QueuePulse_OffByOne ==
  /\ calls # <<>> /\ Head(calls).call = "queuePulse"
  /\ Expand([n \in 1 .. FreeSlots - 1 |-> Call("(queuePulse loop)", NoTorrent)])

\* queuePulse: as many times as there are free slots, the first torrent of the queue is started.
QueuePulse ==
  /\ calls # <<>> /\ Head(calls).call = "queuePulse"
  /\ Expand([n \in 1 .. FreeSlots |-> Call("(queuePulse loop)", NoTorrent)])

StartNextQueued ==
  /\ calls # <<>> /\ Head(calls).call = "(queuePulse loop)"
  /\ Expand(IF Queued = {} THEN <<>> ELSE <<Call("tr_torrentStartNow", NextQueued)>>)

\* tr_torrentStop in the event thread, where stopTorrent is called at once.
StopNow(t) ==
  /\ Calling("tr_torrentStop", t)
  /\ Update(t, [tor[t] EXCEPT !.isRunning = FALSE, !.isStopping = FALSE])
  /\ Return(<<Call("stopTorrent", t)>>)
  /\ UNCHANGED <<pipe, verifyVars, userVars>>

\* stopTorrent behind its tr_verifyRemove.
stopTorrent(r) == [r EXCEPT !.isQueued = FALSE, !.started = FALSE]

StopTorrent(t) ==
  \/ Calling("stopTorrent", t) /\ Expand(<<Call("tr_verifyRemove", t), Call("(stopTorrent)", t)>>)
  \/ Calling("(stopTorrent)", t) /\ SetFlags(t, stopTorrent(tor[t]))

\* verifyTorrent: let go of the torrent, stop it, add it to the list.
VerifyTorrent(t) ==
  \/ /\ Calling("verifyTorrent", t)
     /\ Expand(<<Call("tr_verifyRemove", t), Call("(verifyTorrent)", t)>>)
  \/ LET r == tor[t]
         startAfter == (r.isRunning \/ r.startAfterVerify) /\ ~r.isStopping
         end == Call(IF startAfter THEN "(verifyTorrent end, start)" ELSE "(verifyTorrent end)", t)
     IN  /\ Calling("(verifyTorrent)", t)
         /\ Expand(IF r.isRunning THEN <<Call("tr_torrentStop", t), end>> ELSE <<end>>)

VerifyTorrentEnd(t, startAfter) ==
  /\ Calling(IF startAfter THEN "(verifyTorrent end, start)" ELSE "(verifyTorrent end)", t)
  /\ IF t \in Disappeared
       THEN /\ Update(t, [tor[t] EXCEPT !.startAfterVerify = FALSE])
            /\ UNCHANGED <<verifyList, verifyPc>>
       ELSE /\ Update(t, [tor[t] EXCEPT !.startAfterVerify = startAfter, !.verifyState = "wait"])
            /\ verifyList' = verifyList \cup {t}  \* tr_verifyAdd
            /\ verifyPc' = IF verifyPc = "dead" THEN "loop" ELSE verifyPc
  /\ Return(<<>>)
  /\ UNCHANGED <<pipe, current, stopCurrent, userVars>>

\* The half of tr_verifyRemove for a torrent that is not being verified.
RemoveWaiting(t) ==
  /\ Update(t, [tor[t] EXCEPT !.verifyState = "none"])
  /\ verifyList' = verifyList \ {t}

\* The other half: the verify thread is told to stop, and waited for.
StopVerifier(t) ==
  /\ Calling("tr_verifyRemove", t) /\ t = current
  /\ stopCurrent' = TRUE
  /\ Return(<<Call("(tr_verifyRemove wait)", t)>>)
  /\ UNCHANGED <<tor, pipe, verifyPc, current, verifyList, userVars>>

VerifyRemove(t) ==
  \/ StopVerifier(t)
  \/ Calling("(tr_verifyRemove wait)", t) /\ ~stopCurrent /\ Expand(<<>>)
  \/ /\ Calling("tr_verifyRemove", t) /\ t # current
     /\ RemoveWaiting(t)
     /\ Return(<<>>)
     /\ UNCHANGED <<pipe, verifyPc, current, stopCurrent, userVars>>

\* removeTorrent, closeTorrent and freeTorrent
RemoveTorrent(t) ==
  \/ Calling("removeTorrent", t) /\ Expand(<<Call("stopTorrent", t), Call("(removeTorrent)", t)>>)
  \/ Calling("(removeTorrent)", t) /\ SetFlags(t, [tor[t] EXCEPT !.isRunning = FALSE, !.exists = FALSE])

\* sessionCloseImpl: the verify thread is told to stop, the torrents are closed in any order.
CloseSessionImpl ==
  \/ /\ calls # <<>> /\ Head(calls).call = "sessionCloseImpl"
     /\ \E order \in SetToSeqs({t \in Torrents : tor[t].exists}) :
          Expand(<<Call("tr_verifyClose", NoTorrent)>>
                   \o [n \in DOMAIN order |-> Call("removeTorrent", order[n])])
  \/ /\ calls # <<>> /\ Head(calls).call = "tr_verifyClose"
     /\ stopCurrent' = TRUE /\ verifyList' = {}
     /\ Return(<<>>)
     /\ UNCHANGED <<tor, pipe, verifyPc, current, userVars>>

EventThread ==
  \/ TakeFunction \/ Pulse \/ CallOnFreed \/ QueuePulse \/ StartNextQueued \/ CloseSessionImpl
  \/ \E t \in Torrents :
       \/ StartImpl(t) \/ StartNow(t) \/ StartFromRpc(t) \/ RecheckDone(t) \/ StopNow(t) \/ StopTorrent(t)
       \/ VerifyTorrent(t) \/ VerifyTorrentEnd(t, TRUE) \/ VerifyTorrentEnd(t, FALSE)
       \/ VerifyRemove(t) \/ RemoveTorrent(t)

-----------------------------------------------------------------------------
(* The verify thread. *)

\* Mutant: the thread ends when it is told to stop.
VerifyLoop_StopEnds ==
  /\ verifyPc = "loop"
  /\ stopCurrent' = FALSE
  /\ \/ /\ verifyList = {} \/ stopCurrent
        /\ current' = NoTorrent /\ verifyPc' = "dead" /\ UNCHANGED verifyList
     \/ \E t \in verifyList :
          ~stopCurrent /\ current' = t /\ verifyList' = verifyList \ {t} /\ verifyPc' = "begin"
  /\ UNCHANGED <<tor, pipe, calls, userVars>>

\* Mutant: the request to stop stays if there is no other torrent.
VerifyLoop_NoReset ==
  /\ verifyPc = "loop"
  /\ stopCurrent' = (stopCurrent /\ verifyList = {})
  /\ \/ /\ verifyList = {}
        /\ current' = NoTorrent /\ verifyPc' = "dead" /\ UNCHANGED verifyList
     \/ \E t \in verifyList :
          current' = t /\ verifyList' = verifyList \ {t} /\ verifyPc' = "begin"
  /\ UNCHANGED <<tor, pipe, calls, userVars>>

\* The part of verifyThreadFunc under the lock.
VerifyLoop ==
  /\ verifyPc = "loop"
  /\ stopCurrent' = FALSE
  /\ \/ /\ verifyList = {}
        /\ current' = NoTorrent /\ verifyPc' = "dead" /\ UNCHANGED verifyList
     \/ \E t \in verifyList :
          current' = t /\ verifyList' = verifyList \ {t} /\ verifyPc' = "begin"
  /\ UNCHANGED <<tor, pipe, calls, userVars>>

VerifyBegin ==
  /\ verifyPc = "begin" /\ verifyPc' = "verifying"
  /\ Update(current, [tor[current] EXCEPT !.verifyState = "now"])
  /\ UNCHANGED <<pipe, calls, current, verifyList, stopCurrent, userVars>>

\* The pieces have been checked, or stopCurrent was seen between two of them.
VerifyEnd ==
  /\ verifyPc = "verifying" /\ verifyPc' = "check"
  /\ Update(current, [tor[current] EXCEPT !.verifyState = "none"])
  /\ UNCHANGED <<pipe, calls, current, verifyList, stopCurrent, userVars>>

\* The last look at stopCurrent, and fireCheckDone.
VerifyCheck ==
  /\ verifyPc = "check"
  /\ verifyPc' = IF stopCurrent THEN "loop" ELSE "fire"
  /\ UNCHANGED <<tor, pipe, calls, current, verifyList, stopCurrent, userVars>>

FireCheckDone ==
  /\ verifyPc = "fire" /\ verifyPc' = "loop"
  /\ pipe' = Append(pipe, Call("torrentRecheckDoneImpl", current))
  /\ UNCHANGED <<tor, calls, current, verifyList, stopCurrent, userVars>>

VerifyThread == VerifyLoop \/ VerifyBegin \/ VerifyEnd \/ VerifyCheck \/ FireCheckDone

-----------------------------------------------------------------------------
(* The user's thread, and the RPC server in the event thread. *)

Command(t) ==
  /\ commands < MaxCommands /\ commands' = commands + 1
  /\ ~closing /\ starting = NoTorrent
  /\ t \notin removed
  /\ UNCHANGED closing

Post(f, t) == pipe' = Append(pipe, Call(f, t))

\* torrentInit of a torrent that was not there in the last session.
UserAdd(t, doStart) ==
  /\ ~tor[t].exists /\ ~SessionIsLocked
  /\ Command(t) /\ UNCHANGED removed
  /\ Update(t, [NewTorrent EXCEPT !.startAfterVerify = doStart])
  /\ Post("verifyTorrent", t)
  /\ UNCHANGED <<calls, verifyVars, starting>>

\* tr_torrentStart: torrentStart up to the lock.
UserStart(t) ==
  LET r == tor[t]
      activity == torrentGetActivity(r)
      mayStart == activity = "stopped" /\ FreeSlots > 0
  IN
  /\ r.exists /\ Command(t) /\ UNCHANGED removed
  /\ starting' = IF mayStart THEN t ELSE NoTorrent
  /\ Update(t, CASE activity \in {"check", "checkWait"} -> [r EXCEPT !.startAfterVerify = TRUE]
                 [] activity = "stopped" /\ ~mayStart -> [r EXCEPT !.isQueued = TRUE]
                 [] OTHER -> r)
  /\ UNCHANGED <<pipe, calls, verifyVars>>

\* The rest of torrentStart.
StartLocked ==
  LET r == tor[starting] IN
  /\ starting # NoTorrent /\ ~SessionIsLocked
  /\ starting' = NoTorrent
  /\ IF starting \in Disappeared
       THEN /\ Update(starting, [r EXCEPT !.isStopping = r.isStopping \/ r.isRunning])
            /\ UNCHANGED pipe
       ELSE /\ Update(starting, [r EXCEPT !.isRunning = TRUE])
            /\ Post("torrentStartImpl", starting)
  /\ UNCHANGED <<calls, verifyVars, closing, removed, commands>>

\* tr_torrentStop
UserStop(t) ==
  /\ tor[t].exists /\ ~SessionIsLocked /\ Command(t) /\ UNCHANGED removed
  /\ Update(t, [tor[t] EXCEPT !.isRunning = FALSE, !.isStopping = FALSE])
  /\ Post("stopTorrent", t)
  /\ UNCHANGED <<calls, verifyVars, starting>>

\* tr_torrentVerify
UserVerify(t) ==
  /\ tor[t].exists /\ Command(t) /\ UNCHANGED removed
  /\ Post("verifyTorrent", t)
  /\ UNCHANGED <<tor, calls, verifyVars, starting>>

\* tr_torrentRemove
UserRemove(t) ==
  /\ tor[t].exists /\ Command(t) /\ removed' = removed \cup {t}
  /\ Post("removeTorrent", t)
  /\ UNCHANGED <<tor, calls, verifyVars, starting>>

\* tr_sessionClose
CloseSession ==
  /\ ~closing /\ starting = NoTorrent
  /\ closing' = TRUE
  /\ Post("sessionCloseImpl", NoTorrent)
  /\ UNCHANGED <<tor, calls, verifyVars, starting, removed, commands>>

\* The calls of rpcimpl.c.
RpcCommand(t, c) ==
  /\ c \in RpcCommands /\ calls = <<>> /\ tor[t].exists /\ ~closing
  /\ commands < MaxCommands /\ commands' = commands + 1
  /\ UNCHANGED <<pipe, verifyVars, starting, closing, removed>>

RpcStart(t) ==
  /\ ~tor[t].isRunning /\ RpcCommand(t, "start")
  /\ \E start \in {"tr_torrentStart", "tr_torrentStartNow"} : calls' = <<Call(start, t)>>
  /\ UNCHANGED tor

\* Also what tr_torrentCheckSeedLimit and tr_torrentSetLocalError do to a running torrent.
RpcStop(t) ==
  /\ tor[t].isRunning \/ tor[t].isQueued
  /\ RpcCommand(t, "stop")
  /\ Update(t, [tor[t] EXCEPT !.isStopping = TRUE]) /\ UNCHANGED calls

RpcVerify(t) ==
  /\ RpcCommand(t, "verify")
  /\ calls' = <<Call("verifyTorrent", t)>> /\ UNCHANGED tor

User ==
  \/ StartLocked \/ CloseSession
  \/ \E t \in Torrents :
       \/ UserStart(t) \/ UserStop(t) \/ UserVerify(t) \/ UserRemove(t)
       \/ \E doStart \in BOOLEAN : UserAdd(t, doStart)
       \/ RpcStart(t) \/ RpcStop(t) \/ RpcVerify(t)

Next == EventThread \/ VerifyThread \/ User

\* The threads are scheduled, and a call of tr_torrentStart returns.
Fairness == WF_vars(EventThread) /\ WF_vars(VerifyThread) /\ WF_vars(StartLocked)

Spec == Init /\ [][Next]_vars /\ Fairness

-----------------------------------------------------------------------------
(* Properties. *)

\* The type invariant.
TypeOK ==
  /\ tor \in [Torrents -> Flags]
  /\ pipe \in Seq([call : Functions \ {"sessionCloseImpl"}, tor : Torrents]
                    \cup {Call("sessionCloseImpl", NoTorrent)})
  /\ calls \in Seq([call : Calls, tor : Torrents \cup {NoTorrent}])
  /\ verifyPc \in {"dead", "loop", "begin", "verifying", "check", "fire"}
  /\ current \in Torrents \cup {NoTorrent}
  /\ verifyList \subseteq Torrents
  /\ stopCurrent \in BOOLEAN
  /\ starting \in Torrents \cup {NoTorrent}
  /\ closing \in BOOLEAN
  /\ removed \subseteq Torrents
  /\ commands \in 0 .. MaxCommands

\* The verify state that the user sees (verify.c writes it in two threads, mostly
\* without the lock) is what the verify thread does or has before it: no torrent
\* shows as queued or verifying that is neither, and none is verified unseen.
\* tr_verifyClose alone leaves it behind, until the torrents are closed.
VerifyStateIsTrue ==
  \A t \in Torrents : tor[t].exists =>
    /\ tor[t].verifyState = "now" <=> (t = current /\ verifyPc = "verifying")
    /\ t \in verifyList \/ (t = current /\ verifyPc = "begin") => tor[t].verifyState = "wait"
    /\ tor[t].verifyState = "wait" /\ ~closing =>
         t \in verifyList \/ (t = current /\ verifyPc = "begin")

\* The verify thread never touches a torrent that closeTorrent has freed
\* (verify.c asserts it), though nothing but the wait of tr_verifyRemove keeps it.
VerifierHoldsTorrent ==
  /\ verifyPc \in {"begin", "verifying", "check", "fire"} => tor[current].exists
  /\ \A t \in verifyList : tor[t].exists

\* A torrent in verifyList has a thread that will come to it, although the
\* thread ends by itself when it finds the list empty.
ListIsServed == verifyList # {} => verifyPc # "dead"

\* A torrent that does not run has no peers and no tracker, or the call that
\* stops them is on its way: tr_torrentStop clears isRunning long before.
StopIsOnItsWay ==
  \A t \in Torrents :
    tor[t].exists /\ tor[t].started /\ ~tor[t].isRunning =>
      \E q \in {pipe, calls} : \E n \in DOMAIN q :
        q[n].tor = t /\ q[n].call \in {"stopTorrent", "(stopTorrent)", "removeTorrent"}

\* The event thread always returns to its loop: tr_verifyRemove, which waits for
\* the verify thread with the session locked, does not wait forever.
EventThreadReturns == SessionIsLocked ~> ~SessionIsLocked

\* A verification that was asked for comes to its end, or is stopped.
VerificationEnds ==
  \A t \in Torrents : tor[t].verifyState # "none" ~> tor[t].verifyState = "none" \/ ~tor[t].exists

\* A torrent waits in the queue only while the session has enough others running
\* (transmission.h:752): as long as there is a free slot, queuePulse comes to every
\* torrent that can be started.
QueueIsServed ==
  \A t \in Torrents \ Disappeared :
    tor[t].isQueued ~> ~tor[t].isQueued \/ FreeSlots = 0 \/ closing \/ ~tor[t].exists

\* torrent.c:1712: the event thread calls torrentRecheckDoneImpl on a torrent that exists.
RecheckedTorrentExists ==
  calls # <<>> /\ Head(calls).call = "torrentRecheckDoneImpl" => tor[Head(calls).tor].exists

\* The comment at torrent.c:1654: a torrent that is being verified is not started
\* until that is done.
NotStartedWhileVerified ==
  [][\A t \in Torrents : ~tor[t].started /\ tor'[t].started => tor[t].verifyState = "none"]_vars

\* The flags of the three threads together: what the user sees of the verification, what the
\* verify thread holds, who is going to serve its list, and which stop is on its way.
ThreadsAgree ==
  TypeOK /\ VerifyStateIsTrue /\ VerifierHoldsTorrent /\ ListIsServed /\ StopIsOnItsWay

\* Neither of the two threads that wait for each other does so for ever.
ThreadsGetOn == EventThreadReturns /\ VerificationEnds
=============================================================================
