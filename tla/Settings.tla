-------------------------------- MODULE Settings --------------------------------
(***************************************************************************)
(* The settings of the session (session.c, TorrentPreferences.cpp,         *)
(* PreferencesWindow.cpp): what the preferences window and the clients of  *)
(* the RPC interface ask for, what becomes of it, and what settings.json   *)
(* says after a restart.                                                   *)
(*                                                                         *)
(* Some flags are set at once by the thread that asks.  The others, and    *)
(* the port, take effect in the event thread: the window's thread posts a  *)
(* call, the RPC handlers run in the event thread and call directly.  The  *)
(* call for a flag is to invert it, whatever it is by then.                *)
(***************************************************************************)
EXTENDS Integers, Sequences, FiniteSets, SequencesExt

CONSTANTS
  Flags, Posted,  \* the flags, and those of them that are inverted in the event thread
  Ports,
  Loaded,         \* what settings.json may say at first
  MaxQueue, MaxMissed

VARIABLES
  enabled,  \* isDHTEnabled, isPexEnabled, ...
  port,     \* [asked, bound]: private_peer_port, and the port that the sockets listen to
  queue,    \* the calls posted to the event thread
  boxes,    \* what the window's check boxes show
  file,     \* settings.json
  wanted,   \* history: what was asked for last, by whomever
  saved,    \* history: `wanted' when the window was closed last
  missed

settingsVars == <<enabled, port, queue, boxes, file, wanted, saved, missed>>

\* The window's boxes are set once, when it is made.
Shown == enabled

\* tr_sessionLoadSettings and tr_sessionInit: the file overrides the defaults, and the session
\* inverts each flag that the settings have differently.
Init ==
  /\ file \in Loaded
  /\ enabled = file.enabled /\ boxes = Shown
  /\ port = [asked |-> file.port, bound |-> file.port]
  /\ queue = <<>> /\ wanted = file /\ saved = file /\ missed = {}

Toggled(f) == [enabled EXCEPT ![f] = ~@]
IsPosted(f) == \E i \in DOMAIN queue : queue[i] = f
Pending(f) == Cardinality({i \in DOMAIN queue : queue[i] = f})
IsMissed(f) == missed \cap {<<"flag", f>>, <<"box", f>>} # {}

(***************************************************************************)
(* The preferences window.                                                 *)
(***************************************************************************)
\* A box changes, and the session is asked for the opposite of what it has.
Click(f) ==
  /\ boxes' = [boxes EXCEPT ![f] = ~@]
  /\ wanted' = [wanted EXCEPT !.enabled[f] = ~boxes[f]]
  /\ IF f \in Posted THEN queue' = Append(queue, f) /\ UNCHANGED enabled
                     ELSE enabled' = Toggled(f) /\ UNCHANGED queue
  /\ UNCHANGED <<port, file, saved, missed>>

\* tr_sessionSetPeerPort, typed or chosen at random.
SetPort(p) ==
  /\ p # port.asked
  /\ port' = [port EXCEPT !.asked = p]
  /\ wanted' = [wanted EXCEPT !.port = p]
  /\ queue' = Append(queue, "port")
  /\ UNCHANGED <<enabled, boxes, file, saved, missed>>

\* tr_sessionGetSettings and tr_sessionSaveSettings, when the window is closed and when the
\* application quits: what the session has, not what it was asked for.
Save ==
  /\ file' = [enabled |-> enabled, port |-> port.asked]
  /\ saved' = wanted
  /\ missed' = {m \in missed : m[1] # "file"} \cup
               {<<"file", f>> : f \in {g \in Flags : IsPosted(g) \/ IsMissed(g)}}
  /\ UNCHANGED <<enabled, port, queue, boxes, wanted>>

(***************************************************************************)
(* The event thread.                                                       *)
(***************************************************************************)
peerPortChanged == port' = [port EXCEPT !.bound = port.asked]

RunToggle == queue # <<>> /\ Head(queue) \in Flags /\ enabled' = Toggled(Head(queue)) /\ UNCHANGED port
RunPort == queue # <<>> /\ Head(queue) = "port" /\ peerPortChanged /\ UNCHANGED enabled

Run ==
  /\ RunToggle \/ RunPort
  /\ queue' = Tail(queue)
  /\ UNCHANGED <<boxes, file, wanted, saved, missed>>

\* Mutant: the flag is inverted whether it differs or not.
RpcFlag_Twice(f, v) == Toggled(f)

\* What sessionSet makes of a flag: one that is already so is left alone.
RpcFlag(f, v) == IF enabled[f] # v THEN Toggled(f) ELSE enabled

\* sessionSet overtakes the calls that are posted; a box does not hear of it.
RpcSet(f, v) ==
  /\ enabled' = RpcFlag(f, v)
  /\ wanted' = [wanted EXCEPT !.enabled[f] = v]
  /\ missed' = missed \cup (IF boxes[f] # v THEN {<<"box", f>>} ELSE {})
                      \cup (IF IsPosted(f) THEN {<<"flag", f>>} ELSE {})
  /\ UNCHANGED <<port, queue, boxes, file, saved>>

RpcPort(p) ==
  /\ p # port.asked
  /\ port' = [asked |-> p, bound |-> p]
  /\ wanted' = [wanted EXCEPT !.port = p]
  /\ UNCHANGED <<enabled, queue, boxes, file, saved, missed>>

\* The application is ended, by its user or by a crash, and starts again.
Restart ==
  /\ enabled' = file.enabled /\ boxes' = Shown'
  /\ port' = [asked |-> file.port, bound |-> file.port]
  /\ queue' = <<>> /\ wanted' = file
  /\ missed' = {m \in missed : m[1] = "file"}
  /\ UNCHANGED <<file, saved>>

Step ==
  \/ \E f \in Flags : Click(f) \/ \E v \in BOOLEAN : RpcSet(f, v)
  \/ \E p \in Ports : SetPort(p) \/ RpcPort(p)
  \/ Save \/ Run \/ Restart

Next == Cardinality(missed) <= MaxMissed /\ Len(queue) <= MaxQueue /\ Step

Spec == Init /\ [][Next]_settingsVars

(***************************************************************************)
(* Properties.                                                             *)
(***************************************************************************)
TypeOK ==
  /\ enabled \in [Flags -> BOOLEAN] /\ boxes \in [Flags -> BOOLEAN]
  /\ port.asked \in Ports /\ port.bound \in Ports /\ queue \in Seq(Posted \cup {"port"})

\* When no call is on its way, each flag is what was asked for last, by whomever, and so is its
\* box, unless the RPC interface changed the flag while a call for it was on its way, or the
\* box's flag at all.
RequestsAreHonoured ==
  \A f \in Flags :
    /\ IsMissed(f) \/ wanted.enabled[f] = (IF Pending(f) % 2 = 0 THEN enabled[f] ELSE ~enabled[f])
    /\ <<"box", f>> \in missed \/ boxes[f] = wanted.enabled[f]

\* The sockets listen to the port that was asked for last.
PortIsBound ==
  /\ port.asked = wanted.port
  /\ IsPosted("port") \/ port.bound = port.asked

\* The file says what was asked for when it was saved, unless a call was on its way or lost.
FileIsTrue ==
  /\ file.port = saved.port
  /\ \A f \in Flags : <<"file", f>> \in missed \/ file.enabled[f] = saved.enabled[f]
================================================================================
