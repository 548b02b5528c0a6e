-------------------------------- MODULE Bandwidth --------------------------------
(***************************************************************************)
(* What the peers may send (bandwidth.c, peer-io.c): twice a second the    *)
(* limits of the session and of its torrents are granted anew, the peers   *)
(* take turns in sending a little at a time, and those with bandwidth left *)
(* may then send whenever their sockets are ready, until it is used up.    *)
(*                                                                         *)
(* One direction, and TCP.  A unit of data is piece data (TRUE) or         *)
(* protocol (FALSE), and the units of an output buffer are as many as its  *)
(* datatypes say.  Limits are in units per period.  The network takes any  *)
(* part of what it is given, and a connection may break.                   *)
(***************************************************************************)
EXTENDS Integers, Sequences, FiniteSets, SequencesExt

CONSTANTS
  Torrents, Peers,
  TorrentOf,   \* [Peers -> Torrents]
  PriorityOf,  \* [Peers -> {"low", "normal", "high"}]
  Increment,   \* 3000 bytes
  Limits,
  Paces,       \* by how many percent a band that nears its limit is slowed down
  MaxOut

VARIABLES
  band,     \* [limited, desired, left] of the session and of each torrent
  honor,    \* honorParentLimits of each torrent
  out,      \* the output buffer of each peer
  enabled,  \* the peers that wait for their sockets to be ready
  turn,     \* [list, todo]: the list that phaseOne is at, and who is not done yet
  granted,  \* history: what each limited band could give when it was limited or granted last
  used      \* history: the piece data that was sent since, by those that honor it

bandVars == <<band, honor, out, enabled, turn, granted, used>>

Bands == {"session"} \cup Torrents
\* The bands that bound what a peer sends, and those that are told of it.
Bounding(p) == {TorrentOf[p]} \cup (IF honor[TorrentOf[p]] THEN {"session"} ELSE {})
Told(p) == {TorrentOf[p], "session"}

Init ==
  /\ \E l \in [Bands -> BOOLEAN], d \in [Bands -> Limits] :
       band = [n \in Bands |-> [limited |-> l[n], desired |-> d[n], left |-> 0]]
  /\ honor \in [Torrents -> BOOLEAN]
  /\ out = [p \in Peers |-> <<>>] /\ enabled = {} /\ turn = [list |-> "none", todo |-> {}]
  /\ granted = [n \in Bands |-> 0] /\ used = [n \in Bands |-> 0]

(***************************************************************************)
(* Sending.                                                                *)
(***************************************************************************)
Least(a, b) == IF a <= b THEN a ELSE b
Slowed(count, pace) == (count * pace) \div 100
Bounded(count, n, pace) ==
  IF band[n].limited THEN Slowed(Least(count, band[n].left), pace) ELSE count

\* Mutant: the parent's band is looked at only by a torrent that has none of its own.
Clamp_OwnFirst(p, count, pace) ==
  IF band[TorrentOf[p]].limited THEN Bounded(count, TorrentOf[p], pace[TorrentOf[p]])
  ELSE IF honor[TorrentOf[p]] THEN Bounded(count, "session", pace["session"]) ELSE count

\* tr_bandwidthClamp: the torrent's band, and the session's if the torrent honors it.
Clamp(p, count, pace) ==
  LET own == Bounded(count, TorrentOf[p], pace[TorrentOf[p]])
  IN IF honor[TorrentOf[p]] THEN Bounded(own, "session", pace["session"]) ELSE own
HasBandwidthLeft(p, pace) == Clamp(p, 1000, pace) > 0

\* The network takes any part of what it is given: the pace makes a difference only to what
\* is left, and not to what may be sent.
Full == [n \in Bands |-> 100]

\* didWriteWrapper and tr_bandwidthUsed, for n units: only piece data is charged.
PieceData(p, n) == Cardinality({i \in 1 .. n : out[p][i]})
Wrote(p, n) ==
  /\ out' = [out EXCEPT ![p] = SubSeq(@, n + 1, Len(@))]
  /\ band' = [b \in Bands |->
       IF b \in Told(p) /\ band[b].limited
       THEN [band[b] EXCEPT !.left = @ - Least(@, PieceData(p, n))] ELSE band[b]]
  /\ used' = [b \in Bands |-> IF band[b].limited /\ b \in Bounding(p)
                             THEN used[b] + PieceData(p, n) ELSE used[b]]

\* tr_peerIoTryWrite, of at most `count' units; `sent' of them go.
TryWrite(p, count, pace, sent) ==
  sent \in 0 .. Clamp(p, Least(count, Len(out[p])), pace) /\ Wrote(p, sent)

(***************************************************************************)
(* tr_bandwidthAllocate.                                                   *)
(***************************************************************************)
Lists == <<"high", "normal", "low">>
Rank == [low |-> 3, normal |-> 2, high |-> 1]
On(list) == {p \in Peers : Rank[PriorityOf[p]] <= Rank[list]}

\* A peer of a high priority is on every list.
Granted(b) == IF b.limited THEN [b EXCEPT !.left = b.desired] ELSE b
tr_bandwidthAllocate ==
  /\ turn.list = "none"
  /\ band' = [n \in Bands |-> Granted(band[n])]
  /\ granted' = [n \in Bands |-> IF band[n].limited THEN band[n].desired ELSE 0] /\ used' = [n \in Bands |-> 0]
  /\ turn' = [list |-> "protocol", todo |-> Peers]
  /\ UNCHANGED <<honor, out, enabled>>

\* tr_peerIoFlushOutgoingProtocolMsgs: what is before the first piece data.
Leading(s) == IF \E i \in DOMAIN s : s[i] THEN (CHOOSE i \in DOMAIN s : s[i] /\ \A j \in 1 .. i - 1 : ~s[j]) - 1
              ELSE Len(s)
FlushProtocol(p) ==
  /\ turn.list = "protocol" /\ p \in turn.todo
  /\ \E sent \in 0 .. Leading(out[p]) : TryWrite(p, Leading(out[p]), Full, sent)
  /\ turn' = [turn EXCEPT !.todo = @ \ {p}]
  /\ UNCHANGED <<honor, enabled, granted>>

\* phaseOne, for a peer picked at random: it is done when it sends less than it might.
Flush(p) ==
  /\ turn.list \in Range(Lists) /\ p \in turn.todo
  /\ \E sent \in 0 .. Increment :
       /\ TryWrite(p, Increment, Full, sent)
       /\ turn' = IF sent = Increment THEN turn ELSE [turn EXCEPT !.todo = @ \ {p}]
  /\ UNCHANGED <<honor, enabled, granted>>

NextList ==
  /\ turn.list # "none" /\ turn.todo = {} /\ turn.list # "low"
  /\ LET list == CASE turn.list = "protocol" -> "high" [] turn.list = "high" -> "normal" [] OTHER -> "low"
     IN turn' = [list |-> list, todo |-> On(list)]
  /\ UNCHANGED <<band, honor, out, enabled, granted, used>>

EnableOnDemand(pace) ==
  /\ turn.list = "low" /\ turn.todo = {}
  /\ turn' = [list |-> "none", todo |-> {}]
  /\ enabled' = {p \in Peers : HasBandwidthLeft(p, pace)}
  /\ UNCHANGED <<band, honor, out, granted, used>>

(***************************************************************************)
(* Between the pulses.                                                     *)
(***************************************************************************)
\* event_write_cb: a peer without bandwidth, or without data, waits for the next pulse.
event_write_cb(p, pace) ==
  /\ turn.list = "none" /\ p \in enabled
  /\ \E sent \in 0 .. Len(out[p]) :
       /\ TryWrite(p, Len(out[p]), pace, sent)
       /\ enabled' = IF Clamp(p, Len(out[p]), pace) < 1 \/ sent = Len(out[p])
                     THEN enabled \ {p} ELSE enabled
  /\ UNCHANGED <<honor, turn, granted>>

\* tr_peerIoWriteBuf, of a message or of a part of a piece.
WriteBuf(p) ==
  /\ turn.list = "none"
  /\ \E data \in {<<FALSE>>, <<TRUE, TRUE>>} :
       Len(out[p]) + Len(data) <= MaxOut /\ out' = [out EXCEPT ![p] = @ \o data]
  /\ UNCHANGED <<band, honor, enabled, turn, granted, used>>

\* tr_bandwidthSetLimited, tr_bandwidthSetDesiredSpeed_Bps and tr_bandwidthHonorParentLimits:
\* a band that becomes limited has what it had left when it was limited last.
SetLimit(n) ==
  /\ turn.list = "none"
  /\ \E limited \in BOOLEAN, desired \in Limits :
       /\ band' = [band EXCEPT ![n] = [@ EXCEPT !.limited = limited, !.desired = desired]]
       /\ IF limited # band[n].limited
          THEN /\ granted' = [granted EXCEPT ![n] = IF limited THEN band[n].left ELSE 0]
               /\ used' = [used EXCEPT ![n] = 0]
          ELSE UNCHANGED <<granted, used>>
  /\ UNCHANGED <<honor, out, enabled, turn>>
SetHonor(t) ==
  /\ turn.list = "none" /\ honor' = [honor EXCEPT ![t] = ~@]
  /\ UNCHANGED <<band, out, enabled, turn, granted, used>>

\* A connection breaks, and another peer takes its place.
Reconnect(p) ==
  /\ turn.list = "none" /\ out[p] # <<>>
  /\ out' = [out EXCEPT ![p] = <<>>] /\ enabled' = enabled \ {p}
  /\ UNCHANGED <<band, honor, turn, granted, used>>

Next ==
  \/ tr_bandwidthAllocate \/ NextList
  \/ \E pace \in [Bands -> Paces] :
       \/ EnableOnDemand(pace)
       \/ \E p \in Peers : event_write_cb(p, pace)
  \/ \E p \in Peers : FlushProtocol(p) \/ Flush(p) \/ WriteBuf(p) \/ Reconnect(p)
  \/ \E n \in Bands : SetLimit(n)
  \/ \E t \in Torrents : SetHonor(t)

Spec == Init /\ [][Next]_bandVars

(***************************************************************************)
(* Properties.                                                             *)
(***************************************************************************)
TypeOK ==
  /\ \A n \in Bands : band[n].left >= 0 /\ band[n].desired \in Limits
  /\ enabled \subseteq Peers /\ turn.todo \subseteq Peers

\* No more piece data is sent in a period than the band of a torrent, or that of the session,
\* was granted, by however many peers and in whatever order.
LimitIsKept == \A n \in Bands : band[n].limited => used[n] + band[n].left <= granted[n]
================================================================================
