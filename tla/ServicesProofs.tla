----------------------------- MODULE ServicesProofs -----------------------------
(***************************************************************************)
(* Proofs about Services.  A behaviour is one of the part that `part'      *)
(* names, so each theorem is about the steps of one part or of a few: the  *)
(* invariant of each, and lemmas for what its steps do to it.              *)
(***************************************************************************)
EXTENDS Services, SequenceLemmas

-----------------------------------------------------------------------------
(* A tracker that is spoken to by UDP. *)

\* The tracker, the requests and the callbacks.
TrackerStates == [asking : BOOLEAN, addr : 0 .. AddrTtl, connecting : -1 .. Ttl + 1,
                  connection : 0 .. Ttl, close : -1 .. CloseIn]
RequestStates == [state : {"none", "waiting", "sent", "done"}, age : 0 .. Ttl + 1]
UdpTyped(x) ==
  /\ DOMAIN x = {"tracker", "request", "told"}
  /\ x.tracker \in TrackerStates /\ x.request \in [Requests -> RequestStates]
  /\ x.told \in [Requests -> Nat]

\* A request has been told of once if it is done, and not before.
ToldIn(x) ==
  \A r \in Requests :
    x.told[r] = IF r \notin Silent /\ x.request[r].state = "done" THEN 1 ELSE 0

ReadyIn(t) == (t.asking => t.addr = 0) /\ (t.connecting # -1 => t.connection = 0)

Sound(x) == UdpTyped(x) /\ ReadyIn(x.tracker) /\ ToldIn(x)

\* Requests that fail while they are pending are told of once.
LEMMA FailedIsSound ==
  ASSUME NEW x, Sound(x), NEW F, F \subseteq Udp!Listed(x)
  PROVE  Sound(Udp!Failed(x, F)) /\ Udp!Failed(x, F).tracker = x.tracker
<1> DEFINE y == Udp!Failed(x, F)
<1>1. y.tracker = x.tracker
  BY DEF Sound, UdpTyped, Udp!Failed
<1>2. \A r \in F : r \in Requests /\ x.request[r].state \in {"waiting", "sent"}
  BY DEF Udp!Listed, Udp!IsPending
<1>3. y.request = [r \in Requests |-> IF r \in F THEN [state |-> "done", age |-> 0] ELSE x.request[r]]
  BY DEF Sound, UdpTyped, Udp!Failed
<1>4. y.told = [r \in Requests |-> IF r \in F \ Silent THEN x.told[r] + 1 ELSE x.told[r]]
  BY DEF Sound, UdpTyped, Udp!Failed
<1>5. DOMAIN y = {"tracker", "request", "told"}
  BY DEF Sound, UdpTyped, Udp!Failed
<1> HIDE DEF y
<1>6. y.request \in [Requests -> RequestStates]
  BY <1>3, TrackersAssumption DEF Sound, UdpTyped, RequestStates
<1>7. y.told \in [Requests -> Nat]
  BY <1>4 DEF Sound, UdpTyped
<1>8. ToldIn(y)
  BY <1>2, <1>3, <1>4 DEF Sound, ToldIn, UdpTyped
<1>9. UdpTyped(y)
  BY <1>1, <1>5, <1>6, <1>7 DEF Sound, UdpTyped
<1> QED
  BY <1>1, <1>8, <1>9 DEF Sound, y

\* The tracker alone changes.
LEMMA TrackerIsSound ==
  ASSUME NEW x, Sound(x), NEW y, y.request = x.request, y.told = x.told, ReadyIn(y.tracker),
         DOMAIN y = {"tracker", "request", "told"},
         y.tracker \in TrackerStates
  PROVE  Sound(y)
BY DEF Sound, UdpTyped, ToldIn

\* The requests that are sent are not done, or nobody waits for them.
LEMMA SendsIsSound ==
  ASSUME NEW x, Sound(x)
  PROVE  Sound(Udp!Sends(x))
<1> DEFINE y == Udp!Sends(x)
<1>1. y.tracker = x.tracker /\ y.told = x.told
  BY DEF Sound, UdpTyped, Udp!Sends
<1>2. y.request = [r \in Requests |->
        IF x.request[r].state # "waiting" THEN x.request[r]
        ELSE [x.request[r] EXCEPT !.state = IF r \in Silent THEN "done" ELSE "sent"]]
  BY DEF Sound, UdpTyped, Udp!Sends
<1>3. DOMAIN y = {"tracker", "request", "told"}
  BY DEF Sound, UdpTyped, Udp!Sends
<1> HIDE DEF y
<1>4. y.request \in [Requests -> RequestStates]
  BY <1>2 DEF Sound, UdpTyped, RequestStates
<1>5. ToldIn(y)
  BY <1>1, <1>2 DEF Sound, ToldIn, UdpTyped
<1> QED
  BY <1>1, <1>3, <1>4, <1>5 DEF Sound, UdpTyped, y

\* The connection failed, and all that is pending with it.
LEMMA ConnectionFailedIsSound ==
  ASSUME NEW x, Sound(x)
  PROVE  Sound(Udp!ConnectionFailed(x))
<1> DEFINE y == [x EXCEPT !.tracker.connecting = Udp!Never]
<1>1. y.request = x.request /\ y.told = x.told /\ DOMAIN y = {"tracker", "request", "told"}
  BY DEF Sound, UdpTyped
<1>2. y.tracker \in TrackerStates
  BY TrackersAssumption DEF Sound, UdpTyped, Udp!Never, TrackerStates
<1>3. ReadyIn(y.tracker)
  BY DEF Sound, UdpTyped, ReadyIn, Udp!Never, TrackerStates
<1>4. Sound(y)
  BY <1>1, <1>2, <1>3, TrackerIsSound
<1>5. Udp!Listed(x) = Udp!Listed(y)
  BY <1>1 DEF Udp!Listed
<1> QED
  BY <1>4, <1>5, FailedIsSound DEF Udp!ConnectionFailed

\* tau_tracker_upkeep.
LEMMA UpkeepIsSound ==
  ASSUME NEW x, Sound(x)
  PROVE  Sound(Udp!Upkept(x))
<1>1. CASE x.tracker.addr = 0 /\ ~x.tracker.asking
  <2> DEFINE y == [x EXCEPT !.tracker.asking = TRUE]
  <2>1. y.request = x.request /\ y.told = x.told /\ DOMAIN y = {"tracker", "request", "told"}
    BY DEF Sound, UdpTyped
  <2>2. y.tracker \in TrackerStates
    BY DEF Sound, UdpTyped, TrackerStates
  <2>3. ReadyIn(y.tracker)
    BY <1>1 DEF Sound, UdpTyped, ReadyIn, TrackerStates
  <2>4. Sound(y)
    BY <2>1, <2>2, <2>3, TrackerIsSound
  <2> QED
    BY <1>1, <2>4 DEF Udp!Upkept
<1>2. CASE ~(x.tracker.addr = 0 /\ ~x.tracker.asking)
           /\ x.tracker.addr > 0 /\ x.tracker.connection = 0 /\ x.tracker.connecting = -1
  <2> DEFINE y == [x EXCEPT !.tracker.connecting = 0]
  <2>1. y.request = x.request /\ y.told = x.told /\ DOMAIN y = {"tracker", "request", "told"}
    BY DEF Sound, UdpTyped
  <2>2. y.tracker \in TrackerStates
    BY TrackersAssumption DEF Sound, UdpTyped, TrackerStates
  <2>3. ReadyIn(y.tracker)
    BY <1>2 DEF Sound, UdpTyped, ReadyIn, TrackerStates
  <2>4. Sound(y)
    BY <2>1, <2>2, <2>3, TrackerIsSound
  <2> QED
    BY <1>2, <2>4 DEF Udp!Upkept, Udp!Never
<1>3. CASE ~(x.tracker.addr = 0 /\ ~x.tracker.asking)
           /\ ~(x.tracker.addr > 0 /\ x.tracker.connection = 0 /\ x.tracker.connecting = -1)
  <2>1. Sound(Udp!TimedOut(x))
    <3> DEFINE y == IF x.tracker.connecting > Ttl THEN Udp!ConnectionFailed(x) ELSE x
    <3>1. Sound(y)
      BY ConnectionFailedIsSound
    <3>2. Udp!Overdue(y) \subseteq Udp!Listed(y)
      BY DEF Udp!Overdue
    <3> QED
      BY <3>1, <3>2, FailedIsSound DEF Udp!TimedOut
  <2>2. Sound(Udp!Sends(Udp!TimedOut(x)))
    BY <2>1, SendsIsSound
  <2> QED
    BY <1>3, <2>1, <2>2 DEF Udp!Upkept, Udp!Never
<1> QED
  BY <1>1, <1>2, <1>3

UdpInv == Sound(Udp!Here)

\* What is here now, and what will be after the step.
LEMMA HereIs ==
  /\ DOMAIN Udp!Here = {"tracker", "request", "told"}
  /\ Udp!Here.tracker = tracker /\ Udp!Here.request = request /\ Udp!Here.told = told
  /\ (DOMAIN Udp!Here)' = {"tracker", "request", "told"}
  /\ (Udp!Here)'.tracker = tracker' /\ (Udp!Here)'.request = request' /\ (Udp!Here)'.told = told'
BY DEF Udp!Here

\* A step that brings about something sound keeps the invariant.
LEMMA BecomesSound ==
  ASSUME NEW x, Sound(x), Udp!Becomes(x)
  PROVE  UdpInv'
BY HereIs DEF UdpInv, Sound, UdpTyped, ToldIn, Udp!Becomes

\* A handler of the tracker.
LEMMA TrackerStep ==
  ASSUME UdpInv, Udp!tr_tracker_udp_upkeep \/ Udp!on_dns \/ Udp!on_connection \/ Udp!tr_tracker_udp_start_shutdown
  PROVE  UdpInv'
<1>0. Sound(Udp!Here)
  BY DEF UdpInv
<1>1. CASE Udp!tr_tracker_udp_upkeep
  BY <1>0, <1>1, UpkeepIsSound, BecomesSound DEF Udp!tr_tracker_udp_upkeep
<1>2. CASE Udp!on_dns
  <2> DEFINE x == [Udp!Here EXCEPT !.tracker.asking = FALSE]
             y == [x EXCEPT !.tracker.addr = AddrTtl]
  <2>1. /\ x.request = request /\ x.told = told /\ DOMAIN x = {"tracker", "request", "told"}
        /\ x.tracker = [tracker EXCEPT !.asking = FALSE]
    BY HereIs
  <2>2. tracker \in TrackerStates /\ ReadyIn(tracker)
    BY <1>0, HereIs DEF Sound, UdpTyped
  <2>3. x.tracker \in TrackerStates /\ ReadyIn(x.tracker) /\ ~x.tracker.asking
    BY <2>1, <2>2 DEF TrackerStates, ReadyIn
  <2>4. Sound(x)
    BY <1>0, <2>1, <2>3, HereIs, TrackerIsSound
  <2>5. /\ y.request = x.request /\ y.told = x.told /\ DOMAIN y = {"tracker", "request", "told"}
        /\ y.tracker = [x.tracker EXCEPT !.addr = AddrTtl]
    BY <2>1
  <2> HIDE DEF x
  <2>6. y.tracker \in TrackerStates /\ ReadyIn(y.tracker)
    BY <2>3, <2>5, TrackersAssumption DEF TrackerStates, ReadyIn
  <2>7. Sound(y)
    BY <2>4, <2>5, <2>6, TrackerIsSound
  <2>8. Udp!Pending \subseteq Udp!Listed(x)
    BY <2>1 DEF Udp!Pending, Udp!Listed, Udp!IsPending
  <2>9. Udp!Becomes(Udp!Failed(x, Udp!Pending)) \/ Udp!Becomes(Udp!Upkept(y))
    BY <1>2 DEF Udp!on_dns, x
  <2>10. Sound(Udp!Failed(x, Udp!Pending)) /\ Sound(Udp!Upkept(y))
    BY <2>4, <2>7, <2>8, FailedIsSound, UpkeepIsSound
  <2> QED
    BY <2>9, <2>10, BecomesSound
<1>3. CASE Udp!on_connection
  <2> DEFINE y == [Udp!Here EXCEPT !.tracker.connecting = Udp!Never, !.tracker.connection = Ttl]
             z == [tracker EXCEPT !.connecting = -1]
  <2>1. /\ y.request = request /\ y.told = told /\ DOMAIN y = {"tracker", "request", "told"}
        /\ y.tracker = [z EXCEPT !.connection = Ttl]
    BY HereIs DEF Udp!Never
  <2> HIDE DEF y
  <2>2. tracker \in TrackerStates /\ ReadyIn(tracker)
    BY <1>0, HereIs DEF Sound, UdpTyped
  <2>3. y.tracker \in TrackerStates /\ ReadyIn(y.tracker)
    <3>1. z \in TrackerStates /\ (z.asking => z.addr = 0) /\ z.connecting = -1
      BY <2>2, TrackersAssumption DEF TrackerStates, ReadyIn
    <3> HIDE DEF z
    <3> QED
      BY <2>1, <3>1, TrackersAssumption DEF TrackerStates, ReadyIn
  <2>4. Sound(y)
    BY <1>0, <2>1, <2>3, HereIs, TrackerIsSound
  <2>5. \/ Udp!Becomes(Udp!Upkept(Udp!ConnectionFailed(Udp!Here)))
        \/ Udp!Becomes(Udp!Upkept(y))
    BY <1>3 DEF Udp!on_connection, y
  <2>6. Sound(Udp!Upkept(Udp!ConnectionFailed(Udp!Here))) /\ Sound(Udp!Upkept(y))
    BY <1>0, <2>4, ConnectionFailedIsSound, UpkeepIsSound
  <2> QED
    BY <2>5, <2>6, BecomesSound
<1>4. CASE Udp!tr_tracker_udp_start_shutdown
  <2> DEFINE y == [Udp!Here EXCEPT !.tracker.close = CloseIn]
  <2>1. /\ y.request = request /\ y.told = told /\ DOMAIN y = {"tracker", "request", "told"}
        /\ y.tracker = [tracker EXCEPT !.close = CloseIn]
    BY HereIs
  <2>2. tracker \in TrackerStates /\ ReadyIn(tracker)
    BY <1>0, HereIs DEF Sound, UdpTyped
  <2>3. y.tracker \in TrackerStates /\ ReadyIn(y.tracker)
    BY <2>1, <2>2, TrackersAssumption DEF TrackerStates, ReadyIn
  <2>4. Sound(y)
    BY <1>0, <2>1, <2>3, HereIs, TrackerIsSound
  <2> QED
    BY <1>4, <2>4, UpkeepIsSound, BecomesSound DEF Udp!tr_tracker_udp_start_shutdown
<1> QED
  BY <1>1, <1>2, <1>3, <1>4

\* An announce or a scrape begins, or is answered.
LEMMA RequestStep ==
  ASSUME UdpInv, NEW r \in Requests, Udp!Announce(r) \/ Udp!on_response(r)
  PROVE  UdpInv'
<1>0. Sound(Udp!Here)
  BY DEF UdpInv
<1>1. CASE Udp!Announce(r)
  <2> DEFINE q == [state |-> "waiting", age |-> 0]
             y == [Udp!Here EXCEPT !.request[r] = q, !.told[r] = 0]
  <2>1. /\ y.tracker = tracker /\ DOMAIN y = {"tracker", "request", "told"}
        /\ y.request = [request EXCEPT ![r] = q] /\ y.told = [told EXCEPT ![r] = 0]
    BY HereIs
  <2>2. q \in RequestStates /\ q.state = "waiting"
    BY TrackersAssumption DEF RequestStates
  <2> HIDE DEF q, y
  <2>3. /\ tracker \in TrackerStates /\ ReadyIn(tracker) /\ request \in [Requests -> RequestStates]
        /\ told \in [Requests -> Nat]
    BY <1>0, HereIs DEF Sound, UdpTyped
  <2>4. UdpTyped(y) /\ ReadyIn(y.tracker)
    BY <2>1, <2>2, <2>3 DEF UdpTyped
  <2>5. ToldIn(y)
    BY <1>0, <2>1, <2>2, <2>3, HereIs DEF Sound, ToldIn
  <2>6. Sound(y)
    BY <2>4, <2>5 DEF Sound
  <2> QED
    BY <1>1, <2>6, UpkeepIsSound, BecomesSound DEF Udp!Announce, y, q
<1>2. CASE Udp!on_response(r)
  <2>1. {r} \subseteq Udp!Listed(Udp!Here)
    BY <1>2, HereIs DEF Udp!on_response, Udp!Listed, Udp!IsPending
  <2> QED
    BY <1>0, <1>2, <2>1, FailedIsSound, BecomesSound DEF Udp!on_response
<1> QED
  BY <1>1, <1>2

\* Time goes by.
LEMMA TimeStep ==
  ASSUME UdpInv, Udp!Tick
  PROVE  UdpInv'
<1>1. /\ tracker \in TrackerStates /\ ReadyIn(tracker) /\ request \in [Requests -> RequestStates]
      /\ told \in [Requests -> Nat] /\ ToldIn(Udp!Here)
  BY HereIs DEF UdpInv, Sound, UdpTyped
<1>2. \A n \in Nat : Udp!Less(n) \in 0 .. n /\ (n = 0 => Udp!Less(n) = 0)
  BY DEF Udp!Less
<1>3. \A n \in -1 .. Ttl + 1 : Udp!Older(n) \in -1 .. Ttl + 1 /\ (Udp!Older(n) = -1 <=> n = -1)
                                /\ (n \in 0 .. Ttl + 1 => Udp!Older(n) \in 0 .. Ttl + 1)
  BY TrackersAssumption DEF Udp!Older
<1>4. Udp!Less(-1) = -1
  BY DEF Udp!Less
<1>5. tracker' \in TrackerStates /\ ReadyIn(tracker')
  <2> DEFINE a == Udp!Less(tracker.addr)
             b == Udp!Less(tracker.connection)
             c == Udp!Less(tracker.close)
             d == Udp!Older(tracker.connecting)
  <2>1. tracker' = [tracker EXCEPT !.addr = a, !.connection = b, !.close = c, !.connecting = d]
    BY DEF Udp!Tick
  <2>2. /\ tracker.addr \in 0 .. AddrTtl /\ tracker.connection \in 0 .. Ttl
        /\ tracker.close \in -1 .. CloseIn /\ tracker.connecting \in -1 .. Ttl + 1
    BY <1>1 DEF TrackerStates
  <2>3. /\ a \in 0 .. AddrTtl /\ b \in 0 .. Ttl /\ c \in -1 .. CloseIn /\ d \in -1 .. Ttl + 1
        /\ (tracker.addr = 0 => a = 0) /\ (tracker.connection = 0 => b = 0)
        /\ (d # -1 => tracker.connecting # -1)
    BY <1>2, <1>3, <1>4, <2>2, TrackersAssumption
  <2> HIDE DEF a, b, c, d
  <2> QED
    BY <1>1, <2>1, <2>3 DEF TrackerStates, ReadyIn
<1>6. /\ request' \in [Requests -> RequestStates]
      /\ \A r \in Requests : request'[r].state = request[r].state
  <2>1. request' = [r \in Requests |-> IF r \in Udp!Pending THEN [request[r] EXCEPT !.age = Udp!Older(@)] ELSE request[r]]
    BY DEF Udp!Tick
  <2>2. \A r \in Requests : request[r].age \in 0 .. Ttl + 1
    BY <1>1 DEF RequestStates
  <2>3. \A r \in Requests : Udp!Older(request[r].age) \in 0 .. Ttl + 1
    BY <1>3, <2>2, TrackersAssumption
  <2> QED
    BY <1>1, <2>1, <2>3 DEF RequestStates
<1>7. told' = told
  BY DEF Udp!Tick
<1>8. UdpTyped(Udp!Here)'
  BY <1>1, <1>5, <1>6, <1>7, HereIs DEF UdpTyped
<1>9. ToldIn(Udp!Here)'
  BY <1>1, <1>6, <1>7, HereIs DEF ToldIn
<1> QED
  BY <1>5, <1>8, <1>9, HereIs DEF UdpInv, Sound

\* Every step of a tracker keeps the invariant.
LEMMA UdpNext ==
  ASSUME UdpInv, Udp!Next
  PROVE  UdpInv'
BY TrackerStep, RequestStep, TimeStep DEF Udp!Next

\* The invariant holds at first.
LEMMA UdpFirst ==
  ASSUME Udp!Init
  PROVE  UdpInv
<1>1. tracker \in TrackerStates /\ ReadyIn(tracker)
  BY TrackersAssumption DEF Udp!Init, Udp!Never, TrackerStates, ReadyIn
<1>2. request \in [Requests -> RequestStates] /\ \A r \in Requests : request[r].state = "none"
  BY TrackersAssumption DEF Udp!Init, RequestStates
<1>3. told \in [Requests -> Nat] /\ \A r \in Requests : told[r] = 0
  BY DEF Udp!Init
<1> QED
  BY <1>1, <1>2, <1>3, HereIs DEF UdpInv, Sound, UdpTyped, ToldIn

\* What Services promises of a tracker follows from the invariant.
LEMMA UdpIsSound ==
  ASSUME UdpInv
  PROVE  Udp!TypeOK /\ Udp!ReadyToSend /\ Udp!ToldOnce
<1>1. /\ tracker \in TrackerStates /\ ReadyIn(tracker) /\ request \in [Requests -> RequestStates]
      /\ ToldIn(Udp!Here)
  BY HereIs DEF UdpInv, Sound, UdpTyped
<1>2. Udp!TypeOK
  BY <1>1 DEF Udp!TypeOK, TrackerStates, RequestStates, Udp!Never
<1>3. Udp!ReadyToSend
  BY <1>1 DEF ReadyIn, Udp!ReadyToSend, Udp!Never
<1>4. Udp!ToldOnce
  BY <1>1, HereIs DEF ToldIn, Udp!ToldOnce
<1> QED
  BY <1>2, <1>3, <1>4


-----------------------------------------------------------------------------
(* Sequences without repetition. *)

Elements(s) == {s[i] : i \in DOMAIN s}
Once(s) == \A i, j \in DOMAIN s : s[i] = s[j] => i = j

\* A new element at the end.
LEMMA Appended ==
  ASSUME NEW S, NEW s \in Seq(S), NEW e \in S, Once(s), e \notin Elements(s)
  PROVE  /\ Append(s, e) \in Seq(S) /\ Once(Append(s, e)) /\ Append(s, e) # <<>>
         /\ \A x : x \in Elements(Append(s, e)) <=> x \in Elements(s) \/ x = e
         /\ Append(s, e)[Len(Append(s, e))] = e
<1> DEFINE n == Len(s)
           u == Append(s, e)
<1>1. /\ n \in Nat /\ DOMAIN s = 1 .. n /\ u \in Seq(S) /\ Len(u) = n + 1 /\ DOMAIN u = 1 .. n + 1
      /\ \A i \in 1 .. n : u[i] = s[i]
      /\ u[n + 1] = e /\ u # <<>>
  OBVIOUS
<1> HIDE DEF n, u
<1>2. \A i \in 1 .. n : s[i] # e
  BY <1>1 DEF Elements
<1>3. Once(u)
  BY <1>1, <1>2 DEF Once
<1>4. ASSUME NEW x PROVE x \in Elements(u) <=> x \in Elements(s) \/ x = e
  <2>1. ASSUME x \in Elements(u) PROVE x \in Elements(s) \/ x = e
    <3>1. PICK i \in 1 .. n + 1 : x = u[i]
      BY <1>1, <2>1 DEF Elements
    <3>2. i \in 1 .. n \/ i = n + 1
      BY <1>1
    <3> QED
      BY <1>1, <3>1, <3>2 DEF Elements
  <2>2. ASSUME x \in Elements(s) PROVE x \in Elements(u)
    <3>1. PICK i \in 1 .. n : x = s[i]
      BY <1>1, <2>2 DEF Elements
    <3>2. i \in 1 .. n + 1 /\ u[i] = x
      BY <1>1, <3>1
    <3> QED
      BY <1>1, <3>2 DEF Elements
  <2>3. e \in Elements(u)
    <3>1. n + 1 \in 1 .. n + 1
      BY <1>1
    <3> QED
      BY <1>1, <3>1 DEF Elements
  <2> QED
    BY <2>1, <2>2, <2>3
<1> QED
  BY <1>1, <1>3, <1>4 DEF u

\* Two sequences that have nothing in common.
LEMMA Joined ==
  ASSUME NEW S, NEW s \in Seq(S), NEW u \in Seq(S), Once(s), Once(u),
         \A x \in Elements(s) : x \notin Elements(u)
  PROVE  /\ s \o u \in Seq(S) /\ Once(s \o u)
         /\ \A x : x \in Elements(s \o u) <=> x \in Elements(s) \/ x \in Elements(u)
<1> DEFINE n == Len(s)
           m == Len(u)
           v == s \o u
<1>1. /\ n \in Nat /\ m \in Nat /\ DOMAIN s = 1 .. n /\ DOMAIN u = 1 .. m
      /\ v \in Seq(S) /\ Len(v) = n + m /\ DOMAIN v = 1 .. n + m
  OBVIOUS
<1>2. \A i \in 1 .. n + m : v[i] = IF i <= n THEN s[i] ELSE u[i - n]
  OBVIOUS
<1> HIDE DEF n, m, v
<1>3. \A i \in 1 .. n, j \in 1 .. m : s[i] # u[j]
  BY <1>1 DEF Elements
<1>4. Once(v)
  <2> SUFFICES ASSUME NEW i \in 1 .. n + m, NEW j \in 1 .. n + m, v[i] = v[j] PROVE i = j
    BY <1>1 DEF Once
  <2>1. CASE i <= n /\ j <= n
    <3>1. i \in 1 .. n /\ j \in 1 .. n /\ s[i] = s[j]
      BY <1>1, <1>2, <2>1
    <3> QED
      BY <1>1, <3>1 DEF Once
  <2>2. CASE i > n /\ j > n
    <3>1. i - n \in 1 .. m /\ j - n \in 1 .. m /\ u[i - n] = u[j - n]
      BY <1>1, <1>2, <2>2
    <3>2. i - n = j - n
      BY <1>1, <3>1 DEF Once
    <3> QED
      BY <1>1, <3>2
  <2>3. CASE i <= n /\ j > n
    <3>1. i \in 1 .. n /\ j - n \in 1 .. m /\ s[i] = u[j - n]
      BY <1>1, <1>2, <2>3
    <3> QED
      BY <1>3, <3>1
  <2>4. CASE i > n /\ j <= n
    <3>1. j \in 1 .. n /\ i - n \in 1 .. m /\ s[j] = u[i - n]
      BY <1>1, <1>2, <2>4
    <3> QED
      BY <1>3, <3>1
  <2> QED
    BY <1>1, <2>1, <2>2, <2>3, <2>4
<1>5. ASSUME NEW x PROVE x \in Elements(v) <=> x \in Elements(s) \/ x \in Elements(u)
  <2>1. ASSUME x \in Elements(v) PROVE x \in Elements(s) \/ x \in Elements(u)
    <3>1. PICK i \in 1 .. n + m : x = v[i]
      BY <1>1, <2>1 DEF Elements
    <3>2. CASE i <= n
      <4>1. i \in 1 .. n /\ x = s[i]
        BY <1>1, <1>2, <3>1, <3>2
      <4> QED
        BY <1>1, <4>1 DEF Elements
    <3>3. CASE i > n
      <4>1. i - n \in 1 .. m /\ x = u[i - n]
        BY <1>1, <1>2, <3>1, <3>3
      <4> QED
        BY <1>1, <4>1 DEF Elements
    <3> QED
      BY <1>1, <3>2, <3>3
  <2>2. ASSUME x \in Elements(s) PROVE x \in Elements(v)
    <3>1. PICK i \in 1 .. n : x = s[i]
      BY <1>1, <2>2 DEF Elements
    <3>2. i \in 1 .. n + m /\ v[i] = x
      BY <1>1, <1>2, <3>1
    <3> QED
      BY <1>1, <3>2 DEF Elements
  <2>3. ASSUME x \in Elements(u) PROVE x \in Elements(v)
    <3>1. PICK i \in 1 .. m : x = u[i]
      BY <1>1, <2>3 DEF Elements
    <3>2. n + i \in 1 .. n + m /\ ~(n + i <= n) /\ (n + i) - n = i
      BY <1>1
    <3>3. v[n + i] = x
      BY <1>2, <3>1, <3>2
    <3> QED
      BY <1>1, <3>2, <3>3 DEF Elements
  <2> QED
    BY <2>1, <2>2, <2>3
<1> QED
  BY <1>1, <1>4, <1>5 DEF v

\* A sequence of one element.
LEMMA Single ==
  ASSUME NEW S, NEW e \in S
  PROVE  <<e>> \in Seq(S) /\ Once(<<e>>) /\ Elements(<<e>>) = {e}
<1>1. <<e>> \in Seq(S) /\ DOMAIN <<e>> = {1} /\ <<e>>[1] = e
  OBVIOUS
<1> QED
  BY <1>1 DEF Once, Elements

\* The first element is taken.
LEMMA Taken ==
  ASSUME NEW S, NEW s \in Seq(S), s # <<>>, Once(s)
  PROVE  /\ Head(s) \in S /\ Head(s) \in Elements(s)
         /\ Tail(s) \in Seq(S) /\ Once(Tail(s))
         /\ \A x : x \in Elements(Tail(s)) <=> x \in Elements(s) /\ x # Head(s)
         /\ Tail(s) # <<>> => Tail(s)[Len(Tail(s))] = s[Len(s)]
         /\ Head(s) = s[Len(s)] => Tail(s) = <<>>
<1> DEFINE n == Len(s)
           u == Tail(s)
<1>1. /\ n \in Nat /\ n >= 1 /\ DOMAIN s = 1 .. n /\ Head(s) = s[1]
      /\ u \in Seq(S) /\ Len(u) = n - 1 /\ DOMAIN u = 1 .. n - 1
      /\ s[1] \in S
  OBVIOUS
<1>2. \A i \in 1 .. n - 1 : u[i] = s[i + 1]
  OBVIOUS
<1>3. u # <<>> => n >= 2
  BY <1>1
<1>3a. n = 1 => u = <<>>
  BY <1>1
<1> HIDE DEF n, u
<1>4. Once(u)
  <2> SUFFICES ASSUME NEW i \in 1 .. n - 1, NEW j \in 1 .. n - 1, u[i] = u[j] PROVE i = j
    BY <1>1 DEF Once
  <2>1. i + 1 \in 1 .. n /\ j + 1 \in 1 .. n /\ s[i + 1] = s[j + 1]
    BY <1>1, <1>2
  <2>2. i + 1 = j + 1
    BY <1>1, <2>1 DEF Once
  <2> QED
    BY <1>1, <2>2
<1>5. ASSUME NEW x PROVE x \in Elements(u) <=> x \in Elements(s) /\ x # s[1]
  <2>1. ASSUME x \in Elements(u) PROVE x \in Elements(s) /\ x # s[1]
    <3>1. PICK i \in 1 .. n - 1 : x = u[i]
      BY <1>1, <2>1 DEF Elements
    <3>2. i + 1 \in 1 .. n /\ 1 \in 1 .. n /\ i + 1 # 1 /\ x = s[i + 1]
      BY <1>1, <1>2, <3>1
    <3> QED
      BY <1>1, <3>2 DEF Elements, Once
  <2>2. ASSUME x \in Elements(s), x # s[1] PROVE x \in Elements(u)
    <3>1. PICK i \in 1 .. n : x = s[i]
      BY <1>1, <2>2 DEF Elements
    <3>2. i # 1
      BY <2>2, <3>1
    <3>3. i - 1 \in 1 .. n - 1 /\ (i - 1) + 1 = i
      BY <1>1, <3>2
    <3>4. u[i - 1] = x
      BY <1>2, <3>1, <3>3
    <3> QED
      BY <1>1, <3>3, <3>4 DEF Elements
  <2> QED
    BY <2>1, <2>2
<1>6. s[1] \in Elements(s)
  <2>1. 1 \in 1 .. n
    BY <1>1
  <2> QED
    BY <1>1, <2>1 DEF Elements
<1>7. u # <<>> => u[n - 1] = s[n]
  <2> SUFFICES ASSUME n >= 2 PROVE u[n - 1] = s[n]
    BY <1>3
  <2>1. n - 1 \in 1 .. n - 1 /\ (n - 1) + 1 = n
    BY <1>1
  <2> QED
    BY <1>2, <2>1
<1>8. s[1] = s[n] => u = <<>>
  <2> SUFFICES ASSUME s[1] = s[n] PROVE n = 1
    BY <1>3a
  <2>1. 1 \in 1 .. n /\ n \in 1 .. n
    BY <1>1
  <2> QED
    BY <1>1, <2>1 DEF Once
<1> QED
  BY <1>1, <1>4, <1>5, <1>6, <1>7, <1>8 DEF u, n

\* A finite set as a sequence: each element once.
LEMMA SetToSeqIs ==
  ASSUME NEW S, NEW D \in SUBSET S, IsFiniteSet(D)
  PROVE  /\ End!SetToSeq(D) \in Seq(S) /\ Once(End!SetToSeq(D)) /\ Elements(End!SetToSeq(D)) = D
<1> DEFINE n == Cardinality(D)
           s == End!SetToSeq(D)
<1>1. n \in Nat /\ ExistsBijection(1 .. n, D)
  BY FS_CardinalityType
<1>2. PICK f \in [1 .. n -> D] : \A i, j \in 1 .. n : f[i] = f[j] => i = j
  BY <1>1 DEF ExistsBijection, Bijection, Injection, IsInjective
<1>3. s \in [1 .. n -> D] /\ \A i, j \in 1 .. n : s[i] = s[j] => i = j
  <2>1. End!Cardinality(D) = n
    BY DEF End!Cardinality, Cardinality
  <2>2. s = CHOOSE g \in [1 .. n -> D] : End!IsInjective(g)
    BY <2>1 DEF End!SetToSeq
  <2>3. \E g \in [1 .. n -> D] : End!IsInjective(g)
    BY <1>2 DEF End!IsInjective
  <2> HIDE DEF s, n
  <2>4. s \in [1 .. n -> D] /\ End!IsInjective(s)
    BY <2>2, <2>3
  <2> QED
    BY <2>4 DEF End!IsInjective
<1> HIDE DEF s
<1>4. s \in Surjection(1 .. n, D)
  <2>1. IsFiniteSet(1 .. n) /\ Cardinality(1 .. n) = n
    BY <1>1, FS_Interval
  <2>2. s \in Injection(1 .. n, D)
    BY <1>3 DEF Injection, IsInjective
  <2> QED
    BY <2>1, <2>2, FS_Injection DEF n
<1> HIDE DEF n
<1>5. Elements(s) = D
  BY <1>3, <1>4 DEF Elements, Surjection
<1>6. s \in Seq(S)
  BY <1>1, <1>3, SeqDef
<1> QED
  BY <1>3, <1>5, <1>6 DEF Once, s

\* How often an element is listed.
LEMMA ListedIs ==
  ASSUME NEW S, NEW s \in Seq(S), Once(s), NEW t
  PROVE  End!Listed(t, s) = IF t \in Elements(s) THEN 1 ELSE 0
<1> DEFINE I == {i \in DOMAIN s : s[i] = t}
<1>1. End!Listed(t, s) = Cardinality(I)
  BY DEF End!Listed, End!Cardinality, Cardinality
<1>2. CASE t \in Elements(s)
  <2>1. PICK i \in DOMAIN s : s[i] = t
    BY <1>2 DEF Elements
  <2>2. I = {i}
    BY <2>1 DEF Once
  <2> QED
    BY <1>1, <1>2, <2>2, FS_Singleton
<1>3. CASE t \notin Elements(s)
  <2>1. I = {}
    BY <1>3 DEF Elements
  <2> QED
    BY <1>1, <1>3, <2>1, FS_EmptySet
<1> QED
  BY <1>2, <1>3

-----------------------------------------------------------------------------
(* The end of a session. *)

\* A last announce by HTTP is in one of seven places.
OneOf(t, A, B, C, D, E, F, G) ==
  /\ t \in A \/ t \in B \/ t \in C \/ t \in D \/ t \in E \/ t \in F \/ t \in G
  /\ t \in A => t \notin B /\ t \notin C /\ t \notin D /\ t \notin E /\ t \notin F /\ t \notin G
  /\ t \in B => t \notin C /\ t \notin D /\ t \notin E /\ t \notin F /\ t \notin G
  /\ t \in C => t \notin D /\ t \notin E /\ t \notin F /\ t \notin G
  /\ t \in D => t \notin E /\ t \notin F /\ t \notin G
  /\ t \in E => t \notin F /\ t \notin G
  /\ t \in F => t \notin G

Places == {"top", "begin", "perform", "ending", "gone"}
Modes == {"none", "now", "whenIdle"}
Calls == Http \cup {"close", "eof"}
Callers == {"running", "isClosed", "isQuiet", "webTest", "webSet", "webWait", "eventClose", "events", "freed"}
Events == {"loop", "torrents", "announcer", "webClose", "udp", "closed", "ended"}

WebTyped ==
  /\ DOMAIN web = {"at", "mode", "tasks", "curl"} /\ web.at \in Places /\ web.mode \in Modes
  /\ web.tasks \in Seq(Http) /\ Once(web.tasks) /\ web.curl \in SUBSET Http
PipeTyped == pipe \in Seq(Calls) /\ Once(pipe)
EndTyped ==
  /\ time \in 0 .. 2 /\ die \in BOOLEAN /\ caller \in Callers /\ event \in Events
  /\ open \in SUBSET Torrents /\ stops \in SUBSET Torrents /\ udp \in SUBSET (Torrents \ Http)
  /\ answered \in SUBSET Http /\ dropped \in SUBSET Http

\* Every last announce is somewhere, and nowhere else.
OnePlace ==
  \A t \in Http : OneOf(t, open, stops, Elements(web.tasks), web.curl, Elements(pipe), answered, dropped)

\* What is posted to the event thread: the pipe is closed last.
CallsInOrder ==
  /\ "close" \in Elements(pipe) => event \in {"loop", "ended"} /\ caller # "running"
  /\ caller = "running" => event = "loop"
  /\ "eof" \in Elements(pipe) => die /\ pipe[Len(pipe)] = "eof"
  /\ die <=> caller \in {"events", "freed"}
  /\ event = "ended" => die
  /\ event = "ended" /\ time = 0 => pipe = <<>>

\* What each thread has done when it is at a step, and what the others have: the caller is
\* early only when it has seen the event thread and the web thread end.
StepsInOrder ==
  /\ event \in {"announcer", "webClose", "udp", "closed"} => open = {}
  /\ event \in {"webClose", "udp", "closed"} => stops = {}
  /\ event = "closed" => udp = {}
  /\ web.at = "gone" => web.tasks = <<>> /\ web.curl = {}
  /\ caller \in {"eventClose", "events", "freed"} => web.at = "gone"
  /\ caller \in {"webSet", "webWait"} => time > 0
  /\ caller = "webTest" /\ time = 0 => web.at = "gone"
  /\ time = 0 /\ caller \notin {"running", "isClosed"} => event \in {"closed", "ended"} /\ open = {} /\ stops = {}
  /\ caller = "freed" => event = "ended" \/ time = 2

EndInv == WebTyped /\ PipeTyped /\ EndTyped /\ OnePlace /\ CallsInOrder /\ StepsInOrder

\* The session as it begins to end.
LEMMA EndFirst ==
  ASSUME End!Init
  PROVE  EndInv
<1>1. Elements(<<>>) = {} /\ Once(<<>>)
  BY DEF Elements, Once
<1>2. web = [at |-> "top", mode |-> "none", tasks |-> <<>>, curl |-> {}] /\ pipe = <<>>
  BY DEF End!Init
<1>3. WebTyped
  BY <1>1, <1>2 DEF WebTyped, Places, Modes
<1>4. PipeTyped
  BY <1>1, <1>2 DEF PipeTyped
<1>5. EndTyped
  <2>1. time = 0 /\ 0 \in 0 .. 2 /\ die = FALSE
    BY DEF End!Init
  <2>2. "running" \in Callers /\ "loop" \in Events
    BY DEF Callers, Events
  <2> QED
    BY <2>1, <2>2 DEF EndTyped, End!Init
<1>6. OnePlace
  BY <1>1, <1>2, TorrentsAssumption DEF OnePlace, OneOf, End!Init
<1>7. CallsInOrder
  BY <1>1, <1>2 DEF CallsInOrder, End!Init
<1>8. StepsInOrder
  BY <1>2 DEF StepsInOrder, End!Init
<1> QED
  BY <1>3, <1>4, <1>5, <1>6, <1>7, <1>8 DEF EndInv

\* The invariant holds what the properties say.
LEMMA EndIsSound ==
  ASSUME EndInv
  PROVE  /\ End!TypeOK /\ End!NothingUsesTheFreed /\ End!WebIsThereWhenTold
         /\ End!ClosedIsDone /\ End!AnnouncedOnce
<1>1. End!TypeOK
  <2>1. End!Range(web.tasks) \subseteq Http
    <3>1. web.tasks \in Seq(Http)
      BY DEF EndInv, WebTyped
    <3> QED
      BY <3>1 DEF End!Range
  <2> QED
    BY <2>1 DEF EndInv, WebTyped, EndTyped, End!TypeOK
<1>2. End!NothingUsesTheFreed
  <2>1. time = 0 => time # 2
    OBVIOUS
  <2> QED
    BY <2>1 DEF EndInv, StepsInOrder, End!NothingUsesTheFreed
<1>3. End!WebIsThereWhenTold
  BY DEF EndInv, StepsInOrder, End!WebIsThereWhenTold
<1>4. End!ClosedIsDone
  <2>1. event = "closed" => open = {} /\ stops = {} /\ udp = {}
    BY DEF EndInv, StepsInOrder
  <2>2. ASSUME caller = "freed", time = 0 PROVE open = {} /\ answered \cup dropped = Http
    <3>1. /\ open = {} /\ stops = {} /\ web.at = "gone" /\ event = "ended"
      BY <2>2 DEF EndInv, StepsInOrder
    <3>2. web.tasks = <<>> /\ web.curl = {} /\ pipe = <<>>
      BY <2>2, <3>1 DEF EndInv, StepsInOrder, CallsInOrder
    <3>3. Elements(web.tasks) = {} /\ Elements(pipe) = {}
      BY <3>2 DEF Elements
    <3>4. answered \subseteq Http /\ dropped \subseteq Http
      BY DEF EndInv, EndTyped
    <3> QED
      BY <3>1, <3>2, <3>3, <3>4 DEF EndInv, OnePlace, OneOf
  <2> QED
    BY <2>1, <2>2 DEF End!ClosedIsDone
<1>5. End!AnnouncedOnce
  <2> SUFFICES ASSUME NEW t \in Http
               PROVE  End!In(t, open) + End!In(t, stops) + End!Listed(t, web.tasks) + End!In(t, web.curl)
                        + End!Listed(t, pipe) + End!In(t, answered) + End!In(t, dropped) = 1
    BY DEF End!AnnouncedOnce
  <2>1. End!Listed(t, web.tasks) = IF t \in Elements(web.tasks) THEN 1 ELSE 0
    BY ListedIs DEF EndInv, WebTyped
  <2>2. End!Listed(t, pipe) = IF t \in Elements(pipe) THEN 1 ELSE 0
    BY ListedIs DEF EndInv, PipeTyped
  <2>3. OneOf(t, open, stops, Elements(web.tasks), web.curl, Elements(pipe), answered, dropped)
    BY DEF EndInv, OnePlace
  <2> QED
    BY <2>1, <2>2, <2>3 DEF OneOf, End!In
<1> QED
  BY <1>1, <1>2, <1>3, <1>4, <1>5

\* A step of the caller, or the clock.
LEMMA CallerKeeps ==
  ASSUME EndInv, End!CallerSteps \/ End!Clock
  PROVE  EndInv'
<1>0. /\ WebTyped /\ PipeTyped /\ EndTyped /\ OnePlace /\ CallsInOrder /\ StepsInOrder
      /\ "close" \in Calls /\ "eof" \in Calls /\ "close" \notin Http /\ "eof" \notin Http
  BY TorrentsAssumption DEF EndInv, Calls
<1>1. CASE End!Posts
  <2>1. "close" \notin Elements(pipe) /\ "eof" \notin Elements(pipe)
    BY <1>0, <1>1 DEF CallsInOrder, End!Posts
  <2>2. /\ pipe' \in Seq(Calls) /\ Once(pipe') /\ pipe' # <<>>
        /\ \A x : x \in Elements(pipe') <=> x \in Elements(pipe) \/ x = "close"
    BY <1>0, <1>1, <2>1, Appended DEF PipeTyped, End!Posts
  <2>3. WebTyped' /\ PipeTyped'
    BY <1>0, <1>1, <2>2 DEF WebTyped, PipeTyped, End!Posts
  <2>4. EndTyped'
    BY <1>0, <1>1 DEF EndTyped, Callers, End!Posts
  <2>5. OnePlace'
    BY <1>0, <1>1, <2>2 DEF OnePlace, OneOf, End!Posts
  <2>6. CallsInOrder'
    BY <1>0, <1>1, <2>1, <2>2 DEF CallsInOrder, End!Posts
  <2>7. StepsInOrder'
    BY <1>0, <1>1 DEF StepsInOrder, End!Posts
  <2> QED
    BY <2>3, <2>4, <2>5, <2>6, <2>7 DEF EndInv
<1>2. CASE End!Waits
  <2>1. WebTyped' /\ PipeTyped' /\ EndTyped' /\ OnePlace'
    BY <1>0, <1>2 DEF WebTyped, PipeTyped, EndTyped, OnePlace, Callers, End!Waits
  <2>2. CallsInOrder'
    BY <1>0, <1>2 DEF CallsInOrder, End!Waits
  <2>3. StepsInOrder'
    <3>1. time \in 0 .. 2
      BY <1>0 DEF EndTyped
    <3>2. event = "ended" /\ time = 0 => FALSE
      BY <1>0, <1>2 DEF CallsInOrder, End!Waits
    <3>3. \/ caller = "isClosed" /\ caller' = "isQuiet" /\ (event \in {"closed", "ended"} \/ time > 0)
          \/ caller = "isQuiet" /\ caller' = "webTest" /\ (web.at = "gone" \/ time > 0)
      BY <1>2 DEF End!Waits, End!ClosedOrLate, End!QuietOrLate
    <3> QED
      BY <1>0, <1>2, <3>1, <3>2, <3>3 DEF StepsInOrder, End!Waits
  <2> QED
    BY <2>1, <2>2, <2>3 DEF EndInv
<1>3. CASE End!WebCloseNow
  <2>1. /\ web'.at = web.at /\ web'.tasks = web.tasks /\ web'.curl = web.curl /\ web'.mode \in Modes
        /\ DOMAIN web' = DOMAIN web
    BY <1>0, <1>3 DEF WebTyped, Modes, End!WebCloseNow
  <2>2. WebTyped' /\ PipeTyped' /\ OnePlace'
    BY <1>0, <1>3, <2>1 DEF WebTyped, PipeTyped, OnePlace, End!WebCloseNow
  <2>3. \/ caller = "webTest" /\ web.at = "gone" /\ caller' = "eventClose"
        \/ caller = "webTest" /\ web.at # "gone" /\ caller' = "webSet"
        \/ caller = "webSet" /\ caller' = "webWait"
        \/ caller = "webWait" /\ web.at = "gone" /\ caller' = "eventClose"
    BY <1>3 DEF End!WebCloseNow
  <2>4. UNCHANGED <<time, event, pipe, die, open, stops, udp, answered, dropped>>
    BY <1>3 DEF End!WebCloseNow
  <2>5. EndTyped'
    BY <1>0, <2>3, <2>4 DEF EndTyped, Callers
  <2>6. CallsInOrder'
    BY <1>0, <2>3, <2>4 DEF CallsInOrder
  <2>7. StepsInOrder'
    <3>1. time \in 0 .. 2
      BY <1>0 DEF EndTyped
    <3> QED
      BY <1>0, <2>1, <2>3, <2>4, <3>1 DEF StepsInOrder
  <2> QED
    BY <2>2, <2>5, <2>6, <2>7 DEF EndInv
<1>4. CASE End!tr_eventClose
  <2>1. "close" \notin Elements(pipe) \/ "close" \in Elements(pipe)
    OBVIOUS
  <2>2. "eof" \notin Elements(pipe) /\ ~die
    BY <1>0, <1>4 DEF CallsInOrder, End!tr_eventClose
  <2>3. /\ pipe' \in Seq(Calls) /\ Once(pipe') /\ pipe'[Len(pipe')] = "eof"
        /\ \A x : x \in Elements(pipe') <=> x \in Elements(pipe) \/ x = "eof"
    BY <1>0, <1>4, <2>2, Appended DEF PipeTyped, End!tr_eventClose
  <2>4. WebTyped' /\ PipeTyped'
    BY <1>0, <1>4, <2>3 DEF WebTyped, PipeTyped, End!tr_eventClose
  <2>5. EndTyped'
    BY <1>0, <1>4 DEF EndTyped, Callers, End!tr_eventClose
  <2>6. OnePlace'
    BY <1>0, <1>4, <2>3 DEF OnePlace, OneOf, End!tr_eventClose
  <2>7. CallsInOrder'
    BY <1>0, <1>4, <2>2, <2>3 DEF CallsInOrder, End!tr_eventClose
  <2>8. StepsInOrder'
    BY <1>0, <1>4 DEF StepsInOrder, End!tr_eventClose
  <2> QED
    BY <2>4, <2>5, <2>6, <2>7, <2>8 DEF EndInv
<1>5. CASE End!Freed
  <2>1. WebTyped' /\ PipeTyped' /\ EndTyped' /\ OnePlace'
    BY <1>0, <1>5 DEF WebTyped, PipeTyped, EndTyped, OnePlace, Callers, End!Freed
  <2>2. CallsInOrder'
    BY <1>0, <1>5 DEF CallsInOrder, End!Freed, End!Frees
  <2>3. StepsInOrder'
    BY <1>0, <1>5 DEF StepsInOrder, End!Freed, End!Frees
  <2> QED
    BY <2>1, <2>2, <2>3 DEF EndInv
<1>6. CASE End!Clock
  <2>1. time \in 0 .. 2 /\ time' \in 1 .. 2 /\ time' = time + 1
    BY <1>0, <1>6 DEF EndTyped, End!Clock
  <2>2. time' > 0 /\ time' # 0 /\ time # 2
    BY <2>1
  <2>3. WebTyped' /\ PipeTyped' /\ OnePlace'
    BY <1>0, <1>6 DEF WebTyped, PipeTyped, OnePlace, End!Clock
  <2>4. EndTyped'
    BY <1>0, <1>6, <2>1 DEF EndTyped, End!Clock
  <2>5. CallsInOrder'
    BY <1>0, <1>6, <2>2 DEF CallsInOrder, End!Clock
  <2>6. StepsInOrder'
    BY <1>0, <1>6, <2>2 DEF StepsInOrder, End!Clock
  <2> QED
    BY <2>3, <2>4, <2>5, <2>6 DEF EndInv
<1> QED
  BY <1>1, <1>2, <1>3, <1>4, <1>5, <1>6 DEF End!CallerSteps

\* A step of the event thread.
LEMMA EventKeeps ==
  ASSUME EndInv, End!EventSteps
  PROVE  EndInv'
<1>0. /\ WebTyped /\ PipeTyped /\ EndTyped /\ OnePlace /\ CallsInOrder /\ StepsInOrder
      /\ "close" \in Calls /\ "eof" \in Calls /\ "close" \notin Http /\ "eof" \notin Http
  BY TorrentsAssumption DEF EndInv, Calls
<1>1. CASE End!readFromPipe
  <2> DEFINE call == Head(pipe)
  <2>1. pipe # <<>> /\ event \in {"loop", "closed"} /\ pipe' = Tail(pipe)
    BY <1>1 DEF End!readFromPipe
  <2>2. UNCHANGED <<caller, time, die, web, open, stops, udp>>
    BY <1>1 DEF End!readFromPipe
  <2>3. /\ call \in Calls /\ call \in Elements(pipe)
        /\ pipe' \in Seq(Calls) /\ Once(pipe')
        /\ \A x : x \in Elements(pipe') <=> x \in Elements(pipe) /\ x # call
        /\ pipe' # <<>> => pipe'[Len(pipe')] = pipe[Len(pipe)]
        /\ call = pipe[Len(pipe)] => pipe' = <<>>
    BY <1>0, <2>1, Taken DEF PipeTyped
  <2>4. "eof" \in Elements(pipe') => pipe' # <<>>
    BY DEF Elements
  <2>5. \/ call = "eof" /\ event' = "ended" /\ UNCHANGED <<answered, dropped>>
        \/ call = "close" /\ ~die /\ event' = "torrents" /\ UNCHANGED <<answered, dropped>>
        \/ call = "close" /\ die /\ UNCHANGED <<event, answered, dropped>>
        \/ /\ call # "eof" /\ call # "close" /\ call \in Http /\ UNCHANGED event
           /\ answered' = IF die THEN answered ELSE answered \cup {call}
           /\ dropped' = IF die THEN dropped \cup {call} ELSE dropped
    <3>1. call \in Http \/ call = "eof" \/ call = "close"
      BY <2>3 DEF Calls
    <3>2. CASE call = "eof"
      BY <1>1, <3>2 DEF End!readFromPipe
    <3>3. CASE call = "close"
      BY <1>0, <1>1, <3>3 DEF End!readFromPipe, EndTyped
    <3>4. CASE call # "eof" /\ call # "close"
      BY <1>1, <3>1, <3>4 DEF End!readFromPipe
    <3> QED
      BY <3>2, <3>3, <3>4
  <2> HIDE DEF call
  <2>6. WebTyped' /\ PipeTyped'
    BY <1>0, <2>2, <2>3 DEF WebTyped, PipeTyped
  <2>7. EndTyped'
    <3>1. event' \in Events
      BY <1>0, <2>5 DEF EndTyped, Events
    <3>2. answered' \in SUBSET Http /\ dropped' \in SUBSET Http
      BY <1>0, <2>5 DEF EndTyped
    <3> QED
      BY <1>0, <2>2, <3>1, <3>2 DEF EndTyped
  <2>8. OnePlace'
    <3> SUFFICES ASSUME NEW t \in Http
                 PROVE  OneOf(t, open', stops', Elements(web'.tasks), web'.curl, Elements(pipe'), answered', dropped')
      BY DEF OnePlace
    <3>1. OneOf(t, open, stops, Elements(web.tasks), web.curl, Elements(pipe), answered, dropped)
      BY <1>0 DEF OnePlace
    <3>2. t # "eof" /\ t # "close"
      BY <1>0
    <3>3. t \in Elements(pipe') <=> t \in Elements(pipe) /\ t # call
      BY <2>3
    <3>4. /\ t \in answered' <=> t \in answered \/ (t = call /\ ~die)
          /\ t \in dropped' <=> t \in dropped \/ (t = call /\ die)
      BY <2>5, <3>2
    <3> QED
      BY <2>2, <2>3, <3>1, <3>3, <3>4 DEF OneOf
  <2>9. CallsInOrder'
    <3>1. "close" \in Elements(pipe') => event' \in {"loop", "ended"} /\ caller' # "running"
      BY <1>0, <2>2, <2>3, <2>5 DEF CallsInOrder
    <3>2. caller' = "running" => event' = "loop"
      BY <1>0, <2>2, <2>3, <2>5 DEF CallsInOrder
    <3>3. "eof" \in Elements(pipe') => die' /\ pipe'[Len(pipe')] = "eof"
      BY <1>0, <2>2, <2>3, <2>4 DEF CallsInOrder
    <3>4. die' <=> caller' \in {"events", "freed"}
      BY <1>0, <2>2 DEF CallsInOrder
    <3>5. event' = "ended" => die' /\ pipe' = <<>>
      BY <1>0, <2>1, <2>2, <2>3, <2>5 DEF CallsInOrder
    <3> QED
      BY <3>1, <3>2, <3>3, <3>4, <3>5 DEF CallsInOrder
  <2>10. StepsInOrder'
    <3>1. event' \in {"announcer", "webClose", "udp", "closed"} => event' = event
      BY <2>5
    <3>2. event' = "torrents" => event = "loop"
      BY <1>0, <2>1, <2>3, <2>5 DEF CallsInOrder
    <3>3. event \in {"closed", "ended"} => event' \in {"closed", "ended"}
      BY <2>1, <2>5, <3>2
    <3> QED
      BY <1>0, <2>1, <2>2, <3>1, <3>3 DEF StepsInOrder
  <2> QED
    BY <2>6, <2>7, <2>8, <2>9, <2>10 DEF EndInv
<1>2. CASE End!Loopbreak
  <2>1. UNCHANGED <<caller, time, pipe, die, web, open, stops, udp, answered, dropped>> /\ event' = "ended"
    BY <1>2 DEF End!Loopbreak
  <2>2. die /\ time > 0 /\ time # 0
    BY <1>0, <1>2 DEF EndTyped, End!Loopbreak
  <2>3. WebTyped' /\ PipeTyped' /\ EndTyped' /\ OnePlace'
    BY <1>0, <2>1 DEF WebTyped, PipeTyped, EndTyped, OnePlace, Events
  <2>4. CallsInOrder'
    BY <1>0, <2>1, <2>2 DEF CallsInOrder
  <2>5. StepsInOrder'
    BY <1>0, <2>1, <2>2 DEF StepsInOrder
  <2> QED
    BY <2>3, <2>4, <2>5 DEF EndInv
<1>3. CASE End!FreeTorrent
  <2>1. UNCHANGED <<caller, time, pipe, die, web, udp, answered, dropped>> /\ event = "torrents"
    BY <1>3 DEF End!FreeTorrent
  <2>2. WebTyped' /\ PipeTyped'
    BY <1>0, <2>1 DEF WebTyped, PipeTyped
  <2>3. CASE open = {} /\ event' = "announcer" /\ UNCHANGED <<open, stops>>
    <3>1. EndTyped' /\ OnePlace'
      BY <1>0, <2>1, <2>3 DEF EndTyped, OnePlace, Events
    <3>2. CallsInOrder' /\ StepsInOrder'
      BY <1>0, <2>1, <2>3 DEF CallsInOrder, StepsInOrder
    <3> QED
      BY <2>2, <3>1, <3>2 DEF EndInv
  <2>4. ASSUME NEW t \in open, open' = open \ {t}, stops' = stops \cup {t}, UNCHANGED event
        PROVE  EndInv'
    <3>1. EndTyped' /\ OnePlace'
      BY <1>0, <2>1, <2>4 DEF EndTyped, OnePlace, OneOf
    <3>2. CallsInOrder' /\ StepsInOrder'
      BY <1>0, <2>1, <2>4 DEF CallsInOrder, StepsInOrder
    <3> QED
      BY <2>2, <3>1, <3>2 DEF EndInv
  <2> QED
    BY <1>3, <2>3, <2>4 DEF End!FreeTorrent
<1>4. CASE End!tr_announcerClose
  <2>1. UNCHANGED <<caller, time, pipe, die, open, answered>> /\ event = "announcer" /\ open = {}
    BY <1>0, <1>4 DEF StepsInOrder, End!tr_announcerClose
  <2>2. CASE stops = {} /\ event' = "webClose" /\ UNCHANGED <<stops, web, udp, dropped>>
    <3>1. WebTyped' /\ PipeTyped' /\ EndTyped' /\ OnePlace'
      BY <1>0, <2>1, <2>2 DEF WebTyped, PipeTyped, EndTyped, OnePlace, Events
    <3>2. CallsInOrder' /\ StepsInOrder'
      BY <1>0, <2>1, <2>2 DEF CallsInOrder, StepsInOrder
    <3> QED
      BY <3>1, <3>2 DEF EndInv
  <2>3. ASSUME NEW t \in stops, stops' = stops \ {t}, UNCHANGED event,
               IF t \in Http THEN End!tr_webRun(t) /\ UNCHANGED udp ELSE udp' = udp \cup {t} /\ UNCHANGED <<web, dropped>>
        PROVE  EndInv'
    <3>0. OneOf(t, open, stops, Elements(web.tasks), web.curl, Elements(pipe), answered, dropped) \/ t \notin Http
      BY <1>0 DEF OnePlace
    <3>1. time # 0 \/ caller \in {"running", "isClosed"}
      BY <1>0, <2>1 DEF StepsInOrder
    <3>2. CallsInOrder'
      BY <1>0, <2>1, <2>3 DEF CallsInOrder
    <3>3. PipeTyped'
      BY <1>0, <2>1 DEF PipeTyped
    <3>4. CASE t \notin Http
      <4>1. UNCHANGED <<web, dropped>> /\ udp' = udp \cup {t} /\ t \in Torrents \ Http
        BY <1>0, <2>3, <3>4 DEF EndTyped
      <4>2. WebTyped' /\ EndTyped' /\ OnePlace'
        BY <1>0, <2>1, <2>3, <3>4, <4>1 DEF WebTyped, EndTyped, OnePlace, OneOf
      <4>3. StepsInOrder'
        BY <1>0, <2>1, <2>3, <3>1, <4>1 DEF StepsInOrder
      <4> QED
        BY <3>2, <3>3, <4>2, <4>3 DEF EndInv
    <3>5. CASE t \in Http /\ web.at = "gone"
      <4>1. UNCHANGED <<web, udp>> /\ dropped' = dropped \cup {t}
        BY <2>3, <3>5 DEF End!tr_webRun
      <4>2. WebTyped' /\ EndTyped' /\ OnePlace'
        BY <1>0, <2>1, <2>3, <3>5, <4>1 DEF WebTyped, EndTyped, OnePlace, OneOf
      <4>3. StepsInOrder'
        BY <1>0, <2>1, <2>3, <3>1, <4>1 DEF StepsInOrder
      <4> QED
        BY <3>2, <3>3, <4>2, <4>3 DEF EndInv
    <3>6. CASE t \in Http /\ web.at # "gone"
      <4>1. UNCHANGED <<udp, dropped>> /\ web' = [web EXCEPT !.tasks = <<t>> \o web.tasks]
        BY <2>3, <3>6 DEF End!tr_webRun
      <4>2. t \notin Elements(web.tasks)
        BY <3>0, <3>6 DEF OneOf
      <4>3. /\ <<t>> \o web.tasks \in Seq(Http) /\ Once(<<t>> \o web.tasks)
            /\ \A x : x \in Elements(<<t>> \o web.tasks) <=> x = t \/ x \in Elements(web.tasks)
        <5>1. <<t>> \in Seq(Http) /\ Once(<<t>>) /\ Elements(<<t>>) = {t}
          BY <3>6, Single
        <5>2. web.tasks \in Seq(Http) /\ Once(web.tasks)
          BY <1>0 DEF WebTyped
        <5>3. \A x \in Elements(<<t>>) : x \notin Elements(web.tasks)
          BY <4>2, <5>1
        <5>4. /\ <<t>> \o web.tasks \in Seq(Http) /\ Once(<<t>> \o web.tasks)
              /\ \A x : x \in Elements(<<t>> \o web.tasks) <=> x \in Elements(<<t>>) \/ x \in Elements(web.tasks)
          BY <5>1, <5>2, <5>3, Joined
        <5> QED
          BY <5>1, <5>4
      <4> DEFINE list == <<t>> \o web.tasks
      <4>4. /\ DOMAIN web' = {"at", "mode", "tasks", "curl"} /\ web'.at = web.at /\ web'.mode = web.mode
            /\ web'.tasks = list /\ web'.curl = web.curl
        BY <1>0, <4>1 DEF WebTyped
      <4> HIDE DEF list
      <4>5. /\ list \in Seq(Http) /\ Once(list)
            /\ \A x : x \in Elements(list) <=> x = t \/ x \in Elements(web.tasks)
        BY <4>3 DEF list
      <4>6. WebTyped'
        BY <1>0, <4>4, <4>5 DEF WebTyped
      <4>7. EndTyped'
        BY <1>0, <2>1, <2>3, <4>1 DEF EndTyped
      <4>8. OnePlace'
        BY <1>0, <2>1, <2>3, <4>1, <4>4, <4>5 DEF OnePlace, OneOf
      <4>9. StepsInOrder'
        BY <1>0, <2>1, <2>3, <3>1, <3>6, <4>1, <4>4 DEF StepsInOrder
      <4> QED
        BY <3>2, <3>3, <4>6, <4>7, <4>8, <4>9 DEF EndInv
    <3> QED
      BY <3>4, <3>5, <3>6
  <2> QED
    BY <1>4, <2>2, <2>3 DEF End!tr_announcerClose
<1>5. CASE End!WebCloseWhenIdle
  <2>1. /\ UNCHANGED <<caller, time, pipe, die, open, stops, udp, answered, dropped>>
        /\ event = "webClose" /\ event' = "udp" /\ open = {} /\ stops = {}
    BY <1>0, <1>5 DEF StepsInOrder, End!WebCloseWhenIdle
  <2>2. /\ DOMAIN web' = {"at", "mode", "tasks", "curl"} /\ web'.at = web.at /\ web'.mode \in Modes
        /\ web'.tasks = web.tasks /\ web'.curl = web.curl
    BY <1>0, <1>5 DEF WebTyped, Modes, End!WebCloseWhenIdle
  <2>3. WebTyped' /\ PipeTyped' /\ OnePlace'
    BY <1>0, <2>1, <2>2 DEF WebTyped, PipeTyped, OnePlace
  <2>4. EndTyped'
    BY <1>0, <2>1 DEF EndTyped, Events
  <2>5. CallsInOrder' /\ StepsInOrder'
    BY <1>0, <2>1, <2>2 DEF CallsInOrder, StepsInOrder
  <2> QED
    BY <2>3, <2>4, <2>5 DEF EndInv
<1>6. CASE End!UdpUpkeep
  <2>1. /\ UNCHANGED <<caller, time, pipe, die, web, open, stops, answered, dropped>>
        /\ event = "udp" /\ open = {} /\ stops = {}
    BY <1>0, <1>6 DEF StepsInOrder, End!UdpUpkeep
  <2>2. \/ event' = "udp" /\ udp' \subseteq udp
        \/ event' = "closed" /\ udp' = {}
    BY <1>6, <2>1 DEF End!UdpUpkeep
  <2>3. WebTyped' /\ PipeTyped' /\ OnePlace'
    BY <1>0, <2>1 DEF WebTyped, PipeTyped, OnePlace
  <2>4. EndTyped'
    BY <1>0, <2>1, <2>2 DEF EndTyped, Events
  <2>5. CallsInOrder' /\ StepsInOrder'
    BY <1>0, <2>1, <2>2 DEF CallsInOrder, StepsInOrder
  <2> QED
    BY <2>3, <2>4, <2>5 DEF EndInv
<1> QED
  BY <1>1, <1>2, <1>3, <1>4, <1>5, <1>6 DEF End!EventSteps

\* A step of the web thread.
LEMMA WebKeeps ==
  ASSUME EndInv, End!WebSteps
  PROVE  EndInv'
<1>0. WebTyped /\ PipeTyped /\ EndTyped /\ OnePlace /\ CallsInOrder /\ StepsInOrder
  BY DEF EndInv
<1>1. Elements(<<>>) = {} /\ Once(<<>>) /\ <<>> \in Seq(Http)
  BY DEF Elements, Once
<1>2. End!Range(web.tasks) = Elements(web.tasks) /\ Elements(web.tasks) \in SUBSET Http
  <2>1. web.tasks \in Seq(Http)
    BY <1>0 DEF WebTyped
  <2> QED
    BY <2>1 DEF End!Range, Elements
<1>3. /\ UNCHANGED <<caller, time, event, die, open, stops, udp, answered>>
      /\ web.at # "gone" /\ ~die /\ caller \notin {"eventClose", "events", "freed"}
  BY <1>0 DEF CallsInOrder, StepsInOrder, End!WebSteps, End!WebTop, End!WebBegin, End!WebPerform, End!WebEnds
<1>4. CASE End!WebTop
  <2>1. UNCHANGED <<pipe, dropped>> /\ web.at = "top"
    BY <1>4 DEF End!WebTop
  <2>2. /\ DOMAIN web' = {"at", "mode", "tasks", "curl"} /\ web'.at \in {"ending", "begin"}
        /\ web'.mode = web.mode /\ web'.tasks = web.tasks /\ web'.curl = web.curl
    BY <1>0, <1>4 DEF WebTyped, End!WebTop
  <2>3. WebTyped' /\ PipeTyped' /\ OnePlace'
    BY <1>0, <1>3, <2>1, <2>2 DEF WebTyped, PipeTyped, OnePlace, Places
  <2>4. EndTyped' /\ CallsInOrder' /\ StepsInOrder'
    BY <1>0, <1>3, <2>1, <2>2 DEF EndTyped, CallsInOrder, StepsInOrder
  <2> QED
    BY <2>3, <2>4 DEF EndInv
<1>5. CASE End!WebBegin
  <2>1. UNCHANGED <<pipe, dropped>> /\ web.at = "begin"
    BY <1>5 DEF End!WebBegin
  <2>2. /\ DOMAIN web' = {"at", "mode", "tasks", "curl"} /\ web'.at = "perform"
        /\ web'.mode = web.mode /\ web'.tasks = <<>> /\ web'.curl = web.curl \cup Elements(web.tasks)
    BY <1>0, <1>2, <1>5 DEF WebTyped, End!WebBegin
  <2>3. WebTyped' /\ PipeTyped'
    BY <1>0, <1>1, <1>2, <1>3, <2>1, <2>2 DEF WebTyped, PipeTyped, Places
  <2>4. OnePlace'
    BY <1>0, <1>1, <1>3, <2>1, <2>2 DEF OnePlace, OneOf
  <2>5. EndTyped' /\ CallsInOrder' /\ StepsInOrder'
    BY <1>0, <1>3, <2>1, <2>2 DEF EndTyped, CallsInOrder, StepsInOrder
  <2> QED
    BY <2>3, <2>4, <2>5 DEF EndInv
<1>6. CASE End!WebPerform
  <2>1. PICK done \in SUBSET web.curl : /\ web' = [web EXCEPT !.at = "top", !.curl = web.curl \ done]
                                        /\ pipe' = pipe \o End!SetToSeq(done)
    BY <1>6 DEF End!WebPerform
  <2>2. UNCHANGED dropped
    BY <1>6 DEF End!WebPerform
  <2>3. done \in SUBSET Http /\ done \in SUBSET Calls /\ IsFiniteSet(done)
    <3>1. done \in SUBSET Http /\ done \in SUBSET Torrents /\ IsFiniteSet(Torrents)
      BY <1>0, <2>1, TorrentsAssumption DEF WebTyped
    <3> QED
      BY <3>1, FS_Subset DEF Calls
  <2> DEFINE s == End!SetToSeq(done)
  <2>4. s \in Seq(Calls) /\ Once(s) /\ Elements(s) = done
    BY <2>3, SetToSeqIs
  <2> HIDE DEF s
  <2>5. \A x \in Elements(pipe) : x \notin Elements(s)
    BY <1>0, <2>1, <2>3, <2>4 DEF OnePlace, OneOf
  <2>6. /\ pipe' \in Seq(Calls) /\ Once(pipe')
        /\ \A x : x \in Elements(pipe') <=> x \in Elements(pipe) \/ x \in done
    <3>1. pipe' = pipe \o s
      BY <2>1 DEF s
    <3> QED
      BY <1>0, <2>4, <2>5, <3>1, Joined DEF PipeTyped
  <2>7. /\ DOMAIN web' = {"at", "mode", "tasks", "curl"} /\ web'.at = "top"
        /\ web'.mode = web.mode /\ web'.tasks = web.tasks /\ web'.curl = web.curl \ done
    BY <1>0, <2>1 DEF WebTyped
  <2>8. WebTyped' /\ PipeTyped' /\ EndTyped'
    BY <1>0, <1>3, <2>2, <2>6, <2>7 DEF WebTyped, PipeTyped, EndTyped, Places
  <2>9. OnePlace'
    BY <1>0, <1>3, <2>1, <2>2, <2>6, <2>7 DEF OnePlace, OneOf
  <2>10. CallsInOrder'
    <3>1. "close" \notin done /\ "eof" \notin done
      BY <2>3, TorrentsAssumption
    <3>2. "eof" \notin Elements(pipe') /\ event # "ended"
      BY <1>0, <1>3, <2>6, <3>1 DEF CallsInOrder
    <3> QED
      BY <1>0, <1>3, <2>6, <3>1, <3>2 DEF CallsInOrder
  <2>11. StepsInOrder'
    BY <1>0, <1>3, <2>7 DEF StepsInOrder
  <2> QED
    BY <2>8, <2>9, <2>10, <2>11 DEF EndInv
<1>7. CASE End!WebEnds
  <2>1. UNCHANGED pipe /\ dropped' = dropped \cup web.curl \cup Elements(web.tasks)
    BY <1>2, <1>7 DEF End!WebEnds
  <2>2. /\ DOMAIN web' = {"at", "mode", "tasks", "curl"} /\ web'.at = "gone"
        /\ web'.mode = web.mode /\ web'.tasks = <<>> /\ web'.curl = {}
    BY <1>0, <1>7 DEF WebTyped, End!WebEnds
  <2>3. WebTyped' /\ PipeTyped'
    BY <1>0, <1>1, <1>3, <2>1, <2>2 DEF WebTyped, PipeTyped, Places
  <2>4. EndTyped'
    BY <1>0, <1>2, <1>3, <2>1 DEF EndTyped, WebTyped
  <2>5. OnePlace'
    BY <1>0, <1>1, <1>3, <2>1, <2>2 DEF OnePlace, OneOf
  <2>6. CallsInOrder' /\ StepsInOrder'
    BY <1>0, <1>3, <2>1, <2>2 DEF CallsInOrder, StepsInOrder
  <2> QED
    BY <2>3, <2>4, <2>5, <2>6 DEF EndInv
<1> QED
  BY <1>4, <1>5, <1>6, <1>7 DEF End!WebSteps

-----------------------------------------------------------------------------
(* The two parts together. *)

LastInv == (part = "shutdown" => EndInv) /\ (part = "udp" => UdpInv)

\* No thread of a session that ends uses what is freed, or loses or repeats a last announce,
\* and a request by UDP is answered once (sessionCloseImpl, tr_webThreadFunc,
\* tau_announce_request_finished).
THEOREM NothingIsEverLostAtTheEnd == Spec => []NothingIsLostAtTheEnd
<1>1. Init => LastInv
  <2> SUFFICES ASSUME Init PROVE LastInv
    OBVIOUS
  <2>1. part = "shutdown" => End!Init
    BY DEF Init
  <2>2. part = "udp" => Udp!Init
    BY DEF Init
  <2> QED
    BY <2>1, <2>2, EndFirst, UdpFirst DEF LastInv
<1>2. LastInv /\ [Next]_vars => LastInv'
  <2> SUFFICES ASSUME LastInv, [Next]_vars PROVE LastInv'
    OBVIOUS
  <2>1. UNCHANGED part
    BY DEF Next, vars, SettingsOnly, TurtleOnly, BandOnly, MapOnly, UdpOnly, EndOnly, LpdOnly, DhtOnly, FindOnly
  <2>2. ASSUME part = "shutdown" PROVE EndInv'
    <3>1. EndInv
      BY <2>2 DEF LastInv
    <3>2. End!Next \/ UNCHANGED endVars
      BY <2>2 DEF Next, vars, UdpOnly, EndOnly, DhtOnly
    <3>3. CASE End!Next
      BY <3>1, <3>3, CallerKeeps, EventKeeps, WebKeeps DEF End!Next
    <3>4. CASE UNCHANGED endVars
      BY <3>1, <3>4 DEF endVars, EndInv, WebTyped, PipeTyped, EndTyped, OnePlace, CallsInOrder, StepsInOrder
    <3> QED
      BY <3>2, <3>3, <3>4
  <2>3. ASSUME part = "udp" PROVE UdpInv'
    <3>1. UdpInv
      BY <2>3 DEF LastInv
    <3>2. Udp!Next \/ UNCHANGED udpVars
      BY <2>3 DEF Next, vars, UdpOnly, EndOnly, DhtOnly
    <3>3. CASE Udp!Next
      BY <3>1, <3>3, UdpNext
    <3>4. CASE UNCHANGED udpVars
      <4>1. UNCHANGED <<tracker, request, told>>
        BY <3>4 DEF udpVars
      <4>2. (Udp!Here)' = Udp!Here
        BY <4>1 DEF Udp!Here
      <4> QED
        BY <3>1, <4>2 DEF UdpInv, Sound
    <3> QED
      BY <3>2, <3>3, <3>4
  <2> QED
    BY <2>1, <2>2, <2>3 DEF LastInv
<1>3. LastInv => NothingIsLostAtTheEnd
  BY EndIsSound, UdpIsSound DEF LastInv, NothingIsLostAtTheEnd
<1> QED
  BY <1>1, <1>2, <1>3, PTL DEF Spec

-----------------------------------------------------------------------------
(* The settings. *)

\* How often a call is in the queue.
Occurs(x, s) == Cardinality({i \in DOMAIN s : s[i] = x})

\* No call, or some.
LEMMA OccursOfSeq ==
  ASSUME NEW S, NEW s \in Seq(S), NEW x
  PROVE  Occurs(x, s) \in Nat /\ (Occurs(x, s) = 0 <=> \A i \in DOMAIN s : s[i] # x)
<1> DEFINE I == {i \in 1 .. Len(s) : s[i] = x}
<1>1. Len(s) \in Nat /\ DOMAIN s = 1 .. Len(s)
  OBVIOUS
<1>2. Occurs(x, s) = Cardinality(I)
  BY <1>1 DEF Occurs
<1>3. IsFiniteSet(I)
  <2>1. IsFiniteSet(1 .. Len(s)) /\ I \in SUBSET (1 .. Len(s))
    BY <1>1, FS_Interval
  <2> QED
    BY <2>1, FS_Subset
<1>4. Cardinality(I) \in Nat /\ (Cardinality(I) = 0 <=> I = {})
  BY <1>3, FS_CardinalityType, FS_EmptySet
<1> QED
  BY <1>1, <1>2, <1>4

\* One more call.
LEMMA OccursAppend ==
  ASSUME NEW S, NEW s \in Seq(S), NEW e \in S, NEW x
  PROVE  /\ Occurs(x, s) \in Nat
         /\ Occurs(x, Append(s, e)) = IF e = x THEN Occurs(x, s) + 1 ELSE Occurs(x, s)
<1> DEFINE n == Len(s)
           u == Append(s, e)
           I == {i \in 1 .. n : s[i] = x}
           J == {i \in 1 .. n + 1 : u[i] = x}
<1>1. /\ n \in Nat /\ DOMAIN s = 1 .. n /\ DOMAIN u = 1 .. n + 1
      /\ \A i \in 1 .. n : u[i] = s[i]
      /\ u[n + 1] = e
  OBVIOUS
<1>2. Occurs(x, s) = Cardinality(I) /\ Occurs(x, u) = Cardinality(J)
  BY <1>1 DEF Occurs
<1> HIDE DEF n, u
<1>3. IsFiniteSet(I)
  <2>1. IsFiniteSet(1 .. n)
    BY <1>1, FS_Interval
  <2> QED
    BY <2>1, FS_Subset
<1>4. Cardinality(I) \in Nat /\ (Cardinality(I) = 0 <=> I = {})
  BY <1>3, FS_CardinalityType, FS_EmptySet
<1>5. J = IF e = x THEN I \cup {n + 1} ELSE I
  BY <1>1
<1>6. n + 1 \notin I
  BY <1>1
<1>7. Cardinality(J) = IF e = x THEN Cardinality(I) + 1 ELSE Cardinality(I)
  BY <1>3, <1>5, <1>6, FS_AddElement
<1> QED
  BY <1>1, <1>2, <1>4, <1>7 DEF u

\* One call less.
LEMMA OccursTail ==
  ASSUME NEW S, NEW s \in Seq(S), s # <<>>, NEW x
  PROVE  /\ Head(s) \in S /\ Tail(s) \in Seq(S)
         /\ Occurs(x, s) \in Nat /\ Occurs(x, Tail(s)) \in Nat
         /\ Occurs(x, s) = IF Head(s) = x THEN Occurs(x, Tail(s)) + 1 ELSE Occurs(x, Tail(s))
<1> DEFINE n == Len(s) - 1
           u == Tail(s)
           I == {i \in 1 .. n : u[i] = x}
           K == {i \in 2 .. n + 1 : s[i] = x}
           J == {i \in 1 .. n + 1 : s[i] = x}
<1>1. /\ n \in Nat /\ DOMAIN s = 1 .. n + 1 /\ DOMAIN u = 1 .. n /\ Head(s) = s[1]
      /\ s[1] \in S /\ u \in Seq(S)
  OBVIOUS
<1>1a. \A i \in 1 .. n : u[i] = s[i + 1]
  OBVIOUS
<1>2. Occurs(x, u) = Cardinality(I) /\ Occurs(x, s) = Cardinality(J)
  BY <1>1 DEF Occurs
<1> HIDE DEF n, u
<1>3. IsFiniteSet(I) /\ Cardinality(I) \in Nat
  <2>1. IsFiniteSet(1 .. n)
    BY <1>1, FS_Interval
  <2> QED
    BY <2>1, FS_Subset, FS_CardinalityType
<1>4. ExistsBijection(I, K)
  <2> DEFINE f == [i \in I |-> i + 1]
  <2>1. f \in [I -> K]
    BY <1>1, <1>1a
  <2>2. \A i, j \in I : f[i] = f[j] => i = j
    BY <1>1
  <2>3. \A k \in K : \E i \in I : f[i] = k
    <3> SUFFICES ASSUME NEW k \in K PROVE \E i \in I : f[i] = k
      OBVIOUS
    <3>1. k - 1 \in 1 .. n /\ (k - 1) + 1 = k /\ u[k - 1] = x
      BY <1>1, <1>1a
    <3> QED
      BY <3>1
  <2> HIDE DEF f
  <2>4. f \in Bijection(I, K)
    BY <2>1, <2>2, <2>3 DEF Bijection, Injection, Surjection, IsInjective
  <2> QED
    BY <2>4 DEF ExistsBijection
<1>5. IsFiniteSet(K) /\ Cardinality(K) = Cardinality(I)
  BY <1>3, <1>4, FS_Bijection
<1>6. J = IF s[1] = x THEN K \cup {1} ELSE K
  BY <1>1
<1>7. 1 \notin K
  OBVIOUS
<1>8. Cardinality(J) = IF s[1] = x THEN Cardinality(K) + 1 ELSE Cardinality(K)
  BY <1>5, <1>6, <1>7, FS_AddElement
<1> HIDE DEF I, J, K
<1>9. /\ Occurs(x, s) \in Nat /\ Occurs(x, u) \in Nat
      /\ Occurs(x, s) = IF s[1] = x THEN Occurs(x, u) + 1 ELSE Occurs(x, u)
  BY <1>2, <1>3, <1>5, <1>8
<1> QED
  BY <1>1, <1>9 DEF u

\* A number and the next are not both even.
LEMMA Parity ==
  ASSUME NEW n \in Nat
  PROVE  (n + 1) % 2 = 0 <=> ~(n % 2 = 0)
OBVIOUS

\* A flag after the calls for it that are posted.
After(f) == IF Occurs(f, queue) % 2 = 0 THEN enabled[f] ELSE ~enabled[f]

SetTyped ==
  /\ enabled \in [Flags -> BOOLEAN] /\ boxes \in [Flags -> BOOLEAN]
  /\ port \in [asked : Ports, bound : Ports] /\ queue \in Seq(Posted \cup {"port"})
  /\ wanted \in [enabled : [Flags -> BOOLEAN], port : Ports]
  /\ file \in [enabled : [Flags -> BOOLEAN], port : Ports]
  /\ saved \in [enabled : [Flags -> BOOLEAN], port : Ports]
  /\ missed \subseteq {"flag", "box", "file"} \X Flags

FlagIsHonoured(f) ==
  /\ <<"flag", f>> \in missed \/ <<"box", f>> \in missed \/ wanted.enabled[f] = After(f)
  /\ <<"box", f>> \in missed \/ boxes[f] = wanted.enabled[f]
  /\ <<"file", f>> \in missed \/ file.enabled[f] = saved.enabled[f]
PortIsHonoured ==
  /\ port.asked = wanted.port /\ file.port = saved.port
  /\ (\E i \in DOMAIN queue : queue[i] = "port") \/ port.bound = port.asked

SetInv == SetTyped /\ PortIsHonoured /\ \A f \in Flags : FlagIsHonoured(f)

\* The settings as they are loaded.
LEMMA SetFirst ==
  ASSUME Set!Init
  PROVE  SetInv
<1>1. file \in [enabled : [Flags -> BOOLEAN], port : Ports]
  BY SettingsAssumption DEF Set!Init
<1>2. /\ enabled = file.enabled /\ boxes = enabled /\ wanted = file /\ saved = file /\ missed = {}
      /\ port = [asked |-> file.port, bound |-> file.port] /\ queue = <<>>
  BY DEF Set!Init, Set!Shown
<1>3. SetTyped
  BY <1>1, <1>2 DEF SetTyped
<1>4. PortIsHonoured
  BY <1>2 DEF PortIsHonoured
<1>5. ASSUME NEW f \in Flags PROVE FlagIsHonoured(f)
  <2>1. Occurs(f, queue) = 0
    <3>1. {i \in DOMAIN queue : queue[i] = f} = {}
      BY <1>2
    <3> QED
      BY <3>1, FS_EmptySet DEF Occurs
  <2> QED
    BY <1>2, <2>1 DEF FlagIsHonoured, After
<1> QED
  BY <1>3, <1>4, <1>5 DEF SetInv

\* The invariant holds what the properties say.
LEMMA SetIsSound ==
  ASSUME SetInv
  PROVE  Set!TypeOK /\ Set!RequestsAreHonoured /\ Set!PortIsBound /\ Set!FileIsTrue
<1>1. \A f \in Flags : Set!Pending(f) = Occurs(f, queue)
  BY DEF Set!Pending, Set!Cardinality, Cardinality, Occurs
<1>2. Set!TypeOK
  BY DEF SetInv, SetTyped, Set!TypeOK
<1>3. Set!RequestsAreHonoured
  BY <1>1 DEF SetInv, FlagIsHonoured, After, Set!RequestsAreHonoured, Set!IsMissed
<1>4. Set!PortIsBound
  BY DEF SetInv, PortIsHonoured, Set!PortIsBound, Set!IsPosted
<1>5. Set!FileIsTrue
  BY DEF SetInv, PortIsHonoured, FlagIsHonoured, Set!FileIsTrue
<1> QED
  BY <1>2, <1>3, <1>4, <1>5

\* What a step does to a flag depends on what it does to the flag's own state.
LEMMA SameFlag ==
  ASSUME NEW f \in Flags, FlagIsHonoured(f),
         missed \subseteq missed', Occurs(f, queue)' = Occurs(f, queue), enabled'[f] = enabled[f],
         wanted'.enabled[f] = wanted.enabled[f], boxes'[f] = boxes[f],
         file'.enabled[f] = file.enabled[f], saved'.enabled[f] = saved.enabled[f]
  PROVE  FlagIsHonoured(f)'
BY DEF FlagIsHonoured, After

\* A step of the settings.
LEMMA SetNext ==
  ASSUME SetInv, Set!Step
  PROVE  SetInv'
<1> DEFINE All == [enabled : [Flags -> BOOLEAN], port : Ports]
<1>0. SetTyped /\ PortIsHonoured /\ \A f \in Flags : FlagIsHonoured(f)
  BY DEF SetInv
<1>1. ASSUME NEW f \in Flags, Set!Click(f) PROVE SetInv'
  <2> DEFINE new == ~boxes[f]
  <2>1. /\ boxes' = [boxes EXCEPT ![f] = new] /\ wanted' = [wanted EXCEPT !.enabled[f] = new]
        /\ UNCHANGED <<port, file, saved, missed>>
        /\ \/ f \in Posted /\ queue' = Append(queue, f) /\ UNCHANGED enabled
           \/ f \notin Posted /\ enabled' = [enabled EXCEPT ![f] = ~enabled[f]] /\ UNCHANGED queue
    BY <1>1 DEF Set!Click, Set!Toggled
  <2>2. /\ wanted' \in All /\ wanted'.port = wanted.port /\ wanted'.enabled[f] = new
        /\ \A g \in Flags \ {f} : wanted'.enabled[g] = wanted.enabled[g]
    BY <1>0, <2>1 DEF SetTyped
  <2>3. /\ boxes' \in [Flags -> BOOLEAN] /\ boxes'[f] = new
        /\ \A g \in Flags \ {f} : boxes'[g] = boxes[g]
    BY <1>0, <2>1 DEF SetTyped
  <2>4. /\ queue' \in Seq(Posted \cup {"port"}) /\ enabled' \in [Flags -> BOOLEAN]
        /\ \A g \in Flags \ {f} : enabled'[g] = enabled[g]
    <3>1. queue \in Seq(Posted \cup {"port"}) /\ enabled \in [Flags -> BOOLEAN]
      BY <1>0 DEF SetTyped
    <3>2. f \in Posted => Append(queue, f) \in Seq(Posted \cup {"port"})
      BY <3>1
    <3> QED
      BY <2>1, <3>1, <3>2
  <2>5. SetTyped'
    BY <1>0, <2>1, <2>2, <2>3, <2>4 DEF SetTyped
  <2>6. PortIsHonoured'
    <3>1. (\E i \in DOMAIN queue : queue[i] = "port") => \E i \in DOMAIN queue' : queue'[i] = "port"
      <4> SUFFICES ASSUME NEW i \in DOMAIN queue, queue[i] = "port"
                   PROVE  i \in DOMAIN queue' /\ queue'[i] = "port"
        OBVIOUS
      <4>1. queue \in Seq(Posted \cup {"port"})
        BY <1>0 DEF SetTyped
      <4>2. i \in DOMAIN Append(queue, f) /\ Append(queue, f)[i] = queue[i]
        BY <4>1
      <4> QED
        BY <2>1, <4>2
    <3> QED
      BY <1>0, <2>1, <2>2, <3>1 DEF PortIsHonoured
  <2>7. \A g \in Flags : /\ Occurs(g, queue) \in Nat
                         /\ Occurs(g, queue') = IF g = f /\ f \in Posted THEN Occurs(g, queue) + 1 ELSE Occurs(g, queue)
    <3>1. queue \in Seq(Posted \cup {"port"}) /\ "port" \in Posted \cup {"port"}
      BY <1>0 DEF SetTyped
    <3>2. \A g : Occurs(g, queue) \in Nat
      BY <3>1, OccursAppend
    <3>3. CASE f \in Posted
      <4>1. \A g : Occurs(g, Append(queue, f)) = IF f = g THEN Occurs(g, queue) + 1 ELSE Occurs(g, queue)
        BY <3>1, <3>3, OccursAppend
      <4> QED
        BY <2>1, <3>2, <3>3, <4>1
    <3>4. CASE f \notin Posted
      BY <2>1, <3>2, <3>4
    <3> QED
      BY <3>3, <3>4
  <2>8. ASSUME NEW g \in Flags \ {f} PROVE FlagIsHonoured(g)'
    <3>1. FlagIsHonoured(g) /\ Occurs(g, queue') = Occurs(g, queue)
      BY <1>0, <2>7
    <3> QED
      BY <2>1, <2>2, <2>3, <2>4, <3>1, SameFlag
  <2>9. FlagIsHonoured(f)'
    <3> HIDE DEF new
    <3>1. ASSUME <<"flag", f>> \notin missed, <<"box", f>> \notin missed PROVE new = After(f)'
      <4>1. wanted.enabled[f] = After(f) /\ boxes[f] = wanted.enabled[f] /\ boxes[f] \in BOOLEAN
        BY <1>0, <3>1 DEF FlagIsHonoured, SetTyped
      <4>2. After(f) \in BOOLEAN /\ new = ~After(f)
        BY <4>1 DEF new
      <4>3. CASE f \in Posted
        <5>1. Occurs(f, queue') = Occurs(f, queue) + 1 /\ UNCHANGED enabled
          BY <2>1, <2>7, <4>3
        <5>2. Occurs(f, queue') % 2 = 0 <=> ~(Occurs(f, queue) % 2 = 0)
          BY <2>7, <5>1, Parity
        <5>3. enabled[f] \in BOOLEAN /\ enabled'[f] = enabled[f]
          BY <1>0, <5>1 DEF SetTyped
        <5> QED
          BY <4>2, <5>2, <5>3 DEF After
      <4>4. CASE f \notin Posted
        <5>1. Occurs(f, queue') = Occurs(f, queue) /\ enabled'[f] = ~enabled[f] /\ enabled[f] \in BOOLEAN
          BY <1>0, <2>1, <2>7, <4>4 DEF SetTyped
        <5> QED
          BY <4>2, <5>1 DEF After
      <4> QED
        BY <4>3, <4>4
    <3> QED
      BY <1>0, <2>1, <2>2, <2>3, <3>1 DEF FlagIsHonoured
  <2> QED
    BY <2>5, <2>6, <2>8, <2>9 DEF SetInv
<1>2. ASSUME NEW f \in Flags, NEW v \in BOOLEAN, Set!RpcSet(f, v) PROVE SetInv'
  <2>1. /\ enabled' = Set!RpcFlag(f, v) /\ wanted' = [wanted EXCEPT !.enabled[f] = v]
        /\ UNCHANGED <<port, queue, boxes, file, saved>>
        /\ missed' = missed \cup (IF boxes[f] # v THEN {<<"box", f>>} ELSE {})
                            \cup (IF Set!IsPosted(f) THEN {<<"flag", f>>} ELSE {})
    BY <1>2 DEF Set!RpcSet
  <2>2. /\ enabled' \in [Flags -> BOOLEAN] /\ enabled'[f] = v
        /\ \A g \in Flags \ {f} : enabled'[g] = enabled[g]
    BY <1>0, <2>1 DEF SetTyped, Set!RpcFlag, Set!Toggled
  <2>3. /\ wanted' \in All /\ wanted'.port = wanted.port /\ wanted'.enabled[f] = v
        /\ \A g \in Flags \ {f} : wanted'.enabled[g] = wanted.enabled[g]
    BY <1>0, <2>1 DEF SetTyped
  <2>4. missed \subseteq missed' /\ missed' \subseteq {"flag", "box", "file"} \X Flags
    BY <1>0, <2>1 DEF SetTyped
  <2>5. SetTyped'
    BY <1>0, <2>1, <2>2, <2>3, <2>4 DEF SetTyped
  <2>6. PortIsHonoured'
    BY <1>0, <2>1, <2>3 DEF PortIsHonoured
  <2>7. ASSUME NEW g \in Flags \ {f} PROVE FlagIsHonoured(g)'
    BY <1>0, <2>1, <2>2, <2>3, <2>4, SameFlag
  <2>8. FlagIsHonoured(f)'
    <3>1. <<"flag", f>> \notin missed' => Occurs(f, queue) = 0
      <4>1. <<"flag", f>> \notin missed' => \A i \in DOMAIN queue : queue[i] # f
        BY <2>1 DEF Set!IsPosted
      <4> QED
        BY <1>0, <4>1, OccursOfSeq DEF SetTyped
    <3>2. <<"flag", f>> \notin missed' => After(f)' = v
      BY <2>1, <2>2, <3>1 DEF After
    <3>3. <<"box", f>> \notin missed' => boxes'[f] = v
      BY <2>1
    <3> QED
      BY <1>0, <2>1, <2>3, <2>4, <3>2, <3>3 DEF FlagIsHonoured
  <2> QED
    BY <2>5, <2>6, <2>7, <2>8 DEF SetInv
<1>3. ASSUME NEW p \in Ports, Set!SetPort(p) PROVE SetInv'
  <2>1. /\ port' = [port EXCEPT !.asked = p] /\ wanted' = [wanted EXCEPT !.port = p]
        /\ queue' = Append(queue, "port") /\ UNCHANGED <<enabled, boxes, file, saved, missed>>
    BY <1>3 DEF Set!SetPort
  <2>2. /\ wanted' \in All /\ wanted'.port = p /\ wanted'.enabled = wanted.enabled
        /\ port' \in [asked : Ports, bound : Ports] /\ port'.asked = p
    BY <1>0, <2>1 DEF SetTyped
  <2>3. queue' \in Seq(Posted \cup {"port"}) /\ \E i \in DOMAIN queue' : queue'[i] = "port"
    <3>1. queue \in Seq(Posted \cup {"port"})
      BY <1>0 DEF SetTyped
    <3>2. /\ Len(queue) + 1 \in DOMAIN Append(queue, "port") /\ Append(queue, "port")[Len(queue) + 1] = "port"
          /\ Append(queue, "port") \in Seq(Posted \cup {"port"})
      BY <3>1
    <3> QED
      BY <2>1, <3>2
  <2>4. SetTyped'
    BY <1>0, <2>1, <2>2, <2>3 DEF SetTyped
  <2>5. PortIsHonoured'
    BY <1>0, <2>1, <2>2, <2>3 DEF PortIsHonoured
  <2>6. ASSUME NEW f \in Flags PROVE FlagIsHonoured(f)'
    <3>1. Occurs(f, queue') = Occurs(f, queue)
      <4>1. queue \in Seq(Posted \cup {"port"}) /\ "port" \in Posted \cup {"port"} /\ f # "port"
        BY <1>0, SettingsAssumption DEF SetTyped
      <4> QED
        BY <2>1, <4>1, OccursAppend
    <3> QED
      BY <1>0, <2>1, <2>2, <3>1, SameFlag
  <2> QED
    BY <2>4, <2>5, <2>6 DEF SetInv
<1>4. ASSUME NEW p \in Ports, Set!RpcPort(p) PROVE SetInv'
  <2>1. /\ port' = [asked |-> p, bound |-> p] /\ wanted' = [wanted EXCEPT !.port = p]
        /\ UNCHANGED <<enabled, queue, boxes, file, saved, missed>>
    BY <1>4 DEF Set!RpcPort
  <2>2. wanted' \in All /\ wanted'.port = p /\ wanted'.enabled = wanted.enabled
    BY <1>0, <2>1 DEF SetTyped
  <2>3. SetTyped'
    BY <1>0, <2>1, <2>2 DEF SetTyped
  <2>4. PortIsHonoured'
    BY <1>0, <2>1, <2>2 DEF PortIsHonoured
  <2>5. ASSUME NEW f \in Flags PROVE FlagIsHonoured(f)'
    BY <1>0, <2>1, <2>2, SameFlag
  <2> QED
    BY <2>3, <2>4, <2>5 DEF SetInv
<1>5. CASE Set!Save
  <2>1. /\ file' = [enabled |-> enabled, port |-> port.asked] /\ saved' = wanted
        /\ UNCHANGED <<enabled, port, queue, boxes, wanted>>
        /\ missed' = {m \in missed : m[1] # "file"} \cup
                     {<<"file", f>> : f \in {g \in Flags : Set!IsPosted(g) \/ Set!IsMissed(g)}}
    BY <1>5 DEF Set!Save
  <2>2. missed' \subseteq {"flag", "box", "file"} \X Flags
    BY <1>0, <2>1 DEF SetTyped
  <2>3. SetTyped'
    BY <1>0, <2>1, <2>2 DEF SetTyped
  <2>4. PortIsHonoured'
    BY <1>0, <2>1 DEF PortIsHonoured
  <2>5. ASSUME NEW f \in Flags PROVE FlagIsHonoured(f)'
    <3>1. /\ <<"flag", f>> \in missed => <<"flag", f>> \in missed'
          /\ <<"box", f>> \in missed => <<"box", f>> \in missed'
      BY <2>1
    <3>2. ASSUME <<"file", f>> \notin missed' PROVE file'.enabled[f] = saved'.enabled[f]
      <4>1. ~Set!IsPosted(f) /\ ~Set!IsMissed(f)
        BY <2>1, <3>2
      <4>2. <<"flag", f>> \notin missed /\ <<"box", f>> \notin missed /\ \A i \in DOMAIN queue : queue[i] # f
        BY <4>1 DEF Set!IsPosted, Set!IsMissed
      <4>3. Occurs(f, queue) = 0
        BY <1>0, <4>2, OccursOfSeq DEF SetTyped
      <4>4. wanted.enabled[f] = enabled[f]
        <5>1. wanted.enabled[f] = After(f)
          BY <1>0, <4>2 DEF FlagIsHonoured
        <5>2. After(f) = enabled[f]
          BY <4>3 DEF After
        <5> QED
          BY <5>1, <5>2
      <4> QED
        BY <2>1, <4>4
    <3>3. After(f)' = After(f)
      BY <2>1 DEF After
    <3> QED
      BY <1>0, <2>1, <3>1, <3>2, <3>3 DEF FlagIsHonoured
  <2> QED
    BY <2>3, <2>4, <2>5 DEF SetInv
<1>6. CASE Set!Run
  <2>1. /\ queue # <<>> /\ queue' = Tail(queue) /\ UNCHANGED <<boxes, file, wanted, saved, missed>>
        /\ \/ Head(queue) \in Flags /\ enabled' = [enabled EXCEPT ![Head(queue)] = ~enabled[Head(queue)]] /\ UNCHANGED port
           \/ Head(queue) = "port" /\ port' = [port EXCEPT !.bound = port.asked] /\ UNCHANGED enabled
    BY <1>6 DEF Set!Run, Set!RunToggle, Set!RunPort, Set!Toggled, Set!peerPortChanged
  <2>2. queue \in Seq(Posted \cup {"port"})
    BY <1>0 DEF SetTyped
  <2>3. /\ queue' \in Seq(Posted \cup {"port"})
        /\ \A x : /\ Occurs(x, queue) \in Nat /\ Occurs(x, queue') \in Nat
                  /\ Occurs(x, queue) = IF Head(queue) = x THEN Occurs(x, queue') + 1 ELSE Occurs(x, queue')
    BY <2>1, <2>2, OccursTail
  <2>4. SetTyped'
    BY <1>0, <2>1, <2>3 DEF SetTyped
  <2>5. PortIsHonoured'
    <3>1. CASE Head(queue) = "port"
      BY <1>0, <2>1, <3>1, SettingsAssumption DEF SetTyped, PortIsHonoured
    <3>2. CASE Head(queue) # "port"
      <4>1. UNCHANGED port /\ Occurs("port", queue') = Occurs("port", queue)
        BY <2>1, <2>3, <3>2
      <4>2. (\E i \in DOMAIN queue : queue[i] = "port") => Occurs("port", queue) # 0
        BY <2>2, OccursOfSeq
      <4>3. Occurs("port", queue') # 0 => \E i \in DOMAIN queue' : queue'[i] = "port"
        BY <2>3, OccursOfSeq
      <4> QED
        BY <1>0, <2>1, <4>1, <4>2, <4>3 DEF PortIsHonoured
    <3> QED
      BY <3>1, <3>2
  <2>6. ASSUME NEW f \in Flags PROVE FlagIsHonoured(f)'
    <3>1. CASE Head(queue) # f
      <4>1. Occurs(f, queue') = Occurs(f, queue) /\ enabled'[f] = enabled[f]
        BY <1>0, <2>1, <2>3, <3>1 DEF SetTyped
      <4> QED
        BY <1>0, <2>1, <4>1, SameFlag
    <3>2. CASE Head(queue) = f
      <4>1. Occurs(f, queue) = Occurs(f, queue') + 1 /\ Occurs(f, queue') \in Nat
        BY <2>3, <3>2
      <4>2. Occurs(f, queue) % 2 = 0 <=> ~(Occurs(f, queue') % 2 = 0)
        BY <4>1, Parity
      <4>3. enabled'[f] = ~enabled[f] /\ enabled[f] \in BOOLEAN
        BY <1>0, <2>1, <3>2, SettingsAssumption DEF SetTyped
      <4>4. After(f)' = After(f)
        BY <4>2, <4>3 DEF After
      <4> QED
        BY <1>0, <2>1, <4>4 DEF FlagIsHonoured
    <3> QED
      BY <3>1, <3>2
  <2> QED
    BY <2>4, <2>5, <2>6 DEF SetInv
<1>7. CASE Set!Restart
  <2>1. /\ enabled' = file.enabled /\ boxes' = enabled' /\ port' = [asked |-> file.port, bound |-> file.port]
        /\ queue' = <<>> /\ wanted' = file /\ UNCHANGED <<file, saved>>
        /\ missed' = {m \in missed : m[1] = "file"}
    BY <1>7 DEF Set!Restart, Set!Shown
  <2>2. SetTyped'
    BY <1>0, <2>1 DEF SetTyped
  <2>3. PortIsHonoured'
    BY <1>0, <2>1 DEF PortIsHonoured
  <2>4. ASSUME NEW f \in Flags PROVE FlagIsHonoured(f)'
    <3>1. Occurs(f, queue') = 0
      <4>1. {i \in DOMAIN queue' : queue'[i] = f} = {}
        BY <2>1
      <4> QED
        BY <4>1, FS_EmptySet DEF Occurs
    <3>2. <<"file", f>> \in missed => <<"file", f>> \in missed'
      BY <2>1
    <3>3. After(f)' = file.enabled[f]
      BY <2>1, <3>1 DEF After
    <3> QED
      BY <1>0, <2>1, <3>2, <3>3 DEF FlagIsHonoured
  <2> QED
    BY <2>2, <2>3, <2>4 DEF SetInv
<1> QED
  BY <1>1, <1>2, <1>3, <1>4, <1>5, <1>6, <1>7 DEF Set!Step

-----------------------------------------------------------------------------
(* The bandwidth. *)

\* What is slowed down is no more than it was.
LEMMA SlowedIsLess ==
  ASSUME NEW n \in Nat, NEW pace \in 0 .. 100
  PROVE  Band!Slowed(n, pace) \in 0 .. n
<1>1. n * pace \in Nat /\ n * pace <= n * 100
  <2>1. n * (100 - pace) >= 0
    OBVIOUS
  <2>2. n * (100 - pace) = n * 100 - n * pace
    OBVIOUS
  <2> QED
    BY <2>1, <2>2
<1> DEFINE m == n * pace
<1> HIDE DEF m
<1>2. m \in Nat /\ m <= n * 100
  BY <1>1 DEF m
<1>3. m \div 100 \in 0 .. n
  BY <1>2
<1> QED
  BY <1>3 DEF m, Band!Slowed

BandTyped ==
  /\ band \in [{"session", "t"} -> [limited : BOOLEAN, desired : Limits, left : Nat]]
  /\ honor \in [{"t"} -> BOOLEAN] /\ out \in [Peers -> Seq(BOOLEAN)]
  /\ ready \subseteq Peers
  /\ DOMAIN turn = {"list", "todo"} /\ turn.todo \subseteq Peers
  /\ granted \in [{"session", "t"} -> Nat] /\ used \in [{"session", "t"} -> Nat]

LimitKept(n) == band[n].limited => used[n] + band[n].left <= granted[n]
BandInv == BandTyped /\ LimitKept("session") /\ LimitKept("t")

Pace == [{"session", "t"} -> 0 .. 100]

\* What a peer may send is no more than the bands that bound it have left.
LEMMA ClampBounds ==
  ASSUME BandTyped, NEW p \in Peers, NEW count \in Nat, NEW pace \in Pace
  PROVE  /\ Band!Clamp(p, count, pace) \in 0 .. count
         /\ band["t"].limited => Band!Clamp(p, count, pace) <= band["t"].left
         /\ honor["t"] /\ band["session"].limited => Band!Clamp(p, count, pace) <= band["session"].left
<1>1. ASSUME NEW c \in Nat, NEW n \in {"session", "t"}
      PROVE  /\ Band!Bounded(c, n, pace[n]) \in 0 .. c
             /\ band[n].limited => Band!Bounded(c, n, pace[n]) <= band[n].left
  <2>1. band[n].left \in Nat /\ pace[n] \in 0 .. 100
    BY DEF BandTyped, Pace
  <2> DEFINE m == Band!Least(c, band[n].left)
  <2>2. m \in Nat /\ m <= c /\ m <= band[n].left
    BY <2>1 DEF Band!Least
  <2> HIDE DEF m
  <2>3. Band!Slowed(m, pace[n]) \in 0 .. m
    BY <2>1, <2>2, SlowedIsLess
  <2>4. Band!Bounded(c, n, pace[n]) = IF band[n].limited THEN Band!Slowed(m, pace[n]) ELSE c
    BY DEF Band!Bounded, m
  <2> QED
    BY <2>1, <2>2, <2>3, <2>4
<1>2. TorrentOf[p] = "t"
  BY BandwidthAssumption
<1> DEFINE own == Band!Bounded(count, "t", pace["t"])
           both == Band!Bounded(own, "session", pace["session"])
<1>3. own \in 0 .. count /\ (band["t"].limited => own <= band["t"].left)
  BY <1>1
<1>4. Band!Clamp(p, count, pace) = IF honor["t"] THEN both ELSE own
  BY <1>2 DEF Band!Clamp
<1> HIDE DEF own
<1>5. own \in Nat
  BY <1>3
<1>6. both \in 0 .. own /\ (band["session"].limited => both <= band["session"].left)
  BY <1>1, <1>5
<1> HIDE DEF both
<1>7. band["t"].left \in Nat /\ band["session"].left \in Nat
  BY DEF BandTyped
<1> QED
  BY <1>3, <1>4, <1>5, <1>6, <1>7

\* What is sent is charged to the bands that bound the peer, which have it left.
LEMMA WroteKeeps ==
  ASSUME BandInv, NEW p \in Peers, NEW n \in Nat, Band!Wrote(p, n),
         band["t"].limited => n <= band["t"].left,
         honor["t"] /\ band["session"].limited => n <= band["session"].left
  PROVE  /\ band' \in [{"session", "t"} -> [limited : BOOLEAN, desired : Limits, left : Nat]]
         /\ used' \in [{"session", "t"} -> Nat] /\ out' \in [Peers -> Seq(BOOLEAN)]
         /\ granted' = granted => LimitKept("session")' /\ LimitKept("t")'
<1> DEFINE data == Band!PieceData(p, n)
<1>1. data \in 0 .. n
  <2>1. data = Cardinality({i \in 1 .. n : out[p][i]})
    BY DEF Band!PieceData, Band!Cardinality, Cardinality
  <2>2. IsFiniteSet(1 .. n) /\ Cardinality(1 .. n) = n
    BY FS_Interval
  <2>3. {i \in 1 .. n : out[p][i]} \in SUBSET (1 .. n)
    OBVIOUS
  <2> QED
    BY <2>1, <2>2, <2>3, FS_Subset, FS_CardinalityType
<1> HIDE DEF data
<1>2. TorrentOf[p] = "t" /\ Band!Told(p) = {"t", "session"}
  BY BandwidthAssumption DEF Band!Told
<1>3. /\ "t" \in Band!Bounding(p)
      /\ "session" \in Band!Bounding(p) <=> honor["t"]
  BY <1>2 DEF Band!Bounding
<1>4. Band!Bands = {"session", "t"}
  BY DEF Band!Bands
<1> DEFINE B == {"session", "t"}
           State == [limited : BOOLEAN, desired : Limits, left : Nat]
<1>5. /\ band \in [B -> State] /\ used \in [B -> Nat] /\ granted \in [B -> Nat] /\ out \in [Peers -> Seq(BOOLEAN)]
  BY DEF BandInv, BandTyped
<1>6. ASSUME NEW b \in B
      PROVE  /\ band'[b] \in State /\ band'[b].limited = band[b].limited
             /\ band'[b].left = IF band[b].limited THEN band[b].left - Band!Least(band[b].left, data) ELSE band[b].left
             /\ used'[b] = IF band[b].limited /\ b \in Band!Bounding(p) THEN used[b] + data ELSE used[b]
  <2>1. b \in Band!Told(p) /\ band[b] \in State /\ band[b].left \in Nat
    BY <1>2, <1>5
  <2>2. /\ band'[b] = IF band[b].limited THEN [band[b] EXCEPT !.left = band[b].left - Band!Least(band[b].left, data)] ELSE band[b]
        /\ used'[b] = IF band[b].limited /\ b \in Band!Bounding(p) THEN used[b] + data ELSE used[b]
    BY <1>4, <2>1 DEF Band!Wrote, data
  <2>3. band[b].left - Band!Least(band[b].left, data) \in Nat
    BY <1>1, <2>1 DEF Band!Least
  <2> QED
    BY <2>1, <2>2, <2>3
<1>7. DOMAIN band' = B /\ DOMAIN used' = B /\ band' = [b \in B |-> band'[b]] /\ used' = [b \in B |-> used'[b]]
  BY <1>4 DEF Band!Wrote
<1>8. band' \in [B -> State]
  BY <1>6, <1>7
<1>9. used' \in [B -> Nat]
  <2>1. \A b \in B : used'[b] \in Nat
    BY <1>1, <1>5, <1>6
  <2> QED
    BY <1>7, <2>1
<1>10. out' \in [Peers -> Seq(BOOLEAN)]
  <2>1. out[p] \in Seq(BOOLEAN)
    BY <1>5
  <2>2. SubSeq(out[p], n + 1, Len(out[p])) \in Seq(BOOLEAN)
    BY <2>1
  <2>3. out' = [out EXCEPT ![p] = SubSeq(out[p], n + 1, Len(out[p]))]
    BY DEF Band!Wrote
  <2> QED
    BY <1>5, <2>2, <2>3
<1>11. ASSUME granted' = granted, NEW b \in B, LimitKept(b), b \in Band!Bounding(p) /\ band[b].limited => n <= band[b].left
       PROVE  LimitKept(b)'
  <2> SUFFICES ASSUME band[b].limited PROVE used'[b] + band'[b].left <= granted[b]
    BY <1>6, <1>11 DEF LimitKept
  <2>1. band[b].left \in Nat /\ used[b] \in Nat /\ granted[b] \in Nat /\ used[b] + band[b].left <= granted[b]
    BY <1>5, <1>11 DEF LimitKept
  <2>2. CASE b \in Band!Bounding(p)
    <3>1. data <= band[b].left
      BY <1>1, <1>11, <2>1, <2>2
    <3>2. Band!Least(band[b].left, data) = data
      BY <1>1, <2>1, <3>1 DEF Band!Least
    <3> QED
      BY <1>1, <1>6, <2>1, <2>2, <3>2
  <2>3. CASE b \notin Band!Bounding(p)
    <3>1. Band!Least(band[b].left, data) \in Nat
      BY <1>1, <2>1 DEF Band!Least
    <3> QED
      BY <1>6, <2>1, <2>3, <3>1
  <2> QED
    BY <2>2, <2>3
<1> QED
  BY <1>3, <1>8, <1>9, <1>10, <1>11 DEF BandInv

\* The bands at first.
LEMMA BandFirst ==
  ASSUME Band!Init
  PROVE  BandInv
<1>1. Band!Bands = {"session", "t"}
  BY DEF Band!Bands
<1>2. /\ band \in [Band!Bands -> [limited : BOOLEAN, desired : Limits, left : Nat]]
      /\ \A n \in Band!Bands : band[n].left = 0
  <2>1. PICK l \in [Band!Bands -> BOOLEAN], d \in [Band!Bands -> Limits] :
          band = [n \in Band!Bands |-> [limited |-> l[n], desired |-> d[n], left |-> 0]]
    BY DEF Band!Init
  <2> QED
    BY <2>1
<1>3. /\ honor \in [{"t"} -> BOOLEAN] /\ out = [p \in Peers |-> <<>>] /\ ready = {}
      /\ turn = [list |-> "none", todo |-> {}]
      /\ granted = [n \in {"session", "t"} |-> 0] /\ used = [n \in {"session", "t"} |-> 0]
  BY <1>1 DEF Band!Init
<1>4. /\ band \in [{"session", "t"} -> [limited : BOOLEAN, desired : Limits, left : Nat]]
      /\ band["session"].left = 0 /\ band["t"].left = 0
  BY <1>1, <1>2
<1>5. out \in [Peers -> Seq(BOOLEAN)]
  BY <1>3
<1>6. BandTyped
  BY <1>3, <1>4, <1>5 DEF BandTyped
<1>7. LimitKept("session") /\ LimitKept("t")
  BY <1>3, <1>4 DEF LimitKept
<1> QED
  BY <1>6, <1>7 DEF BandInv

\* The invariant holds what the properties say.
LEMMA BandIsSound ==
  ASSUME BandInv
  PROVE  Band!TypeOK /\ Band!LimitIsKept
BY DEF BandInv, BandTyped, LimitKept, Band!TypeOK, Band!LimitIsKept, Band!Bands

\* What a peer may send before its piece data, and its turn.
LEMMA Leads ==
  ASSUME NEW s \in Seq(BOOLEAN)
  PROVE  Band!Leading(s) \in Nat
<1>1. CASE \E i \in DOMAIN s : s[i]
  <2> DEFINE I == {i \in 1 .. Len(s) : s[i]}
             Leader(i) == s[i] /\ \A j \in 1 .. i - 1 : ~s[j]
  <2>1. I \in SUBSET Nat /\ I # {} /\ DOMAIN s = 1 .. Len(s)
    BY <1>1
  <2>2. PICK m \in I : \A k \in I : m <= k
    BY <2>1, LeastNumber
  <2>3. \E i \in DOMAIN s : Leader(i)
    <3>1. m \in DOMAIN s /\ s[m] /\ m \in Nat /\ m <= Len(s)
      BY <2>1, <2>2
    <3>2. ASSUME NEW j \in 1 .. m - 1, s[j] PROVE FALSE
      <4>1. j \in I /\ ~(m <= j)
        BY <3>1, <3>2
      <4> QED
        BY <2>2, <4>1
    <3> QED
      BY <3>1, <3>2
  <2> DEFINE first == CHOOSE i \in DOMAIN s : Leader(i)
  <2>4. first \in DOMAIN s
    BY <2>3
  <2>5. Band!Leading(s) = first - 1
    BY <1>1 DEF Band!Leading
  <2> HIDE DEF first
  <2> QED
    BY <2>1, <2>4, <2>5
<1>2. CASE ~ \E i \in DOMAIN s : s[i]
  BY <1>2 DEF Band!Leading
<1> QED
  BY <1>1, <1>2

\* A peer sends.
LEMMA TriesToWrite ==
  ASSUME BandInv, NEW p \in Peers, NEW count \in Nat, NEW pace \in Pace, NEW sent \in Nat,
         Band!TryWrite(p, count, pace, sent), granted' = granted
  PROVE  /\ band' \in [{"session", "t"} -> [limited : BOOLEAN, desired : Limits, left : Nat]]
         /\ used' \in [{"session", "t"} -> Nat] /\ out' \in [Peers -> Seq(BOOLEAN)]
         /\ LimitKept("session")' /\ LimitKept("t")'
<1> DEFINE c == Band!Least(count, Len(out[p]))
           most == Band!Clamp(p, c, pace)
<1>1. c \in Nat
  BY DEF BandInv, BandTyped, Band!Least
<1>2. sent \in 0 .. most /\ Band!Wrote(p, sent)
  BY DEF Band!TryWrite
<1> HIDE DEF c
<1>3. /\ most \in 0 .. c
      /\ band["t"].limited => most <= band["t"].left
      /\ honor["t"] /\ band["session"].limited => most <= band["session"].left
  BY <1>1, ClampBounds DEF BandInv
<1> HIDE DEF most
<1>4. band["t"].left \in Nat /\ band["session"].left \in Nat /\ most \in Nat /\ sent <= most
  BY <1>1, <1>2, <1>3 DEF BandInv, BandTyped
<1>5. /\ band["t"].limited => sent <= band["t"].left
      /\ honor["t"] /\ band["session"].limited => sent <= band["session"].left
  BY <1>3, <1>4
<1> QED
  BY <1>2, <1>5, WroteKeeps

\* A step of the bandwidth.
LEMMA BandNext ==
  ASSUME BandInv, Band!Next
  PROVE  BandInv'
<1> DEFINE B == {"session", "t"}
           State == [limited : BOOLEAN, desired : Limits, left : Nat]
<1>0. BandTyped /\ LimitKept("session") /\ LimitKept("t") /\ Band!Bands = B
  BY DEF BandInv, Band!Bands
<1>1. CASE Band!tr_bandwidthAllocate
  <2>1. /\ band' = [n \in B |-> Band!Granted(band[n])]
        /\ granted' = [n \in B |-> IF band[n].limited THEN band[n].desired ELSE 0] /\ used' = [n \in B |-> 0]
        /\ turn' = [list |-> "protocol", todo |-> Peers] /\ UNCHANGED <<honor, out, ready>>
    BY <1>0, <1>1 DEF Band!tr_bandwidthAllocate
  <2>2. ASSUME NEW n \in B
        PROVE  /\ band'[n] \in State /\ granted'[n] \in Nat
               /\ band'[n].limited => band'[n].left = granted'[n]
    <3>1. band[n] \in State /\ band[n].desired \in Nat
      BY <1>0, BandwidthAssumption DEF BandTyped
    <3>2. band'[n] = IF band[n].limited THEN [band[n] EXCEPT !.left = band[n].desired] ELSE band[n]
      BY <2>1 DEF Band!Granted
    <3> QED
      BY <2>1, <3>1, <3>2
  <2>3. band' \in [B -> State]
    BY <2>1, <2>2
  <2>4. granted' \in [B -> Nat] /\ used' \in [B -> Nat]
    BY <2>1, <2>2
  <2>5. BandTyped'
    BY <1>0, <2>1, <2>3, <2>4 DEF BandTyped
  <2>6. LimitKept("session")' /\ LimitKept("t")'
    BY <2>1, <2>2, <2>4 DEF LimitKept
  <2> QED
    BY <2>5, <2>6 DEF BandInv
<1>2. CASE Band!NextList \/ \E pace \in [Band!Bands -> Paces] : Band!EnableOnDemand(pace)
  <2>1. UNCHANGED <<band, honor, out, granted, used>> /\ turn'.todo \subseteq Peers /\ DOMAIN turn' = {"list", "todo"}
    BY <1>2 DEF Band!NextList, Band!EnableOnDemand, Band!On
  <2>2. ready' \subseteq Peers
    BY <1>0, <1>2 DEF Band!NextList, Band!EnableOnDemand, BandTyped
  <2>3. BandTyped'
    BY <1>0, <2>1, <2>2 DEF BandTyped
  <2> QED
    BY <1>0, <2>1, <2>3 DEF BandInv, LimitKept
<1>3. ASSUME NEW p \in Peers, Band!FlushProtocol(p) PROVE BandInv'
  <2>1. PICK sent \in 0 .. Band!Leading(out[p]) : Band!TryWrite(p, Band!Leading(out[p]), Band!Full, sent)
    BY <1>3 DEF Band!FlushProtocol
  <2>2. Band!Leading(out[p]) \in Nat
    BY <1>0, Leads DEF BandTyped
  <2>3. Band!Full \in Pace
    BY <1>0 DEF Band!Full, Pace
  <2>4. UNCHANGED <<honor, ready, granted>> /\ turn' = [turn EXCEPT !.todo = turn.todo \ {p}]
    BY <1>3 DEF Band!FlushProtocol
  <2>5. /\ band' \in [B -> State] /\ used' \in [B -> Nat] /\ out' \in [Peers -> Seq(BOOLEAN)]
        /\ LimitKept("session")' /\ LimitKept("t")'
    BY <2>1, <2>2, <2>3, <2>4, TriesToWrite
  <2> QED
    BY <1>0, <2>4, <2>5 DEF BandInv, BandTyped
<1>4. ASSUME NEW p \in Peers, Band!Flush(p) PROVE BandInv'
  <2>1. PICK sent \in 0 .. Increment :
          /\ Band!TryWrite(p, Increment, Band!Full, sent)
          /\ turn' = IF sent = Increment THEN turn ELSE [turn EXCEPT !.todo = turn.todo \ {p}]
    BY <1>4 DEF Band!Flush
  <2>3. Band!Full \in Pace /\ Increment \in Nat /\ sent \in Nat
    BY <1>0, BandwidthAssumption DEF Band!Full, Pace
  <2>4. UNCHANGED <<honor, ready, granted>> /\ turn'.todo \subseteq Peers /\ DOMAIN turn' = {"list", "todo"}
    BY <1>0, <1>4, <2>1 DEF BandTyped, Band!Flush
  <2>5. /\ band' \in [B -> State] /\ used' \in [B -> Nat] /\ out' \in [Peers -> Seq(BOOLEAN)]
        /\ LimitKept("session")' /\ LimitKept("t")'
    BY <2>1, <2>3, <2>4, TriesToWrite
  <2> QED
    BY <1>0, <2>4, <2>5 DEF BandInv, BandTyped
<1>5. ASSUME NEW pace \in [Band!Bands -> Paces], NEW p \in Peers, Band!event_write_cb(p, pace) PROVE BandInv'
  <2>1. PICK sent \in 0 .. Len(out[p]) : Band!TryWrite(p, Len(out[p]), pace, sent)
    BY <1>5 DEF Band!event_write_cb
  <2>2. Len(out[p]) \in Nat /\ sent \in Nat
    BY <1>0, <2>1 DEF BandTyped
  <2>3. pace \in Pace
    BY <1>0, BandwidthAssumption DEF Pace
  <2>4. UNCHANGED <<honor, turn, granted>> /\ ready' \subseteq Peers
    BY <1>0, <1>5 DEF BandTyped, Band!event_write_cb
  <2>5. /\ band' \in [B -> State] /\ used' \in [B -> Nat] /\ out' \in [Peers -> Seq(BOOLEAN)]
        /\ LimitKept("session")' /\ LimitKept("t")'
    BY <2>1, <2>2, <2>3, <2>4, TriesToWrite
  <2> QED
    BY <1>0, <2>4, <2>5 DEF BandInv, BandTyped
<1>6. ASSUME NEW p \in Peers, Band!WriteBuf(p) \/ Band!Reconnect(p) PROVE BandInv'
  <2>1. UNCHANGED <<band, honor, turn, granted, used>> /\ ready' \subseteq Peers
    BY <1>0, <1>6 DEF BandTyped, Band!WriteBuf, Band!Reconnect
  <2>2. out' \in [Peers -> Seq(BOOLEAN)]
    <3>1. out[p] \in Seq(BOOLEAN) /\ out \in [Peers -> Seq(BOOLEAN)]
      BY <1>0 DEF BandTyped
    <3>2. out[p] \o <<FALSE>> \in Seq(BOOLEAN) /\ out[p] \o <<TRUE, TRUE>> \in Seq(BOOLEAN) /\ <<>> \in Seq(BOOLEAN)
      BY <3>1
    <3>3. \E s \in {out[p] \o <<FALSE>>, out[p] \o <<TRUE, TRUE>>, <<>>} : out' = [out EXCEPT ![p] = s]
      BY <1>6 DEF Band!WriteBuf, Band!Reconnect
    <3> QED
      BY <3>1, <3>2, <3>3
  <2> QED
    BY <1>0, <2>1, <2>2 DEF BandInv, BandTyped, LimitKept
<1>7. ASSUME NEW n \in B, Band!SetLimit(n) PROVE BandInv'
  <2>1. PICK limited \in BOOLEAN, desired \in Limits :
          /\ band' = [band EXCEPT ![n] = [band[n] EXCEPT !.limited = limited, !.desired = desired]]
          /\ IF limited # band[n].limited
             THEN /\ granted' = [granted EXCEPT ![n] = IF limited THEN band[n].left ELSE 0]
                  /\ used' = [used EXCEPT ![n] = 0]
             ELSE UNCHANGED <<granted, used>>
    BY <1>7 DEF Band!SetLimit
  <2>2. UNCHANGED <<honor, out, ready, turn>>
    BY <1>7 DEF Band!SetLimit
  <2> DEFINE new == [band[n] EXCEPT !.limited = limited, !.desired = desired]
  <2>3. /\ band \in [B -> State] /\ granted \in [B -> Nat] /\ used \in [B -> Nat]
        /\ band[n] \in State
    BY <1>0 DEF BandTyped
  <2>4. new \in State /\ new.left = band[n].left /\ new.limited = limited
    BY <2>3
  <2>5. band' = [band EXCEPT ![n] = new]
    BY <2>1
  <2> HIDE DEF new
  <2>6. band' \in [B -> State] /\ band'[n] = new /\ \A m \in B \ {n} : band'[m] = band[m]
    BY <2>3, <2>4, <2>5
  <2>7. granted' \in [B -> Nat] /\ used' \in [B -> Nat]
    BY <2>1, <2>3
  <2>8. \A m \in B \ {n} : granted'[m] = granted[m] /\ used'[m] = used[m]
    BY <2>1, <2>3
  <2>9. \A m \in B \ {n} : LimitKept(m)'
    BY <1>0, <2>6, <2>8 DEF LimitKept
  <2>10. LimitKept(n)'
    <3> SUFFICES ASSUME limited PROVE used'[n] + band'[n].left <= granted'[n]
      BY <2>4, <2>6 DEF LimitKept
    <3>1. band[n].left \in Nat /\ used[n] \in Nat /\ granted[n] \in Nat
      BY <2>3
    <3>2. CASE band[n].limited
      BY <1>0, <2>1, <2>4, <2>6, <3>2 DEF LimitKept
    <3>3. CASE ~band[n].limited
      <4>1. granted'[n] = band[n].left /\ used'[n] = 0
        BY <2>1, <2>3, <3>3
      <4> QED
        BY <2>4, <2>6, <3>1, <4>1
    <3> QED
      BY <3>2, <3>3
  <2> QED
    BY <1>0, <2>2, <2>6, <2>7, <2>9, <2>10 DEF BandInv, BandTyped
<1>8. ASSUME NEW t \in {"t"}, Band!SetHonor(t) PROVE BandInv'
  <2>1. UNCHANGED <<band, out, ready, turn, granted, used>> /\ honor' \in [{"t"} -> BOOLEAN]
    BY <1>0, <1>8 DEF BandTyped, Band!SetHonor
  <2> QED
    BY <1>0, <2>1 DEF BandInv, BandTyped, LimitKept
<1> QED
  BY <1>0, <1>1, <1>2, <1>3, <1>4, <1>5, <1>6, <1>7, <1>8 DEF Band!Next

-----------------------------------------------------------------------------
(* Turtle mode. *)

\* Division with a remainder, and that there is no other.
LEMMA DivMod ==
  ASSUME NEW n \in Nat \ {0}, NEW a \in Int
  PROVE  a \div n \in Int /\ a % n \in 0 .. n - 1 /\ a = n * (a \div n) + (a % n)
OBVIOUS

\* A quotient and a remainder are those of a division.
LEMMA DivModIs ==
  ASSUME NEW n \in Nat \ {0}, NEW q \in Int, NEW r \in 0 .. n - 1
  PROVE  (n * q + r) % n = r /\ (n * q + r) \div n = q
OBVIOUS

\* A minute of a day is one of the week.
LEMMA DaysOfWeek ==
  ASSUME NEW day \in 0 .. WeekDays - 1, NEW minute \in 0 .. MinutesPerDay - 1
  PROVE  /\ Alt!MinutesPerWeek \in Nat \ {0}
         /\ minute + day * MinutesPerDay \in 0 .. Alt!MinutesPerWeek - 1
         /\ minute + day * MinutesPerDay = MinutesPerDay * day + minute
<1>1. WeekDays \in Nat \ {0} /\ MinutesPerDay \in Nat \ {0}
  BY ScheduleAssumption
<1>2. day * MinutesPerDay \in Nat /\ day * MinutesPerDay = MinutesPerDay * day
  BY <1>1
<1>3. WeekDays * MinutesPerDay \in Nat
  BY <1>1
<1>4. (WeekDays - 1 - day) * MinutesPerDay \in Nat
  BY <1>1
<1>5. (WeekDays - 1 - day) * MinutesPerDay = WeekDays * MinutesPerDay - MinutesPerDay - day * MinutesPerDay
  BY <1>1
<1> DEFINE w == WeekDays * MinutesPerDay
           d == day * MinutesPerDay
<1>6. w - MinutesPerDay - d \in Nat
  BY <1>4, <1>5
<1>7. w \in Nat /\ d \in Nat
  BY <1>2, <1>3
<1> HIDE DEF w, d
<1>8. w \in Nat \ {0} /\ minute + d \in 0 .. w - 1
  BY <1>1, <1>6, <1>7
<1> QED
  BY <1>2, <1>8 DEF w, d, Alt!MinutesPerWeek

\* A part of the week that begins at start: the minute `ago' minutes later.
LEMMA MinuteOfWeek ==
  ASSUME NEW w \in Nat \ {0}, NEW start \in 0 .. w - 1, NEW ago \in Nat
  PROVE  (((start + ago) % w) - ago) % w = start
<1> DEFINE k == (start + ago) \div w
           m == (start + ago) % w
<1>1. k \in Int /\ m \in 0 .. w - 1 /\ start + ago = w * k + m
  <2>1. start + ago \in Int
    OBVIOUS
  <2> QED
    BY <2>1, DivMod
<1> HIDE DEF k, m
<1>2. w * k \in Int /\ w * (-k) = -(w * k)
  BY <1>1
<1>3. m - ago = w * (-k) + start
  BY <1>1, <1>2
<1>4. (m - ago) % w = start
  BY <1>1, <1>3, DivModIs
<1> QED
  BY <1>4 DEF m

\* The minute of the week some minutes ago is that of the clock.
LEMMA MinuteIs ==
  ASSUME NEW w \in Nat \ {0}, NEW m \in 0 .. w - 1, NEW ago \in Nat
  PROVE  (((m - ago) % w) + ago) % w = m
<1> DEFINE k == (m - ago) \div w
           start == (m - ago) % w
<1>1. k \in Int /\ start \in 0 .. w - 1 /\ m - ago = w * k + start
  <2>1. m - ago \in Int
    OBVIOUS
  <2> QED
    BY <2>1, DivMod
<1> HIDE DEF k, start
<1>2. w * k \in Int /\ w * (-k) = -(w * k)
  BY <1>1
<1>3. start + ago = w * (-k) + m
  BY <1>1, <1>2
<1>4. (start + ago) % w = m
  <2>1. -k \in Int
    BY <1>1
  <2>2. (w * (-k) + m) % w = m
    BY <2>1, DivModIs
  <2> QED
    BY <1>3, <2>2
<1> QED
  BY <1>4 DEF start

\* turtleUpdateTable marks the minutes of the user's schedule, and no others.
LEMMA TableIsSchedule ==
  ASSUME NEW t, t.begin \in 0 .. MinutesPerDay - 1, t.end \in 0 .. MinutesPerDay - 1,
         t.days \in SUBSET (0 .. WeekDays - 1)
  PROVE  Alt!Table(t.begin, t.end, t.days) = {m \in Alt!Minutes : Alt!Scheduled(t, m)}
<1> DEFINE w == Alt!MinutesPerWeek
           long == IF t.end > t.begin THEN t.end - t.begin ELSE t.end - t.begin + MinutesPerDay
           last == IF t.end <= t.begin THEN t.end + MinutesPerDay ELSE t.end
<1>1. MinutesPerDay \in Nat \ {0} /\ WeekDays \in Nat \ {0} /\ w \in Nat \ {0}
  BY ScheduleAssumption DEF Alt!MinutesPerWeek
<1>2. t.begin \in Nat /\ last \in Nat /\ long \in 1 .. MinutesPerDay /\ last = t.begin + long
  BY <1>1
<1>3. Alt!Table(t.begin, t.end, t.days) = {(i + day * MinutesPerDay) % w : i \in t.begin .. last - 1, day \in t.days}
  BY DEF Alt!Table
<1>4. Alt!Minutes = 0 .. w - 1
  BY DEF Alt!Minutes
<1>5. \A m : Alt!Scheduled(t, m) <=>
        \E ago \in 0 .. MinutesPerDay - 1 :
          /\ ((m - ago) % w) % MinutesPerDay = t.begin
          /\ ((m - ago) % w) \div MinutesPerDay \in t.days
          /\ ago < long
  BY DEF Alt!Scheduled
<1> HIDE DEF w, long, last
<1>6. ASSUME NEW i \in t.begin .. last - 1, NEW day \in t.days
      PROVE  LET m == (i + day * MinutesPerDay) % w IN m \in Alt!Minutes /\ Alt!Scheduled(t, m)
  <2> DEFINE ago == i - t.begin
             start == t.begin + day * MinutesPerDay
             m == (i + day * MinutesPerDay) % w
  <2>1. day \in 0 .. WeekDays - 1
    OBVIOUS
  <2>2. start \in 0 .. w - 1 /\ start = MinutesPerDay * day + t.begin
    BY <2>1, DaysOfWeek DEF w
  <2>3. ago \in 0 .. MinutesPerDay - 1 /\ ago < long /\ ago \in Nat
    BY <1>1, <1>2
  <2>4. day * MinutesPerDay \in Nat
    BY <1>1, <2>1
  <2>5. i + day * MinutesPerDay = start + ago
    BY <1>2, <2>4
  <2>6. start % MinutesPerDay = t.begin /\ start \div MinutesPerDay = day
    <3>1. day \in Int
      BY <1>1, <2>1
    <3>2. /\ (MinutesPerDay * day + t.begin) % MinutesPerDay = t.begin
          /\ (MinutesPerDay * day + t.begin) \div MinutesPerDay = day
      BY <1>1, <3>1, DivModIs
    <3> QED
      BY <2>2, <3>2
  <2> HIDE DEF start, ago
  <2>7. m = (start + ago) % w
    BY <2>5
  <2>8. m \in 0 .. w - 1
    <3>1. start + ago \in Int
      BY <2>2, <2>3
    <3> QED
      BY <1>1, <2>7, <3>1, DivMod
  <2>9. (m - ago) % w = start
    <3>1. (((start + ago) % w) - ago) % w = start
      BY <1>1, <2>2, <2>3, MinuteOfWeek
    <3> QED
      BY <2>7, <3>1
  <2> HIDE DEF m
  <2>10. m \in Alt!Minutes /\ Alt!Scheduled(t, m)
    BY <1>4, <1>5, <2>3, <2>6, <2>8, <2>9
  <2> QED
    BY <2>10 DEF m
<1>7. ASSUME NEW m \in Alt!Minutes, Alt!Scheduled(t, m)
      PROVE  \E i \in t.begin .. last - 1, day \in t.days : m = (i + day * MinutesPerDay) % w
  <2>1. PICK ago \in 0 .. MinutesPerDay - 1 :
          /\ ((m - ago) % w) % MinutesPerDay = t.begin
          /\ ((m - ago) % w) \div MinutesPerDay \in t.days
          /\ ago < long
    BY <1>5, <1>7
  <2> DEFINE start == (m - ago) % w
             day == start \div MinutesPerDay
             i == t.begin + ago
  <2>2. m \in 0 .. w - 1 /\ ago \in Nat /\ m - ago \in Int
    BY <1>1, <1>4
  <2>3. start \in 0 .. w - 1 /\ (start + ago) % w = m
    BY <1>1, <2>2, DivMod, MinuteIs
  <2>4. start % MinutesPerDay = t.begin /\ day \in t.days
    BY <2>1
  <2> HIDE DEF start
  <2>5. start = MinutesPerDay * day + t.begin /\ day \in Int
    <3>1. start \in Int
      BY <2>3
    <3> QED
      BY <1>1, <2>4, <3>1, DivMod
  <2> HIDE DEF day
  <2>6. MinutesPerDay * day \in Int /\ MinutesPerDay * day = day * MinutesPerDay
    BY <1>1, <2>5
  <2>7. i + day * MinutesPerDay = start + ago
    BY <1>2, <2>2, <2>5, <2>6
  <2>8. i \in t.begin .. last - 1
    BY <1>2, <2>1, <2>2
  <2> HIDE DEF i
  <2>9. m = (i + day * MinutesPerDay) % w
    BY <2>3, <2>7
  <2> QED
    BY <2>4, <2>8, <2>9
<1> DEFINE table == {(i + day * MinutesPerDay) % w : i \in t.begin .. last - 1, day \in t.days}
           S(m) == m \in Alt!Minutes /\ Alt!Scheduled(t, m)
<1>8. \A m \in table : S(m)
  BY <1>6
<1>9. \A m : S(m) => m \in table
  BY <1>7
<1>10. table = {m \in Alt!Minutes : Alt!Scheduled(t, m)}
  BY <1>8, <1>9
<1> QED
  BY <1>3, <1>10

\* A schedule and its table.
Timed(t) ==
  /\ DOMAIN t = {"isEnabled", "isClockEnabled", "begin", "end", "days", "minutes", "autoState"}
  /\ t.isEnabled \in BOOLEAN /\ t.isClockEnabled \in BOOLEAN
  /\ t.begin \in 0 .. MinutesPerDay - 1 /\ t.end \in 0 .. MinutesPerDay - 1
  /\ t.days \in SUBSET (0 .. WeekDays - 1)
  /\ t.minutes = Alt!Table(t.begin, t.end, t.days)

\* The clock has seen the minute, and the mode is the user's choice or else the schedule's.
Follows(t, minute, c) ==
  /\ c \in {"none", "ON", "OFF"}
  /\ c # "none" => Alt!Auto(t.isEnabled) = c
  /\ t.isClockEnabled => t.autoState = Alt!Auto(minute \in t.minutes)
  /\ t.isClockEnabled /\ c = "none" => t.isEnabled = (minute \in t.minutes)

LimitStates == [enabled : BOOLEAN, speed : Speeds, alt : Speeds]
TurtleInv ==
  /\ now \in Alt!Minutes /\ Timed(turtle) /\ limit \in LimitStates
  /\ Follows(turtle, now, choice)
  /\ bandwidth = Alt!updateBandwidth(turtle, limit)

\* ON and OFF are two.
LEMMA AutoIs ==
  ASSUME NEW a \in BOOLEAN, NEW b \in BOOLEAN
  PROVE  Alt!Auto(a) \in {"ON", "OFF"} /\ (Alt!Auto(a) = Alt!Auto(b) <=> a = b)
<1>1. "ON" # "OFF"
  OBVIOUS
<1> QED
  BY <1>1 DEF Alt!Auto

\* The invariant holds what the properties say.
LEMMA TurtleIsSound ==
  ASSUME TurtleInv
  PROVE  Alt!ScheduleIsFollowed /\ Alt!LimitIsInForce
<1>1. turtle.minutes = {m \in Alt!Minutes : Alt!Scheduled(turtle, m)}
  BY TableIsSchedule DEF TurtleInv, Timed
<1>2. Alt!ScheduleIsFollowed
  <2>1. choice # "none" => Alt!Auto(turtle.isEnabled) = choice
    BY DEF TurtleInv, Follows
  <2>2. ASSUME turtle.isClockEnabled, choice = "none" PROVE turtle.isEnabled = Alt!Scheduled(turtle, now)
    <3>1. turtle.isEnabled = (now \in turtle.minutes) /\ now \in Alt!Minutes
      BY <2>2 DEF TurtleInv, Follows
    <3>2. now \in turtle.minutes <=> Alt!Scheduled(turtle, now)
      BY <1>1, <3>1
    <3>3. Alt!Scheduled(turtle, now) \in BOOLEAN
      BY DEF Alt!Scheduled
    <3> QED
      BY <3>1, <3>2, <3>3
  <2> QED
    BY <1>1, <2>1, <2>2 DEF Alt!ScheduleIsFollowed
<1>3. Alt!LimitIsInForce
  <2>1. turtle.isEnabled \in BOOLEAN /\ limit.enabled \in BOOLEAN
    BY DEF TurtleInv, Timed, LimitStates
  <2>2. bandwidth = Alt!updateBandwidth(turtle, limit)
    BY DEF TurtleInv
  <2> DEFINE speed == IF turtle.isEnabled THEN limit.alt ELSE IF limit.enabled THEN limit.speed ELSE 0
  <2>3. Alt!Active(turtle, limit).speed = speed
    BY <2>1 DEF Alt!Active
  <2>4. (Alt!Active(turtle, limit).limited /\ Alt!Active(turtle, limit).speed # 0) = (speed # 0)
    BY <2>1 DEF Alt!Active
  <2>5. Alt!updateBandwidth(turtle, limit) = [limited |-> speed # 0, desired |-> speed]
    BY <2>3, <2>4 DEF Alt!updateBandwidth
  <2> QED
    BY <2>2, <2>5 DEF Alt!LimitIsInForce
<1> QED
  BY <1>2, <1>3

\* The turtle at first.
LEMMA TurtleFirst ==
  ASSUME Alt!Init
  PROVE  TurtleInv
<1>1. PICK enabled_, clock_ \in BOOLEAN, begin_, end_ \in 0 .. MinutesPerDay - 1, days_ \in SUBSET (0 .. WeekDays - 1) :
        turtle = Alt!Bootstrapped([isEnabled |-> enabled_, isClockEnabled |-> clock_, begin |-> begin_,
                                   end |-> end_, days |-> days_, minutes |-> Alt!Table(begin_, end_, days_),
                                   autoState |-> "UNUSED"])
  BY DEF Alt!Init
<1> DEFINE t == [isEnabled |-> enabled_, isClockEnabled |-> clock_, begin |-> begin_,
                 end |-> end_, days |-> days_, minutes |-> Alt!Table(begin_, end_, days_), autoState |-> "UNUSED"]
<1>2. Timed(t)
  BY <1>1 DEF Timed
<1>3. turtle = Alt!Bootstrapped(t)
  BY <1>1
<1> HIDE DEF t
<1>4. choice = "none" /\ now \in Alt!Minutes /\ limit \in LimitStates /\ bandwidth = Alt!updateBandwidth(turtle, limit)
  BY DEF Alt!Init, LimitStates
<1>5. Timed(turtle) /\ Follows(turtle, now, "none")
  <2>1. CASE t.isClockEnabled
    <3> DEFINE on == now \in t.minutes
               auto == Alt!Auto(on)
    <3>1. turtle = [t EXCEPT !.isEnabled = on, !.autoState = auto]
      BY <1>3, <2>1 DEF Alt!Bootstrapped, Alt!InTurtleTime
    <3>2. on \in BOOLEAN
      OBVIOUS
    <3> HIDE DEF on, auto
    <3>3. Timed(turtle) /\ turtle.isEnabled = on /\ turtle.autoState = auto /\ turtle.minutes = t.minutes
      <4>1. /\ DOMAIN turtle = DOMAIN t /\ turtle.isEnabled = on /\ turtle.autoState = auto
            /\ turtle.isClockEnabled = t.isClockEnabled /\ turtle.begin = t.begin /\ turtle.end = t.end
            /\ turtle.days = t.days /\ turtle.minutes = t.minutes
        BY <1>2, <3>1 DEF Timed
      <4> QED
        BY <1>2, <3>2, <4>1 DEF Timed
    <3> QED
      BY <3>3 DEF Follows, on, auto
  <2>2. CASE ~t.isClockEnabled
    BY <1>2, <1>3, <2>2 DEF Follows, Alt!Bootstrapped
  <2> QED
    BY <2>1, <2>2
<1> QED
  BY <1>4, <1>5 DEF TurtleInv

\* userPokedTheClock, of any new schedule.
LEMMA PokedFollows ==
  ASSUME NEW t, DOMAIN t = {"isEnabled", "isClockEnabled", "begin", "end", "days", "minutes", "autoState"},
         t.isEnabled \in BOOLEAN, t.isClockEnabled \in BOOLEAN,
         t.begin \in 0 .. MinutesPerDay - 1, t.end \in 0 .. MinutesPerDay - 1, t.days \in SUBSET (0 .. WeekDays - 1)
  PROVE  Timed(Alt!Poked(t)) /\ Follows(Alt!Poked(t), now, "none")
<1> DEFINE u == [t EXCEPT !.minutes = Alt!Table(t.begin, t.end, t.days), !.autoState = "UNUSED"]
           v == [u EXCEPT !.isEnabled = (now \in u.minutes)]
           w == [v EXCEPT !.autoState = Alt!Auto(now \in u.minutes)]
<1>1. Alt!Poked(t) = IF u.isClockEnabled THEN w ELSE u
  BY DEF Alt!Poked, Alt!Uses, Alt!InTurtleTime
<1>2. Timed(u)
  BY DEF Timed
<1> HIDE DEF u
<1>3. DOMAIN v = DOMAIN u /\ DOMAIN w = DOMAIN v
  OBVIOUS
<1>4. /\ v.isEnabled = (now \in u.minutes) /\ v.isClockEnabled = u.isClockEnabled /\ v.begin = u.begin
      /\ v.end = u.end /\ v.days = u.days /\ v.minutes = u.minutes
  BY <1>2 DEF Timed
<1> HIDE DEF v
<1>5. /\ w.isEnabled = v.isEnabled /\ w.isClockEnabled = v.isClockEnabled /\ w.begin = v.begin
      /\ w.end = v.end /\ w.days = v.days /\ w.minutes = v.minutes /\ w.autoState = Alt!Auto(now \in u.minutes)
  BY <1>2, <1>3 DEF Timed
<1> HIDE DEF w
<1>6. Timed(w)
  BY <1>2, <1>3, <1>4, <1>5 DEF Timed
<1>7. Follows(w, now, "none")
  BY <1>4, <1>5 DEF Follows
<1>8. ~u.isClockEnabled => Follows(u, now, "none")
  BY DEF Follows
<1> QED
  BY <1>1, <1>2, <1>6, <1>7, <1>8

\* A step of the turtle.
LEMMA TurtleNext ==
  ASSUME TurtleInv, Alt!Next
  PROVE  TurtleInv'
<1>0. /\ now \in Alt!Minutes /\ Timed(turtle) /\ limit \in LimitStates /\ Follows(turtle, now, choice)
  BY DEF TurtleInv
<1>1. CASE Alt!onNowTimer
  <2> DEFINE t == IF turtle.isClockEnabled THEN Alt!CheckClock(turtle, now') ELSE turtle
             in == now' \in turtle.minutes
  <2>1. /\ now' \in Alt!Minutes /\ turtle' = t /\ bandwidth' = Alt!updateBandwidth(t, limit) /\ limit' = limit
        /\ choice' = IF t.autoState = turtle.autoState THEN choice ELSE "none"
    BY <1>1 DEF Alt!onNowTimer, Alt!Becomes
  <2>2. Timed(t) /\ Follows(t, now', choice')
    <3>1. CASE ~turtle.isClockEnabled
      <4>1. t = turtle /\ choice' = choice
        BY <2>1, <3>1
      <4> QED
        BY <1>0, <3>1, <4>1 DEF Follows
    <3>2. CASE turtle.isClockEnabled /\ turtle.autoState = Alt!Auto(in)
      <4>1. t = turtle
        BY <3>2 DEF Alt!CheckClock, Alt!InTurtleTime
      <4>2. choice' = choice
        BY <2>1, <4>1
      <4>3. in = (now \in turtle.minutes)
        <5> DEFINE was == now \in turtle.minutes
        <5>1. in \in BOOLEAN /\ was \in BOOLEAN
          OBVIOUS
        <5>2. Alt!Auto(was) = Alt!Auto(in)
          BY <1>0, <3>2 DEF Follows
        <5> HIDE DEF in, was
        <5>3. in = was
          BY <5>1, <5>2, AutoIs
        <5> QED
          BY <5>3 DEF in, was
      <4> QED
        BY <1>0, <3>2, <4>1, <4>2, <4>3 DEF Follows
    <3>3. CASE turtle.isClockEnabled /\ turtle.autoState # Alt!Auto(in)
      <4> DEFINE v == [turtle EXCEPT !.autoState = Alt!Auto(in)]
      <4>1. t = [v EXCEPT !.isEnabled = in]
        BY <3>3 DEF Alt!CheckClock, Alt!InTurtleTime, Alt!Uses
      <4>2. /\ DOMAIN v = DOMAIN turtle /\ v.isEnabled = turtle.isEnabled /\ v.autoState = Alt!Auto(in)
            /\ v.isClockEnabled = turtle.isClockEnabled /\ v.begin = turtle.begin /\ v.end = turtle.end
            /\ v.days = turtle.days /\ v.minutes = turtle.minutes
        BY <1>0 DEF Timed
      <4> HIDE DEF v, t
      <4>3. /\ DOMAIN t = DOMAIN turtle /\ t.isEnabled = in /\ t.autoState = Alt!Auto(in)
            /\ t.isClockEnabled = turtle.isClockEnabled /\ t.begin = turtle.begin /\ t.end = turtle.end
            /\ t.days = turtle.days /\ t.minutes = turtle.minutes
        BY <1>0, <4>1, <4>2 DEF Timed
      <4>4. Timed(t)
        BY <1>0, <4>3 DEF Timed
      <4>5. choice' = "none"
        BY <2>1, <3>3, <4>3
      <4> QED
        BY <4>3, <4>4, <4>5 DEF Follows
    <3> QED
      BY <3>1, <3>2, <3>3
  <2> HIDE DEF t
  <2> QED
    BY <1>0, <2>1, <2>2 DEF TurtleInv
<1>2. CASE Alt!userPokedTheClock
  <2>1. choice' = "none" /\ UNCHANGED <<now, limit>>
    BY <1>2 DEF Alt!userPokedTheClock
  <2>2. ASSUME NEW t, DOMAIN t = DOMAIN turtle,
               t.isEnabled \in BOOLEAN, t.isClockEnabled \in BOOLEAN,
               t.begin \in 0 .. MinutesPerDay - 1, t.end \in 0 .. MinutesPerDay - 1,
               t.days \in SUBSET (0 .. WeekDays - 1), Alt!Becomes(Alt!Poked(t))
        PROVE  TurtleInv'
    <3>1. Timed(Alt!Poked(t)) /\ Follows(Alt!Poked(t), now, "none")
      <4>1. DOMAIN t = {"isEnabled", "isClockEnabled", "begin", "end", "days", "minutes", "autoState"}
        BY <1>0, <2>2 DEF Timed
      <4> QED
        BY <2>2, <4>1, PokedFollows
    <3>2. turtle' = Alt!Poked(t) /\ bandwidth' = Alt!updateBandwidth(Alt!Poked(t), limit)
      BY <2>2 DEF Alt!Becomes
    <3> QED
      BY <1>0, <2>1, <3>1, <3>2 DEF TurtleInv
  <2>3. CASE Alt!Becomes(Alt!Poked([turtle EXCEPT !.isClockEnabled = ~turtle.isClockEnabled]))
    <3> DEFINE t == [turtle EXCEPT !.isClockEnabled = ~turtle.isClockEnabled]
    <3>1. /\ DOMAIN t = DOMAIN turtle /\ t.isEnabled \in BOOLEAN /\ t.isClockEnabled \in BOOLEAN
          /\ t.begin \in 0 .. MinutesPerDay - 1 /\ t.end \in 0 .. MinutesPerDay - 1
          /\ t.days \in SUBSET (0 .. WeekDays - 1)
      BY <1>0 DEF Timed
    <3> HIDE DEF t
    <3>2. Alt!Becomes(Alt!Poked(t))
      BY <2>3 DEF t
    <3> QED
      BY <2>2, <3>1, <3>2
  <2>4. ASSUME NEW m \in 0 .. MinutesPerDay - 1,
               \/ Alt!Becomes(Alt!Poked([turtle EXCEPT !.begin = m]))
               \/ Alt!Becomes(Alt!Poked([turtle EXCEPT !.end = m]))
        PROVE  TurtleInv'
    <3> DEFINE t == [turtle EXCEPT !.begin = m]
               u == [turtle EXCEPT !.end = m]
    <3>1. /\ DOMAIN t = DOMAIN turtle /\ t.isEnabled \in BOOLEAN /\ t.isClockEnabled \in BOOLEAN
          /\ t.begin \in 0 .. MinutesPerDay - 1 /\ t.end \in 0 .. MinutesPerDay - 1
          /\ t.days \in SUBSET (0 .. WeekDays - 1)
      BY <1>0 DEF Timed
    <3>2. /\ DOMAIN u = DOMAIN turtle /\ u.isEnabled \in BOOLEAN /\ u.isClockEnabled \in BOOLEAN
          /\ u.begin \in 0 .. MinutesPerDay - 1 /\ u.end \in 0 .. MinutesPerDay - 1
          /\ u.days \in SUBSET (0 .. WeekDays - 1)
      BY <1>0 DEF Timed
    <3>3. Alt!Becomes(Alt!Poked(t)) \/ Alt!Becomes(Alt!Poked(u))
      BY <2>4
    <3> HIDE DEF t, u
    <3> QED
      BY <2>2, <3>1, <3>2, <3>3
  <2>5. ASSUME NEW days \in SUBSET (0 .. WeekDays - 1), Alt!Becomes(Alt!Poked([turtle EXCEPT !.days = days]))
        PROVE  TurtleInv'
    <3> DEFINE t == [turtle EXCEPT !.days = days]
    <3>1. /\ DOMAIN t = DOMAIN turtle /\ t.isEnabled \in BOOLEAN /\ t.isClockEnabled \in BOOLEAN
          /\ t.begin \in 0 .. MinutesPerDay - 1 /\ t.end \in 0 .. MinutesPerDay - 1
          /\ t.days \in SUBSET (0 .. WeekDays - 1)
      BY <1>0 DEF Timed
    <3> HIDE DEF t
    <3>2. Alt!Becomes(Alt!Poked(t))
      BY <2>5 DEF t
    <3> QED
      BY <2>2, <3>1, <3>2
  <2> QED
    BY <1>2, <2>3, <2>4, <2>5 DEF Alt!userPokedTheClock
<1>3. CASE Alt!UseAltSpeed
  <2> DEFINE new == ~turtle.isEnabled
             t == [turtle EXCEPT !.isEnabled = new]
  <2>1. /\ turtle' = t /\ bandwidth' = Alt!updateBandwidth(t, limit) /\ choice' = Alt!Auto(new)
        /\ UNCHANGED <<now, limit>>
    BY <1>3 DEF Alt!UseAltSpeed, Alt!Becomes, Alt!Uses
  <2>2. /\ DOMAIN t = DOMAIN turtle /\ t.isEnabled = new /\ t.autoState = turtle.autoState
        /\ t.isClockEnabled = turtle.isClockEnabled /\ t.begin = turtle.begin /\ t.end = turtle.end
        /\ t.days = turtle.days /\ t.minutes = turtle.minutes
    BY <1>0 DEF Timed
  <2>3. new \in BOOLEAN
    OBVIOUS
  <2> HIDE DEF t, new
  <2>4. Timed(t)
    BY <1>0, <2>2, <2>3 DEF Timed
  <2>5. choice' \in {"ON", "OFF"} /\ choice' # "none"
    BY <2>1 DEF Alt!Auto
  <2>6. Follows(t, now, choice')
    BY <1>0, <2>1, <2>2, <2>5 DEF Follows
  <2> QED
    BY <1>0, <2>1, <2>4, <2>6 DEF TurtleInv
<1>4. CASE Alt!SetLimit
  <2>1. PICK l \in LimitStates : limit' = l /\ bandwidth' = Alt!updateBandwidth(turtle, l)
    BY <1>4 DEF Alt!SetLimit, LimitStates
  <2>2. UNCHANGED <<now, turtle, choice>>
    BY <1>4 DEF Alt!SetLimit
  <2> QED
    BY <1>0, <2>1, <2>2 DEF TurtleInv
<1> QED
  BY <1>1, <1>2, <1>3, <1>4 DEF Alt!Next

-----------------------------------------------------------------------------
(* Port forwarding. *)

NatFields ==
  {"state", "discovered", "mapped", "private", "public", "asked", "wait", "due", "late", "sure"}
NatStates == {"DISCOVER", "RECV_PUB", "IDLE", "SEND_UNMAP", "RECV_UNMAP", "SEND_MAP", "RECV_MAP", "ERR"}
NatTyped(n) == DOMAIN n = NatFields /\ n.state \in NatStates /\ n.mapped \in BOOLEAN

\* Where the machine is: what it may have mapped, and which port it has asked for.
Where(n, p, over) ==
  /\ n.state \in {"DISCOVER", "RECV_PUB"} => ~n.mapped
  /\ n.state \in {"SEND_UNMAP", "RECV_UNMAP"} => n.mapped
  /\ n.state = "RECV_UNMAP" => n.asked \in {n.private, 0}
  /\ n.state = "RECV_MAP" => n.asked \in Ports /\ (over \/ n.asked = p)

\* What is mapped is let in, if the router said so and has not forgotten.
Lets(n, pmp) == pmp \subseteq Ports /\ (n.state = "IDLE" /\ n.mapped /\ n.sure => n.private \in pmp)

\* What is let in is mapped, or asked for.
Known(n, pmp, p) ==
  /\ n.mapped => pmp \subseteq {n.private}
  /\ ~n.mapped => pmp \subseteq (IF n.state = "RECV_MAP" THEN {n.asked} ELSE {})
  /\ n.mapped /\ n.state = "RECV_MAP" => n.asked = n.private
  /\ n.mapped /\ n.state = "SEND_MAP" => n.private = p

NatOk(x, p, over) ==
  /\ DOMAIN x = {"nat", "pmp", "left"} /\ NatTyped(x.nat) /\ Where(x.nat, p, over) /\ Lets(x.nat, x.pmp)
  /\ x.left \/ Known(x.nat, x.pmp, p)

\* What is mapped is the port that is wanted, or was when the router was asked.
Wanted(n, p) == n.state = "IDLE" /\ n.mapped => n.private = p
Current(n, p, over) == n.state = "IDLE" /\ n.mapped /\ n.sure => over \/ n.private = p

\* A request is sent, or it fails.
LEMMA SentIs ==
  ASSUME NEW n, NatTyped(n), NEW next, NEW outcome, NEW p
  PROVE  LET m == Map!Sent(n, next, outcome, p) IN
         /\ DOMAIN m = NatFields /\ m.state = IF outcome # "failed" THEN next ELSE "ERR"
         /\ m.mapped = n.mapped /\ m.private = n.private /\ m.public = n.public
         /\ m.asked = IF outcome # "failed" THEN p ELSE 0
BY DEF NatTyped, NatFields, Map!Sent, Map!Asked

\* The stages of a pulse: the router is found.
LEMMA DiscoveredOk ==
  ASSUME NEW x, NEW p, NEW over, NatOk(x, p, over), NEW enabled_ \in BOOLEAN, NEW outcome
  PROVE  NatOk(Map!Discovered(x, enabled_, outcome), p, over)
<1> DEFINE y == Map!Discovered(x, enabled_, outcome)
<1>1. CASE enabled_ /\ x.nat.state = "DISCOVER"
  <2> DEFINE m == Map!Sent(x.nat, "RECV_PUB", outcome, 0)
             n == [m EXCEPT !.discovered = TRUE]
  <2>1. y = [x EXCEPT !.nat = n]
    BY <1>1 DEF Map!Discovered
  <2>2. /\ DOMAIN m = NatFields /\ m.state \in {"RECV_PUB", "ERR"} /\ m.mapped = x.nat.mapped
    BY SentIs DEF NatOk
  <2> HIDE DEF m
  <2>3. DOMAIN n = NatFields /\ n.state \in {"RECV_PUB", "ERR"} /\ n.mapped = x.nat.mapped
    BY <2>2 DEF NatFields
  <2> HIDE DEF n
  <2>4. DOMAIN y = {"nat", "pmp", "left"} /\ y.nat = n /\ y.pmp = x.pmp /\ y.left = x.left
    BY <2>1 DEF NatOk
  <2> HIDE DEF y
  <2>5. NatTyped(n) /\ Where(n, p, over)
    BY <1>1, <2>3 DEF NatOk, NatTyped, Where, NatStates
  <2>6. Lets(n, x.pmp) /\ (x.left \/ Known(n, x.pmp, p))
    BY <1>1, <2>3 DEF NatOk, Where, Lets, Known
  <2>7. NatOk(y, p, over)
    BY <2>4, <2>5, <2>6 DEF NatOk
  <2> QED
    BY <2>7 DEF y
<1>2. CASE ~(enabled_ /\ x.nat.state = "DISCOVER") /\ x.nat.state = "RECV_PUB" /\ ~x.nat.wait
  <2> DEFINE s == IF Map!Answers(outcome) THEN "IDLE"
                  ELSE IF outcome \in {"failed", "given up"} THEN "ERR" ELSE x.nat.state
             n == [x.nat EXCEPT !.state = s, !.late = Map!Late(x.nat, outcome)]
  <2>1. y = [x EXCEPT !.nat = n]
    BY <1>2 DEF Map!Discovered, NatOk
  <2>2. s \in {"IDLE", "ERR", "RECV_PUB"}
    BY <1>2
  <2> HIDE DEF s
  <2>3. DOMAIN n = NatFields /\ n.state = s /\ n.mapped = x.nat.mapped
    BY DEF NatOk, NatTyped, NatFields
  <2> HIDE DEF n
  <2>4. DOMAIN y = {"nat", "pmp", "left"} /\ y.nat = n /\ y.pmp = x.pmp /\ y.left = x.left
    BY <2>1 DEF NatOk
  <2> HIDE DEF y
  <2>5. NatTyped(n) /\ Where(n, p, over)
    BY <1>2, <2>2, <2>3 DEF NatOk, NatTyped, Where, NatStates
  <2>6. Lets(n, x.pmp) /\ (x.left \/ Known(n, x.pmp, p))
    BY <1>2, <2>2, <2>3 DEF NatOk, Where, Lets, Known
  <2>7. NatOk(y, p, over)
    BY <2>4, <2>5, <2>6 DEF NatOk
  <2> QED
    BY <2>7 DEF y
<1>3. CASE ~(enabled_ /\ x.nat.state = "DISCOVER") /\ ~(x.nat.state = "RECV_PUB" /\ ~x.nat.wait)
  BY <1>3 DEF Map!Discovered
<1> QED
  BY <1>1, <1>2, <1>3

\* A mapping that is not wanted is to be undone, so that what stays mapped is wanted.
LEMMA LeavesOk ==
  ASSUME NEW x, NEW p, NEW over, NatOk(x, p, over), NEW enabled_ \in BOOLEAN
  PROVE  /\ NatOk(Map!Leaves(x, enabled_, p), p, over)
         /\ Wanted(Map!Leaves(x, enabled_, p).nat, p)
<1> DEFINE y == Map!Leaves(x, enabled_, p)
           n == [x.nat EXCEPT !.state = "SEND_UNMAP"]
<1>1. CASE x.nat.state \in {"IDLE", "ERR"} /\ x.nat.mapped /\ (~enabled_ \/ x.nat.private # p)
  <2>1. y = [x EXCEPT !.nat = n]
    BY <1>1 DEF Map!Leaves, NatOk
  <2>2. DOMAIN n = NatFields /\ n.state = "SEND_UNMAP" /\ n.mapped = x.nat.mapped /\ n.private = x.nat.private
    BY DEF NatOk, NatTyped, NatFields
  <2> HIDE DEF n
  <2>3. DOMAIN y = {"nat", "pmp", "left"} /\ y.nat = n /\ y.pmp = x.pmp /\ y.left = x.left
    BY <2>1 DEF NatOk
  <2> HIDE DEF y
  <2>4. NatTyped(n) /\ Where(n, p, over)
    BY <1>1, <2>2 DEF NatOk, NatTyped, Where, NatStates
  <2>5. Lets(n, x.pmp) /\ (x.left \/ Known(n, x.pmp, p))
    BY <1>1, <2>2 DEF NatOk, Where, Lets, Known
  <2>6. NatOk(y, p, over) /\ Wanted(y.nat, p)
    BY <2>2, <2>3, <2>4, <2>5 DEF NatOk, Wanted
  <2> QED
    BY <2>6 DEF y
<1>2. CASE ~(x.nat.state \in {"IDLE", "ERR"} /\ x.nat.mapped /\ (~enabled_ \/ x.nat.private # p))
  BY <1>2 DEF Map!Leaves, Wanted
<1> QED
  BY <1>1, <1>2

\* The answer to an unmapping.
LEMMA UnmappedOk ==
  ASSUME NEW x, NEW p, NEW over, NatOk(x, p, over), NEW outcome
  PROVE  /\ NatOk(Map!Unmapped(x, outcome), p, over)
         /\ Wanted(x.nat, p) => Wanted(Map!Unmapped(x, outcome).nat, p)
<1> DEFINE y == Map!Unmapped(x, outcome)
<1> DEFINE gone == Map!Gone(x.nat, outcome)
           fails == Map!Fails(x.nat)
           gives == Map!GivesUp(x.nat)
           waits == [x.nat EXCEPT !.asked = 0, !.late = Map!Late(x.nat, outcome)]
<1>0. /\ DOMAIN gone = NatFields /\ gone.state = "IDLE" /\ gone.mapped = FALSE
      /\ DOMAIN fails = NatFields /\ fails.state = "ERR" /\ fails.mapped = x.nat.mapped
      /\ fails.private = x.nat.private
      /\ DOMAIN gives = NatFields /\ gives.state = "ERR" /\ gives.mapped = x.nat.mapped
      /\ gives.private = x.nat.private
      /\ DOMAIN waits = NatFields /\ waits.state = x.nat.state /\ waits.mapped = x.nat.mapped
      /\ waits.private = x.nat.private /\ waits.asked = 0
  BY DEF NatOk, NatTyped, NatFields, Map!Gone, Map!Fails, Map!GivesUp
<1>1. CASE x.nat.state = "RECV_UNMAP" /\ x.nat.asked # 0 /\ Map!Answers(outcome)
  <2> DEFINE pmp == x.pmp \ {x.nat.asked}
  <2>1. y = [x EXCEPT !.pmp = pmp, !.nat = gone]
    BY <1>1 DEF Map!Unmapped, NatOk, Map!Answers, Map!Misleads
  <2> HIDE DEF gone, pmp
  <2>2. DOMAIN y = {"nat", "pmp", "left"} /\ y.nat = gone /\ y.pmp = pmp /\ y.left = x.left
    BY <2>1 DEF NatOk
  <2> HIDE DEF y
  <2>3. pmp \subseteq x.pmp /\ (x.left \/ pmp = {})
    BY <1>1 DEF pmp, NatOk, Where, Known
  <2>4. NatTyped(gone) /\ Where(gone, p, over) /\ Lets(gone, pmp) /\ (x.left \/ Known(gone, pmp, p))
    BY <1>0, <2>3 DEF NatOk, NatTyped, Where, Lets, Known, NatStates
  <2>5. NatOk(y, p, over) /\ Wanted(y.nat, p)
    BY <1>0, <2>2, <2>4 DEF NatOk, Wanted
  <2> QED
    BY <2>5 DEF y
<1>2. CASE x.nat.state = "RECV_UNMAP" /\ (x.nat.asked = 0 \/ outcome = "failed")
  <2>1. y = [x EXCEPT !.nat = fails]
    BY <1>2 DEF Map!Unmapped, NatOk
  <2> HIDE DEF fails
  <2>2. DOMAIN y = {"nat", "pmp", "left"} /\ y.nat = fails /\ y.pmp = x.pmp /\ y.left = x.left
    BY <2>1 DEF NatOk
  <2> HIDE DEF y
  <2>3. NatTyped(fails) /\ Where(fails, p, over) /\ Lets(fails, x.pmp)
    BY <1>0, <1>2 DEF NatOk, NatTyped, Where, Lets, NatStates
  <2>4. x.left \/ Known(fails, x.pmp, p)
    BY <1>0, <1>2 DEF NatOk, Known
  <2>5. NatOk(y, p, over) /\ Wanted(y.nat, p)
    BY <1>0, <2>2, <2>3, <2>4 DEF NatOk, Wanted
  <2> QED
    BY <2>5 DEF y
<1>3. CASE x.nat.state = "RECV_UNMAP" /\ x.nat.asked # 0 /\ outcome = "given up"
  <2> DEFINE pmp == x.pmp \ {x.nat.asked}
  <2>1. y = [x EXCEPT !.pmp = pmp, !.nat = gives]
    BY <1>3 DEF Map!Unmapped, NatOk, Map!Answers, Map!Misleads
  <2>2. pmp \subseteq x.pmp
    OBVIOUS
  <2> HIDE DEF gives, pmp
  <2>3. DOMAIN y = {"nat", "pmp", "left"} /\ y.nat = gives /\ y.pmp = pmp /\ y.left = x.left
    BY <2>1 DEF NatOk
  <2> HIDE DEF y
  <2>4. NatTyped(gives) /\ Where(gives, p, over) /\ Lets(gives, pmp)
    BY <1>0, <1>3, <2>2 DEF NatOk, NatTyped, Where, Lets, NatStates
  <2>5. x.left \/ Known(gives, pmp, p)
    BY <1>0, <1>3, <2>2 DEF NatOk, Known
  <2>6. NatOk(y, p, over) /\ Wanted(y.nat, p)
    BY <1>0, <2>3, <2>4, <2>5 DEF NatOk, Wanted
  <2> QED
    BY <2>6 DEF y
<1>4. CASE /\ x.nat.state = "RECV_UNMAP" /\ x.nat.asked # 0 /\ Map!Misleads(x.nat, outcome)
           /\ x.nat.late.private = x.nat.private
  <2>1. y = [x EXCEPT !.left = @ \/ x.nat.private \in x.pmp, !.nat = gone]
    BY <1>4 DEF Map!Unmapped, NatOk, Map!Answers, Map!Misleads
  <2> HIDE DEF gone
  <2>2. /\ DOMAIN y = {"nat", "pmp", "left"} /\ y.nat = gone /\ y.pmp = x.pmp
        /\ y.left = (x.left \/ x.nat.private \in x.pmp)
    BY <2>1 DEF NatOk
  <2> HIDE DEF y
  <2>3. y.left \/ x.pmp = {}
    BY <1>4, <2>2 DEF NatOk, Where, Known
  <2>4. NatTyped(gone) /\ Where(gone, p, over) /\ Lets(gone, x.pmp) /\ (y.left \/ Known(gone, x.pmp, p))
    BY <1>0, <2>3 DEF NatOk, NatTyped, Where, Lets, Known, NatStates
  <2>5. NatOk(y, p, over) /\ Wanted(y.nat, p)
    BY <1>0, <2>2, <2>4 DEF NatOk, Wanted
  <2> QED
    BY <2>5 DEF y
<1>5. CASE /\ x.nat.state = "RECV_UNMAP" /\ x.nat.asked # 0 /\ Map!Misleads(x.nat, outcome)
           /\ x.nat.late.private # x.nat.private
  <2>1. y = [x EXCEPT !.nat = waits]
    BY <1>5 DEF Map!Unmapped, NatOk, Map!Answers, Map!Misleads
  <2> HIDE DEF waits
  <2>2. DOMAIN y = {"nat", "pmp", "left"} /\ y.nat = waits /\ y.pmp = x.pmp /\ y.left = x.left
    BY <2>1 DEF NatOk
  <2> HIDE DEF y
  <2>3. NatTyped(waits) /\ Where(waits, p, over) /\ Lets(waits, x.pmp)
    BY <1>0, <1>5 DEF NatOk, NatTyped, Where, Lets, NatStates
  <2>4. x.left \/ Known(waits, x.pmp, p)
    BY <1>0, <1>5 DEF NatOk, Known
  <2>5. NatOk(y, p, over) /\ Wanted(y.nat, p)
    BY <1>0, <1>5, <2>2, <2>3, <2>4 DEF NatOk, Wanted
  <2> QED
    BY <2>5 DEF y
<1>6. CASE ~(x.nat.state = "RECV_UNMAP" /\ (x.nat.asked = 0 \/ outcome \in {"failed", "given up"}
                                             \/ Map!Answers(outcome) \/ Map!Misleads(x.nat, outcome)))
  BY <1>6 DEF Map!Unmapped
<1> QED
  BY <1>1, <1>2, <1>3, <1>4, <1>5, <1>6

\* An unmapping.
LEMMA UnmapsOk ==
  ASSUME NEW x, NEW p, NEW over, NatOk(x, p, over), NEW outcome
  PROVE  /\ NatOk(Map!Unmaps(x, outcome), p, over)
         /\ Wanted(x.nat, p) => Wanted(Map!Unmaps(x, outcome).nat, p)
<1>1. CASE x.nat.state = "SEND_UNMAP" /\ ~x.nat.wait
  <2> DEFINE n == Map!Sent(x.nat, "RECV_UNMAP", outcome, x.nat.private)
             pmp == IF Map!Carried(outcome) THEN x.pmp \ {x.nat.private} ELSE x.pmp
             y == [x EXCEPT !.nat = n, !.pmp = pmp]
  <2>1. Map!Unmaps(x, outcome) = Map!Unmapped(y, outcome)
    BY <1>1 DEF Map!Unmaps, NatOk
  <2>2. /\ DOMAIN n = NatFields /\ n.state \in {"RECV_UNMAP", "ERR"} /\ n.mapped = x.nat.mapped
        /\ n.private = x.nat.private /\ n.asked \in {x.nat.private, 0}
    BY SentIs DEF NatOk
  <2>3. pmp \subseteq x.pmp
    OBVIOUS
  <2> HIDE DEF n, pmp
  <2>4. DOMAIN y = {"nat", "pmp", "left"} /\ y.nat = n /\ y.pmp = pmp /\ y.left = x.left
    BY DEF NatOk
  <2> HIDE DEF y
  <2>5. NatTyped(n) /\ Where(n, p, over) /\ Lets(n, pmp)
    BY <1>1, <2>2, <2>3 DEF NatOk, NatTyped, Where, Lets, NatStates
  <2>6. x.left \/ Known(n, pmp, p)
    BY <1>1, <2>2, <2>3 DEF NatOk, Known
  <2>7. NatOk(y, p, over) /\ Wanted(y.nat, p)
    BY <2>2, <2>4, <2>5, <2>6 DEF NatOk, Wanted
  <2> QED
    BY <2>1, <2>7, UnmappedOk
<1>2. CASE ~(x.nat.state = "SEND_UNMAP" /\ ~x.nat.wait)
  <2>1. Map!Unmaps(x, outcome) = Map!Unmapped(x, outcome)
    BY <1>2 DEF Map!Unmaps
  <2> QED
    BY <2>1, UnmappedOk
<1> QED
  BY <1>1, <1>2

\* What is not mapped is to be mapped, and what is due is to be renewed.
LEMMA WantsOk ==
  ASSUME NEW x, NEW p, NEW over, NatOk(x, p, over), Wanted(x.nat, p), NEW enabled_ \in BOOLEAN
  PROVE  NatOk(Map!Wants(x, enabled_), p, over) /\ Wanted(Map!Wants(x, enabled_).nat, p)
<1> DEFINE y == Map!Wants(x, enabled_)
           n == [x.nat EXCEPT !.state = "SEND_MAP"]
<1>1. CASE /\ x.nat.state = "IDLE"
           /\ IF enabled_ /\ ~x.nat.mapped /\ x.nat.discovered THEN TRUE ELSE x.nat.mapped /\ x.nat.due
  <2>1. y = [x EXCEPT !.nat = n]
    BY <1>1 DEF Map!Wants, NatOk
  <2>2. DOMAIN n = NatFields /\ n.state = "SEND_MAP" /\ n.mapped = x.nat.mapped /\ n.private = x.nat.private
    BY DEF NatOk, NatTyped, NatFields
  <2> HIDE DEF n
  <2>3. DOMAIN y = {"nat", "pmp", "left"} /\ y.nat = n /\ y.pmp = x.pmp /\ y.left = x.left
    BY <2>1 DEF NatOk
  <2> HIDE DEF y
  <2>4. NatTyped(n) /\ Where(n, p, over)
    BY <1>1, <2>2 DEF NatOk, NatTyped, Where, NatStates
  <2>5. Lets(n, x.pmp) /\ (x.left \/ Known(n, x.pmp, p))
    BY <1>1, <2>2 DEF NatOk, Where, Lets, Known, Wanted
  <2>6. NatOk(y, p, over) /\ Wanted(y.nat, p)
    BY <2>2, <2>3, <2>4, <2>5 DEF NatOk, Wanted
  <2> QED
    BY <2>6 DEF y
<1>2. CASE ~(/\ x.nat.state = "IDLE"
             /\ IF enabled_ /\ ~x.nat.mapped /\ x.nat.discovered THEN TRUE ELSE x.nat.mapped /\ x.nat.due)
  BY <1>2 DEF Map!Wants
<1> QED
  BY <1>1, <1>2

\* The answer to a mapping.
LEMMA MappedOk ==
  ASSUME NEW x, NEW p, NEW over, NatOk(x, p, over), Wanted(x.nat, p), NEW outcome, NEW public
  PROVE  NatOk(Map!Mapped(x, outcome, public), p, over) /\ Current(Map!Mapped(x, outcome, public).nat, p, over)
<1> DEFINE y == Map!Mapped(x, outcome, public)
<1> DEFINE Takes(answer, sure) == Map!Takes(x.nat, answer, outcome, public, sure)
           fails == Map!Fails(x.nat)
           gives == Map!GivesUp(x.nat)
<1>0. /\ \A a, b : /\ DOMAIN Takes(a, b) = NatFields /\ Takes(a, b).state = "IDLE"
                  /\ Takes(a, b).mapped = TRUE /\ Takes(a, b).private = a.private
                  /\ Takes(a, b).sure = b
      /\ DOMAIN fails = NatFields /\ fails.state = "ERR" /\ fails.mapped = x.nat.mapped
      /\ DOMAIN gives = NatFields /\ gives.state = "ERR" /\ gives.mapped = x.nat.mapped
  BY DEF NatOk, NatTyped, NatFields, Map!Takes, Map!Fails, Map!GivesUp
<1>1. CASE x.nat.state = "RECV_MAP" /\ Map!Answers(outcome)
  <2> DEFINE n == Takes(Map!Own(x.nat), TRUE)
             pmp == x.pmp \cup {x.nat.asked}
  <2>1. y = [x EXCEPT !.pmp = pmp, !.nat = n]
    BY <1>1 DEF Map!Mapped, NatOk, Map!Answers, Map!Misleads
  <2>2. DOMAIN n = NatFields /\ n.state = "IDLE" /\ n.mapped = TRUE /\ n.private = x.nat.asked
    <3>1. Map!Own(x.nat).private = x.nat.asked
      BY <1>1 DEF Map!Own
    <3> HIDE DEF Takes
    <3> QED
      BY <1>0, <3>1
  <2>3. x.nat.asked \in Ports /\ (over \/ x.nat.asked = p)
    BY <1>1 DEF NatOk, Where
  <2>4. pmp \subseteq Ports /\ x.nat.asked \in pmp
    BY <2>3 DEF NatOk, Lets
  <2>5. x.left \/ pmp \subseteq {x.nat.asked}
    BY <1>1 DEF NatOk, Known, NatTyped
  <2> HIDE DEF n, pmp
  <2>6. DOMAIN y = {"nat", "pmp", "left"} /\ y.nat = n /\ y.pmp = pmp /\ y.left = x.left
    BY <2>1 DEF NatOk
  <2> HIDE DEF y
  <2>7. NatTyped(n) /\ Where(n, p, over) /\ Lets(n, pmp) /\ (x.left \/ Known(n, pmp, p))
    BY <2>2, <2>3, <2>4, <2>5 DEF NatTyped, Where, Lets, Known, NatStates
  <2>8. NatOk(y, p, over) /\ Current(y.nat, p, over)
    BY <2>2, <2>3, <2>6, <2>7 DEF NatOk, Current
  <2> QED
    BY <2>8 DEF y
<1>2. CASE x.nat.state = "RECV_MAP" /\ outcome = "failed"
  <2>1. y = [x EXCEPT !.left = TRUE, !.nat = fails]
    BY <1>2 DEF Map!Mapped, NatOk, Map!Answers, Map!Misleads
  <2> HIDE DEF fails
  <2>2. DOMAIN y = {"nat", "pmp", "left"} /\ y.nat = fails /\ y.pmp = x.pmp /\ y.left
    BY <2>1 DEF NatOk
  <2> HIDE DEF y
  <2>3. NatTyped(fails) /\ Where(fails, p, over) /\ Lets(fails, x.pmp)
    BY <1>0, <1>2 DEF NatOk, NatTyped, Where, Lets, NatStates
  <2>4. NatOk(y, p, over) /\ Current(y.nat, p, over)
    BY <1>0, <2>2, <2>3 DEF NatOk, Current
  <2> QED
    BY <2>4 DEF y
<1>3. CASE x.nat.state = "RECV_MAP" /\ outcome = "given up"
  <2> DEFINE pmp == x.pmp \cup {x.nat.asked}
  <2>1. y = [x EXCEPT !.pmp = pmp, !.left = TRUE, !.nat = gives]
    BY <1>3 DEF Map!Mapped, NatOk, Map!Answers, Map!Misleads
  <2>2. pmp \subseteq Ports
    BY <1>3 DEF NatOk, Where, Lets
  <2> HIDE DEF gives, pmp
  <2>3. DOMAIN y = {"nat", "pmp", "left"} /\ y.nat = gives /\ y.pmp = pmp /\ y.left
    BY <2>1 DEF NatOk
  <2> HIDE DEF y
  <2>4. NatTyped(gives) /\ Where(gives, p, over) /\ Lets(gives, pmp)
    BY <1>0, <1>3, <2>2 DEF NatOk, NatTyped, Where, Lets, NatStates
  <2>5. NatOk(y, p, over) /\ Current(y.nat, p, over)
    BY <1>0, <2>3, <2>4 DEF NatOk, Current
  <2> QED
    BY <2>5 DEF y
<1>4. CASE x.nat.state = "RECV_MAP" /\ Map!Misleads(x.nat, outcome)
  <2> DEFINE n == Takes(x.nat.late, FALSE)
  <2>1. y = [x EXCEPT !.left = @ \/ ~(x.pmp \subseteq {x.nat.late.private}), !.nat = n]
    BY <1>4 DEF Map!Mapped, NatOk, Map!Answers, Map!Misleads
  <2>2. /\ DOMAIN n = NatFields /\ n.state = "IDLE" /\ n.mapped = TRUE /\ n.sure = FALSE
        /\ n.private = x.nat.late.private
    BY <1>0
  <2> HIDE DEF n
  <2>3. /\ DOMAIN y = {"nat", "pmp", "left"} /\ y.nat = n /\ y.pmp = x.pmp
        /\ y.left = (x.left \/ ~(x.pmp \subseteq {x.nat.late.private}))
    BY <2>1 DEF NatOk
  <2> HIDE DEF y
  <2>4. NatTyped(n) /\ Where(n, p, over) /\ Lets(n, x.pmp) /\ (y.left \/ Known(n, x.pmp, p))
    BY <2>2, <2>3 DEF NatOk, NatTyped, Where, Lets, Known, NatStates
  <2>5. NatOk(y, p, over) /\ Current(y.nat, p, over)
    BY <2>2, <2>3, <2>4 DEF NatOk, Current
  <2> QED
    BY <2>5 DEF y
<1>5. CASE ~(x.nat.state = "RECV_MAP" /\ (outcome \in {"failed", "given up"}
                                           \/ Map!Answers(outcome) \/ Map!Misleads(x.nat, outcome)))
  BY <1>5 DEF Map!Mapped, Wanted, Current
<1> QED
  BY <1>1, <1>2, <1>3, <1>4, <1>5

\* A mapping.
LEMMA MapsOk ==
  ASSUME NEW x, NEW p \in Ports, NEW over, NatOk(x, p, over), Wanted(x.nat, p), NEW outcome, NEW public
  PROVE  /\ NatOk(Map!Maps(x, p, outcome, public), p, over)
         /\ Current(Map!Maps(x, p, outcome, public).nat, p, over)
<1>1. CASE x.nat.state = "SEND_MAP" /\ ~x.nat.wait
  <2> DEFINE n == Map!Sent(x.nat, "RECV_MAP", outcome, p)
             pmp == IF Map!Carried(outcome) THEN x.pmp \cup {p} ELSE x.pmp
             y == [x EXCEPT !.nat = n, !.pmp = pmp]
  <2>1. Map!Maps(x, p, outcome, public) = Map!Mapped(y, outcome, public)
    BY <1>1 DEF Map!Maps, NatOk
  <2>2. /\ DOMAIN n = NatFields /\ n.state = (IF outcome # "failed" THEN "RECV_MAP" ELSE "ERR")
        /\ n.mapped = x.nat.mapped /\ n.private = x.nat.private
        /\ n.state = "RECV_MAP" => n.asked = p
    BY SentIs DEF NatOk
  <2>3. /\ x.pmp \subseteq pmp /\ pmp \subseteq x.pmp \cup {p} /\ pmp \subseteq Ports
        /\ outcome = "failed" => pmp = x.pmp
    BY DEF Map!Carried, NatOk, Lets
  <2>4. DOMAIN y = {"nat", "pmp", "left"} /\ y.nat = n /\ y.pmp = pmp /\ y.left = x.left
    BY DEF NatOk
  <2> HIDE DEF n, pmp, y
  <2>5. NatTyped(n) /\ Where(n, p, over) /\ Lets(n, pmp)
    BY <1>1, <2>2, <2>3 DEF NatOk, NatTyped, Where, Lets, NatStates
  <2>6. x.left \/ Known(n, pmp, p)
    <3>1. CASE x.left
      BY <3>1
    <3>2. CASE ~x.left /\ x.nat.mapped
      BY <3>2, <1>1, <2>2, <2>3 DEF NatOk, Known
    <3>3. CASE ~x.left /\ ~x.nat.mapped
      BY <3>3, <1>1, <2>2, <2>3 DEF NatOk, Known
    <3> QED
      BY <3>1, <3>2, <3>3
  <2>7. NatOk(y, p, over) /\ Wanted(y.nat, p)
    BY <2>2, <2>4, <2>5, <2>6 DEF NatOk, Wanted
  <2> QED
    BY <2>1, <2>7, MappedOk
<1>2. CASE ~(x.nat.state = "SEND_MAP" /\ ~x.nat.wait)
  <2>1. Map!Maps(x, p, outcome, public) = Map!Mapped(x, outcome, public)
    BY <1>2 DEF Map!Maps
  <2> QED
    BY <2>1, MappedOk
<1> QED
  BY <1>1, <1>2

\* tr_natpmpPulse.
LEMMA NatPulseOk ==
  ASSUME NEW x, NEW p \in Ports, NEW over, NatOk(x, p, over), NEW enabled_ \in BOOLEAN, NEW in
  PROVE  /\ NatOk(Map!natpmpPulse(x, p, enabled_, in), p, over)
         /\ Current(Map!natpmpPulse(x, p, enabled_, in).nat, p, over)
<1> DEFINE x1 == Map!Discovered(x, enabled_, in.first)
           x2 == Map!Leaves(x1, enabled_, p)
           x3 == Map!Unmaps(x2, in.first)
           x4 == Map!Wants(x3, enabled_)
<1>1. NatOk(x1, p, over)
  BY DiscoveredOk
<1>2. NatOk(x2, p, over) /\ Wanted(x2.nat, p)
  BY <1>1, LeavesOk
<1>3. NatOk(x3, p, over) /\ Wanted(x3.nat, p)
  BY <1>2, UnmapsOk
<1>4. NatOk(x4, p, over) /\ Wanted(x4.nat, p)
  BY <1>3, WantsOk
<1> QED
  BY <1>4, MapsOk DEF Map!natpmpPulse

-----------------------------------------------------------------------------
(* The mappings by UPnP. *)

Held(u) == IF u.mapped THEN Map!Protocols \X {u.port} ELSE {}
UpTyped(y) ==
  /\ DOMAIN y = {"upnp", "at", "left"} /\ DOMAIN y.upnp = {"state", "mapped", "port"}
  /\ y.upnp.state \in {"IDLE", "ERR", "DISCOVER"} /\ y.upnp.mapped \in BOOLEAN
  /\ y.upnp.mapped => y.upnp.state = "IDLE" /\ y.upnp.port \in Ports
  /\ y.at \subseteq Map!Protocols \X Ports
UpOk(y) == UpTyped(y) /\ (y.left \/ y.at \subseteq Held(y.upnp))

\* tr_upnpPulse.
LEMMA UpPulseOk ==
  ASSUME NEW y, UpOk(y), NEW p \in Ports, NEW enabled_ \in BOOLEAN, NEW check, NEW in,
         in.accepted \subseteq Map!Protocols
  PROVE  /\ UpOk(Map!upnpPulse(y, p, enabled_, check, in))
         /\ ~enabled_ => ~Map!upnpPulse(y, p, enabled_, check, in).upnp.mapped
<1> DEFINE y1 == Map!Found(y, enabled_, in.found)
           y2 == Map!Checked(y1, p, enabled_, check, in.deleted)
           y3 == Map!Added(y2, p, enabled_, in.accepted)
           Rest(z) == IF z.upnp.mapped THEN Map!Protocols \X {z.upnp.port}
                      ELSE IF enabled_ /\ z.upnp.state = "IDLE" THEN Map!Protocols \X {p} ELSE {}
<1>1. UpOk(y1)
  <2>1. CASE enabled_ /\ y.upnp.state = "DISCOVER"
    <3> DEFINE u == [y.upnp EXCEPT !.state = IF in.found THEN "IDLE" ELSE "ERR"]
    <3>1. y1 = [y EXCEPT !.upnp = u]
      BY <2>1 DEF Map!Found, UpOk, UpTyped
    <3>2. /\ DOMAIN u = {"state", "mapped", "port"} /\ u.state \in {"IDLE", "ERR"}
          /\ u.mapped = FALSE /\ u.mapped = y.upnp.mapped
      BY <2>1 DEF UpOk, UpTyped
    <3> HIDE DEF u
    <3>3. DOMAIN y1 = {"upnp", "at", "left"} /\ y1.upnp = u /\ y1.at = y.at /\ y1.left = y.left
      BY <3>1 DEF UpOk, UpTyped
    <3> HIDE DEF y1
    <3> QED
      BY <3>2, <3>3 DEF UpOk, UpTyped, Held
  <2>2. CASE ~(enabled_ /\ y.upnp.state = "DISCOVER")
    BY <2>2 DEF Map!Found
  <2> QED
    BY <2>1, <2>2
<1> HIDE DEF y1
<1>2. UpTyped(y2) /\ (~enabled_ => ~y2.upnp.mapped) /\ (y2.left \/ y2.at \subseteq Rest(y2))
  <2> DEFINE unmap == y1.upnp.state = "IDLE" /\ y1.upnp.mapped /\ (~enabled_ \/ y1.upnp.port # p)
             gone == /\ enabled_ /\ y1.upnp.mapped /\ check
                     /\ ~(Map!Protocols \X {y1.upnp.port} \subseteq y1.at)
  <2>1. CASE unmap
    <3> DEFINE u == [y1.upnp EXCEPT !.mapped = FALSE, !.port = -1]
               a == y1.at \ (in.deleted \X {y1.upnp.port})
    <3>1. y2 = [y1 EXCEPT !.upnp = u, !.at = a, !.left = y1.left \/ a # {}]
      BY <2>1, <1>1 DEF Map!Checked, UpOk, UpTyped
    <3>2. DOMAIN u = {"state", "mapped", "port"} /\ u.state = y1.upnp.state /\ u.mapped = FALSE
      BY <1>1 DEF UpOk, UpTyped
    <3>3. a \subseteq y1.at
      OBVIOUS
    <3> HIDE DEF u, a
    <3>4. /\ DOMAIN y2 = {"upnp", "at", "left"} /\ y2.upnp = u /\ y2.at = a
          /\ y2.left = (y1.left \/ a # {})
      BY <3>1, <1>1 DEF UpOk, UpTyped
    <3> HIDE DEF y2
    <3> QED
      BY <3>2, <3>3, <3>4, <1>1 DEF UpOk, UpTyped
  <2>2. CASE ~unmap /\ gone
    <3> DEFINE u == [y1.upnp EXCEPT !.mapped = FALSE]
    <3>1. y2 = [y1 EXCEPT !.upnp = u]
      BY <2>2, <1>1 DEF Map!Checked, UpOk, UpTyped
    <3>2. /\ DOMAIN u = {"state", "mapped", "port"} /\ u.state = y1.upnp.state /\ u.mapped = FALSE
          /\ y1.upnp.state = "IDLE" /\ y1.upnp.port = p
      BY <1>1, <2>2 DEF UpOk, UpTyped
    <3>3. y1.left \/ y1.at \subseteq Map!Protocols \X {p}
      BY <1>1, <2>2, <3>2 DEF UpOk, Held
    <3> HIDE DEF u
    <3>4. DOMAIN y2 = {"upnp", "at", "left"} /\ y2.upnp = u /\ y2.at = y1.at /\ y2.left = y1.left
      BY <3>1, <1>1 DEF UpOk, UpTyped
    <3> HIDE DEF y2
    <3> QED
      BY <2>2, <3>2, <3>3, <3>4, <1>1 DEF UpOk, UpTyped
  <2>3. CASE ~unmap /\ ~gone
    <3>1. y2 = y1
      BY <2>3 DEF Map!Checked
    <3> HIDE DEF y2
    <3> QED
      BY <2>3, <3>1, <1>1 DEF UpOk, UpTyped, Held
  <2> QED
    BY <2>1, <2>2, <2>3
<1> HIDE DEF y2
<1>3. UpOk(y3) /\ (~enabled_ => ~y3.upnp.mapped)
  <2>1. CASE ~(y2.upnp.state = "IDLE" /\ enabled_ /\ ~y2.upnp.mapped)
    <3>1. y3 = y2
      BY <2>1 DEF Map!Added
    <3> HIDE DEF y3
    <3> QED
      BY <1>2, <2>1, <3>1 DEF UpOk, Held
  <2>2. CASE y2.upnp.state = "IDLE" /\ enabled_ /\ ~y2.upnp.mapped /\ in.accepted # {}
    <3> DEFINE u == [y2.upnp EXCEPT !.mapped = TRUE, !.port = p]
               a == y2.at \cup (in.accepted \X {p})
    <3>1. y3 = [y2 EXCEPT !.upnp = u, !.at = a]
      BY <2>2, <1>2 DEF Map!Added, UpTyped
    <3>2. /\ DOMAIN u = {"state", "mapped", "port"} /\ u.state = "IDLE" /\ u.mapped = TRUE
          /\ u.port = p
      BY <1>2, <2>2 DEF UpTyped
    <3>3. a \subseteq Map!Protocols \X Ports /\ (y2.left \/ a \subseteq Map!Protocols \X {p})
      BY <1>2, <2>2 DEF UpTyped
    <3> HIDE DEF u, a
    <3>4. DOMAIN y3 = {"upnp", "at", "left"} /\ y3.upnp = u /\ y3.at = a /\ y3.left = y2.left
      BY <3>1, <1>2 DEF UpTyped
    <3> HIDE DEF y3
    <3> QED
      BY <2>2, <3>2, <3>3, <3>4, <1>2 DEF UpOk, UpTyped, Held
  <2>3. CASE y2.upnp.state = "IDLE" /\ enabled_ /\ ~y2.upnp.mapped /\ in.accepted = {}
    <3> DEFINE u == [y2.upnp EXCEPT !.port = -1, !.state = "ERR"]
    <3>1. y3 = [y2 EXCEPT !.upnp = u, !.left = TRUE]
      BY <2>3, <1>2 DEF Map!Added, UpTyped
    <3>2. DOMAIN u = {"state", "mapped", "port"} /\ u.state = "ERR" /\ u.mapped = FALSE
      BY <1>2, <2>3 DEF UpTyped
    <3> HIDE DEF u
    <3>3. DOMAIN y3 = {"upnp", "at", "left"} /\ y3.upnp = u /\ y3.at = y2.at /\ y3.left
      BY <3>1, <1>2 DEF UpTyped
    <3> HIDE DEF y3
    <3> QED
      BY <2>3, <3>2, <3>3, <1>2 DEF UpOk, UpTyped
  <2> QED
    BY <2>1, <2>2, <2>3
<1>4. y3 = Map!upnpPulse(y, p, enabled_, check, in)
  BY DEF Map!upnpPulse, y1, y2
<1> HIDE DEF y3
<1> QED
  BY <1>3, <1>4

-----------------------------------------------------------------------------
(* The timer and the calls. *)

SharedFields == {"alive", "isEnabled", "timer", "doPortCheck", "natpmpStatus", "upnpStatus"}
MapTyped ==
  /\ DOMAIN shared = SharedFields /\ shared.alive \in BOOLEAN /\ shared.isEnabled \in BOOLEAN
  /\ shared.timer \in BOOLEAN /\ stray \in 0 .. MaxStray
  /\ DOMAIN session = {"private", "public", "changed"} /\ session.private \in Ports
  /\ DOMAIN router = {"pmp", "upnp", "kind"} /\ router.pmp \subseteq Ports
  /\ router.upnp \subseteq Map!Protocols \X Ports

\* The machines together with what the router lets in.
NatIs == [nat |-> natpmp, pmp |-> router.pmp, left |-> left]
UpIs == [upnp |-> upnp, at |-> router.upnp, left |-> left]

\* No machine, and nothing that is forgotten; or both, and the session knows of what is mapped.
NoMachine ==
  /\ natpmp = Map!None /\ upnp = Map!None /\ shared.natpmpStatus = "UNMAPPED"
  /\ left \/ (router.pmp = {} /\ router.upnp = {})
Machines ==
  /\ shared.alive /\ shared.isEnabled
  /\ NatOk(NatIs, session.private, overtaken) /\ UpOk(UpIs)
  /\ shared.natpmpStatus = Map!natpmpStatus(natpmp)
  /\ natpmp.state = "IDLE" /\ natpmp.mapped /\ ~session.changed =>
       /\ session.public = natpmp.public
       /\ natpmp.sure => overtaken \/ natpmp.private = session.private

MapInv == MapTyped /\ (NoMachine \/ Machines) /\ (shared.alive => shared.timer = shared.isEnabled)

\* A machine that runs is not None.
LEMMA MachinesAre ==
  ASSUME Machines
  PROVE  natpmp # Map!None /\ upnp # Map!None
<1>1. natpmp.state # "NONE" /\ upnp.state # "NONE"
  BY DEF Machines, NatOk, NatTyped, NatStates, NatIs, UpOk, UpTyped, UpIs
<1> QED
  BY <1>1 DEF Map!None

\* The invariant holds what the properties say.
LEMMA MapIsSound ==
  ASSUME MapInv
  PROVE  /\ Map!TypeOK /\ Map!UpnpClosesCleanly /\ Map!NothingIsLeftOpen
         /\ Map!PublicPortIsMapped /\ Map!TimerFollowsSwitch
<1>1. Map!TimerFollowsSwitch
  BY DEF MapInv, Map!TimerFollowsSwitch
<1>2. CASE NoMachine
  BY <1>1, <1>2 DEF MapInv, MapTyped, NoMachine, Map!TypeOK, Map!UpnpClosesCleanly,
                    Map!NothingIsLeftOpen, Map!PublicPortIsMapped
<1>3. CASE Machines
  <2>1. natpmp # Map!None /\ upnp # Map!None
    BY <1>3, MachinesAre
  <2>2. NatTyped(natpmp) /\ Lets(natpmp, router.pmp) /\ (left \/ Known(natpmp, router.pmp, session.private))
    BY <1>3 DEF Machines, NatOk, NatIs
  <2>3. UpOk(UpIs) /\ UpIs.upnp = upnp /\ UpIs.at = router.upnp /\ UpIs.left = left
    BY <1>3 DEF Machines, UpIs
  <2>4. Map!TypeOK
    BY <2>1 DEF MapInv, MapTyped, Map!TypeOK
  <2>5. Map!UpnpClosesCleanly
    BY <2>3 DEF UpOk, UpTyped, Map!UpnpClosesCleanly
  <2>6. Map!NothingIsLeftOpen
    <3>1. left \/ router.pmp \subseteq {natpmp.private, natpmp.asked}
      BY <2>2 DEF Known, NatTyped
    <3>2. left \/ router.upnp \subseteq Map!Protocols \X {upnp.port}
      BY <2>3 DEF UpOk, UpTyped, Held
    <3> QED
      BY <2>1, <3>1, <3>2 DEF Map!NothingIsLeftOpen
  <2>7. Map!PublicPortIsMapped
    <3> SUFFICES ASSUME shared.natpmpStatus = "MAPPED", ~session.changed
                 PROVE  /\ session.public = natpmp.public
                        /\ natpmp.sure => /\ natpmp.private \in router.pmp
                                          /\ overtaken \/ natpmp.private = session.private
      BY DEF Map!PublicPortIsMapped
    <3>1. natpmp.state = "IDLE" /\ natpmp.mapped
      BY <1>3, <2>2 DEF Machines, Map!natpmpStatus, NatTyped, NatStates
    <3> QED
      BY <1>3, <2>2, <3>1 DEF Machines, Lets
  <2> QED
    BY <1>1, <2>4, <2>5, <2>6, <2>7
<1> QED
  BY <1>2, <1>3 DEF MapInv

\* The forwarding as it is loaded.
LEMMA MapFirst ==
  ASSUME Map!Init
  PROVE  MapInv
<1>1. DOMAIN session = {"private", "public", "changed"} /\ session.private \in Ports
  BY DEF Map!Init
<1>2. /\ DOMAIN shared = SharedFields /\ shared.alive = TRUE /\ shared.isEnabled = FALSE
      /\ shared.timer = FALSE /\ shared.natpmpStatus = "UNMAPPED"
  BY DEF Map!Init, SharedFields
<1>3. DOMAIN router = {"pmp", "upnp", "kind"} /\ router.pmp = {} /\ router.upnp = {}
  BY DEF Map!Init
<1>4. stray \in 0 .. MaxStray
  BY PortsAssumption DEF Map!Init
<1>5. natpmp = Map!None /\ upnp = Map!None
  BY DEF Map!Init
<1> QED
  BY <1>1, <1>2, <1>3, <1>4, <1>5 DEF MapInv, MapTyped, NoMachine

\* What a pulse on the settings s leaves.
PulseLeaves(r, s) ==
  /\ DOMAIN r = {"natpmp", "upnp", "left", "router", "session", "shared"}
  /\ DOMAIN r.router = {"pmp", "upnp", "kind"}
  /\ NatOk([nat |-> r.natpmp, pmp |-> r.router.pmp, left |-> r.left], session.private, overtaken)
  /\ UpOk([upnp |-> r.upnp, at |-> r.router.upnp, left |-> r.left])
  /\ ~(s.isEnabled /\ s.alive) => ~r.upnp.mapped
  /\ Current(r.natpmp, session.private, overtaken)
  /\ DOMAIN r.session = DOMAIN session /\ r.session.private = session.private
  /\ r.natpmp.state = "IDLE" /\ r.natpmp.mapped => r.session.public = r.natpmp.public
  /\ DOMAIN r.shared = SharedFields /\ r.shared.alive = s.alive /\ r.shared.isEnabled = s.isEnabled
  /\ r.shared.timer = s.timer /\ r.shared.natpmpStatus = Map!natpmpStatus(r.natpmp)

\* The machines as they begin.
LEMMA NatBegins ==
  ASSUME MapInv, NEW n, n = IF natpmp = Map!None THEN Map!tr_natpmpInit ELSE natpmp
  PROVE  NatOk([nat |-> n, pmp |-> router.pmp, left |-> left], session.private, overtaken)
<1>1. CASE NoMachine
  <2> DEFINE x == [nat |-> n, pmp |-> router.pmp, left |-> left]
  <2>1. /\ DOMAIN n = NatFields /\ n.state = "DISCOVER" /\ n.mapped = FALSE
    BY <1>1 DEF NoMachine, Map!tr_natpmpInit, NatFields
  <2>2. DOMAIN x = {"nat", "pmp", "left"} /\ x.nat = n /\ x.pmp = router.pmp /\ x.left = left
    OBVIOUS
  <2>3. NatTyped(n) /\ Where(n, session.private, overtaken) /\ Lets(n, router.pmp)
    BY <2>1 DEF NatTyped, NatStates, Where, Lets, MapInv, MapTyped
  <2>4. left \/ Known(n, router.pmp, session.private)
    BY <1>1, <2>1 DEF NoMachine, Known
  <2> HIDE DEF x
  <2>5. NatOk(x, session.private, overtaken)
    BY <2>2, <2>3, <2>4 DEF NatOk
  <2> QED
    BY <2>5 DEF x
<1>2. CASE Machines
  BY <1>2, MachinesAre DEF Machines, NatIs
<1> QED
  BY <1>1, <1>2 DEF MapInv

\* And so does the other one.
LEMMA UpBegins ==
  ASSUME MapInv, NEW u, u = IF upnp = Map!None THEN Map!tr_upnpInit ELSE upnp
  PROVE  UpOk([upnp |-> u, at |-> router.upnp, left |-> left])
<1>1. CASE NoMachine
  <2> DEFINE y == [upnp |-> u, at |-> router.upnp, left |-> left]
  <2>1. DOMAIN u = {"state", "mapped", "port"} /\ u.state = "DISCOVER" /\ u.mapped = FALSE
    BY <1>1 DEF NoMachine, Map!tr_upnpInit
  <2>2. DOMAIN y = {"upnp", "at", "left"} /\ y.upnp = u /\ y.at = router.upnp /\ y.left = left
    OBVIOUS
  <2> HIDE DEF y
  <2>3. UpOk(y)
    BY <1>1, <2>1, <2>2 DEF NoMachine, MapInv, MapTyped, UpOk, UpTyped, Held
  <2> QED
    BY <2>3 DEF y
<1>2. CASE Machines
  BY <1>2, MachinesAre DEF Machines, UpIs
<1> QED
  BY <1>1, <1>2 DEF MapInv

\* natPulse.
LEMMA PulseIs ==
  ASSUME MapInv, NEW s, DOMAIN s = SharedFields, s.alive \in BOOLEAN, s.isEnabled \in BOOLEAN,
         NEW check, NEW r \in Map!natPulse(s, check)
  PROVE  PulseLeaves(r, s)
<1> DEFINE on == s.isEnabled /\ s.alive
           n == IF natpmp = Map!None THEN Map!tr_natpmpInit ELSE natpmp
           u == IF upnp = Map!None THEN Map!tr_upnpInit ELSE upnp
<1>0. session.private \in Ports /\ on \in BOOLEAN
  BY DEF MapInv, MapTyped
<1>1. PICK x \in Map!natpmpPulses(on), y \in Map!upnpPulses(on, check) : r = Map!AfterPulse(s, x, y)
  BY DEF Map!natPulse
<1>2. NatOk(x, session.private, overtaken) /\ Current(x.nat, session.private, overtaken)
  <2> DEFINE x0 == [nat |-> n, pmp |-> router.pmp, left |-> left]
  <2>1. NatOk(x0, session.private, overtaken)
    BY NatBegins
  <2>2. \E in : x = Map!natpmpPulse(x0, session.private, on, in)
    BY DEF Map!natpmpPulses
  <2> HIDE DEF x0, on
  <2> QED
    BY <1>0, <2>1, <2>2, NatPulseOk
<1>3. UpOk(y) /\ (~on => ~y.upnp.mapped)
  <2> DEFINE y0 == [upnp |-> u, at |-> router.upnp, left |-> left]
  <2>1. UpOk(y0)
    BY UpBegins
  <2>2. \E in : in.accepted \subseteq Map!Protocols /\ y = Map!upnpPulse(y0, session.private, on, check, in)
    <3>1. Map!AcceptedInputs(on) \subseteq SUBSET Map!Protocols
      BY DEF Map!AcceptedInputs, Map!Protocols
    <3> QED
      BY <3>1 DEF Map!upnpPulses
  <2> HIDE DEF y0, on
  <2> QED
    BY <1>0, <2>1, <2>2, UpPulseOk
<1> HIDE DEF n, u
<1>4. /\ DOMAIN r = {"natpmp", "upnp", "left", "router", "session", "shared"}
      /\ r.natpmp = x.nat /\ r.upnp = y.upnp /\ r.left = (x.left \/ y.left)
      /\ DOMAIN r.router = {"pmp", "upnp", "kind"} /\ r.router.pmp = x.pmp /\ r.router.upnp = y.at
      /\ r.session = (IF Map!natpmpStatus(x.nat) = "MAPPED"
                      THEN [session EXCEPT !.public = x.nat.public] ELSE session)
      /\ r.shared = [s EXCEPT !.natpmpStatus = Map!natpmpStatus(x.nat), !.upnpStatus = Map!upnpStatus(y.upnp)]
  BY <1>1 DEF Map!AfterPulse, MapInv, MapTyped
<1>5. NatOk([nat |-> r.natpmp, pmp |-> r.router.pmp, left |-> r.left], session.private, overtaken)
  BY <1>2, <1>4 DEF NatOk
<1>6. UpOk([upnp |-> r.upnp, at |-> r.router.upnp, left |-> r.left])
  BY <1>3, <1>4 DEF UpOk, UpTyped
<1>7. /\ DOMAIN r.session = DOMAIN session /\ r.session.private = session.private
      /\ r.natpmp.state = "IDLE" /\ r.natpmp.mapped => r.session.public = r.natpmp.public
  BY <1>4 DEF MapInv, MapTyped, Map!natpmpStatus
<1>8. /\ DOMAIN r.shared = SharedFields /\ r.shared.alive = s.alive /\ r.shared.isEnabled = s.isEnabled
      /\ r.shared.timer = s.timer /\ r.shared.natpmpStatus = Map!natpmpStatus(r.natpmp)
  BY <1>4 DEF SharedFields
<1> QED
  BY <1>2, <1>3, <1>4, <1>5, <1>6, <1>7, <1>8 DEF PulseLeaves

\* The machines go on after a pulse, whatever it does to the timer and to the change of the port.
LEMMA PulseGoesOn ==
  ASSUME MapInv, NEW s, s.alive = TRUE, s.isEnabled = TRUE, NEW r, PulseLeaves(r, s),
         NEW t, t.session.private = r.session.private, t.session.public = r.session.public,
         DOMAIN t.session = DOMAIN r.session,
         DOMAIN t.shared = SharedFields, t.shared.alive = TRUE, t.shared.isEnabled = TRUE,
         t.shared.timer = TRUE, t.shared.natpmpStatus = r.shared.natpmpStatus,
         t.natpmp = r.natpmp, t.upnp = r.upnp, t.left = r.left, t.router = r.router,
         Map!Becomes(t), stray' \in 0 .. MaxStray
  PROVE  MapInv'
<1>1. /\ natpmp' = r.natpmp /\ upnp' = r.upnp /\ left' = r.left /\ router' = r.router
      /\ session' = t.session /\ shared' = t.shared
      /\ overtaken' = (overtaken /\ r.natpmp.state \in {"RECV_MAP", "IDLE"})
  BY DEF Map!Becomes
<1>2. MapTyped'
  <2>1. r.router.pmp \subseteq Ports
    BY DEF PulseLeaves, NatOk, Lets
  <2>2. r.router.upnp \subseteq Map!Protocols \X Ports
    BY DEF PulseLeaves, UpOk, UpTyped
  <2>3. Map!Protocols' = Map!Protocols
    BY DEF Map!Protocols
  <2> QED
    BY <1>1, <2>1, <2>2, <2>3 DEF MapInv, MapTyped, PulseLeaves
<1>3. (NatOk(NatIs, session.private, overtaken))'
  <2> DEFINE x == [nat |-> r.natpmp, pmp |-> r.router.pmp, left |-> r.left]
             o == overtaken /\ r.natpmp.state \in {"RECV_MAP", "IDLE"}
  <2>1. NatOk(x, session.private, overtaken) /\ x.nat = r.natpmp
    BY DEF PulseLeaves
  <2> HIDE DEF x
  <2>2. NatOk(x, session.private, o)
    BY <2>1 DEF NatOk, Where
  <2>3. NatIs' = x /\ session'.private = session.private
    BY <1>1 DEF NatIs, x, PulseLeaves
  <2> QED
    BY <1>1, <2>2, <2>3 DEF NatOk, NatTyped, Where, Lets, Known
<1>4. (UpOk(UpIs))'
  <2>1. UpIs' = [upnp |-> r.upnp, at |-> r.router.upnp, left |-> r.left]
    BY <1>1 DEF UpIs
  <2> QED
    BY <2>1 DEF PulseLeaves, UpOk, UpTyped, Held, Map!Protocols
<1>5. Machines'
  <2>1. (shared.natpmpStatus = Map!natpmpStatus(natpmp))'
    BY <1>1 DEF PulseLeaves, Map!natpmpStatus
  <2>2. (natpmp.state = "IDLE" /\ natpmp.mapped =>
          /\ session.public = natpmp.public
          /\ natpmp.sure => overtaken \/ natpmp.private = session.private)'
    BY <1>1 DEF PulseLeaves, Current
  <2> QED
    BY <1>1, <1>3, <1>4, <2>1, <2>2 DEF Machines
<1> QED
  BY <1>1, <1>2, <1>5 DEF MapInv

\* stop_forwarding: the machines are gone, and what they may have left is not forgotten.
LEMMA StopKeeps ==
  ASSUME MapInv, NEW s, DOMAIN s = SharedFields, s.alive \in BOOLEAN, s.isEnabled \in BOOLEAN,
         ~(s.isEnabled /\ s.alive), s.alive => ~s.isEnabled, Map!stop_forwarding(s), UNCHANGED stray
  PROVE  MapInv'
<1>1. PICK r \in Map!natPulse(s, FALSE) :
        Map!Becomes([r EXCEPT !.natpmp = Map!None, !.upnp = Map!None, !.left = @ \/ Map!Hasty(r),
                      !.shared = [r.shared EXCEPT !.natpmpStatus = "UNMAPPED",
                                                  !.upnpStatus = "UNMAPPED", !.timer = FALSE]])
  BY DEF Map!stop_forwarding
<1>2. PulseLeaves(r, s)
  BY PulseIs
<1> DEFINE sh == [r.shared EXCEPT !.natpmpStatus = "UNMAPPED", !.upnpStatus = "UNMAPPED", !.timer = FALSE]
<1>3. /\ DOMAIN sh = SharedFields /\ sh.natpmpStatus = "UNMAPPED" /\ sh.timer = FALSE
      /\ sh.alive = s.alive /\ sh.isEnabled = s.isEnabled
  BY <1>2 DEF PulseLeaves, SharedFields
<1> HIDE DEF sh
<1>4. /\ natpmp' = Map!None /\ upnp' = Map!None /\ left' = (r.left \/ Map!Hasty(r))
      /\ router' = r.router /\ session' = r.session /\ shared' = sh
  BY <1>1, <1>2 DEF PulseLeaves, Map!Becomes, sh
<1>5. MapTyped'
  <2>1. r.router.pmp \subseteq Ports
    BY <1>2 DEF PulseLeaves, NatOk, Lets
  <2>2. r.router.upnp \subseteq Map!Protocols \X Ports
    BY <1>2 DEF PulseLeaves, UpOk, UpTyped
  <2>3. Map!Protocols' = Map!Protocols
    BY DEF Map!Protocols
  <2>4. /\ DOMAIN r.router = {"pmp", "upnp", "kind"} /\ DOMAIN r.session = {"private", "public", "changed"}
        /\ r.session.private \in Ports
    BY <1>2 DEF PulseLeaves, MapInv, MapTyped
  <2>5. shared.alive' \in BOOLEAN /\ shared.isEnabled' \in BOOLEAN /\ shared.timer' \in BOOLEAN
    BY <1>3, <1>4
  <2> QED
    BY <1>3, <1>4, <2>1, <2>2, <2>3, <2>4, <2>5 DEF MapInv, MapTyped
<1>6. NoMachine'
  <2>1. r.left \/ Map!Hasty(r) \/ r.router.pmp = {}
    BY <1>2 DEF PulseLeaves, NatOk, Known, Map!Hasty
  <2>2. r.left \/ r.router.upnp = {}
    BY <1>2 DEF PulseLeaves, UpOk, UpTyped, Held
  <2>3. Map!None' = Map!None
    BY DEF Map!None
  <2> QED
    BY <1>3, <1>4, <2>1, <2>2, <2>3 DEF NoMachine
<1> QED
  BY <1>3, <1>4, <1>5, <1>6 DEF MapInv

\* What Armed leaves.
LEMMA ArmedIs ==
  ASSUME NEW s, DOMAIN s = SharedFields
  PROVE  /\ DOMAIN Map!Armed(s) = SharedFields /\ Map!Armed(s).alive = s.alive
         /\ Map!Armed(s).isEnabled = s.isEnabled /\ Map!Armed(s).timer = s.timer
         /\ Map!Armed(s).natpmpStatus = s.natpmpStatus
BY DEF Map!Armed, SharedFields

\* Machines that run belong to a timer that runs, and a change of the switch is for both.
LEMMA OnIs ==
  ASSUME MapInv, shared.alive, shared.timer \/ shared.isEnabled
  PROVE  shared.alive = TRUE /\ shared.isEnabled = TRUE /\ shared.timer = TRUE
BY DEF MapInv, MapTyped

\* The timer, or a stray one.
LEMMA TimerKeeps ==
  ASSUME MapInv, Map!onTimer
  PROVE  MapInv'
<1>1. PICK r \in Map!natPulse(shared, shared.doPortCheck) :
        Map!Becomes([r EXCEPT !.shared = Map!Armed([r.shared EXCEPT !.doPortCheck = FALSE])])
  BY DEF Map!onTimer
<1>2. shared.alive = TRUE /\ shared.isEnabled = TRUE /\ shared.timer = TRUE /\ stray' \in 0 .. MaxStray
  BY OnIs DEF Map!onTimer, MapInv, MapTyped
<1>3. PulseLeaves(r, shared)
  BY PulseIs DEF MapInv, MapTyped
<1> DEFINE sh == Map!Armed([r.shared EXCEPT !.doPortCheck = FALSE])
           t == [r EXCEPT !.shared = sh]
<1>4. /\ DOMAIN sh = SharedFields /\ sh.alive = TRUE /\ sh.isEnabled = TRUE /\ sh.timer = TRUE
      /\ sh.natpmpStatus = r.shared.natpmpStatus
  <2> DEFINE s == [r.shared EXCEPT !.doPortCheck = FALSE]
  <2>1. /\ DOMAIN s = SharedFields /\ s.alive = TRUE /\ s.isEnabled = TRUE /\ s.timer = TRUE
        /\ s.natpmpStatus = r.shared.natpmpStatus
    BY <1>2, <1>3 DEF PulseLeaves, SharedFields
  <2> HIDE DEF s
  <2>2. sh = Map!Armed(s)
    BY DEF s
  <2> QED
    BY <2>1, <2>2, ArmedIs
<1> HIDE DEF sh
<1>5. /\ t.session = r.session /\ t.shared = sh /\ t.natpmp = r.natpmp /\ t.upnp = r.upnp
      /\ t.left = r.left /\ t.router = r.router /\ Map!Becomes(t)
  BY <1>1, <1>3 DEF PulseLeaves, sh
<1> HIDE DEF t
<1> QED
  BY <1>2, <1>3, <1>4, <1>5, PulseGoesOn

\* start_timer starts one more.
LEMMA StartedIs ==
  ASSUME NEW s, DOMAIN s = SharedFields
  PROVE  /\ DOMAIN Map!start_timer(s) = SharedFields /\ Map!start_timer(s).alive = s.alive
         /\ Map!start_timer(s).isEnabled = s.isEnabled /\ Map!start_timer(s).timer = TRUE
         /\ Map!start_timer(s).natpmpStatus = s.natpmpStatus
<1> DEFINE t == [s EXCEPT !.timer = TRUE]
<1>1. /\ DOMAIN t = SharedFields /\ t.alive = s.alive /\ t.isEnabled = s.isEnabled /\ t.timer = TRUE
      /\ t.natpmpStatus = s.natpmpStatus
  BY DEF SharedFields
<1> HIDE DEF t
<1>2. Map!start_timer(s) = Map!Armed(t)
  BY DEF Map!start_timer, t
<1> QED
  BY <1>1, <1>2, ArmedIs

\* The change of the port arrives.
LEMMA PortChangedKeeps ==
  ASSUME MapInv, Map!tr_sharedPortChanged
  PROVE  MapInv'
<1>1. CASE shared.isEnabled
  <2>1. PICK r \in Map!natPulse(shared, FALSE) :
          Map!Becomes([r EXCEPT !.shared = Map!start_timer(r.shared), !.session.changed = FALSE])
    BY <1>1 DEF Map!tr_sharedPortChanged
  <2>2. shared.alive = TRUE /\ shared.isEnabled = TRUE /\ shared.timer = TRUE /\ stray' \in 0 .. MaxStray
    BY <1>1, OnIs DEF Map!tr_sharedPortChanged, MapInv, MapTyped
  <2>3. PulseLeaves(r, shared)
    BY PulseIs DEF MapInv, MapTyped
  <2> DEFINE se == [r.session EXCEPT !.changed = FALSE]
             t == [r EXCEPT !.shared = Map!start_timer(r.shared), !.session = se]
  <2>4. se.private = r.session.private /\ se.public = r.session.public /\ DOMAIN se = DOMAIN r.session
    BY <2>3 DEF PulseLeaves, MapInv, MapTyped
  <2>5. t = [r EXCEPT !.shared = Map!start_timer(r.shared), !.session.changed = FALSE]
    BY <2>3 DEF PulseLeaves
  <2> HIDE DEF se
  <2>6. /\ t.session = se /\ t.shared = Map!start_timer(r.shared) /\ t.natpmp = r.natpmp
        /\ t.upnp = r.upnp /\ t.left = r.left /\ t.router = r.router
    BY <2>3 DEF PulseLeaves
  <2>7. Map!Becomes(t)
    BY <2>1, <2>5
  <2> HIDE DEF t
  <2>8. /\ DOMAIN t.shared = SharedFields /\ t.shared.alive = TRUE /\ t.shared.isEnabled = TRUE
        /\ t.shared.timer = TRUE /\ t.shared.natpmpStatus = r.shared.natpmpStatus
    <3>1. /\ DOMAIN r.shared = SharedFields /\ r.shared.alive = TRUE /\ r.shared.isEnabled = TRUE
      BY <2>2, <2>3 DEF PulseLeaves
    <3> QED
      BY <2>6, <3>1, StartedIs
  <2> QED
    BY <2>2, <2>3, <2>4, <2>6, <2>7, <2>8, PulseGoesOn
<1>2. CASE ~shared.isEnabled
  <2>1. /\ session' = [session EXCEPT !.changed = FALSE]
        /\ UNCHANGED <<shared, natpmp, upnp, overtaken, router, left, stray>>
    BY <1>2 DEF Map!tr_sharedPortChanged
  <2>2. DOMAIN session' = DOMAIN session /\ session'.private = session.private
    BY <2>1 DEF MapInv, MapTyped
  <2>3. NoMachine
    BY <1>2 DEF MapInv, Machines
  <2> QED
    BY <2>1, <2>2, <2>3 DEF MapInv, MapTyped, NoMachine, Map!None, Map!Protocols
<1> QED
  BY <1>1, <1>2

\* Forwarding is switched on, and a timer more.
LEMMA EnableKeeps ==
  ASSUME MapInv, Map!TraversalEnable
  PROVE  MapInv'
<1> DEFINE s == [shared EXCEPT !.isEnabled = TRUE]
<1>1. /\ DOMAIN s = SharedFields /\ s.alive = TRUE /\ s.isEnabled = TRUE
      /\ s.natpmpStatus = shared.natpmpStatus
  BY DEF Map!TraversalEnable, MapInv, MapTyped, SharedFields
<1> HIDE DEF s
<1>2. /\ DOMAIN shared' = SharedFields /\ shared'.alive = TRUE /\ shared'.isEnabled = TRUE
      /\ shared'.timer = TRUE /\ shared'.natpmpStatus = shared.natpmpStatus
  BY <1>1, StartedIs DEF Map!TraversalEnable, s
<1>3. UNCHANGED <<natpmp, upnp, session, overtaken, router, left>> /\ stray' \in 0 .. MaxStray
  BY PortsAssumption DEF Map!TraversalEnable, MapInv, MapTyped
<1>4. MapTyped'
  BY <1>2, <1>3 DEF MapInv, MapTyped, Map!Protocols
<1>5. CASE NoMachine
  BY <1>2, <1>3, <1>4, <1>5 DEF MapInv, NoMachine, Map!None
<1>6. CASE Machines
  <2>1. (NatOk(NatIs, session.private, overtaken))'
    BY <1>3, <1>6 DEF Machines, NatIs, NatOk, NatTyped, Where, Lets, Known
  <2>2. (UpOk(UpIs))'
    BY <1>3, <1>6 DEF Machines, UpIs, UpOk, UpTyped, Held, Map!Protocols
  <2> QED
    BY <1>2, <1>3, <1>4, <1>6, <2>1, <2>2 DEF MapInv, Machines, Map!natpmpStatus
<1> QED
  BY <1>5, <1>6 DEF MapInv

\* Another port, while the machines are somewhere.
LEMMA SetPortKeeps ==
  ASSUME MapInv, Map!setPeerPort
  PROVE  MapInv'
<1>1. PICK p \in Ports \ {session.private} : session' = [private |-> p, public |-> p, changed |-> TRUE]
  BY DEF Map!setPeerPort
<1>2. /\ UNCHANGED <<shared, stray, natpmp, upnp, router>>
      /\ overtaken' = (natpmp.state = "RECV_MAP")
      /\ left' = (left \/ (natpmp.state = "SEND_MAP" /\ natpmp.mapped))
  BY DEF Map!setPeerPort
<1>3. DOMAIN session' = {"private", "public", "changed"} /\ session'.private = p /\ session'.changed
  BY <1>1
<1>4. MapTyped'
  BY <1>2, <1>3 DEF MapInv, MapTyped, Map!Protocols
<1>5. CASE NoMachine
  BY <1>2, <1>4, <1>5 DEF MapInv, NoMachine, Map!None
<1>6. CASE Machines
  <2>1. (NatOk(NatIs, session.private, overtaken))'
    <3>1. /\ NatTyped(natpmp) /\ Where(natpmp, session.private, overtaken) /\ Lets(natpmp, router.pmp)
          /\ left \/ Known(natpmp, router.pmp, session.private)
      BY <1>6 DEF Machines, NatOk, NatIs
    <3>2. Where(natpmp, p, overtaken')
      BY <1>2, <3>1 DEF Where
    <3>3. left' \/ Known(natpmp, router.pmp, p)
      BY <1>2, <3>1 DEF Known
    <3>4. /\ DOMAIN NatIs' = {"nat", "pmp", "left"} /\ NatIs'.nat = natpmp /\ NatIs'.pmp = router.pmp
          /\ NatIs'.left = left'
      BY <1>2 DEF NatIs
    <3>5. NatOk(NatIs', p, overtaken')
      BY <3>1, <3>2, <3>3, <3>4 DEF NatOk
    <3> QED
      BY <1>3, <3>5 DEF NatOk, NatTyped, Where, Lets, Known
  <2>2. (UpOk(UpIs))'
    BY <1>2, <1>6 DEF Machines, UpIs, UpOk, UpTyped, Held, Map!Protocols
  <2> QED
    BY <1>2, <1>3, <1>4, <1>6, <2>1, <2>2 DEF MapInv, Machines, Map!natpmpStatus
<1> QED
  BY <1>5, <1>6 DEF MapInv

\* Time goes by for a machine, and the router forgets.
LEMMA TimeKeeps ==
  ASSUME MapInv, Map!Later \/ Map!RouterForgets
  PROVE  MapInv'
<1>1. CASE Map!Later
  <2>1. UNCHANGED <<shared, stray, upnp, session, overtaken, router, left>> /\ Machines
    BY <1>1 DEF Map!Later, MapInv, NoMachine
  <2>2. NatTyped(natpmp) /\ DOMAIN natpmp = NatFields
    BY <2>1 DEF Machines, NatOk, NatIs, NatTyped
  <2>3. /\ DOMAIN natpmp' = NatFields /\ natpmp'.state = natpmp.state /\ natpmp'.mapped = natpmp.mapped
        /\ natpmp'.private = natpmp.private /\ natpmp'.public = natpmp.public
        /\ natpmp'.asked = natpmp.asked /\ natpmp'.sure = natpmp.sure
    BY <1>1, <2>2 DEF Map!Later, NatFields
  <2>4. (NatOk(NatIs, session.private, overtaken))'
    BY <2>1, <2>3 DEF Machines, NatOk, NatIs, NatTyped, Where, Lets, Known
  <2>5. (UpOk(UpIs))'
    BY <2>1 DEF Machines, UpIs, UpOk, UpTyped, Held, Map!Protocols
  <2>6. MapTyped'
    BY <2>1 DEF MapInv, MapTyped, Map!Protocols
  <2> QED
    BY <2>1, <2>3, <2>4, <2>5, <2>6 DEF MapInv, Machines, Map!natpmpStatus
<1>2. CASE Map!RouterForgets
  <2>1. /\ DOMAIN router' = {"pmp", "upnp", "kind"} /\ router'.pmp \subseteq router.pmp
        /\ router'.upnp \subseteq router.upnp
        /\ \/ natpmp' = natpmp /\ router'.pmp = router.pmp
           \/ natpmp' = natpmp /\ ~natpmp.mapped
           \/ natpmp' = [natpmp EXCEPT !.sure = FALSE] /\ natpmp.mapped
    BY <1>2 DEF Map!RouterForgets, MapInv, MapTyped
  <2>2. UNCHANGED <<shared, stray, upnp, session, overtaken, left>>
    BY <1>2 DEF Map!RouterForgets
  <2>3. MapTyped'
    BY <2>1, <2>2 DEF MapInv, MapTyped, Map!Protocols
  <2>4. CASE NoMachine
    <3>1. natpmp' = Map!None
      BY <2>1, <2>4 DEF NoMachine, Map!None
    <3> QED
      BY <2>1, <2>2, <2>3, <2>4, <3>1 DEF MapInv, NoMachine, Map!None
  <2>5. CASE Machines
    <3>1. NatTyped(natpmp) /\ DOMAIN natpmp = NatFields
      BY <2>5 DEF Machines, NatOk, NatIs, NatTyped
    <3>2. /\ DOMAIN natpmp' = NatFields /\ natpmp'.state = natpmp.state /\ natpmp'.mapped = natpmp.mapped
          /\ natpmp'.private = natpmp.private /\ natpmp'.public = natpmp.public
          /\ natpmp'.asked = natpmp.asked
      BY <2>1, <3>1 DEF NatFields
    <3>3. natpmp'.mapped /\ natpmp'.sure => natpmp.sure /\ router'.pmp = router.pmp
      BY <2>1, <3>1, <3>2 DEF NatFields
    <3>4. (NatOk(NatIs, session.private, overtaken))'
      BY <2>1, <2>2, <2>5, <3>2, <3>3 DEF Machines, NatOk, NatIs, NatTyped, Where, Lets, Known
    <3>5. (UpOk(UpIs))'
      <4>1. /\ UpIs' = [upnp |-> upnp, at |-> router'.upnp, left |-> left]
            /\ UpIs = [upnp |-> upnp, at |-> router.upnp, left |-> left]
        BY <2>2 DEF UpIs
      <4>2. UpOk(UpIs)
        BY <2>5 DEF Machines
      <4> QED
        BY <2>1, <4>1, <4>2 DEF UpOk, UpTyped, Held, Map!Protocols
    <3> QED
      BY <2>2, <2>3, <2>5, <3>2, <3>3, <3>4, <3>5 DEF MapInv, Machines, Map!natpmpStatus
  <2> QED
    BY <2>4, <2>5 DEF MapInv
<1> QED
  BY <1>1, <1>2

\* Every step of the port forwarding keeps the invariant.
LEMMA MapNext ==
  ASSUME MapInv, Map!Next
  PROVE  MapInv'
<1>1. CASE Map!TraversalDisable
  <2> DEFINE s == [shared EXCEPT !.isEnabled = FALSE]
  <2>1. DOMAIN s = SharedFields /\ s.alive \in BOOLEAN /\ s.isEnabled = FALSE
    BY DEF MapInv, MapTyped, SharedFields
  <2>2. Map!stop_forwarding(s) /\ UNCHANGED stray
    BY <1>1 DEF Map!TraversalDisable
  <2> HIDE DEF s
  <2> QED
    BY <2>1, <2>2, StopKeeps
<1>2. CASE Map!tr_sharedClose
  <2> DEFINE s == [shared EXCEPT !.alive = FALSE]
  <2>1. DOMAIN s = SharedFields /\ s.alive = FALSE /\ s.isEnabled \in BOOLEAN
    BY DEF MapInv, MapTyped, SharedFields
  <2>2. Map!stop_forwarding(s) /\ UNCHANGED stray
    BY <1>2 DEF Map!tr_sharedClose
  <2> HIDE DEF s
  <2> QED
    BY <2>1, <2>2, StopKeeps
<1> QED
  BY <1>1, <1>2, TimerKeeps, PortChangedKeeps, EnableKeeps, SetPortKeeps, TimeKeeps DEF Map!Next

\* The invariant is about nothing else.
LEMMA MapStays ==
  ASSUME MapInv, UNCHANGED mapVars
  PROVE  MapInv'
<1>1. UNCHANGED <<shared, stray, natpmp, upnp, session, overtaken, router, left>>
  BY DEF mapVars
<1> QED
  BY <1>1 DEF MapInv, MapTyped, NoMachine, Machines, NatIs, UpIs, NatOk, NatTyped, Where, Lets, Known,
              UpOk, UpTyped, Held, Map!Protocols, Map!None, Map!natpmpStatus

-----------------------------------------------------------------------------
(* The local network. *)

Allowed == {t \in Near!Members : Near!Allows(t)}

\* The torrents that will not be due before t has waited for an interval, when t has for n.
Ahead(t, when, n) == {u \in Allowed \ {t} : when[u] + n >= Interval}

\* Messages are counted, and the longer a torrent has been due, the more were announced since.
LpdTyped ==
  /\ at \in [Near!Members -> Nat] /\ late \in [Near!Members -> Nat]
  /\ DOMAIN lpd = {"on", "left"} /\ lpd.on \in BOOLEAN
InTurn ==
  Cardinality(Allowed) <= Interval => \A t \in Allowed : late[t] <= Cardinality(Ahead(t, at, late[t]))
Flood == lpd.left \in -1 .. Cap /\ heard \in 0 .. Cap /\ (lpd.left > 0 => heard + lpd.left <= Cap)
LpdInv == LpdTyped /\ InTurn /\ Flood

\* A session has finitely many torrents, and some others are ahead of one.
LEMMA AllowedIsFinite ==
  /\ IsFiniteSet(Allowed) /\ Cardinality(Allowed) \in Nat
  /\ \A t \in Allowed : \A when, n :
       /\ IsFiniteSet(Ahead(t, when, n)) /\ Cardinality(Ahead(t, when, n)) \in Nat
       /\ Cardinality(Ahead(t, when, n)) <= Cardinality(Allowed) - 1
<1> DEFINE f == [i \in 1 .. Len(List) |-> List[i]]
           R == {List[i] : i \in 1 .. Len(List)}
<1>1. Near!Members = R
  BY PeersAssumption DEF Near!Members, Near!Range
<1>2. f \in Surjection(1 .. Len(List), R)
  BY DEF Surjection
<1>3. IsFiniteSet(1 .. Len(List))
  BY PeersAssumption, FS_Interval
<1>4. IsFiniteSet(R)
  BY <1>2, <1>3, FS_Surjection
<1>5. Allowed \in SUBSET R
  BY <1>1 DEF Allowed
<1>6. IsFiniteSet(Allowed)
  BY <1>4, <1>5, FS_Subset
<1>7. Cardinality(Allowed) \in Nat
  BY <1>6, FS_CardinalityType
<1>8. ASSUME NEW t \in Allowed, NEW when, NEW n
      PROVE  /\ IsFiniteSet(Ahead(t, when, n)) /\ Cardinality(Ahead(t, when, n)) \in Nat
             /\ Cardinality(Ahead(t, when, n)) <= Cardinality(Allowed) - 1
  <2> DEFINE S == Allowed \ {t}
  <2>1. IsFiniteSet(S) /\ Cardinality(S) = Cardinality(Allowed) - 1
    BY <1>6, FS_RemoveElement
  <2>2. Ahead(t, when, n) \in SUBSET S
    BY DEF Ahead
  <2> HIDE DEF S
  <2>3. IsFiniteSet(Ahead(t, when, n)) /\ Cardinality(Ahead(t, when, n)) <= Cardinality(S)
    BY <2>1, <2>2, FS_Subset
  <2> QED
    BY <2>1, <2>3, FS_CardinalityType
<1> QED
  BY <1>6, <1>7, <1>8

\* One that is due is announced, if there is one.
LEMMA FirstDueIs ==
  /\ (\A t \in Near!Members : ~Near!Due(t)) => Near!FirstDue = {}
  /\ (\E t \in Near!Members : Near!Due(t)) =>
       \E v \in Near!Members : Near!Due(v) /\ Near!FirstDue = {v}
<1> DEFINE first == {i \in 1 .. Len(List) : Near!Due(List[i])}
<1>1. Near!Members = {List[i] : i \in 1 .. Len(List)}
  BY PeersAssumption DEF Near!Members, Near!Range
<1>2. Near!FirstDue = IF first = {} THEN {} ELSE {List[Near!Min(first)]}
  BY DEF Near!FirstDue
<1>3. first \in SUBSET Nat
  OBVIOUS
<1>4. (\E t \in Near!Members : Near!Due(t)) <=> first # {}
  BY <1>1
<1>5. first # {} => Near!Min(first) \in first
  <2> HIDE DEF first
  <2> SUFFICES ASSUME first # {} PROVE Near!Min(first) \in first
    OBVIOUS
  <2>1. \E m \in first : \A k \in first : m <= k
    BY <1>3, LeastNumber
  <2> QED
    BY <2>1 DEF Near!Min
<1>6. first # {} => Near!Min(first) \in 1 .. Len(List) /\ Near!Due(List[Near!Min(first)])
  BY <1>5
<1> HIDE DEF first
<1> QED
  BY <1>1, <1>2, <1>4, <1>6

\* A torrent that waits while another is announced has one more ahead of it: the other was not, for
\* it was due.
LEMMA OneMoreAhead ==
  ASSUME LpdInv, Near!tr_lpdAnnounceMore, lpd.on, Cardinality(Allowed) <= Interval,
         NEW t \in Allowed, Near!Due(t), t \notin Near!FirstDue
  PROVE  late[t] + 1 <= Cardinality(Ahead(t, at', late[t] + 1))
<1>1. PICK v \in Near!Members : Near!Due(v) /\ Near!FirstDue = {v}
  BY FirstDueIs DEF Allowed
<1>2. v \in Allowed \ {t} /\ at[v] = 0
  BY <1>1 DEF Near!Due, Allowed
<1> DEFINE A == Ahead(t, at, late[t])
           B == Ahead(t, at', late[t] + 1)
<1>3. IsFiniteSet(A) /\ Cardinality(A) \in Nat /\ Cardinality(A) <= Cardinality(Allowed) - 1
  BY AllowedIsFinite
<1>4. IsFiniteSet(B) /\ Cardinality(B) \in Nat
  BY AllowedIsFinite
<1>5. late[t] \in Nat /\ late[t] <= Cardinality(A)
  BY DEF LpdInv, LpdTyped, InTurn, Allowed
<1>6. v \notin A
  BY <1>2, <1>3, <1>5, AllowedIsFinite, PeersAssumption DEF Ahead
<1>7. \A u \in Near!Members :
        at'[u] = Near!Down(IF u \in {v} THEN Interval * Near!announcePrio(u) ELSE at[u])
  BY <1>1 DEF Near!tr_lpdAnnounceMore
<1>8. Interval * Near!announcePrio(v) >= Interval /\ Interval * Near!announcePrio(v) \in Nat
  BY PeersAssumption DEF Near!announcePrio
<1>9. at'[v] >= Interval - 1 /\ at'[v] \in Nat
  BY <1>7, <1>8, PeersAssumption DEF Near!Down
<1>10. A \cup {v} \in SUBSET B
  <2>1. v \in B
    BY <1>2, <1>5, <1>9, PeersAssumption DEF Ahead
  <2>2. ASSUME NEW u \in A PROVE u \in B
    <3>1. u \in Allowed \ {t} /\ at[u] + late[t] >= Interval /\ u # v /\ u \in Near!Members /\ at[u] \in Nat
      BY <1>6 DEF Ahead, Allowed, LpdInv, LpdTyped
    <3>2. at'[u] = Near!Down(at[u])
      BY <1>7, <3>1
    <3>3. at'[u] + (late[t] + 1) >= Interval
      BY <1>5, <3>1, <3>2, PeersAssumption DEF Near!Down
    <3> QED
      BY <3>1, <3>3 DEF Ahead
  <2> QED
    BY <2>1, <2>2
<1> HIDE DEF A, B
<1>11. Cardinality(A \cup {v}) = Cardinality(A) + 1
  BY <1>3, <1>6, FS_AddElement
<1>12. Cardinality(A \cup {v}) <= Cardinality(B)
  BY <1>4, <1>10, FS_Subset
<1> QED
  BY <1>3, <1>4, <1>5, <1>11, <1>12 DEF B

\* None that has not waited waits too long.
LEMMA ZeroIsInTurn ==
  ASSUME NEW t \in Allowed, NEW when
  PROVE  0 <= Cardinality(Ahead(t, when, 0))
BY AllowedIsFinite

\* An announcement keeps the invariant.
LEMMA AnnounceMoreKeeps ==
  ASSUME LpdInv, Near!tr_lpdAnnounceMore
  PROVE  LpdInv'
<1>1. /\ at' \in [Near!Members -> Nat] /\ late' \in [Near!Members -> Nat]
  <2>1. ASSUME NEW t \in Near!Members, NEW sent
        PROVE  Near!Down(IF t \in sent THEN Interval * Near!announcePrio(t) ELSE at[t]) \in Nat
    <3>1. Interval * Near!announcePrio(t) \in Nat /\ at[t] \in Nat
      BY PeersAssumption DEF Near!announcePrio, LpdInv, LpdTyped
    <3> QED
      BY <3>1 DEF Near!Down
  <2> DEFINE sent == IF lpd.on THEN Near!FirstDue ELSE {}
  <2>2. /\ at' = [t \in Near!Members |->
                    Near!Down(IF t \in sent THEN Interval * Near!announcePrio(t) ELSE at[t])]
        /\ late' = [t \in Near!Members |->
                    IF lpd.on /\ Near!Due(t) /\ t \notin sent THEN late[t] + 1 ELSE 0]
    BY DEF Near!tr_lpdAnnounceMore
  <2> HIDE DEF sent
  <2>3. \A t \in Near!Members : late[t] \in Nat
    BY DEF LpdInv, LpdTyped
  <2> QED
    BY <2>1, <2>2, <2>3
<1>2. /\ DOMAIN lpd' = {"on", "left"} /\ lpd'.on = lpd.on /\ lpd'.left = IF lpd.on THEN Cap ELSE lpd.left
      /\ heard' = IF lpd.on THEN 0 ELSE heard
  BY DEF Near!tr_lpdAnnounceMore, LpdInv, LpdTyped
<1>3. InTurn'
  <2> SUFFICES ASSUME Cardinality(Allowed) <= Interval, NEW t \in Allowed
               PROVE  late'[t] <= Cardinality(Ahead(t, at', late'[t]))
    BY DEF InTurn, Allowed, Ahead, Near!Allows
  <2>1. t \in Near!Members
    BY DEF Allowed
  <2>2. CASE lpd.on /\ Near!Due(t) /\ t \notin Near!FirstDue
    <3>1. late'[t] = late[t] + 1
      BY <2>1, <2>2 DEF Near!tr_lpdAnnounceMore
    <3> QED
      BY <2>2, <3>1, OneMoreAhead
  <2>3. CASE ~(lpd.on /\ Near!Due(t) /\ t \notin Near!FirstDue)
    <3>1. late'[t] = 0
      BY <2>1, <2>3 DEF Near!tr_lpdAnnounceMore
    <3> QED
      BY <3>1, ZeroIsInTurn
  <2> QED
    BY <2>2, <2>3
<1>4. Flood'
  BY <1>2, PeersAssumption DEF LpdInv, Flood
<1> QED
  BY <1>1, <1>2, <1>3, <1>4 DEF LpdInv, LpdTyped

\* A torrent's turn is the same as it was, or it has not waited.
LEMMA SameTurn ==
  ASSUME LpdInv, NEW late2, NEW at2,
         \A t \in Allowed : late2[t] = 0 \/ (late2[t] = late[t] /\ at2 = at),
         Cardinality(Allowed) <= Interval, NEW t \in Allowed
  PROVE  late2[t] <= Cardinality(Ahead(t, at2, late2[t]))
<1>1. CASE late2[t] = 0
  BY <1>1, ZeroIsInTurn
<1>2. CASE late2[t] = late[t] /\ at2 = at
  BY <1>2 DEF LpdInv, InTurn
<1> QED
  BY <1>1, <1>2

\* Every step of the local network keeps the invariant.
LEMMA LpdNext ==
  ASSUME LpdInv, Near!LpdNext
  PROVE  LpdInv'
<1>1. CASE Near!tr_lpdAnnounceMore
  BY <1>1, AnnounceMoreKeeps
<1>2. CASE Near!event_callback
  <2>1. /\ UNCHANGED <<at, late>> /\ DOMAIN lpd' = {"on", "left"} /\ lpd'.on = lpd.on
        /\ lpd.left >= 0 /\ lpd'.left = lpd.left - 1
        /\ heard' = IF lpd.left > 0 THEN heard + 1 ELSE heard
    BY <1>2 DEF Near!event_callback, LpdInv, LpdTyped
  <2>2. Flood'
    <3> DEFINE budget == lpd.left
    <3>1. /\ Cap \in Nat /\ budget \in 0 .. Cap /\ heard \in 0 .. Cap /\ (budget > 0 => heard + budget <= Cap)
          /\ lpd'.left = budget - 1 /\ heard' = IF budget > 0 THEN heard + 1 ELSE heard
      BY <2>1, PeersAssumption DEF LpdInv, Flood
    <3> HIDE DEF budget
    <3>2. budget - 1 \in -1 .. Cap
      BY <3>1
    <3>3. heard' \in 0 .. Cap /\ (budget - 1 > 0 => heard' + (budget - 1) <= Cap)
      <4>1. CASE budget > 0
        BY <3>1, <4>1
      <4>2. CASE budget = 0
        BY <3>1, <4>2
      <4> QED
        BY <3>1, <4>1, <4>2
    <3> QED
      BY <3>1, <3>2, <3>3 DEF Flood
  <2> QED
    BY <2>1, <2>2 DEF LpdInv, LpdTyped, InTurn, Ahead, Allowed, Near!Allows
<1>3. CASE Near!toggleLPD
  <2>1. /\ at' = at /\ heard' = heard /\ late' = [t \in Near!Members |-> 0]
        /\ DOMAIN lpd' = {"on", "left"} /\ lpd'.on \in BOOLEAN /\ lpd'.left = lpd.left
    BY <1>3 DEF Near!toggleLPD, LpdInv, LpdTyped
  <2>2. \A t \in Allowed : late'[t] = 0
    BY <2>1 DEF Allowed
  <2>3. InTurn'
    BY <2>2, SameTurn DEF InTurn, Ahead, Allowed, Near!Allows
  <2> QED
    BY <2>1, <2>3 DEF LpdInv, LpdTyped, Flood
<1>4. ASSUME NEW s \in Near!Members, Near!Start(s) PROVE LpdInv'
  <2>1. /\ UNCHANGED <<lpd, heard>> /\ late' = [t \in Near!Members |-> 0] /\ at' = [at EXCEPT ![s] = 0]
    BY <1>4 DEF Near!Start
  <2>2. \A t \in Allowed : late'[t] = 0
    BY <2>1 DEF Allowed
  <2>3. InTurn'
    BY <2>2, SameTurn DEF InTurn, Ahead, Allowed, Near!Allows
  <2> QED
    BY <2>1, <2>3 DEF LpdInv, LpdTyped, Flood
<1>5. ASSUME NEW s \in Near!Members, NEW state, Near!Becomes(s, state) PROVE LpdInv'
  <2>1. /\ UNCHANGED <<at, lpd, heard>> /\ late' = [late EXCEPT ![s] = 0]
    BY <1>5 DEF Near!Becomes
  <2>2. \A t \in Allowed : late'[t] = 0 \/ (late'[t] = late[t] /\ at' = at)
    BY <2>1 DEF Allowed, LpdInv, LpdTyped
  <2>3. InTurn'
    BY <2>2, SameTurn DEF InTurn, Ahead, Allowed, Near!Allows
  <2> QED
    BY <2>1, <2>3 DEF LpdInv, LpdTyped, Flood
<1> QED
  BY <1>1, <1>2, <1>3, <1>4, <1>5 DEF Near!LpdNext, Near!Stop, Near!Complete

\* It holds at first.
LEMMA LpdFirst ==
  ASSUME Near!InitLpd
  PROVE  LpdInv
<1>1. /\ at = [t \in Near!Members |-> 0] /\ lpd = [on |-> TRUE, left |-> 0]
      /\ late = [t \in Near!Members |-> 0] /\ heard = 0
  BY DEF Near!InitLpd
<1>2. InTurn
  BY <1>1, ZeroIsInTurn DEF InTurn, Allowed
<1> QED
  BY <1>1, <1>2, PeersAssumption DEF LpdInv, LpdTyped, Flood

\* It is about nothing else.
LEMMA LpdStays ==
  ASSUME LpdInv, UNCHANGED lpdVars
  PROVE  LpdInv'
<1>1. UNCHANGED <<at, lpd, late, heard>>
  BY DEF lpdVars
<1> QED
  BY <1>1 DEF LpdInv, LpdTyped, InTurn, Flood, Ahead, Allowed, Near!Allows

\* A torrent is ahead of another only if it is another.
LEMMA LpdIsSound ==
  ASSUME LpdInv
  PROVE  Near!NoneWaitsLong /\ Near!FloodIsCapped
<1>1. Near!NoneWaitsLong
  <2> SUFFICES ASSUME Cardinality(Allowed) <= Interval, NEW t \in Allowed
               PROVE  late[t] < Cardinality(Allowed)
    BY DEF Near!NoneWaitsLong, Allowed, Cardinality, Near!Cardinality
  <2>1. late[t] <= Cardinality(Ahead(t, at, late[t])) /\ late[t] \in Nat
    BY DEF LpdInv, LpdTyped, InTurn, Allowed
  <2> QED
    BY <2>1, AllowedIsFinite
<1>2. Near!FloodIsCapped
  BY DEF LpdInv, Flood, Near!FloodIsCapped
<1> QED
  BY <1>1, <1>2

-----------------------------------------------------------------------------
(* A torrent that the DHT is asked about. *)

AnnounceRec == [at : Nat, since : Nat, last : {"none", "failed", "fine"}]

\* What has been waited and what is still to be waited are not more than an interval.
OnTime(r) == r.at + r.since <= Find!Patience(r.last)
FindInv ==
  /\ announces \in [Find!Members -> [Find!Families -> AnnounceRec]]
  /\ \A t \in Find!Members, f \in Find!Families : OnTime(announces[t][f])

\* An upkeep of a torrent that is searched for.
LEMMA LaterIsOnTime ==
  ASSUME NEW r \in AnnounceRec, OnTime(r), NEW f \in Find!Families, NEW ok \in BOOLEAN
  PROVE  LET l == Find!Later(IF r.at = 0 THEN Find!Announced(r, f, ok) ELSE r, f)
         IN  l \in AnnounceRec /\ OnTime(l)
<1> DEFINE a == IF r.at = 0 THEN Find!Announced(r, f, ok) ELSE r
           l == Find!Later(a, f)
<1>1. /\ a \in AnnounceRec /\ a.at > 0
      /\ Find!Ready(f) => OnTime(a)
      /\ a.at <= Find!Patience(a.last)
  <2>1. CASE r.at # 0
    <3>1. a = r
      BY <2>1
    <3> HIDE DEF a
    <3> QED
      BY <2>1, <3>1, PeersAssumption DEF AnnounceRec, OnTime, Find!Patience
  <2>2. CASE r.at = 0
    <3>1. a = Find!Announced(r, f, ok)
      BY <2>2
    <3> HIDE DEF a
    <3>2. CASE ~Find!Ready(f) /\ Find!tr_dhtStatus(f) # Find!STOPPED
      <4>1. a = [r EXCEPT !.at = Retry, !.last = "failed"]
        BY <3>1, <3>2 DEF Find!Announced
      <4>2. a = [at |-> Retry, since |-> r.since, last |-> "failed"]
        BY <4>1 DEF AnnounceRec
      <4>3. r.since \in Nat
        BY DEF AnnounceRec
      <4> QED
        BY <3>2, <4>2, <4>3, PeersAssumption DEF AnnounceRec, Find!Patience
    <3>3. CASE Find!tr_dhtStatus(f) = Find!STOPPED
      <4>1. a = [r EXCEPT !.at = Again, !.last = "fine"]
        BY <3>1, <3>3 DEF Find!Announced
      <4>2. ~Find!Ready(f)
        BY <3>3 DEF Find!Ready, Find!STOPPED, Find!POOR
      <4>3. a = [at |-> Again, since |-> r.since, last |-> "fine"]
        BY <4>1 DEF AnnounceRec
      <4>4. r.since \in Nat
        BY DEF AnnounceRec
      <4> QED
        BY <4>2, <4>3, <4>4, PeersAssumption DEF AnnounceRec, Find!Patience
    <3>4. CASE Find!Ready(f) /\ Find!tr_dhtStatus(f) # Find!STOPPED
      <4>1. a = [at |-> IF ok THEN Again ELSE Retry, since |-> 0,
                 last |-> IF ok THEN "fine" ELSE "failed"]
        BY <3>1, <3>4 DEF Find!Announced
      <4> QED
        BY <4>1, PeersAssumption DEF AnnounceRec, OnTime, Find!Patience
    <3> QED
      BY <3>2, <3>3, <3>4
  <2> QED
    BY <2>1, <2>2
<1> HIDE DEF a
<1>2. l = [a EXCEPT !.at = a.at - 1,
                    !.since = IF ~Find!Ready(f) THEN 0 ELSE IF a.since > First + Again THEN a.since ELSE a.since + 1]
  BY <1>1 DEF Find!Later, Find!Down
<1>3. a.at \in Nat /\ a.since \in Nat /\ a.last \in {"none", "failed", "fine"}
  BY <1>1 DEF AnnounceRec
<1> DEFINE n == IF ~Find!Ready(f) THEN 0 ELSE IF a.since > First + Again THEN a.since ELSE a.since + 1
<1>4. n \in Nat /\ a.at - 1 \in Nat
  BY <1>1, <1>3
<1>5. l = [at |-> a.at - 1, since |-> n, last |-> a.last]
  BY <1>1, <1>2 DEF AnnounceRec
<1>6. n = IF ~Find!Ready(f) THEN 0 ELSE IF a.since > First + Again THEN a.since ELSE a.since + 1
  OBVIOUS
<1> HIDE DEF l, n
<1>7. l \in AnnounceRec
  BY <1>3, <1>4, <1>5 DEF AnnounceRec
<1>8. l.at = a.at - 1 /\ l.since = n /\ l.last = a.last
  BY <1>5
<1>9. OnTime(l)
  <2> DEFINE most == Find!Patience(a.last)
  <2>1. most \in Nat /\ a.at <= most /\ (Find!Ready(f) => a.at + a.since <= most)
    BY <1>1, PeersAssumption DEF OnTime, Find!Patience
  <2> HIDE DEF most
  <2>2. ASSUME ~Find!Ready(f)
        PROVE  (a.at - 1) + n <= most
    <3>1. n = 0
      BY <1>6, <2>2
    <3> QED
      BY <1>3, <2>1, <3>1
  <2>3. ASSUME Find!Ready(f)
        PROVE  (a.at - 1) + n <= most
    <3>1. n <= a.since + 1
      BY <1>3, <1>6, <2>3
    <3> QED
      BY <1>3, <1>4, <2>1, <2>3, <3>1
  <2>4. (a.at - 1) + n <= most
    BY <2>2, <2>3
  <2> QED
    BY <1>8, <2>4 DEF OnTime, most
<1> QED
  BY <1>7, <1>9 DEF l, a

\* One that is not searched for.
LEMMA IdleIsOnTime ==
  ASSUME NEW r \in AnnounceRec, OnTime(r)
  PROVE  LET l == [r EXCEPT !.at = Find!Down(@), !.since = 0] IN l \in AnnounceRec /\ OnTime(l)
<1> DEFINE l == [r EXCEPT !.at = Find!Down(@), !.since = 0]
<1>1. r.at \in Nat /\ r.since \in Nat /\ r.last \in {"none", "failed", "fine"}
  BY DEF AnnounceRec
<1>2. Find!Down(r.at) \in Nat /\ Find!Down(r.at) <= r.at
  BY <1>1 DEF Find!Down
<1>3. l \in AnnounceRec /\ l.at = Find!Down(r.at) /\ l.since = 0 /\ l.last = r.last
  BY <1>2 DEF AnnounceRec
<1> HIDE DEF l
<1>4. OnTime(l)
  BY <1>1, <1>2, <1>3, PeersAssumption DEF OnTime, Find!Patience
<1> QED
  BY <1>3, <1>4 DEF l

\* One that starts.
LEMMA FreshIsOnTime ==
  ASSUME NEW d \in 0 .. First
  PROVE  Find!Announce(d) \in AnnounceRec /\ OnTime(Find!Announce(d))
BY PeersAssumption DEF Find!Announce, AnnounceRec, OnTime, Find!Patience

\* Every step keeps the invariant.
LEMMA FindNext ==
  ASSUME FindInv, Find!DhtNext
  PROVE  FindInv'
<1>1. CASE UNCHANGED announces
  BY <1>1 DEF FindInv, OnTime, Find!Members, Find!Patience
<1>2. CASE Find!tr_dhtUpkeep
  <2>1. PICK ok \in BOOLEAN :
          announces' = [t \in Find!Members |-> [f \in Find!Families |->
            LET r == announces[t][f]
            IN  IF ~Find!Running(t) \/ ~dht.on \/ ~Find!Allows(t)
                THEN [r EXCEPT !.at = Find!Down(@), !.since = 0]
                ELSE Find!Later(IF r.at = 0 THEN Find!Announced(r, f, ok) ELSE r, f)]]
    BY <1>2 DEF Find!tr_dhtUpkeep
  <2>2. ASSUME NEW t \in Find!Members, NEW f \in Find!Families
        PROVE  announces'[t][f] \in AnnounceRec /\ OnTime(announces'[t][f])
    <3> DEFINE r == announces[t][f]
    <3>1. r \in AnnounceRec /\ OnTime(r)
      BY DEF FindInv
    <3>2. announces'[t][f] = IF ~Find!Running(t) \/ ~dht.on \/ ~Find!Allows(t)
                             THEN [r EXCEPT !.at = Find!Down(@), !.since = 0]
                             ELSE Find!Later(IF r.at = 0 THEN Find!Announced(r, f, ok) ELSE r, f)
      BY <2>1
    <3> HIDE DEF r
    <3>3. CASE ~Find!Running(t) \/ ~dht.on \/ ~Find!Allows(t)
      BY <3>1, <3>2, <3>3, IdleIsOnTime
    <3>4. CASE ~(~Find!Running(t) \/ ~dht.on \/ ~Find!Allows(t))
      BY <3>1, <3>2, <3>4, LaterIsOnTime
    <3> QED
      BY <3>3, <3>4
  <2>3. /\ announces' = [t \in Find!Members |-> announces'[t]]
        /\ \A t \in Find!Members : announces'[t] = [f \in Find!Families |-> announces'[t][f]]
    BY <2>1
  <2>4. announces' \in [Find!Members -> [Find!Families -> AnnounceRec]]
    BY <2>2, <2>3
  <2> QED
    BY <2>2, <2>4 DEF FindInv, OnTime, Find!Members, Find!Patience
<1>3. ASSUME NEW s \in Find!Members, Find!StartsOrStops(s) PROVE FindInv'
  <2>1. CASE UNCHANGED announces
    BY <1>1, <2>1
  <2>2. ASSUME NEW delay \in [Find!Families -> 0 .. First],
               announces' = [announces EXCEPT ![s] = [f \in Find!Families |-> Find!Announce(delay[f])]]
        PROVE  FindInv'
    <3> DEFINE fresh == [f \in Find!Families |-> Find!Announce(delay[f])]
    <3>1. \A f \in Find!Families : fresh[f] \in AnnounceRec /\ OnTime(fresh[f])
      BY FreshIsOnTime
    <3>2. fresh \in [Find!Families -> AnnounceRec]
      BY <3>1
    <3>3. announces' = [announces EXCEPT ![s] = fresh]
      BY <2>2
    <3> HIDE DEF fresh
    <3>4. announces' \in [Find!Members -> [Find!Families -> AnnounceRec]]
      BY <3>2, <3>3 DEF FindInv
    <3>5. \A t \in Find!Members, f \in Find!Families :
            announces'[t][f] = IF t = s THEN fresh[f] ELSE announces[t][f]
      BY <3>3 DEF FindInv
    <3>6. \A t \in Find!Members, f \in Find!Families : OnTime(announces'[t][f])
      BY <3>1, <3>5 DEF FindInv
    <3> QED
      BY <3>4, <3>6 DEF FindInv, OnTime, Find!Members, Find!Patience
  <2> QED
    BY <1>3, <2>1, <2>2 DEF Find!StartsOrStops
<1>4. ASSUME NEW i, Find!BootSteps(i) PROVE UNCHANGED announces
  BY <1>4 DEF Find!BootSteps, Find!BootBegins, Find!BootAsks, Find!getstatus, Find!getaddrinfo,
              Find!BootPings, Find!KeepDht
<1> QED
  BY <1>1, <1>2, <1>3, <1>4 DEF Find!DhtNext, Find!toggleDHT, Find!Close, Find!StatusChanges

\* It holds at first.
LEMMA FindFirst ==
  ASSUME Find!InitDht
  PROVE  FindInv
<1>1. announces = [t \in Find!Members |-> [f \in Find!Families |-> Find!Announce(0)]]
  BY DEF Find!InitDht
<1>2. 0 \in 0 .. First
  BY PeersAssumption
<1> QED
  BY <1>1, <1>2, FreshIsOnTime DEF FindInv

\* What has been waited is not too long.
LEMMA FindIsSound ==
  ASSUME FindInv
  PROVE  Find!SearchedInTime
<1> SUFFICES ASSUME NEW t \in Find!Members, NEW f \in Find!Families
             PROVE  announces[t][f].since <= Find!Patience(announces[t][f].last)
  BY DEF Find!SearchedInTime
<1> DEFINE r == announces[t][f]
<1>1. r \in AnnounceRec /\ OnTime(r)
  BY DEF FindInv
<1> HIDE DEF r
<1>2. r.since <= Find!Patience(r.last)
  BY <1>1, PeersAssumption DEF AnnounceRec, OnTime, Find!Patience
<1> QED
  BY <1>2 DEF r

-----------------------------------------------------------------------------
(* The bootstrap of the DHT. *)

BootFields == {"pc", "af", "of", "n", "left", "more", "waits"}
Quiet(b) == DOMAIN b = BootFields /\ b.waits = FALSE
IsBoot(b) == DOMAIN b = BootFields /\ b.waits \in BOOLEAN /\ (b.waits => b.pc \in Boot!Asking)

\* The points from which a thread that is told that there is no DHT gets to no other ping.
SpentPoints == {"look", "listed", "named", "next", "end"}
Spent(b) == b.waits = FALSE /\ b.pc \in SpentPoints

\* A step of a thread, but for those that ask or are told: it waits for nothing.
LEMMA AtIs ==
  ASSUME NEW b, Quiet(b), NEW pc, NEW af
  PROVE  Quiet(Boot!At(b, pc, af)) /\ Boot!At(b, pc, af).pc = pc
<1> DEFINE a == [b EXCEPT !.pc = pc]
           c == [a EXCEPT !.af = af]
<1>1. Boot!At(b, pc, af) = c
  BY DEF Boot!At
<1>2. Quiet(a) /\ a.pc = pc
  BY DEF Quiet, BootFields
<1> HIDE DEF a
<1>3. Quiet(c) /\ c.pc = pc
  BY <1>2 DEF Quiet, BootFields
<1> QED
  BY <1>1, <1>3

\* Where a thread gets to from the names, the nodes and the addresses.
LEMMA PlacesAre ==
  ASSUME NEW b, Quiet(b)
  PROVE  /\ Quiet(Boot!Ends(b)) /\ Boot!Ends(b).pc = "end"
         /\ Quiet(Boot!FirstName(b)) /\ Boot!FirstName(b).pc \in {"next", "end"}
         /\ Quiet(Boot!NextName(b)) /\ Boot!NextName(b).pc \in {"next", "end"}
         /\ Quiet(Boot!Listed(b)) /\ Boot!Listed(b).pc \in {"look", "next", "end"}
         /\ Quiet(Boot!NextNode(b)) /\ Boot!NextNode(b).pc \in {"look", "next", "end"}
         /\ Quiet(Boot!NextFamily(b)) /\ Boot!NextFamily(b).pc \in {"look", "listed"}
         /\ Quiet(Boot!NextAddress(b)) /\ Boot!NextAddress(b).pc \in {"name", "next", "end"}
<1>1. ASSUME NEW c, Quiet(c) PROVE Quiet(Boot!Ends(c)) /\ Boot!Ends(c).pc = "end"
  BY <1>1 DEF Boot!Ends, Quiet, BootFields
<1>2. ASSUME NEW c, Quiet(c), NEW n
      PROVE  LET d == [Boot!At(c, "next", 4) EXCEPT !.n = n] IN Quiet(d) /\ d.pc = "next"
  <2> DEFINE a == Boot!At(c, "next", 4)
  <2>1. Quiet(a) /\ a.pc = "next"
    BY <1>2, AtIs
  <2> HIDE DEF a
  <2>2. Quiet([a EXCEPT !.n = n]) /\ [a EXCEPT !.n = n].pc = "next"
    BY <2>1 DEF Quiet, BootFields
  <2> QED
    BY <2>2 DEF a
<1>3. ASSUME NEW c, Quiet(c)
      PROVE  Quiet(Boot!FirstName(c)) /\ Boot!FirstName(c).pc \in {"next", "end"}
  <2>1. CASE Names = 0
    BY <1>1, <1>3, <2>1 DEF Boot!FirstName
  <2>2. CASE Names # 0
    <3>1. Boot!FirstName(c) = [Boot!At(c, "next", 4) EXCEPT !.n = 1]
      BY <2>2 DEF Boot!FirstName
    <3> QED
      BY <1>2, <1>3, <3>1
  <2> QED
    BY <2>1, <2>2
<1>4. Quiet(Boot!NextName(b)) /\ Boot!NextName(b).pc \in {"next", "end"}
  <2>1. CASE b.n = Names
    BY <1>1, <2>1 DEF Boot!NextName
  <2>2. CASE b.n # Names
    <3>1. Boot!NextName(b) = [Boot!At(b, "next", 4) EXCEPT !.n = Boot!At(b, "next", 4).n + 1]
      BY <2>2 DEF Boot!NextName
    <3> QED
      BY <1>2, <3>1
  <2> QED
    BY <2>1, <2>2
<1>5. ASSUME NEW c, Quiet(c)
      PROVE  Quiet(Boot!Listed(c)) /\ Boot!Listed(c).pc \in {"look", "next", "end"}
  BY <1>3, <1>5, AtIs DEF Boot!Listed
<1>6. Quiet(Boot!NextNode(b)) /\ Boot!NextNode(b).pc \in {"look", "next", "end"}
  <2> DEFINE c == [b EXCEPT !.n = @ + 1]
  <2>1. Quiet(c)
    BY DEF Quiet, BootFields
  <2>2. Boot!NextNode(b) = Boot!Listed(c)
    BY DEF Boot!NextNode
  <2> HIDE DEF c
  <2> QED
    BY <1>5, <2>1, <2>2
<1>7. Quiet(Boot!NextFamily(b)) /\ Boot!NextFamily(b).pc \in {"look", "listed"}
  BY AtIs DEF Boot!NextFamily
<1>8. Quiet(Boot!NextAddress(b)) /\ Boot!NextAddress(b).pc \in {"name", "next", "end"}
  <2>1. CASE b.more = 0
    BY <1>4, <2>1 DEF Boot!NextAddress
  <2>2. CASE b.more # 0
    <3> DEFINE a == [b EXCEPT !.pc = "name"]
               c == [a EXCEPT !.more = b.more - 1]
    <3>1. Boot!NextAddress(b) = c
      BY <2>2 DEF Boot!NextAddress
    <3>2. Quiet(a) /\ a.pc = "name"
      BY DEF Quiet, BootFields
    <3> HIDE DEF a
    <3>3. Quiet(c) /\ c.pc = "name"
      BY <3>2 DEF Quiet, BootFields
    <3> QED
      BY <3>1, <3>3
  <2> QED
    BY <2>1, <2>2
<1> QED
  BY <1>1, <1>3, <1>4, <1>5, <1>6, <1>7, <1>8

\* What a thread does when it is told of both families.
LEMMA BothIs ==
  ASSUME NEW b, Quiet(b), NEW v, NEW yes, NEW no, Quiet(yes), Quiet(no)
  PROVE  LET c == Boot!Both(b, v, yes, no) IN
         Quiet(c) /\ (Boot!Done(v) => c.pc \in {b.pc, yes.pc})
<1> DEFINE a == [b EXCEPT !.af = 6]
<1>1. Quiet(a) /\ a.pc = b.pc
  BY DEF Quiet, BootFields
<1>2. Boot!Both(b, v, yes, no) = IF ~Boot!Done(v) THEN no ELSE IF b.af = 4 THEN a ELSE yes
  BY DEF Boot!Both
<1> HIDE DEF a
<1> QED
  BY <1>1, <1>2

\* A thread that is told something waits no more, and one that is told that there is no DHT, when
\* it has not just looked for a node or a name, is not about to ping.
LEMMA ToldIs ==
  ASSUME NEW b, Quiet(b), b.pc \in Boot!Asking, NEW v
  PROVE  LET c == Boot!Told(b, v) IN
         Quiet(c) /\ (v = Boot!STOPPED /\ b.pc \in SpentPoints => c.pc \in SpentPoints)
<1> DEFINE c == Boot!Told(b, v)
<1>0. v = Boot!STOPPED => Boot!Done(v)
  BY DEF Boot!Done
<1>1. CASE b.pc = "look"
  <2>1. c = IF b.n > b.left[b.af] \/ Boot!Done(v) THEN Boot!NextFamily(b) ELSE Boot!At(b, "add", b.af)
    BY <1>1 DEF Boot!Told
  <2> HIDE DEF c
  <2>2. Quiet(c) /\ (Boot!Done(v) => c.pc \in {"look", "listed"})
    BY <2>1, AtIs, PlacesAre
  <2> QED
    BY <1>0, <2>2 DEF c, SpentPoints
<1>2. CASE b.pc = "add"
  <2>1. c = IF v >= Boot!FIREWALLED THEN Boot!NextFamily(b) ELSE Boot!At(b, "list", b.af)
    BY <1>2 DEF Boot!Told
  <2> HIDE DEF c
  <2>2. Quiet(c)
    BY <2>1, AtIs, PlacesAre
  <2> QED
    BY <1>2, <2>2 DEF c, SpentPoints
<1>3. CASE b.pc = "listed"
  <2>1. c = Boot!Both(b, v, Boot!Ends(b), Boot!NextNode(b))
    BY <1>3 DEF Boot!Told
  <2> HIDE DEF c
  <2>2. Quiet(c) /\ (Boot!Done(v) => c.pc \in {"listed", "end"})
    BY <1>3, <2>1, BothIs, PlacesAre
  <2> QED
    BY <1>0, <2>2 DEF c, SpentPoints
<1>4. CASE b.pc = "next"
  <2>1. c = Boot!Both(b, v, Boot!Ends(b), Boot!At(b, "family", 6))
    BY <1>4 DEF Boot!Told
  <2> HIDE DEF c
  <2>2. Quiet(c) /\ (Boot!Done(v) => c.pc \in {"next", "end"})
    BY <1>4, <2>1, BothIs, AtIs, PlacesAre
  <2> QED
    BY <1>0, <2>2 DEF c, SpentPoints
<1>5. CASE b.pc = "family"
  <2> DEFINE a == [b EXCEPT !.pc = "lookup"]
             d == [a EXCEPT !.of = 10 - b.af]
             e == [a EXCEPT !.of = 0]
             f == [b EXCEPT !.af = 4]
  <2>1. c = IF Boot!Done(v) THEN d ELSE IF b.af = 6 THEN f ELSE e
    BY <1>5 DEF Boot!Told
  <2>2. Quiet(a) /\ Quiet(f)
    BY DEF Quiet, BootFields
  <2> HIDE DEF a
  <2>3. Quiet(d) /\ Quiet(e)
    BY <2>2 DEF Quiet, BootFields
  <2> HIDE DEF c, d, e, f
  <2>4. Quiet(c)
    BY <2>1, <2>2, <2>3
  <2> QED
    BY <1>5, <2>4 DEF c, SpentPoints
<1>6. CASE b.pc = "named" /\ b.of = 0
  <2>1. c = Boot!Both(b, v, Boot!NextName(b), Boot!NextAddress(b))
    BY <1>6 DEF Boot!Told
  <2> HIDE DEF c
  <2>2. Quiet(c) /\ (Boot!Done(v) => c.pc \in {"named", "next", "end"})
    BY <1>6, <2>1, BothIs, PlacesAre
  <2> QED
    BY <1>0, <2>2 DEF c, SpentPoints
<1>7. CASE b.pc = "named" /\ b.of # 0
  <2>1. c = IF Boot!Done(v) THEN Boot!NextName(b) ELSE Boot!NextAddress(b)
    BY <1>7 DEF Boot!Told
  <2> HIDE DEF c
  <2>2. Quiet(c) /\ (Boot!Done(v) => c.pc \in {"next", "end"})
    BY <2>1, PlacesAre
  <2> QED
    BY <1>0, <2>2 DEF c, SpentPoints
<1> QED
  BY <1>1, <1>2, <1>3, <1>4, <1>5, <1>6, <1>7 DEF Boot!Asking

\* The threads are a sequence.
BootsAre(s) == Len(s) \in Nat /\ s = [i \in 1 .. Len(s) |-> s[i]] /\ \A i \in 1 .. Len(s) : IsBoot(s[i])

\* The pings since the DHT was closed: one at most, by a thread that makes no other.
PingsAre(p, s) ==
  /\ p \in [1 .. Len(s) -> {0, 1}]
  /\ ~dht.up => \A i \in 1 .. Len(s) : p[i] = 1 => Spent(s[i])
DhtTyped ==
  /\ DOMAIN dht = {"on", "up", "closed", "toggles"} /\ (dht.up => dht.on) /\ dht.on \in BOOLEAN
  /\ dht.up \in BOOLEAN /\ status \in [Boot!Families -> 1 .. 4]
NodesKept ==
  /\ \A f \in Boot!Families : nodes[f] \in {0, Nodes[f]}
  /\ \E f \in Boot!Families : nodes[f] = Nodes[f]
BootInv == DhtTyped /\ NodesKept /\ BootsAre(boot) /\ PingsAre(pings, boot)

\* A thread is started.
LEMMA BootsStart ==
  ASSUME NEW s, BootsAre(s), NEW b, IsBoot(b)
  PROVE  /\ BootsAre(Append(s, b)) /\ Len(Append(s, b)) = Len(s) + 1
         /\ \A i \in 1 .. Len(s) : Append(s, b)[i] = s[i]
<1> DEFINE S == {s[i] : i \in 1 .. Len(s)} \cup {b}
<1>1. s \in [1 .. Len(s) -> S] /\ Len(s) \in Nat
  BY DEF BootsAre
<1>2. s \in Seq(S)
  BY <1>1, SeqDef
<1>3. b \in S
  OBVIOUS
<1> DEFINE t == Append(s, b)
<1> HIDE DEF S
<1>4. t \in Seq(S) /\ Len(t) = Len(s) + 1 /\ (\A i \in 1 .. Len(s) : t[i] = s[i]) /\ t[Len(s) + 1] = b
  BY <1>2, <1>3
<1> HIDE DEF t
<1>5. Len(t) \in Nat /\ t = [i \in 1 .. Len(t) |-> t[i]]
  BY <1>4
<1>6. \A i \in 1 .. Len(t) : IsBoot(t[i])
  BY <1>1, <1>4 DEF BootsAre
<1> QED
  BY <1>4, <1>5, <1>6 DEF t, BootsAre

\* A thread gets on.
LEMMA BootsGetOn ==
  ASSUME NEW s, BootsAre(s), NEW i \in 1 .. Len(s), NEW b, IsBoot(b),
         NEW t, t = [k \in 1 .. Len(s) |-> t[k]], \A k \in 1 .. Len(s) : t[k] = IF k = i THEN b ELSE s[k]
  PROVE  BootsAre(t) /\ Len(t) = Len(s)
<1> DEFINE S == {t[k] : k \in 1 .. Len(s)}
<1>1. t \in [1 .. Len(s) -> S] /\ Len(s) \in Nat
  BY DEF BootsAre
<1>2. t \in Seq(S) /\ Len(t) = Len(s)
  BY <1>1, SeqDef
<1>3. \A k \in 1 .. Len(s) : IsBoot(t[k])
  BY DEF BootsAre
<1> QED
  BY <1>1, <1>2, <1>3 DEF BootsAre

\* A step of a thread that pings nothing.
LEMMA ThreadKeeps ==
  ASSUME BootInv, NEW i \in 1 .. Len(boot), NEW b, IsBoot(b), boot' = [boot EXCEPT ![i] = b],
         ~dht.up /\ Spent(boot[i]) => Spent(b), UNCHANGED <<dht, status, nodes, pings>>
  PROVE  BootInv'
<1>1. /\ BootsAre(boot') /\ Len(boot') = Len(boot)
      /\ \A k \in 1 .. Len(boot) : boot'[k] = IF k = i THEN b ELSE boot[k]
  <2>1. BootsAre(boot)
    BY DEF BootInv
  <2>2. boot = [k \in 1 .. Len(boot) |-> boot[k]]
    BY <2>1 DEF BootsAre
  <2>3. DOMAIN boot = 1 .. Len(boot)
    BY <2>2
  <2>4. /\ boot' = [k \in 1 .. Len(boot) |-> boot'[k]]
        /\ \A k \in 1 .. Len(boot) : boot'[k] = IF k = i THEN b ELSE boot[k]
    BY <2>3
  <2> QED
    BY <2>1, <2>4, BootsGetOn
<1>2. PingsAre(pings, boot)'
  BY <1>1 DEF BootInv, PingsAre
<1> QED
  BY <1>1, <1>2 DEF BootInv, DhtTyped, NodesKept, Boot!Families

\* One that does, when the DHT is closed.
LEMMA PingKeeps ==
  ASSUME BootInv, NEW i \in 1 .. Len(boot), NEW b, IsBoot(b), boot' = [boot EXCEPT ![i] = b],
         ~dht.up, ~Spent(boot[i]), Spent(b), pings' = [pings EXCEPT ![i] = @ + 1],
         UNCHANGED <<dht, status, nodes>>
  PROVE  BootInv'
<1>1. /\ BootsAre(boot') /\ Len(boot') = Len(boot)
      /\ \A k \in 1 .. Len(boot) : boot'[k] = IF k = i THEN b ELSE boot[k]
  <2>1. BootsAre(boot)
    BY DEF BootInv
  <2>2. boot = [k \in 1 .. Len(boot) |-> boot[k]]
    BY <2>1 DEF BootsAre
  <2>3. DOMAIN boot = 1 .. Len(boot)
    BY <2>2
  <2>4. /\ boot' = [k \in 1 .. Len(boot) |-> boot'[k]]
        /\ \A k \in 1 .. Len(boot) : boot'[k] = IF k = i THEN b ELSE boot[k]
    BY <2>3
  <2> QED
    BY <2>1, <2>4, BootsGetOn
<1>2. pings[i] = 0 /\ pings \in [1 .. Len(boot) -> {0, 1}]
  BY DEF BootInv, PingsAre
<1>3. pings' = [pings EXCEPT ![i] = 1]
  BY <1>2
<1>4. PingsAre(pings, boot)'
  BY <1>1, <1>2, <1>3 DEF BootInv, PingsAre
<1> QED
  BY <1>1, <1>4 DEF BootInv, DhtTyped, NodesKept, Boot!Families

\* What a thread is when it starts and when it waits.
LEMMA ThreadsAre ==
  /\ \A had : IsBoot([Boot!NewBoot EXCEPT !.left = had])
  /\ \A b : Quiet(b) => IsBoot(b)
  /\ \A b : IsBoot(b) /\ b.pc \in Boot!Asking => IsBoot([b EXCEPT !.waits = TRUE])
  /\ \A b : IsBoot(b) => Quiet([b EXCEPT !.waits = FALSE]) /\ [b EXCEPT !.waits = FALSE].pc = b.pc
<1>1. \A had : IsBoot([Boot!NewBoot EXCEPT !.left = had])
  BY DEF Boot!NewBoot, IsBoot, BootFields
<1>2. \A b : IsBoot(b) /\ b.pc \in Boot!Asking => IsBoot([b EXCEPT !.waits = TRUE])
  BY DEF IsBoot, BootFields
<1>3. \A b : IsBoot(b) => Quiet([b EXCEPT !.waits = FALSE]) /\ [b EXCEPT !.waits = FALSE].pc = b.pc
  BY DEF IsBoot, Quiet, BootFields
<1> QED
  BY <1>1, <1>2, <1>3 DEF IsBoot, Quiet

\* The steps of a thread.
LEMMA BootStepsKeep ==
  ASSUME BootInv, NEW i, Boot!BootSteps(i)
  PROVE  BootInv'
<1> DEFINE b == boot[i]
<1>0. i \in 1 .. Len(boot) /\ IsBoot(b)
  BY DEF Boot!BootSteps, BootInv, BootsAre
<1> HIDE DEF b
<1>1. CASE Boot!BootBegins(i)
  <2> DEFINE c == IF dht.up THEN Boot!Listed(b) ELSE Boot!Ends(b)
  <2>1. b.pc = "start" /\ boot' = [boot EXCEPT ![i] = c] /\ UNCHANGED <<dht, status, nodes, pings>>
    BY <1>1 DEF Boot!BootBegins, Boot!Step, Boot!KeepDht, b
  <2>2. Quiet(b)
    BY <1>0, <2>1 DEF IsBoot, Quiet, Boot!Asking
  <2>3. Quiet(c)
    BY <2>2, PlacesAre
  <2> HIDE DEF c
  <2>4. IsBoot(c) /\ ~Spent(b)
    BY <2>1, <2>3, ThreadsAre DEF Spent, SpentPoints
  <2> QED
    BY <1>0, <2>1, <2>4, ThreadKeeps DEF b
<1>2. CASE Boot!BootAsks(i)
  <2> DEFINE w == [b EXCEPT !.waits = TRUE]
             c == IF b.pc = "add" /\ ~dht.up THEN Boot!NextFamily(b)
                  ELSE IF Boot!Answered(b) THEN Boot!Told(b, Boot!STOPPED) ELSE w
  <2>1. /\ b.pc \in Boot!Asking /\ ~b.waits /\ boot' = [boot EXCEPT ![i] = c]
        /\ UNCHANGED <<dht, status, nodes, pings>>
    BY <1>2 DEF Boot!BootAsks, Boot!Step, Boot!KeepDht, b
  <2>2. Quiet(b)
    BY <1>0, <2>1 DEF IsBoot, Quiet
  <2>3. IsBoot(w)
    BY <1>0, <2>1, ThreadsAre
  <2>4. ~dht.up => Boot!Answered(b)
    BY DEF Boot!Answered, Boot!tr_dhtStatus
  <2> HIDE DEF w
  <2>5. IsBoot(c)
    BY <2>1, <2>2, <2>3, PlacesAre, ToldIs, ThreadsAre
  <2>6. ASSUME ~dht.up, Spent(b) PROVE Spent(c)
    <3>1. c = Boot!Told(b, Boot!STOPPED)
      BY <2>4, <2>6 DEF Spent, SpentPoints
    <3> QED
      BY <2>1, <2>2, <2>6, <3>1, ToldIs DEF Spent, Quiet
  <2> HIDE DEF c
  <2> QED
    BY <1>0, <2>1, <2>5, <2>6, ThreadKeeps DEF b
<1>3. CASE Boot!getstatus(i)
  <2> DEFINE q == [b EXCEPT !.waits = FALSE]
             v == IF dht.up THEN status[b.af] ELSE Boot!BROKEN
             c == Boot!Told(q, v)
  <2>1. b.waits /\ boot' = [boot EXCEPT ![i] = c] /\ UNCHANGED <<dht, status, nodes, pings>>
    BY <1>3 DEF Boot!getstatus, Boot!Step, Boot!KeepDht, b
  <2>2. b.pc \in Boot!Asking
    BY <1>0, <2>1 DEF IsBoot
  <2>3. Quiet(q) /\ q.pc \in Boot!Asking
    BY <1>0, <2>2, ThreadsAre
  <2> HIDE DEF q, v
  <2>4. IsBoot(c)
    BY <2>3, ToldIs, ThreadsAre
  <2>5. ~Spent(b)
    BY <2>1 DEF Spent
  <2> HIDE DEF c
  <2> QED
    BY <1>0, <2>1, <2>4, <2>5, ThreadKeeps DEF b
<1>4. CASE Boot!getaddrinfo(i)
  <2>1. PICK k \in 0 .. 2 : boot' = [boot EXCEPT ![i] = Boot!NextAddress([b EXCEPT !.more = k])]
    BY <1>4 DEF Boot!getaddrinfo, Boot!Step, b
  <2> DEFINE d == [b EXCEPT !.more = k]
             c == Boot!NextAddress(d)
  <2>2. b.pc = "lookup" /\ UNCHANGED <<dht, status, nodes, pings>>
    BY <1>4 DEF Boot!getaddrinfo, Boot!KeepDht, b
  <2>3. Quiet(b) /\ ~Spent(b)
    BY <1>0, <2>2 DEF IsBoot, Quiet, Boot!Asking, Spent, SpentPoints
  <2>4. Quiet(d)
    BY <2>3 DEF Quiet, BootFields
  <2>5. boot' = [boot EXCEPT ![i] = c]
    BY <2>1
  <2> HIDE DEF d
  <2>6. IsBoot(c)
    BY <2>4, PlacesAre, ThreadsAre
  <2> HIDE DEF c
  <2> QED
    BY <1>0, <2>2, <2>3, <2>5, <2>6, ThreadKeeps DEF b
<1>5. CASE Boot!BootPings(i)
  <2> DEFINE a == [b EXCEPT !.pc = "named"]
             d == [a EXCEPT !.af = IF b.of = 0 THEN 4 ELSE b.of]
             c == IF b.pc = "list" THEN Boot!NextFamily(b) ELSE d
  <2>1. /\ b.pc \in {"list", "name"} /\ boot' = [boot EXCEPT ![i] = c]
        /\ pings' = IF dht.up THEN pings ELSE [pings EXCEPT ![i] = @ + 1]
        /\ UNCHANGED <<dht, status, nodes>>
    BY <1>5 DEF Boot!BootPings, Boot!Step, Boot!KeepDht, b
  <2>2. Quiet(b) /\ ~Spent(b)
    BY <1>0, <2>1 DEF IsBoot, Quiet, Boot!Asking, Spent, SpentPoints
  <2>3. Quiet(a) /\ a.pc = "named"
    BY <2>2 DEF Quiet, BootFields
  <2> HIDE DEF a
  <2>4. Quiet(d) /\ d.pc = "named"
    BY <2>3 DEF Quiet, BootFields
  <2> HIDE DEF d
  <2>5. Quiet(c) /\ c.pc \in {"look", "listed", "named"}
    BY <2>2, <2>4, PlacesAre
  <2> HIDE DEF c
  <2>6. IsBoot(c) /\ Spent(c)
    BY <2>5, ThreadsAre DEF Spent, SpentPoints, Quiet
  <2>7. CASE dht.up
    BY <1>0, <2>1, <2>2, <2>6, <2>7, ThreadKeeps DEF b
  <2>8. CASE ~dht.up
    BY <1>0, <2>1, <2>2, <2>6, <2>8, PingKeeps DEF b
  <2> QED
    BY <2>7, <2>8
<1> QED
  BY <1>1, <1>2, <1>3, <1>4, <1>5 DEF Boot!BootSteps

\* The nodes that are saved when the DHT is closed: all of a family that knows enough.
LEMMA UninitKeeps ==
  ASSUME DhtTyped, NodesKept, NEW n, n = Boot!tr_dhtUninit
  PROVE  /\ \A f \in Boot!Families : n[f] \in {0, Nodes[f]}
         /\ \E f \in Boot!Families : n[f] = Nodes[f]
<1>1. CASE dht.up /\ \E f \in Boot!Families : Boot!tr_dhtStatus(f) >= Boot!FIREWALLED
  <2>1. n = [f \in Boot!Families |-> IF Boot!tr_dhtStatus(f) >= Boot!POOR THEN Nodes[f] ELSE 0]
    BY <1>1 DEF Boot!tr_dhtUninit
  <2>2. PICK f \in Boot!Families : Boot!tr_dhtStatus(f) >= Boot!FIREWALLED
    BY <1>1
  <2>3. Boot!tr_dhtStatus(f) \in Int
    BY DEF DhtTyped, Boot!tr_dhtStatus, Boot!STOPPED
  <2>4. Boot!tr_dhtStatus(f) >= Boot!POOR
    BY <2>2, <2>3 DEF Boot!POOR, Boot!FIREWALLED
  <2> QED
    BY <2>1, <2>4
<1>2. CASE ~(dht.up /\ \E f \in Boot!Families : Boot!tr_dhtStatus(f) >= Boot!FIREWALLED)
  <2>1. n = nodes
    BY <1>2 DEF Boot!tr_dhtUninit
  <2> QED
    BY <2>1 DEF NodesKept
<1> QED
  BY <1>1, <1>2

\* The pings are counted from when the DHT is closed.
LEMMA ClosedIs ==
  ASSUME BootInv
  PROVE  /\ Boot!Closed \in [1 .. Len(boot) -> {0, 1}]
         /\ \A i \in 1 .. Len(boot) : Boot!Closed[i] = 1 => ~dht.up /\ Spent(boot[i])
<1>1. CASE dht.up
  <2>1. Boot!Closed = [i \in 1 .. Len(boot) |-> 0]
    BY <1>1 DEF Boot!Closed
  <2> QED
    BY <2>1
<1>2. CASE ~dht.up
  <2>1. Boot!Closed = pings
    BY <1>2 DEF Boot!Closed
  <2> QED
    BY <1>2, <2>1 DEF BootInv, PingsAre
<1> QED
  BY <1>1, <1>2

\* The DHT is switched off or on.
LEMMA ToggleKeeps ==
  ASSUME BootInv, Boot!toggleDHT
  PROVE  BootInv'
<1>1. PICK s \in SUBSET Boot!Families, ok \in BOOLEAN :
        /\ dht' = [dht EXCEPT !.on = ~dht.on, !.up = ~dht.on /\ ok, !.toggles = @ + 1]
        /\ boot' = IF ~dht.on /\ ok
                   THEN Append(boot, [Boot!NewBoot EXCEPT
                                        !.left = [f \in Boot!Families |-> IF f \in s THEN nodes'[f] ELSE 0]])
                   ELSE boot
        /\ status' = [f \in Boot!Families |-> Boot!BROKEN]
  BY DEF Boot!toggleDHT, Boot!tr_udpInit
<1>2. nodes' = Boot!tr_dhtUninit
  BY DEF Boot!toggleDHT
<1>3. pings' = [i \in 1 .. Len(boot') |-> IF i \in DOMAIN Boot!Closed THEN Boot!Closed[i] ELSE 0]
  BY DEF Boot!toggleDHT
<1>4. DOMAIN dht = {"on", "up", "closed", "toggles"} /\ dht.on \in BOOLEAN /\ (dht.up => dht.on)
  BY DEF BootInv, DhtTyped
<1>5. DOMAIN dht' = {"on", "up", "closed", "toggles"} /\ dht'.on = ~dht.on /\ dht'.up = (~dht.on /\ ok)
  BY <1>1, <1>4
<1>6. DhtTyped'
  BY <1>1, <1>4, <1>5 DEF DhtTyped, Boot!BROKEN, Boot!Families
<1>7. NodesKept'
  BY <1>2, UninitKeeps DEF BootInv, NodesKept, Boot!Families
<1>8. /\ BootsAre(boot') /\ Len(boot') >= Len(boot)
      /\ \A i \in 1 .. Len(boot) : boot'[i] = boot[i]
      /\ ~dht'.up => Len(boot') = Len(boot)
  <2> DEFINE b == [Boot!NewBoot EXCEPT !.left = [f \in Boot!Families |-> IF f \in s THEN nodes'[f] ELSE 0]]
  <2>1. IsBoot(b)
    BY ThreadsAre
  <2>2. BootsAre(boot) /\ Len(boot) \in Nat
    BY DEF BootInv, BootsAre
  <2>3. boot' = IF ~dht.on /\ ok THEN Append(boot, b) ELSE boot
    BY <1>1
  <2> HIDE DEF b
  <2>4. CASE ~dht.on /\ ok
    <3>1. BootsAre(Append(boot, b)) /\ Len(Append(boot, b)) = Len(boot) + 1
          /\ \A i \in 1 .. Len(boot) : Append(boot, b)[i] = boot[i]
      BY <2>1, <2>2, BootsStart
    <3>2. boot' = Append(boot, b)
      BY <2>3, <2>4
    <3>3. dht'.up
      BY <1>5, <2>4
    <3>4. BootsAre(boot') /\ Len(boot') = Len(boot) + 1 /\ \A i \in 1 .. Len(boot) : boot'[i] = boot[i]
      BY <3>1, <3>2, Zenon
    <3> QED
      BY <2>2, <3>3, <3>4
  <2>5. CASE ~(~dht.on /\ ok)
    BY <2>2, <2>3, <2>5
  <2> QED
    BY <2>4, <2>5
<1>9. PingsAre(pings, boot)'
  <2>1. /\ Boot!Closed \in [1 .. Len(boot) -> {0, 1}]
        /\ \A i \in 1 .. Len(boot) : Boot!Closed[i] = 1 => Spent(boot[i])
    BY ClosedIs
  <2>2. Len(boot) \in Nat /\ Len(boot') \in Nat
    BY <1>8 DEF BootInv, BootsAre
  <2> QED
    BY <1>3, <1>8, <2>1, <2>2 DEF PingsAre
<1> QED
  BY <1>6, <1>7, <1>8, <1>9 DEF BootInv

\* Every step keeps the invariant.
LEMMA BootNext ==
  ASSUME BootInv, Boot!DhtNext
  PROVE  BootInv'
<1>1. CASE Boot!toggleDHT
  BY <1>1, ToggleKeeps
<1>2. CASE Boot!Close
  <2>1. /\ nodes' = Boot!tr_dhtUninit /\ pings' = Boot!Closed /\ UNCHANGED <<status, boot>>
        /\ dht' = [dht EXCEPT !.up = FALSE, !.closed = TRUE]
    BY <1>2 DEF Boot!Close
  <2>2. DOMAIN dht' = {"on", "up", "closed", "toggles"} /\ dht'.up = FALSE /\ dht'.on = dht.on
    BY <2>1 DEF BootInv, DhtTyped
  <2>3. NodesKept'
    BY <2>1, UninitKeeps DEF BootInv, NodesKept, Boot!Families
  <2>4. PingsAre(pings, boot)'
    BY <2>1, <2>2, ClosedIs DEF PingsAre
  <2> QED
    BY <2>1, <2>2, <2>3, <2>4 DEF BootInv, DhtTyped, Boot!Families
<1>3. CASE Boot!StatusChanges
  <2>1. UNCHANGED <<dht, boot, nodes, pings>>
    BY <1>3 DEF Boot!StatusChanges
  <2>2. status' \in [Boot!Families -> 1 .. 4]
    BY <1>3 DEF Boot!StatusChanges, BootInv, DhtTyped, Boot!BROKEN, Boot!GOOD
  <2> QED
    BY <2>1, <2>2 DEF BootInv, DhtTyped, NodesKept, PingsAre, Boot!Families
<1>4. ASSUME NEW i, Boot!BootSteps(i) PROVE BootInv'
  BY <1>4, BootStepsKeep
<1>5. ASSUME Boot!tr_dhtUpkeep \/ \E t \in Boot!Members : Boot!StartsOrStops(t) PROVE BootInv'
  <2>1. UNCHANGED <<dht, status, boot, nodes, pings>>
    BY <1>5 DEF Boot!tr_dhtUpkeep, Boot!StartsOrStops
  <2> QED
    BY <2>1 DEF BootInv, DhtTyped, NodesKept, PingsAre, Boot!Families
<1> QED
  BY <1>1, <1>2, <1>3, <1>4, <1>5 DEF Boot!DhtNext

\* It is about nothing else.
LEMMA DhtStays ==
  ASSUME UNCHANGED dhtVars
  PROVE  (BootInv => BootInv') /\ (FindInv => FindInv')
<1>1. UNCHANGED <<dht, status, boot, nodes, announces, pings>>
  BY DEF dhtVars
<1> QED
  BY <1>1 DEF BootInv, DhtTyped, NodesKept, PingsAre, Boot!Families, FindInv, OnTime, Find!Members

\* It holds at first.
LEMMA BootFirst ==
  ASSUME Boot!InitDht
  PROVE  BootInv
<1>1. /\ dht = [on |-> FALSE, up |-> FALSE, closed |-> FALSE, toggles |-> 0]
      /\ status = [f \in Boot!Families |-> Boot!BROKEN] /\ boot = <<>> /\ nodes = Nodes /\ pings = <<>>
  BY DEF Boot!InitDht
<1>2. DhtTyped /\ NodesKept
  BY <1>1 DEF DhtTyped, NodesKept, Boot!Families, Boot!BROKEN
<1>3. BootsAre(boot) /\ PingsAre(pings, boot)
  BY <1>1 DEF BootsAre, PingsAre
<1> QED
  BY <1>2, <1>3 DEF BootInv

\* What it says of the threads and the nodes.
LEMMA BootIsSound ==
  ASSUME BootInv
  PROVE  Boot!DhtTypeOK /\ Boot!StrayPingsAreFew /\ Boot!SomeNodesAreKept
<1>1. Boot!DhtTypeOK
  BY DEF BootInv, DhtTyped, NodesKept, BootsAre, IsBoot, Boot!DhtTypeOK
<1>2. Boot!StrayPingsAreFew
  <2>1. pings \in [1 .. Len(boot) -> {0, 1}] /\ Len(boot) \in Nat
    BY DEF BootInv, BootsAre, PingsAre
  <2>2. pings \in Seq({0, 1}) /\ Len(pings) = Len(boot)
    BY <2>1, SeqDef
  <2> QED
    BY <2>1, <2>2 DEF Boot!StrayPingsAreFew
<1>3. Boot!SomeNodesAreKept
  BY DEF BootInv, NodesKept, Boot!SomeNodesAreKept
<1> QED
  BY <1>1, <1>2, <1>3

-----------------------------------------------------------------------------
(* What the invariants of the parts come to. *)

\* A behaviour stays one of its part.
LEMMA PartStays ==
  ASSUME [Next]_vars
  PROVE  part' = part
BY DEF Next, vars, SettingsOnly, TurtleOnly, BandOnly, MapOnly, UdpOnly, EndOnly, LpdOnly, DhtOnly, FindOnly

\* The invariant of the settings is about nothing else.
LEMMA SetStays ==
  ASSUME SetInv, UNCHANGED settingsVars
  PROVE  SetInv'
<1>1. /\ enabled' = enabled /\ port' = port /\ queue' = queue /\ boxes' = boxes
      /\ file' = file /\ wanted' = wanted /\ saved' = saved /\ missed' = missed
  BY DEF settingsVars
<1>2. SetTyped'
  BY <1>1 DEF SetInv, SetTyped
<1>3. PortIsHonoured'
  BY <1>1 DEF SetInv, PortIsHonoured
<1>4. ASSUME NEW f \in Flags PROVE FlagIsHonoured(f)'
  <2>1. FlagIsHonoured(f)
    BY DEF SetInv
  <2>2. After(f)' = After(f)
    BY <1>1 DEF After, Occurs
  <2>3. FlagIsHonoured(f)' <=> FlagIsHonoured(f)
    BY <1>1, <2>2 DEF FlagIsHonoured
  <2> QED
    BY <2>1, <2>3
<1> QED
  BY <1>2, <1>3, <1>4 DEF SetInv

\* The settings are what was asked for last, by the window or by RPC, and so are the boxes, the
\* sockets and the file, but for the races that Settings names (tr_sessionSet, setPeerPort).
THEOREM SettingsAreAlwaysHonoured == Spec => []SettingsAreHonoured
<1> DEFINE Inv == part = "settings" => SetInv
<1>1. Init => Inv
  BY SetFirst DEF Init
<1>2. Inv /\ [Next]_vars => Inv'
  <2> SUFFICES ASSUME Inv, [Next]_vars, part = "settings" PROVE SetInv'
    BY PartStays
  <2>1. SetInv
    OBVIOUS
  <2>2. Set!Step \/ UNCHANGED settingsVars
    BY DEF Next, vars, sessionVars, UdpOnly, EndOnly, DhtOnly, Set!Next
  <2>3. CASE UNCHANGED settingsVars
    BY <2>1, <2>3, SetStays
  <2> QED
    BY <2>1, <2>2, <2>3, SetNext
<1>3. Inv => SettingsAreHonoured
  BY SetIsSound DEF SettingsAreHonoured
<1> QED
  BY <1>1, <1>2, <1>3, PTL DEF Spec

\* The speed limits follow the user's schedule and then the user, and the bandwidth follows the
\* limits, by however many peers it is used (turtleCheckClock, tr_bandwidthAllocate).
THEOREM LimitsAreAlwaysKept == Spec => []LimitsAreKept
<1> DEFINE Inv == (part = "turtle" => TurtleInv) /\ (part = "bandwidth" => BandInv)
<1>1. Init => Inv
  BY TurtleFirst, BandFirst DEF Init
<1>2. Inv /\ [Next]_vars => Inv'
  <2> SUFFICES ASSUME Inv, [Next]_vars PROVE Inv'
    OBVIOUS
  <2>1. part' = part
    BY PartStays
  <2>2. ASSUME part = "turtle" PROVE TurtleInv'
    <3>1. TurtleInv
      BY <2>2
    <3>2. Alt!Next \/ UNCHANGED turtleVars
      BY <2>2 DEF Next, vars, sessionVars, UdpOnly, EndOnly, DhtOnly
    <3>3. CASE UNCHANGED turtleVars
      BY <3>1, <3>3 DEF turtleVars, TurtleInv, Timed, Follows
    <3> QED
      BY <3>1, <3>2, <3>3, TurtleNext
  <2>3. ASSUME part = "bandwidth" PROVE BandInv'
    <3>1. BandInv
      BY <2>3
    <3>2. Band!Next \/ UNCHANGED bandVars
      BY <2>3 DEF Next, vars, sessionVars, UdpOnly, EndOnly, DhtOnly
    <3>3. CASE UNCHANGED bandVars
      BY <3>1, <3>3 DEF bandVars, BandInv, BandTyped, LimitKept
    <3> QED
      BY <3>1, <3>2, <3>3, BandNext
  <2> QED
    BY <2>1, <2>2, <2>3
<1>3. Inv => LimitsAreKept
  BY TurtleIsSound, BandIsSound DEF LimitsAreKept
<1> QED
  BY <1>1, <1>2, <1>3, PTL DEF Spec

\* The router lets in the port that the trackers are told, and is left with no port that is
\* forgotten, but for the answers that failed, came late or were not looked at, and the changes
\* in between, that PortMapping names (natPulse, tr_natpmpPulse, tr_upnpPulse); and every torrent
\* gets its turn to look for peers, in the local network and in the DHT, whose nodes are kept and
\* left in peace (tr_lpdAnnounceMore, tr_dhtUpkeep, dht_bootstrap, tr_dhtUninit).
THEOREM PeersAlwaysFindTheirWay == Spec => []PeersFindTheirWay
<1> DEFINE Inv == /\ part = "mapping" => MapInv
                  /\ part = "lpd" => LpdInv
                  /\ part = "dht" => BootInv
                  /\ part = "search" => FindInv
<1>1. Init => Inv
  BY MapFirst, LpdFirst, BootFirst, FindFirst DEF Init
<1>2. Inv /\ [Next]_vars => Inv'
  <2> SUFFICES ASSUME Inv, [Next]_vars PROVE Inv'
    OBVIOUS
  <2>1. part' = part
    BY PartStays
  <2>2. ASSUME part = "mapping" PROVE MapInv'
    <3>1. MapInv
      BY <2>2
    <3>2. Map!Next \/ UNCHANGED mapVars
      BY <2>2 DEF Next, vars, sessionVars, UdpOnly, EndOnly, DhtOnly
    <3> QED
      BY <3>1, <3>2, MapNext, MapStays
  <2>3. ASSUME part = "lpd" PROVE LpdInv'
    <3>1. LpdInv
      BY <2>3
    <3>2. Near!LpdNext \/ UNCHANGED lpdVars
      BY <2>3 DEF Next, vars, peerVars, UdpOnly, EndOnly, DhtOnly
    <3> QED
      BY <3>1, <3>2, LpdNext, LpdStays
  <2>4. ASSUME part = "dht" PROVE BootInv'
    <3>1. BootInv
      BY <2>4
    <3>2. Boot!DhtNext \/ UNCHANGED dhtVars
      BY <2>4 DEF Next, vars, peerVars, UdpOnly, EndOnly, DhtOnly
    <3> QED
      BY <3>1, <3>2, BootNext, DhtStays
  <2>5. ASSUME part = "search" PROVE FindInv'
    <3>1. FindInv
      BY <2>5
    <3>2. Find!DhtNext \/ UNCHANGED dhtVars
      BY <2>5 DEF Next, vars, peerVars, UdpOnly, EndOnly, DhtOnly
    <3> QED
      BY <3>1, <3>2, FindNext, DhtStays
  <2> QED
    BY <2>1, <2>2, <2>3, <2>4, <2>5
<1>3. Inv => PeersFindTheirWay
  BY MapIsSound, LpdIsSound, BootIsSound, FindIsSound DEF PeersFindTheirWay
<1> QED
  BY <1>1, <1>2, <1>3, PTL DEF Spec
=============================================================================
