--------------------------------- MODULE Turtle ---------------------------------
(***************************************************************************)
(* Turtle mode (session.c): alternative speed limits that the user turns   *)
(* on, or a weekly schedule does.  All of it runs in the event thread: the *)
(* clock once a second, and the commands of the RPC interface.             *)
(***************************************************************************)
EXTENDS Integers, FiniteSets

CONSTANTS
  WeekDays, MinutesPerDay,  \* the days are 0 .. WeekDays - 1
  Speeds                    \* the limits a user sets; 0 is no limit

VARIABLES
  now,        \* the minute of the week
  turtle,     \* [isEnabled, isClockEnabled, begin, end, days, minutes, autoState]
  limit,      \* [enabled, speed, alt]: the limits of one direction
  bandwidth,  \* [limited, desired] of the session in that direction
  choice      \* history: what the user turned it to since the schedule switched last

turtleVars == <<now, turtle, limit, bandwidth, choice>>

MinutesPerWeek == WeekDays * MinutesPerDay
Minutes == 0 .. MinutesPerWeek - 1

\* turtleUpdateTable: an end that is not after the begin is on the next day.
Table(begin, end, days) ==
  LET last == IF end <= begin THEN end + MinutesPerDay ELSE end
  IN {(i + day * MinutesPerDay) % MinutesPerWeek : i \in begin .. last - 1, day \in days}

\* tr_sessionGetActiveSpeedLimit_Bps and updateBandwidth: a limit of zero is none.
Active(t, l) ==
  IF t.isEnabled THEN [limited |-> TRUE, speed |-> l.alt]
  ELSE [limited |-> l.enabled, speed |-> IF l.enabled THEN l.speed ELSE 0]

updateBandwidth(t, l) ==
  [limited |-> Active(t, l).limited /\ Active(t, l).speed # 0, desired |-> Active(t, l).speed]

InTurtleTime(t, minute) == minute \in t.minutes
Auto(enabled) == IF enabled THEN "ON" ELSE "OFF"

\* useAltSpeed: altSpeedToggled runs at once in this thread.
Uses(t, enabled) == [t EXCEPT !.isEnabled = enabled]

\* turtleBootstrap, on the settings of the file.
Bootstrapped(t) ==
  IF t.isClockEnabled
  THEN [t EXCEPT !.isEnabled = InTurtleTime(t, now), !.autoState = Auto(InTurtleTime(t, now))]
  ELSE t

Init ==
  /\ now \in Minutes
  /\ \E enabled, clock \in BOOLEAN, begin, end \in 0 .. MinutesPerDay - 1,
        days \in SUBSET (0 .. WeekDays - 1) :
       turtle = Bootstrapped([isEnabled |-> enabled, isClockEnabled |-> clock, begin |-> begin,
                              end |-> end, days |-> days, minutes |-> Table(begin, end, days),
                              autoState |-> "UNUSED"])
  /\ limit \in [enabled : BOOLEAN, speed : Speeds, alt : Speeds]
  /\ bandwidth = updateBandwidth(turtle, limit)
  /\ choice = "none"

Becomes(t) == turtle' = t /\ bandwidth' = updateBandwidth(t, limit)

\* turtleCheckClock, at any later time: the schedule switches once, when its part begins or ends.
CheckClock(t, minute) ==
  IF t.autoState = Auto(InTurtleTime(t, minute)) THEN t
  ELSE Uses([t EXCEPT !.autoState = Auto(InTurtleTime(t, minute))], InTurtleTime(t, minute))

onNowTimer ==
  /\ now' \in Minutes
  /\ LET t == IF turtle.isClockEnabled THEN CheckClock(turtle, now') ELSE turtle
     IN Becomes(t) /\ choice' = IF t.autoState = turtle.autoState THEN choice ELSE "none"
  /\ UNCHANGED limit

\* userPokedTheClock: the new schedule takes effect at once.
Poked(t) ==
  LET u == [t EXCEPT !.minutes = Table(t.begin, t.end, t.days), !.autoState = "UNUSED"]
  IN IF u.isClockEnabled
     THEN [Uses(u, InTurtleTime(u, now)) EXCEPT !.autoState = Auto(InTurtleTime(u, now))] ELSE u

userPokedTheClock ==
  /\ \/ Becomes(Poked([turtle EXCEPT !.isClockEnabled = ~@]))
     \/ \E m \in 0 .. MinutesPerDay - 1 :
          \/ m # turtle.begin /\ Becomes(Poked([turtle EXCEPT !.begin = m]))
          \/ m # turtle.end /\ Becomes(Poked([turtle EXCEPT !.end = m]))
     \/ \E days \in SUBSET (0 .. WeekDays - 1) :
          days # turtle.days /\ Becomes(Poked([turtle EXCEPT !.days = days]))
  /\ choice' = "none"
  /\ UNCHANGED <<now, limit>>

UseAltSpeed ==
  /\ Becomes(Uses(turtle, ~turtle.isEnabled))
  /\ choice' = Auto(~turtle.isEnabled)
  /\ UNCHANGED <<now, limit>>

\* tr_sessionSetSpeedLimit_Bps, tr_sessionLimitSpeed and tr_sessionSetAltSpeed_Bps.
SetLimit ==
  /\ \E l \in [enabled : BOOLEAN, speed : Speeds, alt : Speeds] :
       l # limit /\ limit' = l /\ bandwidth' = updateBandwidth(turtle, l)
  /\ UNCHANGED <<now, turtle, choice>>

Next == onNowTimer \/ userPokedTheClock \/ UseAltSpeed \/ SetLimit

Spec == Init /\ [][Next]_turtleVars

(***************************************************************************)
(* Properties.                                                             *)
(***************************************************************************)
\* The user's schedule, minute by minute: one is in it if a chosen day's part began less than a
\* day ago, the week being a circle, and has not ended.
Scheduled(t, minute) ==
  \E ago \in 0 .. MinutesPerDay - 1 :
    LET start == (minute - ago) % MinutesPerWeek IN
    /\ start % MinutesPerDay = t.begin /\ (start \div MinutesPerDay) \in t.days
    /\ ago < (IF t.end > t.begin THEN t.end - t.begin ELSE t.end - t.begin + MinutesPerDay)

\* With the clock on, the mode is what the schedule says, until the user says otherwise; and
\* then until the schedule's next switch.
ScheduleIsFollowed ==
  /\ choice # "none" => Auto(turtle.isEnabled) = choice
  /\ turtle.isClockEnabled /\ choice = "none" => turtle.isEnabled = Scheduled(turtle, now)
  /\ turtle.minutes = {m \in Minutes : Scheduled(turtle, m)}

\* The bandwidth is limited by the limits in force, whichever way they came about.
LimitIsInForce ==
  LET speed == IF turtle.isEnabled THEN limit.alt
               ELSE IF limit.enabled THEN limit.speed ELSE 0
  IN bandwidth = [limited |-> speed # 0, desired |-> speed]
================================================================================
