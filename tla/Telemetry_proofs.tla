-------------------------- MODULE Telemetry_proofs --------------------------
(***************************************************************************)
(* Proofs about Telemetry: its types, and the safety properties its runs   *)
(* check, for all shadow documents and bounds.  The queue's thread changes *)
(* at most one of the work that waits at a time, so each property is kept  *)
(* once the three lemmas on the queue are there; the GPS also needs that   *)
(* FMD mode cannot end while enable_fmd_mode() sleeps.                     *)
(***************************************************************************)
EXTENDS Telemetry, TLAPS

EnablingIsFinding == at = "enabling" => fmd

Inv ==
    /\ TypeOK /\ EnablingIsFinding
    /\ SWorkGoesOn /\ SafeEndsFmd /\ GpsIsWanted /\ LastRequestCounts

-----------------------------------------------------------------------------
(* What the queue's operations leave in it *)

LEMMA TakenLeavesOthers ==
    ASSUME NEW q \in Seq(Works), q # <<>>, NEW w, Head(q) # w, IsIn(w, q)
    PROVE  IsIn(w, Tail(q))
<1>1. PICK i \in 1..Len(q) : q[i] = w
  BY DEF IsIn
<1>2. i # 1
  BY <1>1
<1>3. i - 1 \in 1..Len(Tail(q)) /\ Tail(q)[i - 1] = w
  BY <1>1, <1>2
<1>4. QED BY <1>3 DEF IsIn

LEMMA TakenAddsNone ==
    ASSUME NEW q \in Seq(Works), q # <<>>, NEW w, IsIn(w, Tail(q))
    PROVE  IsIn(w, q)
<1>1. PICK i \in 1..Len(Tail(q)) : Tail(q)[i] = w
  BY DEF IsIn
<1>2. i + 1 \in 1..Len(q) /\ q[i + 1] = w
  BY <1>1
<1>3. QED BY <1>2 DEF IsIn

LEMMA AppendedIsIn ==
    ASSUME NEW q \in Seq(Works), NEW w \in Works
    PROVE  Append(q, w) \in Seq(Works) /\ IsIn(w, Append(q, w))
<1>1. Append(q, w) \in Seq(Works) /\ Len(Append(q, w)) = Len(q) + 1 /\ Append(q, w)[Len(q) + 1] = w
  OBVIOUS
<1>2. Len(q) + 1 \in 1..Len(Append(q, w))
  BY <1>1
<1>3. QED BY <1>1, <1>2 DEF IsIn

LEMMA AppendKeeps ==
    ASSUME NEW q \in Seq(Works), NEW w \in Works, NEW v, v # w
    PROVE  IsIn(v, Append(q, w)) <=> IsIn(v, q)
<1>1. ASSUME IsIn(v, q)
      PROVE  IsIn(v, Append(q, w))
  <2>1. PICK i \in 1..Len(q) : q[i] = v
    BY <1>1 DEF IsIn
  <2>2. i \in 1..Len(Append(q, w)) /\ Append(q, w)[i] = v
    BY <2>1
  <2>3. QED BY <2>2 DEF IsIn
<1>2. ASSUME IsIn(v, Append(q, w))
      PROVE  IsIn(v, q)
  <2>1. PICK i \in 1..Len(Append(q, w)) : Append(q, w)[i] = v
    BY <1>2 DEF IsIn
  <2>2. i \in 1..Len(q) /\ q[i] = v
    BY <2>1
  <2>3. QED BY <2>2 DEF IsIn
<1>3. QED BY <1>1, <1>2

LEMMA Submitted ==
    ASSUME NEW q \in Seq(Works), NEW w \in Works
    PROVE  /\ Submit(q, w) \in Seq(Works)
           /\ IsIn(w, Submit(q, w))
           /\ \A v : v # w => (IsIn(v, Submit(q, w)) <=> IsIn(v, q))
BY AppendedIsIn, AppendKeeps DEF Submit

LEMMA Divided ==
    ASSUME NEW a \in Nat, NEW b \in Nat \ {0}
    PROVE  a \div b \in Nat
OBVIOUS

LEMMA ScansAreNatural ==
    ASSUME NEW d \in Docs, NEW m \in Modes, NEW r \in {"none", "da", "lte"}
    PROVE  ScansPerTelemetry(d, m, r) \in Nat
<1>1. d.S[m] \in Nat \ {0} /\ d.T[m] \in Nat \ {0} /\ d.Rec \in Nat \ {0}
  BY TelemetryAssumption DEF Positive
<1>2. ScanPeriod(d, m, r) \in Nat \ {0}
  BY <1>1 DEF ScanPeriod, Lower
<1>3. d.S[m] * d.T[m] \in Nat
  BY <1>1
<1>4. QED BY <1>2, <1>3, Divided DEF ScansPerTelemetry

-----------------------------------------------------------------------------
(* The steps *)

LEMMA Reset ==
    ASSUME TypeOK, NEW m \in Modes, NEW d \in Docs, NEW c \in Nat, ResetTimer(m, d, c)
    PROVE  timer' = TRUE /\ mode' \in Modes /\ gT' \in Nat /\ count' \in 0..gT'
<1>1. ScansPerTelemetry(d, m, radio) \in Nat
  BY ScansAreNatural DEF TypeOK
<1>2. gT' = ScansPerTelemetry(d, m, radio) /\ count' = Lower(c, ScansPerTelemetry(d, m, radio))
      /\ mode' = m /\ timer' = TRUE
  BY DEF ResetTimer
<1>3. QED BY <1>1, <1>2 DEF Lower

LEMMA ResetNow ==
    ASSUME TypeOK, NEW d \in Docs, ResetTimer(ModeNow, d, count)
    PROVE  timer' = TRUE /\ mode' \in Modes /\ gT' \in Nat /\ count' \in 0..gT'
<1>1. ModeNow \in Modes
  BY Zenon DEF ModeNow, Modes
<1>2. count \in 0..gT /\ gT \in Nat
  BY Zenon DEF TypeOK
<1>3. count \in Nat
  BY <1>2
<1>4. QED BY <1>1, <1>3, Reset

LEMMA Taken ==
    ASSUME TypeOK, NEW h, Takes(h)
    PROVE  /\ Tail(queue) \in Seq(Works)
           /\ \A w : w # h /\ IsIn(w, queue) => IsIn(w, Tail(queue))
           /\ \A w : IsIn(w, Tail(queue)) => IsIn(w, queue)
<1>1. queue \in Seq(Works) /\ queue # <<>> /\ Head(queue) = h
  BY DEF TypeOK, Takes
<1>2. Tail(queue) \in Seq(Works)
  BY <1>1
<1>3. QED BY <1>1, <1>2, TakenLeavesOthers, TakenAddsNone

LEMMA EventCounted ==
    ASSUME TypeOK, NoEvent \/ Event
    PROVE  events' \in 0..MaxEvents
<1>1. events \in 0..MaxEvents /\ MaxEvents \in Nat
  BY TelemetryAssumption, Zenon DEF TypeOK
<1>2. events' = events \/ (events < MaxEvents /\ events' = events + 1)
  BY DEF NoEvent, Event
<1>3. QED BY <1>1, <1>2

LEMMA Started ==
    ASSUME TypeOK, StartGps
    PROVE  gps' \in {"none", "off", "on"} /\ failed' \in BOOLEAN /\ events' \in 0..MaxEvents
<1>1. gps \in {"none", "off", "on"} /\ failed \in BOOLEAN
  BY Zenon DEF TypeOK
<1>2. gps' \in {"none", "off", "on"} /\ failed' \in BOOLEAN
  BY <1>1, Zenon DEF StartGps, location
<1>3. NoEvent \/ Event
  BY Zenon DEF StartGps
<1>4. QED BY <1>2, <1>3, EventCounted

LEMMA Stopped ==
    ASSUME TypeOK, StopGps
    PROVE  /\ gps' \in {"none", "off", "on"} /\ failed' \in BOOLEAN /\ events' \in 0..MaxEvents
           /\ gps' = "on" => failed'
<1>1. gps \in {"none", "off", "on"}
  BY Zenon DEF TypeOK
<1>2. gps' \in {"none", "off", "on"}
  BY <1>1, Zenon DEF StopGps
<1>3. failed' \in BOOLEAN /\ (gps' = "on" => failed')
  BY <1>1, Zenon DEF StopGps
<1>4. NoEvent \/ Event
  BY Zenon DEF StopGps
<1>5. QED BY <1>2, <1>3, <1>4, EventCounted

LEMMA Disabled ==
    ASSUME Inv, NEW why \in {"safe", "timeout", "request"}, NEW c \in 0..gT, DisableFmd(why, c)
    PROVE  /\ reason' = why /\ fmd' = FALSE
           /\ limit' \in {"none", "set", "over"}
           /\ timer' \in BOOLEAN /\ (timer => timer') /\ mode' \in Modes
           /\ gT' \in Nat /\ count' \in 0..gT'
           /\ gps' \in {"none", "off", "on"} /\ failed' \in BOOLEAN /\ events' \in 0..MaxEvents
           /\ gps' = "on" => poll \/ failed'
<1>1. TypeOK /\ GpsIsWanted
  BY DEF Inv
<1>2. CASE fmd
  <2>1. reason' = why /\ fmd' = FALSE /\ limit' = "none" /\ ResetTimer("norm", doc, c) /\ StopGps
    BY <1>2 DEF DisableFmd
  <2>2. "norm" \in Modes /\ doc \in Docs /\ gT \in Nat
    BY <1>1, Zenon DEF TypeOK, Modes
  <2>c. c \in Nat
    BY <2>2
  <2>3. timer' = TRUE /\ mode' \in Modes /\ gT' \in Nat /\ count' \in 0..gT'
    BY <1>1, <2>1, <2>2, <2>c, Reset
  <2>4. QED BY <1>1, <2>1, <2>3, Stopped
<1>3. CASE ~fmd
  <2>1. reason' = why /\ fmd' = fmd /\ limit' = limit /\ timer' = timer /\ mode' = mode /\ gT' = gT
        /\ count' = c /\ gps' = gps /\ failed' = failed /\ events' = events
    BY <1>3 DEF DisableFmd, location
  <2>2. gps' = "on" => poll \/ failed'
    BY <1>1, <1>3, <2>1, Zenon DEF GpsIsWanted
  <2>3. fmd' = FALSE
    BY <1>1, <1>3, <2>1 DEF TypeOK
  <2>4. QED BY <1>1, <2>1, <2>2, <2>3 DEF TypeOK
<1>4. QED BY <1>2, <1>3

WorkTypes == queue \in Seq(Works) /\ at \in {"idle", "scanning", "sending", "enabling", "hung"}
PeriodTypes == timer \in BOOLEAN /\ mode \in Modes /\ doc \in Docs /\ gT \in Nat /\ count \in 0..gT
FindTypes == fmd \in BOOLEAN /\ limit \in {"none", "set", "over"}
             /\ reason \in {"not active", "active", "safe", "timeout", "request"}
PollTypes == fmdInfo \in FmdRequests /\ pollInfo \in BOOLEAN /\ poll \in BOOLEAN
GpsTypes == gps \in {"none", "off", "on"} /\ failed \in BOOLEAN
OtherTypes == safe \in BOOLEAN /\ publishing \in BOOLEAN /\ radio \in {"none", "da", "lte"}
              /\ resetting \in Modes \cup {"no"}
CountTypes == requests \in 0..MaxRequests /\ events \in 0..MaxEvents

LEMMA Parts ==
    TypeOK <=> /\ WorkTypes /\ PeriodTypes /\ FindTypes /\ PollTypes /\ GpsTypes /\ OtherTypes
               /\ CountTypes
BY Zenon DEF TypeOK, WorkTypes, PeriodTypes, FindTypes, PollTypes, GpsTypes, OtherTypes, CountTypes

LEMMA PartsNext ==
    TypeOK' <=> /\ WorkTypes' /\ PeriodTypes' /\ FindTypes' /\ PollTypes' /\ GpsTypes'
                /\ OtherTypes' /\ CountTypes'
BY Zenon DEF TypeOK, WorkTypes, PeriodTypes, FindTypes, PollTypes, GpsTypes, OtherTypes, CountTypes

(* A part of the invariant stays when its variables do. *)
LEMMA SameWork ==
    WorkTypes /\ queue' = queue /\ at' = at
    => WorkTypes'
BY DEF WorkTypes

LEMMA SamePeriod ==
    PeriodTypes /\ timer' = timer /\ mode' = mode /\ doc' = doc /\ gT' = gT /\ count' = count
    => PeriodTypes'
BY DEF PeriodTypes

LEMMA SameFind ==
    FindTypes /\ fmd' = fmd /\ limit' = limit /\ reason' = reason
    => FindTypes'
BY DEF FindTypes

LEMMA SamePolling ==
    PollTypes /\ fmdInfo' = fmdInfo /\ pollInfo' = pollInfo /\ poll' = poll
    => PollTypes'
BY DEF PollTypes

LEMMA SameGps ==
    GpsTypes /\ gps' = gps /\ failed' = failed
    => GpsTypes'
BY DEF GpsTypes

LEMMA SameOthers ==
    OtherTypes /\ safe' = safe /\ publishing' = publishing /\ radio' = radio /\ resetting' = resetting
    => OtherTypes'
BY DEF OtherTypes

LEMMA SameCounts ==
    CountTypes /\ requests' = requests /\ events' = events
    => CountTypes'
BY DEF CountTypes

LEMMA SameEnabling ==
    EnablingIsFinding /\ at' = at /\ fmd' = fmd
    => EnablingIsFinding'
BY DEF EnablingIsFinding

LEMMA SameSWork ==
    SWorkGoesOn /\ timer' = timer /\ at' = at /\ resetting' = resetting /\ queue' = queue
    => SWorkGoesOn'
BY DEF SWorkGoesOn, Waits

LEMMA SameSafe ==
    SafeEndsFmd /\ fmd' = fmd /\ safe' = safe /\ publishing' = publishing /\ queue' = queue
    => SafeEndsFmd'
BY DEF SafeEndsFmd, Waits

LEMMA SameWish ==
    GpsIsWanted /\ gps' = gps /\ fmd' = fmd /\ poll' = poll /\ failed' = failed
    => GpsIsWanted'
BY DEF GpsIsWanted

LEMMA SameRequest ==
    LastRequestCounts /\ queue' = queue /\ fmdInfo' = fmdInfo /\ fmd' = fmd /\ reason' = reason
    => LastRequestCounts'
BY DEF LastRequestCounts, Waits

LEMMA SWorkSkipsKeeps ==
    ASSUME Inv, SWorkSkips
    PROVE  Inv'
<1>0. TypeOK /\ EnablingIsFinding /\ SWorkGoesOn /\ SafeEndsFmd /\ GpsIsWanted /\ LastRequestCounts
  BY Zenon DEF Inv
<1>p. WorkTypes /\ PeriodTypes /\ FindTypes /\ PollTypes /\ GpsTypes /\ OtherTypes /\ CountTypes
  BY <1>0, Parts
<1>f. /\ at' = at /\ doc' = doc /\ fmd' = fmd /\ limit' = limit /\ reason' = reason
      /\ fmdInfo' = fmdInfo /\ pollInfo' = pollInfo /\ poll' = poll /\ gps' = gps
      /\ failed' = failed /\ safe' = safe /\ publishing' = publishing /\ radio' = radio
      /\ resetting' = resetting /\ requests' = requests /\ events' = events
  BY DEF SWorkSkips, Done, work, period, find, polling, location, environment
<1>t. /\ queue' = Tail(queue) /\ Tail(queue) \in Seq(Works) /\ at = "idle"
      /\ \A w : w # "S" /\ IsIn(w, queue) => IsIn(w, Tail(queue))
      /\ \A w : IsIn(w, Tail(queue)) => IsIn(w, queue)
  BY <1>0, Taken DEF SWorkSkips, Takes, Done
<1>r. timer' = TRUE /\ mode' \in Modes /\ gT' \in Nat /\ count' \in 0..gT'
  BY <1>p, <1>0, ResetNow, Zenon DEF SWorkSkips, PeriodTypes
<1>1. /\ FindTypes' /\ PollTypes' /\ GpsTypes' /\ OtherTypes' /\ CountTypes'
      /\ EnablingIsFinding' /\ GpsIsWanted'
  BY <1>0, <1>p, <1>f, Zenon,
     SameFind, SamePolling, SameGps, SameOthers, SameCounts, SameEnabling, SameWish
<1>2. WorkTypes'
  BY <1>0, <1>p, <1>f, <1>t, <1>r, Zenon DEF WorkTypes
<1>3. PeriodTypes'
  BY <1>0, <1>p, <1>f, <1>t, <1>r, Zenon DEF PeriodTypes
<1>4. SWorkGoesOn'
  BY <1>0, <1>p, <1>f, <1>t, <1>r, Zenon DEF SWorkGoesOn, Waits
<1>5. SafeEndsFmd'
  BY <1>0, <1>p, <1>f, <1>t, <1>r, Zenon DEF SafeEndsFmd, Waits
<1>6. LastRequestCounts'
  BY <1>0, <1>p, <1>f, <1>t, <1>r, Zenon DEF LastRequestCounts, Waits
<1> QED BY <1>1, <1>2, <1>3, <1>4, <1>5, <1>6, PartsNext, Zenon DEF Inv

LEMMA SWorkStartsKeeps ==
    ASSUME Inv, SWorkStarts
    PROVE  Inv'
<1>0. TypeOK /\ EnablingIsFinding /\ SWorkGoesOn /\ SafeEndsFmd /\ GpsIsWanted /\ LastRequestCounts
  BY Zenon DEF Inv
<1>p. WorkTypes /\ PeriodTypes /\ FindTypes /\ PollTypes /\ GpsTypes /\ OtherTypes /\ CountTypes
  BY <1>0, Parts
<1>f. /\ timer' = timer /\ mode' = mode /\ gT' = gT /\ count' = count /\ doc' = doc
      /\ fmd' = fmd /\ limit' = limit /\ reason' = reason /\ fmdInfo' = fmdInfo
      /\ pollInfo' = pollInfo /\ poll' = poll /\ gps' = gps /\ failed' = failed
      /\ safe' = safe /\ publishing' = publishing /\ radio' = radio
      /\ resetting' = resetting /\ requests' = requests /\ events' = events
  BY DEF SWorkStarts, work, period, find, polling, location, environment
<1>t. /\ queue' = Tail(queue) /\ Tail(queue) \in Seq(Works) /\ at = "idle"
      /\ \A w : w # "S" /\ IsIn(w, queue) => IsIn(w, Tail(queue))
      /\ \A w : IsIn(w, Tail(queue)) => IsIn(w, queue)
  BY <1>0, Taken DEF SWorkStarts, Takes, Done
<1>a. at' = "scanning"
  BY DEF SWorkStarts
<1>1. /\ PeriodTypes' /\ FindTypes' /\ PollTypes' /\ GpsTypes' /\ OtherTypes'
      /\ CountTypes' /\ GpsIsWanted'
  BY <1>0, <1>p, <1>f, Zenon,
     SamePeriod, SameFind, SamePolling, SameGps, SameOthers, SameCounts, SameWish
<1>2. WorkTypes'
  BY <1>0, <1>p, <1>f, <1>t, <1>a, Zenon DEF WorkTypes
<1>3. EnablingIsFinding'
  BY <1>0, <1>p, <1>f, <1>t, <1>a, Zenon DEF EnablingIsFinding
<1>4. SWorkGoesOn'
  BY <1>0, <1>p, <1>f, <1>t, <1>a, Zenon DEF SWorkGoesOn, Waits
<1>5. SafeEndsFmd'
  BY <1>0, <1>p, <1>f, <1>t, <1>a, Zenon DEF SafeEndsFmd, Waits
<1>6. LastRequestCounts'
  BY <1>0, <1>p, <1>f, <1>t, <1>a, Zenon DEF LastRequestCounts, Waits
<1> QED BY <1>1, <1>2, <1>3, <1>4, <1>5, <1>6, PartsNext, Zenon DEF Inv

LEMMA ScanFailsKeeps ==
    ASSUME Inv, ScanFails
    PROVE  Inv'
<1>0. TypeOK /\ EnablingIsFinding /\ SWorkGoesOn /\ SafeEndsFmd /\ GpsIsWanted /\ LastRequestCounts
  BY Zenon DEF Inv
<1>p. WorkTypes /\ PeriodTypes /\ FindTypes /\ PollTypes /\ GpsTypes /\ OtherTypes /\ CountTypes
  BY <1>0, Parts
<1>f. /\ queue' = queue /\ doc' = doc /\ fmd' = fmd /\ limit' = limit /\ reason' = reason
      /\ fmdInfo' = fmdInfo /\ pollInfo' = pollInfo /\ poll' = poll /\ gps' = gps
      /\ failed' = failed /\ safe' = safe /\ publishing' = publishing /\ radio' = radio
      /\ resetting' = resetting /\ requests' = requests /\ events' = events
  BY DEF ScanFails, work, period, find, polling, location, environment
<1>a. at = "scanning" /\ at' = "idle"
  BY DEF ScanFails
<1>r. timer' = TRUE /\ mode' \in Modes /\ gT' \in Nat /\ count' \in 0..gT'
  BY <1>p, <1>0, ResetNow, Zenon DEF ScanFails, PeriodTypes
<1>1. /\ FindTypes' /\ PollTypes' /\ GpsTypes' /\ OtherTypes' /\ CountTypes'
      /\ SafeEndsFmd' /\ GpsIsWanted' /\ LastRequestCounts'
  BY <1>0, <1>p, <1>f, Zenon,
     SameFind, SamePolling, SameGps, SameOthers, SameCounts, SameSafe, SameWish,
     SameRequest
<1>2. WorkTypes'
  BY <1>0, <1>p, <1>f, <1>a, <1>r, Zenon DEF WorkTypes
<1>3. PeriodTypes'
  BY <1>0, <1>p, <1>f, <1>a, <1>r, Zenon DEF PeriodTypes
<1>4. EnablingIsFinding'
  BY <1>0, <1>p, <1>f, <1>a, <1>r, Zenon DEF EnablingIsFinding
<1>5. SWorkGoesOn'
  BY <1>0, <1>p, <1>f, <1>a, <1>r, Zenon DEF SWorkGoesOn, Waits
<1> QED BY <1>1, <1>2, <1>3, <1>4, <1>5, PartsNext, Zenon DEF Inv

LEMMA SWorkEndsKeeps ==
    ASSUME Inv, SWorkEnds
    PROVE  Inv'
<1>0. TypeOK /\ EnablingIsFinding /\ SWorkGoesOn /\ SafeEndsFmd /\ GpsIsWanted /\ LastRequestCounts
  BY Zenon DEF Inv
<1>p. WorkTypes /\ PeriodTypes /\ FindTypes /\ PollTypes /\ GpsTypes /\ OtherTypes /\ CountTypes
  BY <1>0, Parts
<1>f. /\ queue' = queue /\ doc' = doc /\ fmd' = fmd /\ limit' = limit /\ reason' = reason
      /\ fmdInfo' = fmdInfo /\ pollInfo' = pollInfo /\ poll' = poll /\ gps' = gps
      /\ failed' = failed /\ safe' = safe /\ publishing' = publishing /\ radio' = radio
      /\ resetting' = resetting /\ requests' = requests /\ events' = events
  BY DEF SWorkEnds, work, period, find, polling, location, environment
<1>a. at = "sending" /\ at' = "idle"
  BY DEF SWorkEnds
<1>r. timer' = TRUE /\ mode' \in Modes /\ gT' \in Nat /\ count' \in 0..gT'
  BY <1>p, <1>0, ResetNow, Zenon DEF SWorkEnds, PeriodTypes
<1>1. /\ FindTypes' /\ PollTypes' /\ GpsTypes' /\ OtherTypes' /\ CountTypes'
      /\ SafeEndsFmd' /\ GpsIsWanted' /\ LastRequestCounts'
  BY <1>0, <1>p, <1>f, Zenon,
     SameFind, SamePolling, SameGps, SameOthers, SameCounts, SameSafe, SameWish,
     SameRequest
<1>2. WorkTypes'
  BY <1>0, <1>p, <1>f, <1>a, <1>r, Zenon DEF WorkTypes
<1>3. PeriodTypes'
  BY <1>0, <1>p, <1>f, <1>a, <1>r, Zenon DEF PeriodTypes
<1>4. EnablingIsFinding'
  BY <1>0, <1>p, <1>f, <1>a, <1>r, Zenon DEF EnablingIsFinding
<1>5. SWorkGoesOn'
  BY <1>0, <1>p, <1>f, <1>a, <1>r, Zenon DEF SWorkGoesOn, Waits
<1> QED BY <1>1, <1>2, <1>3, <1>4, <1>5, PartsNext, Zenon DEF Inv

LEMMA TimerFiresKeeps ==
    ASSUME Inv, TimerFires
    PROVE  Inv'
<1>0. TypeOK /\ EnablingIsFinding /\ SWorkGoesOn /\ SafeEndsFmd /\ GpsIsWanted /\ LastRequestCounts
  BY Zenon DEF Inv
<1>p. WorkTypes /\ PeriodTypes /\ FindTypes /\ PollTypes /\ GpsTypes /\ OtherTypes /\ CountTypes
  BY <1>0, Parts
<1>f. /\ at' = at /\ mode' = mode /\ gT' = gT /\ count' = count /\ doc' = doc /\ fmd' = fmd
      /\ limit' = limit /\ reason' = reason /\ fmdInfo' = fmdInfo /\ pollInfo' = pollInfo
      /\ poll' = poll /\ gps' = gps /\ failed' = failed /\ safe' = safe
      /\ publishing' = publishing /\ radio' = radio /\ resetting' = resetting
      /\ requests' = requests /\ events' = events
  BY DEF TimerFires, work, period, find, polling, location, environment
<1>a. timer' = FALSE /\ queue' = Submit(queue, "S") /\ queue \in Seq(Works)
  BY <1>p DEF TimerFires, WorkTypes
<1>w. "S" \in Works
  BY DEF Works
<1>s. /\ queue' \in Seq(Works) /\ IsIn("S", queue')
      /\ \A w : w # "S" => (IsIn(w, queue') <=> IsIn(w, queue))
  BY <1>a, <1>w, Submitted
<1>1. /\ FindTypes' /\ PollTypes' /\ GpsTypes' /\ OtherTypes' /\ CountTypes'
      /\ EnablingIsFinding' /\ GpsIsWanted'
  BY <1>0, <1>p, <1>f, Zenon,
     SameFind, SamePolling, SameGps, SameOthers, SameCounts, SameEnabling, SameWish
<1>2. WorkTypes'
  BY <1>0, <1>p, <1>f, <1>a, <1>w, <1>s, Zenon DEF WorkTypes
<1>3. PeriodTypes'
  BY <1>0, <1>p, <1>f, <1>a, <1>w, <1>s, Zenon DEF PeriodTypes
<1>4. SWorkGoesOn'
  BY <1>0, <1>p, <1>f, <1>a, <1>w, <1>s, Zenon DEF SWorkGoesOn, Waits
<1>5. SafeEndsFmd'
  BY <1>0, <1>p, <1>f, <1>a, <1>w, <1>s, Zenon DEF SafeEndsFmd, Waits
<1>6. LastRequestCounts'
  BY <1>0, <1>p, <1>f, <1>a, <1>w, <1>s, Zenon DEF LastRequestCounts, Waits
<1> QED BY <1>1, <1>2, <1>3, <1>4, <1>5, <1>6, PartsNext, Zenon DEF Inv

LEMMA EnableFmdKeeps ==
    ASSUME Inv, EnableFmd
    PROVE  Inv'
<1>0. TypeOK /\ EnablingIsFinding /\ SWorkGoesOn /\ SafeEndsFmd /\ GpsIsWanted /\ LastRequestCounts
  BY Zenon DEF Inv
<1>p. WorkTypes /\ PeriodTypes /\ FindTypes /\ PollTypes /\ GpsTypes /\ OtherTypes /\ CountTypes
  BY <1>0, Parts
<1>f. /\ doc' = doc /\ fmdInfo' = fmdInfo /\ pollInfo' = pollInfo /\ poll' = poll
      /\ failed' = failed /\ safe' = safe /\ publishing' = publishing /\ radio' = radio
      /\ resetting' = resetting /\ requests' = requests /\ events' = events
  BY DEF EnableFmd, AlreadyFinding, RefusedWhenSafe, StartFinding, polling, environment, location
<1>q. /\ queue' = Tail(queue) /\ fmdInfo # "off" /\ at = "idle"
      /\ Tail(queue) \in Seq(Works)
      /\ \A w : w # "fmd" /\ IsIn(w, queue) => IsIn(w, Tail(queue))
  BY <1>0, Taken DEF EnableFmd, AlreadyFinding, RefusedWhenSafe, StartFinding, Done, Takes
<1>n. /\ at' \in {"idle", "enabling"} /\ timer' \in BOOLEAN /\ (timer => timer')
      /\ mode' \in Modes /\ gT' \in Nat /\ count' \in 0..gT' /\ gps' \in {gps, "off"}
      /\ fmd' \in BOOLEAN /\ limit' \in {"none", "set", "over"}
      /\ reason' \in {"not active", "active", "safe", "timeout", "request"}
      /\ (fmd' /\ safe => fmd) /\ (fmd => fmd') /\ (at' = "enabling" => fmd')
      /\ (fmd' \/ reason' = "safe")
  <2>1. CASE AlreadyFinding
    <3>1. /\ at' = at /\ timer' = timer /\ mode' = mode /\ gT' = gT /\ count' = count
          /\ gps' = gps /\ fmd' = fmd /\ limit' = limit /\ reason' = reason /\ fmd
      BY <2>1 DEF AlreadyFinding, Done, period, find, location
    <3>2. QED BY <1>p, <1>q, <3>1, Zenon DEF PeriodTypes, FindTypes
  <2>2. CASE RefusedWhenSafe
    <3>1. /\ at' = at /\ timer' = timer /\ mode' = mode /\ gT' = gT /\ count' = count
          /\ gps' = gps /\ fmd' = fmd /\ limit' = "none" /\ reason' = "safe" /\ ~fmd
      BY <2>2 DEF RefusedWhenSafe, Done, period, location
    <3>2. QED BY <1>p, <1>q, <3>1, Zenon DEF PeriodTypes, FindTypes
  <2>3. CASE StartFinding
    <3>1. /\ at' = "enabling" /\ gps' \in {gps, "off"} /\ fmd' = TRUE /\ limit' \in {"set", limit}
          /\ reason' = "active" /\ ~fmd /\ ~safe /\ ResetTimer("fmd", doc, count)
      BY <2>3 DEF StartFinding
    <3>2. "fmd" \in Modes /\ doc \in Docs /\ count \in 0..gT /\ gT \in Nat
      BY <1>p, Zenon DEF Modes, PeriodTypes
    <3>3. count \in Nat
      BY <3>2
    <3>4. timer' = TRUE /\ mode' \in Modes /\ gT' \in Nat /\ count' \in 0..gT'
      BY <1>0, <3>1, <3>2, <3>3, Reset
    <3>5. QED BY <1>p, <3>1, <3>4, Zenon DEF FindTypes
  <2>4. QED BY <2>1, <2>2, <2>3 DEF EnableFmd
<1>1. WorkTypes'
  BY <1>0, <1>p, <1>f, <1>q, <1>n, Zenon DEF WorkTypes
<1>2. PeriodTypes'
  BY <1>0, <1>p, <1>f, <1>q, <1>n, Zenon DEF PeriodTypes
<1>3. FindTypes'
  BY <1>0, <1>p, <1>f, <1>q, <1>n, Zenon DEF FindTypes
<1>4. PollTypes'
  BY <1>0, <1>p, <1>f, <1>q, <1>n, Zenon DEF PollTypes
<1>5. GpsTypes'
  BY <1>0, <1>p, <1>f, <1>q, <1>n, Zenon DEF GpsTypes
<1>6. OtherTypes'
  BY <1>0, <1>p, <1>f, <1>q, <1>n, Zenon DEF OtherTypes
<1>7. CountTypes'
  BY <1>0, <1>p, <1>f, <1>q, <1>n, Zenon DEF CountTypes
<1>8. EnablingIsFinding'
  BY <1>0, <1>p, <1>f, <1>q, <1>n, Zenon DEF EnablingIsFinding
<1>9. SWorkGoesOn'
  BY <1>0, <1>p, <1>f, <1>q, <1>n, Zenon DEF SWorkGoesOn, Waits
<1>10. SafeEndsFmd'
  BY <1>0, <1>p, <1>f, <1>q, <1>n, Zenon DEF SafeEndsFmd, Waits
<1>11. GpsIsWanted'
  BY <1>0, <1>p, <1>f, <1>q, <1>n, Zenon DEF GpsIsWanted
<1>12. LastRequestCounts'
  BY <1>0, <1>p, <1>f, <1>q, <1>n, Zenon DEF LastRequestCounts, Waits
<1> QED BY <1>1, <1>2, <1>3, <1>4, <1>5, <1>6, <1>7, <1>8, <1>9, <1>10, <1>11, <1>12,
           PartsNext, Zenon DEF Inv

LEMMA FindingStartedKeeps ==
    ASSUME Inv, FindingStarted
    PROVE  Inv'
<1>0. TypeOK /\ EnablingIsFinding /\ SWorkGoesOn /\ SafeEndsFmd /\ GpsIsWanted /\ LastRequestCounts
  BY Zenon DEF Inv
<1>p. WorkTypes /\ PeriodTypes /\ FindTypes /\ PollTypes /\ GpsTypes /\ OtherTypes /\ CountTypes
  BY <1>0, Parts
<1>f. /\ queue' = queue /\ timer' = timer /\ mode' = mode /\ gT' = gT /\ count' = count
      /\ doc' = doc /\ fmd' = fmd /\ limit' = limit /\ reason' = reason
      /\ fmdInfo' = fmdInfo /\ pollInfo' = pollInfo /\ poll' = poll /\ safe' = safe
      /\ publishing' = publishing /\ radio' = radio /\ resetting' = resetting
      /\ requests' = requests
  BY DEF FindingStarted, work, period, find, polling, location, environment
<1>a. at = "enabling" /\ at' \in {"idle", "hung"}
  BY DEF FindingStarted
<1>s. gps' \in {"none", "off", "on"} /\ failed' \in BOOLEAN /\ events' \in 0..MaxEvents
  BY <1>0, Started DEF FindingStarted
<1>k. fmd
  BY <1>0, <1>a DEF EnablingIsFinding
<1>1. /\ PeriodTypes' /\ FindTypes' /\ PollTypes' /\ OtherTypes' /\ SafeEndsFmd'
      /\ LastRequestCounts'
  BY <1>0, <1>p, <1>f, Zenon,
     SamePeriod, SameFind, SamePolling, SameOthers, SameSafe, SameRequest
<1>2. WorkTypes'
  BY <1>0, <1>p, <1>f, <1>a, <1>s, <1>k, Zenon DEF WorkTypes
<1>3. GpsTypes'
  BY <1>0, <1>p, <1>f, <1>a, <1>s, <1>k, Zenon DEF GpsTypes
<1>4. CountTypes'
  BY <1>0, <1>p, <1>f, <1>a, <1>s, <1>k, Zenon DEF CountTypes
<1>5. EnablingIsFinding'
  BY <1>0, <1>p, <1>f, <1>a, <1>s, <1>k, Zenon DEF EnablingIsFinding
<1>6. SWorkGoesOn'
  BY <1>0, <1>p, <1>f, <1>a, <1>s, <1>k, Zenon DEF SWorkGoesOn, Waits
<1>7. GpsIsWanted'
  BY <1>0, <1>p, <1>f, <1>a, <1>s, <1>k, Zenon DEF GpsIsWanted
<1> QED BY <1>1, <1>2, <1>3, <1>4, <1>5, <1>6, <1>7, PartsNext, Zenon DEF Inv

LEMMA FmdOffKeeps ==
    ASSUME Inv, FmdOff
    PROVE  Inv'
<1>0. TypeOK /\ EnablingIsFinding /\ SWorkGoesOn /\ SafeEndsFmd /\ GpsIsWanted /\ LastRequestCounts
  BY Zenon DEF Inv
<1>p. WorkTypes /\ PeriodTypes /\ FindTypes /\ PollTypes /\ GpsTypes /\ OtherTypes /\ CountTypes
  BY <1>0, Parts
<1>f. /\ at' = at /\ doc' = doc /\ fmdInfo' = fmdInfo /\ pollInfo' = pollInfo
      /\ poll' = poll /\ safe' = safe /\ publishing' = publishing /\ radio' = radio
      /\ resetting' = resetting /\ requests' = requests
  BY DEF FmdOff, Done, work, period, find, polling, location, environment
<1>t. /\ queue' = Tail(queue) /\ Tail(queue) \in Seq(Works) /\ at = "idle"
      /\ \A w : w # "fmd" /\ IsIn(w, queue) => IsIn(w, Tail(queue))
      /\ \A w : IsIn(w, Tail(queue)) => IsIn(w, queue)
  BY <1>0, Taken DEF FmdOff, Takes, Done
<1>c. count \in 0..gT
  BY <1>p, Zenon DEF PeriodTypes
<1>g. fmdInfo = "off" /\ DisableFmd("request", count)
  BY DEF FmdOff
<1>d. /\ reason' = "request" /\ fmd' = FALSE /\ limit' \in {"none", "set", "over"}
      /\ timer' \in BOOLEAN /\ (timer => timer') /\ mode' \in Modes
      /\ gT' \in Nat /\ count' \in 0..gT' /\ gps' \in {"none", "off", "on"} /\ failed' \in BOOLEAN
      /\ events' \in 0..MaxEvents /\ (gps' = "on" => poll \/ failed')
  BY <1>c, <1>g, Disabled
<1>1. /\ PollTypes' /\ OtherTypes'
  BY <1>0, <1>p, <1>f, Zenon,
     SamePolling, SameOthers
<1>2. WorkTypes'
  BY <1>0, <1>p, <1>f, <1>t, <1>c, <1>g, <1>d, Zenon DEF WorkTypes
<1>3. PeriodTypes'
  BY <1>0, <1>p, <1>f, <1>t, <1>c, <1>g, <1>d, Zenon DEF PeriodTypes
<1>4. FindTypes'
  BY <1>0, <1>p, <1>f, <1>t, <1>c, <1>g, <1>d, Zenon DEF FindTypes
<1>5. GpsTypes'
  BY <1>0, <1>p, <1>f, <1>t, <1>c, <1>g, <1>d, Zenon DEF GpsTypes
<1>6. CountTypes'
  BY <1>0, <1>p, <1>f, <1>t, <1>c, <1>g, <1>d, Zenon DEF CountTypes
<1>7. EnablingIsFinding'
  BY <1>0, <1>p, <1>f, <1>t, <1>c, <1>g, <1>d, Zenon DEF EnablingIsFinding
<1>8. SWorkGoesOn'
  BY <1>0, <1>p, <1>f, <1>t, <1>c, <1>g, <1>d, Zenon DEF SWorkGoesOn, Waits
<1>9. SafeEndsFmd'
  BY <1>0, <1>p, <1>f, <1>t, <1>c, <1>g, <1>d, Zenon DEF SafeEndsFmd, Waits
<1>10. GpsIsWanted'
  BY <1>0, <1>p, <1>f, <1>t, <1>c, <1>g, <1>d, Zenon DEF GpsIsWanted
<1>11. LastRequestCounts'
  BY <1>0, <1>p, <1>f, <1>t, <1>c, <1>g, <1>d, Zenon DEF LastRequestCounts, Waits
<1> QED BY <1>1, <1>2, <1>3, <1>4, <1>5, <1>6, <1>7, <1>8, <1>9, <1>10, <1>11,
           PartsNext, Zenon DEF Inv

LEMMA SafeEventKeeps ==
    ASSUME Inv, SafeEvent
    PROVE  Inv'
<1>0. TypeOK /\ EnablingIsFinding /\ SWorkGoesOn /\ SafeEndsFmd /\ GpsIsWanted /\ LastRequestCounts
  BY Zenon DEF Inv
<1>p. WorkTypes /\ PeriodTypes /\ FindTypes /\ PollTypes /\ GpsTypes /\ OtherTypes /\ CountTypes
  BY <1>0, Parts
<1>f. /\ at' = at /\ doc' = doc /\ fmdInfo' = fmdInfo /\ pollInfo' = pollInfo
      /\ poll' = poll /\ safe' = safe /\ publishing' = publishing /\ radio' = radio
      /\ resetting' = resetting /\ requests' = requests
  BY DEF SafeEvent, Done, work, period, find, polling, location, environment
<1>t. /\ queue' = Tail(queue) /\ Tail(queue) \in Seq(Works) /\ at = "idle"
      /\ \A w : w # "safe" /\ IsIn(w, queue) => IsIn(w, Tail(queue))
      /\ \A w : IsIn(w, Tail(queue)) => IsIn(w, queue)
  BY <1>0, Taken DEF SafeEvent, Takes, Done
<1>c. count \in 0..gT
  BY <1>p, Zenon DEF PeriodTypes
<1>d. /\ (safe => reason' = "safe" /\ fmd' = FALSE) /\ (~safe => fmd' = fmd /\ reason' = reason)
      /\ fmd' \in BOOLEAN /\ reason' \in {"not active", "active", "safe", "timeout", "request"}
      /\ limit' \in {"none", "set", "over"} /\ (fmd' => fmd)
      /\ (fmdInfo = "off" /\ ~fmd => ~fmd')
      /\ (fmd \/ reason \in {"safe", "timeout"} => fmd' \/ reason' \in {"safe", "timeout"})
      /\ timer' \in BOOLEAN /\ (timer => timer') /\ mode' \in Modes
      /\ gT' \in Nat /\ count' \in 0..gT' /\ gps' \in {"none", "off", "on"} /\ failed' \in BOOLEAN
      /\ events' \in 0..MaxEvents /\ (gps' = "on" => fmd' \/ poll \/ failed')
  <2>1. CASE safe
    <3>1. DisableFmd("safe", count)
      BY <2>1 DEF SafeEvent
    <3>2. QED BY <1>c, <2>1, <3>1, Disabled
  <2>2. CASE ~safe
    <3>1. /\ timer' = timer /\ mode' = mode /\ gT' = gT /\ count' = count /\ fmd' = fmd
          /\ limit' = limit /\ reason' = reason /\ gps' = gps /\ failed' = failed
          /\ events' = events
      BY <2>2 DEF SafeEvent, period, find, location
    <3>2. QED BY <1>0, <1>p, <2>2, <3>1, Zenon
          DEF PeriodTypes, FindTypes, GpsTypes, CountTypes, GpsIsWanted
  <2>3. QED BY <2>1, <2>2
<1>1. /\ PollTypes' /\ OtherTypes'
  BY <1>0, <1>p, <1>f, Zenon,
     SamePolling, SameOthers
<1>2. WorkTypes'
  BY <1>0, <1>p, <1>f, <1>t, <1>c, <1>d, Zenon DEF WorkTypes
<1>3. PeriodTypes'
  BY <1>0, <1>p, <1>f, <1>t, <1>c, <1>d, Zenon DEF PeriodTypes
<1>4. FindTypes'
  BY <1>0, <1>p, <1>f, <1>t, <1>c, <1>d, Zenon DEF FindTypes
<1>5. GpsTypes'
  BY <1>0, <1>p, <1>f, <1>t, <1>c, <1>d, Zenon DEF GpsTypes
<1>6. CountTypes'
  BY <1>0, <1>p, <1>f, <1>t, <1>c, <1>d, Zenon DEF CountTypes
<1>7. EnablingIsFinding'
  BY <1>0, <1>p, <1>f, <1>t, <1>c, <1>d, Zenon DEF EnablingIsFinding
<1>8. SWorkGoesOn'
  BY <1>0, <1>p, <1>f, <1>t, <1>c, <1>d, Zenon DEF SWorkGoesOn, Waits
<1>9. SafeEndsFmd'
  BY <1>0, <1>p, <1>f, <1>t, <1>c, <1>d, Zenon DEF SafeEndsFmd, Waits
<1>10. GpsIsWanted'
  BY <1>0, <1>p, <1>f, <1>t, <1>c, <1>d, Zenon DEF GpsIsWanted
<1>11. LastRequestCounts'
  BY <1>0, <1>p, <1>f, <1>t, <1>c, <1>d, Zenon DEF LastRequestCounts, Waits
<1> QED BY <1>1, <1>2, <1>3, <1>4, <1>5, <1>6, <1>7, <1>8, <1>9, <1>10, <1>11,
           PartsNext, Zenon DEF Inv

LEMMA PollGpsKeeps ==
    ASSUME Inv, PollGps
    PROVE  Inv'
<1>0. TypeOK /\ EnablingIsFinding /\ SWorkGoesOn /\ SafeEndsFmd /\ GpsIsWanted /\ LastRequestCounts
  BY Zenon DEF Inv
<1>p. WorkTypes /\ PeriodTypes /\ FindTypes /\ PollTypes /\ GpsTypes /\ OtherTypes /\ CountTypes
  BY <1>0, Parts
<1>f. /\ at' = at /\ timer' = timer /\ mode' = mode /\ gT' = gT /\ count' = count
      /\ doc' = doc /\ fmd' = fmd /\ limit' = limit /\ reason' = reason
      /\ fmdInfo' = fmdInfo /\ pollInfo' = pollInfo /\ safe' = safe
      /\ publishing' = publishing /\ radio' = radio /\ resetting' = resetting
      /\ requests' = requests
  BY DEF PollGps, Done, work, period, find, polling, location, environment
<1>t. /\ queue' = Tail(queue) /\ Tail(queue) \in Seq(Works) /\ at = "idle"
      /\ \A w : w # "poll" /\ IsIn(w, queue) => IsIn(w, Tail(queue))
      /\ \A w : IsIn(w, Tail(queue)) => IsIn(w, queue)
  BY <1>0, Taken DEF PollGps, Takes, Done
<1>d. /\ poll' \in BOOLEAN /\ gps' \in {"none", "off", "on"} /\ failed' \in BOOLEAN
      /\ events' \in 0..MaxEvents /\ (gps' = "on" => fmd \/ poll' \/ failed')
  <2>0. poll' = pollInfo /\ pollInfo \in BOOLEAN
    BY <1>p, Zenon DEF PollGps, PollTypes
  <2>1. CASE pollInfo = poll
    <3>1. gps' = gps /\ failed' = failed /\ events' = events
      BY <2>1 DEF PollGps, location
    <3>2. QED BY <1>0, <1>p, <2>0, <2>1, <3>1, Zenon DEF GpsTypes, CountTypes, GpsIsWanted
  <2>2. CASE pollInfo # poll /\ pollInfo
    <3>1. StartGps
      BY <2>2 DEF PollGps
    <3>2. QED BY <1>0, <2>0, <2>2, <3>1, Started
  <2>3. CASE pollInfo # poll /\ ~pollInfo
    <3>1. StopGps
      BY <2>3 DEF PollGps
    <3>2. QED BY <1>0, <2>0, <3>1, Stopped
  <2>4. QED BY <2>1, <2>2, <2>3
<1>1. /\ PeriodTypes' /\ FindTypes' /\ OtherTypes' /\ EnablingIsFinding'
  BY <1>0, <1>p, <1>f, Zenon,
     SamePeriod, SameFind, SameOthers, SameEnabling
<1>2. WorkTypes'
  BY <1>0, <1>p, <1>f, <1>t, <1>d, Zenon DEF WorkTypes
<1>3. PollTypes'
  BY <1>0, <1>p, <1>f, <1>t, <1>d, Zenon DEF PollTypes
<1>4. GpsTypes'
  BY <1>0, <1>p, <1>f, <1>t, <1>d, Zenon DEF GpsTypes
<1>5. CountTypes'
  BY <1>0, <1>p, <1>f, <1>t, <1>d, Zenon DEF CountTypes
<1>6. SWorkGoesOn'
  BY <1>0, <1>p, <1>f, <1>t, <1>d, Zenon DEF SWorkGoesOn, Waits
<1>7. SafeEndsFmd'
  BY <1>0, <1>p, <1>f, <1>t, <1>d, Zenon DEF SafeEndsFmd, Waits
<1>8. GpsIsWanted'
  BY <1>0, <1>p, <1>f, <1>t, <1>d, Zenon DEF GpsIsWanted
<1>9. LastRequestCounts'
  BY <1>0, <1>p, <1>f, <1>t, <1>d, Zenon DEF LastRequestCounts, Waits
<1> QED BY <1>1, <1>2, <1>3, <1>4, <1>5, <1>6, <1>7, <1>8, <1>9, PartsNext, Zenon DEF Inv

LEMMA StatusWorkKeeps ==
    ASSUME Inv, StatusWork
    PROVE  Inv'
<1>0. TypeOK /\ EnablingIsFinding /\ SWorkGoesOn /\ SafeEndsFmd /\ GpsIsWanted /\ LastRequestCounts
  BY Zenon DEF Inv
<1>p. WorkTypes /\ PeriodTypes /\ FindTypes /\ PollTypes /\ GpsTypes /\ OtherTypes /\ CountTypes
  BY <1>0, Parts
<1>f. /\ at' = at /\ mode' = mode /\ gT' = gT /\ count' = count /\ doc' = doc /\ fmd' = fmd
      /\ limit' = limit /\ reason' = reason /\ fmdInfo' = fmdInfo /\ pollInfo' = pollInfo
      /\ poll' = poll /\ safe' = safe /\ publishing' = publishing /\ radio' = radio
      /\ resetting' = resetting /\ requests' = requests
  BY DEF StatusWork, Done, work, period, find, polling, location, environment
<1>t. /\ queue' = Tail(queue) /\ Tail(queue) \in Seq(Works) /\ at = "idle"
      /\ \A w : w # "status" /\ IsIn(w, queue) => IsIn(w, Tail(queue))
      /\ \A w : IsIn(w, Tail(queue)) => IsIn(w, queue)
  BY <1>0, Taken DEF StatusWork, Takes, Done
<1>m. timer' \in BOOLEAN /\ (timer => timer')
  BY <1>p, Zenon DEF StatusWork, PeriodTypes
<1>d. /\ gps' \in {"none", "off", "on"} /\ failed' \in BOOLEAN
      /\ events' \in 0..MaxEvents /\ (gps' = "on" => fmd \/ poll \/ failed')
  <2>1. CASE fmd /\ StartGps
    BY <1>0, <2>1, Started
  <2>2. CASE UNCHANGED <<location, events>>
    <3>1. gps' = gps /\ failed' = failed /\ events' = events
      BY <2>2 DEF location
    <3>2. QED BY <1>0, <1>p, <3>1, Zenon DEF GpsTypes, CountTypes, GpsIsWanted
  <2>3. QED BY <2>1, <2>2 DEF StatusWork
<1>1. /\ FindTypes' /\ PollTypes' /\ OtherTypes' /\ EnablingIsFinding'
  BY <1>0, <1>p, <1>f, Zenon,
     SameFind, SamePolling, SameOthers, SameEnabling
<1>2. WorkTypes'
  BY <1>0, <1>p, <1>f, <1>t, <1>m, <1>d, Zenon DEF WorkTypes
<1>3. PeriodTypes'
  BY <1>0, <1>p, <1>f, <1>t, <1>m, <1>d, Zenon DEF PeriodTypes
<1>4. GpsTypes'
  BY <1>0, <1>p, <1>f, <1>t, <1>m, <1>d, Zenon DEF GpsTypes
<1>5. CountTypes'
  BY <1>0, <1>p, <1>f, <1>t, <1>m, <1>d, Zenon DEF CountTypes
<1>6. SWorkGoesOn'
  BY <1>0, <1>p, <1>f, <1>t, <1>m, <1>d, Zenon DEF SWorkGoesOn, Waits
<1>7. SafeEndsFmd'
  BY <1>0, <1>p, <1>f, <1>t, <1>m, <1>d, Zenon DEF SafeEndsFmd, Waits
<1>8. GpsIsWanted'
  BY <1>0, <1>p, <1>f, <1>t, <1>m, <1>d, Zenon DEF GpsIsWanted
<1>9. LastRequestCounts'
  BY <1>0, <1>p, <1>f, <1>t, <1>m, <1>d, Zenon DEF LastRequestCounts, Waits
<1> QED BY <1>1, <1>2, <1>3, <1>4, <1>5, <1>6, <1>7, <1>8, <1>9, PartsNext, Zenon DEF Inv

LEMMA ScanDoneKeeps ==
    ASSUME Inv, ScanDone
    PROVE  Inv'
<1>0. TypeOK /\ EnablingIsFinding /\ SWorkGoesOn /\ SafeEndsFmd /\ GpsIsWanted /\ LastRequestCounts
  BY Zenon DEF Inv
<1>p. WorkTypes /\ PeriodTypes /\ FindTypes /\ PollTypes /\ GpsTypes /\ OtherTypes /\ CountTypes
  BY <1>0, Parts
<1>f. /\ queue' = queue /\ doc' = doc /\ fmdInfo' = fmdInfo /\ pollInfo' = pollInfo
      /\ poll' = poll /\ safe' = safe /\ publishing' = publishing /\ radio' = radio
      /\ resetting' = resetting /\ requests' = requests
  BY DEF ScanDone, work, period, find, polling, location, environment
<1>a. at = "scanning" /\ at' = "sending"
  BY DEF ScanDone
<1>c. count \in 0..gT /\ gT \in Nat
  BY <1>p, Zenon DEF PeriodTypes
<1>d. /\ fmd' \in BOOLEAN /\ reason' \in {"not active", "active", "safe", "timeout", "request"}
      /\ limit' \in {"none", "set", "over"} /\ (fmd' => fmd)
      /\ (fmdInfo = "off" /\ ~fmd => ~fmd')
      /\ (fmd \/ reason \in {"safe", "timeout"} => fmd' \/ reason' \in {"safe", "timeout"})
      /\ timer' \in BOOLEAN /\ mode' \in Modes
      /\ gT' \in Nat /\ count' \in 0..gT' /\ gps' \in {"none", "off", "on"} /\ failed' \in BOOLEAN
      /\ events' \in 0..MaxEvents /\ (gps' = "on" => fmd' \/ poll \/ failed')
  <2>1. CASE Due /\ fmd /\ limit = "over"
    <3>1. DisableFmd("timeout", 0)
      BY <2>1 DEF ScanDone, SendTelemetry
    <3>2. 0 \in 0..gT
      BY <1>c
    <3>3. QED BY <3>1, <3>2, Disabled
  <2>2. CASE ~(Due /\ fmd /\ limit = "over")
    <3>1. /\ timer' = timer /\ mode' = mode /\ gT' = gT /\ fmd' = fmd /\ limit' = limit
          /\ reason' = reason /\ gps' = gps /\ failed' = failed /\ events' = events
          /\ count' = 0 \/ (~(count + 1 >= gT) /\ count' = count + 1)
      BY <2>2 DEF ScanDone, SendTelemetry, Due, find, location
    <3>2. gT' \in Nat /\ count' \in 0..gT'
      BY <1>c, <3>1
    <3>3. QED BY <1>0, <1>p, <3>1, <3>2, Zenon
          DEF PeriodTypes, FindTypes, GpsTypes, CountTypes, GpsIsWanted
  <2>3. QED BY <2>1, <2>2
<1>1. /\ PollTypes' /\ OtherTypes'
  BY <1>0, <1>p, <1>f, Zenon,
     SamePolling, SameOthers
<1>2. WorkTypes'
  BY <1>0, <1>p, <1>f, <1>a, <1>c, <1>d, Zenon DEF WorkTypes
<1>3. PeriodTypes'
  BY <1>0, <1>p, <1>f, <1>a, <1>c, <1>d, Zenon DEF PeriodTypes
<1>4. FindTypes'
  BY <1>0, <1>p, <1>f, <1>a, <1>c, <1>d, Zenon DEF FindTypes
<1>5. GpsTypes'
  BY <1>0, <1>p, <1>f, <1>a, <1>c, <1>d, Zenon DEF GpsTypes
<1>6. CountTypes'
  BY <1>0, <1>p, <1>f, <1>a, <1>c, <1>d, Zenon DEF CountTypes
<1>7. EnablingIsFinding'
  BY <1>0, <1>p, <1>f, <1>a, <1>c, <1>d, Zenon DEF EnablingIsFinding
<1>8. SWorkGoesOn'
  BY <1>0, <1>p, <1>f, <1>a, <1>c, <1>d, Zenon DEF SWorkGoesOn, Waits
<1>9. SafeEndsFmd'
  BY <1>0, <1>p, <1>f, <1>a, <1>c, <1>d, Zenon DEF SafeEndsFmd, Waits
<1>10. GpsIsWanted'
  BY <1>0, <1>p, <1>f, <1>a, <1>c, <1>d, Zenon DEF GpsIsWanted
<1>11. LastRequestCounts'
  BY <1>0, <1>p, <1>f, <1>a, <1>c, <1>d, Zenon DEF LastRequestCounts, Waits
<1> QED BY <1>1, <1>2, <1>3, <1>4, <1>5, <1>6, <1>7, <1>8, <1>9, <1>10, <1>11,
           PartsNext, Zenon DEF Inv

LEMMA FmdRequestKeeps ==
    ASSUME Inv, FmdRequest
    PROVE  Inv'
<1>0. TypeOK /\ EnablingIsFinding /\ SWorkGoesOn /\ SafeEndsFmd /\ GpsIsWanted /\ LastRequestCounts
  BY Zenon DEF Inv
<1>p. WorkTypes /\ PeriodTypes /\ FindTypes /\ PollTypes /\ GpsTypes /\ OtherTypes /\ CountTypes
  BY <1>0, Parts
<1>f. /\ at' = at /\ timer' = timer /\ mode' = mode /\ gT' = gT /\ count' = count
      /\ doc' = doc /\ fmd' = fmd /\ limit' = limit /\ reason' = reason
      /\ pollInfo' = pollInfo /\ poll' = poll /\ gps' = gps /\ failed' = failed
      /\ safe' = safe /\ publishing' = publishing /\ radio' = radio
      /\ resetting' = resetting /\ requests' = requests /\ events' = events
  BY DEF FmdRequest, work, period, find, polling, location, environment
<1>a. PICK r \in FmdRequests : /\ Takes(r) /\ fmdInfo' = r
                             /\ queue' = Submit(Tail(queue), "fmd")
  BY DEF FmdRequest
<1>h. r # "S" /\ r # "safe" /\ "fmd" \in Works
  BY DEF FmdRequests, Works, Requests
<1>t. /\ Tail(queue) \in Seq(Works)
      /\ \A w : w # r /\ IsIn(w, queue) => IsIn(w, Tail(queue))
  BY <1>0, <1>a, Taken
<1>s. /\ queue' \in Seq(Works) /\ IsIn("fmd", queue')
      /\ \A w : w # "fmd" => (IsIn(w, queue') <=> IsIn(w, Tail(queue)))
  BY <1>a, <1>h, <1>t, Submitted
<1>1. /\ PeriodTypes' /\ FindTypes' /\ GpsTypes' /\ OtherTypes' /\ CountTypes'
      /\ EnablingIsFinding' /\ GpsIsWanted'
  BY <1>0, <1>p, <1>f, Zenon,
     SamePeriod, SameFind, SameGps, SameOthers, SameCounts, SameEnabling, SameWish
<1>2. WorkTypes'
  BY <1>0, <1>p, <1>f, <1>a, <1>h, <1>t, <1>s, Zenon DEF WorkTypes
<1>3. PollTypes'
  BY <1>0, <1>p, <1>f, <1>a, <1>h, <1>t, <1>s, Zenon DEF PollTypes
<1>4. SWorkGoesOn'
  BY <1>0, <1>p, <1>f, <1>a, <1>h, <1>t, <1>s, Zenon DEF SWorkGoesOn, Waits
<1>5. SafeEndsFmd'
  BY <1>0, <1>p, <1>f, <1>a, <1>h, <1>t, <1>s, Zenon DEF SafeEndsFmd, Waits
<1>6. LastRequestCounts'
  BY <1>0, <1>p, <1>f, <1>a, <1>h, <1>t, <1>s, Zenon DEF LastRequestCounts, Waits
<1> QED BY <1>1, <1>2, <1>3, <1>4, <1>5, <1>6, PartsNext, Zenon DEF Inv

LEMMA PollRequestKeeps ==
    ASSUME Inv, PollRequest
    PROVE  Inv'
<1>0. TypeOK /\ EnablingIsFinding /\ SWorkGoesOn /\ SafeEndsFmd /\ GpsIsWanted /\ LastRequestCounts
  BY Zenon DEF Inv
<1>p. WorkTypes /\ PeriodTypes /\ FindTypes /\ PollTypes /\ GpsTypes /\ OtherTypes /\ CountTypes
  BY <1>0, Parts
<1>f. /\ at' = at /\ timer' = timer /\ mode' = mode /\ gT' = gT /\ count' = count
      /\ doc' = doc /\ fmd' = fmd /\ limit' = limit /\ reason' = reason
      /\ fmdInfo' = fmdInfo /\ poll' = poll /\ gps' = gps /\ failed' = failed
      /\ safe' = safe /\ publishing' = publishing /\ radio' = radio
      /\ resetting' = resetting /\ requests' = requests /\ events' = events
  BY DEF PollRequest, work, period, find, polling, location, environment
<1>a. PICK r \in PollRequests : /\ Takes(r) /\ pollInfo' = (r = "gps")
                              /\ queue' = Submit(Tail(queue), "poll")
  BY DEF PollRequest
<1>b. pollInfo' \in BOOLEAN
  BY <1>a, Zenon
<1>h. r # "S" /\ r # "safe" /\ r # "fmd" /\ "poll" \in Works
  BY DEF PollRequests, Works, Requests
<1>t. /\ Tail(queue) \in Seq(Works)
      /\ \A w : w # r /\ IsIn(w, queue) => IsIn(w, Tail(queue))
      /\ \A w : IsIn(w, Tail(queue)) => IsIn(w, queue)
  BY <1>0, <1>a, Taken
<1>s. /\ queue' \in Seq(Works)
      /\ \A w : w # "poll" => (IsIn(w, queue') <=> IsIn(w, Tail(queue)))
  BY <1>a, <1>h, <1>t, Submitted
<1>1. /\ PeriodTypes' /\ FindTypes' /\ GpsTypes' /\ OtherTypes' /\ CountTypes'
      /\ EnablingIsFinding' /\ GpsIsWanted'
  BY <1>0, <1>p, <1>f, Zenon,
     SamePeriod, SameFind, SameGps, SameOthers, SameCounts, SameEnabling, SameWish
<1>2. WorkTypes'
  BY <1>0, <1>p, <1>f, <1>a, <1>b, <1>h, <1>t, <1>s, Zenon DEF WorkTypes
<1>3. PollTypes'
  BY <1>0, <1>p, <1>f, <1>a, <1>b, <1>h, <1>t, <1>s, Zenon DEF PollTypes
<1>4. SWorkGoesOn'
  BY <1>0, <1>p, <1>f, <1>a, <1>b, <1>h, <1>t, <1>s, Zenon DEF SWorkGoesOn, Waits
<1>5. SafeEndsFmd'
  BY <1>0, <1>p, <1>f, <1>a, <1>b, <1>h, <1>t, <1>s, Zenon DEF SafeEndsFmd, Waits
<1>6. LastRequestCounts'
  BY <1>0, <1>p, <1>f, <1>a, <1>b, <1>h, <1>t, <1>s, Zenon DEF LastRequestCounts, Waits
<1> QED BY <1>1, <1>2, <1>3, <1>4, <1>5, <1>6, PartsNext, Zenon DEF Inv

LEMMA SetVarsKeeps ==
    ASSUME Inv, SetVars
    PROVE  Inv'
<1>0. TypeOK /\ EnablingIsFinding /\ SWorkGoesOn /\ SafeEndsFmd /\ GpsIsWanted /\ LastRequestCounts
  BY Zenon DEF Inv
<1>p. WorkTypes /\ PeriodTypes /\ FindTypes /\ PollTypes /\ GpsTypes /\ OtherTypes /\ CountTypes
  BY <1>0, Parts
<1>f. /\ at' = at /\ fmd' = fmd /\ limit' = limit /\ reason' = reason /\ fmdInfo' = fmdInfo
      /\ pollInfo' = pollInfo /\ poll' = poll /\ gps' = gps /\ failed' = failed
      /\ safe' = safe /\ publishing' = publishing /\ radio' = radio
      /\ resetting' = resetting /\ requests' = requests /\ events' = events
  BY DEF SetVars, Done, work, period, find, polling, location, environment
<1>t. /\ queue' = Tail(queue) /\ Tail(queue) \in Seq(Works) /\ at = "idle"
      /\ \A w : w # "vars" /\ IsIn(w, queue) => IsIn(w, Tail(queue))
      /\ \A w : IsIn(w, Tail(queue)) => IsIn(w, queue)
  BY <1>0, Taken DEF SetVars, Takes, Done
<1>d. /\ doc' \in Docs /\ timer' \in BOOLEAN /\ (timer => timer') /\ mode' \in Modes
      /\ gT' \in Nat /\ count' \in 0..gT'
  <2>1. PICK d \in Docs :
          /\ doc' = d
          /\ IF d.S # doc.S THEN ResetTimer(ModeNow, d, count) ELSE UNCHANGED period
    BY DEF SetVars
  <2>2. CASE d.S # doc.S
    BY <1>0, <2>1, <2>2, ResetNow
  <2>3. CASE d.S = doc.S
    <3>1. timer' = timer /\ mode' = mode /\ gT' = gT /\ count' = count
      BY <2>1, <2>3 DEF period
    <3>2. QED BY <1>p, <2>1, <3>1, Zenon DEF PeriodTypes
  <2>4. QED BY <2>2, <2>3
<1>1. /\ FindTypes' /\ PollTypes' /\ GpsTypes' /\ OtherTypes' /\ CountTypes'
      /\ EnablingIsFinding' /\ GpsIsWanted'
  BY <1>0, <1>p, <1>f, Zenon,
     SameFind, SamePolling, SameGps, SameOthers, SameCounts, SameEnabling, SameWish
<1>2. WorkTypes'
  BY <1>0, <1>p, <1>f, <1>t, <1>d, Zenon DEF WorkTypes
<1>3. PeriodTypes'
  BY <1>0, <1>p, <1>f, <1>t, <1>d, Zenon DEF PeriodTypes
<1>4. SWorkGoesOn'
  BY <1>0, <1>p, <1>f, <1>t, <1>d, Zenon DEF SWorkGoesOn, Waits
<1>5. SafeEndsFmd'
  BY <1>0, <1>p, <1>f, <1>t, <1>d, Zenon DEF SafeEndsFmd, Waits
<1>6. LastRequestCounts'
  BY <1>0, <1>p, <1>f, <1>t, <1>d, Zenon DEF LastRequestCounts, Waits
<1> QED BY <1>1, <1>2, <1>3, <1>4, <1>5, <1>6, PartsNext, Zenon DEF Inv

LEMMA SwitchedKeeps ==
    ASSUME Inv, Switched
    PROVE  Inv'
<1>0. TypeOK /\ EnablingIsFinding /\ SWorkGoesOn /\ SafeEndsFmd /\ GpsIsWanted /\ LastRequestCounts
  BY Zenon DEF Inv
<1>p. WorkTypes /\ PeriodTypes /\ FindTypes /\ PollTypes /\ GpsTypes /\ OtherTypes /\ CountTypes
  BY <1>0, Parts
<1>f. /\ queue' = queue /\ at' = at /\ mode' = mode /\ gT' = gT /\ count' = count
      /\ doc' = doc /\ fmd' = fmd /\ limit' = limit /\ reason' = reason
      /\ fmdInfo' = fmdInfo /\ pollInfo' = pollInfo /\ poll' = poll /\ gps' = gps
      /\ failed' = failed /\ safe' = safe /\ publishing' = publishing
      /\ requests' = requests
  BY DEF Switched, work, period, find, polling, location, environment
<1>a. radio' \in {"none", "da", "lte"} /\ resetting' \in {"norm", "fmd"} /\ timer' = FALSE
  BY DEF Switched, ModeNow
<1>b. resetting' \in Modes \cup {"no"} /\ resetting' # "no"
  BY <1>a DEF Modes
<1>e. events' \in 0..MaxEvents
  BY <1>0, EventCounted DEF Switched
<1>1. /\ WorkTypes' /\ FindTypes' /\ PollTypes' /\ GpsTypes' /\ EnablingIsFinding'
      /\ SafeEndsFmd' /\ GpsIsWanted' /\ LastRequestCounts'
  BY <1>0, <1>p, <1>f, Zenon,
     SameWork, SameFind, SamePolling, SameGps, SameEnabling, SameSafe, SameWish,
     SameRequest
<1>2. PeriodTypes'
  BY <1>0, <1>p, <1>f, <1>a, <1>b, <1>e, Zenon DEF PeriodTypes
<1>3. OtherTypes'
  BY <1>0, <1>p, <1>f, <1>a, <1>b, <1>e, Zenon DEF OtherTypes
<1>4. CountTypes'
  BY <1>0, <1>p, <1>f, <1>a, <1>b, <1>e, Zenon DEF CountTypes
<1>5. SWorkGoesOn'
  BY <1>0, <1>p, <1>f, <1>a, <1>b, <1>e, Zenon DEF SWorkGoesOn, Waits
<1> QED BY <1>1, <1>2, <1>3, <1>4, <1>5, PartsNext, Zenon DEF Inv

LEMMA TimerIsResetKeeps ==
    ASSUME Inv, TimerIsReset
    PROVE  Inv'
<1>0. TypeOK /\ EnablingIsFinding /\ SWorkGoesOn /\ SafeEndsFmd /\ GpsIsWanted /\ LastRequestCounts
  BY Zenon DEF Inv
<1>p. WorkTypes /\ PeriodTypes /\ FindTypes /\ PollTypes /\ GpsTypes /\ OtherTypes /\ CountTypes
  BY <1>0, Parts
<1>f. /\ queue' = queue /\ at' = at /\ doc' = doc /\ fmd' = fmd /\ limit' = limit
      /\ reason' = reason /\ fmdInfo' = fmdInfo /\ pollInfo' = pollInfo /\ poll' = poll
      /\ gps' = gps /\ failed' = failed /\ safe' = safe /\ publishing' = publishing
      /\ radio' = radio /\ requests' = requests /\ events' = events
  BY DEF TimerIsReset, work, period, find, polling, location, environment
<1>a. resetting # "no" /\ resetting' = "no" /\ ResetTimer(resetting, doc, count)
  BY DEF TimerIsReset
<1>b. resetting \in Modes /\ doc \in Docs /\ count \in 0..gT /\ gT \in Nat
  BY <1>p, <1>a, Zenon DEF OtherTypes, PeriodTypes
<1>c. count \in Nat
  BY <1>b
<1>r. timer' = TRUE /\ mode' \in Modes /\ gT' \in Nat /\ count' \in 0..gT'
  BY <1>0, <1>a, <1>b, <1>c, Reset
<1>1. /\ WorkTypes' /\ FindTypes' /\ PollTypes' /\ GpsTypes' /\ CountTypes'
      /\ EnablingIsFinding' /\ SafeEndsFmd' /\ GpsIsWanted' /\ LastRequestCounts'
  BY <1>0, <1>p, <1>f, Zenon,
     SameWork, SameFind, SamePolling, SameGps, SameCounts, SameEnabling, SameSafe, SameWish,
     SameRequest
<1>2. PeriodTypes'
  BY <1>0, <1>p, <1>f, <1>a, <1>b, <1>c, <1>r, Zenon DEF PeriodTypes
<1>3. OtherTypes'
  BY <1>0, <1>p, <1>f, <1>a, <1>b, <1>c, <1>r, Zenon DEF OtherTypes
<1>4. SWorkGoesOn'
  BY <1>0, <1>p, <1>f, <1>a, <1>b, <1>c, <1>r, Zenon DEF SWorkGoesOn, Waits
<1> QED BY <1>1, <1>2, <1>3, <1>4, PartsNext, Zenon DEF Inv

LEMMA SafeChangesKeeps ==
    ASSUME Inv, SafeChanges
    PROVE  Inv'
<1>0. TypeOK /\ EnablingIsFinding /\ SWorkGoesOn /\ SafeEndsFmd /\ GpsIsWanted /\ LastRequestCounts
  BY Zenon DEF Inv
<1>p. WorkTypes /\ PeriodTypes /\ FindTypes /\ PollTypes /\ GpsTypes /\ OtherTypes /\ CountTypes
  BY <1>0, Parts
<1>f. /\ queue' = queue /\ at' = at /\ timer' = timer /\ mode' = mode /\ gT' = gT
      /\ count' = count /\ doc' = doc /\ fmd' = fmd /\ limit' = limit /\ reason' = reason
      /\ fmdInfo' = fmdInfo /\ pollInfo' = pollInfo /\ poll' = poll /\ gps' = gps
      /\ failed' = failed /\ radio' = radio /\ resetting' = resetting
      /\ requests' = requests
  BY DEF SafeChanges, work, period, find, polling, location, environment
<1>a. safe' \in BOOLEAN /\ publishing' = TRUE
  BY Zenon DEF SafeChanges
<1>e. events' \in 0..MaxEvents
  BY <1>0, EventCounted DEF SafeChanges
<1>1. /\ WorkTypes' /\ PeriodTypes' /\ FindTypes' /\ PollTypes' /\ GpsTypes'
      /\ EnablingIsFinding' /\ SWorkGoesOn' /\ GpsIsWanted' /\ LastRequestCounts'
  BY <1>0, <1>p, <1>f, Zenon,
     SameWork, SamePeriod, SameFind, SamePolling, SameGps, SameEnabling, SameSWork,
     SameWish, SameRequest
<1>2. OtherTypes'
  BY <1>0, <1>p, <1>f, <1>a, <1>e, Zenon DEF OtherTypes
<1>3. CountTypes'
  BY <1>0, <1>p, <1>f, <1>a, <1>e, Zenon DEF CountTypes
<1>4. SafeEndsFmd'
  BY <1>0, <1>p, <1>f, <1>a, <1>e, Zenon DEF SafeEndsFmd, Waits
<1> QED BY <1>1, <1>2, <1>3, <1>4, PartsNext, Zenon DEF Inv

LEMMA PublishKeeps ==
    ASSUME Inv, Publish
    PROVE  Inv'
<1>0. TypeOK /\ EnablingIsFinding /\ SWorkGoesOn /\ SafeEndsFmd /\ GpsIsWanted /\ LastRequestCounts
  BY Zenon DEF Inv
<1>p. WorkTypes /\ PeriodTypes /\ FindTypes /\ PollTypes /\ GpsTypes /\ OtherTypes /\ CountTypes
  BY <1>0, Parts
<1>f. /\ at' = at /\ timer' = timer /\ mode' = mode /\ gT' = gT /\ count' = count
      /\ doc' = doc /\ fmd' = fmd /\ limit' = limit /\ reason' = reason
      /\ fmdInfo' = fmdInfo /\ pollInfo' = pollInfo /\ poll' = poll /\ gps' = gps
      /\ failed' = failed /\ safe' = safe /\ radio' = radio /\ resetting' = resetting
      /\ requests' = requests /\ events' = events
  BY DEF Publish, work, period, find, polling, location, environment
<1>a. queue' = Append(queue, "safe") /\ queue \in Seq(Works)
  BY <1>p DEF Publish, WorkTypes
<1>w. "safe" \in Works
  BY DEF Works
<1>s. /\ queue' \in Seq(Works) /\ IsIn("safe", queue')
      /\ \A w : w # "safe" => (IsIn(w, queue') <=> IsIn(w, queue))
  BY <1>a, <1>w, AppendedIsIn, AppendKeeps
<1>b. publishing' = FALSE
  BY DEF Publish
<1>1. /\ PeriodTypes' /\ FindTypes' /\ PollTypes' /\ GpsTypes' /\ CountTypes'
      /\ EnablingIsFinding' /\ GpsIsWanted'
  BY <1>0, <1>p, <1>f, Zenon,
     SamePeriod, SameFind, SamePolling, SameGps, SameCounts, SameEnabling, SameWish
<1>2. WorkTypes'
  BY <1>0, <1>p, <1>f, <1>a, <1>w, <1>s, <1>b, Zenon DEF WorkTypes
<1>3. OtherTypes'
  BY <1>0, <1>p, <1>f, <1>a, <1>w, <1>s, <1>b, Zenon DEF OtherTypes
<1>4. SWorkGoesOn'
  BY <1>0, <1>p, <1>f, <1>a, <1>w, <1>s, <1>b, Zenon DEF SWorkGoesOn, Waits
<1>5. SafeEndsFmd'
  BY <1>0, <1>p, <1>f, <1>a, <1>w, <1>s, <1>b, Zenon DEF SafeEndsFmd, Waits
<1>6. LastRequestCounts'
  BY <1>0, <1>p, <1>f, <1>a, <1>w, <1>s, <1>b, Zenon DEF LastRequestCounts, Waits
<1> QED BY <1>1, <1>2, <1>3, <1>4, <1>5, <1>6, PartsNext, Zenon DEF Inv

LEMMA StatusArrivesKeeps ==
    ASSUME Inv, StatusArrives
    PROVE  Inv'
<1>0. TypeOK /\ EnablingIsFinding /\ SWorkGoesOn /\ SafeEndsFmd /\ GpsIsWanted /\ LastRequestCounts
  BY Zenon DEF Inv
<1>p. WorkTypes /\ PeriodTypes /\ FindTypes /\ PollTypes /\ GpsTypes /\ OtherTypes /\ CountTypes
  BY <1>0, Parts
<1>f. /\ at' = at /\ timer' = timer /\ mode' = mode /\ gT' = gT /\ count' = count
      /\ doc' = doc /\ fmd' = fmd /\ limit' = limit /\ reason' = reason
      /\ fmdInfo' = fmdInfo /\ pollInfo' = pollInfo /\ poll' = poll /\ gps' = gps
      /\ failed' = failed /\ safe' = safe /\ publishing' = publishing /\ radio' = radio
      /\ resetting' = resetting /\ requests' = requests /\ events' = events
  BY DEF StatusArrives, work, period, find, polling, location, environment
<1>a. queue' = Append(queue, "status") /\ queue \in Seq(Works)
  BY <1>p DEF StatusArrives, WorkTypes
<1>w. "status" \in Works
  BY DEF Works
<1>s. /\ queue' \in Seq(Works) /\ IsIn("status", queue')
      /\ \A w : w # "status" => (IsIn(w, queue') <=> IsIn(w, queue))
  BY <1>a, <1>w, AppendedIsIn, AppendKeeps
<1>1. /\ PeriodTypes' /\ FindTypes' /\ PollTypes' /\ GpsTypes' /\ OtherTypes'
      /\ CountTypes' /\ EnablingIsFinding' /\ GpsIsWanted'
  BY <1>0, <1>p, <1>f, Zenon,
     SamePeriod, SameFind, SamePolling, SameGps, SameOthers, SameCounts, SameEnabling,
     SameWish
<1>2. WorkTypes'
  BY <1>0, <1>p, <1>f, <1>a, <1>w, <1>s, Zenon DEF WorkTypes
<1>3. SWorkGoesOn'
  BY <1>0, <1>p, <1>f, <1>a, <1>w, <1>s, Zenon DEF SWorkGoesOn, Waits
<1>4. SafeEndsFmd'
  BY <1>0, <1>p, <1>f, <1>a, <1>w, <1>s, Zenon DEF SafeEndsFmd, Waits
<1>5. LastRequestCounts'
  BY <1>0, <1>p, <1>f, <1>a, <1>w, <1>s, Zenon DEF LastRequestCounts, Waits
<1> QED BY <1>1, <1>2, <1>3, <1>4, <1>5, PartsNext, Zenon DEF Inv

LEMMA MessageArrivesKeeps ==
    ASSUME Inv, MessageArrives
    PROVE  Inv'
<1>0. TypeOK /\ EnablingIsFinding /\ SWorkGoesOn /\ SafeEndsFmd /\ GpsIsWanted /\ LastRequestCounts
  BY Zenon DEF Inv
<1>p. WorkTypes /\ PeriodTypes /\ FindTypes /\ PollTypes /\ GpsTypes /\ OtherTypes /\ CountTypes
  BY <1>0, Parts
<1>f. /\ at' = at /\ timer' = timer /\ mode' = mode /\ gT' = gT /\ count' = count
      /\ doc' = doc /\ fmd' = fmd /\ limit' = limit /\ reason' = reason
      /\ fmdInfo' = fmdInfo /\ pollInfo' = pollInfo /\ poll' = poll /\ gps' = gps
      /\ failed' = failed /\ safe' = safe /\ publishing' = publishing /\ radio' = radio
      /\ resetting' = resetting /\ events' = events
  BY DEF MessageArrives, work, period, find, polling, location, environment
<1>a. PICK r \in Requests : queue' = Append(queue, r)
  BY DEF MessageArrives
<1>w. r \in Works /\ r # "S" /\ r # "safe" /\ r # "fmd" /\ queue \in Seq(Works)
  BY <1>p DEF WorkTypes, Works, Requests, FmdRequests, PollRequests
<1>s. /\ queue' \in Seq(Works)
      /\ \A w : w # r => (IsIn(w, queue') <=> IsIn(w, queue))
  BY <1>a, <1>w, AppendedIsIn, AppendKeeps
<1>c. requests' \in 0..MaxRequests
  BY <1>p, TelemetryAssumption DEF CountTypes, MessageArrives
<1>1. /\ PeriodTypes' /\ FindTypes' /\ PollTypes' /\ GpsTypes' /\ OtherTypes'
      /\ EnablingIsFinding' /\ GpsIsWanted'
  BY <1>0, <1>p, <1>f, Zenon,
     SamePeriod, SameFind, SamePolling, SameGps, SameOthers, SameEnabling, SameWish
<1>2. WorkTypes'
  BY <1>0, <1>p, <1>f, <1>a, <1>w, <1>s, <1>c, Zenon DEF WorkTypes
<1>3. CountTypes'
  BY <1>0, <1>p, <1>f, <1>a, <1>w, <1>s, <1>c, Zenon DEF CountTypes
<1>4. SWorkGoesOn'
  BY <1>0, <1>p, <1>f, <1>a, <1>w, <1>s, <1>c, Zenon DEF SWorkGoesOn, Waits
<1>5. SafeEndsFmd'
  BY <1>0, <1>p, <1>f, <1>a, <1>w, <1>s, <1>c, Zenon DEF SafeEndsFmd, Waits
<1>6. LastRequestCounts'
  BY <1>0, <1>p, <1>f, <1>a, <1>w, <1>s, <1>c, Zenon DEF LastRequestCounts, Waits
<1> QED BY <1>1, <1>2, <1>3, <1>4, <1>5, <1>6, PartsNext, Zenon DEF Inv

LEMMA LimitPassesKeeps ==
    ASSUME Inv, LimitPasses
    PROVE  Inv'
<1>0. TypeOK /\ EnablingIsFinding /\ SWorkGoesOn /\ SafeEndsFmd /\ GpsIsWanted /\ LastRequestCounts
  BY Zenon DEF Inv
<1>p. WorkTypes /\ PeriodTypes /\ FindTypes /\ PollTypes /\ GpsTypes /\ OtherTypes /\ CountTypes
  BY <1>0, Parts
<1>f. /\ queue' = queue /\ at' = at /\ timer' = timer /\ mode' = mode /\ gT' = gT
      /\ count' = count /\ doc' = doc /\ fmd' = fmd /\ reason' = reason
      /\ fmdInfo' = fmdInfo /\ pollInfo' = pollInfo /\ poll' = poll /\ gps' = gps
      /\ failed' = failed /\ safe' = safe /\ publishing' = publishing /\ radio' = radio
      /\ resetting' = resetting /\ requests' = requests /\ events' = events
  BY DEF LimitPasses, work, period, find, polling, location, environment
<1>a. limit' = "over"
  BY DEF LimitPasses
<1>1. /\ WorkTypes' /\ PeriodTypes' /\ PollTypes' /\ GpsTypes' /\ OtherTypes'
      /\ CountTypes' /\ EnablingIsFinding' /\ SWorkGoesOn' /\ SafeEndsFmd' /\ GpsIsWanted'
      /\ LastRequestCounts'
  BY <1>0, <1>p, <1>f, Zenon,
     SameWork, SamePeriod, SamePolling, SameGps, SameOthers, SameCounts, SameEnabling,
     SameSWork, SameSafe, SameWish, SameRequest
<1>2. FindTypes'
  BY <1>0, <1>p, <1>f, <1>a, Zenon DEF FindTypes
<1> QED BY <1>1, <1>2, PartsNext, Zenon DEF Inv

LEMMA ModemRestartsKeeps ==
    ASSUME Inv, ModemRestarts
    PROVE  Inv'
<1>0. TypeOK /\ EnablingIsFinding /\ SWorkGoesOn /\ SafeEndsFmd /\ GpsIsWanted /\ LastRequestCounts
  BY Zenon DEF Inv
<1>p. WorkTypes /\ PeriodTypes /\ FindTypes /\ PollTypes /\ GpsTypes /\ OtherTypes /\ CountTypes
  BY <1>0, Parts
<1>f. /\ queue' = queue /\ at' = at /\ timer' = timer /\ mode' = mode /\ gT' = gT
      /\ count' = count /\ doc' = doc /\ fmd' = fmd /\ limit' = limit /\ reason' = reason
      /\ fmdInfo' = fmdInfo /\ pollInfo' = pollInfo /\ poll' = poll /\ safe' = safe
      /\ publishing' = publishing /\ radio' = radio /\ resetting' = resetting
      /\ requests' = requests
  BY DEF ModemRestarts, work, period, find, polling, location, environment
<1>a. gps' = "off" /\ failed' = FALSE
  BY DEF ModemRestarts
<1>e. events' \in 0..MaxEvents
  BY <1>0, EventCounted DEF ModemRestarts
<1>1. /\ WorkTypes' /\ PeriodTypes' /\ FindTypes' /\ PollTypes' /\ OtherTypes'
      /\ EnablingIsFinding' /\ SWorkGoesOn' /\ SafeEndsFmd' /\ LastRequestCounts'
  BY <1>0, <1>p, <1>f, Zenon,
     SameWork, SamePeriod, SameFind, SamePolling, SameOthers, SameEnabling, SameSWork,
     SameSafe, SameRequest
<1>2. GpsTypes'
  BY <1>0, <1>p, <1>f, <1>a, <1>e, Zenon DEF GpsTypes
<1>3. CountTypes'
  BY <1>0, <1>p, <1>f, <1>a, <1>e, Zenon DEF CountTypes
<1>4. GpsIsWanted'
  BY <1>0, <1>p, <1>f, <1>a, <1>e, Zenon DEF GpsIsWanted
<1> QED BY <1>1, <1>2, <1>3, <1>4, PartsNext, Zenon DEF Inv

LEMMA ModemPowerKeeps ==
    ASSUME Inv, ModemPower
    PROVE  Inv'
<1>0. TypeOK /\ EnablingIsFinding /\ SWorkGoesOn /\ SafeEndsFmd /\ GpsIsWanted /\ LastRequestCounts
  BY Zenon DEF Inv
<1>p. WorkTypes /\ PeriodTypes /\ FindTypes /\ PollTypes /\ GpsTypes /\ OtherTypes /\ CountTypes
  BY <1>0, Parts
<1>f. /\ queue' = queue /\ at' = at /\ timer' = timer /\ mode' = mode /\ gT' = gT
      /\ count' = count /\ doc' = doc /\ fmd' = fmd /\ limit' = limit /\ reason' = reason
      /\ fmdInfo' = fmdInfo /\ pollInfo' = pollInfo /\ poll' = poll /\ safe' = safe
      /\ publishing' = publishing /\ radio' = radio /\ resetting' = resetting
      /\ requests' = requests
  BY DEF ModemPower, work, period, find, polling, location, environment
<1>a. gps' \in {"off", "none"} /\ failed' = FALSE
  BY DEF ModemPower
<1>e. events' \in 0..MaxEvents
  BY <1>0, EventCounted DEF ModemPower
<1>1. /\ WorkTypes' /\ PeriodTypes' /\ FindTypes' /\ PollTypes' /\ OtherTypes'
      /\ EnablingIsFinding' /\ SWorkGoesOn' /\ SafeEndsFmd' /\ LastRequestCounts'
  BY <1>0, <1>p, <1>f, Zenon,
     SameWork, SamePeriod, SameFind, SamePolling, SameOthers, SameEnabling, SameSWork,
     SameSafe, SameRequest
<1>2. GpsTypes'
  BY <1>0, <1>p, <1>f, <1>a, <1>e, Zenon DEF GpsTypes
<1>3. CountTypes'
  BY <1>0, <1>p, <1>f, <1>a, <1>e, Zenon DEF CountTypes
<1>4. GpsIsWanted'
  BY <1>0, <1>p, <1>f, <1>a, <1>e, Zenon DEF GpsIsWanted
<1> QED BY <1>1, <1>2, <1>3, <1>4, PartsNext, Zenon DEF Inv

LEMMA InitInv == Init => Inv
<1> SUFFICES ASSUME Init PROVE Inv
  OBVIOUS
<1>1. "norm" \in Modes /\ FirstDoc \in Docs
  BY TelemetryAssumption, Zenon DEF Modes
<1>q. queue = <<>>
  BY DEF Init
<1>s. queue \in Seq(Works)
  BY <1>q
<1>2. gT = ScansPerTelemetry(FirstDoc, "norm", "none") /\ count = 0
  BY DEF Init
<1>3. ScansPerTelemetry(FirstDoc, "norm", "none") \in Nat
  BY <1>1, ScansAreNatural
<1>4. gT \in Nat /\ count \in 0..gT
  BY <1>2, <1>3
<1>5. requests \in 0..MaxRequests /\ events \in 0..MaxEvents
  <2>1. requests = 0 /\ events = 0
    BY DEF Init
  <2>2. MaxRequests \in Nat /\ MaxEvents \in Nat
    BY TelemetryAssumption, Zenon
  <2>3. QED BY <2>1, <2>2
<1>6. WorkTypes /\ PeriodTypes
  BY <1>1, <1>s, <1>4, Zenon DEF Init, WorkTypes, PeriodTypes
<1>7. FindTypes /\ PollTypes /\ GpsTypes
  BY Zenon DEF Init, FindTypes, PollTypes, GpsTypes, FmdRequests
<1>8. OtherTypes /\ CountTypes
  BY <1>5, Zenon DEF Init, OtherTypes, CountTypes
<1>9. EnablingIsFinding /\ SWorkGoesOn /\ SafeEndsFmd /\ GpsIsWanted /\ LastRequestCounts
  BY DEF Init, EnablingIsFinding, SWorkGoesOn, SafeEndsFmd, GpsIsWanted, LastRequestCounts
<1>10. QED BY <1>6, <1>7, <1>8, <1>9, Parts, Zenon DEF Inv

LEMMA StepInv == Inv /\ [Next]_vars => Inv'
<1> SUFFICES ASSUME Inv, [Next]_vars PROVE Inv'
  OBVIOUS
<1>1. CASE SWorkSkips
  BY <1>1, SWorkSkipsKeeps
<1>2. CASE SWorkStarts
  BY <1>2, SWorkStartsKeeps
<1>3. CASE ScanFails
  BY <1>3, ScanFailsKeeps
<1>4. CASE ScanDone
  BY <1>4, ScanDoneKeeps
<1>5. CASE SWorkEnds
  BY <1>5, SWorkEndsKeeps
<1>6. CASE EnableFmd
  BY <1>6, EnableFmdKeeps
<1>7. CASE FindingStarted
  BY <1>7, FindingStartedKeeps
<1>8. CASE FmdOff
  BY <1>8, FmdOffKeeps
<1>9. CASE SafeEvent
  BY <1>9, SafeEventKeeps
<1>10. CASE PollGps
  BY <1>10, PollGpsKeeps
<1>11. CASE StatusWork
  BY <1>11, StatusWorkKeeps
<1>12. CASE FmdRequest
  BY <1>12, FmdRequestKeeps
<1>13. CASE PollRequest
  BY <1>13, PollRequestKeeps
<1>14. CASE SetVars
  BY <1>14, SetVarsKeeps
<1>15. CASE TimerFires
  BY <1>15, TimerFiresKeeps
<1>16. CASE Switched
  BY <1>16, SwitchedKeeps
<1>17. CASE TimerIsReset
  BY <1>17, TimerIsResetKeeps
<1>18. CASE SafeChanges
  BY <1>18, SafeChangesKeeps
<1>19. CASE Publish
  BY <1>19, PublishKeeps
<1>20. CASE StatusArrives
  BY <1>20, StatusArrivesKeeps
<1>21. CASE LimitPasses
  BY <1>21, LimitPassesKeeps
<1>22. CASE ModemRestarts
  BY <1>22, ModemRestartsKeeps
<1>23. CASE ModemPower
  BY <1>23, ModemPowerKeeps
<1>24. CASE MessageArrives
  BY <1>24, MessageArrivesKeeps
<1>25. CASE UNCHANGED vars
  <2>1. /\ queue' = queue /\ at' = at /\ timer' = timer /\ mode' = mode /\ gT' = gT
        /\ count' = count /\ doc' = doc /\ fmd' = fmd /\ limit' = limit /\ reason' = reason
        /\ fmdInfo' = fmdInfo /\ pollInfo' = pollInfo /\ poll' = poll /\ gps' = gps
        /\ failed' = failed /\ safe' = safe /\ publishing' = publishing /\ radio' = radio
        /\ resetting' = resetting /\ requests' = requests /\ events' = events
    BY <1>25 DEF vars, work, period, find, polling, location, environment
  <2>2. QED BY <2>1, Zenon, Parts, PartsNext, SameWork, SamePeriod, SameFind, SamePolling, SameGps,
               SameOthers, SameCounts, SameEnabling, SameSWork, SameSafe, SameWish, SameRequest
            DEF Inv
<1> QED
  BY <1>1, <1>2, <1>3, <1>4, <1>5, <1>6, <1>7, <1>8, <1>9,
     <1>10, <1>11, <1>12, <1>13, <1>14, <1>15, <1>16, <1>17, <1>18,
     <1>19, <1>20, <1>21, <1>22, <1>23, <1>24, <1>25
  DEF Next, Handlers, SWork, Others

LEMMA Invariance == Spec => []Inv
BY InitInv, StepInv, PTL DEF Spec

-----------------------------------------------------------------------------
(* The theorems *)

(* Every variable has its type; the count never passes the scans between two
   telemetry messages, however often the period changes. *)
THEOREM TypeCorrect == Spec => []TypeOK
<1>1. Inv => TypeOK
  BY DEF Inv
<1>2. QED BY <1>1, Invariance, PTL

(* Whatever fails, whichever thread resets the timer and whatever the cloud
   asks for, the next S work is on its way: S_work_handler() never stops for
   good. *)
THEOREM SWorkAlwaysGoesOn == Spec => []SWorkGoesOn
<1>1. Inv => SWorkGoesOn
  BY DEF Inv
<1>2. QED BY <1>1, Invariance, PTL

(* When FMD mode is on in a safe zone, the event that ends it is on its way. *)
THEOREM SafeZoneEndsFmd == Spec => []SafeEndsFmd
<1>1. Inv => SafeEndsFmd
  BY DEF Inv
<1>2. QED BY <1>1, Invariance, PTL

(* The 9160's GPS is never on unless FMD mode or the cloud wants it, or the
   command to stop it failed. *)
THEOREM GpsStaysWanted == Spec => []GpsIsWanted
<1>1. Inv => GpsIsWanted
  BY DEF Inv
<1>2. QED BY <1>1, Invariance, PTL

(* FMD mode is as the last request that was worked on says, or it ended, or was
   refused, for a reason the cloud is told of. *)
THEOREM LastRequestWins == Spec => []LastRequestCounts
<1>1. Inv => LastRequestCounts
  BY DEF Inv
<1>2. QED BY <1>1, Invariance, PTL
=============================================================================
