----------------------------- MODULE Telemetry -----------------------------
(***************************************************************************)
(* The communication manager's periodic work and find-my-dog (FMD) mode.   *)
(* A one-shot timer starts S_work_handler(), which scans, counts, sends    *)
(* the telemetry that is due, and starts the timer again.  Everything the  *)
(* cloud asks for, the DA16200's events and the 9160's statuses are work   *)
(* for the same queue, commMgr_work_q, whose thread does one at a time and *)
(* may block in it.  The radio manager's thread, which also resets the     *)
(* timer, the threads that learn the DA16200's state and the time, and the *)
(* 9160 go on meanwhile.                                                   *)
(*                                                                         *)
(* What makes S_work_handler() skip its work (shipping, no S work, a       *)
(* switch, an update, a connection attempt) belongs to other components:   *)
(* it may skip it at any time.  The contents of scans and messages are     *)
(* left out, the shorter Rec on USB power and after a lost connection, and *)
(* the timer's length: it fires some time after its start.                 *)
(***************************************************************************)
EXTENDS Integers, Sequences

CONSTANTS
    Docs,           \* shadow documents: the scan periods S and the scans between
                    \* two telemetry messages T of both modes, and Rec
    FirstDoc,       \* the one in the flash
    MaxQueue,       \* events, statuses and messages find room below this length
    MaxRequests,    \* messages from the cloud
    MaxEvents       \* failed commands, restarts and power of the 9160, switches, zones

Modes == {"norm", "fmd"}
Positive == Nat \ {0}

ASSUME TelemetryAssumption ==
    /\ Docs \subseteq [S : [Modes -> Positive], T : [Modes -> Positive], Rec : Positive]
    /\ FirstDoc \in Docs
    /\ MaxQueue \in Nat /\ MaxRequests \in Nat /\ MaxEvents \in Nat

VARIABLES
    queue,      \* the work waiting on commMgr_work_q
    at,         \* what the queue's thread is doing
    timer,      \* S_work_timer runs
    mode,       \* the mode S and T were last calculated for
    gT, count,  \* gT_val and gT_count
    doc,        \* shadow_doc's S, T and Rec
    radio,      \* g_active_radio
    resetting,  \* the radio manager's thread is in reset_S_timer(), for this mode
    fmd,        \* is_in_fmd_mode
    limit,      \* fmd_max_time_in_mins: none, set, or over
    reason,     \* g_last_fmd_status
    fmdInfo,    \* my_FMD_work_info
    pollInfo,   \* my_gps_work_info.gps_poll_period # 0
    poll,       \* shadow_doc.gps_poll_period # 0
    gps,        \* the 9160's GPS: on, off, or none when the 9160 has no power
    failed,     \* history: the GPS is on because the command to stop it failed
    safe,       \* da_state.ap_safe = DA_STATE_KNOWN_TRUE
    publishing, \* the event for a new ap_safe is not queued yet
    requests,   \* messages so far
    events      \* such events so far

work == <<queue, at>>
period == <<timer, mode, gT, count>>
find == <<fmd, limit, reason>>
polling == <<fmdInfo, pollInfo, poll>>
location == <<gps, failed>>
environment == <<safe, publishing, radio, resetting, requests>>
vars == <<work, period, doc, find, polling, location, environment, events>>

Event == events < MaxEvents /\ events' = events + 1
NoEvent == UNCHANGED events

Room == Len(queue) < MaxQueue

IsIn(w, q) == \E i \in 1..Len(q) : q[i] = w

(* k_work_submit_to_queue() of a static work item: it waits only once *)
Submit(q, w) == IF IsIn(w, q) THEN q ELSE Append(q, w)

(* The thread takes the next work; Done is a handler that has returned. *)
Takes(w) == at = "idle" /\ queue # <<>> /\ Head(queue) = w
Done == queue' = Tail(queue) /\ UNCHANGED at

-----------------------------------------------------------------------------
(* calculate_S_and_T() and reset_S_timer() *)

Lower(a, b) == IF a < b THEN a ELSE b

ModeNow == IF fmd THEN "fmd" ELSE "norm"

(* gS_val *)
ScanPeriod(d, m, r) ==
    CASE r = "da" -> d.S[m]
      [] r = "lte" -> Lower(d.Rec, d.S[m])
      [] r = "none" -> 20

(* gT_val: as many seconds between two telemetry messages at this scan period.
   The code divides in floating point and cuts the rest off. *)
ScansPerTelemetry(d, m, r) == (d.S[m] * d.T[m]) \div ScanPeriod(d, m, r)

(* Faulty variant for a mutation run: the count is not capped. *)
ResetTimerKeepingCount(m, d, c) ==
    timer' = TRUE /\ mode' = m /\ gT' = ScansPerTelemetry(d, m, radio) /\ count' = c

ResetTimer(m, d, c) ==
    LET t == ScansPerTelemetry(d, m, radio)
    IN timer' = TRUE /\ mode' = m /\ gT' = t /\ count' = Lower(c, t)

Init ==
    /\ queue = <<>>
    /\ at = "idle"
    /\ timer = TRUE
    /\ mode = "norm"
    /\ gT = ScansPerTelemetry(FirstDoc, "norm", "none")
    /\ count = 0
    /\ doc = FirstDoc
    /\ radio = "none"
    /\ resetting = "no"
    /\ fmd = FALSE
    /\ limit = "none"
    /\ reason = "not active"
    /\ fmdInfo = "off"
    /\ pollInfo = FALSE
    /\ poll = FALSE
    /\ gps = "off"
    /\ failed = FALSE
    /\ safe = FALSE
    /\ publishing = FALSE
    /\ requests = 0
    /\ events = 0

-----------------------------------------------------------------------------
(* The GPS, and find-my-dog mode *)

(* modem_send_gps_enable(): refused when the 9160 is off, or it fails *)
StartGps ==
    \/ gps # "none" /\ gps' = "on" /\ failed' = FALSE /\ NoEvent
    \/ gps = "none" /\ UNCHANGED location /\ NoEvent
    \/ gps # "none" /\ UNCHANGED location /\ Event

(* modem_send_gps_disable() *)
StopGps ==
    \/ gps' = (IF gps = "none" THEN "none" ELSE "off") /\ failed' = FALSE /\ NoEvent
    \/ gps # "none" /\ UNCHANGED gps /\ failed' = (gps = "on") /\ Event

(* disable_fmd_mode() *)
DisableFmd(why, c) ==
    /\ reason' = why
    /\ IF fmd
       THEN /\ fmd' = FALSE
            /\ limit' = "none"
            /\ ResetTimer("norm", doc, c)
            /\ StopGps
       ELSE /\ count' = c
            /\ UNCHANGED <<fmd, limit, timer, mode, gT, location, events>>

(* enable_fmd_mode() *)
AlreadyFinding ==
    /\ fmd
    /\ Done
    /\ UNCHANGED <<period, find, location, events>>

RefusedWhenSafe ==
    /\ ~fmd /\ safe
    /\ reason' = "safe"
    /\ limit' = "none"
    /\ Done
    /\ UNCHANGED <<fmd, period, location, events>>

(* It sleeps after it has turned the 9160 on. *)
StartFinding ==
    /\ ~fmd /\ ~safe
    /\ fmd' = TRUE
    /\ limit' = IF fmdInfo = "onLimited" THEN "set" ELSE limit
    /\ reason' = "active"
    /\ ResetTimer("fmd", doc, count)
    /\ gps' = IF gps = "none" THEN "off" ELSE gps
    /\ queue' = Tail(queue)
    /\ at' = "enabling"
    /\ UNCHANGED <<failed, events>>

(* Faulty variant for a mutation run: it does not ask whether the dog is safe. *)
EnableFmdAnywhere ==
    /\ Takes("fmd")
    /\ fmdInfo # "off"
    /\ \/ AlreadyFinding
       \/ /\ ~fmd
          /\ fmd' = TRUE
          /\ limit' = IF fmdInfo = "onLimited" THEN "set" ELSE limit
          /\ reason' = "active"
          /\ ResetTimer("fmd", doc, count)
          /\ gps' = IF gps = "none" THEN "off" ELSE gps
          /\ queue' = Tail(queue)
          /\ at' = "enabling"
          /\ UNCHANGED <<failed, events>>
    /\ UNCHANGED <<doc, polling, environment>>

(* FMD_work_handler() *)
EnableFmd ==
    /\ Takes("fmd")
    /\ fmdInfo # "off"
    /\ AlreadyFinding \/ RefusedWhenSafe \/ StartFinding
    /\ UNCHANGED <<doc, polling, environment>>

(* ml_stop() waits for the ML thread to end: for ever, when the time was never
   known and so none was started *)
FindingStarted ==
    /\ at = "enabling"
    /\ StartGps
    /\ at' \in {"idle", "hung"}
    /\ UNCHANGED <<queue, period, doc, find, polling, environment>>

FmdOff ==
    /\ Takes("fmd")
    /\ fmdInfo = "off"
    /\ DisableFmd("request", count)
    /\ Done
    /\ UNCHANGED <<doc, polling, environment>>

(* da_state_work_handler() of DA_EVENT_TYPE_AP_SAFE, which looks at ap_safe
   as it is now *)
SafeEvent ==
    /\ Takes("safe")
    /\ IF safe
       THEN DisableFmd("safe", count)
       ELSE UNCHANGED <<period, find, location, events>>
    /\ Done
    /\ UNCHANGED <<doc, polling, environment>>

(* gps_handler() *)
PollGps ==
    /\ Takes("poll")
    /\ poll' = pollInfo
    /\ IF pollInfo = poll THEN UNCHANGED <<location, events>>
       ELSE IF pollInfo THEN StartGps ELSE StopGps
    /\ Done
    /\ UNCHANGED <<period, doc, find, fmdInfo, pollInfo, environment>>

(* Faulty variant for a mutation run: a 9160 that restarted is asked for
   positions again, FMD or not. *)
StatusAlwaysStartsGps ==
    /\ Takes("status")
    /\ StartGps
    /\ UNCHANGED timer
    /\ Done
    /\ UNCHANGED <<mode, gT, count, doc, find, polling, environment>>

(* handle_9160_status_update(): the uptime of a 9160 that restarted is lower
   than the one it last reported, if it had reported one; when MQTT is off,
   the next scan is to be soon *)
StatusWork ==
    /\ Takes("status")
    /\ (fmd /\ StartGps) \/ UNCHANGED <<location, events>>
    /\ timer' \in (IF radio = "lte" THEN {timer, TRUE} ELSE {timer})
    /\ Done
    /\ UNCHANGED <<mode, gT, count, doc, find, polling, environment>>

-----------------------------------------------------------------------------
(* S_work_handler() *)

TimerFires ==
    /\ timer
    /\ timer' = FALSE
    /\ queue' = Submit(queue, "S")
    /\ UNCHANGED <<at, mode, gT, count, doc, find, polling, location, environment, events>>

SWorkSkips ==
    /\ Takes("S")
    /\ ResetTimer(ModeNow, doc, count)
    /\ Done
    /\ UNCHANGED <<doc, find, polling, location, environment, events>>

(* The DA16200 is prepared; it scans or reports its RSSI. *)
SWorkStarts ==
    /\ Takes("S")
    /\ at' = "scanning"
    /\ queue' = Tail(queue)
    /\ UNCHANGED <<period, doc, find, polling, location, environment, events>>

(* Faulty variant for a mutation run: a failed scan returns at once. *)
ScanFailsReturning ==
    /\ at = "scanning"
    /\ at' = "idle"
    /\ UNCHANGED <<queue, period, doc, find, polling, location, environment, events>>

ScanFails ==
    /\ at = "scanning"
    /\ at' = "idle"
    /\ ResetTimer(ModeNow, doc, count)
    /\ UNCHANGED <<queue, doc, find, polling, location, environment, events>>

Due == count + 1 >= gT

(* Faulty variant for a mutation run: it does not look at the time. *)
SendTelemetryForEver ==
    /\ count' = 0
    /\ UNCHANGED <<find, timer, mode, gT, location, events>>

(* In FMD mode, a message that is due also ends it when its time is over. *)
SendTelemetry ==
    IF fmd /\ limit = "over"
    THEN DisableFmd("timeout", 0)
    ELSE count' = 0 /\ UNCHANGED <<find, timer, mode, gT, location, events>>

ScanDone ==
    /\ at = "scanning"
    /\ at' = "sending"
    /\ IF Due
       THEN SendTelemetry
       ELSE count' = count + 1 /\ UNCHANGED <<find, timer, mode, gT, location, events>>
    /\ UNCHANGED <<queue, doc, polling, environment>>

(* The queued messages are sent, S_work_exit *)
SWorkEnds ==
    /\ at = "sending"
    /\ at' = "idle"
    /\ ResetTimer(ModeNow, doc, count)
    /\ UNCHANGED <<queue, doc, find, polling, location, environment, events>>

-----------------------------------------------------------------------------
(* Messages from the cloud: handle_srf_func_message(), handle_shadow_message() *)

FmdRequests == {"on", "onLimited", "off"}
PollRequests == {"gps", "nogps"}
Requests == FmdRequests \cup PollRequests \cup {"vars"}

MessageArrives ==
    /\ requests < MaxRequests
    /\ Room
    /\ \E r \in Requests : queue' = Append(queue, r)
    /\ requests' = requests + 1
    /\ UNCHANGED <<at, period, doc, find, polling, location, safe, publishing,
                   radio, resetting, events>>

(* Faulty variant for a mutation run: a request is dropped while FMD is active. *)
FmdRequestOnce ==
    \E r \in FmdRequests :
        /\ Takes(r)
        /\ fmdInfo' = r
        /\ queue' = IF fmd THEN Tail(queue) ELSE Submit(Tail(queue), "fmd")
        /\ UNCHANGED <<at, period, doc, find, pollInfo, poll, location, environment, events>>

FmdRequest ==
    \E r \in FmdRequests :
        /\ Takes(r)
        /\ fmdInfo' = r
        /\ queue' = Submit(Tail(queue), "fmd")
        /\ UNCHANGED <<at, period, doc, find, pollInfo, poll, location, environment, events>>

PollRequest ==
    \E r \in PollRequests :
        /\ Takes(r)
        /\ pollInfo' = (r = "gps")
        /\ queue' = Submit(Tail(queue), "poll")
        /\ UNCHANGED <<at, period, doc, find, fmdInfo, poll, location, environment, events>>

(* commMgr_set_vars(): only another S resets the timer *)
SetVars ==
    /\ Takes("vars")
    /\ \E d \in Docs :
        /\ doc' = d
        /\ IF d.S # doc.S THEN ResetTimer(ModeNow, d, count) ELSE UNCHANGED period
    /\ Done
    /\ UNCHANGED <<find, polling, location, environment, events>>

-----------------------------------------------------------------------------
(* The other threads and the 9160 *)

(* switch_radios_work_handler(): commMgr_switched_to_wifi(), ..._to_lte().  The
   mode is read when reset_S_timer() is called. *)
Switched ==
    /\ resetting = "no"
    /\ \E r \in {"da", "lte"} : radio' = r
    /\ resetting' = ModeNow
    /\ timer' = FALSE
    /\ Event
    /\ UNCHANGED <<work, mode, gT, count, doc, find, polling, location, safe, publishing,
                   requests>>

TimerIsReset ==
    /\ resetting # "no"
    /\ ResetTimer(resetting, doc, count)
    /\ resetting' = "no"
    /\ UNCHANGED <<work, doc, find, polling, location, safe, publishing, radio,
                   requests, events>>

(* send_zbus_tri_event(): the state first, then the event *)
SafeChanges ==
    /\ ~publishing
    /\ safe' = ~safe
    /\ publishing' = TRUE
    /\ Event
    /\ UNCHANGED <<work, period, doc, find, polling, location, radio, resetting,
                   requests>>

Publish ==
    /\ publishing
    /\ Room
    /\ publishing' = FALSE
    /\ queue' = Append(queue, "safe")
    /\ UNCHANGED <<at, period, doc, find, polling, location, safe, radio,
                   resetting, requests, events>>

StatusArrives ==
    /\ gps # "none"
    /\ Room
    /\ ~IsIn("status", queue)
    /\ queue' = Append(queue, "status")
    /\ UNCHANGED <<at, period, doc, find, polling, location, environment, events>>

LimitPasses ==
    /\ limit = "set"
    /\ limit' = "over"
    /\ UNCHANGED <<work, period, doc, fmd, reason, polling, location, environment, events>>

(* The 9160 restarts, or it loses and gets its power: pmic_power_on_modem() *)
ModemRestarts ==
    /\ gps # "none"
    /\ gps' = "off"
    /\ failed' = FALSE
    /\ Event
    /\ UNCHANGED <<work, period, doc, find, polling, environment>>

ModemPower ==
    /\ gps' = IF gps = "none" THEN "off" ELSE "none"
    /\ failed' = FALSE
    /\ Event
    /\ UNCHANGED <<work, period, doc, find, polling, environment>>

-----------------------------------------------------------------------------
SWork == SWorkSkips \/ SWorkStarts \/ ScanFails \/ ScanDone \/ SWorkEnds

Handlers ==
    \/ SWork \/ EnableFmd \/ FindingStarted \/ FmdOff \/ SafeEvent \/ PollGps \/ StatusWork
    \/ FmdRequest \/ PollRequest \/ SetVars

Others ==
    \/ Switched \/ TimerIsReset \/ SafeChanges \/ Publish \/ StatusArrives \/ LimitPasses
    \/ ModemRestarts \/ ModemPower \/ MessageArrives

Next == TimerFires \/ Handlers \/ Others

Spec == Init /\ [][Next]_vars

(* The queue's thread runs, and a reset that began ends.  Resets are rarer
   than the timer's period, not every S work is skipped and not every scan
   fails: otherwise no S work is ever done. *)
FairSpec ==
    /\ Spec
    /\ WF_vars(Handlers)
    /\ WF_vars(TimerIsReset)
    /\ WF_vars(TimerFires)
    /\ SF_vars(SWorkStarts)
    /\ SF_vars(ScanDone)

-----------------------------------------------------------------------------
Works == Requests \cup {"S", "fmd", "poll", "safe", "status"}
Waits(w) == IsIn(w, queue)

TypeOK ==
    /\ queue \in Seq(Works)
    /\ at \in {"idle", "scanning", "sending", "enabling", "hung"}
    /\ timer \in BOOLEAN /\ fmd \in BOOLEAN /\ failed \in BOOLEAN
    /\ pollInfo \in BOOLEAN /\ poll \in BOOLEAN
    /\ safe \in BOOLEAN /\ publishing \in BOOLEAN
    /\ mode \in Modes /\ doc \in Docs
    /\ gT \in Nat /\ count \in 0..gT
    /\ radio \in {"none", "da", "lte"}
    /\ resetting \in Modes \cup {"no"}
    /\ limit \in {"none", "set", "over"}
    /\ reason \in {"not active", "active", "safe", "timeout", "request"}
    /\ fmdInfo \in FmdRequests
    /\ gps \in {"none", "off", "on"}
    /\ requests \in 0..MaxRequests /\ events \in 0..MaxEvents

(* S_work_handler() is the only one that starts its own timer again, on each
   of its returns, and two threads stop and start that timer: whatever they do
   and whatever fails, the next S work is on its way. *)
SWorkGoesOn ==
    timer \/ Waits("S") \/ at \in {"scanning", "sending"} \/ resetting # "no"

(* FMD mode does not stay on in a safe zone: the thread that learns that the
   zone is safe and enable_fmd_mode(), which asks for it, never miss each
   other; the work that ends FMD mode is on its way. *)
SafeEndsFmd == fmd /\ safe => publishing \/ Waits("safe")

(* The GPS has two users, FMD mode and the cloud's polling, and a 9160 that
   restarts loses it: it is never on when neither wants it, unless the command
   to stop it failed. *)
GpsIsWanted == gps = "on" => fmd \/ poll \/ failed

(* FMD mode is as the cloud last asked, or it ended for a reason the cloud is
   told of, although requests share one work item that a later one overwrites. *)
LastRequestCounts ==
    ~Waits("fmd") =>
        IF fmdInfo = "off" THEN ~fmd ELSE fmd \/ reason \in {"safe", "timeout"}

(* FMD mode gets its own scan period, although the radio manager's thread may
   reset the timer with the mode it read before, and with a time limit it ends
   after it, unless ml_stop() hangs. *)
FmdEnds ==
    /\ fmd ~> (mode = "fmd" \/ ~fmd \/ at = "hung")
    /\ (fmd /\ limit = "over") ~> (~fmd \/ at = "hung")
=============================================================================
