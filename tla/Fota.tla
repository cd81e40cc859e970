------------------------------- MODULE Fota -------------------------------
(***************************************************************************)
(* Firmware updates of the collar's three processors                       *)
(* (src/commercial_collar/src/comm_mgr/src/fota.c).  A round asks the      *)
(* cloud, one processor after the other, whether there is an update, and   *)
(* has it downloaded and installed: the nRF9160 by itself, the DA16200 by  *)
(* net_mgr.c, the nRF5340's own image over HTTP by the DA16200 into a file *)
(* that is flashed before a reset.  While a round lasts S_work_handler     *)
(* (scans, telemetry) is off; while a processor updates, the collar keeps  *)
(* the DA16200 awake.                                                      *)
(*                                                                         *)
(* Three threads share the state without a lock: the system work queue     *)
(* (poll, version check, boot check, download monitor), commMgr_work_q     *)
(* (answers of the cloud, status reports, the end of a download) and the   *)
(* interrupt or message that starts a round.  commMgr_fota_end() may block *)
(* for seconds, when rm_done_with_radio() sends the DA16200 to sleep.      *)
(***************************************************************************)
EXTENDS Naturals, Sequences, FiniteSets

CONSTANTS
    MaxRounds,    \* rounds that begin
    MaxSetbacks   \* errors, resets and stray answers, together

ASSUME FotaAssumption ==
    /\ MaxRounds \in Nat
    /\ MaxSetbacks \in Nat

VARIABLES
    job,     \* nrf9160_fota, da16200_fota, nrf5340_fota
    hold,    \* the processors d with g_<d>_fota_in_progress
    daRefs,  \* the updates' share of the DA16200's prep_ref_cnt
    round,   \* fota_in_progress
    sWork,   \* ~g_comm_mgr_disable_S_work
    type,    \* update_device_type
    asked,   \* checks that the cloud got and has not answered
    timers,  \* the timers that run, or whose work is queued
    sys,     \* what the system work queue is blocked in
    h,       \* what commMgr_work_q is blocked in
    slot,    \* my_fotastatus_work_info, when its work is queued
    ota,     \* my_ota_info.state of net_mgr.c
    lte,     \* the nRF9160's own update
    http,    \* the download of the nRF5340's image
    note,    \* /lfs1/fota_in_progress.txt exists
    fresh,   \* processors that began to run a new version since they were asked to
    told,    \* history: updates begun in this round that the cloud was told are done
    orderly, \* history: nothing came late, see Stray and Unfinished
    count    \* rounds and setbacks so far

jobs == <<job, hold, daRefs>>
rounds == <<round, sWork, type, asked>>
works == <<timers, sys, h, slot>>
world == <<ota, lte, http, note, fresh>>
history == <<told, orderly, count>>
fotaVars == <<jobs, rounds, works, world, history>>

Device == {"nrf9160", "da16200", "nrf5340"}
NoDevice == "none"

(* The order in which the code tests the processors, here of a set s of them *)
First(s) ==
    IF "nrf9160" \in s THEN "nrf9160" ELSE IF "da16200" \in s THEN "da16200" ELSE "nrf5340"

NoJob == [requested |-> FALSE, received |-> FALSE, inProgress |-> FALSE, complete |-> FALSE]

AllCleared == [d \in Device |-> NoJob]

Ready == [place |-> "idle", dev |-> NoDevice]
NoHttp == [open |-> FALSE, busy |-> FALSE,
           whole |-> FALSE, ended |-> "no"]
NoStatus == [dev |-> NoDevice, state |-> "none"]

FotaInit ==
    /\ job = [d \in Device |-> NoJob]
    /\ hold = {}
    /\ daRefs = 0
    /\ round = FALSE
    /\ sWork = TRUE
    /\ type = NoDevice
    /\ asked = {}
    /\ timers = {"boot"}
    /\ sys = [ends |-> <<>>, closing |-> FALSE]
    /\ h = Ready
    /\ slot = NoStatus
    /\ ota = 0
    /\ lte = "off"
    /\ http = NoHttp
    /\ note = FALSE
    /\ fresh = {}
    /\ told = {}
    /\ orderly = TRUE
    /\ count = [rounds |-> 0, setbacks |-> 0]

-----------------------------------------------------------------------------
(* What the actions share *)

(* The environment's choices are counted where the model bounds them *)
Setback == count.setbacks < MaxSetbacks /\ count' = [count EXCEPT !.setbacks = @ + 1]
NoSetback == UNCHANGED count

(* commMgr_fota_end() on each of s in turn, given what is held: it blocks in
   rm_done_with_radio() for the first one that is, and s is left from there *)
Ending(s, held) ==
    IF \E i \in DOMAIN s : s[i] \in held
    THEN LET first == CHOOSE i \in DOMAIN s : s[i] \in held /\ \A k \in 1..(i - 1) : s[k] \notin held
         IN  SubSeq(s, first, Len(s))
    ELSE <<>>

(* Faulty variant for a mutation run: the count goes below 0 *)
RefsAfterUnchecked(ending, r) == IF ending = <<>> THEN r ELSE r - 1

(* rm_done_with_radio() when Ending() blocks: at 0 it returns -EMLINK *)
RefsAfter(ending, r) == IF ending = <<>> \/ r = 0 THEN r ELSE r - 1

SysIdle == sys.ends = <<>> /\ ~sys.closing
CommIdle == h.place = "idle"

SysEnds(s) ==
    /\ sys' = [sys EXCEPT !.ends = Ending(s, hold)]
    /\ daRefs' = RefsAfter(sys'.ends, daRefs)

(* The handler on commMgr_work_q ends d, holding held, and returns *)
CommEnds(d, held, r) ==
    /\ h' = IF d \in held THEN [place |-> "ending", dev |-> d] ELSE Ready
    /\ daRefs' = RefsAfter(Ending(<<d>>, held), r)

(* Faulty variant for a mutation run: in_progress is left set *)
OverInProgress(js, d) == [js EXCEPT ![d].complete = TRUE]

(* An update that is over, in jobs js *)
Over(js, d) == [js EXCEPT ![d].complete = TRUE, ![d].inProgress = FALSE]

Monitored == timers \cup {"monitor"}
NotMonitored == timers \ {"monitor"}

-----------------------------------------------------------------------------
(* The system work queue: fota_work_callback() *)

(* check_for_updates(): every check clears the nRF5340's job too *)
Checked(d) == [job EXCEPT !["nrf5340"] = NoJob, ![d] = [NoJob EXCEPT !.requested = TRUE]]

(* The processors that are not done with this round *)
Incomplete == {d \in Device : ~job[d].complete}

PollChecks(d) ==
    /\ ~job[d].requested
    /\ job' = Checked(d)
    /\ type' = d
    /\ \/ asked' = asked \cup {d} /\ NoSetback
       \/ Setback /\ UNCHANGED asked
    /\ UNCHANGED <<daRefs, round, timers, sys>>

(* FOTA_STATE_MAX_TIME_IN_SEC since last_state_time, which the model has not:
   they may have gone by at any moment, but for the few seconds that
   commMgr_work_q needs for an answer it has just stamped.  (The stamp of a
   check of the DA16200 goes to the nRF9160: its time is up at once.) *)
TimeIsUp(d) == h.place = "starting" => d = "da16200" /\ ~job[d].received

(* Faulty variant for a mutation run: no limit for a check without an answer *)
PollTimesOutReceived(d) ==
    /\ job[d].requested
    /\ job[d].received
    /\ TimeIsUp(d)
    /\ job' = Over(job, d)
    /\ SysEnds(<<d>>)
    /\ NoSetback
    /\ UNCHANGED <<round, type, asked, timers>>

PollTimesOut(d) ==
    /\ job[d].requested
    /\ TimeIsUp(d)
    /\ job' = Over(job, d)
    /\ SysEnds(<<d>>)
    /\ NoSetback
    /\ UNCHANGED <<round, type, asked, timers>>

(* The goto cleanup: flags first, then three ends, then FinishRound *)
PollFinishes ==
    /\ Incomplete = {}
    /\ job' = AllCleared
    /\ round' = FALSE
    /\ timers' = timers \ {"poll"}
    /\ sys' = [ends |-> Ending(<<"nrf5340", "nrf9160", "da16200">>, hold), closing |-> TRUE]
    /\ daRefs' = RefsAfter(sys'.ends, daRefs)
    /\ NoSetback
    /\ UNCHANGED <<type, asked>>

Poll ==
    /\ "poll" \in timers
    /\ SysIdle
    /\ \/ Incomplete # {} /\ (PollChecks(First(Incomplete)) \/ PollTimesOut(First(Incomplete)))
       \/ PollFinishes
    /\ UNCHANGED <<hold, sWork, h, slot, world, told, orderly>>

(* The DA16200 is asleep, or another user keeps it awake: the end returns *)
SysEndReturns ==
    /\ sys.ends # <<>>
    /\ hold' = hold \ {Head(sys.ends)}
    /\ sys' = [sys EXCEPT !.ends = Ending(Tail(@), hold')]
    /\ daRefs' = RefsAfter(sys'.ends, daRefs)
    /\ UNCHANGED <<job, rounds, timers, h, slot, world, history>>

(* The last two calls of the cleanup: modem_power_off() and S work on *)
FinishRound ==
    /\ sys.closing
    /\ sys.ends = <<>>
    /\ sWork' = TRUE
    /\ sys' = [sys EXCEPT !.closing = FALSE]
    /\ UNCHANGED <<jobs, round, type, asked, timers, h, slot, world, history>>

(* fota_update_all_devices(): a timer, the cloud or the phone; any thread.
   Not in the minute after a reset, before the boot check: the timers take
   12 hours, or 30 minutes, and the collar is not connected yet. *)
StartRound ==
    /\ "boot" \notin timers
    /\ ~round
    /\ count.rounds < MaxRounds
    /\ count' = [count EXCEPT !.rounds = @ + 1]
    /\ round' = TRUE
    /\ sWork' = FALSE
    /\ job' = AllCleared
    /\ timers' = timers \cup {"poll"}
    /\ fresh' = {}
    /\ told' = {}
    /\ UNCHANGED <<hold, daRefs, type, asked, sys, h, slot, ota, lte, http, note, orderly>>

-----------------------------------------------------------------------------
(* fota_status_update() with an error (2) or an abort (99), from each queue; *)
(* only an update in progress is told of and ended                           *)

SysFails(d) ==
    IF job[d].inProgress
    THEN /\ job' = Over(job, d)
         /\ SysEnds(<<d>>)
    ELSE UNCHANGED <<job, daRefs, sys>>

CommFails(d, js, held, r) ==
    IF js[d].inProgress
    THEN /\ job' = Over(js, d)
         /\ CommEnds(d, held, r)
    ELSE job' = js /\ CommEnds(NoDevice, held, r)

(* State 3: when the message that says so is refused, nothing else is done *)
SysDone(d) ==
    /\ job' = Over(job, d)
    /\ told' = told \cup {d}
    /\ SysEnds(<<d>>)

(* fota_version_check_work(): 45 s (nRF9160) or 30 s (DA16200) after the
   download.  A refused message is tried again in 45 s. *)
Verifying(d) == job[d].inProgress /\ ~job[d].complete

(* Faulty variant for a mutation run: the versions are not compared *)
VersionCheckOfAny(d) == SysDone(d) /\ timers' = timers \ {"version"} /\ NoSetback

VersionCheckOf(d) ==
    IF d \in fresh
    THEN \/ SysDone(d) /\ timers' = timers \ {"version"} /\ NoSetback
         \/ Setback /\ UNCHANGED <<job, daRefs, timers, sys, told>>
    ELSE SysFails(d) /\ timers' = timers \ {"version"} /\ NoSetback /\ UNCHANGED told

VersionCheck ==
    /\ "version" \in timers
    /\ SysIdle
    /\ IF Verifying("nrf9160") THEN VersionCheckOf("nrf9160")
       ELSE IF Verifying("da16200") THEN VersionCheckOf("da16200")
       ELSE timers' = timers \ {"version"} /\ UNCHANGED <<job, daRefs, sys, told, count>>
    /\ UNCHANGED <<hold, rounds, h, slot, world, orderly>>

(* da_http_monitor_work(), every 10 s.  It does something when there are as
   many bytes as the last time: at any moment while the DA16200 downloads,
   sooner or later when it does not. *)
Monitor ==
    /\ "monitor" \in timers
    /\ SysIdle
    /\ SysFails("nrf5340")
    /\ timers' = NotMonitored
    /\ UNCHANGED <<hold, rounds, h, slot, world, history>>

(* fota_in_progress_check_work(), a minute after a reset.  A refused report
   starts the timer again and is forgotten with the file. *)
BootCheck ==
    /\ "boot" \in timers
    /\ SysIdle
    /\ IF note
       THEN /\ job' = [job EXCEPT !["nrf5340"] = NoJob]
            /\ SysEnds(<<"nrf5340">>)
            /\ note' = FALSE
            /\ http' = [http EXCEPT !.whole = FALSE]
            /\ IF "nrf5340" \in fresh
               THEN \/ /\ NoSetback
                       /\ told' = told \cup {"nrf5340"}
                       /\ timers' = timers \ {"boot", "monitor"}
                    \/ /\ Setback
                       /\ timers' = NotMonitored
                       /\ UNCHANGED told
               ELSE /\ NoSetback
                    /\ UNCHANGED told
                    /\ timers' = timers \ {"boot", "monitor"}
       ELSE /\ timers' = timers \ {"boot"}
            /\ UNCHANGED <<job, daRefs, sys, http, note, told, count>>
    /\ UNCHANGED <<hold, rounds, h, slot, ota, lte, fresh, orderly>>

-----------------------------------------------------------------------------
(* commMgr_work_q: handle_fota_message() *)

Unanswered == {d \in Device : job[d].requested /\ ~job[d].received}

(* The answer to the check of q finds it given up, or finds another one *)
Stray(q) == Unanswered # {q} \/ job[q].complete \/ type # q

Received(js, d) == [js EXCEPT ![d].received = TRUE]

(* No update: the first check that has no answer takes this for its own *)
AnswerNo ==
    IF Unanswered = {}
    THEN UNCHANGED <<job, daRefs, h>>
    ELSE LET d == First(Unanswered)
         IN  job' = Over(Received(job, d), d) /\ CommEnds(d, hold, daRefs)

AllReceived ==
    [d \in Device |-> IF job[d].requested /\ ~job[d].received THEN Received(job, d)[d] ELSE job[d]]

(* The file is for q, and q is the processor last asked for: its update
   starts after a pause, and for the nRF9160 after the wait for LTE *)
AnswerStarts(q) ==
    /\ type = q
    /\ job' = AllReceived
    /\ h' = [place |-> "starting", dev |-> q]
    /\ UNCHANGED daRefs

(* The file is for another one.  The nRF9160's branch clears the in_progress
   of the nRF5340. *)
AnswerSkips(q) ==
    /\ type # q
    /\ LET js == [AllReceived EXCEPT ![q].complete = TRUE]
       IN  job' = [js EXCEPT ![IF q = "nrf9160" THEN "nrf5340" ELSE q].inProgress = FALSE]
    /\ CommEnds(q, hold, daRefs)

Answer(q) ==
    /\ q \in asked
    /\ CommIdle
    /\ asked' = asked \ {q}
    /\ IF Stray(q) THEN Setback ELSE NoSetback
    /\ orderly' = (orderly /\ ~Stray(q))
    /\ AnswerNo \/ AnswerStarts(q) \/ AnswerSkips(q)
    /\ UNCHANGED <<hold, round, sWork, type, timers, sys, slot, world, told>>

(* An answer is lost, says something else than OK, or has no file for q *)
AnswerFails(q) ==
    /\ q \in asked
    /\ CommIdle
    /\ Setback
    /\ asked' = asked \ {q}
    /\ job' \in {job, AllReceived}
    /\ UNCHANGED <<hold, daRefs, round, sWork, type, works, world, told, orderly>>

(* An update of d begins, in jobs js: net_start_ota() or wifi_http_get() is next *)
Begun(js, d) == [js EXCEPT ![d].inProgress = TRUE]

Prepared(d) == IF d \in hold THEN daRefs ELSE daRefs + 1

(* fota_start_9160_process() and modem_fota_from_https(), whose failure is
   only logged.  commMgr_fota_start() does not prepare the DA16200 here. *)
Start9160 ==
    IF job["nrf9160"].inProgress
    THEN h' = Ready /\ UNCHANGED <<jobs, timers, ota, lte, http, fresh, told, count>>
    ELSE /\ job' = [Begun(job, "nrf9160") EXCEPT !["nrf9160"].complete = FALSE]
         /\ hold' = hold \cup {"nrf9160"}
         /\ \/ lte' = "busy" /\ NoSetback
            \/ Setback /\ UNCHANGED lte
         /\ fresh' = fresh \ {"nrf9160"}
         /\ told' = told \ {"nrf9160"}
         /\ h' = Ready
         /\ UNCHANGED <<daRefs, timers, ota, http>>

StartDA ==
    LET js == Begun(job, "da16200")
        held == hold \cup {"da16200"}
    IN  /\ NoSetback
        /\ hold' = held
        /\ IF ota = 0
           THEN /\ ota' = 1
                /\ job' = js
                /\ fresh' = fresh \ {"da16200"}
                /\ told' = told \ {"da16200"}
                /\ h' = Ready
                /\ daRefs' = Prepared("da16200")
           ELSE /\ CommFails("da16200", js, held, Prepared("da16200"))
                /\ UNCHANGED <<ota, fresh, told>>
        /\ UNCHANGED <<timers, lte, http>>

(* wifi_http_get() fails when the last download has its file open still, when
   that download goes on, or by itself.  The monitor starts in any case. *)
Start5340 ==
    LET js == Begun(job, "nrf5340")
        held == hold \cup {"nrf5340"}
    IN  /\ hold' = held
        /\ timers' = Monitored
        /\ \/ /\ ~http.open
              /\ ~http.busy
              /\ NoSetback
              /\ http' = [NoHttp EXCEPT !.open = TRUE, !.busy = TRUE, !.ended = http.ended]
              /\ job' = js
              /\ fresh' = fresh \ {"nrf5340"}
              /\ told' = told \ {"nrf5340"}
              /\ h' = Ready
              /\ daRefs' = Prepared("nrf5340")
           \/ /\ IF http.open \/ http.busy THEN NoSetback ELSE Setback
              /\ CommFails("nrf5340", js, held, Prepared("nrf5340"))
              /\ UNCHANGED <<http, fresh, told>>
        /\ UNCHANGED <<ota, lte>>

(* The active radio is not the DA16200, or it does not wake up; for the
   nRF9160, LTE does not connect: the processor stays requested *)
StartRefused ==
    /\ Setback
    /\ h' = Ready
    /\ UNCHANGED <<jobs, timers, ota, lte, http, fresh, told>>

(* What an earlier update of d, given up by the collar, still does *)
Unfinished(d) ==
    \/ slot.dev = d
    \/ d = "nrf9160" /\ lte # "off"
    \/ d = "da16200" /\ ota # 0
    \/ d = "nrf5340" /\ (http.open \/ http.busy \/ http.ended # "no")

StartUpdate ==
    /\ h.place = "starting"
    /\ orderly' = (orderly /\ ~Unfinished(h.dev))
    /\ \/ h.dev = "nrf9160" /\ Start9160
       \/ h.dev = "da16200" /\ StartDA
       \/ h.dev = "nrf5340" /\ Start5340
       \/ StartRefused
    /\ UNCHANGED <<rounds, sys, slot, note>>

CommEndReturns ==
    /\ h.place = "ending"
    /\ hold' = hold \ {h.dev}
    /\ h' = Ready
    /\ UNCHANGED <<job, daRefs, rounds, timers, sys, slot, world, history>>

-----------------------------------------------------------------------------
(* commMgr_work_q: fota_status_update_work_handler().  A report overwrites *)
(* the one that the queued work has not read yet.                          *)

Report(d, state) == slot' = [dev |-> d, state |-> state]

(* Downloaded.  What it says before that only stamps last_state_time. *)
StatusLoaded(d) ==
    /\ slot.state = "loaded"
    /\ timers' = timers \cup {"version"}
    /\ NoSetback
    /\ UNCHANGED <<job, daRefs, h, told>>

StatusDone(d) ==
    /\ slot.state = "done"
    /\ \/ /\ NoSetback
          /\ job' = Over(job, d)
          /\ told' = told \cup {d}
          /\ CommEnds(d, hold, daRefs)
       \/ Setback /\ UNCHANGED <<job, daRefs, h, told>>
    /\ UNCHANGED timers

StatusFailed(d) ==
    /\ slot.state = "failed"
    /\ CommFails(d, job, hold, daRefs)
    /\ NoSetback
    /\ UNCHANGED <<timers, told>>

StatusWork ==
    /\ slot # NoStatus
    /\ CommIdle
    /\ slot' = NoStatus
    /\ IF job[slot.dev].inProgress
       THEN StatusLoaded(slot.dev) \/ StatusDone(slot.dev) \/ StatusFailed(slot.dev)
       ELSE UNCHANGED <<job, daRefs, timers, h, told, count>>
    /\ UNCHANGED <<hold, rounds, sys, world, orderly>>

(* net_ota_fn(), every second: 1 to 3 the DA16200 downloads, 4 it was told to
   renew itself, and is waited for without a limit *)
OtaFails ==
    /\ ota = 1
    /\ ota' = 0
    /\ Report("da16200", "failed")
    /\ UNCHANGED <<jobs, rounds, timers, sys, h, lte, http, note, fresh, history>>

OtaRenews ==
    /\ ota = 1
    /\ ota' = 4
    /\ Report("da16200", "loaded")
    /\ UNCHANGED <<jobs, rounds, timers, sys, h, lte, http, note, fresh, history>>

(* The DA16200 starts anew, with the new version or with its old one *)
OtaEnds ==
    /\ ota = 4
    /\ ota' = 0
    /\ \/ fresh' = fresh \cup {"da16200"} /\ Report("da16200", "done")
       \/ UNCHANGED fresh /\ Report("da16200", "failed")
    /\ UNCHANGED <<jobs, rounds, timers, sys, h, lte, http, note, history>>

(* The nRF9160 sends its FOTA state with every status message; fota.c of its
   own firmware never has one that says it is done *)
LteReports ==
    /\ lte = "busy"
    /\ \/ lte' = "loaded" /\ Report("nrf9160", "loaded")
       \/ lte' = "off" /\ Report("nrf9160", "failed")
    /\ UNCHANGED <<jobs, rounds, timers, sys, h, ota, http, note, fresh, history>>

LteBoots ==
    /\ lte = "loaded"
    /\ lte' = "off"
    /\ fresh' = fresh \cup {"nrf9160"}
    /\ UNCHANGED <<jobs, rounds, works, ota, http, note, history>>

-----------------------------------------------------------------------------
(* The download of the nRF5340's image (wifi_at.c) and its flashing *)

(* Faulty variant for a mutation run: the status code is not looked at *)
HttpEndsOk ==
    /\ http.busy
    /\ \E whole \in BOOLEAN :
          http' = (IF http.open
                   THEN [http EXCEPT !.busy = FALSE, !.open = FALSE, !.ended = "ok", !.whole = whole]
                   ELSE [http EXCEPT !.busy = FALSE])
    /\ UNCHANGED <<jobs, rounds, works, ota, lte, note, fresh, history>>

(* wifi_at_http_status(): without an open file the DA16200's last word is ignored *)
HttpEnds ==
    /\ http.busy
    /\ \E code \in {"ok", "bad"} :
          http' = (IF http.open
                   THEN [http EXCEPT !.busy = FALSE, !.open = FALSE, !.ended = code,
                                     !.whole = (code = "ok")]
                   ELSE [http EXCEPT !.busy = FALSE])
    /\ UNCHANGED <<jobs, rounds, works, ota, lte, note, fresh, history>>

(* The DA16200 goes away in the middle (the file stays open), or a block
   cannot be written (wifi_at_http_write() closes the file) *)
HttpBreaks ==
    /\ http.busy
    /\ http.open
    /\ Setback
    /\ \/ http' = [http EXCEPT !.busy = FALSE]
       \/ http' = [http EXCEPT !.open = FALSE]
    /\ UNCHANGED <<jobs, rounds, works, ota, lte, note, fresh, told, orderly>>

(* fota_handle_da_event(): the note for the time after the reset, then
   nrf53_upgrade_with_file() *)
HttpDone ==
    /\ http.ended # "no"
    /\ CommIdle
    /\ http' = [http EXCEPT !.ended = "no"]
    /\ timers' = NotMonitored
    /\ IF http.ended = "bad"
       THEN CommFails("nrf5340", job, hold, daRefs) /\ UNCHANGED note
       ELSE IF job["nrf5340"].inProgress
       THEN /\ note' = TRUE
            /\ h' = [place |-> "flashing", dev |-> "nrf5340"]
            /\ UNCHANGED <<job, daRefs>>
       ELSE UNCHANGED <<job, daRefs, h, note>>
    /\ UNCHANGED <<hold, rounds, sys, slot, ota, lte, fresh, history>>

FlashFails ==
    /\ h.place = "flashing"
    /\ Setback
    /\ CommFails("nrf5340", job, hold, daRefs)
    /\ UNCHANGED <<hold, rounds, timers, sys, slot, world, told, orderly>>

(* All of the RAM is new; the files, the cloud's answers and what the
   processors run stay *)
Reboot ==
    /\ job' = [d \in Device |-> NoJob]
    /\ hold' = {}
    /\ daRefs' = 0
    /\ round' = FALSE
    /\ sWork' = TRUE
    /\ type' = NoDevice
    /\ timers' = {"boot"}
    /\ sys' = [ends |-> <<>>, closing |-> FALSE]
    /\ h' = Ready
    /\ slot' = NoStatus
    /\ ota' = 0
    /\ http' = NoHttp
    /\ UNCHANGED <<asked, lte>>

Flashed ==
    /\ h.place = "flashing"
    /\ Reboot
    /\ fresh' = IF http.whole THEN fresh \cup {"nrf5340"} ELSE fresh
    /\ UNCHANGED <<note, history>>

Reset ==
    /\ Setback
    /\ Reboot
    /\ UNCHANGED <<note, fresh, told, orderly>>

-----------------------------------------------------------------------------
FotaNext ==
    \/ Poll \/ SysEndReturns \/ FinishRound \/ VersionCheck \/ Monitor \/ BootCheck
    \/ StartRound
    \/ \E d \in Device : Answer(d) \/ AnswerFails(d)
    \/ StartUpdate \/ CommEndReturns \/ StatusWork
    \/ OtaFails \/ OtaRenews \/ OtaEnds \/ LteReports \/ LteBoots
    \/ HttpEnds \/ HttpBreaks \/ HttpDone \/ FlashFails \/ Flashed \/ Reset

FotaSpec == FotaInit /\ [][FotaNext]_fotaVars

(* The poll timer fires and its work runs, a handler gets to the end of its
   waits, rm_done_with_radio() returns (all its waits have limits).  Nothing
   is asked of the cloud, of the processors, of their downloads, or of the
   other timers: the minute that the poll gives each of them has to do. *)
FairFotaSpec ==
    /\ FotaSpec
    /\ WF_fotaVars(Poll)
    /\ WF_fotaVars(SysEndReturns)
    /\ WF_fotaVars(FinishRound)
    /\ WF_fotaVars(StartUpdate)
    /\ WF_fotaVars(CommEndReturns)

-----------------------------------------------------------------------------
Job == [requested : BOOLEAN, received : BOOLEAN, inProgress : BOOLEAN, complete : BOOLEAN]

(* The count of prepares has no bound of its own: ends that overtake each other
   after a late answer may each leave one behind. *)
FotaTypeOK ==
    /\ job \in [Device -> Job]
    /\ hold \subseteq Device
    /\ daRefs \in Nat
    /\ round \in BOOLEAN /\ sWork \in BOOLEAN
    /\ type \in Device \cup {NoDevice}
    /\ asked \subseteq Device
    /\ timers \subseteq {"poll", "version", "monitor", "boot"}
    /\ sys \in [ends : Seq(Device), closing : BOOLEAN]
    /\ h \in [place : {"starting", "ending", "flashing"}, dev : Device] \cup {Ready}
    /\ slot \in [dev : Device, state : {"loaded", "done", "failed"}] \cup {NoStatus}
    /\ ota \in {0, 1, 4}
    /\ lte \in {"off", "busy", "loaded"}
    /\ http \in [open : BOOLEAN, busy : BOOLEAN, whole : BOOLEAN, ended : {"no", "ok", "bad"}]
    /\ note \in BOOLEAN
    /\ fresh \subseteq Device
    /\ told \subseteq Device /\ orderly \in BOOLEAN
    /\ count \in [rounds : 0..MaxRounds, setbacks : 0..MaxSetbacks]

(* As long as no answer is late, the round updates one processor at a time:
   the URL's handler, the poll's limit and the status reports, on two queues
   and without a lock, never have two jobs in progress.  One that goes through
   the DA16200 has its flag, and its prepare of the radio is counted once, just
   as long as it lasts: whatever ended, on one queue or on both, and whatever was
   counted down without having been counted up (the nRF9160's end), the DA16200 is
   neither lost to the update nor kept awake after it. *)
OneAtATime ==
    orderly =>
        LET updates == {d \in Device : job[d].inProgress}
        IN  /\ Cardinality(updates) <= 1
            /\ updates \subseteq hold
            /\ daRefs = Cardinality(updates \ {"nrf9160"})

(* The cloud is told that an update is done only when the processor runs the
   new version: after a download that failed, a reset in between, or a report
   that waited in its slot, too. *)
DoneMeansInstalled == orderly => told \subseteq fresh

(* The nRF5340 flashes a file that was downloaded to its end. *)
FlashedIsWhole == orderly /\ h.place = "flashing" => http.whole

(* Scans and telemetry come back, and no update holds the DA16200 any more,
   whatever the cloud, the processors or their downloads do.  (After a stray
   answer a flag may stay set until the next round cleans up.) *)
BackToNormal == (~sWork \/ hold # {}) ~> (sWork /\ (hold = {} \/ ~orderly))
=============================================================================
