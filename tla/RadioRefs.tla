----------------------------- MODULE RadioRefs -----------------------------
(***************************************************************************)
(* Who keeps the DA16200 awake: prep_ref_cnt of radioMgr.c and its users.  *)
(* Before it uses the DA16200 a handler calls rm_prepare_radio_for_use(),  *)
(* which counts it, wakes the DA16200, and may wait for the MQTT broker;   *)
(* afterwards it calls rm_done_with_radio(), and the last one to be done   *)
(* puts the DA16200 to sleep or turns it off.  The users run on three work *)
(* queues and the system's; a firmware update holds the radio from one     *)
(* handler to another.  What calls return_da_to_sleep() without the count  *)
(* (the end of a switch, the USB and Bluetooth handler) is here too.       *)
(*                                                                         *)
(* A change of the sleep mode is one step: wifi_set_sleep_mode() holds the *)
(* driver's mutex from its beginning to its end, and fails when it cannot  *)
(* have it within a second.                                                *)
(***************************************************************************)
EXTENDS Integers

CONSTANT MaxEvents    \* failed commands and unmatched calls, together

ASSUME RefsAssumption == MaxEvents \in Nat

VARIABLES
    cnt,        \* prep_ref_cnt[0]
    at,         \* what each thread is doing
    da,         \* the DA16200
    conn,       \* how far it is connected: none, ap, broker
    active,     \* g_active_radio
    wifiOn,     \* g_use_wifi
    connecting, \* g_is_connecting_to_ap
    usb,        \* g_usb_bt_prepped_radio, and ~g_use_sleep
    mgmt,       \* g_radio_mgmt
    mutex,      \* the thread that holds DA_mutex from one step to another
    fota,       \* an update of the DA16200 or the nRF5340 holds the radio
    exact,      \* history: every done so far had its prepare, every prepare its done
    left,       \* history: the DA16200 was left awake on purpose, or by a failure
    events      \* failures and unmatched calls so far

refs == <<cnt, fota, exact>>
radio == <<da, conn, left>>
modes == <<active, wifiOn, connecting, usb, mgmt, mutex>>
vars == <<refs, at, radio, modes, events>>

DA == "da16200"
LTE == "nrf9160"
NoOne == "none"

(* commMgr_work_q, the queue of net_mgr.c, the radio manager's, the system's *)
Threads == {"comm", "net", "radio", "sys"}

(* phase: in rm_prepare_radio_for_use() (power, wake, broker), with the radio
   prepared (using, ready), in rm_done_with_radio() (rest).  A handler that
   sends messages prepares the radio again inside (inner). *)
Idle == [job |-> "none", phase |-> "idle", inner |-> FALSE, radio |-> DA]

Init ==
    /\ cnt = 0
    /\ at = [t \in Threads |-> Idle]
    /\ da = "off"
    /\ conn = "none"
    /\ active = LTE
    /\ wifiOn = TRUE
    /\ connecting = FALSE
    /\ usb = FALSE
    /\ mgmt = TRUE
    /\ mutex = NoOne
    /\ fota = FALSE
    /\ exact = TRUE
    /\ left = FALSE
    /\ events = 0

Event == events < MaxEvents /\ events' = events + 1
NoEvent == UNCHANGED events

In(t, phase) == at[t].phase = phase
Does(t, job) == at[t].job = job
Goes(t, phase) == at' = [at EXCEPT ![t].phase = phase]
Has(t) == mutex \in {NoOne, t}

(* The handler returns, or goes on after its inner use of the radio *)
AfterUse(t) ==
    IF at[t].inner THEN [at[t] EXCEPT !.inner = FALSE, !.phase = "ready", !.radio = DA] ELSE Idle

Return(t) ==
    /\ at' = [at EXCEPT ![t] = AfterUse(t)]
    /\ IF Does(t, "connect")
       THEN mutex' = NoOne /\ connecting' = FALSE
       ELSE UNCHANGED <<mutex, connecting>>
    /\ UNCHANGED <<active, wifiOn, usb, mgmt>>

-----------------------------------------------------------------------------
(* rm_prepare_radio_for_use() and rm_done_with_radio() *)

Counted == cnt' = cnt + 1 /\ UNCHANGED exact

Uncounted == cnt' = cnt - 1 /\ UNCHANGED exact

(* Faulty variant for a mutation run: the failed prepare stays counted. *)
PrepareFailsCounted(t) ==
    /\ left' = TRUE
    /\ Return(t)
    /\ UNCHANGED <<refs, da, conn>>

(* It is not counted any more, and the DA16200 stays as it is *)
PrepareFails(t) ==
    /\ Uncounted
    /\ UNCHANGED fota
    /\ left' = TRUE
    /\ Return(t)
    /\ UNCHANGED <<da, conn>>

(* insure_da_is_awake() *)
PowerUp(t) ==
    /\ In(t, "power")
    /\ da' = IF mgmt /\ da = "off" THEN "awake" ELSE da
    /\ Goes(t, "wake")
    /\ UNCHANGED <<refs, conn, left, modes, events>>

NeedsBroker(t) == at[t].inner \/ at[t].job \in {"wmd", "send", "fota"}

WakeUp(t) ==
    /\ In(t, "wake")
    /\ \/ /\ mgmt => Has(t) /\ da # "off"
          /\ da' = IF mgmt THEN "awake" ELSE da
          /\ Goes(t, IF NeedsBroker(t) THEN "broker" ELSE "using")
          /\ NoEvent
          /\ UNCHANGED <<refs, conn, left, modes>>
       \/ /\ mgmt
          /\ IF Has(t) /\ da # "off" THEN Event ELSE NoEvent
          /\ PrepareFails(t)

BrokerIsThere(t) ==
    /\ In(t, "broker")
    /\ conn = "broker"
    /\ Goes(t, "using")
    /\ UNCHANGED <<refs, radio, modes, events>>

BrokerTimesOut(t) ==
    /\ In(t, "broker")
    /\ conn # "broker"
    /\ PrepareFails(t)
    /\ NoEvent

(* Faulty variant for a mutation run: only the one who finds it at 0 puts the
   DA16200 to sleep. *)
DoneAtZero(t) ==
    IF cnt <= 0
    THEN Goes(t, "rest") /\ UNCHANGED <<cnt, exact, modes>>
    ELSE Uncounted /\ Return(t)

(* At 0 it returns -EMLINK, and only at 1 it goes on to sleep *)
Done(t) ==
    IF cnt <= 0
    THEN Return(t) /\ UNCHANGED <<cnt, exact>>
    ELSE /\ Uncounted
         /\ IF cnt = 1
            THEN Goes(t, "rest") /\ UNCHANGED modes
            ELSE Return(t)

(* A done whose prepare was of the other radio, or is not there *)
DoneTooMany(t) ==
    /\ exact' = FALSE
    /\ IF cnt <= 0
       THEN Return(t) /\ UNCHANGED cnt
       ELSE /\ cnt' = cnt - 1
            /\ IF cnt = 1
               THEN Goes(t, "rest") /\ UNCHANGED modes
               ELSE Return(t)

(* return_da_to_sleep() *)
Sleeps ==
    /\ da' = "asleep"
    /\ left' = FALSE
    /\ UNCHANGED conn

TurnedOff ==
    /\ da' = "off"
    /\ conn' = "none"
    /\ left' = FALSE

LeftAwake == left' = TRUE /\ UNCHANGED <<da, conn>>

(* Without an AP the DA16200 is turned off, and a switch to LTE asked for *)
ReturnDaToSleep(t) ==
    IF ~mgmt \/ connecting THEN LeftAwake /\ NoEvent
    ELSE IF usb THEN UNCHANGED radio /\ NoEvent
    ELSE IF active = DA /\ conn # "none"
    THEN \/ Has(t) /\ da # "off" /\ Sleeps /\ NoEvent
         \/ LeftAwake /\ IF Has(t) /\ da # "off" THEN Event ELSE NoEvent
    ELSE TurnedOff /\ NoEvent

Rest(t) ==
    /\ In(t, "rest")
    /\ ReturnDaToSleep(t)
    /\ Return(t)
    /\ UNCHANGED refs

-----------------------------------------------------------------------------
(* The users: each begins with a prepare, unless it says otherwise *)

Begin(t, job) ==
    /\ In(t, "idle")
    /\ at' = [at EXCEPT ![t] = [Idle EXCEPT !.job = job, !.phase = "power"]]
    /\ Counted
    /\ UNCHANGED <<fota, radio, modes, events>>

Uses(t, job) == Does(t, job) /\ at[t].phase = "using" /\ ~at[t].inner

(* Faulty variant for a mutation run: a scan that failed is not done. *)
ScanFailsHolding ==
    /\ Uses("comm", "scan")
    /\ Event
    /\ Return("comm")
    /\ UNCHANGED <<refs, radio>>

(* S_work_handler(): a scan for access points, or the signal strength *)
StartScan ==
    /\ ~connecting
    /\ ~fota
    /\ active = DA \/ wifiOn
    /\ Begin("comm", "scan")

ScanFails ==
    /\ Uses("comm", "scan")
    /\ Event
    /\ Done("comm")
    /\ UNCHANGED <<fota, radio>>

(* On LTE a known access point is connected to: rm_connect_to_AP_by_index() *)
ScanEnds ==
    /\ Uses("comm", "scan")
    /\ Goes("comm", "ready")
    /\ connecting' \in {connecting, connecting \/ (active # DA /\ wifiOn)}
    /\ UNCHANGED <<refs, radio, active, wifiOn, usb, mgmt, mutex, events>>

(* Both S_work_handler() and send_mqtt_message() prepare the radio that is
   active then; only the second one remembers which it was *)
InnerStart ==
    /\ \/ at["comm"].job \in {"scan", "send", "sendLte"} /\ In("comm", "ready")
       \/ Uses("comm", "send")
    /\ ~at["comm"].inner
    /\ at' = [at EXCEPT !["comm"].inner = TRUE, !["comm"].radio = active,
                        !["comm"].phase = IF active = DA THEN "power" ELSE "using"]
    /\ IF active = DA THEN Counted ELSE UNCHANGED <<cnt, exact>>
    /\ UNCHANGED <<fota, radio, modes, events>>

DoneRadio == IF Does("comm", "scan") THEN active ELSE at["comm"].radio

InnerDone ==
    /\ at["comm"].inner
    /\ In("comm", "using")
    /\ CASE DoneRadio = DA /\ at["comm"].radio = DA -> Done("comm") /\ NoEvent
         [] DoneRadio = DA /\ at["comm"].radio # DA -> DoneTooMany("comm") /\ Event
         [] DoneRadio # DA /\ at["comm"].radio = DA ->
                /\ exact' = FALSE
                /\ UNCHANGED cnt
                /\ Return("comm")
                /\ Event
         [] OTHER -> Return("comm") /\ UNCHANGED <<cnt, exact>> /\ NoEvent
    /\ UNCHANGED <<fota, radio>>

OuterDone ==
    /\ ~at["comm"].inner
    /\ In("comm", "ready")
    /\ \/ at["comm"].job \in {"scan", "send"} /\ Done("comm")
       \/ Does("comm", "sendLte") /\ Return("comm") /\ UNCHANGED <<cnt, exact>>
    /\ UNCHANGED <<fota, radio, events>>

(* WMD_work_handler(): without Wi-Fi it returns, and is never done *)
Wmd ==
    /\ Uses("comm", "wmd")
    /\ IF wifiOn
       THEN Done("comm") /\ NoEvent
       ELSE /\ Event
            /\ exact' = FALSE
            /\ UNCHANGED cnt
            /\ Return("comm")
    /\ UNCHANGED <<fota, radio>>

(* mqttQ_work_handler() holds the radio that is active when it begins *)
StartSend == active = DA /\ conn = "broker" /\ Begin("comm", "send")

StartSendOnLte ==
    /\ active = LTE
    /\ In("comm", "idle")
    /\ at' = [at EXCEPT !["comm"] = [Idle EXCEPT !.job = "sendLte", !.phase = "ready"]]
    /\ UNCHANGED <<refs, radio, modes, events>>

(* handle_onboarding_message(): while it changes the topics the radio
   manager keeps its hands off the DA16200 *)
OnboardedSets ==
    /\ Uses("comm", "onboarded")
    /\ Goes("comm", "ready")
    /\ mgmt' \in {mgmt, mgmt /\ active # DA}
    /\ UNCHANGED <<refs, radio, active, wifiOn, connecting, usb, mutex, events>>

OnboardedEnds ==
    /\ Does("comm", "onboarded")
    /\ In("comm", "ready")
    /\ ~mgmt
    /\ mgmt' = TRUE
    /\ UNCHANGED <<refs, at, radio, active, wifiOn, connecting, usb, mutex, events>>

OnboardedDone ==
    /\ Does("comm", "onboarded")
    /\ In("comm", "ready")
    /\ mgmt
    /\ Done("comm")
    /\ UNCHANGED <<fota, radio, events>>

(* commMgr_fota_start(), and commMgr_fota_end() on the system's queue.  The
   end of an update of the nRF9160 is done with what it did not prepare. *)
StartFota == active = DA /\ ~fota /\ Begin("comm", "fota")

FotaHolds ==
    /\ Uses("comm", "fota")
    /\ fota' = TRUE
    /\ Return("comm")
    /\ UNCHANGED <<cnt, exact, radio, events>>

FotaEnds ==
    /\ In("sys", "idle")
    /\ fota
    /\ fota' = FALSE
    /\ Done("sys")
    /\ UNCHANGED <<radio, events>>

FotaOf9160Ends ==
    /\ In("sys", "idle")
    /\ Event
    /\ DoneTooMany("sys")
    /\ UNCHANGED <<fota, radio>>

(* net_process_WAKEUP_fn(): the DA16200 woke up for a message and is told to
   stay awake; it counts itself, and has not to wake what is awake *)
WakesForMessage ==
    /\ In("net", "idle")
    /\ da = "asleep" /\ conn # "none"
    /\ Has("net")
    /\ at' = [at EXCEPT !["net"] = [Idle EXCEPT !.job = "wakeup", !.phase = "using"]]
    /\ Counted
    /\ da' = "awake"
    /\ UNCHANGED <<fota, conn, left, modes, events>>

MessageRead ==
    /\ Uses("net", "wakeup")
    /\ Done("net")
    /\ UNCHANGED <<fota, radio, events>>

(* connecting_to_ap_work_handler(): it holds the driver's mutex all the time.
   A Wi-Fi that was disabled meanwhile leaves g_is_connecting_to_ap set. *)
StartConnect ==
    /\ connecting
    /\ wifiOn
    /\ mutex = NoOne
    /\ In("radio", "idle")
    /\ at' = [at EXCEPT !["radio"] = [Idle EXCEPT !.job = "connect", !.phase = "power"]]
    /\ Counted
    /\ mutex' = "radio"
    /\ UNCHANGED <<fota, radio, active, wifiOn, connecting, usb, mgmt, events>>

(* The mutex cannot be had, or the access point of now not be left *)
ConnectRefused ==
    /\ connecting
    /\ wifiOn
    /\ In("radio", "idle")
    /\ connecting' = FALSE
    /\ UNCHANGED <<refs, at, radio, active, wifiOn, usb, mgmt, mutex, events>>

Connected ==
    /\ Uses("radio", "connect")
    /\ conn' \in {"none", "ap"}
    /\ da # "off" \/ conn' = "none"
    /\ Done("radio")
    /\ UNCHANGED <<fota, da, left, events>>

(* enable_lte() turns the DA16200's connection to the broker off *)
StartBrokerOff == active = DA /\ conn = "broker" /\ Begin("radio", "brokerOff")

BrokerOff ==
    /\ Uses("radio", "brokerOff")
    /\ conn' \in {conn, IF conn = "broker" THEN "ap" ELSE conn}
    /\ Done("radio")
    /\ UNCHANGED <<fota, da, left, events>>

-----------------------------------------------------------------------------
(* What changes the DA16200 without the count *)

(* switch_radios_work_handler(): in the end of a switch to LTE *)
SwitchToLte ==
    /\ In("radio", "idle")
    /\ mgmt
    /\ active' = LTE
    /\ IF connecting THEN LeftAwake ELSE IF usb THEN UNCHANGED radio ELSE TurnedOff
    /\ UNCHANGED <<refs, at, wifiOn, connecting, usb, mgmt, mutex, events>>

SwitchToWifi ==
    /\ In("radio", "idle")
    /\ mgmt /\ wifiOn
    /\ da # "off" /\ conn = "broker"
    /\ active' = DA
    /\ UNCHANGED <<refs, at, radio, wifiOn, connecting, usb, mgmt, mutex, events>>

(* Other calls of return_da_to_sleep(): rm_da_work_handler(), disable_wifi() *)
RadioRests ==
    /\ In("radio", "idle")
    /\ ReturnDaToSleep("radio")
    /\ UNCHANGED <<refs, at, modes>>

(* usb_bt_connection_work_handler().  When USB and Bluetooth are gone,
   return_da_to_sleep() still finds the flag that says they are there. *)
Plugged ==
    /\ In("radio", "idle")
    /\ mutex = NoOne
    /\ ~usb
    /\ usb' = TRUE
    /\ conn' = "none"
    /\ da' = IF mgmt THEN "awake" ELSE da
    /\ UNCHANGED <<refs, at, left, active, wifiOn, connecting, mgmt, mutex, events>>

Unplugged ==
    /\ In("radio", "idle")
    /\ mutex = NoOne
    /\ usb
    /\ usb' = FALSE
    /\ conn' = "none"
    /\ left' = TRUE
    /\ UNCHANGED <<refs, at, da, active, wifiOn, connecting, mgmt, mutex, events>>

(* The access point and the broker come and go; rm_wifi_enable(), and
   rm_connect_to_AP() from the phone or the cloud *)
ConnectionChanges ==
    /\ da # "off"
    /\ \/ conn = "ap" /\ conn' = "broker"
       \/ conn = "broker" /\ conn' = "ap"
       \/ conn' = "none" /\ conn # "none"
    /\ UNCHANGED <<refs, at, da, left, modes, events>>

WifiChanges ==
    /\ wifiOn' = ~wifiOn
    /\ UNCHANGED <<refs, at, radio, active, connecting, usb, mgmt, mutex, events>>

RequestConnect ==
    /\ ~connecting /\ wifiOn
    /\ connecting' = TRUE
    /\ UNCHANGED <<refs, at, radio, active, wifiOn, usb, mgmt, mutex, events>>

-----------------------------------------------------------------------------
Start ==
    \/ StartScan \/ StartSend \/ StartSendOnLte \/ StartFota
    \/ StartConnect \/ ConnectRefused \/ StartBrokerOff
    \/ Begin("comm", "wmd") \/ Begin("comm", "onboarded") \/ WakesForMessage

Work ==
    \/ ScanFails \/ ScanEnds \/ InnerStart \/ InnerDone \/ OuterDone
    \/ Wmd \/ OnboardedSets \/ OnboardedEnds \/ OnboardedDone
    \/ FotaHolds \/ FotaEnds \/ FotaOf9160Ends
    \/ MessageRead \/ Connected \/ BrokerOff

Step(t) == PowerUp(t) \/ WakeUp(t) \/ BrokerIsThere(t) \/ BrokerTimesOut(t) \/ Rest(t)

Others ==
    \/ SwitchToLte \/ SwitchToWifi \/ RadioRests \/ Plugged \/ Unplugged
    \/ ConnectionChanges \/ WifiChanges \/ RequestConnect

Next == Start \/ Work \/ (\E t \in Threads : Step(t)) \/ Others

Spec == Init /\ [][Next]_vars

-----------------------------------------------------------------------------
Jobs ==
    {"none", "scan", "wmd", "send", "sendLte", "onboarded", "fota", "wakeup", "connect", "brokerOff"}
Phases == {"idle", "power", "wake", "broker", "using", "ready", "rest"}

(* Every variable has the values the code gives it, and prep_ref_cnt stays far
   within its int16_t: five prepares at most can be in use at a time, and each
   unmatched call shifts the count by one. *)
TypeOK ==
    /\ cnt \in (0 - MaxEvents)..(5 + MaxEvents)
    /\ at \in [Threads -> [job : Jobs, phase : Phases, inner : BOOLEAN, radio : {DA, LTE}]]
    /\ da \in {"off", "asleep", "awake"}
    /\ conn \in {"none", "ap", "broker"}
    /\ active \in {DA, LTE}
    /\ wifiOn \in BOOLEAN /\ connecting \in BOOLEAN /\ usb \in BOOLEAN /\ mgmt \in BOOLEAN
    /\ mutex \in {NoOne, "radio"}
    /\ fota \in BOOLEAN /\ exact \in BOOLEAN /\ left \in BOOLEAN
    /\ events \in 0..MaxEvents

(* What a thread holds when it is at place a *)
OuterHold(a) ==
    IF a.job \in {"none", "sendLte"} \/ (a.phase = "rest" /\ ~a.inner) THEN 0 ELSE 1

InnerHold(a) == IF a.inner /\ a.radio = DA /\ a.phase # "rest" THEN 1 ELSE 0

Hold(a) == OuterHold(a) + InnerHold(a)

Holders ==
    Hold(at["comm"]) + Hold(at["net"]) + Hold(at["radio"]) + Hold(at["sys"]) + IF fota THEN 1 ELSE 0

(* Until a handler leaves without its done, or is done with what it did not
   prepare, prep_ref_cnt is the number of prepares in use: no failing prepare,
   no nested one and no hold passed to another handler is lost or counted
   twice, in any order of the work queues. *)
CountIsExact == exact => cnt = Holders

(* A DA16200 that nobody uses is asleep or off, unless USB or Bluetooth want
   it awake, a command to it failed, or return_da_to_sleep() left it awake
   because it was connecting or not to be touched: none that overlapped with
   others may leave it awake. *)
RestsWhenDone ==
    exact /\ cnt = 0 /\ ~usb /\ da = "awake" /\ (\A t \in Threads : ~In(t, "rest")) => left
=============================================================================
