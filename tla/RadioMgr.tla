------------------------------ MODULE RadioMgr ------------------------------
(***************************************************************************)
(* The radio manager of the collar (src/commercial_collar/src/comm_mgr/    *)
(* src/radioMgr.c).  It decides whether MQTT traffic goes over the DA16200 *)
(* (Wi-Fi, "DA") or the nRF9160 (cellular, "LTE"), and moves from one to   *)
(* the other with a polled state machine: switch_radios_work_handler runs  *)
(* on radioMgr_work_q, does one step, and asks a one-shot timer to run it  *)
(* again until the target radio is enabled and the other one disabled.     *)
(*                                                                         *)
(* A step of this module is a piece of code between two places where the   *)
(* running thread blocks (an AT command, an SPI command, a k_sleep): the   *)
(* other threads run there and nowhere else.  pc is the place where the    *)
(* radioMgr_work_q thread is blocked.  A command that blocks and whose     *)
(* outcome only decides what is returned to the timer takes its effect in  *)
(* the step that issues it.                                                *)
(*                                                                         *)
(* uicr_shipping_flag_get() and g_radio_mgmt are TRUE: a collar that has   *)
(* left the factory and on which no developer shell stopped the manager.   *)
(***************************************************************************)
EXTENDS Naturals, Sequences

CONSTANTS
    MaxPolls,           \* polls of an operation before its timeout has passed
    MaxFaults,          \* commands to the radios that fail or time out
    MaxEnv,             \* spontaneous setbacks of the radios
    MaxReqs,            \* calls into the manager from other threads
    ConcurrentRequests  \* may those calls arrive while the work queue runs?

ASSUME BoundsAssumption ==
    /\ MaxPolls \in Nat
    /\ MaxFaults \in Nat
    /\ MaxEnv \in Nat
    /\ MaxReqs \in Nat
    /\ ConcurrentRequests \in BOOLEAN

VARIABLES
    rm,       \* the globals of radioMgr.c, switch_radios_info and the work queue
    da,       \* da_state: what the host believes of the DA16200
    lte,      \* modem power and the STATUS_MQTT_ENABLED bit of the 9160
    pc,       \* where the radioMgr_work_q thread is blocked, or "idle"
    timer,    \* continue_switching_timer is running
    uptime8s, \* k_uptime_get() >= 8000
    left      \* what is left of the bounds

vars == <<rm, da, lte, pc, timer, uptime8s, left>>

(* comm_device_type_t and das_tri_state_t *)
Radios == {"DA", "LTE"}
Tri == {"U", "F", "T"}

(* switch_radios_state_t, with the retrys each call of startOp passes. The
   operations no code path starts are left out. *)
Retries == [ DISABLING_LTE_MQTT |-> 3, WAKING_DA |-> 3, STATE_TO_BE_KNOWN |-> 3,
             WAIT_FOR_AP |-> 3, TURNING_ON_BROKER_BOOT |-> 2, TURNING_ON_BROKER |-> 2,
             WAIT_FOR_BROKER |-> 1, SLEEPING_DA |-> 4, TURNING_OFF_BROKER |-> 3,
             WAIT_FOR_LTE_READY |-> 3, ENABLING_LTE_MQTT |-> 3 ]
Ops == DOMAIN Retries

(* What waits on radioMgr_work_q: SR_work, connecting_to_ap_work, and one item
   per zbus message (da_state_chan, LTE_STATUS_UPDATE, USB/BT power state). *)
Works == {"SR", "CONNECT", "AP", "MQTT", "BROKER", "LTE", "USB"}

Places == {"idle", "enWifi", "enWoken", "disWifi", "disWoken", "disLte",
           "postWifi", "postLte", "apPrepared"}

(* The state of the manager, of the DA's shadow *)
RmType ==
    [ active : Radios \cup {"NONE"}, switching : BOOLEAN, target : Radios,
      enabled : BOOLEAN, disabled : BOOLEAN,
      op : Ops \cup {"IDLE"}, failures : Nat, polls : Nat,
      connecting : BOOLEAN, disconnectFirst : BOOLEAN, useWifi : BOOLEAN,
      useSleep : BOOLEAN, plugged : BOOLEAN, lastPlugged : BOOLEAN, prepped : BOOLEAN,
      queue : Seq(Works) ]
DaType == [ power : BOOLEAN, sleep : Tri, ap : Tri, mqtt : Tri, boot : Tri, broker : Tri ]

Queued(r, w) == \E i \in 1..Len(r.queue) : r.queue[i] = w

-----------------------------------------------------------------------------
(* k_work_submit_to_queue(): an item that is already queued is not queued
   twice; one that is running is queued again. *)
Submit(r, w) == IF Queued(r, w) THEN r ELSE [r EXCEPT !.queue = Append(@, w)]

(* radio_mgr_listener(): every change of da_state published on da_state_chan
   becomes a work item of its own. *)
Publish(r, old, new) ==
    [r EXCEPT !.queue = @ \o (IF old.ap # new.ap THEN <<"AP">> ELSE <<>>)
                          \o (IF old.mqtt # new.mqtt THEN <<"MQTT">> ELSE <<>>)
                          \o (IF old.broker # new.broker THEN <<"BROKER">> ELSE <<>>)]

(* is_da_in_right_sleep_mode(). dpm_mode is taken to follow g_use_sleep, so
   only is_sleeping is left to decide. *)
RightSleep(r, d) == d.sleep = IF r.useSleep THEN "T" ELSE "F"

(* rm_wifi_is_connecting() *)
WifiIsConnecting(r) == r.connecting \/ (r.switching /\ r.target = "DA")

(* rm_is_switching_radios() *)
IsSwitchingRadios(r) == r.switching \/ r.connecting

(* Faulty variants of rm_switch_to(), for the mutation runs: it queues SR_work
   although a switch is under way; it forgets to clear radio_enabled. *)
SwitchToAlwaysSubmits(r, radio) ==
    IF r.switching /\ r.target = radio THEN r
    ELSE Submit([r EXCEPT !.enabled = FALSE, !.disabled = FALSE,
                          !.target = radio, !.switching = TRUE], "SR")
SwitchToKeepsEnabled(r, radio) ==
    IF r.switching /\ r.target = radio THEN r
    ELSE LET s == [r EXCEPT !.disabled = FALSE, !.target = radio, !.switching = TRUE]
         IN  IF r.switching THEN s ELSE Submit(s, "SR")

(* rm_switch_to(radio, _, force_switch = false) *)
SwitchTo(r, radio) ==
    IF \/ r.switching /\ r.target = radio
       \/ ~r.useWifi /\ radio = "DA"
    THEN r
    ELSE LET s == [r EXCEPT !.enabled = FALSE, !.disabled = FALSE,
                            !.target = radio, !.switching = TRUE]
         IN  IF r.switching THEN s ELSE Submit(s, "SR")

(* net_mgr_wifi_power(false): the shadow says asleep and disconnected, and
   mqtt_on_boot keeps its value. *)
PowerOff(d) ==
    IF ~d.power THEN d
    ELSE [d EXCEPT !.power = FALSE, !.ap = "F", !.sleep = "T",
                   !.mqtt = "F", !.broker = "F"]

(* net_mgr_wifi_power(true): the DA boots and reports +INIT:DONE. *)
PowerOn(d) ==
    IF d.power THEN d ELSE [d EXCEPT !.power = TRUE, !.sleep = "F"]

(* return_da_to_sleep(): the outcomes it can have. ok = FALSE is its negative
   result, fault = TRUE a command that failed. *)
ReturnDaToSleep(r, d) ==
    LET done(q, e) == [r |-> q, d |-> e, fault |-> FALSE, ok |-> TRUE]
        refused == [r |-> r, d |-> d, fault |-> FALSE, ok |-> FALSE]
        failed == [r |-> r, d |-> d, fault |-> TRUE, ok |-> FALSE]
        off(q) == LET e == IF r.prepped THEN d ELSE PowerOff(d) IN done(Publish(q, d, e), e)
    IN  IF WifiIsConnecting(r) THEN {done(r, d)}
        ELSE IF r.active # "DA" THEN {off(r)}
        ELSE IF ~r.useSleep THEN {done(r, [d EXCEPT !.sleep = "F"]), failed}
        ELSE IF d.sleep = "U" THEN {refused}
        ELSE IF d.ap = "T" THEN {done(r, [d EXCEPT !.sleep = "T"]), failed}
        ELSE {off(SwitchTo(r, "LTE"))}

(* Faulty variant for a mutation run: a retry forgets the failures so far. *)
StartOpForgetsFailures(r, op) ==
    IF r.op # op \/ r.polls >= MaxPolls
    THEN {[r |-> [r EXCEPT !.op = op, !.failures = 0, !.polls = 0], st |-> "STARTED"]}
    ELSE {[r |-> [r EXCEPT !.polls = @ + 1], st |-> "STILL_GOING"]}

(* startOp(): the states in which it can leave switch_radios_info, and what it
   returns.  polls counts the calls since the operation (re)started; failures
   saturates one above the retrys, where every later call fails as well. *)
StartOp(r, op) ==
    IF r.op # op
    THEN {[r |-> [r EXCEPT !.op = op, !.failures = 0, !.polls = 0], st |-> "STARTED"]}
    ELSE LET going == [r |-> [r EXCEPT !.polls = @ + 1], st |-> "STILL_GOING"]
             again == [r |-> [r EXCEPT !.failures = @ + 1, !.polls = 0], st |-> "STARTED"]
             fail  == [r |-> [r EXCEPT !.failures = Retries[op] + 1, !.polls = MaxPolls],
                       st |-> "FAILED"]
         IN  (IF r.polls < MaxPolls THEN {going} ELSE {})
             \cup (IF r.failures < Retries[op] THEN {again} ELSE {fail})

(* Faulty variant for a mutation run: the start time is moved the wrong way. *)
FailOpBackwards(r) == [r EXCEPT !.polls = @ - MaxPolls]

(* failOp(): the operation has expired when it is looked at next. *)
FailOp(r) == [r EXCEPT !.polls = MaxPolls]

-----------------------------------------------------------------------------
(* Ways in which a step of the handler ends. *)

(* A command that fails or times out uses up one fault. *)
Spend(fault) ==
    IF fault THEN /\ left.faults > 0
                  /\ left' = [left EXCEPT !.faults = @ - 1]
             ELSE UNCHANGED left

(* unlock_and_return with time_to_wait > 0 *)
Rearm(r) == rm' = r /\ timer' = TRUE /\ pc' = "idle"

(* The thread blocks inside the handler. *)
Block(r, place) == rm' = r /\ pc' = place /\ UNCHANGED timer

(* Faulty variant for a mutation run: the handler assumes that the radio it ends
   up on is the one it was not on before. *)
CommitToggles(r) ==
    LET radio == IF r.active = "LTE" THEN "DA" ELSE "LTE"
    IN  Block([r EXCEPT !.active = radio, !.op = "IDLE", !.switching = FALSE,
                        !.disabled = TRUE],
              IF radio = "DA" THEN "postWifi" ELSE "postLte")

(* The end of switch_radios_work_handler: the target becomes active. *)
Commit(r) ==
    Block([r EXCEPT !.active = r.target, !.op = "IDLE", !.switching = FALSE,
                    !.disabled = TRUE],
          IF r.target = "DA" THEN "postWifi" ELSE "postLte")

(* disable_wifi() returns 0 at once *)
WifiIsOff(r, d) == d.mqtt = "F" /\ d.broker = "F" /\ RightSleep(r, d)

(* radio_enabled = true, and the two calls that disable the other radio up to
   where they block: both tests read target_radio anew. *)
DisableOther(r, d) ==
    LET s == [r EXCEPT !.enabled = TRUE]
    IN  IF s.disabled \/ (s.target = "LTE" /\ WifiIsOff(s, d)) THEN Commit(s)
        ELSE Block(s, IF s.target = "LTE" THEN "disWifi" ELSE "disLte")

-----------------------------------------------------------------------------
(* enable_lte() *)

TurningOffBroker(r, d) ==
    /\ UNCHANGED lte
    /\ \E s \in StartOp(r, "TURNING_OFF_BROKER") :
         \/ s.st # "STARTED" /\ Rearm(s.r) /\ da' = d /\ UNCHANGED left   \* FAILED: wifi_reset()
         \/ s.st = "STARTED" /\ Spend(TRUE) /\ Rearm(s.r) /\ da' = d
         \/ /\ s.st = "STARTED"
            /\ \E refused \in BOOLEAN :            \* wifi_set_mqtt_state(0) fails
                 LET d1 == [PowerOn(d) EXCEPT !.sleep = "F"]
                     d2 == IF refused THEN d1 ELSE [d1 EXCEPT !.mqtt = "F", !.broker = "F"]
                 IN  \E o \in ReturnDaToSleep(Publish(s.r, d1, d2), d2) :
                       /\ ~(refused /\ o.fault)
                       /\ Rearm(o.r) /\ da' = o.d /\ Spend(refused \/ o.fault)

PoweringModem(r, d) ==
    /\ da' = d
    /\ \E s \in StartOp(r, "WAIT_FOR_LTE_READY") :
         \/ s.st = "STILL_GOING" /\ Rearm(s.r) /\ UNCHANGED <<lte, left>>
         \/ s.st = "STARTED" /\ Spend(TRUE) /\ Rearm(s.r) /\ UNCHANGED lte
         \/ /\ s.st # "STILL_GOING" /\ Rearm(s.r) /\ UNCHANGED left
            /\ lte' = [power |-> TRUE, mqtt |-> FALSE]

EnablingLteMqtt(r, d) ==
    /\ da' = d
    /\ \E s \in StartOp(r, "ENABLING_LTE_MQTT") :
         \/ s.st # "STARTED" /\ Rearm(s.r) /\ UNCHANGED <<lte, left>>     \* FAILED: hard reset
         \/ s.st = "STARTED" /\ Spend(TRUE) /\ Rearm(s.r) /\ UNCHANGED lte
         \/ /\ s.st = "STARTED" /\ Rearm(s.r) /\ UNCHANGED left
            /\ lte' = [lte EXCEPT !.mqtt = TRUE]

EnableLte(r, d) ==
    IF r.active = "DA" /\ d.broker = "T" THEN TurningOffBroker(r, d)
    ELSE IF ~lte.power THEN PoweringModem(r, d)
    ELSE IF ~lte.mqtt THEN EnablingLteMqtt(r, d)
    ELSE DisableOther(r, d) /\ da' = d /\ UNCHANGED <<lte, left>>

-----------------------------------------------------------------------------
(* enable_wifi() *)

(* The first thing of the list in enable_wifi() that is not as it should be.
   woken: the call has already been through the wake-up of the DA. *)
WifiNeeds(r, d, woken) ==
    IF /\ ~woken /\ d.mqtt = "T" /\ d.boot = "T" /\ d.broker = "T"
       /\ RightSleep(r, d)                         THEN "NONE"
    ELSE IF ~woken /\ r.active = "LTE" /\ lte.mqtt THEN "DISABLING_LTE_MQTT"
    ELSE IF ~woken /\ d.sleep # "F"                THEN "WAKING_DA"
    ELSE IF d.boot = "U" \/ d.broker = "U"         THEN "STATE_TO_BE_KNOWN"
    ELSE IF d.ap # "T"                             THEN "WAIT_FOR_AP"
    ELSE IF d.boot # "T"                           THEN "TURNING_ON_BROKER_BOOT"
    ELSE IF d.mqtt # "T"                           THEN "TURNING_ON_BROKER"
    ELSE IF d.broker # "T"                         THEN "WAIT_FOR_BROKER"
    ELSE IF ~RightSleep(r, d)                      THEN "SLEEPING_DA"
    ELSE "NONE"

(* enable_wifi() has returned 0. The handler tests the target again. *)
WifiEnabled(r, d) ==
    IF r.target = "LTE" /\ ~r.enabled THEN EnableLte(r, d)
    ELSE DisableOther(r, d) /\ da' = d /\ UNCHANGED <<lte, left>>

(* A command that only changes what the shadow says of the DA, and whose
   failure is marked with failOp(). *)
DaCommand(r, d) ==
    /\ UNCHANGED lte
    /\ \/ Spend(TRUE) /\ Rearm(FailOp(r)) /\ UNCHANGED da
       \/ UNCHANGED left /\ Rearm(Publish(r, da, d)) /\ da' = d

(* What enable_wifi() does when an operation (re)starts. *)
StartWifiOp(r, op) ==
    CASE op = "DISABLING_LTE_MQTT" ->
           /\ UNCHANGED da
           /\ \/ Spend(TRUE) /\ Rearm(r) /\ UNCHANGED lte
              \/ /\ UNCHANGED left
                 /\ lte' = [lte EXCEPT !.mqtt = FALSE]
                 /\ Rearm([r EXCEPT !.queue = Append(@, "LTE")])
      [] op = "WAKING_DA" ->
           /\ UNCHANGED lte
           /\ \/ Spend(TRUE) /\ Rearm(FailOp(r)) /\ da' = PowerOn(da)
              \/ UNCHANGED left /\ Block(r, "enWoken") /\ da' = [PowerOn(da) EXCEPT !.sleep = "F"]
      [] op = "STATE_TO_BE_KNOWN" ->
           /\ UNCHANGED lte
           /\ \/ Spend(TRUE) /\ Rearm(r) /\ UNCHANGED da
              \/ /\ UNCHANGED left
                 /\ \E boot, broker \in {"F", "T"} :
                      LET d == [da EXCEPT !.boot = IF @ = "U" THEN boot ELSE @,
                                          !.broker = IF @ = "U" THEN broker ELSE @]
                      IN  da' = d /\ Rearm(Publish(r, da, d))
      [] op = "TURNING_ON_BROKER_BOOT" -> DaCommand(r, [da EXCEPT !.boot = "T"])
      [] op = "TURNING_ON_BROKER" -> DaCommand(r, [da EXCEPT !.mqtt = "T"])
      [] op = "SLEEPING_DA" ->
           \E o \in ReturnDaToSleep(r, da) :
             IF o.ok THEN WifiEnabled(o.r, o.d)
             ELSE Spend(o.fault) /\ Rearm(FailOp(o.r)) /\ da' = o.d /\ UNCHANGED lte
      [] OTHER -> Rearm(r) /\ UNCHANGED <<da, lte, left>>     \* only waits

EnableWifi ==
    /\ pc \in {"enWifi", "enWoken"}
    /\ LET op == WifiNeeds(rm, da, pc = "enWoken")
       IN  \/ op = "NONE" /\ WifiEnabled(rm, da)
           \/ /\ op # "NONE"
              /\ \E s \in StartOp(rm, op) :
                   \/ s.st = "STARTED" /\ StartWifiOp(s.r, op)
                   \/ s.st = "STILL_GOING" /\ Rearm(s.r) /\ UNCHANGED <<da, lte, left>>
                   \/ s.st = "FAILED" /\ Rearm(SwitchTo(s.r, "LTE")) /\ UNCHANGED <<da, lte, left>>
    /\ UNCHANGED uptime8s

-----------------------------------------------------------------------------
(* disable_wifi() and disable_lte() *)

(* disable_wifi() has returned 0. The handler tests the target again. *)
WifiDisabled(r) ==
    IF r.target # "LTE" /\ ~r.disabled THEN Block(r, "disLte") ELSE Commit(r)

WakingToDisable ==
    /\ pc = "disWifi" /\ da.sleep # "F"
    /\ \E s \in StartOp(rm, "WAKING_DA") :
         \/ s.st # "STARTED" /\ Rearm(s.r) /\ UNCHANGED <<da, left>>      \* FAILED: wifi_reset()
         \/ s.st = "STARTED" /\ Spend(TRUE) /\ Rearm(FailOp(s.r)) /\ da' = PowerOn(da)
         \/ /\ s.st = "STARTED" /\ Block(s.r, "disWoken") /\ UNCHANGED left
            /\ da' = [PowerOn(da) EXCEPT !.sleep = "F"]

(* MQTT off, then either the AP is left and looked at again, or the DA is put
   to sleep.  A refused MQTT command is only reported. *)
StoppingWifi ==
    /\ pc = "disWoken" \/ (pc = "disWifi" /\ da.sleep = "F")
    /\ \E refused \in BOOLEAN :
         LET d == IF refused \/ da.mqtt = "F" THEN da ELSE [da EXCEPT !.mqtt = "F", !.broker = "F"]
             r == Publish(rm, da, d)
             left1 == d.ap = "F"
         IN  /\ refused => da.mqtt # "F"
             /\ \/ /\ d.ap # "F" /\ Spend(refused)
                   /\ LET d2 == [d EXCEPT !.ap = "F"] IN da' = d2 /\ Rearm(Publish(r, d, d2))
                \/ d.ap # "F" /\ ~refused /\ Spend(TRUE) /\ da' = d /\ Rearm(r)
                \/ left1 /\ RightSleep(r, d) /\ Spend(refused) /\ da' = d /\ WifiDisabled(r)
                \/ /\ left1 /\ ~RightSleep(r, d)
                   /\ \E s \in StartOp(r, "SLEEPING_DA") :
                        \/ /\ s.st = "STARTED"
                           /\ \E o \in ReturnDaToSleep(s.r, d) :
                                /\ ~(refused /\ o.fault) /\ Spend(refused \/ o.fault)
                                /\ da' = o.d
                                /\ IF o.ok THEN WifiDisabled(o.r) ELSE Rearm(FailOp(o.r))
                        \/ s.st = "STILL_GOING" /\ Spend(refused) /\ da' = d /\ Rearm(s.r)
                        \/ /\ s.st = "FAILED" /\ Spend(refused)
                           /\ da' = PowerOff(d) /\ WifiDisabled(Publish(s.r, d, PowerOff(d)))

DisableWifi == (WakingToDisable \/ StoppingWifi) /\ UNCHANGED <<lte, uptime8s>>

(* modem_power_off(), whose result disable_lte() drops: nothing happens on
   external power, and a busy modem stays on.  A modem that goes off reports
   all its status bits as cleared. *)
DisableLte ==
    /\ pc = "disLte"
    /\ \/ (rm.plugged \/ ~lte.power) /\ Commit(rm) /\ UNCHANGED <<lte, left>>
       \/ ~rm.plugged /\ lte.power /\ Spend(TRUE) /\ Commit(rm) /\ UNCHANGED lte
       \/ /\ ~rm.plugged /\ lte.power /\ UNCHANGED left
          /\ lte' = [power |-> FALSE, mqtt |-> FALSE]
          /\ Commit(IF lte.mqtt THEN [rm EXCEPT !.queue = Append(@, "LTE")] ELSE rm)
    /\ UNCHANGED <<da, uptime8s>>

-----------------------------------------------------------------------------
(* radioMgr_work_q: one item at a time, in the order they were submitted. *)

(* The item the thread takes next, and the queue without it *)
Rest == [rm EXCEPT !.queue = Tail(@)]
Takes(w) == pc = "idle" /\ Len(rm.queue) > 0 /\ Head(rm.queue) = w

(* The handler of a work item returns without blocking. *)
Return(r) == rm' = r /\ pc' = "idle" /\ UNCHANGED timer

(* switch_radios_work_handler(), up to where it first blocks *)
SwitchRadios ==
    /\ Takes("SR")
    /\ IF ~uptime8s THEN Rearm(Rest) /\ UNCHANGED <<da, lte, left>>
       ELSE IF Rest.enabled THEN DisableOther(Rest, da) /\ UNCHANGED <<da, lte, left>>
       ELSE IF Rest.target = "LTE" THEN EnableLte(Rest, da)
       ELSE Block(Rest, "enWifi") /\ da' = PowerOn(da) /\ UNCHANGED <<lte, left>>
    /\ UNCHANGED uptime8s

(* The end of the handler after a switch: commMgr_switched_to_*(), for LTE
   return_da_to_sleep(), and the timer is stopped. *)
AfterSwitch ==
    /\ \/ pc = "postWifi" /\ rm' = rm /\ UNCHANGED <<da, left>>
       \/ /\ pc = "postLte"
          /\ \E o \in ReturnDaToSleep(rm, da) : rm' = o.r /\ da' = o.d /\ Spend(o.fault)
    /\ timer' = FALSE /\ pc' = "idle"
    /\ UNCHANGED <<lte, uptime8s>>

(* connecting_to_ap_work_handler(), up to the end of rm_prepare_radio_for_use() *)
ConnectToAp ==
    /\ Takes("CONNECT")
    /\ \/ ~rm.useWifi /\ Return(Rest) /\ UNCHANGED <<da, left>>
       \/ /\ rm.useWifi /\ Spend(TRUE)          \* mutex, disconnect or prepare failed
          /\ Return([Rest EXCEPT !.connecting = FALSE])
          /\ da' \in {da, PowerOn(da)}
       \/ /\ rm.useWifi /\ UNCHANGED left
          /\ LET d == [PowerOn(da) EXCEPT !.sleep = "F",
                                          !.ap = IF rm.disconnectFirst THEN "F" ELSE @]
             IN  da' = d /\ Block(Publish(Rest, da, d), "apPrepared")
    /\ UNCHANGED <<lte, uptime8s>>

(* The rest of it: the connection fails or times out, or it succeeds and the
   manager is told to switch.  Either way rm_done_with_radio() comes before
   g_is_connecting_to_ap is cleared. *)
ConnectedToAp ==
    /\ pc = "apPrepared"
    /\ \E connected \in BOOLEAN :
         LET d1 == IF connected THEN [da EXCEPT !.ap = "T"] ELSE da
             d2 == IF connected THEN [d1 EXCEPT !.mqtt = "U", !.broker = "U"] ELSE d1
             r == IF connected THEN SwitchTo(Publish(rm, da, d1), "DA") ELSE rm
         IN  /\ connected => da.power
             /\ \E o \in ReturnDaToSleep(r, d2) :
                  /\ Return([o.r EXCEPT !.connecting = FALSE])
                  /\ da' = o.d /\ Spend(~connected \/ o.fault)
    /\ UNCHANGED <<lte, uptime8s>>

(* rm_da_work_handler(): the event says which state changed, the state itself
   is read when the work runs. *)
DaApEvent ==
    /\ Takes("AP")
    /\ IF da.ap = "F"
       THEN LET r == IF rm.active = "DA" \/ (rm.switching /\ rm.target = "DA")
                     THEN SwitchTo(Rest, "LTE") ELSE Rest
            IN  \E o \in ReturnDaToSleep(r, da) : Return(o.r) /\ da' = o.d /\ Spend(o.fault)
       ELSE Return(Rest) /\ UNCHANGED <<da, left>>
    /\ UNCHANGED <<lte, uptime8s>>

DaMqttEvent ==
    /\ Takes("MQTT")
    /\ Return(IF da.mqtt = "F" /\ rm.active = "DA" THEN SwitchTo(Rest, "LTE") ELSE Rest)
    /\ UNCHANGED <<da, lte, uptime8s, left>>

(* A broker connection while LTE is active resets the DA and changes nothing
   of the shadow. *)
DaBrokerEvent ==
    /\ Takes("BROKER") /\ Return(Rest)
    /\ UNCHANGED <<da, lte, uptime8s, left>>

(* rm_9160_work_handler(), for an update in which MQTT is no longer enabled *)
LteEvent ==
    /\ Takes("LTE")
    /\ Return(IF rm.active = "LTE" /\ ~IsSwitchingRadios(rm) THEN SwitchTo(Rest, "LTE") ELSE Rest)
    /\ UNCHANGED <<da, lte, uptime8s, left>>

(* usb_bt_connection_work_handler(): looks at the present state of USB and BT *)
UsbBtEvent ==
    /\ Takes("USB")
    /\ LET seen == [Rest EXCEPT !.lastPlugged = rm.plugged]
           d == [da EXCEPT !.ap = "F"]
       IN  IF rm.lastPlugged = rm.plugged THEN Return(Rest) /\ UNCHANGED <<da, left>>
           ELSE IF rm.plugged = rm.prepped THEN Return(seen) /\ UNCHANGED <<da, left>>
           ELSE \/ Return(Rest) /\ Spend(TRUE) /\ UNCHANGED da       \* wifi_get_mutex() failed
                \/ /\ rm.plugged /\ UNCHANGED left
                   /\ da' = [PowerOn(d) EXCEPT !.sleep = "F"]
                   /\ Return([seen EXCEPT !.useSleep = FALSE, !.prepped = TRUE])
                \/ /\ ~rm.plugged
                   /\ \E o \in ReturnDaToSleep([seen EXCEPT !.useSleep = TRUE], d) :
                        /\ da' = o.d /\ Spend(o.fault)
                        /\ Return([o.r EXCEPT !.prepped = FALSE])
    /\ UNCHANGED <<lte, uptime8s>>

-----------------------------------------------------------------------------
(* continue_switching_timer expires: queue_switching_handler() *)
TimerFires ==
    /\ timer /\ timer' = FALSE
    /\ rm' = Submit(rm, "SR")
    /\ UNCHANGED <<da, lte, pc, uptime8s, left>>

EightSecondsUp ==
    /\ ~uptime8s /\ uptime8s' = TRUE
    /\ UNCHANGED <<rm, da, lte, pc, timer, left>>

(* A call from another thread: commMgr_work_q, the BLE service, a shell. *)
Call(r) ==
    /\ left.reqs > 0 /\ (ConcurrentRequests \/ pc = "idle")
    /\ left' = [left EXCEPT !.reqs = @ - 1]
    /\ rm' = r
    /\ UNCHANGED <<da, lte, pc, timer, uptime8s>>

(* commMgr gives up on the radio in use: factory reset and a lost AP while the
   DA is active, no active radio yet, or the modem found to be off. *)
RequestLte ==
    /\ rm.active # "LTE" \/ ~IsSwitchingRadios(rm)
    /\ Call(SwitchTo(rm, "LTE"))

(* rm_connect_to_AP_by_index() for the AP the DA already has *)
UseConnectedAp ==
    /\ ~rm.connecting /\ rm.useWifi /\ da.ap = "T" /\ rm.active # "DA"
    /\ Call(SwitchTo(rm, "DA"))

(* rm_connect_to_AP_by_index() and rm_connect_to_AP() for another AP, or for
   the same AP with other credentials *)
RequestConnect ==
    /\ ~rm.connecting /\ rm.useWifi
    /\ \E first \in BOOLEAN :
         /\ first => da.ap = "T"
         /\ Call(Submit([rm EXCEPT !.connecting = TRUE, !.disconnectFirst = first], "CONNECT"))

(* rm_wifi_enable() *)
WifiOff ==
    /\ rm.useWifi
    /\ LET r == [rm EXCEPT !.useWifi = FALSE]
       IN  Call(IF r.active = "DA" THEN SwitchTo(r, "LTE") ELSE r)
WifiOn == ~rm.useWifi /\ Call([rm EXCEPT !.useWifi = TRUE])

(* USB_POWER_STATE_UPDATE and BT_CONN_STATE_UPDATE reach the listener. *)
PowerSourceChanges ==
    Call([rm EXCEPT !.plugged = ~@, !.queue = Append(@, "USB")])

-----------------------------------------------------------------------------
(* The radios, as net_mgr.c and modem_spi.c report them. *)

DaReports(d) ==
    /\ da.power /\ da' = d /\ rm' = Publish(rm, da, d)
    /\ UNCHANGED <<lte, pc, timer, uptime8s>>

(* The MQTT client of the DA gets through to the broker. *)
BrokerConnects ==
    /\ da.ap = "T" /\ da.mqtt # "F" /\ da.broker # "T"
    /\ DaReports([da EXCEPT !.broker = "T"]) /\ UNCHANGED left

Setback == left.env > 0 /\ left' = [left EXCEPT !.env = @ - 1]

ApLost == da.ap = "T" /\ DaReports([da EXCEPT !.ap = "F", !.broker = "F"]) /\ Setback
ApBack == da.ap = "F" /\ DaReports([da EXCEPT !.ap = "T"]) /\ Setback
BrokerLost == da.broker = "T" /\ DaReports([da EXCEPT !.broker = "F"]) /\ Setback
SleepChanges == \E s \in Tri \ {da.sleep} : DaReports([da EXCEPT !.sleep = s]) /\ Setback

LteMqttLost ==
    /\ lte.mqtt /\ Setback
    /\ lte' = [lte EXCEPT !.mqtt = FALSE]
    /\ rm' = [rm EXCEPT !.queue = Append(@, "LTE")]
    /\ UNCHANGED <<da, pc, timer, uptime8s>>

-----------------------------------------------------------------------------
Init ==
    /\ rm = [ active |-> "NONE", switching |-> FALSE, target |-> "LTE",
              enabled |-> FALSE, disabled |-> FALSE,
              op |-> "IDLE", failures |-> 0, polls |-> 0,
              connecting |-> FALSE, disconnectFirst |-> FALSE, useWifi |-> TRUE,
              useSleep |-> TRUE, plugged |-> FALSE, lastPlugged |-> FALSE, prepped |-> FALSE,
              queue |-> <<>> ]
    /\ da = [ power |-> TRUE, sleep |-> "F", ap |-> "F", mqtt |-> "U", boot |-> "U", broker |-> "U" ]
    /\ lte \in [ power : BOOLEAN, mqtt : {FALSE} ]
    /\ pc = "idle" /\ timer = FALSE /\ uptime8s = FALSE
    /\ left = [ faults |-> MaxFaults, env |-> MaxEnv, reqs |-> MaxReqs ]

(* The radioMgr_work_q thread *)
WorkQueue ==
    \/ SwitchRadios \/ EnableWifi \/ DisableWifi \/ DisableLte \/ AfterSwitch
    \/ ConnectToAp \/ ConnectedToAp
    \/ DaApEvent \/ DaMqttEvent \/ DaBrokerEvent \/ LteEvent \/ UsbBtEvent

(* Other threads and interrupts *)
Others ==
    \/ TimerFires \/ EightSecondsUp
    \/ RequestLte \/ UseConnectedAp \/ RequestConnect \/ WifiOff \/ WifiOn \/ PowerSourceChanges
    \/ BrokerConnects \/ ApLost \/ ApBack \/ BrokerLost \/ SleepChanges \/ LteMqttLost

Next == WorkQueue \/ Others

(* The kernel runs the work queue thread and fires the timer; nobody promises
   that a broker answers or that anybody asks for anything. *)
Fairness == WF_vars(WorkQueue) /\ WF_vars(TimerFires) /\ WF_vars(EightSecondsUp)

Spec == Init /\ [][Next]_vars
FairSpec == Spec /\ Fairness

-----------------------------------------------------------------------------
(* PROPERTIES *)

(* Every variable has its type; the queue of radioMgr_work_q only ever holds the
   items submitted in radioMgr.c. *)
TypeOK ==
    /\ rm \in RmType /\ da \in DaType
    /\ lte \in [ power : BOOLEAN, mqtt : BOOLEAN ]
    /\ pc \in Places /\ timer \in BOOLEAN /\ uptime8s \in BOOLEAN
    /\ left \in [ faults : Nat, env : Nat, reqs : Nat ]

InHandler == pc \in {"enWifi", "enWoken", "disWifi", "disWoken", "disLte"}

(* The switching state machine has exactly one next step scheduled while a
   switch is under way, and none otherwise: SR_work is queued, or the handler is
   blocked in the middle, or the timer runs.  None would be a switch that hangs
   for ever (rm_switch_to() then only says "already switching"); two would run
   commMgr_switched_to_*() twice. *)
OneStepPending ==
    LET queued == Queued(rm, "SR")
    IN  /\ rm.switching <=> queued \/ InHandler \/ timer
        /\ ~(queued /\ InHandler) /\ ~(queued /\ timer) /\ ~(InHandler /\ timer)

(* The radio manager implements RadioSwitch: every step is a request, the end of
   a switch on the radio last asked for, or none of a caller's business. *)
Switch == INSTANCE RadioSwitch
            WITH Radio <- Radios, None <- "NONE",
                 active <- rm.active, wanted <- rm.target, switching <- rm.switching

SwitchSteps == Switch!Spec

(* A switch ends, on one radio or the other, as long as only finitely many
   commands fail and nobody keeps changing his mind: enable_wifi() gives up after
   its retrys and falls back to LTE. *)
SwitchEnds == rm.switching ~> ~rm.switching

(* When switch_radios_work_handler() makes a radio active, that radio is on and
   its MQTT enabled: "At this point, the right radio is on and the other radio is
   off".  The handler reads target_radio at four places and blocks in between.  The
   other one is off, so that the two MQTT clients do not fight over the session of
   the device, if no command has failed; on external power the modem stays on. *)
RightRadioOn ==
    /\ pc = "postLte" => /\ lte.power /\ lte.mqtt
                         /\ left.faults = MaxFaults => da.mqtt # "T" /\ da.broker # "T"
    /\ pc = "postWifi" => /\ da.power /\ da.mqtt = "T" /\ da.broker = "T"
                          /\ left.faults = MaxFaults => ~lte.power \/ rm.plugged

(* The modem is only powered off while Wi-Fi carries MQTT: the collar is never
   left without a radio by a switch that has yet to succeed. *)
ModemOffNeedsWifi ==
    [][lte.power /\ ~lte'.power => da.power /\ da.mqtt = "T" /\ da.broker = "T"]_vars
=============================================================================
