---------------------------- MODULE LteTransport ----------------------------
(***************************************************************************)
(* The MQTT connection of the nRF9160                                      *)
(* (src/purina_d1_lte/src/purina_iot/transport.c, with the events of       *)
(* network/network.c and the commands of spi/spis_interface.c).            *)
(*                                                                         *)
(* Four threads meet without a lock.  "spi" carries out the collar's       *)
(* commands, "lte" brings the modem's events, "poll" is the MQTT helper's  *)
(* and calls back when the broker accepts or closes the connection, and    *)
(* "queue" runs connect_work, the one thing that ever connects.            *)
(*                                                                         *)
(* A message on NETWORK_CHAN is handled by transport_listener() in the     *)
(* thread that published it, with the channel's lock held.  It, the        *)
(* callbacks and transport_allow_mqtt_connect() move the state machine     *)
(* and reschedule or cancel the work.  A step is what a thread does        *)
(* between two calls that may block: each report of the status is one.     *)
(***************************************************************************)
EXTENDS Naturals

CONSTANTS
    MaxCommands, \* bound: commands of the collar
    MaxEvents,   \* bound: events of the modem
    MaxOverlap   \* timing: commands and events that meet one callback of the helper

ASSUME TransportAssumption ==
    /\ MaxCommands \in Nat
    /\ MaxEvents \in Nat
    /\ MaxOverlap \in Nat

VARIABLES
    pc,        \* of each thread, what it does next
    channel,   \* who holds the lock of NETWORK_CHAN
    allow,     \* mqtt_client_connect
    ready,     \* mqtt_settings_initialized and mqtt_sub_topics_initialized
    radio,     \* transport_radio_connected
    status,    \* s_obj.status: is it NETWORK_CONNECTED
    current,   \* the state of the state machine: is it MQTT_CONNECTED
    lib,       \* the MQTT helper's connection
    pending,   \* connect_work is queued, or will be when its delay is over
    canceling, \* connect_work was cancelled while it ran
    topics,    \* what became of this connection's subscription
    airplane,  \* the modem's functional mode is 4
    overlap,   \* commands and events that met the callback under way
    commands,  \* commands so far
    events     \* events so far

work == <<pending, canceling>>
wishes == <<allow, ready>>
net == <<radio, status>>
counters == <<overlap, commands, events>>
vars == <<pc, channel, wishes, net, current, lib, work, topics, airplane, counters>>

Threads == {"spi", "lte", "poll", "queue"}

Init ==
    /\ pc = [t \in Threads |-> "idle"]
    /\ channel = "free"
    /\ allow = FALSE
    /\ ready = FALSE
    /\ radio = FALSE
    /\ status = FALSE
    /\ current = FALSE
    /\ lib = "closed"
    /\ pending = FALSE
    /\ canceling = FALSE
    /\ topics = "none"
    /\ airplane = FALSE
    /\ overlap = 0
    /\ commands = 0
    /\ events = 0

At(t, place) == pc[t] = place
Idle(t) == At(t, "idle")
Goto(t, place) == pc' = [pc EXCEPT ![t] = place]

-----------------------------------------------------------------------------
(* k_work_reschedule_for_queue(), K_NO_WAIT: a work that was cancelled while it
   runs is not taken. *)
RescheduleNow == pending' = ~canceling /\ UNCHANGED canceling

(* k_work_cancel_delayable() *)
Cancel == pending' = FALSE /\ canceling' = ~Idle("queue")

(* A command or an event begins. *)
Begin ==
    /\ Idle("poll") \/ overlap < MaxOverlap
    /\ overlap' = IF Idle("poll") THEN 0 ELSE overlap + 1

(* A callback begins. *)
Meets == overlap' = (IF Idle("spi") THEN 0 ELSE 1) + (IF Idle("lte") THEN 0 ELSE 1)

(* Thread t is through with its command, its event or its callback. *)
Finish(t) ==
    /\ Goto(t, "idle")
    /\ channel' = IF channel = t THEN "free" ELSE channel
    /\ overlap' = IF t = "poll" THEN 0 ELSE overlap

-----------------------------------------------------------------------------
(* Commands: nrf5340_recv_callback() *)

(* COMMAND_SET_MQTT_PARAMS and COMMAND_SET_MQTT_SUBSCRIPTIONS, both *)
SetSettings ==
    /\ Idle("spi") /\ ~ready /\ commands < MaxCommands /\ Begin
    /\ ready' = TRUE
    /\ commands' = commands + 1
    /\ UNCHANGED <<pc, channel, allow, net, current, lib, work, topics, airplane, events>>

(* transport_allow_mqtt_connect(), up to its first report of the status *)
Allow(wish) ==
    /\ Idle("spi") /\ commands < MaxCommands /\ Begin
    /\ allow' = wish
    /\ commands' = commands + 1
    /\ Goto("spi", IF wish THEN "allowed" ELSE "disconnect")
    /\ UNCHANGED <<channel, ready, net, current, lib, work, topics, airplane, events>>

Allowed ==
    /\ At("spi", "allowed")
    /\ RescheduleNow
    /\ Finish("spi")
    /\ UNCHANGED <<wishes, net, current, lib, topics, airplane, commands, events>>

(* COMMAND_SET_AIRPLANE_MODE, up to its message on NETWORK_CHAN *)
SetAirplane(on) ==
    /\ Idle("spi") /\ commands < MaxCommands /\ Begin
    /\ airplane' = on
    /\ commands' = commands + 1
    /\ Goto("spi", IF on THEN "lost" ELSE "back")
    /\ UNCHANGED <<channel, wishes, net, current, lib, work, topics, events>>

(* lte_handler(), up to its message on NETWORK_CHAN: the modem is registered in
   a network, or there is another cell or mode.  When the network is lost it
   sends no message. *)
LteEvent(what) ==
    /\ Idle("lte") /\ events < MaxEvents /\ Begin
    /\ events' = events + 1
    /\ Goto("lte", what)
    /\ UNCHANGED <<channel, wishes, net, current, lib, work, topics, airplane, commands>>

-----------------------------------------------------------------------------
(* transport_listener(), in the thread that published *)

(* ... takes down what the message says, *)
Publish(t) ==
    /\ pc[t] \in {"lost", "back", "registered"} /\ channel = "free"
    /\ channel' = t
    /\ radio' = (radio \/ At(t, "registered"))
    /\ status' = ~At(t, "lost")
    /\ Goto(t, "run")
    /\ UNCHANGED <<wishes, current, lib, work, topics, airplane, counters>>

(* ... and calls smf_run_state(): connected_run() or disconnected_run(), up to
   its report. *)
RunState(t) ==
    /\ At(t, "run")
    /\ IF current = status
       THEN Finish(t)
       ELSE Goto(t, IF current THEN "disconnect" ELSE "entered") /\ UNCHANGED <<channel, overlap>>
    /\ UNCHANGED <<wishes, net, current, lib, work, topics, airplane, commands, events>>

-----------------------------------------------------------------------------
(* Losing the connection *)

(* The connection ends. *)
Close == lib' = "closed" /\ topics' = "none"

(* mqtt_helper_disconnect(): refused unless the connection is there *)
Disconnect(t) ==
    /\ At(t, "disconnect")
    /\ IF lib = "open"
       THEN Close /\ Goto(t, "closing") /\ UNCHANGED <<channel, overlap>>
       ELSE Finish(t) /\ UNCHANGED <<lib, topics>>
    /\ UNCHANGED <<wishes, net, current, work, airplane, commands, events>>

(* The broker closes the connection, or it fails. *)
BrokerCloses ==
    /\ Idle("poll") /\ lib \in {"waiting", "open"}
    /\ Close
    /\ Meets
    /\ Goto("poll", "closing")
    /\ UNCHANGED <<channel, wishes, net, current, work, airplane, commands, events>>

(* on_mqtt_disconnect(): smf_set_state(), up to the report of disconnected_entry() *)
OnDisconnect(t) ==
    /\ At(t, "closing")
    /\ current' = FALSE
    /\ Goto(t, "entered")
    /\ UNCHANGED <<channel, wishes, net, lib, work, topics, airplane, counters>>

(* Faulty variant for a mutation run: leaves the retry to the work itself. *)
EnteredQuiet(t) ==
    /\ At(t, "entered")
    /\ UNCHANGED work
    /\ Finish(t)
    /\ UNCHANGED <<wishes, net, current, lib, topics, airplane, commands, events>>

(* The rest of disconnected_entry(), and of disconnected_run() *)
Entered(t) ==
    /\ At(t, "entered")
    /\ IF status THEN RescheduleNow ELSE UNCHANGED work
    /\ Finish(t)
    /\ UNCHANGED <<wishes, net, current, lib, topics, airplane, commands, events>>

-----------------------------------------------------------------------------
(* Gaining one *)

(* The broker accepts. *)
Connack ==
    /\ Idle("poll") /\ lib = "waiting" /\ ~airplane
    /\ lib' = "open"
    /\ Meets
    /\ Goto("poll", "accepted")
    /\ UNCHANGED <<channel, wishes, net, current, work, topics, airplane, commands, events>>

(* on_mqtt_connack(): smf_set_state(), up to the report of connected_entry() *)
OnConnack ==
    /\ At("poll", "accepted")
    /\ current' = TRUE
    /\ Goto("poll", "cancel")
    /\ UNCHANGED <<channel, wishes, net, lib, work, topics, airplane, counters>>

(* Faulty variant for a mutation run: without the subscription. *)
ConnectedEntryOnly ==
    /\ At("poll", "cancel")
    /\ Cancel
    /\ Finish("poll")
    /\ UNCHANGED <<wishes, net, current, lib, topics, airplane, commands, events>>

(* connected_entry() *)
ConnectedEntry ==
    /\ At("poll", "cancel")
    /\ Cancel
    /\ Goto("poll", "subscribe")
    /\ UNCHANGED <<channel, wishes, net, current, lib, topics, airplane, counters>>

(* subscribe(): refused without a connection; may lack memory *)
Subscribe ==
    /\ At("poll", "subscribe")
    /\ IF lib = "open" THEN topics' \in {"subscribed", "failed"} ELSE UNCHANGED topics
    /\ Finish("poll")
    /\ UNCHANGED <<wishes, net, current, lib, work, airplane, commands, events>>

-----------------------------------------------------------------------------
(* connect_work_fn() *)

StartWork ==
    /\ Idle("queue") /\ pending
    /\ pending' = FALSE
    /\ Goto("queue", "check")
    /\ UNCHANGED <<channel, wishes, net, current, lib, canceling, topics, airplane, counters>>

(* Without a network it waits for the message of one. *)
CheckRadio ==
    /\ At("queue", "check")
    /\ Goto("queue", IF radio THEN "connect" ELSE "idle")
    /\ canceling' = (canceling /\ radio)
    /\ UNCHANGED <<channel, wishes, net, current, lib, pending, topics, airplane, counters>>

(* Faulty variant for a mutation run: believes the state machine. *)
ConnectUnlessConnected ==
    /\ At("queue", "connect")
    /\ IF ready /\ allow /\ lib = "closed" /\ ~current
       THEN lib' = "opening" /\ Goto("queue", "open")
       ELSE Goto("queue", "again") /\ UNCHANGED lib
    /\ UNCHANGED <<channel, wishes, net, current, work, topics, airplane, counters>>

(* mqtt_helper_connect(): refused unless there is no connection *)
Connect ==
    /\ At("queue", "connect")
    /\ IF ready /\ allow /\ lib = "closed"
       THEN lib' = "opening" /\ Goto("queue", "open")
       ELSE Goto("queue", "again") /\ UNCHANGED lib
    /\ UNCHANGED <<channel, wishes, net, current, work, topics, airplane, counters>>

OpenSucceeds ==
    /\ At("queue", "open") /\ ~airplane
    /\ lib' = "waiting"
    /\ Goto("queue", "again")
    /\ UNCHANGED <<channel, wishes, net, current, work, topics, airplane, counters>>

OpenFails ==
    /\ At("queue", "open")
    /\ lib' = "closed"
    /\ Goto("queue", "again")
    /\ UNCHANGED <<channel, wishes, net, current, work, topics, airplane, counters>>

(* Tries again later, whatever came of it. *)
Again ==
    /\ At("queue", "again")
    /\ pending' = TRUE
    /\ canceling' = FALSE
    /\ Goto("queue", "idle")
    /\ UNCHANGED <<channel, wishes, net, current, lib, topics, airplane, counters>>

-----------------------------------------------------------------------------
SpiNext ==
    \/ SetSettings
    \/ \E wish \in BOOLEAN : Allow(wish)
    \/ Allowed
    \/ \E on \in BOOLEAN : SetAirplane(on)

LteNext == \E what \in {"registered", "back"} : LteEvent(what)

PollNext == BrokerCloses \/ Connack \/ OnConnack \/ ConnectedEntry \/ Subscribe

QueueNext == StartWork \/ CheckRadio \/ Connect \/ OpenSucceeds \/ OpenFails \/ Again

Shared(t) == Publish(t) \/ RunState(t) \/ Disconnect(t) \/ OnDisconnect(t) \/ Entered(t)

Next == SpiNext \/ LteNext \/ PollNext \/ QueueNext \/ \E t \in Threads : Shared(t)

Spec == Init /\ [][Next]_vars

(* The threads go on, and the delay of the work ends.  When the work tries to
   connect again and again it succeeds in the end, and so does the broker. *)
FairSpec ==
    /\ Spec
    /\ WF_vars(Allowed)
    /\ \A t \in Threads : WF_vars(Shared(t))
    /\ WF_vars(OnConnack \/ ConnectedEntry \/ Subscribe)
    /\ WF_vars(QueueNext)
    /\ SF_vars(OpenSucceeds)
    /\ SF_vars(Connack)

-----------------------------------------------------------------------------
(* What the variables hold. *)
TypeOK ==
    /\ pc \in [Threads -> {"idle", "allowed", "disconnect", "lost", "back", "registered", "run",
                           "closing", "entered", "accepted", "cancel", "subscribe",
                           "check", "connect", "open", "again"}]
    /\ channel \in {"free", "spi", "lte"}
    /\ {allow, ready, radio, status, current, pending, canceling, airplane} \subseteq BOOLEAN
    /\ lib \in {"closed", "opening", "waiting", "open"}
    /\ topics \in {"none", "subscribed", "failed"}
    /\ overlap \in 0..(MaxOverlap + 2)
    /\ commands \in 0..MaxCommands
    /\ events \in 0..MaxEvents

(* No command, event or callback is under way. *)
AtRest == Idle("spi") /\ Idle("lte") /\ Idle("poll")

(* connect_work runs, or will. *)
Retrying == pending \/ ~Idle("queue")

(* A connection that the collar asked for and that is not there is being tried
   again, whichever of the four threads found it missing: the helper's callback,
   the listener that closes it in airplane mode, or the work that could not open
   it.  connected_entry() cancels the work, so that nothing else would. *)
WantedIsRetried ==
    AtRest /\ allow /\ radio /\ status /\ lib = "closed" => Retrying

(* subscribe() is only called once for a connection, on the way into the state
   MQTT_CONNECTED: no order of the callbacks, the listener and a command leaves a
   connection for which it was not called. *)
OpenIsSubscribed == Idle("poll") /\ lib = "open" => topics # "none"

(* What takes part in a wish for a connection *)
Wanted == allow /\ ready /\ radio /\ ~airplane

(* Once the collar wants a connection for good and the network is there, there is
   one again and again, however often the broker closes it. *)
Reconnects == <>[]Wanted => []<>(lib = "open")
=============================================================================
