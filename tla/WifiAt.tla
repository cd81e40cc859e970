------------------------------- MODULE WifiAt -------------------------------
(***************************************************************************)
(* AT commands to the DA16200 and the lines it gives                       *)
(* (src/commercial_collar/src/wifi/src/wifi.c, wifi_spi.c, wifi_at.c).     *)
(*                                                                         *)
(* A command takes a mutex that its thread may take again, empties the     *)
(* queue of messages, sends its text, and takes messages from the queue    *)
(* until one is the answer it waits for or its time is up.  The DA gives   *)
(* answers and lines of its own accord over the same link, in one order.   *)
(* The driver allocates a buffer for each line, shows it to the callbacks  *)
(* and puts it into the queue; who takes it from there frees it.           *)
(*                                                                         *)
(* A message is a structure that is copied, with a pointer to its buffer   *)
(* and a count of references which is copied with it.                      *)
(*                                                                         *)
(* A step is what one thread does between two points where it waits or     *)
(* transfers; a time limit may run out at any of them.                     *)
(*                                                                         *)
(* Each shape of a command is here once, and of wifi_set_sleep_mode() the  *)
(* case WIFI_SLEEP_DPM_AWAKE, which asks for the sleep state only once and *)
(* stays connected to the access point.                                    *)
(***************************************************************************)
EXTENDS Integers, Sequences

CONSTANTS
    Callers,   \* threads that send commands
    Buffers,   \* what the heap of messages has room for
    None,
    MaxQueue,  \* messages in wifi_msgq: WIFI_MSG_Q_SIZE
    MaxFails,  \* failed allocations in a row before the reboot: 5
    MaxCalls,  \* bound: commands begun
    MaxOut,    \* bound: lines the DA has yet to give
    MaxEvents  \* bound: lines the DA gives unasked

ASSUME WifiAssumption ==
    /\ None \notin Callers \cup Buffers \cup {"late", "left"}
    /\ {"late", "left"} \cap Callers = {}
    /\ {MaxQueue, MaxFails, MaxCalls, MaxOut, MaxEvents} \subseteq Nat

VARIABLES
    lock,     \* DA_mutex: who has it, how many times
    out,      \* lines the DA has yet to give
    driver,   \* the line that da_resp_work_fn() is reading, and its buffer or None
    live,     \* buffers that are allocated
    content,  \* of each buffer the line in it
    queue,    \* wifi_msgq: of each message its buffer and count of references
    handling, \* buffers of the messages that handle_mqtt_cloud_to_dev_message() is to see
    lost,     \* buffers that nobody will free
    caller,   \* of each caller what it does
    fails,    \* alloc_fails_in_a_row
    calls,    \* commands begun
    events    \* lines given unasked

vars == <<lock, out, driver, live, content, queue, handling, lost, caller, fails, calls, events>>

link == <<out, driver>>
memory == <<live, content, lost>>
bounds == <<calls, events>>

(* A line, and the caller whose command it answers.  "late" answers a command
   that was given up, "left" one that had its answer. *)
Kinds == {"ok", "error", "value", "scan", "wakeup", "event", "data", "cloud"}
Unasked == {"wakeup", "event", "data", "cloud"}
Line == [kind : Kinds, of : Callers \cup {None, "late", "left"}]
Blank == [kind |-> "event", of |-> None]

(* wifi_set_sleep_mode() takes the mutex and sends several commands, those of
   wifi_wake_no_sleep() with the mutex taken once more. *)
Calls == {"mode", "set", "ask", "scan"}
WakeSteps == {"pulse", "done", "stay"}
ModeSteps == WakeSteps \cup {"check", "dpm", "change", "again", "last"}
Steps == {"idle"} \cup Calls \cup ModeSteps

Reading(b, line) == [buf |-> b, line |-> line]

Idle == [step |-> "idle", place |-> "none", saw |-> {}, took |-> None, slipped |-> FALSE]

Init ==
    /\ lock = [owner |-> None, count |-> 0]
    /\ out = <<>>
    /\ driver = Reading(None, Blank)
    /\ live = {}
    /\ content = [b \in Buffers |-> Blank]
    /\ queue = <<>>
    /\ handling = {}
    /\ lost = {}
    /\ caller = [c \in Callers |-> Idle]
    /\ fails = 0
    /\ calls = 0
    /\ events = 0

-----------------------------------------------------------------------------
(* The mutex *)

Mine(c) == lock.owner \in {None, c}

Locked(c) == [owner |-> c, count |-> lock.count + 1]

(* Faulty variant for a mutation run: the way out does not give the mutex back. *)
KeptLock(c, n) == lock

(* wifi_release_mutex() called n times: k_mutex_unlock() does nothing for a
   thread that does not have the mutex *)
Unlocked(c, n) ==
    IF lock.owner # c THEN lock
    ELSE IF lock.count <= n THEN [owner |-> None, count |-> 0]
    ELSE [lock EXCEPT !.count = @ - n]

-----------------------------------------------------------------------------
(* Messages *)

Message == [buf : Buffers, refs : 1..2]

(* The buffers that wifi_msg_free() gives back when it is called for the first n
   messages of the queue: a message frees its buffer only when its own copy of
   the count comes to 0. *)
FreedBy(n) == {queue[i].buf : i \in {i \in 1..n : queue[i].refs = 1}}

(* What a reader finds in a buffer that was freed: what it held, or not *)
Reads(b) == IF b \in live THEN {content[b]} ELSE {content[b], Blank}

Relabelled(c, line, label) == IF line.of = c THEN [line EXCEPT !.of = label] ELSE line

(* c waits no longer: its answers that are still to come are told from those of
   its next command. *)
Forget(c, label) ==
    /\ out' = [i \in DOMAIN out |-> Relabelled(c, out[i], label)]
    /\ driver' = [driver EXCEPT !.line = Relabelled(c, @, label)]
    /\ content' = [b \in Buffers |-> Relabelled(c, content[b], label)]

-----------------------------------------------------------------------------
(* Callers *)

(* What follows a command of wifi_set_sleep_mode(WIFI_SLEEP_DPM_AWAKE), and how
   often the mutex is taken (1) or given back (-1, -2) in between.  When its last
   command fails wifi_wake_no_sleep() gives the mutex back twice.  A DA that was
   not woken, or does not tell its mode, counts as being in the right one. *)
After(step, good) ==
    CASE step = "check"  -> {<<"again", 0>>, <<"dpm", 0>>, <<"pulse", 1>>}
      [] step = "pulse"  -> {<<"dpm", -1>>, <<"done", 0>>}
      [] step = "done"   -> IF good THEN {<<"stay", 0>>} ELSE {<<"again", -1>>}
      [] step = "stay"   -> IF good THEN {<<"dpm", -1>>} ELSE {<<"again", -2>>}
      [] step = "dpm"    -> {<<"again", 0>>} \cup IF good THEN {<<"change", 0>>} ELSE {}
      [] step = "change" -> IF good THEN {<<"again", 0>>} ELSE {<<"last", 0>>}
      [] step = "again"  -> {<<"last", 0>>, <<"idle", -1>>}
      [] step = "last"   -> {<<"idle", -1>>}
      [] OTHER           -> {<<"idle", 0>>}

(* The command of c is over, for which the mutex was taken held times. *)
GoOn(c, good, held, took) ==
    \E next \in After(caller[c].step, good) :
        /\ lock' = IF next[2] = 1
                   THEN [owner |-> c, count |-> Unlocked(c, held).count + 1]
                   ELSE Unlocked(c, held - next[2])
        /\ caller' = [caller EXCEPT ![c] =
               [Idle EXCEPT !.step = next[1],
                            !.place = IF next[1] = "idle" THEN "none" ELSE "lock",
                            !.took = took,
                            !.slipped = next[1] # "idle" /\ (caller[c].slipped \/ next[2] = -2)]]

Begin(c) ==
    /\ caller[c].step = "idle" /\ calls < MaxCalls
    /\ calls' = calls + 1
    /\ \E call \in Calls :
           caller' = [caller EXCEPT ![c] = [Idle EXCEPT !.step = call, !.place = "lock"]]
    /\ UNCHANGED <<lock, link, memory, queue, handling, fails, events>>

(* wifi_get_mutex(), and wifi_flush_msgs() before a command *)
TakeMutex(c) ==
    /\ caller[c].place = "lock" /\ Mine(c)
    /\ lock' = Locked(c)
    /\ IF caller[c].step = "mode"
       THEN /\ caller' = [caller EXCEPT ![c].step = "check"]
            /\ UNCHANGED <<queue, live>>
       ELSE /\ caller' = [caller EXCEPT ![c].place = "send"]
            /\ queue' = <<>>
            /\ live' = live \ FreedBy(Len(queue))
    /\ UNCHANGED <<link, content, handling, lost, fails, bounds>>

(* The mutex is not free in time, or da_state says that the DA is off or sleeps. *)
GiveUp(c) ==
    /\ caller[c].place = "lock"
    /\ GoOn(c, FALSE, 0, None)
    /\ UNCHANGED <<link, memory, queue, handling, fails, bounds>>

(* What a command waits for *)
Wants(step) ==
    CASE step \in {"ask", "dpm"} -> {"value", "ok"}
      [] step = "scan"  -> {"scan", "ok"}
      [] step = "pulse" -> {"wakeup"}
      [] OTHER -> {"ok"}

Parts(answer) == {answer[i] : i \in DOMAIN answer}

(* What the DA may make of a command, or of the pulses on its wake-up line, which
   are two: it may be asleep, answer with an error, or answer, with the parts of
   a scan's answer in any order. *)
Answers(step) ==
    {<<>>} \cup
    {answer \in {<<"ok">>, <<"value", "ok">>, <<"ok", "scan">>, <<"scan", "ok">>,
                 <<"wakeup">>, <<"wakeup", "wakeup">>} : Parts(answer) = Wants(step)} \cup
    {answer \in {<<"error">>} : step # "pulse"}

Send(c) ==
    /\ caller[c].place = "send"
    /\ caller' = [caller EXCEPT ![c].place = "wait"]
    /\ \E answer \in Answers(caller[c].step) :
           /\ Len(out) + Len(answer) <= MaxOut
           /\ out' = out \o [i \in DOMAIN answer |-> [kind |-> answer[i], of |->
                                 IF answer[i] = "wakeup" THEN None ELSE c]]
    /\ UNCHANGED <<lock, driver, memory, queue, handling, fails, bounds>>

(* The transfer failed, or the time is up. *)
Fail(c) ==
    /\ caller[c].place \in {"send", "wait"}
    /\ GoOn(c, FALSE, 1, None)
    /\ Forget(c, "late")
    /\ UNCHANGED <<live, queue, handling, lost, fails, bounds>>

(* Faulty variant for a mutation run: the value is enough. *)
EndsAtValue(step, saw, kind) == "value" \in saw \/ saw = Wants(step)

(* The answer is complete: wifi_get_dpm_state() and wifi_get_mqtt_state() go on
   to the OK behind the value, the list of a scan and its OK come in any order. *)
Ends(step, saw, kind) == saw = Wants(step) /\ (step \in {"ask", "dpm"} => kind = "ok")

(* One turn of wifi_wait_for(), or of the loop of wifi_refresh_ssid_list(), which
   does not free the messages it has no use for *)
Receive(c) ==
    /\ caller[c].place = "wait" /\ queue # <<>>
    /\ queue' = Tail(queue)
    /\ \E line \in Reads(Head(queue).buf) :
           LET step == caller[c].step
               wanted == line.kind \in Wants(step)
               refused == line.kind = "error" /\ step # "pulse"
               saw == caller[c].saw \cup (Wants(step) \cap {line.kind})
               took == IF caller[c].took = "late" /\ line.of = c THEN "late" ELSE line.of
               drops == step = "scan" /\ ~wanted /\ ~refused
           IN  /\ live' = live \ IF drops THEN {} ELSE FreedBy(1)
               /\ lost' = lost \cup IF drops THEN FreedBy(1) ELSE {}
               /\ IF refused \/ (wanted /\ Ends(step, saw, line.kind))
                  THEN /\ GoOn(c, ~refused, 1, took)
                       /\ Forget(c, IF took = "late" THEN "late" ELSE "left")
                  ELSE /\ caller' = [caller EXCEPT
                              ![c].saw = saw, ![c].took = IF wanted THEN took ELSE @]
                       /\ UNCHANGED <<lock, link, content>>
    /\ UNCHANGED <<handling, fails, bounds>>

-----------------------------------------------------------------------------
(* The DA and the driver *)

(* An event, data of a download, a message from the cloud, a DA that wakes up *)
Emit ==
    /\ events < MaxEvents /\ Len(out) < MaxOut
    /\ events' = events + 1
    /\ \E kind \in Unasked : out' = Append(out, [kind |-> kind, of |-> None])
    /\ UNCHANGED <<lock, driver, memory, queue, handling, caller, fails, calls>>

(* The heap's room after the n oldest messages of the queue were freed *)
Room(n) == Buffers \ (live \ FreedBy(n))

(* da_resp_work_fn() up to the transfer of the line: wifi_msg_alloc() frees the
   messages at the head of the queue until there is room, as long as they are
   old.  Without room the line is lost. *)
ReadLine ==
    /\ driver.buf = None /\ out # <<>>
    /\ out' = Tail(out)
    /\ \E n \in 0..Len(queue) :
           /\ \A m \in 0..(n - 1) : Room(m) = {}
           /\ queue' = SubSeq(queue, n + 1, Len(queue))
           /\ \/ \E b \in Room(n) :
                     /\ driver' = Reading(b, Head(out))
                     /\ live' = (live \ FreedBy(n)) \cup {b}
                     /\ content' = [content EXCEPT ![b] = Blank]
                     /\ fails' = 0
              \/ /\ Room(n) = {} /\ fails < MaxFails
                 /\ fails' = fails + 1
                 /\ live' = live \ FreedBy(n)
                 /\ UNCHANGED <<driver, content>>
    /\ UNCHANGED <<lock, handling, lost, caller, bounds>>

(* Too many failures in a row: pmic_reboot() *)
Reboot ==
    /\ driver.buf = None /\ out # <<>> /\ Room(0) = {} /\ fails = MaxFails
    /\ lock' = [owner |-> None, count |-> 0]
    /\ out' = <<>> /\ driver' = Reading(None, Blank)
    /\ live' = {} /\ content' = [b \in Buffers |-> Blank]
    /\ queue' = <<>> /\ handling' = {} /\ lost' = {}
    /\ caller' = [c \in Callers |-> Idle]
    /\ fails' = 0
    /\ UNCHANGED bounds

(* Faulty variant for a mutation run: nobody looks whether there is room. *)
PutAlways(refs) ==
    /\ queue' = Append(queue, [buf |-> driver.buf, refs |-> refs])
    /\ live' = live

(* The end of wifi_notify_cbs(), and wifi_msg_free() when the queue is full *)
Put(refs) ==
    IF Len(queue) < MaxQueue
    THEN /\ queue' = Append(queue, [buf |-> driver.buf, refs |-> refs])
         /\ live' = live
    ELSE /\ queue' = queue
         /\ live' = live \ IF refs = 1 THEN {driver.buf} ELSE {}

(* Faulty variant for a mutation run: no reference is counted for the copy. *)
UncountedCopy == Put(1)

(* net_handle_DA_MQTT_Msg(): the copy of the message has the count from before
   it was raised. *)
CountedCopy == Put(2)

(* The line is there.  A callback frees the data of a download at once; a
   message from the cloud is copied for the communication manager's work queue,
   unless it is bad or memory runs out; and the copy is never freed when
   comm_mgr_listener() finds no memory.  A failing transfer frees the buffer. *)
Deliver ==
    /\ driver.buf # None
    /\ driver' = Reading(None, Blank)
    /\ \/ /\ content' = [content EXCEPT ![driver.buf] = driver.line]
          /\ \/ /\ driver.line.kind = "data"
                /\ live' = live \ {driver.buf}
                /\ UNCHANGED <<queue, handling, lost>>
             \/ /\ driver.line.kind # "data"
                /\ Put(1)
                /\ UNCHANGED <<handling, lost>>
             \/ /\ driver.line.kind = "cloud"
                /\ CountedCopy
                /\ \/ handling' = handling \cup {driver.buf} /\ UNCHANGED lost
                   \/ lost' = lost \cup {driver.buf} /\ UNCHANGED handling
       \/ /\ live' = live \ {driver.buf}
          /\ UNCHANGED <<content, queue, handling, lost>>
    /\ UNCHANGED <<lock, out, caller, fails, bounds>>

(* handle_mqtt_cloud_to_dev_message() frees its copy, whose count is 1. *)
Handle ==
    /\ \E b \in handling : handling' = handling \ {b} /\ live' = live \ {b}
    /\ UNCHANGED <<lock, link, content, queue, lost, caller, fails, bounds>>

Next ==
    \/ \E c \in Callers :
           Begin(c) \/ TakeMutex(c) \/ GiveUp(c) \/ Send(c) \/ Fail(c) \/ Receive(c)
    \/ Emit \/ ReadLine \/ Deliver \/ Handle \/ Reboot

Spec == Init /\ [][Next]_vars

-----------------------------------------------------------------------------
(* Every variable has its type; the queue holds no more than it has room for. *)
TypeOK ==
    /\ lock \in [owner : Callers \cup {None}, count : Nat]
    /\ out \in Seq(Line)
    /\ driver \in [buf : Buffers \cup {None}, line : Line]
    /\ {live, handling, lost} \subseteq SUBSET Buffers
    /\ content \in [Buffers -> Line]
    /\ queue \in Seq(Message) /\ Len(queue) <= MaxQueue
    /\ caller \in [Callers -> [step : Steps, place : {"none", "lock", "send", "wait"},
                               saw : SUBSET Kinds, took : Callers \cup {None, "late", "left"},
                               slipped : BOOLEAN]]
    /\ fails \in 0..MaxFails /\ calls \in 0..MaxCalls /\ events \in 0..MaxEvents

DriverHas == {driver.buf} \ {None}

QueueHas == FreedBy(Len(queue))

(* An allocated buffer has exactly one that will free it - the driver, a message
   in the queue, the handler of the cloud's messages - or it is known to be lost,
   and none of them has a buffer that was freed: no buffer is freed twice, which
   would free the next one's line under its reader.  The count of references does
   not see to it: it is copied with the message, and the copies are counted down
   one by one (wifi.c:513, net_mgr.c:1102). *)
OneOwner ==
    /\ live = DriverHas \cup QueueHas \cup handling \cup lost
    /\ DriverHas \cap (QueueHas \cup handling \cup lost) = {}
    /\ QueueHas \cap (handling \cup lost) = {}
    /\ handling \cap lost = {}
    /\ \A i, j \in DOMAIN queue :
           queue[i].refs = 1 /\ queue[j].refs = 1 /\ queue[i].buf = queue[j].buf => i = j

(* What a command takes for its answer is its own, or comes too late for a
   command that was given up: never what another thread waits for, and never the
   rest of an answer of which a command took only a part (wifi_at.c:178). *)
OwnAnswer == \A c \in Callers : caller[c].took \in {None, c, "late"}

(* How often c has taken the mutex and is still to give it back *)
Depth(c) ==
    (IF caller[c].step \in ModeSteps /\ ~caller[c].slipped THEN 1 ELSE 0)
    + (IF caller[c].step \in WakeSteps THEN 1 ELSE 0)
    + (IF caller[c].place \in {"send", "wait"} THEN 1 ELSE 0)

(* Every way out of the nested functions gives the mutex back as often as they
   took it - all but the one through wifi_wake_no_sleep() that does so once too
   often - and no thread that is not in one of them has it. *)
LockIsBalanced ==
    \A c \in Callers : Depth(c) = IF lock.owner = c THEN lock.count ELSE 0
=============================================================================
