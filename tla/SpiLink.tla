------------------------------ MODULE SpiLink ------------------------------
(***************************************************************************)
(* Commands to the nRF9160 and their replies over SPI                      *)
(* (src/c_modules/modem/src/modem_spi.c, modem.c).                         *)
(*                                                                         *)
(* A caller takes a handle, which goes out with its command, and polls the *)
(* handle's entry of the table until the reply with that handle has been   *)
(* put there, or until its time is up.  Commands leave through one work    *)
(* queue; every transfer goes both ways and brings at most one message of  *)
(* the modem, which a second work queue puts into the table.  The modem    *)
(* asks for a transfer with an interrupt, answered by an empty command.    *)
(*                                                                         *)
(* A step is what one thread does between two points where it sleeps,      *)
(* waits or transfers.  Timeouts may expire at any moment.                 *)
(*                                                                         *)
(* One caller, Stopper, is in modem_power_off(); the others do what        *)
(* modem_send_mqtt(), modem_get_status() and most of modem.c do.           *)
(***************************************************************************)
EXTENDS Naturals, Sequences

CONSTANTS
    Callers,    \* threads that ask for a reply, or would
    Stopper,    \* the one that powers the modem off
    None,       \* no caller
    Garbage,    \* what memory may hold that was freed, or was never the table's
    NumHandles, \* handles are 1..NumHandles: MAX_MODEM_HANDLES - 1
    MaxQueue,   \* bound: commands in the send queue
    MaxFaults   \* bound: allocations and transfers that fail, modems that die

ASSUME SpiAssumption ==
    /\ {None, Garbage} \cap Callers = {}
    /\ None # Garbage
    /\ Stopper \in Callers
    /\ NumHandles \in Nat \ {0}
    /\ MaxQueue \in Nat
    /\ MaxFaults \in Nat

VARIABLES
    table,  \* modem_handles: is it used, whose reply its buffer holds, is that allocated
    caller, \* of each caller where it is, its handle, whose reply it got
    sendq,  \* modemSpi_send_work_q
    recvq,  \* modemSpi_recv_work_q
    modem,  \* commands the modem has and did not answer
    power,  \* modem_power_state
    ready,  \* modem_ready_for_commands
    unsure, \* handles that someone stopped waiting on, or whose command went out again
    faults  \* failures so far

vars == <<table, caller, sendq, recvq, modem, power, ready, unsure, faults>>

Handles == 1..NumHandles

(* The reply handle of a command that wants none: 255 *)
NoReply == 0

(* -EADDRNOTAVAIL, negated: not a handle, but not negative either *)
Beyond == NumHandles + 1

Command == [from : Callers \cup {None}, handle : Handles \cup {NoReply}, copy : 0..MaxFaults]

Empty == [used |-> FALSE, data |-> None, live |-> FALSE]

Idle == [place |-> "idle", handle |-> NoReply, got |-> None]

Init ==
    /\ table = [h \in Handles |-> Empty]
    /\ caller = [c \in Callers |-> Idle]
    /\ sendq = <<>>
    /\ recvq = <<>>
    /\ modem = {}
    /\ power = "on"
    /\ ready = TRUE
    /\ unsure = {}
    /\ faults = 0

Fault == faults < MaxFaults /\ faults' = faults + 1

-----------------------------------------------------------------------------
FreeHandles == {h \in Handles : ~table[h].used}

(* Faulty variant for a mutation run: the last handle is given again. *)
NextHandleAgain == IF FreeHandles = {} THEN NumHandles
                   ELSE CHOOSE h \in FreeHandles : \A g \in FreeHandles : h <= g

(* Faulty variant for a mutation run: the loop runs past the table. *)
NextHandlePastEnd == IF FreeHandles = {} THEN Beyond + 1
                     ELSE CHOOSE h \in FreeHandles : \A g \in FreeHandles : h <= g

(* get_next_handle_id() *)
NextHandle == IF FreeHandles = {} THEN Beyond
              ELSE CHOOSE h \in FreeHandles : \A g \in FreeHandles : h <= g

(* Nothing is left of the last command of c, so that its name tells commands
   apart. *)
Fresh(c) ==
    /\ \A i \in DOMAIN sendq : sendq[i].from # c
    /\ \A i \in DOMAIN recvq : recvq[i].from # c
    /\ \A m \in modem : m.from # c
    /\ \A h \in Handles : table[h].data # c

Wait(c, h) == caller' = [caller EXCEPT ![c] = [place |-> "waiting", handle |-> h, got |-> None]]

(* modem_send_command() with a reply wanted.  Without a handle nothing is sent,
   and the caller waits on what it takes for one.  When memory runs out after
   the handle was taken it stays taken; when the work cannot be queued the
   caller waits in vain. *)
Ask(c) ==
    /\ caller[c].place = "idle" /\ power = "on" /\ Fresh(c)
    /\ \/ /\ NextHandle = Beyond
          /\ Wait(c, Beyond)
          /\ UNCHANGED <<table, sendq, faults>>
       \/ /\ NextHandle # Beyond /\ Len(sendq) < MaxQueue
          /\ table' = [table EXCEPT ![NextHandle].used = TRUE]
          /\ \/ /\ sendq' = Append(sendq, [from |-> c, handle |-> NextHandle, copy |-> 0])
                /\ Wait(c, NextHandle)
                /\ UNCHANGED faults
             \/ /\ Fault
                /\ Wait(c, NextHandle) \/ UNCHANGED caller
                /\ UNCHANGED sendq
    /\ UNCHANGED <<recvq, modem, power, ready, unsure>>

(* modem_spi_recv_resp() finds a reply *)
Poll(c) ==
    /\ caller[c].place = "waiting"
    /\ \E got \in Callers \cup {Garbage} :
          /\ LET h == caller[c].handle IN
                h \in Handles => /\ table[h].data # None
                                 /\ got = table[h].data \/ (~table[h].live /\ got = Garbage)
          /\ caller' = [caller EXCEPT ![c].place = "answered", ![c].got = got]
    /\ UNCHANGED <<table, sendq, recvq, modem, power, ready, unsure, faults>>

(* modem_spi_stop_waiting_for_resp(): the buffer is freed, but the entry still
   points to it. *)
StopWaiting(h) ==
    /\ table' = [g \in Handles |-> IF g = h THEN [table[g] EXCEPT !.used = FALSE, !.live = FALSE]
                                   ELSE table[g]]
    /\ unsure' = unsure \cup ({h} \cap Handles)

(* Faulty variant for a mutation run: the entry keeps the reply. *)
FreeReplyKeeps(h) ==
    /\ table' = [g \in Handles |-> IF g = h THEN [table[g] EXCEPT !.used = FALSE] ELSE table[g]]
    /\ UNCHANGED unsure

(* Faulty variant for a mutation run: the entry points to the freed buffer. *)
FreeReplyLeavesPointer(h) ==
    /\ table' = [g \in Handles |-> IF g = h THEN [table[g] EXCEPT !.used = FALSE, !.live = FALSE]
                                   ELSE table[g]]
    /\ UNCHANGED unsure

(* modem_spi_free_reply_data() *)
FreeReply(h) ==
    /\ table' = [g \in Handles |-> IF g = h THEN Empty ELSE table[g]]
    /\ UNCHANGED unsure

(* Time is up, or the reply is too long.  Another reply may have come since
   the caller looked last. *)
GiveUp(c) ==
    /\ caller[c].place = "waiting"
    /\ StopWaiting(caller[c].handle)
    /\ caller' = [caller EXCEPT ![c] = Idle]
    /\ UNCHANGED <<sendq, recvq, modem, power, ready, faults>>

(* The caller has copied the reply, and frees it.  modem_power_off() does not:
   when the modem agreed it notes that it is off, when the modem was busy it
   stops waiting. *)
Finish(c) ==
    /\ caller[c].place = "answered"
    /\ \/ c # Stopper /\ FreeReply(caller[c].handle) /\ UNCHANGED power
       \/ c = Stopper /\ power' = "soft" /\ UNCHANGED <<table, unsure>>
       \/ c = Stopper /\ StopWaiting(caller[c].handle) /\ UNCHANGED power
    /\ caller' = [caller EXCEPT ![c] = Idle]
    /\ UNCHANGED <<sendq, recvq, modem, ready, faults>>

-----------------------------------------------------------------------------
(* spi_send_work_handler() *)

IsHardStop(m) == m.from = Stopper

(* The modem is not to be ready again before it says so *)
ReadyAfter(m) == ready' = (ready /\ ~IsHardStop(m))

(* Faulty variant for a mutation run: the handler waits for the modem. *)
DropCommandIfOff ==
    /\ \/ power = "off" /\ UNCHANGED <<ready, faults>>
       \/ power = "soft" /\ ready /\ ReadyAfter(Head(sendq)) /\ UNCHANGED faults
       \/ power = "on" /\ ready /\ Fault /\ ReadyAfter(Head(sendq))
    /\ sendq' = Tail(sendq)
    /\ UNCHANGED <<recvq, modem, unsure>>

(* Off: the command is dropped.  Not ready: the handler waits, and in the end
   drops it.  Told to go off: it drops it after a number of tries.  On: it does
   so too, or takes a command for sent that the modem was too busy to take. *)
DropCommand ==
    /\ \/ power = "off" /\ UNCHANGED <<ready, faults>>
       \/ power # "off" /\ ~ready /\ UNCHANGED <<ready, faults>>
       \/ power = "soft" /\ ready /\ ReadyAfter(Head(sendq)) /\ UNCHANGED faults
       \/ power = "on" /\ ready /\ Fault /\ ReadyAfter(Head(sendq))
    /\ sendq' = Tail(sendq)
    /\ UNCHANGED <<recvq, modem, unsure>>

(* A transfer that fails is tried again; after a hard stop only when the modem
   is ready again. *)
Refused ==
    /\ ready /\ IsHardStop(Head(sendq))
    /\ \/ power = "soft" /\ UNCHANGED faults
       \/ power = "on" /\ Fault
    /\ ready' = FALSE
    /\ UNCHANGED <<sendq, recvq, modem, unsure>>

Taken(m) == IF m.from = None THEN {} ELSE {m}

(* modem_spi_send(): the modem takes a command, and may hand over a reply *)
Transfer ==
    /\ power = "on" /\ ready
    /\ LET m == Head(sendq) IN
          /\ \/ modem' = modem \cup Taken(m) /\ UNCHANGED recvq
             \/ \E reply \in modem :
                   /\ modem' = (modem \ {reply}) \cup Taken(m)
                   /\ recvq' = Append(recvq, reply)
          /\ sendq' = Tail(sendq)
          /\ ReadyAfter(m)
    /\ UNCHANGED <<unsure, faults>>

(* The transfer went well, but there is no memory for what it brought: that is
   lost, and the command goes out again. *)
TransferAgain ==
    /\ power = "on" /\ ready
    /\ Fault
    /\ LET m == Head(sendq) IN
          /\ \E reply \in modem \cup {m} : modem' = (modem \ {reply}) \cup Taken(m)
          /\ sendq' = <<[m EXCEPT !.copy = @ + 1]>> \o Tail(sendq)
          /\ unsure' = unsure \cup ({m.handle} \cap Handles)
          /\ ReadyAfter(m)
    /\ UNCHANGED recvq

SendWork ==
    /\ sendq # <<>>
    /\ DropCommand \/ Refused \/ Transfer \/ TransferAgain
    /\ UNCHANGED <<table, caller, power>>

(* spim_recv_action_work_handler(): replies to nobody are dropped, and so are
   all when the modem is off or the mutex is held.  What the entry held before
   is not freed, and forgotten also when there is no memory for the reply. *)
RecvWork ==
    /\ recvq # <<>>
    /\ LET h == Head(recvq).handle IN
          \/ /\ power = "on" /\ table[h].used
             /\ table' = [table EXCEPT ![h].data = Head(recvq).from, ![h].live = TRUE]
             /\ UNCHANGED faults
          \/ /\ power = "on" /\ table[h].used
             /\ Fault
             /\ \/ UNCHANGED table
                \/ table' = [table EXCEPT ![h].data = None, ![h].live = FALSE]
          \/ /\ ~(power = "on" /\ table[h].used)
             /\ UNCHANGED <<table, faults>>
    /\ recvq' = Tail(recvq)
    /\ UNCHANGED <<caller, sendq, modem, power, ready, unsure>>

(* dataready_int_work_handler() *)
DataReady ==
    /\ power = "on" /\ Len(sendq) < MaxQueue
    /\ ready' = TRUE
    /\ sendq' = Append(sendq, [from |-> None, handle |-> NoReply, copy |-> 0])
    /\ UNCHANGED <<table, caller, recvq, modem, power, unsure, faults>>

-----------------------------------------------------------------------------
(* modem_alive_check_work_handler() finds the modem dead *)
DeclareDead ==
    /\ power = "on"
    /\ Fault
    /\ power' = "soft"
    /\ UNCHANGED <<table, caller, sendq, recvq, modem, ready, unsure>>

(* modem_power_on(): the supply is switched off and, after a while, on *)
PowerOn ==
    /\ \/ power = "soft" /\ power' = "off" /\ modem' = {}
       \/ power = "off" /\ power' = "on" /\ UNCHANGED modem
    /\ UNCHANGED <<table, caller, sendq, recvq, ready, unsure, faults>>

(* The modem does not answer every command *)
ModemForgets ==
    /\ \E m \in modem : modem' = modem \ {m}
    /\ UNCHANGED <<table, caller, sendq, recvq, power, ready, unsure, faults>>

Next ==
    \/ \E c \in Callers : Ask(c) \/ Poll(c) \/ GiveUp(c) \/ Finish(c)
    \/ SendWork
    \/ RecvWork
    \/ DataReady
    \/ DeclareDead
    \/ PowerOn
    \/ ModemForgets

Spec == Init /\ [][Next]_vars

(* The send queue's thread runs, and its waits are limited. *)
FairSpec == Spec /\ WF_vars(SendWork)

-----------------------------------------------------------------------------
Entry == [used : BOOLEAN, data : Callers \cup {None}, live : BOOLEAN]

CallerState == [place : {"idle", "waiting", "answered"}, handle : 0..Beyond,
                got : Callers \cup {None, Garbage}]

TypeOK ==
    /\ table \in [Handles -> Entry]
    /\ caller \in [Callers -> CallerState]
    /\ sendq \in Seq(Command)
    /\ Len(sendq) <= MaxQueue
    /\ recvq \in Seq(Command)
    /\ modem \subseteq Command
    /\ power \in {"on", "soft", "off"}
    /\ ready \in BOOLEAN
    /\ unsure \subseteq Handles
    /\ faults \in 0..MaxFaults

Owns(c, h) == caller[c].place # "idle" /\ caller[c].handle = h

(* A handle is used for one command at a time: no two callers wait on the same
   entry, and the entry of one that waits is not given away. *)
HandlesOwnedOnce ==
    \A h \in Handles, c \in Callers : Owns(c, h) =>
        /\ table[h].used
        /\ \A d \in Callers : Owns(d, h) => d = c

(* Nobody shares its handle, and the reply that a caller gets is the one to its
   own command, as long as nobody ever stopped waiting on its handle and no
   command with that handle was sent twice. *)
OwnReply ==
    /\ HandlesOwnedOnce
    /\ \A c \in Callers : caller[c].place = "answered" /\ caller[c].handle \in Handles \ unsure
                               => caller[c].got = c

(* On such a handle the entry of the table never points to a buffer that was
   freed, or that nobody waits for. *)
NoStaleBuffer == \A h \in Handles \ unsure : table[h].data # None => table[h].live /\ table[h].used

InSendQueue(c) == \E i \in DOMAIN sendq : sendq[i].from = c

(* Every command leaves the queue, be the modem off, dead or not ready. *)
CommandsLeave == \A c \in Callers : InSendQueue(c) ~> ~InSendQueue(c)
=============================================================================
