------------------------- MODULE LteTransport_proofs -------------------------
(***************************************************************************)
(* Safety of the nRF9160's MQTT connection, for any number of commands and *)
(* events.  What holds whatever overlaps (Sound) comes first, then what    *)
(* needs that no command begins in a callback (MaxOverlap = 0).            *)
(***************************************************************************)
EXTENDS LteTransport, TLAPS

SpiPlaces == {"idle", "allowed", "disconnect", "lost", "back", "run", "closing", "entered"}
LtePlaces == {"idle", "back", "registered", "run", "entered"}
PollPlaces == {"idle", "closing", "entered", "accepted", "cancel", "subscribe"}
QueuePlaces == {"idle", "check", "connect", "open", "again"}

(* Where the threads can be *)
Places ==
    /\ pc \in [Threads -> SpiPlaces \cup LtePlaces \cup PollPlaces \cup QueuePlaces]
    /\ pc["spi"] \in SpiPlaces
    /\ pc["lte"] \in LtePlaces
    /\ pc["poll"] \in PollPlaces
    /\ pc["queue"] \in QueuePlaces

(* What else the variables hold *)
Flags ==
    /\ allow \in BOOLEAN
    /\ ready \in BOOLEAN
    /\ radio \in BOOLEAN
    /\ status \in BOOLEAN
    /\ current \in BOOLEAN
    /\ pending \in BOOLEAN
    /\ canceling \in BOOLEAN
    /\ airplane \in BOOLEAN

Kinds ==
    /\ channel \in {"free", "spi", "lte"}
    /\ lib \in {"closed", "opening", "waiting", "open"}
    /\ topics \in {"none", "subscribed", "failed"}

Counts ==
    /\ overlap \in 0..(MaxOverlap + 2)
    /\ commands \in 0..MaxCommands
    /\ events \in 0..MaxEvents

Accepting == pc["poll"] \in {"accepted", "cancel", "subscribe"}

(* Only the callback that accepts a connection is still to subscribe it. *)
SubscribesFirst == lib = "open" /\ topics = "none" => Accepting

(* The listener runs with the lock, and what it found is not overtaken by another
   message. *)
ListenerIsAlone ==
    /\ pc["spi"] = "lost" => airplane
    /\ pc["spi"] = "run" => channel = "spi" /\ (status \/ airplane)
    /\ pc["lte"] = "run" => channel = "lte" /\ status

(* The collar's thread disconnects because it was told to. *)
DisconnectIsWanted == pc["spi"] = "disconnect" => ~allow \/ airplane

(* A connection is accepted neither in airplane mode nor, once it is closed
   again, for a collar that wants one. *)
AcceptIsCurrent == Accepting => ~airplane /\ (lib = "open" \/ ~allow)

(* Nothing is cancelled but a work that runs. *)
CancelledRuns == canceling => pc["queue"] # "idle"

(* Only connect_work opens a connection. *)
OpeningIsOurs == pc["queue"] = "open" <=> lib = "opening"

(* Before the first network there is no connection. *)
NoRadioNoConnection ==
    ~radio => /\ ~current /\ lib = "closed"
              /\ pc["poll"] = "idle" /\ pc["queue"] \in {"idle", "check"}

Closing == "closing" \in {pc["spi"], pc["poll"]}
Entering == "entered" \in {pc["spi"], pc["lte"], pc["poll"]}
Running == "run" \in {pc["spi"], pc["lte"]}

(* A state machine that still believes in a closed connection does no harm while
   the work retries. *)
StaleIsRetried ==
    allow /\ radio /\ current /\ lib = "closed" => Retrying \/ pc["spi"] = "allowed" \/ Closing

(* WantedIsRetried with the threads under way: one of them is about to retry. *)
SomeoneRetries ==
    allow /\ radio /\ status /\ lib = "closed" =>
        Retrying \/ pc["spi"] = "allowed" \/ Closing \/ Entering \/ (Running /\ ~current)

Types == Places /\ Flags /\ Kinds /\ Counts

(* What holds however commands and callbacks overlap. *)
Sound ==
    /\ Types
    /\ SubscribesFirst
    /\ ListenerIsAlone
    /\ DisconnectIsWanted
    /\ CancelledRuns
    /\ OpeningIsOurs
    /\ NoRadioNoConnection

(* What a command inside a callback may break *)
Inv ==
    /\ Sound
    /\ AcceptIsCurrent
    /\ StaleIsRetried
    /\ SomeoneRetries
-----------------------------------------------------------------------------
(* The invariant holds at the start. *)
LEMMA InitInv ==
    Init => Inv
<1> SUFFICES ASSUME Init PROVE Inv
  OBVIOUS
<1>1. Places
  BY DEF Init, Places, Threads, SpiPlaces, LtePlaces, PollPlaces, QueuePlaces
<1>2. Flags
  BY DEF Init, Flags
<1>3. Kinds
  BY DEF Init, Kinds
<1>4. Counts
  BY TransportAssumption DEF Init, Counts, TransportAssumption
<1>5. SubscribesFirst /\ ListenerIsAlone /\ DisconnectIsWanted /\ AcceptIsCurrent
  BY DEF Init, Threads, SubscribesFirst, ListenerIsAlone, DisconnectIsWanted, AcceptIsCurrent,
    Accepting
<1>6. CancelledRuns /\ OpeningIsOurs /\ NoRadioNoConnection /\ StaleIsRetried /\ SomeoneRetries
  BY DEF Init, Threads, CancelledRuns, OpeningIsOurs, NoRadioNoConnection, StaleIsRetried,
    SomeoneRetries
<1>7. QED
  BY <1>1, <1>2, <1>3, <1>4, <1>5, <1>6 DEF Inv, Sound, Types

(* SetSettings keeps what holds whatever overlaps. *)
LEMMA SetSettingsSound ==
    ASSUME Sound,
           SetSettings
    PROVE  Sound'
<1> USE DEF SetSettings, Begin, Idle, At, work, net
<1>0. Types /\ SubscribesFirst /\ ListenerIsAlone /\ DisconnectIsWanted
      /\ CancelledRuns /\ OpeningIsOurs /\ NoRadioNoConnection
  BY DEF Sound
<1>p. Places /\ Flags /\ Kinds /\ Counts
  BY <1>0 DEF Types
<1>1. Places'
  BY <1>0, <1>p DEF Places, ListenerIsAlone, Flags, Threads, SpiPlaces, LtePlaces, PollPlaces,
    QueuePlaces
<1>2. Flags'
  BY <1>0, <1>p DEF Flags
<1>3. Kinds'
  BY <1>0, <1>p DEF Kinds, Places, Threads, SpiPlaces, LtePlaces, PollPlaces, QueuePlaces
<1>4. Counts'
  BY <1>0, <1>p, TransportAssumption DEF Counts, TransportAssumption, Places, Threads,
    SpiPlaces, LtePlaces, PollPlaces, QueuePlaces
<1>5. SubscribesFirst'
  BY <1>0, <1>p DEF SubscribesFirst, Accepting, Places, Threads, SpiPlaces, LtePlaces,
    PollPlaces, QueuePlaces
<1>6. ListenerIsAlone'
  BY <1>0, <1>p DEF ListenerIsAlone, Flags, Kinds, Places, Threads, SpiPlaces, LtePlaces,
    PollPlaces, QueuePlaces
<1>7. DisconnectIsWanted'
  BY <1>0, <1>p DEF DisconnectIsWanted, ListenerIsAlone, Flags, Places, Threads, SpiPlaces,
    LtePlaces, PollPlaces, QueuePlaces
<1>8. CancelledRuns'
  BY <1>0, <1>p DEF CancelledRuns, Flags, Places, Threads, SpiPlaces, LtePlaces, PollPlaces,
    QueuePlaces
<1>9. OpeningIsOurs'
  BY <1>0, <1>p DEF OpeningIsOurs, Kinds, Places, Threads, SpiPlaces, LtePlaces, PollPlaces,
    QueuePlaces
<1>10. NoRadioNoConnection'
  BY <1>0, <1>p DEF NoRadioNoConnection, Flags, Kinds, Places, Threads, SpiPlaces, LtePlaces,
    PollPlaces, QueuePlaces
<1>11. QED
  BY <1>1, <1>2, <1>3, <1>4, <1>5, <1>6, <1>7, <1>8, <1>9, <1>10 DEF Sound, Types

(* Unless a command begins inside a callback, SetSettings keeps the rest. *)
LEMMA SetSettingsKeeps ==
    ASSUME Inv, MaxOverlap = 0,
           SetSettings
    PROVE  Inv'
<1> USE DEF SetSettings, Begin, Idle, At, work, net
<1>0. Types /\ SubscribesFirst /\ ListenerIsAlone /\ DisconnectIsWanted /\ AcceptIsCurrent
      /\ CancelledRuns /\ OpeningIsOurs /\ NoRadioNoConnection /\ StaleIsRetried /\
        SomeoneRetries
  BY DEF Inv, Sound
<1>p. Places /\ Flags /\ Kinds /\ Counts
  BY <1>0 DEF Types
<1>1. AcceptIsCurrent'
  BY <1>0, <1>p DEF AcceptIsCurrent, OpeningIsOurs, DisconnectIsWanted, Counts, Flags, Kinds,
    Accepting, Places, Threads, SpiPlaces, LtePlaces, PollPlaces, QueuePlaces
<1>2. StaleIsRetried'
  BY <1>0, <1>p DEF StaleIsRetried, AcceptIsCurrent, CancelledRuns, NoRadioNoConnection,
    Flags, Kinds, Accepting, Closing, Retrying, Places, Threads, SpiPlaces, LtePlaces,
    PollPlaces, QueuePlaces
<1>3. SomeoneRetries'
  BY <1>0, <1>p DEF SomeoneRetries, StaleIsRetried, AcceptIsCurrent, CancelledRuns,
    NoRadioNoConnection, ListenerIsAlone, Flags, Kinds, Accepting, Closing, Entering, Running,
    Retrying, Places, Threads, SpiPlaces, LtePlaces, PollPlaces, QueuePlaces
<1>4. Sound'
  BY SetSettingsSound DEF Inv
<1>5. QED
  BY <1>1, <1>2, <1>3, <1>4 DEF Inv

(* Allow keeps what holds whatever overlaps. *)
LEMMA AllowSound ==
    ASSUME Sound, NEW wish \in BOOLEAN,
           Allow(wish)
    PROVE  Sound'
<1> USE DEF Allow, Begin, Goto, Idle, At, work, net
<1>0. Types /\ SubscribesFirst /\ ListenerIsAlone /\ DisconnectIsWanted
      /\ CancelledRuns /\ OpeningIsOurs /\ NoRadioNoConnection
  BY DEF Sound
<1>p. Places /\ Flags /\ Kinds /\ Counts
  BY <1>0 DEF Types
<1>1. Places'
  BY <1>0, <1>p DEF Places, ListenerIsAlone, Flags, Threads, SpiPlaces, LtePlaces, PollPlaces,
    QueuePlaces
<1>2. Flags'
  BY <1>0, <1>p DEF Flags
<1>3. Kinds'
  BY <1>0, <1>p DEF Kinds, Places, Threads, SpiPlaces, LtePlaces, PollPlaces, QueuePlaces
<1>4. Counts'
  BY <1>0, <1>p, TransportAssumption DEF Counts, TransportAssumption, Places, Threads,
    SpiPlaces, LtePlaces, PollPlaces, QueuePlaces
<1>5. SubscribesFirst'
  BY <1>0, <1>p DEF SubscribesFirst, Accepting, Places, Threads, SpiPlaces, LtePlaces,
    PollPlaces, QueuePlaces
<1>6. ListenerIsAlone'
  BY <1>0, <1>p DEF ListenerIsAlone, Flags, Kinds, Places, Threads, SpiPlaces, LtePlaces,
    PollPlaces, QueuePlaces
<1>7. DisconnectIsWanted'
  BY <1>0, <1>p DEF DisconnectIsWanted, ListenerIsAlone, Flags, Places, Threads, SpiPlaces,
    LtePlaces, PollPlaces, QueuePlaces
<1>8. CancelledRuns'
  BY <1>0, <1>p DEF CancelledRuns, Flags, Places, Threads, SpiPlaces, LtePlaces, PollPlaces,
    QueuePlaces
<1>9. OpeningIsOurs'
  BY <1>0, <1>p DEF OpeningIsOurs, Kinds, Places, Threads, SpiPlaces, LtePlaces, PollPlaces,
    QueuePlaces
<1>10. NoRadioNoConnection'
  BY <1>0, <1>p DEF NoRadioNoConnection, Flags, Kinds, Places, Threads, SpiPlaces, LtePlaces,
    PollPlaces, QueuePlaces
<1>11. QED
  BY <1>1, <1>2, <1>3, <1>4, <1>5, <1>6, <1>7, <1>8, <1>9, <1>10 DEF Sound, Types

(* Unless a command begins inside a callback, Allow keeps the rest. *)
LEMMA AllowKeeps ==
    ASSUME Inv, MaxOverlap = 0, NEW wish \in BOOLEAN,
           Allow(wish)
    PROVE  Inv'
<1> USE DEF Allow, Begin, Goto, Idle, At, work, net
<1>0. Types /\ SubscribesFirst /\ ListenerIsAlone /\ DisconnectIsWanted /\ AcceptIsCurrent
      /\ CancelledRuns /\ OpeningIsOurs /\ NoRadioNoConnection /\ StaleIsRetried /\
        SomeoneRetries
  BY DEF Inv, Sound
<1>p. Places /\ Flags /\ Kinds /\ Counts
  BY <1>0 DEF Types
<1>1. AcceptIsCurrent'
  BY <1>0, <1>p DEF AcceptIsCurrent, OpeningIsOurs, DisconnectIsWanted, Counts, Flags, Kinds,
    Accepting, Places, Threads, SpiPlaces, LtePlaces, PollPlaces, QueuePlaces
<1>2. StaleIsRetried'
  BY <1>0, <1>p DEF StaleIsRetried, AcceptIsCurrent, CancelledRuns, NoRadioNoConnection,
    Flags, Kinds, Accepting, Closing, Retrying, Places, Threads, SpiPlaces, LtePlaces,
    PollPlaces, QueuePlaces
<1>3. SomeoneRetries'
  BY <1>0, <1>p DEF SomeoneRetries, StaleIsRetried, AcceptIsCurrent, CancelledRuns,
    NoRadioNoConnection, ListenerIsAlone, Flags, Kinds, Accepting, Closing, Entering, Running,
    Retrying, Places, Threads, SpiPlaces, LtePlaces, PollPlaces, QueuePlaces
<1>4. Sound'
  BY AllowSound DEF Inv
<1>5. QED
  BY <1>1, <1>2, <1>3, <1>4 DEF Inv

(* Allowed keeps what holds whatever overlaps. *)
LEMMA AllowedSound ==
    ASSUME Sound,
           Allowed
    PROVE  Sound'
<1> USE DEF Allowed, Finish, At, RescheduleNow, Goto, wishes, net
<1>0. Types /\ SubscribesFirst /\ ListenerIsAlone /\ DisconnectIsWanted
      /\ CancelledRuns /\ OpeningIsOurs /\ NoRadioNoConnection
  BY DEF Sound
<1>p. Places /\ Flags /\ Kinds /\ Counts
  BY <1>0 DEF Types
<1>1. Places'
  BY <1>0, <1>p DEF Places, ListenerIsAlone, Flags, Threads, SpiPlaces, LtePlaces, PollPlaces,
    QueuePlaces
<1>2. Flags'
  BY <1>0, <1>p DEF Flags
<1>3. Kinds'
  BY <1>0, <1>p DEF Kinds, Places, Threads, SpiPlaces, LtePlaces, PollPlaces, QueuePlaces
<1>4. Counts'
  BY <1>0, <1>p, TransportAssumption DEF Counts, TransportAssumption, Places, Threads,
    SpiPlaces, LtePlaces, PollPlaces, QueuePlaces
<1>5. SubscribesFirst'
  BY <1>0, <1>p DEF SubscribesFirst, Accepting, Places, Threads, SpiPlaces, LtePlaces,
    PollPlaces, QueuePlaces
<1>6. ListenerIsAlone'
  BY <1>0, <1>p DEF ListenerIsAlone, Flags, Kinds, Places, Threads, SpiPlaces, LtePlaces,
    PollPlaces, QueuePlaces
<1>7. DisconnectIsWanted'
  BY <1>0, <1>p DEF DisconnectIsWanted, ListenerIsAlone, Flags, Places, Threads, SpiPlaces,
    LtePlaces, PollPlaces, QueuePlaces
<1>8. CancelledRuns'
  BY <1>0, <1>p DEF CancelledRuns, Flags, Places, Threads, SpiPlaces, LtePlaces, PollPlaces,
    QueuePlaces
<1>9. OpeningIsOurs'
  BY <1>0, <1>p DEF OpeningIsOurs, Kinds, Places, Threads, SpiPlaces, LtePlaces, PollPlaces,
    QueuePlaces
<1>10. NoRadioNoConnection'
  BY <1>0, <1>p DEF NoRadioNoConnection, Flags, Kinds, Places, Threads, SpiPlaces, LtePlaces,
    PollPlaces, QueuePlaces
<1>11. QED
  BY <1>1, <1>2, <1>3, <1>4, <1>5, <1>6, <1>7, <1>8, <1>9, <1>10 DEF Sound, Types

(* Unless a command begins inside a callback, Allowed keeps the rest. *)
LEMMA AllowedKeeps ==
    ASSUME Inv, MaxOverlap = 0,
           Allowed
    PROVE  Inv'
<1> USE DEF Allowed, Finish, At, RescheduleNow, Goto, wishes, net
<1>0. Types /\ SubscribesFirst /\ ListenerIsAlone /\ DisconnectIsWanted /\ AcceptIsCurrent
      /\ CancelledRuns /\ OpeningIsOurs /\ NoRadioNoConnection /\ StaleIsRetried /\
        SomeoneRetries
  BY DEF Inv, Sound
<1>p. Places /\ Flags /\ Kinds /\ Counts
  BY <1>0 DEF Types
<1>1. AcceptIsCurrent'
  BY <1>0, <1>p DEF AcceptIsCurrent, OpeningIsOurs, DisconnectIsWanted, Counts, Flags, Kinds,
    Accepting, Places, Threads, SpiPlaces, LtePlaces, PollPlaces, QueuePlaces
<1>2. StaleIsRetried'
  BY <1>0, <1>p DEF StaleIsRetried, AcceptIsCurrent, CancelledRuns, NoRadioNoConnection,
    Flags, Kinds, Accepting, Closing, Retrying, Idle, Places, Threads, SpiPlaces, LtePlaces,
    PollPlaces, QueuePlaces
<1>3. SomeoneRetries'
  BY <1>0, <1>p DEF SomeoneRetries, StaleIsRetried, AcceptIsCurrent, CancelledRuns,
    NoRadioNoConnection, ListenerIsAlone, Flags, Kinds, Accepting, Closing, Entering, Running,
    Retrying, Idle, Places, Threads, SpiPlaces, LtePlaces, PollPlaces, QueuePlaces
<1>4. Sound'
  BY AllowedSound DEF Inv
<1>5. QED
  BY <1>1, <1>2, <1>3, <1>4 DEF Inv

(* SetAirplane keeps what holds whatever overlaps. *)
LEMMA SetAirplaneSound ==
    ASSUME Sound, NEW on \in BOOLEAN,
           SetAirplane(on)
    PROVE  Sound'
<1> USE DEF SetAirplane, Begin, Goto, Idle, At, work, wishes, net
<1>0. Types /\ SubscribesFirst /\ ListenerIsAlone /\ DisconnectIsWanted
      /\ CancelledRuns /\ OpeningIsOurs /\ NoRadioNoConnection
  BY DEF Sound
<1>p. Places /\ Flags /\ Kinds /\ Counts
  BY <1>0 DEF Types
<1>1. Places'
  BY <1>0, <1>p DEF Places, ListenerIsAlone, Flags, Threads, SpiPlaces, LtePlaces, PollPlaces,
    QueuePlaces
<1>2. Flags'
  BY <1>0, <1>p DEF Flags
<1>3. Kinds'
  BY <1>0, <1>p DEF Kinds, Places, Threads, SpiPlaces, LtePlaces, PollPlaces, QueuePlaces
<1>4. Counts'
  BY <1>0, <1>p, TransportAssumption DEF Counts, TransportAssumption, Places, Threads,
    SpiPlaces, LtePlaces, PollPlaces, QueuePlaces
<1>5. SubscribesFirst'
  BY <1>0, <1>p DEF SubscribesFirst, Accepting, Places, Threads, SpiPlaces, LtePlaces,
    PollPlaces, QueuePlaces
<1>6. ListenerIsAlone'
  BY <1>0, <1>p DEF ListenerIsAlone, Flags, Kinds, Places, Threads, SpiPlaces, LtePlaces,
    PollPlaces, QueuePlaces
<1>7. DisconnectIsWanted'
  BY <1>0, <1>p DEF DisconnectIsWanted, ListenerIsAlone, Flags, Places, Threads, SpiPlaces,
    LtePlaces, PollPlaces, QueuePlaces
<1>8. CancelledRuns'
  BY <1>0, <1>p DEF CancelledRuns, Flags, Places, Threads, SpiPlaces, LtePlaces, PollPlaces,
    QueuePlaces
<1>9. OpeningIsOurs'
  BY <1>0, <1>p DEF OpeningIsOurs, Kinds, Places, Threads, SpiPlaces, LtePlaces, PollPlaces,
    QueuePlaces
<1>10. NoRadioNoConnection'
  BY <1>0, <1>p DEF NoRadioNoConnection, Flags, Kinds, Places, Threads, SpiPlaces, LtePlaces,
    PollPlaces, QueuePlaces
<1>11. QED
  BY <1>1, <1>2, <1>3, <1>4, <1>5, <1>6, <1>7, <1>8, <1>9, <1>10 DEF Sound, Types

(* Unless a command begins inside a callback, SetAirplane keeps the rest. *)
LEMMA SetAirplaneKeeps ==
    ASSUME Inv, MaxOverlap = 0, NEW on \in BOOLEAN,
           SetAirplane(on)
    PROVE  Inv'
<1> USE DEF SetAirplane, Begin, Goto, Idle, At, work, wishes, net
<1>0. Types /\ SubscribesFirst /\ ListenerIsAlone /\ DisconnectIsWanted /\ AcceptIsCurrent
      /\ CancelledRuns /\ OpeningIsOurs /\ NoRadioNoConnection /\ StaleIsRetried /\
        SomeoneRetries
  BY DEF Inv, Sound
<1>p. Places /\ Flags /\ Kinds /\ Counts
  BY <1>0 DEF Types
<1>1. AcceptIsCurrent'
  BY <1>0, <1>p DEF AcceptIsCurrent, OpeningIsOurs, DisconnectIsWanted, Counts, Flags, Kinds,
    Accepting, Places, Threads, SpiPlaces, LtePlaces, PollPlaces, QueuePlaces
<1>2. StaleIsRetried'
  BY <1>0, <1>p DEF StaleIsRetried, AcceptIsCurrent, CancelledRuns, NoRadioNoConnection,
    Flags, Kinds, Accepting, Closing, Retrying, Places, Threads, SpiPlaces, LtePlaces,
    PollPlaces, QueuePlaces
<1>3. SomeoneRetries'
  BY <1>0, <1>p DEF SomeoneRetries, StaleIsRetried, AcceptIsCurrent, CancelledRuns,
    NoRadioNoConnection, ListenerIsAlone, Flags, Kinds, Accepting, Closing, Entering, Running,
    Retrying, Places, Threads, SpiPlaces, LtePlaces, PollPlaces, QueuePlaces
<1>4. Sound'
  BY SetAirplaneSound DEF Inv
<1>5. QED
  BY <1>1, <1>2, <1>3, <1>4 DEF Inv

(* LteEvent keeps what holds whatever overlaps. *)
LEMMA LteEventSound ==
    ASSUME Sound, NEW what \in {"registered", "back"},
           LteEvent(what)
    PROVE  Sound'
<1> USE DEF LteEvent, Begin, Goto, Idle, At, work, wishes, net
<1>0. Types /\ SubscribesFirst /\ ListenerIsAlone /\ DisconnectIsWanted
      /\ CancelledRuns /\ OpeningIsOurs /\ NoRadioNoConnection
  BY DEF Sound
<1>p. Places /\ Flags /\ Kinds /\ Counts
  BY <1>0 DEF Types
<1>1. Places'
  BY <1>0, <1>p DEF Places, ListenerIsAlone, Flags, Threads, SpiPlaces, LtePlaces, PollPlaces,
    QueuePlaces
<1>2. Flags'
  BY <1>0, <1>p DEF Flags
<1>3. Kinds'
  BY <1>0, <1>p DEF Kinds, Places, Threads, SpiPlaces, LtePlaces, PollPlaces, QueuePlaces
<1>4. Counts'
  BY <1>0, <1>p, TransportAssumption DEF Counts, TransportAssumption, Places, Threads,
    SpiPlaces, LtePlaces, PollPlaces, QueuePlaces
<1>5. SubscribesFirst'
  BY <1>0, <1>p DEF SubscribesFirst, Accepting, Places, Threads, SpiPlaces, LtePlaces,
    PollPlaces, QueuePlaces
<1>6. ListenerIsAlone'
  BY <1>0, <1>p DEF ListenerIsAlone, Flags, Kinds, Places, Threads, SpiPlaces, LtePlaces,
    PollPlaces, QueuePlaces
<1>7. DisconnectIsWanted'
  BY <1>0, <1>p DEF DisconnectIsWanted, ListenerIsAlone, Flags, Places, Threads, SpiPlaces,
    LtePlaces, PollPlaces, QueuePlaces
<1>8. CancelledRuns'
  BY <1>0, <1>p DEF CancelledRuns, Flags, Places, Threads, SpiPlaces, LtePlaces, PollPlaces,
    QueuePlaces
<1>9. OpeningIsOurs'
  BY <1>0, <1>p DEF OpeningIsOurs, Kinds, Places, Threads, SpiPlaces, LtePlaces, PollPlaces,
    QueuePlaces
<1>10. NoRadioNoConnection'
  BY <1>0, <1>p DEF NoRadioNoConnection, Flags, Kinds, Places, Threads, SpiPlaces, LtePlaces,
    PollPlaces, QueuePlaces
<1>11. QED
  BY <1>1, <1>2, <1>3, <1>4, <1>5, <1>6, <1>7, <1>8, <1>9, <1>10 DEF Sound, Types

(* Unless a command begins inside a callback, LteEvent keeps the rest. *)
LEMMA LteEventKeeps ==
    ASSUME Inv, MaxOverlap = 0, NEW what \in {"registered", "back"},
           LteEvent(what)
    PROVE  Inv'
<1> USE DEF LteEvent, Begin, Goto, Idle, At, work, wishes, net
<1>0. Types /\ SubscribesFirst /\ ListenerIsAlone /\ DisconnectIsWanted /\ AcceptIsCurrent
      /\ CancelledRuns /\ OpeningIsOurs /\ NoRadioNoConnection /\ StaleIsRetried /\
        SomeoneRetries
  BY DEF Inv, Sound
<1>p. Places /\ Flags /\ Kinds /\ Counts
  BY <1>0 DEF Types
<1>1. AcceptIsCurrent'
  BY <1>0, <1>p DEF AcceptIsCurrent, OpeningIsOurs, DisconnectIsWanted, Counts, Flags, Kinds,
    Accepting, Places, Threads, SpiPlaces, LtePlaces, PollPlaces, QueuePlaces
<1>2. StaleIsRetried'
  BY <1>0, <1>p DEF StaleIsRetried, AcceptIsCurrent, CancelledRuns, NoRadioNoConnection,
    Flags, Kinds, Accepting, Closing, Retrying, Places, Threads, SpiPlaces, LtePlaces,
    PollPlaces, QueuePlaces
<1>3. SomeoneRetries'
  BY <1>0, <1>p DEF SomeoneRetries, StaleIsRetried, AcceptIsCurrent, CancelledRuns,
    NoRadioNoConnection, ListenerIsAlone, Flags, Kinds, Accepting, Closing, Entering, Running,
    Retrying, Places, Threads, SpiPlaces, LtePlaces, PollPlaces, QueuePlaces
<1>4. Sound'
  BY LteEventSound DEF Inv
<1>5. QED
  BY <1>1, <1>2, <1>3, <1>4 DEF Inv

(* Publish keeps what holds whatever overlaps. *)
LEMMA PublishSound ==
    ASSUME Sound, NEW t \in Threads,
           Publish(t)
    PROVE  Sound'
<1> USE DEF Publish, Goto, At, work, wishes, counters
<1>0. Types /\ SubscribesFirst /\ ListenerIsAlone /\ DisconnectIsWanted
      /\ CancelledRuns /\ OpeningIsOurs /\ NoRadioNoConnection
  BY DEF Sound
<1>p. Places /\ Flags /\ Kinds /\ Counts
  BY <1>0 DEF Types
<1>1. Places'
  BY <1>0, <1>p DEF Places, ListenerIsAlone, Flags, Threads, SpiPlaces, LtePlaces, PollPlaces,
    QueuePlaces
<1>2. Flags'
  BY <1>0, <1>p DEF Flags
<1>3. Kinds'
  BY <1>0, <1>p DEF Kinds, Places, Threads, SpiPlaces, LtePlaces, PollPlaces, QueuePlaces
<1>4. Counts'
  BY <1>0, <1>p, TransportAssumption DEF Counts, TransportAssumption, Places, Threads,
    SpiPlaces, LtePlaces, PollPlaces, QueuePlaces
<1>5. SubscribesFirst'
  BY <1>0, <1>p DEF SubscribesFirst, Accepting, Places, Threads, SpiPlaces, LtePlaces,
    PollPlaces, QueuePlaces
<1>6. ListenerIsAlone'
  BY <1>0, <1>p DEF ListenerIsAlone, Flags, Kinds, Places, Threads, SpiPlaces, LtePlaces,
    PollPlaces, QueuePlaces
<1>7. DisconnectIsWanted'
  BY <1>0, <1>p DEF DisconnectIsWanted, ListenerIsAlone, Flags, Places, Threads, SpiPlaces,
    LtePlaces, PollPlaces, QueuePlaces
<1>8. CancelledRuns'
  BY <1>0, <1>p DEF CancelledRuns, Flags, Places, Threads, SpiPlaces, LtePlaces, PollPlaces,
    QueuePlaces
<1>9. OpeningIsOurs'
  BY <1>0, <1>p DEF OpeningIsOurs, Kinds, Places, Threads, SpiPlaces, LtePlaces, PollPlaces,
    QueuePlaces
<1>10. NoRadioNoConnection'
  BY <1>0, <1>p DEF NoRadioNoConnection, Flags, Kinds, Places, Threads, SpiPlaces, LtePlaces,
    PollPlaces, QueuePlaces
<1>11. QED
  BY <1>1, <1>2, <1>3, <1>4, <1>5, <1>6, <1>7, <1>8, <1>9, <1>10 DEF Sound, Types

(* Unless a command begins inside a callback, Publish keeps the rest. *)
LEMMA PublishKeeps ==
    ASSUME Inv, MaxOverlap = 0, NEW t \in Threads,
           Publish(t)
    PROVE  Inv'
<1> USE DEF Publish, Goto, At, work, wishes, counters
<1>0. Types /\ SubscribesFirst /\ ListenerIsAlone /\ DisconnectIsWanted /\ AcceptIsCurrent
      /\ CancelledRuns /\ OpeningIsOurs /\ NoRadioNoConnection /\ StaleIsRetried /\
        SomeoneRetries
  BY DEF Inv, Sound
<1>p. Places /\ Flags /\ Kinds /\ Counts
  BY <1>0 DEF Types
<1>1. AcceptIsCurrent'
  BY <1>0, <1>p DEF AcceptIsCurrent, OpeningIsOurs, DisconnectIsWanted, Counts, Flags, Kinds,
    Accepting, Places, Threads, SpiPlaces, LtePlaces, PollPlaces, QueuePlaces
<1>2. StaleIsRetried'
  BY <1>0, <1>p DEF StaleIsRetried, AcceptIsCurrent, CancelledRuns, NoRadioNoConnection,
    Flags, Kinds, Accepting, Closing, Retrying, Idle, Places, Threads, SpiPlaces, LtePlaces,
    PollPlaces, QueuePlaces
<1>3. SomeoneRetries'
  BY <1>0, <1>p DEF SomeoneRetries, StaleIsRetried, AcceptIsCurrent, CancelledRuns,
    NoRadioNoConnection, ListenerIsAlone, Flags, Kinds, Accepting, Closing, Entering, Running,
    Retrying, Idle, Places, Threads, SpiPlaces, LtePlaces, PollPlaces, QueuePlaces
<1>4. Sound'
  BY PublishSound DEF Inv
<1>5. QED
  BY <1>1, <1>2, <1>3, <1>4 DEF Inv

(* RunState keeps what holds whatever overlaps. *)
LEMMA RunStateSound ==
    ASSUME Sound, NEW t \in Threads,
           RunState(t)
    PROVE  Sound'
<1> USE DEF RunState, Finish, Goto, At, work, wishes, net
<1>0. Types /\ SubscribesFirst /\ ListenerIsAlone /\ DisconnectIsWanted
      /\ CancelledRuns /\ OpeningIsOurs /\ NoRadioNoConnection
  BY DEF Sound
<1>p. Places /\ Flags /\ Kinds /\ Counts
  BY <1>0 DEF Types
<1>1. Places'
  BY <1>0, <1>p DEF Places, ListenerIsAlone, Flags, Threads, SpiPlaces, LtePlaces, PollPlaces,
    QueuePlaces
<1>2. Flags'
  BY <1>0, <1>p DEF Flags
<1>3. Kinds'
  BY <1>0, <1>p DEF Kinds, Places, Threads, SpiPlaces, LtePlaces, PollPlaces, QueuePlaces
<1>4. Counts'
  BY <1>0, <1>p, TransportAssumption DEF Counts, TransportAssumption, Places, Threads,
    SpiPlaces, LtePlaces, PollPlaces, QueuePlaces
<1>5. SubscribesFirst'
  BY <1>0, <1>p DEF SubscribesFirst, Accepting, Places, Threads, SpiPlaces, LtePlaces,
    PollPlaces, QueuePlaces
<1>6. ListenerIsAlone'
  BY <1>0, <1>p DEF ListenerIsAlone, Flags, Kinds, Places, Threads, SpiPlaces, LtePlaces,
    PollPlaces, QueuePlaces
<1>7. DisconnectIsWanted'
  BY <1>0, <1>p DEF DisconnectIsWanted, ListenerIsAlone, Flags, Places, Threads, SpiPlaces,
    LtePlaces, PollPlaces, QueuePlaces
<1>8. CancelledRuns'
  BY <1>0, <1>p DEF CancelledRuns, Flags, Places, Threads, SpiPlaces, LtePlaces, PollPlaces,
    QueuePlaces
<1>9. OpeningIsOurs'
  BY <1>0, <1>p DEF OpeningIsOurs, Kinds, Places, Threads, SpiPlaces, LtePlaces, PollPlaces,
    QueuePlaces
<1>10. NoRadioNoConnection'
  BY <1>0, <1>p DEF NoRadioNoConnection, Flags, Kinds, Places, Threads, SpiPlaces, LtePlaces,
    PollPlaces, QueuePlaces
<1>11. QED
  BY <1>1, <1>2, <1>3, <1>4, <1>5, <1>6, <1>7, <1>8, <1>9, <1>10 DEF Sound, Types

(* Unless a command begins inside a callback, RunState keeps the rest. *)
LEMMA RunStateKeeps ==
    ASSUME Inv, MaxOverlap = 0, NEW t \in Threads,
           RunState(t)
    PROVE  Inv'
<1> USE DEF RunState, Finish, Goto, At, work, wishes, net
<1>0. Types /\ SubscribesFirst /\ ListenerIsAlone /\ DisconnectIsWanted /\ AcceptIsCurrent
      /\ CancelledRuns /\ OpeningIsOurs /\ NoRadioNoConnection /\ StaleIsRetried /\
        SomeoneRetries
  BY DEF Inv, Sound
<1>p. Places /\ Flags /\ Kinds /\ Counts
  BY <1>0 DEF Types
<1>1. AcceptIsCurrent'
  BY <1>0, <1>p DEF AcceptIsCurrent, OpeningIsOurs, DisconnectIsWanted, Counts, Flags, Kinds,
    Accepting, Places, Threads, SpiPlaces, LtePlaces, PollPlaces, QueuePlaces
<1>2. StaleIsRetried'
  BY <1>0, <1>p DEF StaleIsRetried, AcceptIsCurrent, CancelledRuns, NoRadioNoConnection,
    Flags, Kinds, Accepting, Closing, Retrying, Idle, Places, Threads, SpiPlaces, LtePlaces,
    PollPlaces, QueuePlaces
<1>3. SomeoneRetries'
  BY <1>0, <1>p DEF SomeoneRetries, StaleIsRetried, AcceptIsCurrent, CancelledRuns,
    NoRadioNoConnection, ListenerIsAlone, Flags, Kinds, Accepting, Closing, Entering, Running,
    Retrying, Idle, Places, Threads, SpiPlaces, LtePlaces, PollPlaces, QueuePlaces
<1>4. Sound'
  BY RunStateSound DEF Inv
<1>5. QED
  BY <1>1, <1>2, <1>3, <1>4 DEF Inv

(* Disconnect keeps what holds whatever overlaps. *)
LEMMA DisconnectSound ==
    ASSUME Sound, NEW t \in Threads,
           Disconnect(t)
    PROVE  Sound'
<1> USE DEF Disconnect, Finish, Goto, At, Close, work, wishes, net
<1>0. Types /\ SubscribesFirst /\ ListenerIsAlone /\ DisconnectIsWanted
      /\ CancelledRuns /\ OpeningIsOurs /\ NoRadioNoConnection
  BY DEF Sound
<1>p. Places /\ Flags /\ Kinds /\ Counts
  BY <1>0 DEF Types
<1>1. Places'
  BY <1>0, <1>p DEF Places, ListenerIsAlone, Flags, Threads, SpiPlaces, LtePlaces, PollPlaces,
    QueuePlaces
<1>2. Flags'
  BY <1>0, <1>p DEF Flags
<1>3. Kinds'
  BY <1>0, <1>p DEF Kinds, Places, Threads, SpiPlaces, LtePlaces, PollPlaces, QueuePlaces
<1>4. Counts'
  BY <1>0, <1>p, TransportAssumption DEF Counts, TransportAssumption, Places, Threads,
    SpiPlaces, LtePlaces, PollPlaces, QueuePlaces
<1>5. SubscribesFirst'
  BY <1>0, <1>p DEF SubscribesFirst, Accepting, Places, Threads, SpiPlaces, LtePlaces,
    PollPlaces, QueuePlaces
<1>6. ListenerIsAlone'
  BY <1>0, <1>p DEF ListenerIsAlone, Flags, Kinds, Places, Threads, SpiPlaces, LtePlaces,
    PollPlaces, QueuePlaces
<1>7. DisconnectIsWanted'
  BY <1>0, <1>p DEF DisconnectIsWanted, ListenerIsAlone, Flags, Places, Threads, SpiPlaces,
    LtePlaces, PollPlaces, QueuePlaces
<1>8. CancelledRuns'
  BY <1>0, <1>p DEF CancelledRuns, Flags, Places, Threads, SpiPlaces, LtePlaces, PollPlaces,
    QueuePlaces
<1>9. OpeningIsOurs'
  BY <1>0, <1>p DEF OpeningIsOurs, Kinds, Places, Threads, SpiPlaces, LtePlaces, PollPlaces,
    QueuePlaces
<1>10. NoRadioNoConnection'
  BY <1>0, <1>p DEF NoRadioNoConnection, Flags, Kinds, Places, Threads, SpiPlaces, LtePlaces,
    PollPlaces, QueuePlaces
<1>11. QED
  BY <1>1, <1>2, <1>3, <1>4, <1>5, <1>6, <1>7, <1>8, <1>9, <1>10 DEF Sound, Types

(* Unless a command begins inside a callback, Disconnect keeps the rest. *)
LEMMA DisconnectKeeps ==
    ASSUME Inv, MaxOverlap = 0, NEW t \in Threads,
           Disconnect(t)
    PROVE  Inv'
<1> USE DEF Disconnect, Finish, Goto, At, Close, work, wishes, net
<1>0. Types /\ SubscribesFirst /\ ListenerIsAlone /\ DisconnectIsWanted /\ AcceptIsCurrent
      /\ CancelledRuns /\ OpeningIsOurs /\ NoRadioNoConnection /\ StaleIsRetried /\
        SomeoneRetries
  BY DEF Inv, Sound
<1>p. Places /\ Flags /\ Kinds /\ Counts
  BY <1>0 DEF Types
<1>1. AcceptIsCurrent'
  BY <1>0, <1>p DEF AcceptIsCurrent, OpeningIsOurs, DisconnectIsWanted, Counts, Flags, Kinds,
    Accepting, Places, Threads, SpiPlaces, LtePlaces, PollPlaces, QueuePlaces
<1>2. StaleIsRetried'
  BY <1>0, <1>p DEF StaleIsRetried, AcceptIsCurrent, CancelledRuns, NoRadioNoConnection,
    Flags, Kinds, Accepting, Closing, Retrying, Idle, Places, Threads, SpiPlaces, LtePlaces,
    PollPlaces, QueuePlaces
<1>3. SomeoneRetries'
  BY <1>0, <1>p DEF SomeoneRetries, StaleIsRetried, AcceptIsCurrent, CancelledRuns,
    NoRadioNoConnection, ListenerIsAlone, Flags, Kinds, Accepting, Closing, Entering, Running,
    Retrying, Idle, Places, Threads, SpiPlaces, LtePlaces, PollPlaces, QueuePlaces
<1>4. Sound'
  BY DisconnectSound DEF Inv
<1>5. QED
  BY <1>1, <1>2, <1>3, <1>4 DEF Inv

(* OnDisconnect keeps what holds whatever overlaps. *)
LEMMA OnDisconnectSound ==
    ASSUME Sound, NEW t \in Threads,
           OnDisconnect(t)
    PROVE  Sound'
<1> USE DEF OnDisconnect, Goto, At, work, wishes, net, counters
<1>0. Types /\ SubscribesFirst /\ ListenerIsAlone /\ DisconnectIsWanted
      /\ CancelledRuns /\ OpeningIsOurs /\ NoRadioNoConnection
  BY DEF Sound
<1>p. Places /\ Flags /\ Kinds /\ Counts
  BY <1>0 DEF Types
<1>1. Places'
  BY <1>0, <1>p DEF Places, ListenerIsAlone, Flags, Threads, SpiPlaces, LtePlaces, PollPlaces,
    QueuePlaces
<1>2. Flags'
  BY <1>0, <1>p DEF Flags
<1>3. Kinds'
  BY <1>0, <1>p DEF Kinds, Places, Threads, SpiPlaces, LtePlaces, PollPlaces, QueuePlaces
<1>4. Counts'
  BY <1>0, <1>p, TransportAssumption DEF Counts, TransportAssumption, Places, Threads,
    SpiPlaces, LtePlaces, PollPlaces, QueuePlaces
<1>5. SubscribesFirst'
  BY <1>0, <1>p DEF SubscribesFirst, Accepting, Places, Threads, SpiPlaces, LtePlaces,
    PollPlaces, QueuePlaces
<1>6. ListenerIsAlone'
  BY <1>0, <1>p DEF ListenerIsAlone, Flags, Kinds, Places, Threads, SpiPlaces, LtePlaces,
    PollPlaces, QueuePlaces
<1>7. DisconnectIsWanted'
  BY <1>0, <1>p DEF DisconnectIsWanted, ListenerIsAlone, Flags, Places, Threads, SpiPlaces,
    LtePlaces, PollPlaces, QueuePlaces
<1>8. CancelledRuns'
  BY <1>0, <1>p DEF CancelledRuns, Flags, Places, Threads, SpiPlaces, LtePlaces, PollPlaces,
    QueuePlaces
<1>9. OpeningIsOurs'
  BY <1>0, <1>p DEF OpeningIsOurs, Kinds, Places, Threads, SpiPlaces, LtePlaces, PollPlaces,
    QueuePlaces
<1>10. NoRadioNoConnection'
  BY <1>0, <1>p DEF NoRadioNoConnection, Flags, Kinds, Places, Threads, SpiPlaces, LtePlaces,
    PollPlaces, QueuePlaces
<1>11. QED
  BY <1>1, <1>2, <1>3, <1>4, <1>5, <1>6, <1>7, <1>8, <1>9, <1>10 DEF Sound, Types

(* Unless a command begins inside a callback, OnDisconnect keeps the rest. *)
LEMMA OnDisconnectKeeps ==
    ASSUME Inv, MaxOverlap = 0, NEW t \in Threads,
           OnDisconnect(t)
    PROVE  Inv'
<1> USE DEF OnDisconnect, Goto, At, work, wishes, net, counters
<1>0. Types /\ SubscribesFirst /\ ListenerIsAlone /\ DisconnectIsWanted /\ AcceptIsCurrent
      /\ CancelledRuns /\ OpeningIsOurs /\ NoRadioNoConnection /\ StaleIsRetried /\
        SomeoneRetries
  BY DEF Inv, Sound
<1>p. Places /\ Flags /\ Kinds /\ Counts
  BY <1>0 DEF Types
<1>1. AcceptIsCurrent'
  BY <1>0, <1>p DEF AcceptIsCurrent, OpeningIsOurs, DisconnectIsWanted, Counts, Flags, Kinds,
    Accepting, Places, Threads, SpiPlaces, LtePlaces, PollPlaces, QueuePlaces
<1>2. StaleIsRetried'
  BY <1>0, <1>p DEF StaleIsRetried, AcceptIsCurrent, CancelledRuns, NoRadioNoConnection,
    Flags, Kinds, Accepting, Closing, Retrying, Idle, Places, Threads, SpiPlaces, LtePlaces,
    PollPlaces, QueuePlaces
<1>3. SomeoneRetries'
  BY <1>0, <1>p DEF SomeoneRetries, StaleIsRetried, AcceptIsCurrent, CancelledRuns,
    NoRadioNoConnection, ListenerIsAlone, Flags, Kinds, Accepting, Closing, Entering, Running,
    Retrying, Idle, Places, Threads, SpiPlaces, LtePlaces, PollPlaces, QueuePlaces
<1>4. Sound'
  BY OnDisconnectSound DEF Inv
<1>5. QED
  BY <1>1, <1>2, <1>3, <1>4 DEF Inv

(* Entered keeps what holds whatever overlaps. *)
LEMMA EnteredSound ==
    ASSUME Sound, NEW t \in Threads,
           Entered(t)
    PROVE  Sound'
<1> USE DEF Entered, Finish, At, RescheduleNow, Goto, work, wishes, net
<1>0. Types /\ SubscribesFirst /\ ListenerIsAlone /\ DisconnectIsWanted
      /\ CancelledRuns /\ OpeningIsOurs /\ NoRadioNoConnection
  BY DEF Sound
<1>p. Places /\ Flags /\ Kinds /\ Counts
  BY <1>0 DEF Types
<1>1. Places'
  BY <1>0, <1>p DEF Places, ListenerIsAlone, Flags, Threads, SpiPlaces, LtePlaces, PollPlaces,
    QueuePlaces
<1>2. Flags'
  BY <1>0, <1>p DEF Flags
<1>3. Kinds'
  BY <1>0, <1>p DEF Kinds, Places, Threads, SpiPlaces, LtePlaces, PollPlaces, QueuePlaces
<1>4. Counts'
  BY <1>0, <1>p, TransportAssumption DEF Counts, TransportAssumption, Places, Threads,
    SpiPlaces, LtePlaces, PollPlaces, QueuePlaces
<1>5. SubscribesFirst'
  BY <1>0, <1>p DEF SubscribesFirst, Accepting, Places, Threads, SpiPlaces, LtePlaces,
    PollPlaces, QueuePlaces
<1>6. ListenerIsAlone'
  BY <1>0, <1>p DEF ListenerIsAlone, Flags, Kinds, Places, Threads, SpiPlaces, LtePlaces,
    PollPlaces, QueuePlaces
<1>7. DisconnectIsWanted'
  BY <1>0, <1>p DEF DisconnectIsWanted, ListenerIsAlone, Flags, Places, Threads, SpiPlaces,
    LtePlaces, PollPlaces, QueuePlaces
<1>8. CancelledRuns'
  BY <1>0, <1>p DEF CancelledRuns, Flags, Places, Threads, SpiPlaces, LtePlaces, PollPlaces,
    QueuePlaces
<1>9. OpeningIsOurs'
  BY <1>0, <1>p DEF OpeningIsOurs, Kinds, Places, Threads, SpiPlaces, LtePlaces, PollPlaces,
    QueuePlaces
<1>10. NoRadioNoConnection'
  BY <1>0, <1>p DEF NoRadioNoConnection, Flags, Kinds, Places, Threads, SpiPlaces, LtePlaces,
    PollPlaces, QueuePlaces
<1>11. QED
  BY <1>1, <1>2, <1>3, <1>4, <1>5, <1>6, <1>7, <1>8, <1>9, <1>10 DEF Sound, Types

(* Unless a command begins inside a callback, Entered keeps the rest. *)
LEMMA EnteredKeeps ==
    ASSUME Inv, MaxOverlap = 0, NEW t \in Threads,
           Entered(t)
    PROVE  Inv'
<1> USE DEF Entered, Finish, At, RescheduleNow, Goto, work, wishes, net
<1>0. Types /\ SubscribesFirst /\ ListenerIsAlone /\ DisconnectIsWanted /\ AcceptIsCurrent
      /\ CancelledRuns /\ OpeningIsOurs /\ NoRadioNoConnection /\ StaleIsRetried /\
        SomeoneRetries
  BY DEF Inv, Sound
<1>p. Places /\ Flags /\ Kinds /\ Counts
  BY <1>0 DEF Types
<1>1. AcceptIsCurrent'
  BY <1>0, <1>p DEF AcceptIsCurrent, OpeningIsOurs, DisconnectIsWanted, Counts, Flags, Kinds,
    Accepting, Places, Threads, SpiPlaces, LtePlaces, PollPlaces, QueuePlaces
<1>2. StaleIsRetried'
  BY <1>0, <1>p DEF StaleIsRetried, AcceptIsCurrent, CancelledRuns, NoRadioNoConnection,
    Flags, Kinds, Accepting, Closing, Retrying, Idle, Places, Threads, SpiPlaces, LtePlaces,
    PollPlaces, QueuePlaces
<1>3. SomeoneRetries'
  BY <1>0, <1>p DEF SomeoneRetries, StaleIsRetried, AcceptIsCurrent, CancelledRuns,
    NoRadioNoConnection, ListenerIsAlone, Flags, Kinds, Accepting, Closing, Entering, Running,
    Retrying, Idle, Places, Threads, SpiPlaces, LtePlaces, PollPlaces, QueuePlaces
<1>4. Sound'
  BY EnteredSound DEF Inv
<1>5. QED
  BY <1>1, <1>2, <1>3, <1>4 DEF Inv

(* BrokerCloses keeps what holds whatever overlaps. *)
LEMMA BrokerClosesSound ==
    ASSUME Sound,
           BrokerCloses
    PROVE  Sound'
<1> USE DEF BrokerCloses, Meets, Goto, Idle, Close, At, work, wishes, net
<1>0. Types /\ SubscribesFirst /\ ListenerIsAlone /\ DisconnectIsWanted
      /\ CancelledRuns /\ OpeningIsOurs /\ NoRadioNoConnection
  BY DEF Sound
<1>p. Places /\ Flags /\ Kinds /\ Counts
  BY <1>0 DEF Types
<1>1. Places'
  BY <1>0, <1>p DEF Places, ListenerIsAlone, Flags, Threads, SpiPlaces, LtePlaces, PollPlaces,
    QueuePlaces
<1>2. Flags'
  BY <1>0, <1>p DEF Flags
<1>3. Kinds'
  BY <1>0, <1>p DEF Kinds, Places, Threads, SpiPlaces, LtePlaces, PollPlaces, QueuePlaces
<1>4. Counts'
  BY <1>0, <1>p, TransportAssumption DEF Counts, TransportAssumption, Places, Threads,
    SpiPlaces, LtePlaces, PollPlaces, QueuePlaces
<1>5. SubscribesFirst'
  BY <1>0, <1>p DEF SubscribesFirst, Accepting, Places, Threads, SpiPlaces, LtePlaces,
    PollPlaces, QueuePlaces
<1>6. ListenerIsAlone'
  BY <1>0, <1>p DEF ListenerIsAlone, Flags, Kinds, Places, Threads, SpiPlaces, LtePlaces,
    PollPlaces, QueuePlaces
<1>7. DisconnectIsWanted'
  BY <1>0, <1>p DEF DisconnectIsWanted, ListenerIsAlone, Flags, Places, Threads, SpiPlaces,
    LtePlaces, PollPlaces, QueuePlaces
<1>8. CancelledRuns'
  BY <1>0, <1>p DEF CancelledRuns, Flags, Places, Threads, SpiPlaces, LtePlaces, PollPlaces,
    QueuePlaces
<1>9. OpeningIsOurs'
  BY <1>0, <1>p DEF OpeningIsOurs, Kinds, Places, Threads, SpiPlaces, LtePlaces, PollPlaces,
    QueuePlaces
<1>10. NoRadioNoConnection'
  BY <1>0, <1>p DEF NoRadioNoConnection, Flags, Kinds, Places, Threads, SpiPlaces, LtePlaces,
    PollPlaces, QueuePlaces
<1>11. QED
  BY <1>1, <1>2, <1>3, <1>4, <1>5, <1>6, <1>7, <1>8, <1>9, <1>10 DEF Sound, Types

(* Unless a command begins inside a callback, BrokerCloses keeps the rest. *)
LEMMA BrokerClosesKeeps ==
    ASSUME Inv, MaxOverlap = 0,
           BrokerCloses
    PROVE  Inv'
<1> USE DEF BrokerCloses, Meets, Goto, Idle, Close, At, work, wishes, net
<1>0. Types /\ SubscribesFirst /\ ListenerIsAlone /\ DisconnectIsWanted /\ AcceptIsCurrent
      /\ CancelledRuns /\ OpeningIsOurs /\ NoRadioNoConnection /\ StaleIsRetried /\
        SomeoneRetries
  BY DEF Inv, Sound
<1>p. Places /\ Flags /\ Kinds /\ Counts
  BY <1>0 DEF Types
<1>1. AcceptIsCurrent'
  BY <1>0, <1>p DEF AcceptIsCurrent, OpeningIsOurs, DisconnectIsWanted, Counts, Flags, Kinds,
    Accepting, Places, Threads, SpiPlaces, LtePlaces, PollPlaces, QueuePlaces
<1>2. StaleIsRetried'
  BY <1>0, <1>p DEF StaleIsRetried, AcceptIsCurrent, CancelledRuns, NoRadioNoConnection,
    Flags, Kinds, Accepting, Closing, Retrying, Places, Threads, SpiPlaces, LtePlaces,
    PollPlaces, QueuePlaces
<1>3. SomeoneRetries'
  BY <1>0, <1>p DEF SomeoneRetries, StaleIsRetried, AcceptIsCurrent, CancelledRuns,
    NoRadioNoConnection, ListenerIsAlone, Flags, Kinds, Accepting, Closing, Entering, Running,
    Retrying, Places, Threads, SpiPlaces, LtePlaces, PollPlaces, QueuePlaces
<1>4. Sound'
  BY BrokerClosesSound DEF Inv
<1>5. QED
  BY <1>1, <1>2, <1>3, <1>4 DEF Inv

(* Connack keeps what holds whatever overlaps. *)
LEMMA ConnackSound ==
    ASSUME Sound,
           Connack
    PROVE  Sound'
<1> USE DEF Connack, Meets, Goto, Idle, At, work, wishes, net
<1>0. Types /\ SubscribesFirst /\ ListenerIsAlone /\ DisconnectIsWanted
      /\ CancelledRuns /\ OpeningIsOurs /\ NoRadioNoConnection
  BY DEF Sound
<1>p. Places /\ Flags /\ Kinds /\ Counts
  BY <1>0 DEF Types
<1>1. Places'
  BY <1>0, <1>p DEF Places, ListenerIsAlone, Flags, Threads, SpiPlaces, LtePlaces, PollPlaces,
    QueuePlaces
<1>2. Flags'
  BY <1>0, <1>p DEF Flags
<1>3. Kinds'
  BY <1>0, <1>p DEF Kinds, Places, Threads, SpiPlaces, LtePlaces, PollPlaces, QueuePlaces
<1>4. Counts'
  BY <1>0, <1>p, TransportAssumption DEF Counts, TransportAssumption, Places, Threads,
    SpiPlaces, LtePlaces, PollPlaces, QueuePlaces
<1>5. SubscribesFirst'
  BY <1>0, <1>p DEF SubscribesFirst, Accepting, Places, Threads, SpiPlaces, LtePlaces,
    PollPlaces, QueuePlaces
<1>6. ListenerIsAlone'
  BY <1>0, <1>p DEF ListenerIsAlone, Flags, Kinds, Places, Threads, SpiPlaces, LtePlaces,
    PollPlaces, QueuePlaces
<1>7. DisconnectIsWanted'
  BY <1>0, <1>p DEF DisconnectIsWanted, ListenerIsAlone, Flags, Places, Threads, SpiPlaces,
    LtePlaces, PollPlaces, QueuePlaces
<1>8. CancelledRuns'
  BY <1>0, <1>p DEF CancelledRuns, Flags, Places, Threads, SpiPlaces, LtePlaces, PollPlaces,
    QueuePlaces
<1>9. OpeningIsOurs'
  BY <1>0, <1>p DEF OpeningIsOurs, Kinds, Places, Threads, SpiPlaces, LtePlaces, PollPlaces,
    QueuePlaces
<1>10. NoRadioNoConnection'
  BY <1>0, <1>p DEF NoRadioNoConnection, Flags, Kinds, Places, Threads, SpiPlaces, LtePlaces,
    PollPlaces, QueuePlaces
<1>11. QED
  BY <1>1, <1>2, <1>3, <1>4, <1>5, <1>6, <1>7, <1>8, <1>9, <1>10 DEF Sound, Types

(* Unless a command begins inside a callback, Connack keeps the rest. *)
LEMMA ConnackKeeps ==
    ASSUME Inv, MaxOverlap = 0,
           Connack
    PROVE  Inv'
<1> USE DEF Connack, Meets, Goto, Idle, At, work, wishes, net
<1>0. Types /\ SubscribesFirst /\ ListenerIsAlone /\ DisconnectIsWanted /\ AcceptIsCurrent
      /\ CancelledRuns /\ OpeningIsOurs /\ NoRadioNoConnection /\ StaleIsRetried /\
        SomeoneRetries
  BY DEF Inv, Sound
<1>p. Places /\ Flags /\ Kinds /\ Counts
  BY <1>0 DEF Types
<1>1. AcceptIsCurrent'
  BY <1>0, <1>p DEF AcceptIsCurrent, OpeningIsOurs, DisconnectIsWanted, Counts, Flags, Kinds,
    Accepting, Places, Threads, SpiPlaces, LtePlaces, PollPlaces, QueuePlaces
<1>2. StaleIsRetried'
  BY <1>0, <1>p DEF StaleIsRetried, AcceptIsCurrent, CancelledRuns, NoRadioNoConnection,
    Flags, Kinds, Accepting, Closing, Retrying, Places, Threads, SpiPlaces, LtePlaces,
    PollPlaces, QueuePlaces
<1>3. SomeoneRetries'
  BY <1>0, <1>p DEF SomeoneRetries, StaleIsRetried, AcceptIsCurrent, CancelledRuns,
    NoRadioNoConnection, ListenerIsAlone, Flags, Kinds, Accepting, Closing, Entering, Running,
    Retrying, Places, Threads, SpiPlaces, LtePlaces, PollPlaces, QueuePlaces
<1>4. Sound'
  BY ConnackSound DEF Inv
<1>5. QED
  BY <1>1, <1>2, <1>3, <1>4 DEF Inv

(* OnConnack keeps what holds whatever overlaps. *)
LEMMA OnConnackSound ==
    ASSUME Sound,
           OnConnack
    PROVE  Sound'
<1> USE DEF OnConnack, Goto, At, work, wishes, net, counters
<1>0. Types /\ SubscribesFirst /\ ListenerIsAlone /\ DisconnectIsWanted
      /\ CancelledRuns /\ OpeningIsOurs /\ NoRadioNoConnection
  BY DEF Sound
<1>p. Places /\ Flags /\ Kinds /\ Counts
  BY <1>0 DEF Types
<1>1. Places'
  BY <1>0, <1>p DEF Places, ListenerIsAlone, Flags, Threads, SpiPlaces, LtePlaces, PollPlaces,
    QueuePlaces
<1>2. Flags'
  BY <1>0, <1>p DEF Flags
<1>3. Kinds'
  BY <1>0, <1>p DEF Kinds, Places, Threads, SpiPlaces, LtePlaces, PollPlaces, QueuePlaces
<1>4. Counts'
  BY <1>0, <1>p, TransportAssumption DEF Counts, TransportAssumption, Places, Threads,
    SpiPlaces, LtePlaces, PollPlaces, QueuePlaces
<1>5. SubscribesFirst'
  BY <1>0, <1>p DEF SubscribesFirst, Accepting, Places, Threads, SpiPlaces, LtePlaces,
    PollPlaces, QueuePlaces
<1>6. ListenerIsAlone'
  BY <1>0, <1>p DEF ListenerIsAlone, Flags, Kinds, Places, Threads, SpiPlaces, LtePlaces,
    PollPlaces, QueuePlaces
<1>7. DisconnectIsWanted'
  BY <1>0, <1>p DEF DisconnectIsWanted, ListenerIsAlone, Flags, Places, Threads, SpiPlaces,
    LtePlaces, PollPlaces, QueuePlaces
<1>8. CancelledRuns'
  BY <1>0, <1>p DEF CancelledRuns, Flags, Places, Threads, SpiPlaces, LtePlaces, PollPlaces,
    QueuePlaces
<1>9. OpeningIsOurs'
  BY <1>0, <1>p DEF OpeningIsOurs, Kinds, Places, Threads, SpiPlaces, LtePlaces, PollPlaces,
    QueuePlaces
<1>10. NoRadioNoConnection'
  BY <1>0, <1>p DEF NoRadioNoConnection, Flags, Kinds, Places, Threads, SpiPlaces, LtePlaces,
    PollPlaces, QueuePlaces
<1>11. QED
  BY <1>1, <1>2, <1>3, <1>4, <1>5, <1>6, <1>7, <1>8, <1>9, <1>10 DEF Sound, Types

(* Unless a command begins inside a callback, OnConnack keeps the rest. *)
LEMMA OnConnackKeeps ==
    ASSUME Inv, MaxOverlap = 0,
           OnConnack
    PROVE  Inv'
<1> USE DEF OnConnack, Goto, At, work, wishes, net, counters
<1>0. Types /\ SubscribesFirst /\ ListenerIsAlone /\ DisconnectIsWanted /\ AcceptIsCurrent
      /\ CancelledRuns /\ OpeningIsOurs /\ NoRadioNoConnection /\ StaleIsRetried /\
        SomeoneRetries
  BY DEF Inv, Sound
<1>p. Places /\ Flags /\ Kinds /\ Counts
  BY <1>0 DEF Types
<1>1. AcceptIsCurrent'
  BY <1>0, <1>p DEF AcceptIsCurrent, OpeningIsOurs, DisconnectIsWanted, Counts, Flags, Kinds,
    Accepting, Places, Threads, SpiPlaces, LtePlaces, PollPlaces, QueuePlaces
<1>2. StaleIsRetried'
  BY <1>0, <1>p DEF StaleIsRetried, AcceptIsCurrent, CancelledRuns, NoRadioNoConnection,
    Flags, Kinds, Accepting, Closing, Retrying, Idle, Places, Threads, SpiPlaces, LtePlaces,
    PollPlaces, QueuePlaces
<1>3. SomeoneRetries'
  BY <1>0, <1>p DEF SomeoneRetries, StaleIsRetried, AcceptIsCurrent, CancelledRuns,
    NoRadioNoConnection, ListenerIsAlone, Flags, Kinds, Accepting, Closing, Entering, Running,
    Retrying, Idle, Places, Threads, SpiPlaces, LtePlaces, PollPlaces, QueuePlaces
<1>4. Sound'
  BY OnConnackSound DEF Inv
<1>5. QED
  BY <1>1, <1>2, <1>3, <1>4 DEF Inv

(* ConnectedEntry keeps what holds whatever overlaps. *)
LEMMA ConnectedEntrySound ==
    ASSUME Sound,
           ConnectedEntry
    PROVE  Sound'
<1> USE DEF ConnectedEntry, Goto, At, Cancel, Idle, wishes, net, counters
<1>0. Types /\ SubscribesFirst /\ ListenerIsAlone /\ DisconnectIsWanted
      /\ CancelledRuns /\ OpeningIsOurs /\ NoRadioNoConnection
  BY DEF Sound
<1>p. Places /\ Flags /\ Kinds /\ Counts
  BY <1>0 DEF Types
<1>1. Places'
  BY <1>0, <1>p DEF Places, ListenerIsAlone, Flags, Threads, SpiPlaces, LtePlaces, PollPlaces,
    QueuePlaces
<1>2. Flags'
  BY <1>0, <1>p DEF Flags
<1>3. Kinds'
  BY <1>0, <1>p DEF Kinds, Places, Threads, SpiPlaces, LtePlaces, PollPlaces, QueuePlaces
<1>4. Counts'
  BY <1>0, <1>p, TransportAssumption DEF Counts, TransportAssumption, Places, Threads,
    SpiPlaces, LtePlaces, PollPlaces, QueuePlaces
<1>5. SubscribesFirst'
  BY <1>0, <1>p DEF SubscribesFirst, Accepting, Places, Threads, SpiPlaces, LtePlaces,
    PollPlaces, QueuePlaces
<1>6. ListenerIsAlone'
  BY <1>0, <1>p DEF ListenerIsAlone, Flags, Kinds, Places, Threads, SpiPlaces, LtePlaces,
    PollPlaces, QueuePlaces
<1>7. DisconnectIsWanted'
  BY <1>0, <1>p DEF DisconnectIsWanted, ListenerIsAlone, Flags, Places, Threads, SpiPlaces,
    LtePlaces, PollPlaces, QueuePlaces
<1>8. CancelledRuns'
  BY <1>0, <1>p DEF CancelledRuns, Flags, Places, Threads, SpiPlaces, LtePlaces, PollPlaces,
    QueuePlaces
<1>9. OpeningIsOurs'
  BY <1>0, <1>p DEF OpeningIsOurs, Kinds, Places, Threads, SpiPlaces, LtePlaces, PollPlaces,
    QueuePlaces
<1>10. NoRadioNoConnection'
  BY <1>0, <1>p DEF NoRadioNoConnection, Flags, Kinds, Places, Threads, SpiPlaces, LtePlaces,
    PollPlaces, QueuePlaces
<1>11. QED
  BY <1>1, <1>2, <1>3, <1>4, <1>5, <1>6, <1>7, <1>8, <1>9, <1>10 DEF Sound, Types

(* Unless a command begins inside a callback, ConnectedEntry keeps the rest. *)
LEMMA ConnectedEntryKeeps ==
    ASSUME Inv, MaxOverlap = 0,
           ConnectedEntry
    PROVE  Inv'
<1> USE DEF ConnectedEntry, Goto, At, Cancel, Idle, wishes, net, counters
<1>0. Types /\ SubscribesFirst /\ ListenerIsAlone /\ DisconnectIsWanted /\ AcceptIsCurrent
      /\ CancelledRuns /\ OpeningIsOurs /\ NoRadioNoConnection /\ StaleIsRetried /\
        SomeoneRetries
  BY DEF Inv, Sound
<1>p. Places /\ Flags /\ Kinds /\ Counts
  BY <1>0 DEF Types
<1>1. AcceptIsCurrent'
  BY <1>0, <1>p DEF AcceptIsCurrent, OpeningIsOurs, DisconnectIsWanted, Counts, Flags, Kinds,
    Accepting, Places, Threads, SpiPlaces, LtePlaces, PollPlaces, QueuePlaces
<1>2. StaleIsRetried'
  BY <1>0, <1>p DEF StaleIsRetried, AcceptIsCurrent, CancelledRuns, NoRadioNoConnection,
    Flags, Kinds, Accepting, Closing, Retrying, Places, Threads, SpiPlaces, LtePlaces,
    PollPlaces, QueuePlaces
<1>3. SomeoneRetries'
  BY <1>0, <1>p DEF SomeoneRetries, StaleIsRetried, AcceptIsCurrent, CancelledRuns,
    NoRadioNoConnection, ListenerIsAlone, Flags, Kinds, Accepting, Closing, Entering, Running,
    Retrying, Places, Threads, SpiPlaces, LtePlaces, PollPlaces, QueuePlaces
<1>4. Sound'
  BY ConnectedEntrySound DEF Inv
<1>5. QED
  BY <1>1, <1>2, <1>3, <1>4 DEF Inv

(* Subscribe keeps what holds whatever overlaps. *)
LEMMA SubscribeSound ==
    ASSUME Sound,
           Subscribe
    PROVE  Sound'
<1> USE DEF Subscribe, Finish, At, Goto, work, wishes, net
<1>0. Types /\ SubscribesFirst /\ ListenerIsAlone /\ DisconnectIsWanted
      /\ CancelledRuns /\ OpeningIsOurs /\ NoRadioNoConnection
  BY DEF Sound
<1>p. Places /\ Flags /\ Kinds /\ Counts
  BY <1>0 DEF Types
<1>1. Places'
  BY <1>0, <1>p DEF Places, ListenerIsAlone, Flags, Threads, SpiPlaces, LtePlaces, PollPlaces,
    QueuePlaces
<1>2. Flags'
  BY <1>0, <1>p DEF Flags
<1>3. Kinds'
  BY <1>0, <1>p DEF Kinds, Places, Threads, SpiPlaces, LtePlaces, PollPlaces, QueuePlaces
<1>4. Counts'
  BY <1>0, <1>p, TransportAssumption DEF Counts, TransportAssumption, Places, Threads,
    SpiPlaces, LtePlaces, PollPlaces, QueuePlaces
<1>5. SubscribesFirst'
  BY <1>0, <1>p DEF SubscribesFirst, Accepting, Places, Threads, SpiPlaces, LtePlaces,
    PollPlaces, QueuePlaces
<1>6. ListenerIsAlone'
  BY <1>0, <1>p DEF ListenerIsAlone, Flags, Kinds, Places, Threads, SpiPlaces, LtePlaces,
    PollPlaces, QueuePlaces
<1>7. DisconnectIsWanted'
  BY <1>0, <1>p DEF DisconnectIsWanted, ListenerIsAlone, Flags, Places, Threads, SpiPlaces,
    LtePlaces, PollPlaces, QueuePlaces
<1>8. CancelledRuns'
  BY <1>0, <1>p DEF CancelledRuns, Flags, Places, Threads, SpiPlaces, LtePlaces, PollPlaces,
    QueuePlaces
<1>9. OpeningIsOurs'
  BY <1>0, <1>p DEF OpeningIsOurs, Kinds, Places, Threads, SpiPlaces, LtePlaces, PollPlaces,
    QueuePlaces
<1>10. NoRadioNoConnection'
  BY <1>0, <1>p DEF NoRadioNoConnection, Flags, Kinds, Places, Threads, SpiPlaces, LtePlaces,
    PollPlaces, QueuePlaces
<1>11. QED
  BY <1>1, <1>2, <1>3, <1>4, <1>5, <1>6, <1>7, <1>8, <1>9, <1>10 DEF Sound, Types

(* Unless a command begins inside a callback, Subscribe keeps the rest. *)
LEMMA SubscribeKeeps ==
    ASSUME Inv, MaxOverlap = 0,
           Subscribe
    PROVE  Inv'
<1> USE DEF Subscribe, Finish, At, Goto, work, wishes, net
<1>0. Types /\ SubscribesFirst /\ ListenerIsAlone /\ DisconnectIsWanted /\ AcceptIsCurrent
      /\ CancelledRuns /\ OpeningIsOurs /\ NoRadioNoConnection /\ StaleIsRetried /\
        SomeoneRetries
  BY DEF Inv, Sound
<1>p. Places /\ Flags /\ Kinds /\ Counts
  BY <1>0 DEF Types
<1>1. AcceptIsCurrent'
  BY <1>0, <1>p DEF AcceptIsCurrent, OpeningIsOurs, DisconnectIsWanted, Counts, Flags, Kinds,
    Accepting, Places, Threads, SpiPlaces, LtePlaces, PollPlaces, QueuePlaces
<1>2. StaleIsRetried'
  BY <1>0, <1>p DEF StaleIsRetried, AcceptIsCurrent, CancelledRuns, NoRadioNoConnection,
    Flags, Kinds, Accepting, Closing, Retrying, Idle, Places, Threads, SpiPlaces, LtePlaces,
    PollPlaces, QueuePlaces
<1>3. SomeoneRetries'
  BY <1>0, <1>p DEF SomeoneRetries, StaleIsRetried, AcceptIsCurrent, CancelledRuns,
    NoRadioNoConnection, ListenerIsAlone, Flags, Kinds, Accepting, Closing, Entering, Running,
    Retrying, Idle, Places, Threads, SpiPlaces, LtePlaces, PollPlaces, QueuePlaces
<1>4. Sound'
  BY SubscribeSound DEF Inv
<1>5. QED
  BY <1>1, <1>2, <1>3, <1>4 DEF Inv

(* StartWork keeps what holds whatever overlaps. *)
LEMMA StartWorkSound ==
    ASSUME Sound,
           StartWork
    PROVE  Sound'
<1> USE DEF StartWork, Goto, Idle, At, wishes, net, counters
<1>0. Types /\ SubscribesFirst /\ ListenerIsAlone /\ DisconnectIsWanted
      /\ CancelledRuns /\ OpeningIsOurs /\ NoRadioNoConnection
  BY DEF Sound
<1>p. Places /\ Flags /\ Kinds /\ Counts
  BY <1>0 DEF Types
<1>1. Places'
  BY <1>0, <1>p DEF Places, ListenerIsAlone, Flags, Threads, SpiPlaces, LtePlaces, PollPlaces,
    QueuePlaces
<1>2. Flags'
  BY <1>0, <1>p DEF Flags
<1>3. Kinds'
  BY <1>0, <1>p DEF Kinds, Places, Threads, SpiPlaces, LtePlaces, PollPlaces, QueuePlaces
<1>4. Counts'
  BY <1>0, <1>p, TransportAssumption DEF Counts, TransportAssumption, Places, Threads,
    SpiPlaces, LtePlaces, PollPlaces, QueuePlaces
<1>5. SubscribesFirst'
  BY <1>0, <1>p DEF SubscribesFirst, Accepting, Places, Threads, SpiPlaces, LtePlaces,
    PollPlaces, QueuePlaces
<1>6. ListenerIsAlone'
  BY <1>0, <1>p DEF ListenerIsAlone, Flags, Kinds, Places, Threads, SpiPlaces, LtePlaces,
    PollPlaces, QueuePlaces
<1>7. DisconnectIsWanted'
  BY <1>0, <1>p DEF DisconnectIsWanted, ListenerIsAlone, Flags, Places, Threads, SpiPlaces,
    LtePlaces, PollPlaces, QueuePlaces
<1>8. CancelledRuns'
  BY <1>0, <1>p DEF CancelledRuns, Flags, Places, Threads, SpiPlaces, LtePlaces, PollPlaces,
    QueuePlaces
<1>9. OpeningIsOurs'
  BY <1>0, <1>p DEF OpeningIsOurs, Kinds, Places, Threads, SpiPlaces, LtePlaces, PollPlaces,
    QueuePlaces
<1>10. NoRadioNoConnection'
  BY <1>0, <1>p DEF NoRadioNoConnection, Flags, Kinds, Places, Threads, SpiPlaces, LtePlaces,
    PollPlaces, QueuePlaces
<1>11. QED
  BY <1>1, <1>2, <1>3, <1>4, <1>5, <1>6, <1>7, <1>8, <1>9, <1>10 DEF Sound, Types

(* Unless a command begins inside a callback, StartWork keeps the rest. *)
LEMMA StartWorkKeeps ==
    ASSUME Inv, MaxOverlap = 0,
           StartWork
    PROVE  Inv'
<1> USE DEF StartWork, Goto, Idle, At, wishes, net, counters
<1>0. Types /\ SubscribesFirst /\ ListenerIsAlone /\ DisconnectIsWanted /\ AcceptIsCurrent
      /\ CancelledRuns /\ OpeningIsOurs /\ NoRadioNoConnection /\ StaleIsRetried /\
        SomeoneRetries
  BY DEF Inv, Sound
<1>p. Places /\ Flags /\ Kinds /\ Counts
  BY <1>0 DEF Types
<1>1. AcceptIsCurrent'
  BY <1>0, <1>p DEF AcceptIsCurrent, OpeningIsOurs, DisconnectIsWanted, Counts, Flags, Kinds,
    Accepting, Places, Threads, SpiPlaces, LtePlaces, PollPlaces, QueuePlaces
<1>2. StaleIsRetried'
  BY <1>0, <1>p DEF StaleIsRetried, AcceptIsCurrent, CancelledRuns, NoRadioNoConnection,
    Flags, Kinds, Accepting, Closing, Retrying, Places, Threads, SpiPlaces, LtePlaces,
    PollPlaces, QueuePlaces
<1>3. SomeoneRetries'
  BY <1>0, <1>p DEF SomeoneRetries, StaleIsRetried, AcceptIsCurrent, CancelledRuns,
    NoRadioNoConnection, ListenerIsAlone, Flags, Kinds, Accepting, Closing, Entering, Running,
    Retrying, Places, Threads, SpiPlaces, LtePlaces, PollPlaces, QueuePlaces
<1>4. Sound'
  BY StartWorkSound DEF Inv
<1>5. QED
  BY <1>1, <1>2, <1>3, <1>4 DEF Inv

(* CheckRadio keeps what holds whatever overlaps. *)
LEMMA CheckRadioSound ==
    ASSUME Sound,
           CheckRadio
    PROVE  Sound'
<1> USE DEF CheckRadio, Goto, At, wishes, net, counters
<1>0. Types /\ SubscribesFirst /\ ListenerIsAlone /\ DisconnectIsWanted
      /\ CancelledRuns /\ OpeningIsOurs /\ NoRadioNoConnection
  BY DEF Sound
<1>p. Places /\ Flags /\ Kinds /\ Counts
  BY <1>0 DEF Types
<1>1. Places'
  BY <1>0, <1>p DEF Places, ListenerIsAlone, Flags, Threads, SpiPlaces, LtePlaces, PollPlaces,
    QueuePlaces
<1>2. Flags'
  BY <1>0, <1>p DEF Flags
<1>3. Kinds'
  BY <1>0, <1>p DEF Kinds, Places, Threads, SpiPlaces, LtePlaces, PollPlaces, QueuePlaces
<1>4. Counts'
  BY <1>0, <1>p, TransportAssumption DEF Counts, TransportAssumption, Places, Threads,
    SpiPlaces, LtePlaces, PollPlaces, QueuePlaces
<1>5. SubscribesFirst'
  BY <1>0, <1>p DEF SubscribesFirst, Accepting, Places, Threads, SpiPlaces, LtePlaces,
    PollPlaces, QueuePlaces
<1>6. ListenerIsAlone'
  BY <1>0, <1>p DEF ListenerIsAlone, Flags, Kinds, Places, Threads, SpiPlaces, LtePlaces,
    PollPlaces, QueuePlaces
<1>7. DisconnectIsWanted'
  BY <1>0, <1>p DEF DisconnectIsWanted, ListenerIsAlone, Flags, Places, Threads, SpiPlaces,
    LtePlaces, PollPlaces, QueuePlaces
<1>8. CancelledRuns'
  BY <1>0, <1>p DEF CancelledRuns, Flags, Places, Threads, SpiPlaces, LtePlaces, PollPlaces,
    QueuePlaces
<1>9. OpeningIsOurs'
  BY <1>0, <1>p DEF OpeningIsOurs, Kinds, Places, Threads, SpiPlaces, LtePlaces, PollPlaces,
    QueuePlaces
<1>10. NoRadioNoConnection'
  BY <1>0, <1>p DEF NoRadioNoConnection, Flags, Kinds, Places, Threads, SpiPlaces, LtePlaces,
    PollPlaces, QueuePlaces
<1>11. QED
  BY <1>1, <1>2, <1>3, <1>4, <1>5, <1>6, <1>7, <1>8, <1>9, <1>10 DEF Sound, Types

(* Unless a command begins inside a callback, CheckRadio keeps the rest. *)
LEMMA CheckRadioKeeps ==
    ASSUME Inv, MaxOverlap = 0,
           CheckRadio
    PROVE  Inv'
<1> USE DEF CheckRadio, Goto, At, wishes, net, counters
<1>0. Types /\ SubscribesFirst /\ ListenerIsAlone /\ DisconnectIsWanted /\ AcceptIsCurrent
      /\ CancelledRuns /\ OpeningIsOurs /\ NoRadioNoConnection /\ StaleIsRetried /\
        SomeoneRetries
  BY DEF Inv, Sound
<1>p. Places /\ Flags /\ Kinds /\ Counts
  BY <1>0 DEF Types
<1>1. AcceptIsCurrent'
  BY <1>0, <1>p DEF AcceptIsCurrent, OpeningIsOurs, DisconnectIsWanted, Counts, Flags, Kinds,
    Accepting, Places, Threads, SpiPlaces, LtePlaces, PollPlaces, QueuePlaces
<1>2. StaleIsRetried'
  BY <1>0, <1>p DEF StaleIsRetried, AcceptIsCurrent, CancelledRuns, NoRadioNoConnection,
    Flags, Kinds, Accepting, Closing, Retrying, Idle, Places, Threads, SpiPlaces, LtePlaces,
    PollPlaces, QueuePlaces
<1>3. SomeoneRetries'
  BY <1>0, <1>p DEF SomeoneRetries, StaleIsRetried, AcceptIsCurrent, CancelledRuns,
    NoRadioNoConnection, ListenerIsAlone, Flags, Kinds, Accepting, Closing, Entering, Running,
    Retrying, Idle, Places, Threads, SpiPlaces, LtePlaces, PollPlaces, QueuePlaces
<1>4. Sound'
  BY CheckRadioSound DEF Inv
<1>5. QED
  BY <1>1, <1>2, <1>3, <1>4 DEF Inv

(* Connect keeps what holds whatever overlaps. *)
LEMMA ConnectSound ==
    ASSUME Sound,
           Connect
    PROVE  Sound'
<1> USE DEF Connect, Goto, At, work, wishes, net, counters
<1>0. Types /\ SubscribesFirst /\ ListenerIsAlone /\ DisconnectIsWanted
      /\ CancelledRuns /\ OpeningIsOurs /\ NoRadioNoConnection
  BY DEF Sound
<1>p. Places /\ Flags /\ Kinds /\ Counts
  BY <1>0 DEF Types
<1>1. Places'
  BY <1>0, <1>p DEF Places, ListenerIsAlone, Flags, Threads, SpiPlaces, LtePlaces, PollPlaces,
    QueuePlaces
<1>2. Flags'
  BY <1>0, <1>p DEF Flags
<1>3. Kinds'
  BY <1>0, <1>p DEF Kinds, Places, Threads, SpiPlaces, LtePlaces, PollPlaces, QueuePlaces
<1>4. Counts'
  BY <1>0, <1>p, TransportAssumption DEF Counts, TransportAssumption, Places, Threads,
    SpiPlaces, LtePlaces, PollPlaces, QueuePlaces
<1>5. SubscribesFirst'
  BY <1>0, <1>p DEF SubscribesFirst, Accepting, Places, Threads, SpiPlaces, LtePlaces,
    PollPlaces, QueuePlaces
<1>6. ListenerIsAlone'
  BY <1>0, <1>p DEF ListenerIsAlone, Flags, Kinds, Places, Threads, SpiPlaces, LtePlaces,
    PollPlaces, QueuePlaces
<1>7. DisconnectIsWanted'
  BY <1>0, <1>p DEF DisconnectIsWanted, ListenerIsAlone, Flags, Places, Threads, SpiPlaces,
    LtePlaces, PollPlaces, QueuePlaces
<1>8. CancelledRuns'
  BY <1>0, <1>p DEF CancelledRuns, Flags, Places, Threads, SpiPlaces, LtePlaces, PollPlaces,
    QueuePlaces
<1>9. OpeningIsOurs'
  BY <1>0, <1>p DEF OpeningIsOurs, Kinds, Places, Threads, SpiPlaces, LtePlaces, PollPlaces,
    QueuePlaces
<1>10. NoRadioNoConnection'
  BY <1>0, <1>p DEF NoRadioNoConnection, Flags, Kinds, Places, Threads, SpiPlaces, LtePlaces,
    PollPlaces, QueuePlaces
<1>11. QED
  BY <1>1, <1>2, <1>3, <1>4, <1>5, <1>6, <1>7, <1>8, <1>9, <1>10 DEF Sound, Types

(* Unless a command begins inside a callback, Connect keeps the rest. *)
LEMMA ConnectKeeps ==
    ASSUME Inv, MaxOverlap = 0,
           Connect
    PROVE  Inv'
<1> USE DEF Connect, Goto, At, work, wishes, net, counters
<1>0. Types /\ SubscribesFirst /\ ListenerIsAlone /\ DisconnectIsWanted /\ AcceptIsCurrent
      /\ CancelledRuns /\ OpeningIsOurs /\ NoRadioNoConnection /\ StaleIsRetried /\
        SomeoneRetries
  BY DEF Inv, Sound
<1>p. Places /\ Flags /\ Kinds /\ Counts
  BY <1>0 DEF Types
<1>1. AcceptIsCurrent'
  BY <1>0, <1>p DEF AcceptIsCurrent, OpeningIsOurs, DisconnectIsWanted, Counts, Flags, Kinds,
    Accepting, Places, Threads, SpiPlaces, LtePlaces, PollPlaces, QueuePlaces
<1>2. StaleIsRetried'
  BY <1>0, <1>p DEF StaleIsRetried, AcceptIsCurrent, CancelledRuns, NoRadioNoConnection,
    Flags, Kinds, Accepting, Closing, Retrying, Idle, Places, Threads, SpiPlaces, LtePlaces,
    PollPlaces, QueuePlaces
<1>3. SomeoneRetries'
  BY <1>0, <1>p DEF SomeoneRetries, StaleIsRetried, AcceptIsCurrent, CancelledRuns,
    NoRadioNoConnection, ListenerIsAlone, Flags, Kinds, Accepting, Closing, Entering, Running,
    Retrying, Idle, Places, Threads, SpiPlaces, LtePlaces, PollPlaces, QueuePlaces
<1>4. Sound'
  BY ConnectSound DEF Inv
<1>5. QED
  BY <1>1, <1>2, <1>3, <1>4 DEF Inv

(* OpenSucceeds keeps what holds whatever overlaps. *)
LEMMA OpenSucceedsSound ==
    ASSUME Sound,
           OpenSucceeds
    PROVE  Sound'
<1> USE DEF OpenSucceeds, Goto, At, work, wishes, net, counters
<1>0. Types /\ SubscribesFirst /\ ListenerIsAlone /\ DisconnectIsWanted
      /\ CancelledRuns /\ OpeningIsOurs /\ NoRadioNoConnection
  BY DEF Sound
<1>p. Places /\ Flags /\ Kinds /\ Counts
  BY <1>0 DEF Types
<1>1. Places'
  BY <1>0, <1>p DEF Places, ListenerIsAlone, Flags, Threads, SpiPlaces, LtePlaces, PollPlaces,
    QueuePlaces
<1>2. Flags'
  BY <1>0, <1>p DEF Flags
<1>3. Kinds'
  BY <1>0, <1>p DEF Kinds, Places, Threads, SpiPlaces, LtePlaces, PollPlaces, QueuePlaces
<1>4. Counts'
  BY <1>0, <1>p, TransportAssumption DEF Counts, TransportAssumption, Places, Threads,
    SpiPlaces, LtePlaces, PollPlaces, QueuePlaces
<1>5. SubscribesFirst'
  BY <1>0, <1>p DEF SubscribesFirst, Accepting, Places, Threads, SpiPlaces, LtePlaces,
    PollPlaces, QueuePlaces
<1>6. ListenerIsAlone'
  BY <1>0, <1>p DEF ListenerIsAlone, Flags, Kinds, Places, Threads, SpiPlaces, LtePlaces,
    PollPlaces, QueuePlaces
<1>7. DisconnectIsWanted'
  BY <1>0, <1>p DEF DisconnectIsWanted, ListenerIsAlone, Flags, Places, Threads, SpiPlaces,
    LtePlaces, PollPlaces, QueuePlaces
<1>8. CancelledRuns'
  BY <1>0, <1>p DEF CancelledRuns, Flags, Places, Threads, SpiPlaces, LtePlaces, PollPlaces,
    QueuePlaces
<1>9. OpeningIsOurs'
  BY <1>0, <1>p DEF OpeningIsOurs, Kinds, Places, Threads, SpiPlaces, LtePlaces, PollPlaces,
    QueuePlaces
<1>10. NoRadioNoConnection'
  BY <1>0, <1>p DEF NoRadioNoConnection, Flags, Kinds, Places, Threads, SpiPlaces, LtePlaces,
    PollPlaces, QueuePlaces
<1>11. QED
  BY <1>1, <1>2, <1>3, <1>4, <1>5, <1>6, <1>7, <1>8, <1>9, <1>10 DEF Sound, Types

(* Unless a command begins inside a callback, OpenSucceeds keeps the rest. *)
LEMMA OpenSucceedsKeeps ==
    ASSUME Inv, MaxOverlap = 0,
           OpenSucceeds
    PROVE  Inv'
<1> USE DEF OpenSucceeds, Goto, At, work, wishes, net, counters
<1>0. Types /\ SubscribesFirst /\ ListenerIsAlone /\ DisconnectIsWanted /\ AcceptIsCurrent
      /\ CancelledRuns /\ OpeningIsOurs /\ NoRadioNoConnection /\ StaleIsRetried /\
        SomeoneRetries
  BY DEF Inv, Sound
<1>p. Places /\ Flags /\ Kinds /\ Counts
  BY <1>0 DEF Types
<1>1. AcceptIsCurrent'
  BY <1>0, <1>p DEF AcceptIsCurrent, OpeningIsOurs, DisconnectIsWanted, Counts, Flags, Kinds,
    Accepting, Places, Threads, SpiPlaces, LtePlaces, PollPlaces, QueuePlaces
<1>2. StaleIsRetried'
  BY <1>0, <1>p DEF StaleIsRetried, AcceptIsCurrent, CancelledRuns, NoRadioNoConnection,
    Flags, Kinds, Accepting, Closing, Retrying, Idle, Places, Threads, SpiPlaces, LtePlaces,
    PollPlaces, QueuePlaces
<1>3. SomeoneRetries'
  BY <1>0, <1>p DEF SomeoneRetries, StaleIsRetried, AcceptIsCurrent, CancelledRuns,
    NoRadioNoConnection, ListenerIsAlone, Flags, Kinds, Accepting, Closing, Entering, Running,
    Retrying, Idle, Places, Threads, SpiPlaces, LtePlaces, PollPlaces, QueuePlaces
<1>4. Sound'
  BY OpenSucceedsSound DEF Inv
<1>5. QED
  BY <1>1, <1>2, <1>3, <1>4 DEF Inv

(* OpenFails keeps what holds whatever overlaps. *)
LEMMA OpenFailsSound ==
    ASSUME Sound,
           OpenFails
    PROVE  Sound'
<1> USE DEF OpenFails, Goto, At, work, wishes, net, counters
<1>0. Types /\ SubscribesFirst /\ ListenerIsAlone /\ DisconnectIsWanted
      /\ CancelledRuns /\ OpeningIsOurs /\ NoRadioNoConnection
  BY DEF Sound
<1>p. Places /\ Flags /\ Kinds /\ Counts
  BY <1>0 DEF Types
<1>1. Places'
  BY <1>0, <1>p DEF Places, ListenerIsAlone, Flags, Threads, SpiPlaces, LtePlaces, PollPlaces,
    QueuePlaces
<1>2. Flags'
  BY <1>0, <1>p DEF Flags
<1>3. Kinds'
  BY <1>0, <1>p DEF Kinds, Places, Threads, SpiPlaces, LtePlaces, PollPlaces, QueuePlaces
<1>4. Counts'
  BY <1>0, <1>p, TransportAssumption DEF Counts, TransportAssumption, Places, Threads,
    SpiPlaces, LtePlaces, PollPlaces, QueuePlaces
<1>5. SubscribesFirst'
  BY <1>0, <1>p DEF SubscribesFirst, Accepting, Places, Threads, SpiPlaces, LtePlaces,
    PollPlaces, QueuePlaces
<1>6. ListenerIsAlone'
  BY <1>0, <1>p DEF ListenerIsAlone, Flags, Kinds, Places, Threads, SpiPlaces, LtePlaces,
    PollPlaces, QueuePlaces
<1>7. DisconnectIsWanted'
  BY <1>0, <1>p DEF DisconnectIsWanted, ListenerIsAlone, Flags, Places, Threads, SpiPlaces,
    LtePlaces, PollPlaces, QueuePlaces
<1>8. CancelledRuns'
  BY <1>0, <1>p DEF CancelledRuns, Flags, Places, Threads, SpiPlaces, LtePlaces, PollPlaces,
    QueuePlaces
<1>9. OpeningIsOurs'
  BY <1>0, <1>p DEF OpeningIsOurs, Kinds, Places, Threads, SpiPlaces, LtePlaces, PollPlaces,
    QueuePlaces
<1>10. NoRadioNoConnection'
  BY <1>0, <1>p DEF NoRadioNoConnection, Flags, Kinds, Places, Threads, SpiPlaces, LtePlaces,
    PollPlaces, QueuePlaces
<1>11. QED
  BY <1>1, <1>2, <1>3, <1>4, <1>5, <1>6, <1>7, <1>8, <1>9, <1>10 DEF Sound, Types

(* Unless a command begins inside a callback, OpenFails keeps the rest. *)
LEMMA OpenFailsKeeps ==
    ASSUME Inv, MaxOverlap = 0,
           OpenFails
    PROVE  Inv'
<1> USE DEF OpenFails, Goto, At, work, wishes, net, counters
<1>0. Types /\ SubscribesFirst /\ ListenerIsAlone /\ DisconnectIsWanted /\ AcceptIsCurrent
      /\ CancelledRuns /\ OpeningIsOurs /\ NoRadioNoConnection /\ StaleIsRetried /\
        SomeoneRetries
  BY DEF Inv, Sound
<1>p. Places /\ Flags /\ Kinds /\ Counts
  BY <1>0 DEF Types
<1>1. AcceptIsCurrent'
  BY <1>0, <1>p DEF AcceptIsCurrent, OpeningIsOurs, DisconnectIsWanted, Counts, Flags, Kinds,
    Accepting, Places, Threads, SpiPlaces, LtePlaces, PollPlaces, QueuePlaces
<1>2. StaleIsRetried'
  BY <1>0, <1>p DEF StaleIsRetried, AcceptIsCurrent, CancelledRuns, NoRadioNoConnection,
    Flags, Kinds, Accepting, Closing, Retrying, Idle, Places, Threads, SpiPlaces, LtePlaces,
    PollPlaces, QueuePlaces
<1>3. SomeoneRetries'
  BY <1>0, <1>p DEF SomeoneRetries, StaleIsRetried, AcceptIsCurrent, CancelledRuns,
    NoRadioNoConnection, ListenerIsAlone, Flags, Kinds, Accepting, Closing, Entering, Running,
    Retrying, Idle, Places, Threads, SpiPlaces, LtePlaces, PollPlaces, QueuePlaces
<1>4. Sound'
  BY OpenFailsSound DEF Inv
<1>5. QED
  BY <1>1, <1>2, <1>3, <1>4 DEF Inv

(* Again keeps what holds whatever overlaps. *)
LEMMA AgainSound ==
    ASSUME Sound,
           Again
    PROVE  Sound'
<1> USE DEF Again, Goto, At, wishes, net, counters
<1>0. Types /\ SubscribesFirst /\ ListenerIsAlone /\ DisconnectIsWanted
      /\ CancelledRuns /\ OpeningIsOurs /\ NoRadioNoConnection
  BY DEF Sound
<1>p. Places /\ Flags /\ Kinds /\ Counts
  BY <1>0 DEF Types
<1>1. Places'
  BY <1>0, <1>p DEF Places, ListenerIsAlone, Flags, Threads, SpiPlaces, LtePlaces, PollPlaces,
    QueuePlaces
<1>2. Flags'
  BY <1>0, <1>p DEF Flags
<1>3. Kinds'
  BY <1>0, <1>p DEF Kinds, Places, Threads, SpiPlaces, LtePlaces, PollPlaces, QueuePlaces
<1>4. Counts'
  BY <1>0, <1>p, TransportAssumption DEF Counts, TransportAssumption, Places, Threads,
    SpiPlaces, LtePlaces, PollPlaces, QueuePlaces
<1>5. SubscribesFirst'
  BY <1>0, <1>p DEF SubscribesFirst, Accepting, Places, Threads, SpiPlaces, LtePlaces,
    PollPlaces, QueuePlaces
<1>6. ListenerIsAlone'
  BY <1>0, <1>p DEF ListenerIsAlone, Flags, Kinds, Places, Threads, SpiPlaces, LtePlaces,
    PollPlaces, QueuePlaces
<1>7. DisconnectIsWanted'
  BY <1>0, <1>p DEF DisconnectIsWanted, ListenerIsAlone, Flags, Places, Threads, SpiPlaces,
    LtePlaces, PollPlaces, QueuePlaces
<1>8. CancelledRuns'
  BY <1>0, <1>p DEF CancelledRuns, Flags, Places, Threads, SpiPlaces, LtePlaces, PollPlaces,
    QueuePlaces
<1>9. OpeningIsOurs'
  BY <1>0, <1>p DEF OpeningIsOurs, Kinds, Places, Threads, SpiPlaces, LtePlaces, PollPlaces,
    QueuePlaces
<1>10. NoRadioNoConnection'
  BY <1>0, <1>p DEF NoRadioNoConnection, Flags, Kinds, Places, Threads, SpiPlaces, LtePlaces,
    PollPlaces, QueuePlaces
<1>11. QED
  BY <1>1, <1>2, <1>3, <1>4, <1>5, <1>6, <1>7, <1>8, <1>9, <1>10 DEF Sound, Types

(* Unless a command begins inside a callback, Again keeps the rest. *)
LEMMA AgainKeeps ==
    ASSUME Inv, MaxOverlap = 0,
           Again
    PROVE  Inv'
<1> USE DEF Again, Goto, At, wishes, net, counters
<1>0. Types /\ SubscribesFirst /\ ListenerIsAlone /\ DisconnectIsWanted /\ AcceptIsCurrent
      /\ CancelledRuns /\ OpeningIsOurs /\ NoRadioNoConnection /\ StaleIsRetried /\
        SomeoneRetries
  BY DEF Inv, Sound
<1>p. Places /\ Flags /\ Kinds /\ Counts
  BY <1>0 DEF Types
<1>1. AcceptIsCurrent'
  BY <1>0, <1>p DEF AcceptIsCurrent, OpeningIsOurs, DisconnectIsWanted, Counts, Flags, Kinds,
    Accepting, Places, Threads, SpiPlaces, LtePlaces, PollPlaces, QueuePlaces
<1>2. StaleIsRetried'
  BY <1>0, <1>p DEF StaleIsRetried, AcceptIsCurrent, CancelledRuns, NoRadioNoConnection,
    Flags, Kinds, Accepting, Closing, Retrying, Idle, Places, Threads, SpiPlaces, LtePlaces,
    PollPlaces, QueuePlaces
<1>3. SomeoneRetries'
  BY <1>0, <1>p DEF SomeoneRetries, StaleIsRetried, AcceptIsCurrent, CancelledRuns,
    NoRadioNoConnection, ListenerIsAlone, Flags, Kinds, Accepting, Closing, Entering, Running,
    Retrying, Idle, Places, Threads, SpiPlaces, LtePlaces, PollPlaces, QueuePlaces
<1>4. Sound'
  BY AgainSound DEF Inv
<1>5. QED
  BY <1>1, <1>2, <1>3, <1>4 DEF Inv

(* Every step keeps what holds whatever overlaps. *)
LEMMA StepSound ==
    ASSUME Sound, [Next]_vars
    PROVE  Sound'
<1>1. CASE SetSettings
  BY <1>1, SetSettingsSound
<1>2. CASE \E wish \in BOOLEAN : Allow(wish)
  BY <1>2, AllowSound
<1>3. CASE Allowed
  BY <1>3, AllowedSound
<1>4. CASE \E on \in BOOLEAN : SetAirplane(on)
  BY <1>4, SetAirplaneSound
<1>5. CASE \E what \in {"registered", "back"} : LteEvent(what)
  BY <1>5, LteEventSound
<1>6. CASE \E t \in Threads : Publish(t)
  BY <1>6, PublishSound
<1>7. CASE \E t \in Threads : RunState(t)
  BY <1>7, RunStateSound
<1>8. CASE \E t \in Threads : Disconnect(t)
  BY <1>8, DisconnectSound
<1>9. CASE \E t \in Threads : OnDisconnect(t)
  BY <1>9, OnDisconnectSound
<1>10. CASE \E t \in Threads : Entered(t)
  BY <1>10, EnteredSound
<1>11. CASE BrokerCloses
  BY <1>11, BrokerClosesSound
<1>12. CASE Connack
  BY <1>12, ConnackSound
<1>13. CASE OnConnack
  BY <1>13, OnConnackSound
<1>14. CASE ConnectedEntry
  BY <1>14, ConnectedEntrySound
<1>15. CASE Subscribe
  BY <1>15, SubscribeSound
<1>16. CASE StartWork
  BY <1>16, StartWorkSound
<1>17. CASE CheckRadio
  BY <1>17, CheckRadioSound
<1>18. CASE Connect
  BY <1>18, ConnectSound
<1>19. CASE OpenSucceeds
  BY <1>19, OpenSucceedsSound
<1>20. CASE OpenFails
  BY <1>20, OpenFailsSound
<1>21. CASE Again
  BY <1>21, AgainSound
<1>22. CASE UNCHANGED vars
  <2>1. /\ pc' = pc /\ channel' = channel /\ current' = current /\ lib' = lib
        /\ topics' = topics /\ airplane' = airplane
    BY <1>22 DEF vars
  <2>2. /\ allow' = allow /\ ready' = ready /\ radio' = radio /\ status' = status
        /\ pending' = pending /\ canceling' = canceling
    BY <1>22 DEF vars, wishes, net, work
  <2>3. overlap' = overlap /\ commands' = commands /\ events' = events
    BY <1>22 DEF vars, counters
  <2>4. Types'
    BY <2>1, <2>2, <2>3 DEF Sound, Types, Places, Flags, Kinds, Counts
  <2>5. SubscribesFirst' /\ ListenerIsAlone' /\ DisconnectIsWanted'
    BY <2>1, <2>2 DEF Sound, SubscribesFirst, ListenerIsAlone, DisconnectIsWanted, Accepting
  <2>6. CancelledRuns' /\ OpeningIsOurs' /\ NoRadioNoConnection'
    BY <2>1, <2>2 DEF Sound, CancelledRuns, OpeningIsOurs, NoRadioNoConnection
  <2>7. QED
    BY <2>4, <2>5, <2>6 DEF Sound
<1>23. QED
  BY <1>1, <1>2, <1>3, <1>4, <1>5, <1>6, <1>7, <1>8, <1>9, <1>10, <1>11, <1>12, <1>13, <1>14,
    <1>15, <1>16, <1>17, <1>18, <1>19, <1>20, <1>21, <1>22
     DEF Next, SpiNext, LteNext, PollNext, QueueNext, Shared

(* Unless commands begin inside callbacks, every step keeps the whole invariant. *)
LEMMA StepInv ==
    ASSUME Inv, MaxOverlap = 0, [Next]_vars
    PROVE  Inv'
<1>1. CASE SetSettings
  BY <1>1, SetSettingsKeeps
<1>2. CASE \E wish \in BOOLEAN : Allow(wish)
  BY <1>2, AllowKeeps
<1>3. CASE Allowed
  BY <1>3, AllowedKeeps
<1>4. CASE \E on \in BOOLEAN : SetAirplane(on)
  BY <1>4, SetAirplaneKeeps
<1>5. CASE \E what \in {"registered", "back"} : LteEvent(what)
  BY <1>5, LteEventKeeps
<1>6. CASE \E t \in Threads : Publish(t)
  BY <1>6, PublishKeeps
<1>7. CASE \E t \in Threads : RunState(t)
  BY <1>7, RunStateKeeps
<1>8. CASE \E t \in Threads : Disconnect(t)
  BY <1>8, DisconnectKeeps
<1>9. CASE \E t \in Threads : OnDisconnect(t)
  BY <1>9, OnDisconnectKeeps
<1>10. CASE \E t \in Threads : Entered(t)
  BY <1>10, EnteredKeeps
<1>11. CASE BrokerCloses
  BY <1>11, BrokerClosesKeeps
<1>12. CASE Connack
  BY <1>12, ConnackKeeps
<1>13. CASE OnConnack
  BY <1>13, OnConnackKeeps
<1>14. CASE ConnectedEntry
  BY <1>14, ConnectedEntryKeeps
<1>15. CASE Subscribe
  BY <1>15, SubscribeKeeps
<1>16. CASE StartWork
  BY <1>16, StartWorkKeeps
<1>17. CASE CheckRadio
  BY <1>17, CheckRadioKeeps
<1>18. CASE Connect
  BY <1>18, ConnectKeeps
<1>19. CASE OpenSucceeds
  BY <1>19, OpenSucceedsKeeps
<1>20. CASE OpenFails
  BY <1>20, OpenFailsKeeps
<1>21. CASE Again
  BY <1>21, AgainKeeps
<1>22. CASE UNCHANGED vars
  <2>1. /\ pc' = pc /\ channel' = channel /\ current' = current /\ lib' = lib
        /\ topics' = topics /\ airplane' = airplane
    BY <1>22 DEF vars
  <2>2. /\ allow' = allow /\ ready' = ready /\ radio' = radio /\ status' = status
        /\ pending' = pending /\ canceling' = canceling
    BY <1>22 DEF vars, wishes, net, work
  <2>3. Sound'
    BY <1>22, StepSound DEF Inv
  <2>4. AcceptIsCurrent'
    BY <2>1, <2>2 DEF Inv, AcceptIsCurrent, Accepting
  <2>5. StaleIsRetried' /\ SomeoneRetries'
    BY <2>1, <2>2 DEF Inv, StaleIsRetried, SomeoneRetries, Closing, Entering, Running, Retrying,
      Idle, At
  <2>6. QED
    BY <2>3, <2>4, <2>5 DEF Inv
<1>23. QED
  BY <1>1, <1>2, <1>3, <1>4, <1>5, <1>6, <1>7, <1>8, <1>9, <1>10, <1>11, <1>12, <1>13, <1>14,
    <1>15, <1>16, <1>17, <1>18, <1>19, <1>20, <1>21, <1>22
     DEF Next, SpiNext, LteNext, PollNext, QueueNext, Shared

(* In every behaviour Sound holds throughout. *)
LEMMA Soundness ==
    Spec => []Sound
<1>1. Init => Sound
  BY InitInv DEF Inv
<1>2. Sound /\ [Next]_vars => Sound'
  BY StepSound
<1>3. QED
  BY <1>1, <1>2, PTL DEF Spec

(* In every behaviour in which no command begins inside a callback of the helper the
   invariant holds throughout. *)
LEMMA Invariance ==
    ASSUME MaxOverlap = 0
    PROVE  Spec => []Inv
<1>1. Inv /\ [Next]_vars => Inv'
  BY StepInv
<1>2. QED
  BY InitInv, <1>1, PTL DEF Spec

-----------------------------------------------------------------------------
(* The variables of the transport keep their kinds: no thread gets lost between the
   listener, the helper's callbacks and connect_work. *)
THEOREM TypeCorrect ==
    Spec => []TypeOK
<1>1. Sound => TypeOK
  <2> SUFFICES ASSUME Sound PROVE TypeOK
    OBVIOUS
  <2>1. Places /\ Flags /\ Kinds /\ Counts
    BY DEF Sound, Types
  <2>2. {allow, ready, radio, status, current, pending, canceling, airplane} \subseteq BOOLEAN
    BY <2>1, Zenon DEF Flags
  <2>3. pc \in [Threads -> {"idle", "allowed", "disconnect", "lost", "back", "registered",
    "run",
                            "closing", "entered", "accepted", "cancel", "subscribe",
                            "check", "connect", "open", "again"}]
    BY <2>1 DEF Places, SpiPlaces, LtePlaces, PollPlaces, QueuePlaces
  <2>4. QED
    BY <2>1, <2>2, <2>3 DEF Kinds, Counts, TypeOK
<1>2. QED
  BY <1>1, Soundness, PTL

(* A connection that the collar wants and that is missing is always being retried,
   whichever thread found it missing and however the callbacks, the listener and the
   work overtake one another, unless a command begins inside a callback. *)
THEOREM Retried ==
    ASSUME MaxOverlap = 0
    PROVE  Spec => []WantedIsRetried
<1>1. Inv => WantedIsRetried
  <2> SUFFICES ASSUME Inv, AtRest, allow, radio, status, lib = "closed"
               PROVE  Retrying
    BY DEF WantedIsRetried
  <2>1. Places /\ SomeoneRetries
    BY DEF Inv, Sound, Types
  <2>2. pc["spi"] = "idle" /\ pc["lte"] = "idle" /\ pc["poll"] = "idle"
    BY DEF AtRest, Idle, At
  <2>3. ~Closing /\ ~Entering /\ ~Running
    BY <2>2 DEF Closing, Entering, Running
  <2>4. QED
    BY <2>1, <2>2, <2>3 DEF SomeoneRetries
<1>2. QED
  BY <1>1, Invariance, PTL

(* Once the callback that accepted a connection is over, subscribe() has been called
   for it, whatever commands began meanwhile. *)
THEOREM Subscribed ==
    Spec => []OpenIsSubscribed
<1>1. Sound => OpenIsSubscribed
  BY DEF Sound, OpenIsSubscribed, SubscribesFirst, Accepting, Idle, At
<1>2. QED
  BY <1>1, Soundness, PTL
=============================================================================
