--------------------------- MODULE DaUsers_proofs ---------------------------
(***************************************************************************)
(* Proofs about the two modules that say who keeps the DA16200 awake, for  *)
(* every value of their constants.                                         *)
(*                                                                         *)
(* RadioRefs: type correctness with the bounds of the count (TypeOK), the  *)
(* count is the number of users (CountIsExact), and a DA16200 that nobody  *)
(* uses was not left awake by accident (RestsWhenDone).  The argument:     *)
(* what a thread holds can be read off the place where it is (PlacesOK), a *)
(* done or a failed prepare takes back one prepare of the thread that      *)
(* calls it, and the count differs from the number of holds by one for     *)
(* each unmatched call at most (Counts).                                   *)
(*                                                                         *)
(* Fota, one of those users: type correctness (FotaTypeOK), one update at  *)
(* a time, counted once (OneAtATime), what the cloud is told is installed  *)
(* (DoneMeansInstalled), what is flashed is whole (FlashedIsWhole).  The   *)
(* argument: as long as nothing comes late, a round asks for a processor   *)
(* when those before it are done with, so one job at most is on its way    *)
(* (JobsGoOn), and while it is neither queue is blocked in the end of      *)
(* another (OneJob); the rest (RestOrderly) relates the timers, the slot   *)
(* of the reports and the downloaded file to that job.                     *)
(***************************************************************************)
EXTENDS RadioRefs, Fota, TLAPS, SequenceTheorems, FiniteSetTheorems, WellFoundedInduction

-----------------------------------------------------------------------------
(* RadioRefs: where the threads are *)


Place == [job : Jobs, phase : Phases, inner : BOOLEAN, radio : {DA, LTE}]

(* The places where thread t can be *)
IsPlace(t, a) ==
    /\ a \in Place
    /\ a.phase = "idle" => a.job = "none"
    /\ a.job = "none" => ~a.inner /\ a.phase \in {"idle", "rest"}
    /\ a.inner => /\ t = "comm"
                  /\ a.job \in {"scan", "send", "sendLte"}
                  /\ a.phase \in {"power", "wake", "broker", "using", "rest"}
    /\ a.inner /\ a.phase \in {"power", "wake", "broker"} => a.radio = DA
    /\ a.job = "sendLte" /\ ~a.inner => a.phase = "ready"
    /\ t = "sys" => a.job = "none"

PlacesOK ==
    /\ at \in [Threads -> Place]
    /\ \A t \in Threads : IsPlace(t, at[t])
    /\ at["comm"].job = "fota" => ~fota

(* At a the thread is in a prepare, or between a prepare and its done *)
Used(a) ==
    /\ a.phase # "rest"
    /\ IF a.inner THEN a.radio = DA ELSE a.job \notin {"none", "sendLte"}

One(b) == IF b THEN 1 ELSE 0

Values ==
    /\ da \in {"off", "asleep", "awake"}
    /\ conn \in {"none", "ap", "broker"}
    /\ active \in {DA, LTE}
    /\ wifiOn \in BOOLEAN /\ connecting \in BOOLEAN /\ usb \in BOOLEAN /\ mgmt \in BOOLEAN
    /\ mutex \in {NoOne, "radio"}
    /\ fota \in BOOLEAN /\ exact \in BOOLEAN /\ left \in BOOLEAN
    /\ events \in 0..MaxEvents

Counts ==
    /\ cnt \in Int
    /\ cnt - Holders >= 0 - events
    /\ cnt - Holders <= events
    /\ CountIsExact

Inv == Values /\ PlacesOK /\ Counts /\ RestsWhenDone

-----------------------------------------------------------------------------
(* What holds at a place *)

LEMMA HoldOfPlace ==
    ASSUME NEW t \in Threads, NEW a, IsPlace(t, a)
    PROVE  /\ Hold(a) \in 0..2
           /\ t # "comm" => Hold(a) <= 1
           /\ t = "sys" => Hold(a) = 0
           /\ Used(a) => Hold(a) >= 1
           /\ a.phase = "idle" => Hold(a) = 0
BY DEF IsPlace, Place, Hold, OuterHold, InnerHold, Used, Threads, Jobs, Phases

(* Between 0 and 5 prepares are in use *)
LEMMA HoldersRange ==
    ASSUME PlacesOK, fota \in BOOLEAN
    PROVE  /\ Holders \in 0..5
           /\ \A t \in Threads : Used(at[t]) => Holders >= 1
<1>1. /\ Hold(at["comm"]) \in 0..2
      /\ Used(at["comm"]) => Hold(at["comm"]) >= 1
  BY HoldOfPlace DEF PlacesOK, Threads
<1>2. /\ Hold(at["net"]) \in 0..1
      /\ Used(at["net"]) => Hold(at["net"]) >= 1
  BY HoldOfPlace DEF PlacesOK, Threads
<1>3. /\ Hold(at["radio"]) \in 0..1
      /\ Used(at["radio"]) => Hold(at["radio"]) >= 1
  BY HoldOfPlace DEF PlacesOK, Threads
<1>4. /\ Hold(at["sys"]) = 0
      /\ Used(at["sys"]) => Hold(at["sys"]) >= 1
  BY HoldOfPlace DEF PlacesOK, Threads
<1>5. QED BY <1>1, <1>2, <1>3, <1>4 DEF Holders, Threads

LEMMA HoldersRangeNext ==
    ASSUME PlacesOK', fota' \in BOOLEAN
    PROVE  Holders' \in 0..5
<1>1. Hold(at'["comm"]) \in 0..2 /\ Hold(at'["net"]) \in 0..1
      /\ Hold(at'["radio"]) \in 0..1 /\ Hold(at'["sys"]) = 0
  BY HoldOfPlace DEF PlacesOK, Threads
<1>2. Holders' = Hold(at'["comm"]) + Hold(at'["net"]) + Hold(at'["radio"]) + Hold(at'["sys"])
                     + One(fota')
  BY DEF Holders, One, Hold, OuterHold, InnerHold
<1>3. QED BY <1>1, <1>2 DEF One

(* When one thread moves, the sum changes by what that thread's hold does *)
LEMMA SumChange ==
    ASSUME PlacesOK, fota \in BOOLEAN, fota' \in BOOLEAN,
           NEW t \in Threads, NEW a, IsPlace(t, a), at' = [at EXCEPT ![t] = a]
    PROVE  /\ Holders' = Holders + (Hold(a) - Hold(at[t])) + (One(fota') - One(fota))
           /\ at' \in [Threads -> Place]
           /\ \A u \in Threads : IsPlace(u, at'[u])
<1>1. /\ at' \in [Threads -> Place]
      /\ at'[t] = a
      /\ \A u \in Threads \ {t} : at'[u] = at[u]
  BY DEF PlacesOK, IsPlace
<1>2. \A u \in Threads : IsPlace(u, at'[u]) /\ Hold(at'[u]) \in Int /\ Hold(at[u]) \in Int
  BY <1>1, HoldOfPlace DEF PlacesOK
<1>3. Holders' = Hold(at'["comm"]) + Hold(at'["net"]) + Hold(at'["radio"]) + Hold(at'["sys"])
                     + One(fota')
  BY DEF Holders, One, Hold, OuterHold, InnerHold
<1>4. Holders = Hold(at["comm"]) + Hold(at["net"]) + Hold(at["radio"]) + Hold(at["sys"])
                    + One(fota)
  BY DEF Holders, One
<1>5. One(fota) \in Int /\ One(fota') \in Int
  BY DEF One
<1>6. CASE t = "comm"
  <2>1. Hold(at'["comm"]) = Hold(a) /\ Hold(at'["net"]) = Hold(at["net"])
        /\ Hold(at'["radio"]) = Hold(at["radio"]) /\ Hold(at'["sys"]) = Hold(at["sys"])
    BY <1>1, <1>6 DEF Threads
  <2>2. QED BY <2>1, <1>1, <1>2, <1>3, <1>4, <1>5, <1>6 DEF Threads
<1>7. CASE t = "net"
  <2>1. Hold(at'["net"]) = Hold(a) /\ Hold(at'["comm"]) = Hold(at["comm"])
        /\ Hold(at'["radio"]) = Hold(at["radio"]) /\ Hold(at'["sys"]) = Hold(at["sys"])
    BY <1>1, <1>7 DEF Threads
  <2>2. QED BY <2>1, <1>1, <1>2, <1>3, <1>4, <1>5, <1>7 DEF Threads
<1>8. CASE t = "radio"
  <2>1. Hold(at'["radio"]) = Hold(a) /\ Hold(at'["comm"]) = Hold(at["comm"])
        /\ Hold(at'["net"]) = Hold(at["net"]) /\ Hold(at'["sys"]) = Hold(at["sys"])
    BY <1>1, <1>8 DEF Threads
  <2>2. QED BY <2>1, <1>1, <1>2, <1>3, <1>4, <1>5, <1>8 DEF Threads
<1>9. CASE t = "sys"
  <2>1. Hold(at'["sys"]) = Hold(a) /\ Hold(at'["comm"]) = Hold(at["comm"])
        /\ Hold(at'["net"]) = Hold(at["net"]) /\ Hold(at'["radio"]) = Hold(at["radio"])
    BY <1>1, <1>9 DEF Threads
  <2>2. QED BY <2>1, <1>1, <1>2, <1>3, <1>4, <1>5, <1>9 DEF Threads
<1>10. QED BY <1>6, <1>7, <1>8, <1>9 DEF Threads

(* The DA16200 is not awake without a reason while a prepare is in use, or
   somebody is about to put it to sleep *)
LEMMA RestsIfUsed == ASSUME Counts', Holders' \in Int, Holders' >= 1 PROVE RestsWhenDone'
BY DEF Counts, CountIsExact, RestsWhenDone

LEMMA RestsIfResting ==
    ASSUME NEW t \in Threads, at'[t].phase = "rest" PROVE RestsWhenDone'
BY DEF RestsWhenDone, In

LEMMA RestsStill ==
    ASSUME RestsWhenDone, exact' => exact, cnt' = cnt, usb' = usb,
           da' = da \/ da' # "awake", left => left',
           \A u \in Threads : at[u].phase = "rest" => at'[u].phase = "rest"
    PROVE  RestsWhenDone'
BY DEF RestsWhenDone, In

-----------------------------------------------------------------------------
(* How a thread moves *)

(* To another phase of the same use of the radio *)
LEMMA GoesOn ==
    ASSUME PlacesOK, NEW t \in Threads, NEW p, Goes(t, p),
           IsPlace(t, [at[t] EXCEPT !.phase = p]), p # "rest", at[t].phase # "rest",
           UNCHANGED fota, fota \in BOOLEAN
    PROVE  /\ PlacesOK'
           /\ Holders' = Holders
           /\ \A u \in Threads : at[u].phase = "rest" => at'[u].phase = "rest"
           /\ at'[t] = [at[t] EXCEPT !.phase = p]
<1> DEFINE a == [at[t] EXCEPT !.phase = p]
<1>1. at' = [at EXCEPT ![t] = a]
  BY DEF Goes
<1>2. at[t] \in Place /\ a.job = at[t].job /\ a.inner = at[t].inner /\ a.radio = at[t].radio
      /\ a.phase = p
  BY DEF PlacesOK, Place
<1>3. Hold(a) = Hold(at[t])
  BY <1>2 DEF Hold, OuterHold, InnerHold
<1>4. Hold(at[t]) \in Int
  BY HoldOfPlace DEF PlacesOK
<1>5. /\ Holders' = Holders + (Hold(a) - Hold(at[t])) + (One(fota') - One(fota))
      /\ at' \in [Threads -> Place]
      /\ \A u \in Threads : IsPlace(u, at'[u])
  BY <1>1, SumChange
<1>6. Holders \in Int /\ One(fota) \in Int
  BY HoldersRange DEF One
<1>7. Holders' = Holders
  BY <1>3, <1>4, <1>5, <1>6
<1>8. at'[t] = a /\ \A u \in Threads \ {t} : at'[u] = at[u]
  BY <1>1 DEF PlacesOK
<1>9. at'["comm"].job = at["comm"].job
  BY <1>2, <1>8 DEF Threads
<1>10. QED BY <1>5, <1>7, <1>8, <1>9 DEF PlacesOK

(* To the end of rm_done_with_radio() *)
LEMMA GoesToRest ==
    ASSUME PlacesOK, NEW t \in Threads, Goes(t, "rest"), fota \in BOOLEAN, fota' \in BOOLEAN,
           t = "sys" \/ at[t].job # "none", t # "sys" => UNCHANGED fota, at[t].job # "sendLte" \/ at[t].inner,
           t = "sys" => (fota' => fota)
    PROVE  /\ PlacesOK'
           /\ Holders' = Holders - One(Used(at[t])) + (One(fota') - One(fota))
           /\ at'[t].phase = "rest"
<1> DEFINE a == [at[t] EXCEPT !.phase = "rest"]
<1>1. at' = [at EXCEPT ![t] = a]
  BY DEF Goes
<1>2. /\ at[t] \in Place /\ IsPlace(t, at[t])
      /\ a.job = at[t].job /\ a.inner = at[t].inner /\ a.radio = at[t].radio /\ a.phase = "rest"
  BY DEF PlacesOK, Place
<1>3. IsPlace(t, a)
  BY <1>2 DEF IsPlace, Place, Phases
<1>4. Hold(a) = Hold(at[t]) - One(Used(at[t]))
  BY <1>2 DEF Hold, OuterHold, InnerHold, Used, One, IsPlace
<1>5. Hold(at[t]) \in Int
  BY HoldOfPlace DEF PlacesOK
<1>6. /\ Holders' = Holders + (Hold(a) - Hold(at[t])) + (One(fota') - One(fota))
      /\ at' \in [Threads -> Place]
      /\ \A u \in Threads : IsPlace(u, at'[u])
  BY <1>1, <1>3, SumChange
<1>7. Holders \in Int /\ One(Used(at[t])) \in Int /\ One(fota) \in Int /\ One(fota') \in Int
  BY HoldersRange DEF One
<1>8. Holders' = Holders - One(Used(at[t])) + (One(fota') - One(fota))
  BY <1>4, <1>5, <1>6, <1>7
<1>9. at'[t] = a /\ \A u \in Threads \ {t} : at'[u] = at[u]
  BY <1>1 DEF PlacesOK
<1>10. at'["comm"].job = at["comm"].job
  BY <1>2, <1>9 DEF Threads
<1>11. at'["comm"].job = "fota" => ~fota'
  BY <1>10 DEF PlacesOK
<1>12. QED BY <1>2, <1>6, <1>8, <1>9, <1>11 DEF PlacesOK

(* Out of its use of the radio, to its caller or to the one around it *)
LEMMA Returns ==
    ASSUME PlacesOK, NEW t \in Threads, Return(t), Values, fota' \in BOOLEAN,
           at[t].job = "sendLte" => at[t].inner \/ at[t].phase = "ready",
           fota' => fota \/ (t = "comm" /\ ~at[t].inner)
    PROVE  /\ PlacesOK'
           /\ Holders' = Holders - One(Used(at[t])) + (One(fota') - One(fota))
           /\ \A u \in Threads \ {t} : at'[u] = at[u]
           /\ at'[t].phase # "rest"
           /\ active' = active /\ wifiOn' = wifiOn /\ usb' = usb /\ mgmt' = mgmt
           /\ connecting' \in BOOLEAN /\ mutex' \in {NoOne, "radio"}
<1> DEFINE a == AfterUse(t)
<1>1. at' = [at EXCEPT ![t] = a]
  BY DEF Return
<1>2. at[t] \in Place /\ IsPlace(t, at[t])
  BY DEF PlacesOK
<1>5. IsPlace(t, a) /\ Hold(a) = Hold(at[t]) - One(Used(at[t])) /\ a.phase # "rest" /\ a.job # "fota"
  <2>1. CASE at[t].inner
    <3>1. a.job = at[t].job /\ ~a.inner /\ a.radio = DA /\ a.phase = "ready" /\ a \in Place
      BY <1>2, <2>1 DEF AfterUse, Place, Phases
    <3>2. IsPlace(t, a)
      BY <1>2, <2>1, <3>1 DEF IsPlace
    <3>3. Hold(a) = Hold(at[t]) - One(Used(at[t]))
      BY <1>2, <2>1, <3>1 DEF IsPlace, Hold, OuterHold, InnerHold, Used, One
    <3>4. a.job # "fota"
      BY <1>2, <2>1, <3>1 DEF IsPlace
    <3>5. QED BY <3>1, <3>2, <3>3, <3>4
  <2>2. CASE ~at[t].inner
    <3>1. a = Idle
      BY <2>2 DEF AfterUse
    <3>2. a.job = "none" /\ ~a.inner /\ a.radio = DA /\ a.phase = "idle" /\ a \in Place
      BY <3>1 DEF Idle, Place, Jobs, Phases
    <3>3. IsPlace(t, a)
      BY <3>2 DEF IsPlace
    <3>4. Hold(a) = Hold(at[t]) - One(Used(at[t]))
      BY <1>2, <2>2, <3>2 DEF IsPlace, Hold, OuterHold, InnerHold, Used, One
    <3>5. QED BY <3>2, <3>3, <3>4
  <2>3. QED BY <2>1, <2>2
<1>6. Hold(at[t]) \in Int
  BY HoldOfPlace DEF PlacesOK
<1>7. fota \in BOOLEAN
  BY DEF Values
<1>8. /\ Holders' = Holders + (Hold(a) - Hold(at[t])) + (One(fota') - One(fota))
      /\ at' \in [Threads -> Place]
      /\ \A u \in Threads : IsPlace(u, at'[u])
  BY <1>1, <1>5, <1>7, SumChange
<1>9. Holders \in Int /\ One(Used(at[t])) \in Int /\ One(fota) \in Int /\ One(fota') \in Int
  BY <1>7, HoldersRange DEF One
<1>10. Holders' = Holders - One(Used(at[t])) + (One(fota') - One(fota))
  BY <1>5, <1>6, <1>8, <1>9
<1>11. at'[t] = a /\ \A u \in Threads \ {t} : at'[u] = at[u]
  BY <1>1 DEF PlacesOK
<1>12. at'["comm"].job = "fota" => ~fota'
  <2>1. CASE t = "comm"
    BY <2>1, <1>5, <1>11
  <2>2. CASE t # "comm"
    BY <2>2, <1>11 DEF PlacesOK, Threads
  <2>3. QED BY <2>1, <2>2
<1>13. /\ active' = active /\ wifiOn' = wifiOn /\ usb' = usb /\ mgmt' = mgmt
       /\ connecting' \in BOOLEAN /\ mutex' \in {NoOne, "radio"}
  BY DEF Return, Values
<1>14. QED BY <1>5, <1>8, <1>10, <1>11, <1>12, <1>13 DEF PlacesOK

-----------------------------------------------------------------------------
(* The count *)

ModesOK ==
    /\ active' = active /\ wifiOn' = wifiOn /\ usb' = usb /\ mgmt' = mgmt
    /\ connecting' \in BOOLEAN /\ mutex' \in {NoOne, "radio"}

(* The difference stays within the number of unmatched calls *)
LEMMA CountsAfter ==
    ASSUME Counts, Holders \in Int, Holders' \in Int, cnt' \in Int,
           events \in Int, events' \in Int, events' >= events, exact' => exact,
           exact' => cnt' - Holders' = cnt - Holders,
           \/ cnt' - Holders' = cnt - Holders
           \/ cnt' - Holders' = (cnt - Holders) - 1 /\ events' = events + 1
           \/ cnt' - Holders' = (cnt - Holders) + 1 /\ events' = events + 1
           \/ cnt' - Holders' = (cnt - Holders) + 1 /\ cnt - Holders < 0
    PROVE  Counts'
<1>1. PICK n \in Int, n2 \in Int, c \in Int, c2 \in Int, e \in Int, e2 \in Int :
          n = Holders /\ n2 = Holders' /\ c = cnt /\ c2 = cnt' /\ e = events /\ e2 = events'
  BY DEF Counts
<1>2. c - n >= 0 - e /\ c - n <= e /\ e2 >= e
  BY <1>1 DEF Counts
<1>3. \/ c2 - n2 = c - n
      \/ c2 - n2 = (c - n) - 1 /\ e2 = e + 1
      \/ c2 - n2 = (c - n) + 1 /\ e2 = e + 1
      \/ c2 - n2 = (c - n) + 1 /\ c - n < 0
  BY <1>1
<1>4. c2 - n2 >= 0 - e2 /\ c2 - n2 <= e2
  BY <1>2, <1>3
<1>5. ASSUME exact' PROVE c2 = n2
  <2>1. c = n /\ c2 - n2 = c - n
    BY <1>1, <1>5 DEF Counts, CountIsExact
  <2>2. QED BY <2>1
<1>6. QED BY <1>1, <1>4, <1>5 DEF Counts, CountIsExact

(* A done takes back what its thread, or the update, holds *)
LEMMA DoneKeeps ==
    ASSUME Inv, NEW t \in Threads, Done(t), fota' \in BOOLEAN,
           One(Used(at[t])) + One(fota) - One(fota') = 1,
           t # "sys" => UNCHANGED fota,
           events' \in 0..MaxEvents, events' >= events
    PROVE  PlacesOK' /\ Counts' /\ RestsWhenDone' /\ ModesOK /\ exact' = exact
<1>1. PlacesOK /\ Values /\ Counts /\ fota \in BOOLEAN /\ exact \in BOOLEAN /\ IsPlace(t, at[t])
  BY DEF Inv, Values, PlacesOK
<1>2. Holders \in 0..5
  BY <1>1, HoldersRange
<1>3. /\ at[t].job # "sendLte" \/ at[t].inner
      /\ at[t].job = "sendLte" => at[t].inner \/ at[t].phase = "ready"
      /\ t = "sys" \/ at[t].job # "none"
      /\ fota' => fota
  BY <1>1 DEF IsPlace, Used, One
<1>4. events \in Int /\ events' \in Int /\ events' >= events /\ cnt \in Int
  BY <1>1, RefsAssumption DEF Values, Counts
<1>5. CASE cnt <= 0
  <2>1. Return(t) /\ cnt' = cnt /\ exact' = exact
    BY <1>5 DEF Done
  <2>2. /\ PlacesOK' /\ ModesOK
        /\ Holders' = Holders - One(Used(at[t])) + (One(fota') - One(fota))
    BY <1>1, <1>3, <2>1, Returns DEF ModesOK
  <2>3. Holders' = Holders - 1
    BY <1>2, <2>2 DEF One
  <2>4. Holders' \in 0..5
    BY <2>2, HoldersRangeNext
  <2>5. ~exact
    BY <1>1, <1>2, <1>5, <2>3, <2>4 DEF Counts, CountIsExact
  <2>6. Counts'
    BY <1>1, <1>2, <1>4, <1>5, <2>1, <2>3, <2>4, <2>5, CountsAfter
  <2>7. QED BY <2>1, <2>2, <2>5, <2>6 DEF RestsWhenDone
<1>6. CASE cnt = 1
  <2>1. Goes(t, "rest") /\ UNCHANGED modes /\ cnt' = cnt - 1 /\ exact' = exact
    BY <1>6 DEF Done, Uncounted
  <2>2. /\ PlacesOK' /\ at'[t].phase = "rest"
        /\ Holders' = Holders - One(Used(at[t])) + (One(fota') - One(fota))
    BY <1>1, <1>3, <2>1, GoesToRest
  <2>3. Holders' = Holders - 1
    BY <1>2, <2>2 DEF One
  <2>4. Counts'
    BY <1>1, <1>2, <1>4, <2>1, <2>3, CountsAfter
  <2>5. ModesOK
    BY <1>1, <2>1 DEF ModesOK, modes, Values
  <2>6. QED BY <2>1, <2>2, <2>4, <2>5, RestsIfResting
<1>7. CASE cnt > 1
  <2>1. Return(t) /\ cnt' = cnt - 1 /\ exact' = exact
    BY <1>7, <1>1 DEF Done, Uncounted, Counts
  <2>2. /\ PlacesOK' /\ ModesOK
        /\ Holders' = Holders - One(Used(at[t])) + (One(fota') - One(fota))
    BY <1>1, <1>3, <2>1, Returns DEF ModesOK
  <2>3. Holders' = Holders - 1
    BY <1>2, <2>2 DEF One
  <2>4. Counts'
    BY <1>1, <1>2, <1>4, <2>1, <2>3, CountsAfter
  <2>5. RestsWhenDone'
    BY <1>1, <1>7, <2>1 DEF RestsWhenDone, Counts
  <2>6. QED BY <2>1, <2>2, <2>4, <2>5
<1>8. QED BY <1>1, <1>5, <1>6, <1>7 DEF Counts

(* One too many, or of the other radio: one event, and nothing is taken back
   that the thread holds *)
LEMMA DoneTooManyKeeps ==
    ASSUME Inv, NEW t \in Threads, DoneTooMany(t), UNCHANGED fota,
           ~Used(at[t]), at[t].inner \/ t = "sys", events' = events + 1
    PROVE  PlacesOK' /\ Counts' /\ RestsWhenDone' /\ ModesOK /\ exact' = FALSE
<1>1. PlacesOK /\ Values /\ Counts /\ fota \in BOOLEAN /\ fota' = fota /\ IsPlace(t, at[t])
  BY DEF Inv, Values, PlacesOK
<1>2. Holders \in 0..5
  BY <1>1, HoldersRange
<1>3. /\ at[t].job # "sendLte" \/ at[t].inner
      /\ t = "sys" \/ at[t].job # "none"
  BY <1>1 DEF IsPlace
<1>4. events \in Int /\ events' = events + 1 /\ exact' = FALSE /\ cnt \in Int
  BY <1>1 DEF Values, Counts, DoneTooMany
<1>5. One(Used(at[t])) = 0 /\ One(fota') = One(fota) /\ One(fota) \in Int
  BY <1>1 DEF One
<1>6. CASE Return(t)
  <2>1. /\ PlacesOK' /\ ModesOK
        /\ Holders' = Holders - One(Used(at[t])) + (One(fota') - One(fota))
    BY <1>1, <1>3, <1>6, Returns DEF ModesOK
  <2>2. Holders' = Holders
    BY <1>2, <1>5, <2>1
  <2>3. cnt' = cnt \/ cnt' = cnt - 1
    BY DEF DoneTooMany
  <2>4. Counts'
    BY <1>1, <1>2, <1>4, <2>2, <2>3, CountsAfter
  <2>5. QED BY <1>4, <2>1, <2>4 DEF RestsWhenDone
<1>7. CASE Goes(t, "rest") /\ UNCHANGED modes
  <2>1. /\ PlacesOK'
        /\ Holders' = Holders - One(Used(at[t])) + (One(fota') - One(fota))
    BY <1>1, <1>3, <1>7, GoesToRest
  <2>2. Holders' = Holders
    BY <1>2, <1>5, <2>1
  <2>3. cnt' = cnt \/ cnt' = cnt - 1
    BY DEF DoneTooMany
  <2>4. Counts'
    BY <1>1, <1>2, <1>4, <2>2, <2>3, CountsAfter
  <2>5. ModesOK
    BY <1>1, <1>7 DEF ModesOK, modes, Values
  <2>6. QED BY <1>4, <2>1, <2>4, <2>5 DEF RestsWhenDone
<1>8. QED BY <1>6, <1>7 DEF DoneTooMany

(* A prepare that fails *)
LEMMA PrepareFailsKeeps ==
    ASSUME Inv, NEW t \in Threads, PrepareFails(t), at[t].phase \in {"wake", "broker"},
           events' \in 0..MaxEvents, events' >= events
    PROVE  Inv'
<1>1. PlacesOK /\ Values /\ Counts /\ fota \in BOOLEAN /\ fota' = fota /\ IsPlace(t, at[t])
  BY DEF Inv, Values, PlacesOK, PrepareFails
<1>2. Holders \in 0..5 /\ events \in Int /\ events' \in Int /\ cnt \in Int
  BY <1>1, HoldersRange, RefsAssumption DEF Values, Counts
<1>3. Used(at[t]) /\ (at[t].job = "sendLte" => at[t].inner)
  BY <1>1 DEF Used, IsPlace
<1>4. Return(t) /\ cnt' = cnt - 1 /\ exact' = exact /\ left' = TRUE /\ da' = da /\ conn' = conn
  BY DEF PrepareFails, Uncounted
<1>5. /\ PlacesOK' /\ ModesOK
      /\ Holders' = Holders - One(Used(at[t])) + (One(fota') - One(fota))
  BY <1>1, <1>3, <1>4, Returns DEF ModesOK
<1>6. Holders' = Holders - 1
  BY <1>1, <1>2, <1>3, <1>5 DEF One
<1>7. Counts'
  BY <1>1, <1>2, <1>4, <1>6, CountsAfter
<1>8. Values'
  BY <1>1, <1>4, <1>5 DEF Values, ModesOK
<1>9. RestsWhenDone'
  BY <1>4 DEF RestsWhenDone
<1>10. QED BY <1>5, <1>7, <1>8, <1>9 DEF Inv

(* A prepare that begins *)
LEMMA CountedKeeps ==
    ASSUME Inv, NEW t \in Threads, NEW a, IsPlace(t, a), at' = [at EXCEPT ![t] = a],
           Hold(a) = Hold(at[t]) + 1, a.job = "fota" => ~fota,
           Counted, UNCHANGED <<fota, events>>
    PROVE  PlacesOK' /\ Counts' /\ RestsWhenDone'
<1>1. PlacesOK /\ Counts /\ fota \in BOOLEAN /\ fota' = fota
      /\ events \in Int /\ events' = events /\ cnt \in Int
  BY DEF Inv, Values, Counts
<1>2. /\ Holders' = Holders + (Hold(a) - Hold(at[t])) + (One(fota') - One(fota))
      /\ at' \in [Threads -> Place]
      /\ \A u \in Threads : IsPlace(u, at'[u])
  BY <1>1, SumChange
<1>3. Hold(at[t]) \in Int /\ Holders \in 0..5 /\ One(fota) \in Int
  BY <1>1, HoldOfPlace, HoldersRange DEF PlacesOK, One
<1>4. Holders' = Holders + 1
  BY <1>1, <1>2, <1>3
<1>5. cnt' = cnt + 1 /\ exact' = exact
  BY DEF Counted
<1>6. Counts'
  BY <1>1, <1>3, <1>4, <1>5, CountsAfter
<1>7. at'["comm"].job = "fota" => ~fota'
  BY <1>1 DEF PlacesOK, Threads
<1>8. PlacesOK'
  BY <1>2, <1>7 DEF PlacesOK
<1>9. QED BY <1>3, <1>4, <1>6, <1>8, RestsIfUsed

(* Another phase of a use, while the count stays *)
LEMMA MovesOn ==
    ASSUME Inv, NEW t \in Threads, NEW p, Goes(t, p),
           IsPlace(t, [at[t] EXCEPT !.phase = p]), p # "rest", at[t].phase # "rest",
           UNCHANGED refs, events' \in 0..MaxEvents, events' >= events
    PROVE  /\ PlacesOK' /\ Counts'
           /\ Used(at[t]) => RestsWhenDone'
           /\ \A u \in Threads : at[u].phase = "rest" => at'[u].phase = "rest"
<1>1. PlacesOK /\ Counts /\ fota \in BOOLEAN /\ fota' = fota /\ cnt' = cnt /\ exact' = exact
      /\ events \in Int /\ events' \in Int /\ cnt \in Int
  BY RefsAssumption DEF Inv, Values, Counts, refs
<1>2. /\ PlacesOK' /\ Holders' = Holders
      /\ \A u \in Threads : at[u].phase = "rest" => at'[u].phase = "rest"
  BY <1>1, GoesOn
<1>3. Holders \in 0..5 /\ (Used(at[t]) => Holders >= 1)
  BY <1>1, HoldersRange
<1>4. Counts'
  BY <1>1, <1>2, <1>3, CountsAfter
<1>5. QED BY <1>2, <1>3, <1>4, RestsIfUsed

(* A use that does not hold the DA16200 ends *)
LEMMA ReturnKeeps ==
    ASSUME Inv, NEW t \in Threads, Return(t), ~Used(at[t]), at[t].phase # "rest",
           at[t].job = "sendLte" => at[t].inner \/ at[t].phase = "ready",
           UNCHANGED refs, UNCHANGED <<da, left, events>>
    PROVE  PlacesOK' /\ Counts' /\ RestsWhenDone' /\ ModesOK
<1>1. PlacesOK /\ Values /\ Counts /\ fota \in BOOLEAN /\ fota' = fota /\ cnt' = cnt /\ exact' = exact
      /\ events \in Int /\ events' = events /\ cnt \in Int
  BY DEF Inv, Values, Counts, refs
<1>2. /\ PlacesOK' /\ ModesOK
      /\ Holders' = Holders - One(Used(at[t])) + (One(fota') - One(fota))
      /\ \A u \in Threads \ {t} : at'[u] = at[u]
  BY <1>1, Returns DEF ModesOK
<1>3. Holders \in 0..5 /\ One(fota) \in Int /\ One(Used(at[t])) = 0
  BY <1>1, HoldersRange DEF One
<1>4. Holders' = Holders
  BY <1>1, <1>2, <1>3
<1>5. Counts'
  BY <1>1, <1>3, <1>4, CountsAfter
<1>6. \A u \in Threads : at[u].phase = "rest" => at'[u].phase = "rest"
  BY <1>2
<1>7. RestsWhenDone'
  BY <1>1, <1>2, <1>6, RestsStill DEF Inv, ModesOK
<1>8. QED BY <1>2, <1>5, <1>7

(* What does not touch threads and count *)
LEMMA ElseKeeps ==
    ASSUME Inv, UNCHANGED refs, UNCHANGED at, events' \in 0..MaxEvents, events' >= events
    PROVE  /\ PlacesOK' /\ Counts'
           /\ (usb' = usb /\ (da' = da \/ da' # "awake") /\ (left => left')) => RestsWhenDone'
           /\ left' => RestsWhenDone'
           /\ da' # "awake" => RestsWhenDone'
           /\ usb' => RestsWhenDone'
<1>1. PlacesOK /\ Counts /\ fota \in BOOLEAN /\ fota' = fota /\ cnt' = cnt /\ exact' = exact
      /\ events \in Int /\ events' \in Int /\ cnt \in Int /\ at' = at
  BY RefsAssumption DEF Inv, Values, Counts, refs
<1>2. PlacesOK'
  BY <1>1 DEF PlacesOK
<1>3. Holders' = Holders /\ Holders \in 0..5
  BY <1>1, HoldersRange DEF Holders, Hold, OuterHold, InnerHold
<1>4. Counts'
  BY <1>1, <1>3, CountsAfter
<1>5. QED BY <1>1, <1>2, <1>4, RestsStill DEF RestsWhenDone, Inv

-----------------------------------------------------------------------------
(* The steps of rm_prepare_radio_for_use() and rm_done_with_radio() *)

LEMMA EventsStay == ASSUME Inv, NoEvent PROVE events' = events /\ events' \in 0..MaxEvents /\ events' >= events
BY RefsAssumption DEF Inv, Values, NoEvent

LEMMA EventsGrow == ASSUME Inv, Event PROVE events' = events + 1 /\ events' \in 0..MaxEvents /\ events' >= events
BY RefsAssumption DEF Inv, Values, Event

LEMMA EventsSame == ASSUME Inv, events' = events PROVE events' \in 0..MaxEvents /\ events' >= events
BY RefsAssumption DEF Inv, Values

LEMMA BeginKeeps ==
    ASSUME Inv, NEW t \in Threads, NEW j \in Jobs \ {"none", "sendLte"}, Begin(t, j),
           t # "sys", j = "fota" => ~fota
    PROVE  Inv'
<1> DEFINE a == [Idle EXCEPT !.job = j, !.phase = "power"]
<1>1. at' = [at EXCEPT ![t] = a] /\ at[t].phase = "idle" /\ Counted
      /\ UNCHANGED <<fota, events>> /\ UNCHANGED <<fota, radio, modes, events>>
  BY DEF Begin, In
<1>2. a \in Place /\ a.job = j /\ a.phase = "power" /\ ~a.inner
  BY DEF Idle, Place, Phases
<1>3. IsPlace(t, a)
  BY <1>2 DEF IsPlace
<1>4. Hold(a) = 1
  BY <1>2 DEF Hold, OuterHold, InnerHold
<1>5. Hold(at[t]) = 0
  BY <1>1, HoldOfPlace DEF Inv, PlacesOK
<1>6. Hold(a) = Hold(at[t]) + 1 /\ (a.job = "fota" => ~fota)
  BY <1>2, <1>4, <1>5
<1> HIDE DEF a
<1>7. PlacesOK' /\ Counts' /\ RestsWhenDone'
  BY <1>1, <1>3, <1>6, CountedKeeps
<1>8. Values'
  BY <1>1 DEF Inv, Values, Counted, radio, modes
<1>9. QED BY <1>7, <1>8 DEF Inv

LEMMA PowerUpKeeps == ASSUME Inv, NEW t \in Threads, PowerUp(t) PROVE Inv'
<1>1. at[t].phase = "power" /\ IsPlace(t, at[t]) /\ at[t] \in Place
  BY DEF PowerUp, In, Inv, PlacesOK
<1>2. Goes(t, "wake") /\ UNCHANGED refs /\ UNCHANGED <<refs, conn, left, modes, events>>
      /\ da' = (IF mgmt /\ da = "off" THEN "awake" ELSE da)
  BY DEF PowerUp
<1>3. IsPlace(t, [at[t] EXCEPT !.phase = "wake"]) /\ Used(at[t])
  BY <1>1 DEF IsPlace, Place, Phases, Used
<1>4. events' \in 0..MaxEvents /\ events' >= events
  BY <1>2, RefsAssumption DEF Inv, Values
<1>5. PlacesOK' /\ Counts' /\ RestsWhenDone'
  BY <1>1, <1>2, <1>3, <1>4, MovesOn
<1>6. Values'
  BY <1>2 DEF Inv, Values, refs, modes
<1>7. QED BY <1>5, <1>6 DEF Inv

LEMMA WakeUpKeeps == ASSUME Inv, NEW t \in Threads, WakeUp(t) PROVE Inv'
<1>1. at[t].phase = "wake" /\ IsPlace(t, at[t]) /\ at[t] \in Place
  BY DEF WakeUp, In, Inv, PlacesOK
<1>2. CASE /\ da' = (IF mgmt THEN "awake" ELSE da)
           /\ Goes(t, IF NeedsBroker(t) THEN "broker" ELSE "using")
           /\ NoEvent
           /\ UNCHANGED <<refs, conn, left, modes>>
  <2> DEFINE p == IF NeedsBroker(t) THEN "broker" ELSE "using"
  <2>1. IsPlace(t, [at[t] EXCEPT !.phase = p]) /\ Used(at[t]) /\ p # "rest"
    BY <1>1 DEF IsPlace, Place, Phases, Used
  <2>2. Goes(t, p) /\ UNCHANGED refs
    BY <1>2 DEF refs
  <2>3. PlacesOK' /\ Counts' /\ RestsWhenDone'
    BY <1>1, <1>2, <2>1, <2>2, EventsStay, MovesOn
  <2>4. Values'
    BY <1>2, EventsStay DEF Inv, Values, refs, modes
  <2>5. QED BY <2>3, <2>4 DEF Inv
<1>3. CASE PrepareFails(t) /\ (Event \/ NoEvent)
  BY <1>1, <1>3, PrepareFailsKeeps, EventsStay, EventsGrow
<1>4. QED BY <1>2, <1>3 DEF WakeUp

LEMMA BrokerIsThereKeeps == ASSUME Inv, NEW t \in Threads, BrokerIsThere(t) PROVE Inv'
<1>1. at[t].phase = "broker" /\ IsPlace(t, at[t]) /\ at[t] \in Place
  BY DEF BrokerIsThere, In, Inv, PlacesOK
<1>2. Goes(t, "using") /\ UNCHANGED refs /\ UNCHANGED <<refs, radio, modes, events>>
  BY DEF BrokerIsThere
<1>3. IsPlace(t, [at[t] EXCEPT !.phase = "using"]) /\ Used(at[t])
  BY <1>1 DEF IsPlace, Place, Phases, Used
<1>4. events' \in 0..MaxEvents /\ events' >= events
  BY <1>2, RefsAssumption DEF Inv, Values
<1>5. PlacesOK' /\ Counts' /\ RestsWhenDone'
  BY <1>1, <1>2, <1>3, <1>4, MovesOn
<1>6. Values'
  BY <1>2 DEF Inv, Values, refs, radio, modes
<1>7. QED BY <1>5, <1>6 DEF Inv

LEMMA BrokerTimesOutKeeps == ASSUME Inv, NEW t \in Threads, BrokerTimesOut(t) PROVE Inv'
BY PrepareFailsKeeps, EventsStay DEF BrokerTimesOut, In

(* return_da_to_sleep() leaves the DA16200 awake only where it says so *)
LEMMA ReturnedToSleep ==
    ASSUME Inv, NEW t \in Threads, ReturnDaToSleep(t)
    PROVE  /\ da' # "awake" \/ left' \/ (usb /\ UNCHANGED radio)
           /\ da' \in {"off", "asleep", "awake"} /\ conn' \in {"none", "ap", "broker"} /\ left' \in BOOLEAN
           /\ Event \/ NoEvent
BY DEF ReturnDaToSleep, LeftAwake, Sleeps, TurnedOff, radio, Inv, Values

LEMMA RestKeeps == ASSUME Inv, NEW t \in Threads, Rest(t) PROVE Inv'
<1>1. at[t].phase = "rest" /\ IsPlace(t, at[t]) /\ PlacesOK /\ Values /\ Counts
  BY DEF Rest, In, Inv, PlacesOK
<1>2. ReturnDaToSleep(t) /\ Return(t) /\ fota' = fota /\ cnt' = cnt /\ exact' = exact
  BY DEF Rest, refs
<1>3. ~Used(at[t]) /\ (at[t].job = "sendLte" => at[t].inner)
  BY <1>1 DEF Used, IsPlace
<1>4. /\ PlacesOK' /\ ModesOK
      /\ Holders' = Holders - One(Used(at[t])) + (One(fota') - One(fota))
  BY <1>1, <1>2, <1>3, Returns DEF ModesOK, Values
<1>5. Holders \in 0..5 /\ One(fota) \in Int /\ One(Used(at[t])) = 0
  BY <1>1, <1>3, HoldersRange DEF One, Values
<1>6. Holders' = Holders
  BY <1>2, <1>4, <1>5
<1>7. events \in Int /\ events' \in 0..MaxEvents /\ events' \in Int /\ events' >= events /\ cnt \in Int
  BY <1>1, <1>2, ReturnedToSleep, EventsStay, EventsGrow, RefsAssumption DEF Values, Counts
<1>8. Counts'
  BY <1>1, <1>2, <1>5, <1>6, <1>7, CountsAfter
<1>9. Values'
  BY <1>1, <1>2, <1>4, <1>7, ReturnedToSleep DEF Values, ModesOK
<1>10. RestsWhenDone'
  BY <1>2, <1>4, ReturnedToSleep DEF RestsWhenDone, ModesOK
<1>11. QED BY <1>4, <1>8, <1>9, <1>10 DEF Inv

-----------------------------------------------------------------------------
(* The users *)

LEMMA ScanFailsKeeps == ASSUME Inv, ScanFails PROVE Inv'
<1>1. /\ IsPlace("comm", at["comm"]) /\ "comm" \in Threads /\ Used(at["comm"]) /\ "comm" # "sys"
      /\ Done("comm") /\ UNCHANGED fota /\ UNCHANGED <<da, left>> /\ conn' \in {"none", "ap", "broker"}
  BY DEF ScanFails, Uses, Does, Inv, Values, PlacesOK, Used, IsPlace, Threads, In, radio
<1>2. events' \in 0..MaxEvents /\ events' >= events
  BY EventsGrow DEF ScanFails
<1>3. fota \in BOOLEAN /\ fota' \in BOOLEAN /\ One(Used(at["comm"])) + One(fota) - One(fota') = 1
  BY <1>1 DEF Inv, Values, One
<1>4. PlacesOK' /\ Counts' /\ RestsWhenDone' /\ ModesOK /\ exact' = exact
  BY <1>1, <1>2, <1>3, DoneKeeps
<1>5. Values'
  BY <1>1, <1>2, <1>4 DEF Inv, Values, ModesOK
<1>6. QED BY <1>4, <1>5 DEF Inv

LEMMA MessageReadKeeps == ASSUME Inv, MessageRead PROVE Inv'
<1>1. /\ IsPlace("net", at["net"]) /\ "net" \in Threads /\ Used(at["net"]) /\ "net" # "sys"
      /\ Done("net") /\ UNCHANGED fota /\ UNCHANGED <<da, left>> /\ conn' \in {"none", "ap", "broker"}
  BY DEF MessageRead, Uses, Does, Inv, Values, PlacesOK, Used, IsPlace, Threads, In, radio
<1>2. events' \in 0..MaxEvents /\ events' >= events
  BY EventsSame DEF MessageRead
<1>3. fota \in BOOLEAN /\ fota' \in BOOLEAN /\ One(Used(at["net"])) + One(fota) - One(fota') = 1
  BY <1>1 DEF Inv, Values, One
<1>4. PlacesOK' /\ Counts' /\ RestsWhenDone' /\ ModesOK /\ exact' = exact
  BY <1>1, <1>2, <1>3, DoneKeeps
<1>5. Values'
  BY <1>1, <1>2, <1>4 DEF Inv, Values, ModesOK
<1>6. QED BY <1>4, <1>5 DEF Inv

LEMMA ConnectedKeeps == ASSUME Inv, Connected PROVE Inv'
<1>1. /\ IsPlace("radio", at["radio"]) /\ "radio" \in Threads /\ Used(at["radio"]) /\ "radio" # "sys"
      /\ Done("radio") /\ UNCHANGED fota /\ UNCHANGED <<da, left>> /\ conn' \in {"none", "ap", "broker"}
  BY DEF Connected, Uses, Does, Inv, Values, PlacesOK, Used, IsPlace, Threads, In, radio
<1>2. events' \in 0..MaxEvents /\ events' >= events
  BY EventsSame DEF Connected
<1>3. fota \in BOOLEAN /\ fota' \in BOOLEAN /\ One(Used(at["radio"])) + One(fota) - One(fota') = 1
  BY <1>1 DEF Inv, Values, One
<1>4. PlacesOK' /\ Counts' /\ RestsWhenDone' /\ ModesOK /\ exact' = exact
  BY <1>1, <1>2, <1>3, DoneKeeps
<1>5. Values'
  BY <1>1, <1>2, <1>4 DEF Inv, Values, ModesOK
<1>6. QED BY <1>4, <1>5 DEF Inv

LEMMA BrokerOffKeeps == ASSUME Inv, BrokerOff PROVE Inv'
<1>1. /\ IsPlace("radio", at["radio"]) /\ "radio" \in Threads /\ Used(at["radio"]) /\ "radio" # "sys"
      /\ Done("radio") /\ UNCHANGED fota /\ UNCHANGED <<da, left>> /\ conn' \in {"none", "ap", "broker"}
  BY DEF BrokerOff, Uses, Does, Inv, Values, PlacesOK, Used, IsPlace, Threads, In, radio
<1>2. events' \in 0..MaxEvents /\ events' >= events
  BY EventsSame DEF BrokerOff
<1>3. fota \in BOOLEAN /\ fota' \in BOOLEAN /\ One(Used(at["radio"])) + One(fota) - One(fota') = 1
  BY <1>1 DEF Inv, Values, One
<1>4. PlacesOK' /\ Counts' /\ RestsWhenDone' /\ ModesOK /\ exact' = exact
  BY <1>1, <1>2, <1>3, DoneKeeps
<1>5. Values'
  BY <1>1, <1>2, <1>4 DEF Inv, Values, ModesOK
<1>6. QED BY <1>4, <1>5 DEF Inv

LEMMA OnboardedDoneKeeps == ASSUME Inv, OnboardedDone PROVE Inv'
<1>1. /\ IsPlace("comm", at["comm"]) /\ "comm" \in Threads /\ Used(at["comm"]) /\ "comm" # "sys"
      /\ Done("comm") /\ UNCHANGED fota /\ UNCHANGED <<da, left>> /\ conn' \in {"none", "ap", "broker"}
  BY DEF OnboardedDone, Does, Inv, Values, PlacesOK, Used, IsPlace, Threads, In, radio
<1>2. events' \in 0..MaxEvents /\ events' >= events
  BY EventsSame DEF OnboardedDone
<1>3. fota \in BOOLEAN /\ fota' \in BOOLEAN /\ One(Used(at["comm"])) + One(fota) - One(fota') = 1
  BY <1>1 DEF Inv, Values, One
<1>4. PlacesOK' /\ Counts' /\ RestsWhenDone' /\ ModesOK /\ exact' = exact
  BY <1>1, <1>2, <1>3, DoneKeeps
<1>5. Values'
  BY <1>1, <1>2, <1>4 DEF Inv, Values, ModesOK
<1>6. QED BY <1>4, <1>5 DEF Inv

LEMMA OuterDoneKeeps == ASSUME Inv, OuterDone PROVE Inv'
<1>1. /\ IsPlace("comm", at["comm"]) /\ "comm" \in Threads /\ at["comm"].phase = "ready"
      /\ ~at["comm"].inner /\ UNCHANGED fota /\ UNCHANGED <<da, left>> /\ conn' = conn
  BY DEF OuterDone, Inv, PlacesOK, Threads, In, radio
<1>2. events' = events /\ events' \in 0..MaxEvents /\ events' >= events
  BY EventsSame DEF OuterDone
<1>3. fota \in BOOLEAN /\ fota' \in BOOLEAN /\ One(fota) = One(fota') /\ One(fota) \in Int
  BY <1>1 DEF Inv, Values, One
<1>4. CASE at["comm"].job \in {"scan", "send"} /\ Done("comm")
  <2>1. One(Used(at["comm"])) + One(fota) - One(fota') = 1
    BY <1>1, <1>3, <1>4 DEF Used, One
  <2>2. PlacesOK' /\ Counts' /\ RestsWhenDone' /\ ModesOK /\ exact' = exact
    BY <1>1, <1>2, <1>3, <1>4, <2>1, DoneKeeps
  <2>3. Values'
    BY <1>1, <1>2, <2>2 DEF Inv, Values, ModesOK
  <2>4. QED BY <2>2, <2>3 DEF Inv
<1>5. CASE at["comm"].job = "sendLte" /\ Return("comm") /\ UNCHANGED <<cnt, exact>>
  <2>1. ~Used(at["comm"]) /\ UNCHANGED refs
    BY <1>1, <1>5 DEF Used, refs
  <2>2. PlacesOK' /\ Counts' /\ RestsWhenDone' /\ ModesOK
    BY <1>1, <1>2, <1>5, <2>1, ReturnKeeps
  <2>3. Values'
    BY <1>1, <1>2, <1>5, <2>2 DEF Inv, Values, ModesOK
  <2>4. QED BY <2>2, <2>3 DEF Inv
<1>6. QED BY <1>4, <1>5 DEF OuterDone, Does

(* A use that ends without its done *)
LEMMA LeaksKeep ==
    ASSUME Inv, NEW t \in Threads, t # "sys", Return(t), Used(at[t]), exact' = FALSE,
           UNCHANGED <<cnt, fota, da, conn, left>>, Event
    PROVE  Inv'
<1>1. PlacesOK /\ Values /\ Counts /\ IsPlace(t, at[t]) /\ fota' = fota /\ fota \in BOOLEAN
  BY DEF Inv, PlacesOK, Values
<1>2. /\ Return(t) /\ fota' \in BOOLEAN /\ (fota' => fota) /\ One(fota') = One(fota)
      /\ at[t].job = "sendLte" => at[t].inner \/ at[t].phase = "ready"
  BY <1>1 DEF Used
<1>3. /\ PlacesOK' /\ ModesOK
      /\ Holders' = Holders - One(Used(at[t])) + (One(fota') - One(fota))
  BY <1>1, <1>2, Returns DEF ModesOK
<1>4. Holders \in 0..5 /\ One(fota) \in Int /\ One(Used(at[t])) = 1
  BY <1>1, HoldersRange DEF One
<1>5. Holders' = Holders - 1
  <2>1. One(fota') - One(fota) = 0
    BY <1>2, <1>4
  <2>2. Holders' = Holders - 1 + 0
    BY <1>3, <1>4, <2>1
  <2>3. QED BY <1>4, <2>2
<1>6. events \in Int /\ events' = events + 1 /\ events' \in 0..MaxEvents /\ cnt \in Int /\ cnt' = cnt
  BY <1>1, EventsGrow DEF Values, Counts
<1>7. Counts'
  BY <1>1, <1>4, <1>5, <1>6, CountsAfter
<1>8. Values'
  BY <1>1, <1>3, <1>6 DEF Values, ModesOK
<1>9. QED BY <1>3, <1>7, <1>8 DEF Inv, RestsWhenDone

LEMMA WmdKeeps == ASSUME Inv, Wmd PROVE Inv'
<1>1. /\ IsPlace("comm", at["comm"]) /\ "comm" \in Threads /\ Used(at["comm"]) /\ "comm" # "sys"
      /\ UNCHANGED fota /\ UNCHANGED <<da, left>> /\ conn' = conn
  BY DEF Wmd, Uses, Does, Inv, PlacesOK, Used, Threads, radio
<1>2. CASE Done("comm") /\ NoEvent
  <2>1. fota \in BOOLEAN /\ fota' \in BOOLEAN /\ One(Used(at["comm"])) + One(fota) - One(fota') = 1
    BY <1>1 DEF Inv, Values, One
  <2>2. events' \in 0..MaxEvents /\ events' >= events
    BY <1>2, EventsStay
  <2>3. PlacesOK' /\ Counts' /\ RestsWhenDone' /\ ModesOK /\ exact' = exact
    BY <1>1, <1>2, <2>1, <2>2, DoneKeeps
  <2>4. Values'
    BY <1>1, <2>2, <2>3 DEF Inv, Values, ModesOK
  <2>5. QED BY <2>3, <2>4 DEF Inv
<1>3. CASE Event /\ exact' = FALSE /\ UNCHANGED cnt /\ Return("comm")
  BY <1>1, <1>3, LeaksKeep
<1>4. QED BY <1>2, <1>3 DEF Wmd

LEMMA ScanEndsKeeps == ASSUME Inv, ScanEnds PROVE Inv'
<1>1. /\ IsPlace("comm", at["comm"]) /\ "comm" \in Threads /\ Used(at["comm"])
      /\ at["comm"].phase # "rest" /\ at["comm"] \in Place
      /\ at["comm"].job = "scan" /\ ~at["comm"].inner
  BY DEF ScanEnds, Uses, Does, Inv, PlacesOK, Used, Threads
<1>2. Goes("comm", "ready") /\ UNCHANGED refs
      /\ UNCHANGED <<refs, radio, active, wifiOn, usb, mgmt, mutex, events>> /\ connecting' \in BOOLEAN
  BY DEF ScanEnds, Inv, Values
<1>3. IsPlace("comm", [at["comm"] EXCEPT !.phase = "ready"])
  BY <1>1 DEF IsPlace, Place, Phases
<1>4. events' \in 0..MaxEvents /\ events' >= events
  BY <1>2, EventsSame
<1>5. PlacesOK' /\ Counts' /\ RestsWhenDone'
  BY <1>1, <1>2, <1>3, <1>4, MovesOn
<1>6. Values'
  BY <1>2 DEF Inv, Values, refs, radio
<1>7. QED BY <1>5, <1>6 DEF Inv

LEMMA OnboardedSetsKeeps == ASSUME Inv, OnboardedSets PROVE Inv'
<1>1. /\ IsPlace("comm", at["comm"]) /\ "comm" \in Threads /\ Used(at["comm"])
      /\ at["comm"].phase # "rest" /\ at["comm"] \in Place
      /\ at["comm"].job = "onboarded" /\ ~at["comm"].inner
  BY DEF OnboardedSets, Uses, Does, Inv, PlacesOK, Used, Threads
<1>2. Goes("comm", "ready") /\ UNCHANGED refs
      /\ UNCHANGED <<refs, radio, active, wifiOn, connecting, usb, mutex, events>> /\ mgmt' \in BOOLEAN
  BY DEF OnboardedSets, Inv, Values
<1>3. IsPlace("comm", [at["comm"] EXCEPT !.phase = "ready"])
  BY <1>1 DEF IsPlace, Place, Phases
<1>4. events' \in 0..MaxEvents /\ events' >= events
  BY <1>2, EventsSame
<1>5. PlacesOK' /\ Counts' /\ RestsWhenDone'
  BY <1>1, <1>2, <1>3, <1>4, MovesOn
<1>6. Values'
  BY <1>2 DEF Inv, Values, refs, radio
<1>7. QED BY <1>5, <1>6 DEF Inv

LEMMA FotaHoldsKeeps == ASSUME Inv, FotaHolds PROVE Inv'
<1>1. /\ PlacesOK /\ Values /\ Counts /\ IsPlace("comm", at["comm"]) /\ "comm" \in Threads
      /\ at["comm"].job = "fota" /\ at["comm"].phase = "using" /\ ~at["comm"].inner
      /\ Return("comm") /\ fota' = TRUE /\ cnt' = cnt /\ exact' = exact
      /\ UNCHANGED radio /\ events' = events
  BY DEF FotaHolds, Uses, Does, Inv, PlacesOK, Threads
<1>2. ~fota /\ fota \in BOOLEAN /\ Used(at["comm"])
  BY <1>1 DEF PlacesOK, Values, Used
<1>3. /\ PlacesOK' /\ ModesOK
      /\ Holders' = Holders - One(Used(at["comm"])) + (One(fota') - One(fota))
  BY <1>1, <1>2, Returns DEF ModesOK
<1>4. Holders \in 0..5 /\ Holders >= 1 /\ One(fota) = 0 /\ One(fota') = 1 /\ One(Used(at["comm"])) = 1
  BY <1>1, <1>2, HoldersRange DEF One
<1>5. Holders' = Holders
  BY <1>3, <1>4
<1>6. events \in Int /\ events' \in 0..MaxEvents /\ events' >= events /\ cnt \in Int
  BY <1>1, EventsSame DEF Values, Counts
<1>7. Counts'
  BY <1>1, <1>4, <1>5, <1>6, CountsAfter
<1>8. Values'
  BY <1>1, <1>3, <1>6 DEF Values, ModesOK, radio
<1>9. RestsWhenDone'
  BY <1>4, <1>5, <1>7, RestsIfUsed
<1>10. QED BY <1>3, <1>7, <1>8, <1>9 DEF Inv

LEMMA FotaEndsKeeps == ASSUME Inv, FotaEnds PROVE Inv'
<1>1. /\ IsPlace("sys", at["sys"]) /\ "sys" \in Threads /\ Done("sys")
      /\ fota /\ fota' = FALSE /\ UNCHANGED <<da, left>> /\ conn' = conn /\ events' = events
  BY DEF FotaEnds, Inv, PlacesOK, Threads, radio
<1>2. events' \in 0..MaxEvents /\ events' >= events
  BY <1>1, EventsSame
<1>3. ~Used(at["sys"])
  BY <1>1 DEF IsPlace, Used
<1>4. fota' \in BOOLEAN /\ One(Used(at["sys"])) + One(fota) - One(fota') = 1
  <2>1. One(Used(at["sys"])) = 0
    BY <1>3 DEF One
  <2>2. One(fota) = 1 /\ One(fota') = 0 /\ fota' \in BOOLEAN
    BY <1>1 DEF One
  <2>3. QED BY <2>1, <2>2
<1>5. PlacesOK' /\ Counts' /\ RestsWhenDone' /\ ModesOK /\ exact' = exact
  BY <1>1, <1>2, <1>4, DoneKeeps
<1>6. Values'
  BY <1>1, <1>2, <1>5 DEF Inv, Values, ModesOK
<1>7. QED BY <1>5, <1>6 DEF Inv

LEMMA FotaOf9160EndsKeeps == ASSUME Inv, FotaOf9160Ends PROVE Inv'
<1>1. /\ IsPlace("sys", at["sys"]) /\ "sys" \in Threads /\ DoneTooMany("sys") /\ UNCHANGED fota
      /\ UNCHANGED <<da, left>> /\ conn' = conn
  BY DEF FotaOf9160Ends, Inv, PlacesOK, Threads, radio
<1>2. events' = events + 1 /\ events' \in 0..MaxEvents
  BY EventsGrow DEF FotaOf9160Ends
<1>3. ~Used(at["sys"])
  BY <1>1 DEF IsPlace, Used
<1>4. PlacesOK' /\ Counts' /\ RestsWhenDone' /\ ModesOK /\ exact' = FALSE
  BY <1>1, <1>2, <1>3, DoneTooManyKeeps
<1>5. Values'
  BY <1>1, <1>2, <1>4 DEF Inv, Values, ModesOK
<1>6. QED BY <1>4, <1>5 DEF Inv

LEMMA InnerStartKeeps == ASSUME Inv, InnerStart PROVE Inv'
<1> DEFINE a == [at["comm"] EXCEPT !.inner = TRUE, !.radio = active,
                                   !.phase = IF active = DA THEN "power" ELSE "using"]
<1>1. /\ PlacesOK /\ Values /\ Counts /\ at["comm"] \in Place /\ IsPlace("comm", at["comm"])
      /\ "comm" \in Threads /\ fota \in BOOLEAN /\ active \in {DA, LTE}
  BY DEF Inv, PlacesOK, Threads, Values
<1>2. /\ at["comm"].job \in {"scan", "send", "sendLte"} /\ at["comm"].phase \in {"using", "ready"}
      /\ ~at["comm"].inner /\ UNCHANGED <<fota, events>> /\ UNCHANGED <<fota, radio, modes, events>>
  BY DEF InnerStart, Uses, Does, In
<1>3. /\ a \in Place /\ a.job = at["comm"].job /\ a.inner /\ a.radio = active
      /\ a.phase = (IF active = DA THEN "power" ELSE "using")
  BY <1>1 DEF Place, Phases
<1>4. IsPlace("comm", a)
  BY <1>2, <1>3 DEF IsPlace
<1>5. at' = [at EXCEPT !["comm"] = a]
  BY <1>1 DEF InnerStart, PlacesOK
<1>6. Values'
  BY <1>2 DEF Inv, Values, InnerStart, Counted, radio, modes
<1>7. CASE active = DA
  <2>1. Hold(a) = Hold(at["comm"]) + 1 /\ Counted /\ (a.job = "fota" => ~fota)
    BY <1>2, <1>3, <1>7 DEF Hold, OuterHold, InnerHold, InnerStart
  <2> HIDE DEF a
  <2>2. PlacesOK' /\ Counts' /\ RestsWhenDone'
    BY <1>1, <1>2, <1>4, <1>5, <2>1, CountedKeeps
  <2>3. QED BY <1>6, <2>2 DEF Inv
<1>8. CASE active # DA
  <2>1. Hold(a) = Hold(at["comm"]) /\ cnt' = cnt /\ exact' = exact /\ a.job # "fota"
        /\ Hold(at["comm"]) \in Int
    BY <1>1, <1>2, <1>3, <1>8, HoldOfPlace DEF Hold, OuterHold, InnerHold, InnerStart, LTE, DA
  <2> HIDE DEF a
  <2>2. /\ Holders' = Holders + (Hold(a) - Hold(at["comm"])) + (One(fota') - One(fota))
        /\ at' \in [Threads -> Place]
        /\ \A u \in Threads : IsPlace(u, at'[u])
    BY <1>1, <1>2, <1>4, <1>5, SumChange
  <2>3. Holders \in 0..5 /\ One(fota) \in Int /\ fota' = fota
    BY <1>1, <1>2, HoldersRange DEF One
  <2>4. Holders' = Holders
    BY <2>1, <2>2, <2>3
  <2>5. events \in Int /\ events' = events /\ cnt \in Int
    BY <1>1, <1>2 DEF Values, Counts
  <2>6. Counts'
    BY <1>1, <2>1, <2>3, <2>4, <2>5, CountsAfter
  <2>7. at'["comm"] = a /\ \A u \in Threads \ {"comm"} : at'[u] = at[u]
    BY <1>1, <1>5 DEF PlacesOK
  <2>8. PlacesOK'
    BY <2>1, <2>2, <2>7 DEF PlacesOK
  <2>9. \A u \in Threads : at[u].phase = "rest" => at'[u].phase = "rest"
    BY <1>2, <2>7
  <2>10. RestsWhenDone'
    BY <1>2, <2>1, <2>9, RestsStill DEF Inv, radio, modes
  <2>11. QED BY <1>6, <2>6, <2>8, <2>10 DEF Inv
<1>9. QED BY <1>7, <1>8

LEMMA InnerDoneKeeps == ASSUME Inv, InnerDone PROVE Inv'
<1>1. /\ IsPlace("comm", at["comm"]) /\ "comm" \in Threads /\ "comm" # "sys" /\ fota \in BOOLEAN
      /\ at["comm"].inner /\ at["comm"].phase = "using"
      /\ UNCHANGED fota /\ UNCHANGED <<da, left>> /\ conn' = conn
  BY DEF InnerDone, Inv, PlacesOK, Values, Threads, In, radio
<1>2. CASE Done("comm") /\ NoEvent /\ at["comm"].radio = DA
  <2>1. fota' \in BOOLEAN /\ One(Used(at["comm"])) + One(fota) - One(fota') = 1
    BY <1>1, <1>2 DEF One, Used
  <2>2. events' \in 0..MaxEvents /\ events' >= events
    BY <1>2, EventsStay
  <2>3. PlacesOK' /\ Counts' /\ RestsWhenDone' /\ ModesOK /\ exact' = exact
    BY <1>1, <1>2, <2>1, <2>2, DoneKeeps
  <2>4. Values'
    BY <1>1, <2>2, <2>3 DEF Inv, Values, ModesOK
  <2>5. QED BY <2>3, <2>4 DEF Inv
<1>3. CASE DoneTooMany("comm") /\ Event /\ at["comm"].radio # DA
  <2>1. ~Used(at["comm"])
    BY <1>1, <1>3 DEF Used
  <2>2. events' = events + 1 /\ events' \in 0..MaxEvents
    BY <1>3, EventsGrow
  <2>3. PlacesOK' /\ Counts' /\ RestsWhenDone' /\ ModesOK /\ exact' = FALSE
    BY <1>1, <1>3, <2>1, <2>2, DoneTooManyKeeps
  <2>4. Values'
    BY <1>1, <2>2, <2>3 DEF Inv, Values, ModesOK
  <2>5. QED BY <2>3, <2>4 DEF Inv
<1>4. CASE exact' = FALSE /\ UNCHANGED cnt /\ Return("comm") /\ Event /\ at["comm"].radio = DA
  <2>1. Used(at["comm"])
    BY <1>1, <1>4 DEF Used
  <2>2. QED BY <1>1, <1>4, <2>1, LeaksKeep
<1>5. CASE Return("comm") /\ UNCHANGED <<cnt, exact>> /\ NoEvent /\ at["comm"].radio # DA
  <2>1. ~Used(at["comm"]) /\ UNCHANGED refs
    BY <1>1, <1>5 DEF Used, refs
  <2>2. events' = events
    BY <1>5 DEF NoEvent
  <2>3. PlacesOK' /\ Counts' /\ RestsWhenDone' /\ ModesOK
    BY <1>1, <1>5, <2>1, <2>2, ReturnKeeps
  <2>4. Values'
    BY <1>1, <1>5, <2>2, <2>3 DEF Inv, Values, ModesOK
  <2>5. QED BY <2>3, <2>4 DEF Inv
<1>6. QED BY <1>2, <1>3, <1>4, <1>5 DEF InnerDone

LEMMA StartSendOnLteKeeps == ASSUME Inv, StartSendOnLte PROVE Inv'
<1> DEFINE a == [Idle EXCEPT !.job = "sendLte", !.phase = "ready"]
<1>1. /\ PlacesOK /\ Values /\ Counts /\ IsPlace("comm", at["comm"]) /\ "comm" \in Threads
      /\ at["comm"].phase = "idle" /\ fota \in BOOLEAN
      /\ at' = [at EXCEPT !["comm"] = a] /\ UNCHANGED <<refs, radio, modes, events>>
  BY DEF StartSendOnLte, In, Inv, PlacesOK, Threads, Values
<1>2. a \in Place /\ a.job = "sendLte" /\ a.phase = "ready" /\ ~a.inner
  BY DEF Idle, Place, Phases, Jobs
<1>3. IsPlace("comm", a) /\ Hold(a) = 0 /\ Hold(at["comm"]) = 0
  BY <1>1, <1>2, HoldOfPlace DEF IsPlace, Hold, OuterHold, InnerHold
<1> HIDE DEF a
<1>4. /\ Holders' = Holders + (Hold(a) - Hold(at["comm"])) + (One(fota') - One(fota))
      /\ at' \in [Threads -> Place]
      /\ \A u \in Threads : IsPlace(u, at'[u])
  BY <1>1, <1>3, SumChange DEF refs
<1>5. Holders \in 0..5 /\ One(fota) \in Int /\ fota' = fota
  BY <1>1, HoldersRange DEF One, refs
<1>6. Holders' = Holders
  BY <1>3, <1>4, <1>5
<1>7. events \in Int /\ events' = events /\ cnt \in Int /\ cnt' = cnt /\ exact' = exact
  BY <1>1 DEF Values, Counts, refs
<1>8. Counts'
  BY <1>1, <1>5, <1>6, <1>7, CountsAfter
<1>9. at'["comm"] = a /\ \A u \in Threads \ {"comm"} : at'[u] = at[u]
  BY <1>1 DEF PlacesOK
<1>10. PlacesOK'
  BY <1>2, <1>4, <1>9 DEF PlacesOK
<1>11. \A u \in Threads : at[u].phase = "rest" => at'[u].phase = "rest"
  BY <1>1, <1>9
<1>12. RestsWhenDone'
  BY <1>1, <1>7, <1>11, RestsStill DEF Inv, radio, modes
<1>13. Values'
  BY <1>1 DEF Values, refs, radio, modes
<1>14. QED BY <1>8, <1>10, <1>12, <1>13 DEF Inv

LEMMA StartScanKeeps == ASSUME Inv, StartScan PROVE Inv'
BY BeginKeeps DEF StartScan, Threads, Jobs

LEMMA StartSendKeeps == ASSUME Inv, StartSend PROVE Inv'
BY BeginKeeps DEF StartSend, Threads, Jobs

LEMMA StartFotaKeeps == ASSUME Inv, StartFota PROVE Inv'
BY BeginKeeps DEF StartFota, Threads, Jobs

LEMMA StartBrokerOffKeeps == ASSUME Inv, StartBrokerOff PROVE Inv'
BY BeginKeeps DEF StartBrokerOff, Threads, Jobs

LEMMA BeginOthersKeeps == ASSUME Inv, Begin("comm", "wmd") \/ Begin("comm", "onboarded") PROVE Inv'
BY BeginKeeps DEF Threads, Jobs

LEMMA WakesForMessageKeeps == ASSUME Inv, WakesForMessage PROVE Inv'
<1> DEFINE a == [Idle EXCEPT !.job = "wakeup", !.phase = "using"]
<1>1. /\ IsPlace("net", at["net"]) /\ "net" \in Threads /\ at["net"].phase = "idle"
      /\ at' = [at EXCEPT !["net"] = a] /\ Counted /\ UNCHANGED <<fota, events>>
      /\ UNCHANGED <<fota, conn, left, modes, events>> /\ da' = "awake"
  BY DEF WakesForMessage, In, Inv, PlacesOK, Threads
<1>2. a \in Place /\ a.job = "wakeup" /\ a.phase = "using" /\ ~a.inner
  BY DEF Idle, Place, Phases, Jobs
<1>3. IsPlace("net", a) /\ Hold(a) = 1 /\ Hold(at["net"]) = 0 /\ a.job # "fota"
  BY <1>1, <1>2, HoldOfPlace DEF IsPlace, Hold, OuterHold, InnerHold
<1> HIDE DEF a
<1>4. Hold(a) = Hold(at["net"]) + 1
  BY <1>3
<1>5. PlacesOK' /\ Counts' /\ RestsWhenDone'
  BY <1>1, <1>3, <1>4, CountedKeeps
<1>6. Values'
  BY <1>1 DEF Inv, Values, Counted, modes
<1>7. QED BY <1>5, <1>6 DEF Inv

LEMMA StartConnectKeeps == ASSUME Inv, StartConnect PROVE Inv'
<1> DEFINE a == [Idle EXCEPT !.job = "connect", !.phase = "power"]
<1>1. /\ IsPlace("radio", at["radio"]) /\ "radio" \in Threads /\ at["radio"].phase = "idle"
      /\ at' = [at EXCEPT !["radio"] = a] /\ Counted /\ UNCHANGED <<fota, events>>
      /\ UNCHANGED <<fota, radio, active, wifiOn, connecting, usb, mgmt, events>> /\ mutex' = "radio"
  BY DEF StartConnect, In, Inv, PlacesOK, Threads
<1>2. a \in Place /\ a.job = "connect" /\ a.phase = "power" /\ ~a.inner
  BY DEF Idle, Place, Phases, Jobs
<1>3. IsPlace("radio", a) /\ Hold(a) = 1 /\ Hold(at["radio"]) = 0 /\ a.job # "fota"
  BY <1>1, <1>2, HoldOfPlace DEF IsPlace, Hold, OuterHold, InnerHold
<1> HIDE DEF a
<1>4. Hold(a) = Hold(at["radio"]) + 1
  BY <1>3
<1>5. PlacesOK' /\ Counts' /\ RestsWhenDone'
  BY <1>1, <1>3, <1>4, CountedKeeps
<1>6. Values'
  BY <1>1 DEF Inv, Values, Counted, radio
<1>7. QED BY <1>5, <1>6 DEF Inv

(* What touches neither threads nor count *)
LEMMA OthersKeep ==
    ASSUME Inv, SwitchToLte \/ SwitchToWifi \/ Plugged \/ Unplugged \/ ConnectionChanges
                \/ WifiChanges \/ RequestConnect \/ ConnectRefused \/ OnboardedEnds
    PROVE  Inv'
<1>1. /\ UNCHANGED refs /\ UNCHANGED at /\ events' = events /\ events' \in 0..MaxEvents /\ events' >= events
  BY EventsSame DEF SwitchToLte, SwitchToWifi, Plugged, Unplugged, ConnectionChanges,
       WifiChanges, RequestConnect, ConnectRefused, OnboardedEnds
<1>2. /\ active' \in {DA, LTE} /\ wifiOn' \in BOOLEAN /\ connecting' \in BOOLEAN
      /\ usb' \in BOOLEAN /\ mgmt' \in BOOLEAN /\ mutex' = mutex
  <2>1. CASE SwitchToLte
    BY <2>1, Zenon DEF SwitchToLte, Inv, Values, radio, modes
  <2>2. CASE SwitchToWifi
    BY <2>2, Zenon DEF SwitchToWifi, Inv, Values, radio, modes
  <2>3. CASE Plugged
    BY <2>3, Zenon DEF Plugged, Inv, Values, radio, modes
  <2>4. CASE Unplugged
    BY <2>4, Zenon DEF Unplugged, Inv, Values, radio, modes
  <2>5. CASE ConnectionChanges
    BY <2>5, Zenon DEF ConnectionChanges, Inv, Values, radio, modes
  <2>6. CASE WifiChanges
    BY <2>6, Zenon DEF WifiChanges, Inv, Values, radio, modes
  <2>7. CASE RequestConnect
    BY <2>7, Zenon DEF RequestConnect, Inv, Values, radio, modes
  <2>8. CASE ConnectRefused
    BY <2>8, Zenon DEF ConnectRefused, Inv, Values, radio, modes
  <2>9. CASE OnboardedEnds
    BY <2>9, Zenon DEF OnboardedEnds, Inv, Values, radio, modes
  <2>10. QED BY <2>1, <2>2, <2>3, <2>4, <2>5, <2>6, <2>7, <2>8, <2>9
<1>3. da' \in {"off", "asleep", "awake"} /\ conn' \in {"none", "ap", "broker"} /\ left' \in BOOLEAN
  BY DEF SwitchToLte, SwitchToWifi, Plugged, Unplugged, ConnectionChanges, radio, LeftAwake, TurnedOff,
       WifiChanges, RequestConnect, ConnectRefused, OnboardedEnds, Inv, Values
<1>4. \/ usb' = usb /\ (da' = da \/ da' # "awake") /\ (left => left')
      \/ left' \/ da' # "awake" \/ usb'
  <2>1. CASE SwitchToLte
    <3>1. usb' = usb /\ (LeftAwake \/ UNCHANGED radio \/ TurnedOff)
      BY <2>1 DEF SwitchToLte
    <3>2. CASE LeftAwake
      BY <3>2 DEF LeftAwake
    <3>3. CASE UNCHANGED radio
      BY <3>1, <3>3 DEF radio
    <3>4. CASE TurnedOff
      BY <3>4 DEF TurnedOff
    <3>5. QED BY <3>1, <3>2, <3>3, <3>4
  <2>2. CASE SwitchToWifi
    <3>1. UNCHANGED radio
      BY <2>2, Zenon DEF SwitchToWifi
    <3>2. usb' = usb
      BY <2>2, Zenon DEF SwitchToWifi
    <3>3. da' = da /\ left' = left
      BY <3>1 DEF radio
    <3>4. QED BY <3>2, <3>3
  <2>3. CASE Plugged
    BY <2>3 DEF Plugged
  <2>4. CASE Unplugged
    BY <2>4 DEF Unplugged
  <2>5. CASE ConnectionChanges
    <3>1. usb' = usb /\ da' = da /\ left' = left
      BY <2>5 DEF ConnectionChanges, radio, modes
    <3>2. QED BY <3>1
  <2>6. CASE WifiChanges
    <3>1. usb' = usb /\ da' = da /\ left' = left
      BY <2>6 DEF WifiChanges, radio, modes
    <3>2. QED BY <3>1
  <2>7. CASE RequestConnect
    <3>1. usb' = usb /\ da' = da /\ left' = left
      BY <2>7 DEF RequestConnect, radio, modes
    <3>2. QED BY <3>1
  <2>8. CASE ConnectRefused
    <3>1. usb' = usb /\ da' = da /\ left' = left
      BY <2>8 DEF ConnectRefused, radio, modes
    <3>2. QED BY <3>1
  <2>9. CASE OnboardedEnds
    <3>1. usb' = usb /\ da' = da /\ left' = left
      BY <2>9 DEF OnboardedEnds, radio, modes
    <3>2. QED BY <3>1
  <2>10. QED BY <2>1, <2>2, <2>3, <2>4, <2>5, <2>6, <2>7, <2>8, <2>9
<1>5. Values'
  BY <1>1, <1>2, <1>3 DEF Inv, Values, refs
<1>6. PlacesOK' /\ Counts' /\ RestsWhenDone'
  BY <1>1, <1>4, ElseKeeps
<1>7. QED BY <1>5, <1>6 DEF Inv

LEMMA RadioRestsKeeps == ASSUME Inv, RadioRests PROVE Inv'
<1>1. /\ UNCHANGED refs /\ UNCHANGED at /\ UNCHANGED modes /\ ReturnDaToSleep("radio") /\ "radio" \in Threads
  BY DEF RadioRests, Threads
<1>2. /\ da' # "awake" \/ left' \/ (usb /\ UNCHANGED radio)
      /\ da' \in {"off", "asleep", "awake"} /\ conn' \in {"none", "ap", "broker"} /\ left' \in BOOLEAN
      /\ events' \in 0..MaxEvents /\ events' >= events
  BY <1>1, ReturnedToSleep, EventsStay, EventsGrow
<1>3. usb' = usb
  BY <1>1 DEF modes
<1>4. PlacesOK' /\ Counts' /\ RestsWhenDone'
  BY <1>1, <1>2, <1>3, ElseKeeps
<1>5. Values'
  BY <1>1, <1>2 DEF Inv, Values, refs, modes
<1>6. QED BY <1>4, <1>5 DEF Inv

-----------------------------------------------------------------------------
(* The theorems *)

LEMMA InitInv == Init => Inv
<1> SUFFICES ASSUME Init PROVE Inv
  OBVIOUS
<1>1. Idle \in Place /\ Idle.job = "none" /\ Idle.phase = "idle" /\ ~Idle.inner
  BY DEF Idle, Place, Jobs, Phases
<1>2. Hold(Idle) = 0
  BY <1>1 DEF Hold, OuterHold, InnerHold
<1>3. PlacesOK
  BY <1>1 DEF Init, PlacesOK, IsPlace, Threads
<1>4. Holders = 0
  <2>1. at["comm"] = Idle /\ at["net"] = Idle /\ at["radio"] = Idle /\ at["sys"] = Idle /\ fota = FALSE
    BY DEF Init, Threads
  <2>2. QED BY <1>2, <2>1 DEF Holders
<1>5. cnt = 0 /\ events = 0
  BY DEF Init
<1>6. Counts
  BY <1>4, <1>5 DEF Counts, CountIsExact
<1>7. Values /\ RestsWhenDone
  <2>1. 0 \in 0..MaxEvents
    BY RefsAssumption
  <2>2. da = "off" /\ RestsWhenDone
    BY DEF Init, RestsWhenDone
  <2>3. Values
    BY <2>1, Zenon DEF Init, Values
  <2>4. QED BY <2>2, <2>3
<1>8. QED BY <1>3, <1>6, <1>7 DEF Inv

LEMMA StepInv == Inv /\ [Next]_vars => Inv'
<1> SUFFICES ASSUME Inv, [Next]_vars PROVE Inv'
  OBVIOUS
<1>1. CASE Start
  BY <1>1, StartScanKeeps, StartSendKeeps, StartSendOnLteKeeps, StartFotaKeeps, StartConnectKeeps,
     OthersKeep, StartBrokerOffKeeps, BeginOthersKeeps, WakesForMessageKeeps DEF Start
<1>2. CASE Work
  BY <1>2, ScanFailsKeeps, ScanEndsKeeps, InnerStartKeeps, InnerDoneKeeps, OuterDoneKeeps, WmdKeeps,
     OnboardedSetsKeeps, OthersKeep, OnboardedDoneKeeps, FotaHoldsKeeps, FotaEndsKeeps,
     FotaOf9160EndsKeeps, MessageReadKeeps, ConnectedKeeps, BrokerOffKeeps DEF Work
<1>3. CASE \E t \in Threads : Step(t)
  BY <1>3, PowerUpKeeps, WakeUpKeeps, BrokerIsThereKeeps, BrokerTimesOutKeeps, RestKeeps DEF Step
<1>4. CASE Others
  BY <1>4, OthersKeep, RadioRestsKeeps DEF Others
<1>5. CASE UNCHANGED vars
  <2>1. UNCHANGED refs /\ UNCHANGED at /\ UNCHANGED radio /\ UNCHANGED modes /\ events' = events
    BY <1>5 DEF vars
  <2>2. PlacesOK' /\ Counts' /\ RestsWhenDone'
    BY <2>1, EventsSame, ElseKeeps DEF radio, modes
  <2>3. Values'
    BY <2>1 DEF Inv, Values, refs, radio, modes
  <2>4. QED BY <2>2, <2>3 DEF Inv
<1>6. QED BY <1>1, <1>2, <1>3, <1>4, <1>5 DEF Next

LEMMA Invariance == Spec => []Inv
BY InitInv, StepInv, PTL DEF Spec

(* Every variable has the values the code gives it, and prep_ref_cnt stays
   between -MaxEvents and 5 + MaxEvents, far from the ends of its int16_t. *)
THEOREM TypeCorrect == Spec => []TypeOK
<1>1. Inv => TypeOK
  <2> SUFFICES ASSUME Inv PROVE TypeOK
    OBVIOUS
  <2>1. Holders \in 0..5
    BY HoldersRange DEF Inv, Values
  <2>2. PICK n \in 0..5, c \in Int, e \in 0..MaxEvents : n = Holders /\ c = cnt /\ e = events
    BY <2>1 DEF Inv, Counts, Values
  <2>3. c - n >= 0 - e /\ c - n <= e
    BY <2>2 DEF Inv, Counts
  <2>4. c \in (0 - MaxEvents)..(5 + MaxEvents)
    BY <2>2, <2>3, RefsAssumption
  <2>5. QED BY <2>2, <2>4 DEF TypeOK, Inv, Values, PlacesOK, Place
<1>2. QED BY <1>1, Invariance, PTL

(* Until the first unmatched call prep_ref_cnt is the number of prepares in
   use, in every interleaving of the work queues. *)
THEOREM CountStaysExact == Spec => []CountIsExact
<1>1. Inv => CountIsExact
  BY DEF Inv, Counts
<1>2. QED BY <1>1, Invariance, PTL

(* A DA16200 that nobody uses is not left awake by accident. *)
THEOREM UnusedDaRests == Spec => []RestsWhenDone
<1>1. Inv => RestsWhenDone
  BY DEF Inv
<1>2. QED BY <1>1, Invariance, PTL



-----------------------------------------------------------------------------
(* Fota: commMgr_fota_end() on several processors *)

InSeq(d, s) == \E i \in DOMAIN s : s[i] = d

LEMMA SmallestExists ==
    ASSUME NEW T, T \subseteq Nat, T # {}
    PROVE  \E i \in T : \A j \in T : i <= j
<1>1. PICK i \in T : \A j \in T : ~(<<j, i>> \in OpToRel(<, Nat))
    BY WFMin, NatLessThanWellFounded, Zenon
<1>2. \A j \in T : ~(j < i)
    BY <1>1 DEF OpToRel
<1>3. \A j \in T : i <= j
    BY <1>2
<1> QED  BY <1>3

(* It blocks for one that is held, and what is held is still to come. *)
LEMMA EndingFacts ==
    ASSUME NEW s \in Seq(Device), NEW held \in SUBSET Device
    PROVE  /\ Ending(s, held) \in Seq(Device)
           /\ \A d \in held : InSeq(d, s) => InSeq(d, Ending(s, held))
           /\ \A d \in Device : InSeq(d, Ending(s, held)) => InSeq(d, s)
           /\ Ending(s, held) # <<>> => Head(Ending(s, held)) \in held
           /\ (\A d \in held : ~InSeq(d, s)) => Ending(s, held) = <<>>
<1>1. CASE ~ \E i \in DOMAIN s : s[i] \in held
  <2>1. Ending(s, held) = <<>>
    BY <1>1 DEF Ending
  <2> QED  BY <1>1, <2>1 DEF InSeq
<1>2. CASE \E i \in DOMAIN s : s[i] \in held
  <2> DEFINE T == {i \in 1..Len(s) : s[i] \in held}
             IsFirst(i) == s[i] \in held /\ \A k \in 1..(i - 1) : s[k] \notin held
             first == CHOOSE i \in DOMAIN s : IsFirst(i)
  <2>1. \E i \in T : \A j \in T : i <= j
    <3>1. T # {} /\ T \subseteq Nat
      BY <1>2
    <3> HIDE DEF T
    <3> QED  BY <3>1, SmallestExists
  <2>2. \E i \in DOMAIN s : IsFirst(i)
    BY <2>1
  <2>3. first \in DOMAIN s /\ IsFirst(first)
    BY <2>2, Zenon
  <2>4. Ending(s, held) = SubSeq(s, first, Len(s))
    BY <1>2 DEF Ending
  <2> HIDE DEF first
  <2>5. first \in 1..Len(s) /\ \A i \in first..Len(s) : s[i] \in Device
    BY <2>3
  <2> DEFINE e == SubSeq(s, first, Len(s))
  <2>6. /\ e \in Seq(Device) /\ Len(e) = Len(s) - first + 1
        /\ \A i \in 1..(Len(s) - first + 1) : e[i] = s[first + i - 1]
    BY <2>5, SubSeqProperties
  <2> HIDE DEF e
  <2>7. \A d \in held : InSeq(d, s) => InSeq(d, e)
    <3> SUFFICES ASSUME NEW i \in DOMAIN s, s[i] \in held PROVE InSeq(s[i], e)
      BY DEF InSeq
    <3>1. i \in 1..Len(s) /\ i >= first
      BY <2>3
    <3>2. i - first + 1 \in DOMAIN e /\ e[i - first + 1] = s[i]
      BY <2>5, <2>6, <3>1
    <3> QED  BY <3>2 DEF InSeq
  <2>8. \A d \in Device : InSeq(d, e) => InSeq(d, s)
    <3> SUFFICES ASSUME NEW i \in DOMAIN e PROVE InSeq(e[i], s)
      BY DEF InSeq
    <3>1. first + i - 1 \in DOMAIN s /\ e[i] = s[first + i - 1]
      BY <2>5, <2>6
    <3> QED  BY <3>1 DEF InSeq
  <2>9. e # <<>> /\ Head(e) \in held
    BY <2>3, <2>5, <2>6
  <2> QED  BY <2>4, <2>6, <2>7, <2>8, <2>9, <1>2 DEF InSeq, e
<1> QED  BY <1>1, <1>2

LEMMA EndingOne ==
    ASSUME NEW d \in Device, NEW held \in SUBSET Device
    PROVE  /\ Ending(<<d>>, held) \in Seq(Device)
           /\ d \in held => Ending(<<d>>, held) # <<>> /\ InSeq(d, Ending(<<d>>, held))
           /\ d \notin held => Ending(<<d>>, held) = <<>>
           /\ \A e \in Device : InSeq(e, Ending(<<d>>, held)) => e = d
<1>1. /\ <<d>> \in Seq(Device) /\ DOMAIN <<d>> = {1} /\ <<d>>[1] = d
    OBVIOUS
<1>2. \A e \in Device : InSeq(e, <<d>>) <=> e = d
    BY <1>1 DEF InSeq
<1>3. d \in held => InSeq(d, Ending(<<d>>, held))
    BY <1>1, <1>2, EndingFacts
<1>4. d \in held => Ending(<<d>>, held) # <<>>
    BY <1>3 DEF InSeq
<1>5. Ending(<<d>>, held) \in Seq(Device)
    BY <1>1, EndingFacts
<1>6. ASSUME d \notin held PROVE Ending(<<d>>, held) = <<>>
  <2>1. \A e \in held : ~InSeq(e, <<d>>)
    BY <1>2, <1>6
  <2> QED  BY <1>1, <2>1, EndingFacts
<1>7. \A e \in Device : InSeq(e, Ending(<<d>>, held)) => e = d
    BY <1>1, <1>2, EndingFacts
<1> QED  BY <1>3, <1>4, <1>5, <1>6, <1>7

(* The count of prepares stays a number, and goes down by one at most. *)
LEMMA RefsAfterFacts ==
    ASSUME NEW ending, NEW r \in Nat
    PROVE  /\ RefsAfter(ending, r) \in Nat
           /\ ending = <<>> => RefsAfter(ending, r) = r
           /\ r = 0 => RefsAfter(ending, r) = 0
           /\ ending # <<>> /\ r = 1 => RefsAfter(ending, r) = 0
    BY DEF RefsAfter

-----------------------------------------------------------------------------
(* Jobs *)

AllJobs == [Device -> Job]

LEMMA JobFacts ==
    ASSUME NEW js \in AllJobs, NEW d \in Device
    PROVE  /\ js[d] \in Job
           /\ js[d].requested \in BOOLEAN /\ js[d].received \in BOOLEAN
           /\ js[d].inProgress \in BOOLEAN /\ js[d].complete \in BOOLEAN
    BY DEF AllJobs, Job

LEMMA ClearedFacts ==
    /\ AllCleared \in AllJobs
    /\ \A d \in Device : /\ ~AllCleared[d].requested /\ ~AllCleared[d].received
                         /\ ~AllCleared[d].inProgress /\ ~AllCleared[d].complete
    BY DEF AllCleared, NoJob, AllJobs, Job

(* What differs from job js to ks *)
Same(js, ks, d) ==
    /\ ks[d].requested = js[d].requested /\ ks[d].received = js[d].received
    /\ ks[d].inProgress = js[d].inProgress /\ ks[d].complete = js[d].complete

LEMMA OverFacts ==
    ASSUME NEW js \in AllJobs, NEW d \in Device
    PROVE  /\ Over(js, d) \in AllJobs
           /\ Over(js, d)[d].requested = js[d].requested
           /\ Over(js, d)[d].received = js[d].received
           /\ ~Over(js, d)[d].inProgress /\ Over(js, d)[d].complete
           /\ \A e \in Device \ {d} : Same(js, Over(js, d), e)
    BY DEF Over, AllJobs, Job, Same

LEMMA ReceivedFacts ==
    ASSUME NEW js \in AllJobs, NEW d \in Device
    PROVE  /\ Received(js, d) \in AllJobs
           /\ Received(js, d)[d].requested = js[d].requested
           /\ Received(js, d)[d].received
           /\ Received(js, d)[d].inProgress = js[d].inProgress
           /\ Received(js, d)[d].complete = js[d].complete
           /\ \A e \in Device \ {d} : Same(js, Received(js, d), e)
    BY DEF Received, AllJobs, Job, Same

LEMMA BegunFacts ==
    ASSUME NEW js \in AllJobs, NEW d \in Device
    PROVE  /\ Begun(js, d) \in AllJobs
           /\ Begun(js, d)[d].requested = js[d].requested
           /\ Begun(js, d)[d].received = js[d].received
           /\ Begun(js, d)[d].inProgress
           /\ Begun(js, d)[d].complete = js[d].complete
           /\ \A e \in Device \ {d} : Same(js, Begun(js, d), e)
    BY DEF Begun, AllJobs, Job, Same

LEMMA CheckedFacts ==
    ASSUME job \in AllJobs, NEW d \in Device
    PROVE  /\ Checked(d) \in AllJobs
           /\ Checked(d)[d].requested /\ ~Checked(d)[d].received
           /\ ~Checked(d)[d].inProgress /\ ~Checked(d)[d].complete
           /\ d # "nrf5340" => /\ ~Checked(d)["nrf5340"].requested
                               /\ ~Checked(d)["nrf5340"].received
                               /\ ~Checked(d)["nrf5340"].inProgress
                               /\ ~Checked(d)["nrf5340"].complete
           /\ \A e \in Device \ {d, "nrf5340"} : Same(job, Checked(d), e)
    BY DEF Checked, NoJob, AllJobs, Job, Same, Device

LEMMA AllReceivedFacts ==
    ASSUME job \in AllJobs
    PROVE  /\ AllReceived \in AllJobs
           /\ \A d \in Device :
                 /\ AllReceived[d].requested = job[d].requested
                 /\ AllReceived[d].received = (job[d].received \/ job[d].requested)
                 /\ AllReceived[d].inProgress = job[d].inProgress
                 /\ AllReceived[d].complete = job[d].complete
<1>1. \A d \in Device : Received(job, d) \in AllJobs
    BY ReceivedFacts
<1>2. AllReceived \in AllJobs
    BY <1>1 DEF AllReceived, AllJobs
<1>3. ASSUME NEW d \in Device
      PROVE  /\ AllReceived[d].requested = job[d].requested
             /\ AllReceived[d].received = (job[d].received \/ job[d].requested)
             /\ AllReceived[d].inProgress = job[d].inProgress
             /\ AllReceived[d].complete = job[d].complete
    BY ReceivedFacts, JobFacts DEF AllReceived
<1> QED  BY <1>2, <1>3

LEMMA FirstFacts ==
    ASSUME NEW s \in SUBSET Device, s # {}
    PROVE  First(s) \in s
    BY DEF First, Device

-----------------------------------------------------------------------------
(* Types *)

HType == [place : {"starting", "ending", "flashing"}, dev : Device] \cup {Ready}
SysType == [ends : Seq(Device), closing : BOOLEAN]
SlotType == [dev : Device, state : {"loaded", "done", "failed"}] \cup {NoStatus}
HttpType == [open : BOOLEAN, busy : BOOLEAN, whole : BOOLEAN, ended : {"no", "ok", "bad"}]
TimerSet == {"poll", "version", "monitor", "boot"}

JobsOK == job \in AllJobs /\ hold \in SUBSET Device /\ daRefs \in Nat
RoundsOK ==
    /\ round \in BOOLEAN /\ sWork \in BOOLEAN
    /\ type \in Device \cup {NoDevice} /\ asked \in SUBSET Device
WorksOK == timers \in SUBSET TimerSet /\ sys \in SysType /\ h \in HType /\ slot \in SlotType
WorldOK ==
    /\ ota \in {0, 1, 4} /\ lte \in {"off", "busy", "loaded"}
    /\ http \in HttpType /\ note \in BOOLEAN /\ fresh \in SUBSET Device
HistoryOK ==
    /\ told \in SUBSET Device /\ orderly \in BOOLEAN
    /\ count \in [rounds : 0..MaxRounds, setbacks : 0..MaxSetbacks]

LEMMA TypeParts == FotaTypeOK <=> JobsOK /\ RoundsOK /\ WorksOK /\ WorldOK /\ HistoryOK
    BY DEF FotaTypeOK, JobsOK, RoundsOK, WorksOK, WorldOK, HistoryOK, AllJobs, TimerSet, HType,
           SysType, SlotType, HttpType

LEMMA TypePartsNext ==
    FotaTypeOK' <=> JobsOK' /\ RoundsOK' /\ WorksOK' /\ WorldOK' /\ HistoryOK'
    BY DEF FotaTypeOK, JobsOK, RoundsOK, WorksOK, WorldOK, HistoryOK, AllJobs, TimerSet, HType,
           SysType, SlotType, HttpType

LEMMA CountType ==
    ASSUME HistoryOK, NoSetback \/ Setback
    PROVE  count' \in [rounds : 0..MaxRounds, setbacks : 0..MaxSetbacks]
    BY FotaAssumption DEF HistoryOK, NoSetback, Setback

(* What a reset leaves, too *)
LEMMA AtRestTypes ==
    /\ Ready \in HType /\ NoStatus \in SlotType /\ NoHttp \in HttpType
    /\ [ends |-> <<>>, closing |-> FALSE] \in SysType
    /\ {} \in SUBSET Device /\ {"boot"} \in SUBSET TimerSet
    BY DEF HType, SlotType, HttpType, NoHttp, SysType, TimerSet

LEMMA InitTypes == FotaInit => FotaTypeOK
<1> SUFFICES ASSUME FotaInit PROVE FotaTypeOK
    OBVIOUS
<1>1. JobsOK
    BY ClearedFacts DEF FotaInit, JobsOK, AllCleared
<1>2. RoundsOK /\ WorksOK
    BY AtRestTypes DEF FotaInit, RoundsOK, WorksOK
<1>3. WorldOK
    BY AtRestTypes DEF FotaInit, WorldOK
<1>4. HistoryOK
    BY FotaAssumption DEF FotaInit, HistoryOK
<1> QED  BY <1>1, <1>2, <1>3, <1>4, TypeParts

(* The two queues' parts of commMgr_fota_end() *)
LEMMA SysEndsTypes ==
    ASSUME JobsOK, WorksOK, NEW d \in Device, SysEnds(<<d>>)
    PROVE  sys' \in SysType /\ daRefs' \in Nat
<1>1. Ending(<<d>>, hold) \in Seq(Device)
    BY EndingOne DEF JobsOK
<1> QED  BY <1>1, RefsAfterFacts DEF SysEnds, JobsOK, WorksOK, SysType

LEMMA CommEndsTypes ==
    ASSUME NEW d \in Device \cup {NoDevice}, NEW held \in SUBSET Device, NEW r \in Nat,
           CommEnds(d, held, r)
    PROVE  h' \in HType /\ daRefs' \in Nat
    BY RefsAfterFacts DEF CommEnds, HType

LEMMA CommFailsTypes ==
    ASSUME NEW d \in Device, NEW js \in AllJobs, NEW held \in SUBSET Device, NEW r \in Nat,
           CommFails(d, js, held, r)
    PROVE  job' \in AllJobs /\ h' \in HType /\ daRefs' \in Nat
    BY CommEndsTypes, OverFacts DEF CommFails

LEMMA SysFailsTypes ==
    ASSUME JobsOK, WorksOK, NEW d \in Device, SysFails(d)
    PROVE  job' \in AllJobs /\ sys' \in SysType /\ daRefs' \in Nat
    BY SysEndsTypes, OverFacts DEF SysFails, JobsOK, WorksOK

LEMMA PollTypes == ASSUME FotaTypeOK, Poll PROVE FotaTypeOK'
<1> USE TypeParts
<1>1. /\ "poll" \in timers
      /\ UNCHANGED <<hold, sWork, h, slot, world, told, orderly>>
    BY DEF Poll
<1>2. Incomplete \in SUBSET Device
    BY DEF Incomplete
<1>3. ASSUME NEW d \in Device, PollChecks(d) PROVE FotaTypeOK'
  <2>1. job' \in AllJobs
    BY <1>3, CheckedFacts DEF PollChecks, JobsOK
  <2>2. RoundsOK'
    BY <1>1, <1>3 DEF PollChecks, RoundsOK, Setback
  <2>3. HistoryOK'
    BY <1>1, <1>3, CountType DEF PollChecks, HistoryOK
  <2> QED  BY <1>1, <1>3, <2>1, <2>2, <2>3, TypePartsNext DEF PollChecks, JobsOK, WorksOK, WorldOK,
              world
<1>4. ASSUME NEW d \in Device, PollTimesOut(d) PROVE FotaTypeOK'
  <2>1. job' \in AllJobs /\ sys' \in SysType /\ daRefs' \in Nat
    BY <1>4, OverFacts, SysEndsTypes DEF PollTimesOut, JobsOK
  <2>3. HistoryOK'
    BY <1>1, <1>4, CountType DEF PollTimesOut, HistoryOK
  <2> QED  BY <1>1, <1>4, <2>1, <2>3, TypePartsNext
              DEF PollTimesOut, JobsOK, RoundsOK, WorksOK, WorldOK, world
<1>5. ASSUME PollFinishes PROVE FotaTypeOK'
  <2>1. <<"nrf5340", "nrf9160", "da16200">> \in Seq(Device)
    BY DEF Device
  <2>2. Ending(<<"nrf5340", "nrf9160", "da16200">>, hold) \in Seq(Device)
    BY <2>1, EndingFacts DEF JobsOK
  <2>3. job' \in AllJobs /\ sys' \in SysType /\ daRefs' \in Nat
    BY <1>5, <2>2, ClearedFacts, RefsAfterFacts DEF PollFinishes, JobsOK, SysType
  <2>4. HistoryOK'
    BY <1>1, <1>5, CountType DEF PollFinishes, HistoryOK
  <2> QED  BY <1>1, <1>5, <2>3, <2>4, TypePartsNext
              DEF PollFinishes, JobsOK, RoundsOK, WorksOK, WorldOK, world
<1> QED  BY <1>2, <1>3, <1>4, <1>5, FirstFacts DEF Poll

LEMMA SysEndReturnsTypes == ASSUME FotaTypeOK, SysEndReturns PROVE FotaTypeOK'
<1> USE TypeParts
<1>1. /\ sys.ends \in Seq(Device) /\ sys.ends # <<>> /\ hold' = hold \ {Head(sys.ends)}
      /\ UNCHANGED <<job, rounds, timers, h, slot, world, history>>
    BY DEF SysEndReturns, WorksOK, SysType
<1>2. Tail(sys.ends) \in Seq(Device) /\ hold' \in SUBSET Device
    BY <1>1 DEF JobsOK
<1>3. Ending(Tail(sys.ends), hold') \in Seq(Device)
    BY <1>2, EndingFacts
<1>4. sys' \in SysType /\ daRefs' \in Nat
    BY <1>3, RefsAfterFacts DEF SysEndReturns, WorksOK, SysType, JobsOK
<1> QED  BY <1>1, <1>2, <1>4, TypePartsNext
            DEF JobsOK, RoundsOK, WorksOK, WorldOK, HistoryOK, rounds, world, history

LEMMA FinishRoundTypes == ASSUME FotaTypeOK, FinishRound PROVE FotaTypeOK'
<1> USE TypeParts
<1>1. sys' \in SysType
    BY DEF FinishRound, WorksOK, SysType
<1> QED  BY <1>1, TypePartsNext
            DEF FinishRound, JobsOK, RoundsOK, WorksOK, WorldOK, HistoryOK, jobs, world, history

LEMMA StartRoundTypes == ASSUME FotaTypeOK, StartRound PROVE FotaTypeOK'
<1> USE TypeParts
<1>1. count' \in [rounds : 0..MaxRounds, setbacks : 0..MaxSetbacks]
    BY FotaAssumption DEF StartRound, HistoryOK
<1>2. timers' \in SUBSET TimerSet
    BY DEF StartRound, WorksOK, TimerSet
<1> QED  BY <1>1, <1>2, TypePartsNext, ClearedFacts
            DEF StartRound, JobsOK, RoundsOK, WorksOK, WorldOK, HistoryOK

LEMMA SysDoneTypes ==
    ASSUME FotaTypeOK, NEW d \in Device, SysDone(d)
    PROVE  job' \in AllJobs /\ sys' \in SysType /\ daRefs' \in Nat /\ told' \in SUBSET Device
    BY TypeParts, SysEndsTypes, OverFacts DEF SysDone, JobsOK, HistoryOK

LEMMA VersionCheckTypes == ASSUME FotaTypeOK, VersionCheck PROVE FotaTypeOK'
<1> USE TypeParts
<1>1. UNCHANGED <<hold, rounds, h, slot, world, orderly>>
    BY DEF VersionCheck
<1>2. ASSUME NEW d \in Device, VersionCheckOf(d)
      PROVE  /\ job' \in AllJobs /\ sys' \in SysType /\ daRefs' \in Nat /\ told' \in SUBSET Device
             /\ timers' \in SUBSET TimerSet /\ (NoSetback \/ Setback)
  <2>1. CASE SysDone(d) /\ timers' = timers \ {"version"} /\ NoSetback
    BY <2>1, SysDoneTypes DEF WorksOK
  <2>2. CASE Setback /\ UNCHANGED <<job, daRefs, timers, sys, told>>
    BY <2>2 DEF JobsOK, WorksOK, HistoryOK
  <2>3. CASE SysFails(d) /\ timers' = timers \ {"version"} /\ NoSetback /\ UNCHANGED told
    BY <2>3, SysFailsTypes DEF WorksOK, HistoryOK
  <2> QED  BY <1>2, <2>1, <2>2, <2>3 DEF VersionCheckOf
<1>3. CASE timers' = timers \ {"version"} /\ UNCHANGED <<job, daRefs, sys, told, count>>
    BY <1>1, <1>3, TypePartsNext
       DEF JobsOK, RoundsOK, WorksOK, WorldOK, HistoryOK, rounds, world
<1>4. ASSUME NEW d \in Device, VersionCheckOf(d) PROVE FotaTypeOK'
  <2>1. HistoryOK'
    BY <1>1, <1>2, <1>4, CountType DEF HistoryOK
  <2> QED  BY <1>1, <1>2, <1>4, <2>1, TypePartsNext
              DEF JobsOK, RoundsOK, WorksOK, WorldOK, rounds, world
<1>5. "nrf9160" \in Device /\ "da16200" \in Device
    BY DEF Device
<1> QED  BY <1>3, <1>4, <1>5 DEF VersionCheck

LEMMA MonitorTypes == ASSUME FotaTypeOK, Monitor PROVE FotaTypeOK'
<1> USE TypeParts
<1>1. "nrf5340" \in Device
    BY DEF Device
<1>2. job' \in AllJobs /\ sys' \in SysType /\ daRefs' \in Nat
    BY <1>1, SysFailsTypes DEF Monitor
<1> QED  BY <1>2, TypePartsNext
            DEF Monitor, NotMonitored, JobsOK, RoundsOK, WorksOK, WorldOK, HistoryOK, rounds, world,
                history

LEMMA BootCheckTypes == ASSUME FotaTypeOK, BootCheck PROVE FotaTypeOK'
<1> USE TypeParts
<1>1. UNCHANGED <<hold, rounds, h, slot, ota, lte, fresh, orderly>>
    BY DEF BootCheck
<1>2. CASE /\ timers' = timers \ {"boot"}
           /\ UNCHANGED <<job, daRefs, sys, http, note, told, count>>
    BY <1>1, <1>2, TypePartsNext
       DEF JobsOK, RoundsOK, WorksOK, WorldOK, HistoryOK, rounds
<1>3. CASE note
  <2>1. /\ job' = [job EXCEPT !["nrf5340"] = NoJob]
        /\ SysEnds(<<"nrf5340">>)
        /\ note' = FALSE
        /\ http' = [http EXCEPT !.whole = FALSE]
    BY <1>3 DEF BootCheck
  <2>2. /\ timers' \in SUBSET timers
        /\ told' = told \/ told' = told \cup {"nrf5340"}
        /\ NoSetback \/ Setback
    BY <1>3 DEF BootCheck, NotMonitored
  <2>3. "nrf5340" \in Device
    BY DEF Device
  <2>4. job' \in AllJobs
    BY <2>1, <2>3 DEF JobsOK, AllJobs, NoJob, Job
  <2>5. sys' \in SysType /\ daRefs' \in Nat
    BY <2>1, <2>3, SysEndsTypes
  <2>6. http' \in HttpType
    BY <2>1 DEF WorldOK, HttpType
  <2>7. HistoryOK'
    BY <1>1, <2>2, <2>3, CountType DEF HistoryOK
  <2> QED  BY <1>1, <2>1, <2>2, <2>4, <2>5, <2>6, <2>7, TypePartsNext
              DEF JobsOK, RoundsOK, WorksOK, WorldOK, rounds
<1> QED  BY <1>2, <1>3 DEF BootCheck

LEMMA AnswerTypes == ASSUME FotaTypeOK, NEW q \in Device, Answer(q) PROVE FotaTypeOK'
<1> USE TypeParts
<1>1. /\ asked' = asked \ {q} /\ orderly' \in BOOLEAN /\ (NoSetback \/ Setback)
      /\ UNCHANGED <<hold, round, sWork, type, timers, sys, slot, world, told>>
    BY DEF Answer, HistoryOK
<1>2. CASE AnswerNo
  <2>1. ASSUME Unanswered = {}
        PROVE  job' \in AllJobs /\ h' \in HType /\ daRefs' \in Nat
    BY <1>2, <2>1 DEF AnswerNo, JobsOK, WorksOK
  <2>2. ASSUME Unanswered # {}
        PROVE  job' \in AllJobs /\ h' \in HType /\ daRefs' \in Nat
    <3> DEFINE d == First(Unanswered)
    <3>1. d \in Device
      BY <2>2, FirstFacts DEF Unanswered
    <3>2. job' = Over(Received(job, d), d) /\ CommEnds(d, hold, daRefs)
      BY <1>2, <2>2 DEF AnswerNo
    <3> HIDE DEF d
    <3>3. Received(job, d) \in AllJobs /\ Over(Received(job, d), d) \in AllJobs
      BY <3>1, ReceivedFacts, OverFacts DEF JobsOK
    <3>4. h' \in HType /\ daRefs' \in Nat
      BY <3>1, <3>2, CommEndsTypes DEF JobsOK
    <3> QED  BY <3>2, <3>3, <3>4
  <2>3. job' \in AllJobs /\ h' \in HType /\ daRefs' \in Nat
    BY <2>1, <2>2
  <2>4. HistoryOK'
    BY <1>1, CountType DEF HistoryOK
  <2> QED  BY <1>1, <2>3, <2>4, TypePartsNext DEF JobsOK, RoundsOK, WorksOK, WorldOK, world
<1>3. ASSUME job' \in AllJobs, h' \in HType, daRefs' \in Nat PROVE FotaTypeOK'
  <2>1. HistoryOK'
    BY <1>1, CountType DEF HistoryOK
  <2> QED  BY <1>1, <1>3, <2>1, TypePartsNext DEF JobsOK, RoundsOK, WorksOK, WorldOK, world
<1>4. CASE AnswerStarts(q)
    BY <1>3, <1>4, AllReceivedFacts DEF AnswerStarts, JobsOK, HType
<1>5. CASE AnswerSkips(q)
  <2> DEFINE js == [AllReceived EXCEPT ![q].complete = TRUE]
             e == IF q = "nrf9160" THEN "nrf5340" ELSE q
  <2>1. js \in AllJobs
    BY AllReceivedFacts DEF JobsOK, AllJobs, Job
  <2>2. job' = [js EXCEPT ![e].inProgress = FALSE] /\ CommEnds(q, hold, daRefs)
    BY <1>5 DEF AnswerSkips
  <2>3. e \in Device
    BY DEF Device
  <2> HIDE DEF js, e
  <2>4. job' \in AllJobs
    BY <2>1, <2>2, <2>3 DEF AllJobs, Job
  <2> QED  BY <1>3, <2>2, <2>4, CommEndsTypes DEF JobsOK
<1> QED  BY <1>2, <1>4, <1>5 DEF Answer

LEMMA AnswerFailsTypes == ASSUME FotaTypeOK, NEW q \in Device, AnswerFails(q) PROVE FotaTypeOK'
<1> USE TypeParts
<1>1. job' \in AllJobs
    BY AllReceivedFacts DEF AnswerFails, JobsOK
<1>2. HistoryOK'
    BY CountType DEF AnswerFails, HistoryOK
<1> QED  BY <1>1, <1>2, TypePartsNext
            DEF AnswerFails, JobsOK, RoundsOK, WorksOK, WorldOK, works, world

LEMMA PreparedType == ASSUME JobsOK, NEW d PROVE Prepared(d) \in Nat
    BY DEF JobsOK, Prepared

LEMMA StartUpdateTypes == ASSUME FotaTypeOK, StartUpdate PROVE FotaTypeOK'
<1> USE TypeParts
<1>1. orderly' \in BOOLEAN /\ UNCHANGED <<rounds, sys, slot, note>>
    BY DEF StartUpdate, HistoryOK
<1>2. "nrf9160" \in Device /\ "da16200" \in Device /\ "nrf5340" \in Device
    BY DEF Device
<1>3. ASSUME job' \in AllJobs, hold' \in SUBSET Device, daRefs' \in Nat, timers' \in SUBSET TimerSet,
             h' \in HType, ota' \in {0, 1, 4}, lte' \in {"off", "busy", "loaded"}, http' \in HttpType,
             fresh' \in SUBSET Device, told' \in SUBSET Device, NoSetback \/ Setback
      PROVE  FotaTypeOK'
  <2>1. HistoryOK'
    BY <1>1, <1>3, CountType DEF HistoryOK
  <2> QED  BY <1>1, <1>3, <2>1, TypePartsNext DEF JobsOK, RoundsOK, WorksOK, WorldOK, rounds
<1>4. CASE Start9160
  <2>1. CASE h' = Ready /\ UNCHANGED <<jobs, timers, ota, lte, http, fresh, told, count>>
    BY <1>1, <2>1, TypePartsNext, AtRestTypes
       DEF JobsOK, RoundsOK, WorksOK, WorldOK, HistoryOK, jobs, rounds
  <2>2. CASE ~job["nrf9160"].inProgress
    <3>1. job' = [Begun(job, "nrf9160") EXCEPT !["nrf9160"].complete = FALSE]
      BY <1>4, <2>2 DEF Start9160
    <3>2. job' \in AllJobs
      <4> DEFINE js == Begun(job, "nrf9160")
      <4>1. js \in AllJobs
        BY <1>2, BegunFacts DEF JobsOK
      <4>2. job' = [js EXCEPT !["nrf9160"].complete = FALSE]
        BY <3>1
      <4> HIDE DEF js
      <4> QED  BY <1>2, <4>1, <4>2 DEF AllJobs, Job
    <3> QED  BY <1>2, <1>3, <1>4, <2>2, <3>2, AtRestTypes
                DEF Start9160, JobsOK, WorksOK, WorldOK, HistoryOK
  <2> QED  BY <1>4, <2>1, <2>2 DEF Start9160
<1>5. CASE StartDA
  <2> DEFINE js == Begun(job, "da16200")
             held == hold \cup {"da16200"}
  <2>1. js \in AllJobs /\ held \in SUBSET Device /\ Prepared("da16200") \in Nat
    BY <1>2, BegunFacts, PreparedType DEF JobsOK
  <2>2. NoSetback /\ hold' = held /\ UNCHANGED <<timers, lte, http>>
    BY <1>5 DEF StartDA
  <2>3. CASE /\ ota' = 1 /\ job' = js /\ fresh' = fresh \ {"da16200"}
             /\ told' = told \ {"da16200"} /\ h' = Ready /\ daRefs' = Prepared("da16200")
    BY <1>3, <2>1, <2>2, <2>3, AtRestTypes DEF WorksOK, WorldOK, HistoryOK
  <2>4. CASE /\ CommFails("da16200", js, held, Prepared("da16200"))
             /\ UNCHANGED <<ota, fresh, told>>
    BY <1>2, <1>3, <2>1, <2>2, <2>4, CommFailsTypes DEF WorksOK, WorldOK, HistoryOK
  <2> QED  BY <1>5, <2>3, <2>4 DEF StartDA
<1>6. CASE Start5340
  <2> DEFINE js == Begun(job, "nrf5340")
             held == hold \cup {"nrf5340"}
  <2>1. js \in AllJobs /\ held \in SUBSET Device /\ Prepared("nrf5340") \in Nat
    BY <1>2, BegunFacts, PreparedType DEF JobsOK
  <2>2. hold' = held /\ timers' = Monitored /\ UNCHANGED <<ota, lte>>
    BY <1>6 DEF Start5340
  <2>3. timers' \in SUBSET TimerSet
    BY <2>2 DEF WorksOK, Monitored, TimerSet
  <2>4. CASE /\ NoSetback
             /\ http' = [NoHttp EXCEPT !.open = TRUE, !.busy = TRUE, !.ended = http.ended]
             /\ job' = js /\ fresh' = fresh \ {"nrf5340"} /\ told' = told \ {"nrf5340"}
             /\ h' = Ready /\ daRefs' = Prepared("nrf5340")
    <3>1. http' \in HttpType
      BY <2>4 DEF WorldOK, HttpType, NoHttp
    <3> QED  BY <1>3, <2>1, <2>2, <2>3, <2>4, <3>1, AtRestTypes DEF WorldOK, HistoryOK
  <2>5. CASE /\ IF http.open \/ http.busy THEN NoSetback ELSE Setback
             /\ CommFails("nrf5340", js, held, Prepared("nrf5340"))
             /\ UNCHANGED <<http, fresh, told>>
    BY <1>2, <1>3, <2>1, <2>2, <2>3, <2>5, CommFailsTypes DEF WorldOK, HistoryOK
  <2> QED  BY <1>6, <2>4, <2>5 DEF Start5340
<1>7. CASE StartRefused
    BY <1>3, <1>7, AtRestTypes DEF StartRefused, JobsOK, WorksOK, WorldOK, HistoryOK, jobs
<1> QED  BY <1>4, <1>5, <1>6, <1>7 DEF StartUpdate

LEMMA CommEndReturnsTypes == ASSUME FotaTypeOK, CommEndReturns PROVE FotaTypeOK'
    BY TypeParts, TypePartsNext, AtRestTypes
       DEF CommEndReturns, JobsOK, RoundsOK, WorksOK, WorldOK, HistoryOK, rounds, world, history

LEMMA StatusWorkTypes == ASSUME FotaTypeOK, StatusWork PROVE FotaTypeOK'
<1> USE TypeParts
<1>1. slot' = NoStatus /\ slot.dev \in Device /\ UNCHANGED <<hold, rounds, sys, world, orderly>>
    BY DEF StatusWork, WorksOK, SlotType
<1> DEFINE d == slot.dev
<1>2. ASSUME job' \in AllJobs, daRefs' \in Nat, timers' \in SUBSET TimerSet, h' \in HType,
             told' \in SUBSET Device, NoSetback \/ Setback
      PROVE  FotaTypeOK'
  <2>1. HistoryOK'
    BY <1>1, <1>2, CountType DEF HistoryOK
  <2> QED  BY <1>1, <1>2, <2>1, TypePartsNext, AtRestTypes
              DEF JobsOK, RoundsOK, WorksOK, WorldOK, rounds, world
<1>3. CASE StatusLoaded(d)
    BY <1>2, <1>3 DEF StatusLoaded, JobsOK, WorksOK, HistoryOK, TimerSet
<1>4. CASE StatusDone(d)
    BY <1>1, <1>2, <1>4, OverFacts, CommEndsTypes DEF StatusDone, JobsOK, WorksOK, HistoryOK
<1>5. CASE StatusFailed(d)
    BY <1>1, <1>2, <1>5, CommFailsTypes DEF StatusFailed, JobsOK, WorksOK, HistoryOK
<1>6. CASE UNCHANGED <<job, daRefs, timers, h, told, count>>
    BY <1>1, <1>6, TypePartsNext, AtRestTypes
       DEF JobsOK, RoundsOK, WorksOK, WorldOK, HistoryOK, rounds, world
<1> QED  BY <1>3, <1>4, <1>5, <1>6 DEF StatusWork

LEMMA OtherTypes ==
    ASSUME FotaTypeOK, OtaFails \/ OtaRenews \/ OtaEnds \/ LteReports \/ LteBoots \/ HttpEnds
    PROVE  FotaTypeOK'
<1> USE TypeParts
<1>1. "nrf9160" \in Device /\ "da16200" \in Device
    BY DEF Device
<1>2. ASSUME NEW d \in Device, NEW s \in {"loaded", "done", "failed"}, Report(d, s)
      PROVE  slot' \in SlotType
    BY <1>2 DEF Report, SlotType
<1>3. CASE OtaFails
    BY <1>1, <1>2, <1>3, TypePartsNext
       DEF OtaFails, JobsOK, RoundsOK, WorksOK, WorldOK, HistoryOK, jobs, rounds, history
<1>4. CASE OtaRenews
    BY <1>1, <1>2, <1>4, TypePartsNext
       DEF OtaRenews, JobsOK, RoundsOK, WorksOK, WorldOK, HistoryOK, jobs, rounds, history
<1>5. CASE OtaEnds
    BY <1>1, <1>2, <1>5, TypePartsNext
       DEF OtaEnds, JobsOK, RoundsOK, WorksOK, WorldOK, HistoryOK, jobs, rounds, history
<1>6. CASE LteReports
    BY <1>1, <1>2, <1>6, TypePartsNext
       DEF LteReports, JobsOK, RoundsOK, WorksOK, WorldOK, HistoryOK, jobs, rounds, history
<1>7. CASE LteBoots
    BY <1>1, <1>7, TypePartsNext
       DEF LteBoots, JobsOK, RoundsOK, WorksOK, WorldOK, HistoryOK, jobs, rounds, works, history
<1>8. CASE HttpEnds
  <2>1. http' \in HttpType
    BY <1>8 DEF HttpEnds, WorldOK, HttpType
  <2> QED  BY <1>8, <2>1, TypePartsNext
              DEF HttpEnds, JobsOK, RoundsOK, WorksOK, WorldOK, HistoryOK, jobs, rounds, works, history
<1> QED  BY <1>3, <1>4, <1>5, <1>6, <1>7, <1>8

LEMMA HttpBreaksTypes == ASSUME FotaTypeOK, HttpBreaks PROVE FotaTypeOK'
<1> USE TypeParts
<1>1. http' \in HttpType
    BY DEF HttpBreaks, WorldOK, HttpType
<1>2. HistoryOK'
    BY CountType DEF HttpBreaks, HistoryOK
<1> QED  BY <1>1, <1>2, TypePartsNext
            DEF HttpBreaks, JobsOK, RoundsOK, WorksOK, WorldOK, jobs, rounds, works

LEMMA HttpDoneTypes == ASSUME FotaTypeOK, HttpDone PROVE FotaTypeOK'
<1> USE TypeParts
<1>1. /\ http' = [http EXCEPT !.ended = "no"] /\ timers' = NotMonitored
      /\ UNCHANGED <<hold, rounds, sys, slot, ota, lte, fresh, history>>
    BY DEF HttpDone
<1>2. http' \in HttpType /\ timers' \in SUBSET TimerSet
    BY <1>1 DEF WorldOK, HttpType, WorksOK, NotMonitored
<1>3. "nrf5340" \in Device
    BY DEF Device
<1>4. job' \in AllJobs /\ daRefs' \in Nat /\ h' \in HType /\ note' \in BOOLEAN
  <2>1. CASE CommFails("nrf5340", job, hold, daRefs) /\ UNCHANGED note
    BY <1>3, <2>1, CommFailsTypes DEF JobsOK, WorldOK
  <2>2. CASE /\ note' = TRUE
             /\ h' = [place |-> "flashing", dev |-> "nrf5340"]
             /\ UNCHANGED <<job, daRefs>>
    BY <1>3, <2>2 DEF JobsOK, HType
  <2>3. CASE UNCHANGED <<job, daRefs, h, note>>
    BY <2>3 DEF JobsOK, WorksOK, WorldOK
  <2> QED  BY <2>1, <2>2, <2>3 DEF HttpDone
<1> QED  BY <1>1, <1>2, <1>4, TypePartsNext
            DEF JobsOK, RoundsOK, WorksOK, WorldOK, HistoryOK, rounds, history

LEMMA FlashFailsTypes == ASSUME FotaTypeOK, FlashFails PROVE FotaTypeOK'
<1> USE TypeParts
<1>1. "nrf5340" \in Device
    BY DEF Device
<1>2. job' \in AllJobs /\ daRefs' \in Nat /\ h' \in HType
    BY <1>1, CommFailsTypes DEF FlashFails, JobsOK
<1>3. HistoryOK'
    BY CountType DEF FlashFails, HistoryOK
<1> QED  BY <1>2, <1>3, TypePartsNext
            DEF FlashFails, JobsOK, RoundsOK, WorksOK, WorldOK, rounds, world

LEMMA RebootTypes ==
    ASSUME FotaTypeOK, Reboot, fresh' \in SUBSET Device, UNCHANGED note, HistoryOK'
    PROVE  FotaTypeOK'
<1> USE TypeParts
<1>1. JobsOK'
    BY ClearedFacts DEF Reboot, JobsOK, AllCleared
<1>2. RoundsOK' /\ WorksOK'
    BY AtRestTypes DEF Reboot, RoundsOK, WorksOK
<1>3. WorldOK'
    BY AtRestTypes DEF Reboot, WorldOK
<1> QED  BY <1>1, <1>2, <1>3, TypePartsNext

LEMMA ResetsTypes == ASSUME FotaTypeOK, Flashed \/ Reset PROVE FotaTypeOK'
<1> USE TypeParts
<1>1. Reboot /\ UNCHANGED note
    BY DEF Flashed, Reset
<1>2. fresh' \in SUBSET Device
    BY DEF Flashed, Reset, WorldOK, Device
<1>3. HistoryOK'
    BY CountType DEF Flashed, Reset, HistoryOK, history
<1> QED  BY <1>1, <1>2, <1>3, RebootTypes

LEMMA NextTypes == FotaTypeOK /\ [FotaNext]_fotaVars => FotaTypeOK'
<1> SUFFICES ASSUME FotaTypeOK, [FotaNext]_fotaVars PROVE FotaTypeOK'
    OBVIOUS
<1>1. CASE UNCHANGED fotaVars
    BY <1>1, TypeParts, TypePartsNext
       DEF fotaVars, jobs, rounds, works, world, history, JobsOK, RoundsOK, WorksOK, WorldOK, HistoryOK
<1>2. CASE FotaNext
    BY <1>2, PollTypes, SysEndReturnsTypes, FinishRoundTypes, VersionCheckTypes, MonitorTypes,
       BootCheckTypes, StartRoundTypes, AnswerTypes, AnswerFailsTypes, StartUpdateTypes,
       CommEndReturnsTypes, StatusWorkTypes, OtherTypes, HttpBreaksTypes, HttpDoneTypes,
       FlashFailsTypes, ResetsTypes DEF FotaNext
<1> QED  BY <1>1, <1>2

-----------------------------------------------------------------------------
(* One job at a time, as long as nothing came late *)

Pending(js, d) == js[d].requested /\ ~js[d].complete

(* A processor is asked for when those before it are done with. *)
JobsGoOn(js) ==
    /\ \A d \in Device : /\ js[d].received => js[d].requested
                         /\ js[d].inProgress => js[d].received /\ ~js[d].complete
    /\ js["da16200"].requested => js["nrf9160"].complete
    /\ js["nrf5340"].requested => js["nrf9160"].complete /\ js["da16200"].complete

(* The system work queue is not blocked while a job is on its way, ... *)
PendingSysIdle == \A d \in Device : Pending(job, d) => SysIdle

(* ... commMgr_work_q only before its update has begun, or to flash it. *)
StartsPending ==
    h.place = "starting" => /\ Pending(job, h.dev) /\ job[h.dev].received
                            /\ ~job[h.dev].inProgress

ProgressIdle ==
    \A d \in Device : job[d].inProgress =>
        h = Ready \/ (h.place = "flashing" /\ d = "nrf5340")

(* A flag is set for the update in progress, or until an end that has begun. *)
HeldByOne ==
    \A d \in hold : \/ job[d].inProgress
                    \/ InSeq(d, sys.ends)
                    \/ h = [place |-> "ending", dev |-> d]

ProgressHeld == \A d \in Device : job[d].inProgress => d \in hold

PrepareCounted == daRefs = IF job["da16200"].inProgress \/ job["nrf5340"].inProgress THEN 1 ELSE 0

OneJob ==
    /\ JobsGoOn(job) /\ PendingSysIdle /\ StartsPending
    /\ ProgressIdle /\ HeldByOne /\ ProgressHeld /\ PrepareCounted

LEMMA OnePending ==
    ASSUME NEW js, JobsGoOn(js), NEW d \in Device, NEW e \in Device, Pending(js, d), Pending(js, e)
    PROVE  d = e
    BY DEF JobsGoOn, Pending, Device

LEMMA ProgressPends ==
    ASSUME NEW js, JobsGoOn(js), NEW d \in Device, js[d].inProgress
    PROVE  Pending(js, d) /\ js[d].received
    BY DEF JobsGoOn, Pending

(* The step leaves nothing on its way: what is held must be on its way out. *)
LEMMA NonePending ==
    ASSUME JobsGoOn(job'), \A d \in Device : ~Pending(job', d), h'.place # "starting",
           daRefs' = 0, HeldByOne'
    PROVE  OneJob'
<1>1. \A d \in Device : ~job'[d].inProgress
    BY ProgressPends
<1>2. "da16200" \in Device /\ "nrf5340" \in Device
    BY DEF Device
<1> QED  BY <1>1, <1>2 DEF OneJob, PendingSysIdle, StartsPending, ProgressIdle, ProgressHeld,
            PrepareCounted

(* After the one that was pending is over *)
LEMMA OverGoesOn ==
    ASSUME NEW js \in AllJobs, JobsGoOn(js), NEW d \in Device, Pending(js, d)
    PROVE  JobsGoOn(Over(js, d)) /\ \A e \in Device : ~Pending(Over(js, d), e)
<1>1. JobsGoOn(Over(js, d))
    BY OverFacts DEF JobsGoOn, Same, Device
<1>2. ASSUME NEW e \in Device PROVE ~Pending(Over(js, d), e)
  <2>1. CASE e = d
    BY <2>1, OverFacts DEF Pending
  <2>2. CASE e # d
    BY <2>2, OverFacts, OnePending DEF Pending, Same
  <2> QED  BY <2>1, <2>2
<1> QED  BY <1>1, <1>2

(* The count when the one that is pending ends: 1 or 0, and 1 only while it is
   in progress and held. *)
LEMMA CountOfPending ==
    ASSUME JobsOK, OneJob, NEW d \in Device, Pending(job, d)
    PROVE  /\ daRefs \in {0, 1}
           /\ daRefs = 1 => job[d].inProgress /\ d \in hold
<1>1. \A e \in Device : job[e].inProgress => e = d
    BY ProgressPends, OnePending DEF OneJob
<1>2. "da16200" \in Device /\ "nrf5340" \in Device
    BY DEF Device
<1> QED  BY <1>1, <1>2 DEF OneJob, PrepareCounted, ProgressHeld

(* The system work queue ends it, ... *)
LEMMA SysOverKeeps ==
    ASSUME JobsOK, OneJob, SysIdle, h.place # "starting", NEW d \in Device, Pending(job, d),
           job' = Over(job, d), SysEnds(<<d>>), UNCHANGED <<hold, h>>
    PROVE  OneJob'
<1>1. JobsGoOn(job') /\ \A e \in Device : ~Pending(job', e)
    BY OverGoesOn DEF OneJob, JobsOK
<1>2. daRefs' = 0
  <2>1. sys'.ends = Ending(<<d>>, hold) /\ daRefs' = RefsAfter(sys'.ends, daRefs)
    BY DEF SysEnds
  <2> QED  BY <2>1, CountOfPending, EndingOne, RefsAfterFacts DEF JobsOK
<1>3. HeldByOne'
  <2> SUFFICES ASSUME NEW e \in hold, ~(h = [place |-> "ending", dev |-> e])
               PROVE  InSeq(e, sys'.ends)
    BY DEF HeldByOne
  <2>1. e \in Device /\ ~InSeq(e, sys.ends)
    BY DEF JobsOK, SysIdle, InSeq
  <2>2. job[e].inProgress
    BY <2>1 DEF OneJob, HeldByOne
  <2>3. e = d
    BY <2>1, <2>2, ProgressPends, OnePending DEF OneJob
  <2> QED  BY <2>3, EndingOne DEF SysEnds, JobsOK
<1> QED  BY <1>1, <1>2, <1>3, NonePending

(* ... or commMgr_work_q. *)
LEMMA CommOverKeeps ==
    ASSUME JobsOK, OneJob, h.place # "ending", NEW d \in Device,
           NEW js \in AllJobs, JobsGoOn(js), Pending(js, d),
           NEW held \in SUBSET Device, NEW r \in {0, 1}, r = 1 => d \in held,
           \A e \in held : e = d \/ InSeq(e, sys.ends),
           job' = Over(js, d), CommEnds(d, held, r), hold' = held, UNCHANGED sys
    PROVE  OneJob'
<1>1. JobsGoOn(job') /\ \A e \in Device : ~Pending(job', e)
    BY OverGoesOn
<1>2. daRefs' = 0
    BY EndingOne, RefsAfterFacts DEF CommEnds
<1>3. HeldByOne'
    BY DEF CommEnds, HeldByOne
<1>4. h'.place # "starting"
    BY DEF CommEnds, Ready
<1> QED  BY <1>1, <1>2, <1>3, <1>4, NonePending

-----------------------------------------------------------------------------
(* The rest of the invariant *)

InRound == ("poll" \in timers => round) /\ \A d \in Device : job[d].requested => round

(* In the minute after a reset nothing goes on yet. *)
BeforeBoot ==
    "boot" \in timers =>
        ~round /\ type = NoDevice /\ h = Ready /\ ~http.busy /\ http.ended = "no"

(* A report of "done" is about a version that runs. *)
DoneIsFresh == slot.state = "done" /\ job[slot.dev].inProgress => slot.dev \in fresh

(* What is flashed, or will be, is whole, and no download writes to it. *)
Image ==
    /\ http.ended = "ok" => http.whole
    /\ http.ended # "no" => ~http.busy /\ ~http.open
    /\ h.place = "flashing" => http.whole /\ ~http.busy /\ ~http.open

RestOrderly == InRound /\ BeforeBoot /\ DoneIsFresh /\ told \subseteq fresh /\ Image

Orderly == OneJob /\ RestOrderly

FotaInv == FotaTypeOK /\ (orderly => Orderly)

LEMMA SlotDev == ASSUME WorksOK PROVE slot.state = "done" => slot.dev \in Device
    BY DEF WorksOK, SlotType, NoStatus

(* h.dev is a processor where it matters *)
LEMMA StartsDevice == ASSUME WorksOK, h # Ready PROVE h.dev \in Device
    BY DEF WorksOK, HType

LEMMA RequestedFacts ==
    ASSUME RestOrderly, NEW d \in Device, job[d].requested
    PROVE  round /\ "boot" \notin timers
    BY DEF RestOrderly, InRound, BeforeBoot

(* A step that begins nothing *)
LEMMA NothingBegins ==
    ASSUME JobsOK, RestOrderly, WorksOK, RoundsOK, job' \in AllJobs,
           \A d \in Device : /\ job'[d].requested => job[d].requested
                             /\ job'[d].inProgress => job[d].inProgress,
           UNCHANGED <<round, type, http>>,
           "poll" \in timers' => "poll" \in timers, "boot" \in timers' => "boot" \in timers,
           h' = h \/ "boot" \notin timers, h'.place = "flashing" => h.place = "flashing",
           slot' \in {slot, NoStatus}, fresh \subseteq fresh', told' \subseteq fresh'
    PROVE  RestOrderly'
<1>1. InRound'
    BY DEF RestOrderly, InRound, RoundsOK, JobsOK, AllJobs, Job
<1>2. BeforeBoot'
    BY DEF RestOrderly, BeforeBoot
<1>3. Image'
    BY DEF RestOrderly, Image
<1>4. DoneIsFresh'
  <2>1. CASE slot' = slot
    <3>1. ASSUME slot.state = "done", job'[slot.dev].inProgress PROVE slot.dev \in fresh'
      BY <3>1, SlotDev DEF RestOrderly, DoneIsFresh, JobsOK, AllJobs, Job
    <3> QED  BY <2>1, <3>1 DEF DoneIsFresh
  <2>2. CASE slot' = NoStatus
    BY <2>2 DEF DoneIsFresh, NoStatus
  <2> QED  BY <2>1, <2>2
<1> QED  BY <1>1, <1>2, <1>3, <1>4 DEF RestOrderly

LEMMA OverBeginsNothing ==
    ASSUME NEW js \in AllJobs, NEW d \in Device
    PROVE  \A e \in Device : /\ Over(js, d)[e].requested => js[e].requested
                             /\ Over(js, d)[e].inProgress => js[e].inProgress
    BY OverFacts, JobFacts DEF Same

(* A job that is over, ended by the system work queue ... *)
LEMMA SysOverOrderly ==
    ASSUME FotaTypeOK, Orderly, SysIdle, h.place # "starting", NEW d \in Device, Pending(job, d),
           job' = Over(job, d), SysEnds(<<d>>), UNCHANGED <<hold, h, round, type, http, slot>>,
           timers' \subseteq timers, fresh' = fresh, told' \subseteq fresh'
    PROVE  Orderly'
<1>1. OneJob'
    BY SysOverKeeps, TypeParts DEF Orderly
<1>2. RestOrderly'
    BY NothingBegins, OverBeginsNothing, OverFacts, TypeParts DEF Orderly, JobsOK
<1> QED  BY <1>1, <1>2 DEF Orderly

LEMMA PollOrderly == ASSUME FotaTypeOK, Orderly, Poll PROVE Orderly'
<1> USE TypeParts
<1>1. /\ "poll" \in timers /\ SysIdle
      /\ UNCHANGED <<hold, sWork, h, slot, world, told, orderly>>
    BY DEF Poll
<1>2. round /\ "boot" \notin timers
    BY <1>1 DEF Orderly, RestOrderly, InRound, BeforeBoot
<1>3. told \subseteq fresh
    BY DEF Orderly, RestOrderly
<1>4. ASSUME Incomplete # {}, PollChecks(First(Incomplete)) PROVE Orderly'
  <2> DEFINE d == First(Incomplete)
  <2>1. d \in Device /\ ~job[d].complete /\ ~job[d].requested
    BY <1>4, FirstFacts DEF Incomplete, PollChecks
  <2>2. /\ d = "da16200" => job["nrf9160"].complete
        /\ d = "nrf5340" => job["nrf9160"].complete /\ job["da16200"].complete
    BY DEF First, Incomplete, Device
  <2>3. job' = Checked(d) /\ type' = d /\ UNCHANGED <<daRefs, round, timers, sys>>
    BY <1>4 DEF PollChecks
  <2> HIDE DEF d
  <2>4. \A e \in Device : ~Pending(job, e)
    BY <2>1, <2>2 DEF Pending, Orderly, OneJob, JobsGoOn, Device
  <2>5. /\ Checked(d) \in AllJobs
        /\ \A e \in Device : /\ Pending(Checked(d), e) => e = d
                             /\ ~Checked(d)[e].inProgress
    <3>1. \A e \in Device : ~job[e].inProgress
      BY <2>4, ProgressPends DEF Orderly, OneJob
    <3> QED  BY <2>1, <2>4, <3>1, CheckedFacts DEF JobsOK, Same, Pending
  <2>6. JobsGoOn(Checked(d))
    BY <2>1, <2>2, CheckedFacts DEF JobsGoOn, Same, JobsOK, Device, Orderly, OneJob
  <2>7. daRefs = 0 /\ h.place # "starting"
    <3>1. "da16200" \in Device /\ "nrf5340" \in Device
      BY DEF Device
    <3>2. h.place = "starting" => h.dev \in Device
      BY StartsDevice DEF Ready
    <3> QED  BY <2>4, <3>1, <3>2, ProgressPends DEF Orderly, OneJob, PrepareCounted, StartsPending
  <2>8. HeldByOne'
    BY <1>1, <2>3, <2>4, ProgressPends DEF Orderly, OneJob, HeldByOne, JobsOK
  <2>9. OneJob'
    BY <1>1, <2>3, <2>5, <2>6, <2>7, <2>8
       DEF OneJob, PendingSysIdle, StartsPending, ProgressIdle, ProgressHeld, PrepareCounted, SysIdle,
           Device
  <2>10. RestOrderly'
    BY <1>1, <1>2, <1>3, <2>3, <2>5, SlotDev
       DEF Orderly, RestOrderly, InRound, BeforeBoot, DoneIsFresh, Image, world
  <2> QED  BY <2>9, <2>10 DEF Orderly
<1>5. ASSUME Incomplete # {}, PollTimesOut(First(Incomplete)) PROVE Orderly'
  <2> DEFINE d == First(Incomplete)
  <2>1. d \in Device /\ Pending(job, d) /\ TimeIsUp(d)
    BY <1>5, FirstFacts DEF Incomplete, PollTimesOut, Pending
  <2>2. job' = Over(job, d) /\ SysEnds(<<d>>) /\ UNCHANGED <<round, type, asked, timers>>
    BY <1>5 DEF PollTimesOut
  <2> HIDE DEF d
  <2>3. h.place # "starting"
    <3>1. h.place = "starting" => h.dev \in Device
      BY StartsDevice DEF Ready
    <3> QED  BY <2>1, <3>1, OnePending DEF Orderly, OneJob, StartsPending, TimeIsUp
  <2> QED  BY <1>1, <1>3, <2>1, <2>2, <2>3, SysOverOrderly DEF world
<1>6. ASSUME PollFinishes PROVE Orderly'
  <2> DEFINE s == <<"nrf5340", "nrf9160", "da16200">>
  <2>1. /\ job' = AllCleared /\ round' = FALSE /\ timers' = timers \ {"poll"}
        /\ sys'.ends = Ending(s, hold) /\ daRefs' = RefsAfter(sys'.ends, daRefs)
        /\ Incomplete = {} /\ UNCHANGED <<type, asked>>
    BY <1>6 DEF PollFinishes
  <2>2. /\ s \in Seq(Device) /\ DOMAIN s = 1..3
        /\ s[1] = "nrf5340" /\ s[2] = "nrf9160" /\ s[3] = "da16200"
    BY DEF Device
  <2> HIDE DEF s
  <2>3. \A d \in Device : InSeq(d, s)
    BY <2>2 DEF InSeq, Device
  <2>4. \A d \in Device : ~job[d].inProgress
    BY <2>1 DEF Incomplete, Orderly, OneJob, JobsGoOn
  <2>5. daRefs = 0
    BY <2>4 DEF Device, Orderly, OneJob, PrepareCounted
  <2>6. daRefs' = 0
    BY <2>1, <2>5, RefsAfterFacts
  <2>7. HeldByOne'
    BY <1>1, <2>1, <2>2, <2>3, EndingFacts DEF HeldByOne, JobsOK
  <2>8. JobsGoOn(job') /\ \A d \in Device : ~Pending(job', d)
    BY <2>1, ClearedFacts DEF JobsGoOn, Pending, Device
  <2>9. h'.place # "starting"
    <3>1. h.place = "starting" => h.dev \in Device
      BY StartsDevice DEF Ready
    <3> QED  BY <1>1, <2>1, <3>1 DEF Orderly, OneJob, StartsPending, Pending, Incomplete
  <2>10. OneJob'
    BY <2>6, <2>7, <2>8, <2>9, NonePending
  <2>11. RestOrderly'
    BY <1>1, <1>2, <1>3, <2>1, ClearedFacts, SlotDev
       DEF Orderly, RestOrderly, InRound, BeforeBoot, DoneIsFresh, Image, world
  <2> QED  BY <2>10, <2>11 DEF Orderly
<1> QED  BY <1>4, <1>5, <1>6 DEF Poll

LEMMA SysEndReturnsOrderly == ASSUME FotaTypeOK, Orderly, SysEndReturns PROVE Orderly'
<1> USE TypeParts
<1>1. /\ sys.ends \in Seq(Device) /\ sys.ends # <<>> /\ hold' = hold \ {Head(sys.ends)}
      /\ sys'.ends = Ending(Tail(sys.ends), hold') /\ daRefs' = RefsAfter(sys'.ends, daRefs)
      /\ UNCHANGED <<job, rounds, timers, h, slot, world, history>>
    BY DEF SysEndReturns, WorksOK, SysType
<1>2. \A d \in Device : ~Pending(job, d)
    BY <1>1 DEF Orderly, OneJob, PendingSysIdle, SysIdle
<1>3. \A d \in Device : ~job[d].inProgress
    BY <1>2, ProgressPends DEF Orderly, OneJob
<1>4. daRefs' = 0
  <2>1. daRefs = 0
    BY <1>3 DEF Device, Orderly, OneJob, PrepareCounted
  <2> QED  BY <1>1, <2>1, RefsAfterFacts
<1>5. HeldByOne'
  <2> SUFFICES ASSUME NEW d \in hold', ~(h = [place |-> "ending", dev |-> d])
               PROVE  InSeq(d, sys'.ends)
    BY <1>1 DEF HeldByOne
  <2>1. d \in Device /\ d \in hold /\ d # Head(sys.ends)
    BY <1>1 DEF JobsOK
  <2>2. PICK i \in DOMAIN sys.ends : sys.ends[i] = d
    BY <1>3, <2>1 DEF Orderly, OneJob, HeldByOne, InSeq
  <2>3. i - 1 \in DOMAIN Tail(sys.ends) /\ Tail(sys.ends)[i - 1] = d
    BY <1>1, <2>1, <2>2
  <2>4. InSeq(d, Tail(sys.ends)) /\ Tail(sys.ends) \in Seq(Device) /\ hold' \in SUBSET Device
    BY <1>1, <2>3 DEF InSeq, JobsOK
  <2>5. InSeq(d, Ending(Tail(sys.ends), hold'))
    BY <2>4, EndingFacts
  <2> QED  BY <1>1, <2>5 DEF rounds, world, history
<1>6. h'.place # "starting"
    BY <1>1, <1>2, StartsDevice DEF Orderly, OneJob, StartsPending, Ready
<1>7. OneJob'
    BY <1>1, <1>2, <1>4, <1>5, <1>6, NonePending DEF Orderly, OneJob, Pending
<1>8. RestOrderly'
    BY <1>1, NothingBegins DEF Orderly, RestOrderly, rounds, world, history, JobsOK
<1> QED  BY <1>7, <1>8 DEF Orderly

(* A step that leaves the jobs and the ends alone *)
LEMMA OneJobStays ==
    ASSUME OneJob, UNCHANGED <<job, hold, daRefs, h, sys>>
    PROVE  OneJob'
    BY DEF OneJob, PendingSysIdle, StartsPending, ProgressIdle, HeldByOne, ProgressHeld,
           PrepareCounted, SysIdle

LEMMA OneJobFinishes ==
    ASSUME OneJob, UNCHANGED <<job, hold, daRefs, h>>, sys'.ends = sys.ends, ~sys'.closing
    PROVE  OneJob'
    BY DEF OneJob, PendingSysIdle, StartsPending, ProgressIdle, HeldByOne, ProgressHeld,
           PrepareCounted, SysIdle

LEMMA FinishRoundOrderly == ASSUME FotaTypeOK, Orderly, FinishRound PROVE Orderly'
<1> USE TypeParts
<1>1. /\ sys'.ends = sys.ends /\ ~sys'.closing
      /\ UNCHANGED <<jobs, round, type, asked, timers, h, slot, world, history>>
    BY DEF FinishRound, WorksOK, SysType
<1>2. OneJob'
    BY <1>1, OneJobFinishes DEF Orderly, jobs
<1>3. RestOrderly'
    BY <1>1, NothingBegins DEF Orderly, RestOrderly, jobs, world, history, JobsOK
<1> QED  BY <1>2, <1>3 DEF Orderly

LEMMA StartRoundOrderly == ASSUME FotaTypeOK, Orderly, StartRound PROVE Orderly'
<1> USE TypeParts
<1>1. /\ ~round /\ "boot" \notin timers /\ round' = TRUE /\ job' = AllCleared
      /\ timers' = timers \cup {"poll"} /\ fresh' = {} /\ told' = {}
      /\ UNCHANGED <<hold, daRefs, type, sys, h, slot, http>>
    BY DEF StartRound
<1>2. \A d \in Device : ~job[d].requested
    BY <1>1 DEF Orderly, RestOrderly, InRound
<1>3. \A d \in Device : ~job[d].inProgress
    BY <1>2 DEF Orderly, OneJob, JobsGoOn
<1>4. JobsGoOn(job') /\ \A d \in Device : ~Pending(job', d)
    BY <1>1, ClearedFacts DEF JobsGoOn, Pending, Device
<1>5. daRefs' = 0
    BY <1>1, <1>3 DEF Device, Orderly, OneJob, PrepareCounted
<1>6. HeldByOne'
    BY <1>1, <1>3 DEF Orderly, OneJob, HeldByOne, JobsOK
<1>7. h'.place # "starting"
    BY <1>1, <1>2, StartsDevice DEF Orderly, OneJob, StartsPending, Ready, Pending
<1>8. OneJob'
    BY <1>4, <1>5, <1>6, <1>7, NonePending
<1>9. RestOrderly'
    BY <1>1, ClearedFacts, SlotDev
       DEF Orderly, RestOrderly, InRound, BeforeBoot, DoneIsFresh, Image
<1> QED  BY <1>8, <1>9 DEF Orderly

(* An update in progress leaves commMgr_work_q free, or flashing. *)
LEMMA ProgressNotStarting ==
    ASSUME OneJob, NEW d \in Device, job[d].inProgress
    PROVE  Pending(job, d) /\ h.place \notin {"starting", "ending"}
    BY ProgressPends DEF OneJob, ProgressIdle, Ready

LEMMA VersionCheckOrderly == ASSUME FotaTypeOK, Orderly, VersionCheck PROVE Orderly'
<1> USE TypeParts
<1>1. SysIdle /\ UNCHANGED <<hold, rounds, h, slot, world, orderly>>
    BY DEF VersionCheck
<1>2. told \subseteq fresh
    BY DEF Orderly, RestOrderly
<1>3. CASE timers' = timers \ {"version"} /\ UNCHANGED <<job, daRefs, sys, told, count>>
  <2>1. OneJob'
    BY <1>1, <1>3, OneJobStays DEF Orderly
  <2>2. RestOrderly'
    BY <1>1, <1>2, <1>3, NothingBegins DEF Orderly, rounds, world, JobsOK
  <2> QED  BY <2>1, <2>2 DEF Orderly
<1>4. ASSUME NEW d \in Device, job[d].inProgress, VersionCheckOf(d) PROVE Orderly'
  <2>1. Pending(job, d) /\ h.place # "starting"
    BY <1>4, ProgressNotStarting DEF Orderly
  <2>2. ASSUME job' = Over(job, d), SysEnds(<<d>>), timers' \subseteq timers, told' \subseteq fresh'
        PROVE  Orderly'
    BY <1>1, <2>1, <2>2, SysOverOrderly DEF rounds, world
  <2>3. CASE d \in fresh /\ SysDone(d) /\ timers' = timers \ {"version"}
    BY <1>1, <1>2, <2>2, <2>3 DEF SysDone, world
  <2>4. CASE Setback /\ UNCHANGED <<job, daRefs, timers, sys, told>>
    <3>1. OneJob'
      BY <1>1, <2>4, OneJobStays DEF Orderly
    <3>2. RestOrderly'
      BY <1>1, <1>2, <2>4, NothingBegins DEF Orderly, rounds, world, JobsOK
    <3> QED  BY <3>1, <3>2 DEF Orderly
  <2>5. CASE SysFails(d) /\ timers' = timers \ {"version"} /\ UNCHANGED told
    BY <1>1, <1>2, <1>4, <2>2, <2>5 DEF SysFails, world
  <2> QED  BY <1>4, <2>3, <2>4, <2>5 DEF VersionCheckOf
<1>5. "nrf9160" \in Device /\ "da16200" \in Device
    BY DEF Device
<1> QED  BY <1>3, <1>4, <1>5 DEF VersionCheck, Verifying

LEMMA MonitorOrderly == ASSUME FotaTypeOK, Orderly, Monitor PROVE Orderly'
<1> USE TypeParts
<1>1. /\ SysIdle /\ timers' \subseteq timers /\ SysFails("nrf5340") /\ "nrf5340" \in Device
      /\ UNCHANGED <<hold, rounds, h, slot, world, history>>
    BY DEF Monitor, NotMonitored, Device
<1>2. told' \subseteq fresh'
    BY <1>1 DEF Orderly, RestOrderly, world, history
<1>3. CASE job["nrf5340"].inProgress
  <2>1. Pending(job, "nrf5340") /\ h.place # "starting"
    BY <1>1, <1>3, ProgressNotStarting DEF Orderly
  <2> QED  BY <1>1, <1>2, <1>3, <2>1, SysOverOrderly DEF SysFails, rounds, world
<1>4. CASE UNCHANGED <<job, daRefs, sys>>
  <2>1. OneJob'
    BY <1>1, <1>4, OneJobStays DEF Orderly
  <2>2. RestOrderly'
    BY <1>1, <1>2, <1>4, NothingBegins DEF Orderly, rounds, world, JobsOK
  <2> QED  BY <2>1, <2>2 DEF Orderly
<1> QED  BY <1>1, <1>3, <1>4 DEF SysFails

LEMMA BootCheckOrderly == ASSUME FotaTypeOK, Orderly, BootCheck PROVE Orderly'
<1> USE TypeParts
<1>1. /\ "boot" \in timers /\ SysIdle
      /\ UNCHANGED <<hold, round, type, h, slot, fresh>>
    BY DEF BootCheck, rounds
<1>2. /\ ~round /\ type = NoDevice /\ h = Ready /\ ~http.busy /\ http.ended = "no"
      /\ told \subseteq fresh
    BY <1>1 DEF Orderly, RestOrderly, BeforeBoot
<1>3. \A d \in Device : ~job[d].requested /\ ~job[d].received /\ ~job[d].inProgress
    BY <1>2 DEF Orderly, RestOrderly, InRound, OneJob, JobsGoOn
<1>4. CASE timers' = timers \ {"boot"} /\ UNCHANGED <<job, daRefs, sys, http, told>>
  <2>1. OneJob'
    BY <1>1, <1>4, OneJobStays DEF Orderly
  <2>2. RestOrderly'
    BY <1>1, <1>2, <1>4, NothingBegins DEF Orderly, JobsOK
  <2> QED  BY <2>1, <2>2 DEF Orderly
<1>5. CASE note
  <2>1. /\ job' = [job EXCEPT !["nrf5340"] = NoJob]
        /\ sys'.ends = Ending(<<"nrf5340">>, hold) /\ daRefs' = RefsAfter(sys'.ends, daRefs)
        /\ http' = [http EXCEPT !.whole = FALSE]
    <3>1. SysEnds(<<"nrf5340">>)
      BY <1>5 DEF BootCheck
    <3> QED  BY <1>5, <3>1 DEF BootCheck, SysEnds, WorksOK, SysType
  <2>2. timers' \subseteq timers
    BY <1>5 DEF BootCheck, NotMonitored
  <2>3. told' \subseteq fresh
    BY <1>2, <1>5 DEF BootCheck
  <2>4. /\ job' \in AllJobs
        /\ \A d \in Device : /\ ~job'[d].requested /\ ~job'[d].received /\ ~job'[d].inProgress
    BY <1>3, <2>1 DEF JobsOK, AllJobs, NoJob, Job
  <2>5. JobsGoOn(job') /\ \A d \in Device : ~Pending(job', d)
    BY <2>4 DEF JobsGoOn, Pending, Device
  <2>6. daRefs' = 0
    <3>1. daRefs = 0
      BY <1>3 DEF Device, Orderly, OneJob, PrepareCounted
    <3> QED  BY <2>1, <3>1, RefsAfterFacts
  <2>7. h.place # "ending" /\ sys.ends = <<>>
    BY <1>1, <1>2 DEF Ready, SysIdle
  <2>8. hold = {}
    BY <1>3, <2>7 DEF Orderly, OneJob, HeldByOne, JobsOK, InSeq
  <2>9. OneJob'
    BY <1>1, <1>2, <2>5, <2>6, <2>8, NonePending DEF HeldByOne, Ready
  <2>10. http'.ended = "no" /\ ~http'.busy
    BY <1>2, <2>1 DEF WorldOK, HttpType
  <2>11. InRound' /\ BeforeBoot' /\ DoneIsFresh'
    BY <1>1, <1>2, <2>4, <2>10, <2>2, SlotDev DEF Orderly, RestOrderly, InRound, BeforeBoot,
       DoneIsFresh
  <2>12. Image'
    BY <1>1, <1>2, <2>10 DEF Image, Ready
  <2> QED  BY <1>1, <2>3, <2>9, <2>11, <2>12 DEF Orderly, RestOrderly
<1> QED  BY <1>4, <1>5 DEF BootCheck

-----------------------------------------------------------------------------
(* The communication manager's queue *)

LEMMA ReceivedGoesOn ==
    ASSUME NEW js \in AllJobs, JobsGoOn(js), NEW d \in Device, Pending(js, d)
    PROVE  JobsGoOn(Received(js, d)) /\ Pending(Received(js, d), d)
<1>1. Pending(Received(js, d), d)
    BY ReceivedFacts DEF Pending
<1>2. JobsGoOn(Received(js, d))
    BY ReceivedFacts DEF JobsGoOn, Same, Device, Pending
<1> QED  BY <1>1, <1>2

LEMMA AllReceivedGoesOn ==
    ASSUME JobsOK, JobsGoOn(job)
    PROVE  JobsGoOn(AllReceived) /\ \A d \in Device : Pending(AllReceived, d) <=> Pending(job, d)
<1>1. \A d \in Device : Pending(AllReceived, d) <=> Pending(job, d)
    BY AllReceivedFacts DEF Pending, JobsOK
<1>2. JobsGoOn(AllReceived)
    BY AllReceivedFacts DEF JobsGoOn, Device, JobsOK
<1> QED  BY <1>1, <1>2

(* What is held while a job is on its way, but its update has not begun *)
LEMMA HeldBefore ==
    ASSUME JobsOK, OneJob, h.place # "ending", NEW d \in Device, Pending(job, d), ~job[d].inProgress
    PROVE  hold = {} /\ daRefs = 0 /\ SysIdle /\ \A e \in Device : ~job[e].inProgress
<1>1. SysIdle
    BY DEF OneJob, PendingSysIdle
<1>2. \A e \in Device : ~job[e].inProgress
    BY ProgressPends, OnePending DEF OneJob
<1>3. hold = {}
    BY <1>1, <1>2 DEF OneJob, HeldByOne, JobsOK, SysIdle, InSeq
<1>4. daRefs = 0
    BY <1>2 DEF OneJob, PrepareCounted, Device
<1> QED  BY <1>1, <1>2, <1>3, <1>4

LEMMA AnswerOrderly ==
    ASSUME FotaTypeOK, Orderly, NEW q \in Device, Answer(q), orderly'
    PROVE  Orderly'
<1> USE TypeParts
<1>1. /\ CommIdle /\ Unanswered = {q} /\ ~job[q].complete /\ type = q
      /\ UNCHANGED <<hold, round, type, timers, sys, slot, http, fresh, told>>
    BY DEF Answer, Stray, world
<1>2. Pending(job, q) /\ job[q].requested /\ ~job[q].received
    BY <1>1 DEF Unanswered, Pending
<1>3. ~job[q].inProgress /\ h.place # "ending"
    BY <1>1, <1>2 DEF CommIdle, Orderly, OneJob, JobsGoOn
<1>4. hold = {} /\ daRefs = 0 /\ SysIdle /\ \A e \in Device : ~job[e].inProgress
    BY <1>2, <1>3, HeldBefore DEF Orderly
<1>5. told \subseteq fresh /\ "boot" \notin timers
    BY <1>2, RequestedFacts DEF Orderly, RestOrderly
<1>6. CASE AnswerNo
  <2>1. First(Unanswered) = q
    BY <1>1, FirstFacts DEF Unanswered
  <2>2. job' = Over(Received(job, q), q) /\ CommEnds(q, hold, daRefs)
    BY <1>1, <1>6, <2>1 DEF AnswerNo
  <2>3. Received(job, q) \in AllJobs /\ JobsGoOn(Received(job, q)) /\ Pending(Received(job, q), q)
    BY <1>2, ReceivedFacts, ReceivedGoesOn DEF JobsOK, Orderly, OneJob
  <2>4. hold' = hold /\ sys' = sys /\ hold \in SUBSET Device /\ \A e \in hold : FALSE
    BY <1>1, <1>4
  <2>5. OneJob'
    BY <1>3, <1>4, <2>2, <2>3, <2>4, CommOverKeeps DEF Orderly, JobsOK
  <2>6. /\ job' \in AllJobs
        /\ \A e \in Device : /\ job'[e].requested => job[e].requested
                             /\ job'[e].inProgress => job[e].inProgress
    <3>1. \A e \in Device : /\ Received(job, q)[e].requested = job[e].requested
                            /\ Received(job, q)[e].inProgress = job[e].inProgress
      BY ReceivedFacts DEF JobsOK, Same
    <3>2. \A e \in Device : /\ job'[e].requested => Received(job, q)[e].requested
                            /\ job'[e].inProgress => Received(job, q)[e].inProgress
      BY <2>2, <2>3, OverBeginsNothing
    <3>3. job' \in AllJobs
      BY <2>2, <2>3, OverFacts
    <3> QED  BY <3>1, <3>2, <3>3
  <2>7. h'.place # "flashing"
    BY <2>2 DEF CommEnds, Ready
  <2>8. RestOrderly'
    BY <1>1, <1>5, <2>6, <2>7, NothingBegins DEF Orderly
  <2> QED  BY <2>5, <2>8 DEF Orderly
<1>7. CASE AnswerStarts(q)
  <2>1. job' = AllReceived /\ h' = [place |-> "starting", dev |-> q] /\ daRefs' = daRefs
    BY <1>7 DEF AnswerStarts
  <2>2. JobsGoOn(AllReceived) /\ \A d \in Device : Pending(AllReceived, d) <=> Pending(job, d)
    BY AllReceivedGoesOn DEF Orderly, OneJob
  <2>3. /\ AllReceived \in AllJobs
        /\ \A e \in Device : ~AllReceived[e].inProgress /\ AllReceived[e].requested = job[e].requested
        /\ AllReceived[q].received
    BY <1>2, <1>4, AllReceivedFacts DEF JobsOK
  <2>4. PendingSysIdle' /\ StartsPending'
    BY <1>1, <1>2, <1>4, <2>1, <2>2, <2>3 DEF PendingSysIdle, StartsPending, SysIdle
  <2>5. ProgressIdle' /\ ProgressHeld' /\ HeldByOne' /\ PrepareCounted'
    BY <1>1, <1>4, <2>1, <2>3 DEF ProgressIdle, ProgressHeld, HeldByOne, PrepareCounted, Device
  <2>6. RestOrderly'
    BY <1>1, <1>5, <2>1, <2>3, NothingBegins DEF Orderly
  <2> QED  BY <2>1, <2>2, <2>4, <2>5, <2>6 DEF Orderly, OneJob
<1>8. ~AnswerSkips(q)
    BY <1>1 DEF AnswerSkips
<1> QED  BY <1>6, <1>7, <1>8 DEF Answer

LEMMA AnswerFailsOrderly ==
    ASSUME FotaTypeOK, Orderly, NEW q \in Device, AnswerFails(q)
    PROVE  Orderly'
<1> USE TypeParts
<1>1. /\ CommIdle /\ job' \in {job, AllReceived}
      /\ UNCHANGED <<hold, daRefs, round, type, timers, sys, h, slot, http, fresh, told>>
    BY DEF AnswerFails, works, world
<1>2. /\ job' \in AllJobs
      /\ \A e \in Device : /\ job'[e].requested = job[e].requested
                           /\ job'[e].inProgress = job[e].inProgress
    BY <1>1, AllReceivedFacts DEF JobsOK
<1>3. JobsGoOn(job') /\ \A d \in Device : Pending(job', d) <=> Pending(job, d)
    BY <1>1, AllReceivedGoesOn DEF Orderly, OneJob
<1>4. PendingSysIdle' /\ StartsPending'
    BY <1>1, <1>3 DEF Orderly, OneJob, PendingSysIdle, StartsPending, SysIdle, CommIdle
<1>5. ProgressIdle' /\ ProgressHeld' /\ HeldByOne' /\ PrepareCounted'
    BY <1>1, <1>2
       DEF Orderly, OneJob, ProgressIdle, ProgressHeld, HeldByOne, PrepareCounted, Device, JobsOK
<1>6. RestOrderly'
    BY <1>1, <1>2, NothingBegins DEF Orderly, RestOrderly
<1> QED  BY <1>3, <1>4, <1>5, <1>6 DEF Orderly, OneJob

(* The update that was asked for begins. *)
LEMMA BegunKeeps ==
    ASSUME JobsOK, OneJob, h.place # "ending", NEW d \in Device, Pending(job, d), job[d].received,
           ~job[d].inProgress,
           job' = Begun(job, d), hold' = hold \cup {d}, sys' = sys, h' = Ready,
           daRefs' = IF d = "nrf9160" THEN daRefs ELSE daRefs + 1
    PROVE  OneJob'
<1>1. hold = {} /\ daRefs = 0 /\ SysIdle /\ \A e \in Device : ~job[e].inProgress
    BY HeldBefore
<1>2. /\ JobsGoOn(job')
      /\ job'[d].inProgress
      /\ \A e \in Device : job'[e].inProgress => e = d
    BY <1>1, BegunFacts DEF JobsGoOn, Same, JobsOK, Device, Pending, OneJob
<1>3. PendingSysIdle' /\ StartsPending'
    BY <1>1 DEF PendingSysIdle, StartsPending, SysIdle, Ready
<1>4. ProgressIdle' /\ HeldByOne' /\ ProgressHeld'
    BY <1>1, <1>2 DEF ProgressIdle, HeldByOne, ProgressHeld
<1>5. PrepareCounted'
    BY <1>1, <1>2 DEF PrepareCounted, Device
<1> QED  BY <1>2, <1>3, <1>4, <1>5 DEF OneJob

LEMMA Begun9160 ==
    ASSUME job \in AllJobs, ~job["nrf9160"].complete
    PROVE  [Begun(job, "nrf9160") EXCEPT !["nrf9160"].complete = FALSE] = Begun(job, "nrf9160")
<1>1. "nrf9160" \in Device /\ job["nrf9160"] \in Job /\ job["nrf9160"].complete = FALSE
    BY DEF Device, AllJobs, Job
<1> QED  BY <1>1 DEF Begun, AllJobs, Job

(* While handle_fota_message() prepares an update, nothing is held. *)
LEMMA StartingFacts ==
    ASSUME FotaTypeOK, Orderly, h.place = "starting"
    PROVE  /\ h.dev \in Device /\ Pending(job, h.dev) /\ job[h.dev].received
           /\ ~job[h.dev].inProgress /\ h.place # "ending"
           /\ hold = {} /\ daRefs = 0 /\ SysIdle /\ \A e \in Device : ~job[e].inProgress
           /\ "boot" \notin timers /\ told \subseteq fresh
<1>1. h.dev \in Device
    BY TypeParts, StartsDevice DEF Ready
<1>2. Pending(job, h.dev) /\ job[h.dev].received /\ ~job[h.dev].inProgress
    BY DEF Orderly, OneJob, StartsPending
<1>3. hold = {} /\ daRefs = 0 /\ SysIdle /\ \A e \in Device : ~job[e].inProgress
    BY <1>1, <1>2, HeldBefore, TypeParts DEF Orderly
<1>4. "boot" \notin timers /\ told \subseteq fresh
    BY <1>1, <1>2, RequestedFacts DEF Orderly, RestOrderly, Pending
<1> QED  BY <1>1, <1>2, <1>3, <1>4

(* The rest of the invariant when an update of d begins, or fails to *)
LEMMA StartOthers ==
    ASSUME FotaTypeOK, Orderly, h.place = "starting", slot.dev # h.dev,
           \A e \in Device : /\ job'[e].requested = job[e].requested
                             /\ job'[e].inProgress => job[e].inProgress \/ e = h.dev,
           timers' \subseteq timers \cup {"monitor"}, UNCHANGED <<round, type, slot>>,
           h'.place # "flashing", http' = http \/ http'.ended = "no",
           told' \subseteq fresh'
    PROVE  RestOrderly'
<1>1. "boot" \notin timers' /\ ("poll" \in timers' => "poll" \in timers)
    BY StartingFacts
<1>2. InRound' /\ BeforeBoot'
    BY <1>1 DEF Orderly, RestOrderly, InRound, BeforeBoot
<1>3. DoneIsFresh'
    BY StartingFacts, SlotDev, TypeParts DEF DoneIsFresh
<1>4. Image'
  <2>1. CASE http' = http
    BY <2>1 DEF Orderly, RestOrderly, Image
  <2>2. CASE http'.ended = "no"
    BY <2>2 DEF Image
  <2> QED  BY <2>1, <2>2
<1> QED  BY <1>2, <1>3, <1>4 DEF RestOrderly

LEMMA StartUpdateOrderly ==
    ASSUME FotaTypeOK, Orderly, StartUpdate, orderly'
    PROVE  Orderly'
<1> USE TypeParts
<1>1. /\ h.place = "starting" /\ ~Unfinished(h.dev)
      /\ UNCHANGED <<rounds, sys, slot, note>>
    BY DEF StartUpdate
<1>2. /\ h.dev \in Device /\ Pending(job, h.dev) /\ job[h.dev].received
      /\ ~job[h.dev].inProgress /\ h.place # "ending"
      /\ hold = {} /\ daRefs = 0 /\ SysIdle /\ \A e \in Device : ~job[e].inProgress
      /\ "boot" \notin timers /\ told \subseteq fresh
    BY <1>1, StartingFacts
<1>3. slot.dev # h.dev
    BY <1>1 DEF Unfinished
<1>4. ASSUME NEW d \in Device, h.dev = d
      PROVE  /\ Begun(job, d) \in AllJobs
             /\ \A e \in Device :
                  /\ Begun(job, d)[e].requested = job[e].requested
                  /\ Begun(job, d)[e].inProgress => job[e].inProgress \/ e = h.dev
    BY <1>4, BegunFacts DEF JobsOK, Same
<1>5. ASSUME NEW d \in Device, h.dev = d, job' = Begun(job, d), hold' = hold \cup {d},
             daRefs' = IF d = "nrf9160" THEN daRefs ELSE daRefs + 1, h' = Ready,
             timers' \subseteq timers \cup {"monitor"}, http' = http \/ http'.ended = "no",
             fresh' = fresh \ {d}, told' = told \ {d}
      PROVE  Orderly'
  <2>1. OneJob'
    BY <1>1, <1>2, <1>5, BegunKeeps DEF Orderly
  <2>2. told' \subseteq fresh' /\ h'.place # "flashing"
    BY <1>2, <1>5 DEF Ready
  <2>3. RestOrderly'
    BY <1>1, <1>3, <1>4, <1>5, <2>2, StartOthers DEF rounds
  <2> QED  BY <2>1, <2>3 DEF Orderly
<1>6. CASE h.dev = "nrf9160" /\ Start9160
  <2>1. ~job["nrf9160"].inProgress /\ ~job["nrf9160"].complete
    BY <1>2, <1>6 DEF Pending
  <2>2. job' = Begun(job, "nrf9160")
    BY <1>6, <2>1, Begun9160 DEF Start9160, JobsOK
  <2>3. /\ hold' = hold \cup {"nrf9160"} /\ h' = Ready /\ fresh' = fresh \ {"nrf9160"}
        /\ told' = told \ {"nrf9160"} /\ daRefs' = daRefs /\ timers' = timers /\ http' = http
    BY <1>6, <2>1 DEF Start9160
  <2> QED  BY <1>2, <1>5, <1>6, <2>2, <2>3
<1>7. CASE h.dev = "da16200" /\ StartDA
  <2>1. ota = 0 /\ Prepared("da16200") = daRefs + 1
    BY <1>1, <1>2, <1>7 DEF Unfinished, Prepared
  <2>2. /\ job' = Begun(job, "da16200") /\ hold' = hold \cup {"da16200"} /\ h' = Ready
        /\ fresh' = fresh \ {"da16200"} /\ told' = told \ {"da16200"} /\ daRefs' = daRefs + 1
        /\ timers' = timers /\ http' = http
    BY <1>7, <2>1 DEF StartDA
  <2> QED  BY <1>2, <1>5, <1>7, <2>2
<1>8. CASE h.dev = "nrf5340" /\ Start5340
  <2> DEFINE js == Begun(job, "nrf5340")
             held == hold \cup {"nrf5340"}
  <2>1. Prepared("nrf5340") = daRefs + 1 /\ http.ended = "no"
    BY <1>1, <1>2, <1>8 DEF Unfinished, Prepared
  <2>2. hold' = held /\ timers' = Monitored
    BY <1>8 DEF Start5340
  <2>3. timers' \subseteq timers \cup {"monitor"}
    BY <2>2 DEF Monitored
  <2>4. CASE /\ http' = [NoHttp EXCEPT !.open = TRUE, !.busy = TRUE, !.ended = http.ended]
             /\ job' = js /\ fresh' = fresh \ {"nrf5340"} /\ told' = told \ {"nrf5340"}
             /\ h' = Ready /\ daRefs' = Prepared("nrf5340")
    <3>1. http'.ended = "no"
      BY <2>1, <2>4 DEF NoHttp
    <3> QED  BY <1>2, <1>5, <1>8, <2>1, <2>2, <2>3, <2>4, <3>1
  <2>5. CASE /\ CommFails("nrf5340", js, held, Prepared("nrf5340"))
             /\ UNCHANGED <<http, fresh, told>>
    <3>1. js \in AllJobs /\ js["nrf5340"].inProgress /\ JobsGoOn(js) /\ Pending(js, "nrf5340")
      BY <1>2, <1>8, BegunFacts DEF JobsOK, JobsGoOn, Same, Device, Pending, Orderly, OneJob
    <3> HIDE DEF js
    <3>2. job' = Over(js, "nrf5340") /\ CommEnds("nrf5340", held, daRefs + 1)
      BY <2>1, <2>5, <3>1 DEF CommFails
    <3>3. /\ held \in SUBSET Device /\ "nrf5340" \in held /\ daRefs + 1 \in {0, 1}
          /\ \A e \in held : e = "nrf5340" /\ "nrf5340" \in Device
      BY <1>2, <1>8
    <3> HIDE DEF held
    <3>4. OneJob'
      BY <1>1, <1>2, <2>2, <3>1, <3>2, <3>3, CommOverKeeps DEF Orderly
    <3>5. \A e \in Device : /\ js[e].requested = job[e].requested
                            /\ js[e].inProgress => job[e].inProgress \/ e = h.dev
      BY <1>4, <1>8, <1>2 DEF js
    <3>6. \A e \in Device : /\ job'[e].requested = job[e].requested
                            /\ job'[e].inProgress => job[e].inProgress \/ e = h.dev
      BY <1>2, <1>8, <3>1, <3>2, <3>5, OverFacts DEF Same
    <3>7. h'.place # "flashing"
      BY <3>2 DEF CommEnds, Ready
    <3>8. RestOrderly'
      BY <1>1, <1>2, <1>3, <2>3, <2>5, <3>6, <3>7, StartOthers DEF rounds
    <3> QED  BY <3>4, <3>8 DEF Orderly
  <2> QED  BY <1>8, <2>4, <2>5 DEF Start5340
<1>9. CASE StartRefused
  <2>1. h' = Ready /\ UNCHANGED <<job, hold, daRefs, timers, http, fresh, told>>
    BY <1>9 DEF StartRefused, jobs
  <2>2. OneJob'
    BY <1>1, <1>2, <2>1
       DEF Orderly, OneJob, PendingSysIdle, StartsPending, ProgressIdle, HeldByOne, ProgressHeld,
           PrepareCounted, SysIdle, Ready
  <2>3. h'.place # "flashing" /\ told' \subseteq fresh'
    BY <1>2, <2>1 DEF Ready
  <2>4. RestOrderly'
    BY <1>1, <1>3, <2>1, <2>3, StartOthers DEF rounds
  <2> QED  BY <2>2, <2>4 DEF Orderly
<1> QED  BY <1>6, <1>7, <1>8, <1>9 DEF StartUpdate

LEMMA CommEndReturnsOrderly == ASSUME FotaTypeOK, Orderly, CommEndReturns PROVE Orderly'
<1> USE TypeParts
<1>1. /\ h.place = "ending" /\ hold' = hold \ {h.dev} /\ h' = Ready
      /\ UNCHANGED <<job, daRefs, round, type, timers, sys, slot, http, fresh, told>>
    BY DEF CommEndReturns, rounds, world, history
<1>2. \A d \in Device : ~job[d].inProgress
    BY <1>1, ProgressNotStarting DEF Orderly
<1>3. PendingSysIdle' /\ StartsPending'
    BY <1>1 DEF Orderly, OneJob, PendingSysIdle, StartsPending, SysIdle, Ready
<1>4. ProgressIdle' /\ ProgressHeld' /\ PrepareCounted'
    BY <1>1, <1>2 DEF Orderly, OneJob, ProgressIdle, ProgressHeld, PrepareCounted, Device
<1>5. HeldByOne'
    BY <1>1, <1>2 DEF Orderly, OneJob, HeldByOne, JobsOK
<1>6. OneJob'
    BY <1>1, <1>3, <1>4, <1>5 DEF Orderly, OneJob
<1>7. Image' /\ InRound' /\ DoneIsFresh'
    BY <1>1 DEF Orderly, RestOrderly, Image, InRound, DoneIsFresh, Ready
<1>8. BeforeBoot'
    BY <1>1 DEF Orderly, RestOrderly, BeforeBoot
<1> QED  BY <1>1, <1>6, <1>7, <1>8 DEF Orderly, RestOrderly

(* commMgr_work_q ends the update in progress. *)
LEMMA CommOverOrderly ==
    ASSUME FotaTypeOK, Orderly, NEW d \in Device, job[d].inProgress,
           job' = Over(job, d), CommEnds(d, hold, daRefs), hold' = hold, sys' = sys
    PROVE  /\ OneJob' /\ job' \in AllJobs /\ h'.place # "flashing" /\ "boot" \notin timers
           /\ \A e \in Device : /\ job'[e].requested => job[e].requested
                                /\ job'[e].inProgress => job[e].inProgress
<1> USE TypeParts
<1>1. Pending(job, d) /\ h.place # "ending" /\ SysIdle
    BY ProgressNotStarting DEF Orderly, OneJob, PendingSysIdle
<1>2. daRefs \in {0, 1} /\ (daRefs = 1 => d \in hold)
    BY <1>1, CountOfPending DEF Orderly
<1>3. \A e \in hold : e = d \/ InSeq(e, sys.ends)
    BY <1>1, ProgressPends, OnePending DEF Orderly, OneJob, HeldByOne, JobsOK
<1>4. OneJob'
    BY <1>1, <1>2, <1>3, CommOverKeeps DEF Orderly, OneJob, JobsOK
<1>5. h'.place # "flashing"
    BY DEF CommEnds, Ready
<1>6. "boot" \notin timers
    BY <1>1, RequestedFacts DEF Orderly, Pending
<1> QED  BY <1>4, <1>5, <1>6, OverBeginsNothing, OverFacts DEF JobsOK

LEMMA StatusWorkOrderly == ASSUME FotaTypeOK, Orderly, StatusWork PROVE Orderly'
<1> USE TypeParts
<1> DEFINE d == slot.dev
<1>1. /\ d \in Device /\ CommIdle /\ slot' = NoStatus
      /\ UNCHANGED <<hold, round, type, sys, http, fresh>>
    BY DEF StatusWork, WorksOK, SlotType, rounds, world
<1>2. told \subseteq fresh
    BY DEF Orderly, RestOrderly
<1>3. CASE UNCHANGED <<job, daRefs, h>> /\ timers' \subseteq timers \cup {"version"} /\ told' = told
  <2>1. OneJob'
    BY <1>1, <1>3, OneJobStays DEF Orderly
  <2>2. RestOrderly'
    BY <1>1, <1>2, <1>3, NothingBegins DEF Orderly, JobsOK
  <2> QED  BY <2>1, <2>2 DEF Orderly
<1>4. ASSUME job[d].inProgress, job' = Over(job, d), CommEnds(d, hold, daRefs), timers' = timers,
             told' \subseteq fresh
      PROVE  Orderly'
  <2> HIDE DEF d
  <2>1. /\ OneJob' /\ job' \in AllJobs /\ h'.place # "flashing" /\ "boot" \notin timers
        /\ \A e \in Device : /\ job'[e].requested => job[e].requested
                             /\ job'[e].inProgress => job[e].inProgress
    BY <1>1, <1>4, CommOverOrderly
  <2>2. RestOrderly'
    BY <1>1, <1>4, <2>1, NothingBegins DEF Orderly
  <2> QED  BY <2>1, <2>2 DEF Orderly
<1>5. CASE job[d].inProgress /\ StatusLoaded(d)
    BY <1>3, <1>5 DEF StatusLoaded
<1>6. CASE job[d].inProgress /\ StatusDone(d)
  <2>1. d \in fresh
    BY <1>6 DEF StatusDone, Orderly, RestOrderly, DoneIsFresh
  <2>2. CASE Setback /\ UNCHANGED <<job, daRefs, h, told>>
    BY <1>3, <1>6, <2>2 DEF StatusDone
  <2>3. CASE job' = Over(job, d) /\ told' = told \cup {d} /\ CommEnds(d, hold, daRefs)
    BY <1>2, <1>4, <1>6, <2>1, <2>3 DEF StatusDone
  <2> QED  BY <1>6, <2>2, <2>3 DEF StatusDone
<1>7. CASE job[d].inProgress /\ StatusFailed(d)
  <2>1. job' = Over(job, d) /\ CommEnds(d, hold, daRefs) /\ timers' = timers /\ told' = told
    BY <1>7 DEF StatusFailed, CommFails
  <2> QED  BY <1>2, <1>4, <1>7, <2>1
<1>8. CASE UNCHANGED <<job, daRefs, timers, h, told>>
    BY <1>3, <1>8
<1> QED  BY <1>5, <1>6, <1>7, <1>8 DEF StatusWork

LEMMA ReportsOrderly ==
    ASSUME FotaTypeOK, Orderly, OtaFails \/ OtaRenews \/ OtaEnds \/ LteReports \/ LteBoots
    PROVE  Orderly'
<1> USE TypeParts
<1>1. /\ UNCHANGED <<job, hold, daRefs, round, type, timers, sys, h, http, told>>
      /\ fresh \subseteq fresh'
    BY DEF OtaFails, OtaRenews, OtaEnds, LteReports, LteBoots, jobs, rounds, works, history
<1>2. OneJob'
    BY <1>1, OneJobStays DEF Orderly
<1>3. InRound' /\ BeforeBoot' /\ Image' /\ told' \subseteq fresh'
    BY <1>1 DEF Orderly, RestOrderly, InRound, BeforeBoot, Image
<1>4. slot'.state = "done" => slot' = slot \/ slot'.dev \in fresh'
    BY DEF OtaFails, OtaRenews, OtaEnds, LteReports, LteBoots, Report, works
<1>5. DoneIsFresh'
    BY <1>1, <1>4 DEF Orderly, RestOrderly, DoneIsFresh
<1> QED  BY <1>2, <1>3, <1>5 DEF Orderly, RestOrderly

LEMMA HttpOrderly == ASSUME FotaTypeOK, Orderly, HttpEnds \/ HttpBreaks PROVE Orderly'
<1> USE TypeParts
<1>1. /\ UNCHANGED <<job, hold, daRefs, round, type, timers, sys, h, slot, fresh, told>>
      /\ http.busy
    BY DEF HttpEnds, HttpBreaks, jobs, rounds, works, history
<1>2. OneJob'
    BY <1>1, OneJobStays DEF Orderly
<1>3. InRound' /\ BeforeBoot' /\ DoneIsFresh' /\ told' \subseteq fresh'
    BY <1>1 DEF Orderly, RestOrderly, InRound, BeforeBoot, DoneIsFresh
<1>4. http.ended = "no" /\ h.place # "flashing"
    BY <1>1 DEF Orderly, RestOrderly, Image, WorldOK, HttpType
<1>5. Image'
    BY <1>1, <1>4 DEF HttpEnds, HttpBreaks, Image, WorldOK, HttpType
<1> QED  BY <1>2, <1>3, <1>5 DEF Orderly, RestOrderly

(* The handler ends nothing: it was not in progress. *)
LEMMA EndsNothing ==
    ASSUME FotaTypeOK, Orderly, h.place \in {"idle", "flashing"},
           job' = job, CommEnds(NoDevice, hold, daRefs), hold' = hold, sys' = sys
    PROVE  OneJob' /\ h' = Ready
<1> USE TypeParts
<1>1. NoDevice \notin hold
    BY DEF NoDevice, Device, JobsOK
<1>2. Ending(<<NoDevice>>, hold) = <<>>
    BY <1>1 DEF Ending
<1>3. h' = Ready /\ daRefs' = daRefs
    BY <1>1, <1>2, RefsAfterFacts DEF CommEnds, JobsOK
<1>4. PendingSysIdle' /\ StartsPending' /\ ProgressIdle' /\ ProgressHeld' /\ PrepareCounted'
    BY <1>3 DEF Orderly, OneJob, PendingSysIdle, StartsPending, ProgressIdle, ProgressHeld,
       PrepareCounted,
                SysIdle, Ready
<1>5. HeldByOne'
    BY DEF Orderly, OneJob, HeldByOne
<1> QED  BY <1>3, <1>4, <1>5 DEF Orderly, OneJob

LEMMA HttpDoneOrderly == ASSUME FotaTypeOK, Orderly, HttpDone PROVE Orderly'
<1> USE TypeParts
<1>1. /\ CommIdle /\ http.ended \in {"ok", "bad"} /\ http' = [http EXCEPT !.ended = "no"]
      /\ timers' \subseteq timers /\ "nrf5340" \in Device
      /\ UNCHANGED <<hold, round, type, sys, slot, fresh, told>>
    BY DEF HttpDone, WorldOK, HttpType, NotMonitored, Device, rounds, history
<1>2. "boot" \notin timers /\ told \subseteq fresh
    BY <1>1 DEF Orderly, RestOrderly, BeforeBoot
<1>3. /\ http'.ended = "no" /\ ~http'.busy /\ ~http'.open
      /\ http.ended = "ok" => http'.whole
    BY <1>1 DEF Orderly, RestOrderly, Image, WorldOK, HttpType
<1>4. ASSUME \A e \in Device : /\ job'[e].requested => job[e].requested
                               /\ job'[e].inProgress => job[e].inProgress,
             h'.place = "flashing" => http.ended = "ok"
      PROVE  RestOrderly'
    BY <1>1, <1>2, <1>3, <1>4, SlotDev
       DEF Orderly, RestOrderly, InRound, BeforeBoot, DoneIsFresh, Image
<1>5. ASSUME UNCHANGED <<job, daRefs, h>> PROVE Orderly'
  <2>1. OneJob'
    BY <1>1, <1>5, OneJobStays DEF Orderly
  <2>2. RestOrderly'
    BY <1>1, <1>4, <1>5 DEF CommIdle
  <2> QED  BY <2>1, <2>2 DEF Orderly
<1>6. ASSUME ~job["nrf5340"].inProgress, CommFails("nrf5340", job, hold, daRefs) PROVE Orderly'
  <2>1. job' = job /\ CommEnds(NoDevice, hold, daRefs)
    BY <1>6 DEF CommFails
  <2>2. OneJob' /\ h' = Ready
    BY <1>1, <2>1, EndsNothing DEF CommIdle
  <2>3. RestOrderly'
    BY <1>4, <2>1, <2>2 DEF Ready
  <2> QED  BY <2>2, <2>3 DEF Orderly
<1>7. CASE http.ended = "bad"
  <2>1. CommFails("nrf5340", job, hold, daRefs)
    BY <1>7 DEF HttpDone
  <2>2. CASE job["nrf5340"].inProgress
    <3>1. job' = Over(job, "nrf5340") /\ CommEnds("nrf5340", hold, daRefs)
      BY <2>1, <2>2 DEF CommFails
    <3>2. /\ OneJob' /\ h'.place # "flashing"
          /\ \A e \in Device : /\ job'[e].requested => job[e].requested
                               /\ job'[e].inProgress => job[e].inProgress
      BY <1>1, <2>2, <3>1, CommOverOrderly
    <3>3. RestOrderly'
      BY <1>4, <3>2
    <3> QED  BY <3>2, <3>3 DEF Orderly
  <2> QED  BY <1>6, <2>1, <2>2
<1>8. CASE http.ended = "ok"
  <2>1. CASE job["nrf5340"].inProgress
    <3>1. UNCHANGED <<job, daRefs>> /\ h' = [place |-> "flashing", dev |-> "nrf5340"]
      BY <1>8, <2>1 DEF HttpDone
    <3>2. Pending(job, "nrf5340")
      BY <1>1, <2>1, ProgressPends DEF Orderly, OneJob
    <3>3. ProgressIdle'
      BY <1>1, <2>1, <3>1, ProgressPends, OnePending DEF Orderly, OneJob, ProgressIdle
    <3>4. HeldByOne'
      BY <1>1, <3>1 DEF Orderly, OneJob, HeldByOne, CommIdle
    <3>5. PendingSysIdle' /\ StartsPending' /\ ProgressHeld' /\ PrepareCounted'
      BY <1>1, <3>1
         DEF Orderly, OneJob, PendingSysIdle, StartsPending, ProgressHeld, PrepareCounted, SysIdle
    <3>6. OneJob'
      BY <3>1, <3>3, <3>4, <3>5 DEF Orderly, OneJob
    <3>7. RestOrderly'
      BY <1>4, <1>8, <3>1
    <3> QED  BY <3>6, <3>7 DEF Orderly
  <2>2. CASE UNCHANGED <<job, daRefs, h>>
    BY <1>5, <2>2
  <2> QED  BY <1>8, <2>1, <2>2 DEF HttpDone
<1> QED  BY <1>1, <1>7, <1>8

LEMMA FlashFailsOrderly == ASSUME FotaTypeOK, Orderly, FlashFails PROVE Orderly'
<1> USE TypeParts
<1>1. /\ h.place = "flashing" /\ "nrf5340" \in Device /\ CommFails("nrf5340", job, hold, daRefs)
      /\ UNCHANGED <<hold, round, type, timers, sys, slot, http, fresh, told>>
    BY DEF FlashFails, Device, rounds, world
<1>2. "boot" \notin timers /\ told \subseteq fresh
    BY <1>1 DEF Orderly, RestOrderly, BeforeBoot, Ready
<1>3. CASE job["nrf5340"].inProgress
  <2>1. job' = Over(job, "nrf5340") /\ CommEnds("nrf5340", hold, daRefs)
    BY <1>1, <1>3 DEF CommFails
  <2>2. /\ OneJob' /\ job' \in AllJobs /\ h'.place # "flashing"
        /\ \A e \in Device : /\ job'[e].requested => job[e].requested
                             /\ job'[e].inProgress => job[e].inProgress
    BY <1>1, <1>3, <2>1, CommOverOrderly
  <2>3. RestOrderly'
    BY <1>1, <1>2, <2>2, NothingBegins DEF Orderly
  <2> QED  BY <2>2, <2>3 DEF Orderly
<1>4. CASE ~job["nrf5340"].inProgress
  <2>1. job' = job /\ CommEnds(NoDevice, hold, daRefs)
    BY <1>1, <1>4 DEF CommFails
  <2>2. OneJob' /\ h' = Ready
    BY <1>1, <2>1, EndsNothing
  <2>3. RestOrderly'
    BY <1>1, <1>2, <2>1, <2>2, NothingBegins DEF Orderly, JobsOK, Ready
  <2> QED  BY <2>2, <2>3 DEF Orderly
<1> QED  BY <1>3, <1>4

(* After a reset nothing is on its way. *)
LEMMA RebootOrderly == ASSUME Reboot, told' \subseteq fresh' PROVE Orderly'
<1>1. /\ job' = AllCleared /\ hold' = {} /\ daRefs' = 0 /\ round' = FALSE /\ type' = NoDevice
      /\ timers' = {"boot"} /\ h' = Ready /\ slot' = NoStatus /\ http' = NoHttp
    BY DEF Reboot, AllCleared
<1>2. JobsGoOn(job') /\ \A d \in Device : ~Pending(job', d)
    BY <1>1, ClearedFacts DEF JobsGoOn, Pending, Device
<1>3. OneJob'
    BY <1>1, <1>2, NonePending DEF HeldByOne, Ready
<1>4. InRound' /\ BeforeBoot'
    BY <1>1, ClearedFacts DEF InRound, BeforeBoot, NoHttp
<1>5. DoneIsFresh' /\ Image'
    BY <1>1 DEF DoneIsFresh, Image, NoStatus, NoHttp, Ready
<1> QED  BY <1>3, <1>4, <1>5 DEF Orderly, RestOrderly

LEMMA ResetsOrderly == ASSUME Orderly, Flashed \/ Reset PROVE Orderly'
<1>1. Reboot /\ told' \subseteq fresh'
    BY DEF Flashed, Reset, history, Orderly, RestOrderly
<1> QED  BY <1>1, RebootOrderly

-----------------------------------------------------------------------------
(* The invariant *)

LEMMA InitOrderly == FotaInit => FotaInv
<1> SUFFICES ASSUME FotaInit PROVE FotaTypeOK /\ Orderly
    BY DEF FotaInv
<1>1. /\ job = AllCleared /\ hold = {} /\ daRefs = 0 /\ round = FALSE /\ type = NoDevice
      /\ timers = {"boot"} /\ h = Ready /\ slot = NoStatus /\ http = NoHttp /\ told = {}
    BY DEF FotaInit, AllCleared
<1>2. JobsGoOn(job) /\ \A d \in Device : ~Pending(job, d) /\ ~job[d].inProgress
    BY <1>1, ClearedFacts DEF JobsGoOn, Pending, Device
<1>3. OneJob
    BY <1>1, <1>2 DEF OneJob, PendingSysIdle, StartsPending, ProgressIdle, HeldByOne, ProgressHeld,
                      PrepareCounted, Ready, Device
<1>4. InRound /\ BeforeBoot
    BY <1>1, ClearedFacts DEF InRound, BeforeBoot, NoHttp
<1>5. DoneIsFresh /\ Image
    BY <1>1 DEF DoneIsFresh, Image, NoStatus, NoHttp, Ready
<1> QED  BY <1>1, <1>3, <1>4, <1>5, InitTypes DEF Orderly, RestOrderly

(* What came late stays noted. *)
LEMMA OrderlyBefore == ASSUME HistoryOK, FotaNext, orderly' PROVE orderly
<1>1. CASE \/ Poll \/ VersionCheck \/ BootCheck \/ HttpBreaks \/ FlashFails \/ Reset
           \/ StartRound \/ \E d \in Device : AnswerFails(d)
    BY <1>1 DEF Poll, VersionCheck, BootCheck, HttpBreaks, FlashFails, Reset, StartRound,
       AnswerFails
<1>2. CASE \/ (\E d \in Device : Answer(d)) \/ StartUpdate \/ StatusWork
    BY <1>2 DEF Answer, StartUpdate, StatusWork, HistoryOK
<1>3. CASE \/ SysEndReturns \/ FinishRound \/ Monitor \/ CommEndReturns \/ OtaFails \/ OtaRenews
           \/ OtaEnds \/ LteReports \/ LteBoots \/ HttpEnds \/ HttpDone \/ Flashed
    BY <1>3 DEF SysEndReturns, FinishRound, Monitor, CommEndReturns, OtaFails, OtaRenews, OtaEnds,
                LteReports, LteBoots, HttpEnds, HttpDone, Flashed, history
<1> QED  BY <1>1, <1>2, <1>3 DEF FotaNext

LEMMA NextOrderly == FotaInv /\ [FotaNext]_fotaVars => FotaInv'
<1> SUFFICES ASSUME FotaInv, [FotaNext]_fotaVars, orderly' PROVE FotaTypeOK' /\ Orderly'
    BY NextTypes DEF FotaInv
<1> USE TypeParts DEF FotaInv
<1>1. FotaTypeOK'
    BY NextTypes
<1>2. CASE UNCHANGED fotaVars
  <2>1. OneJob'
    BY <1>2, OneJobStays DEF fotaVars, jobs, works, history, Orderly
  <2>2. RestOrderly'
    BY <1>2, NothingBegins DEF fotaVars, jobs, rounds, works, world, history, JobsOK, Orderly,
       RestOrderly
  <2> QED  BY <1>1, <2>1, <2>2 DEF Orderly
<1>3. CASE FotaNext
  <2>1. Orderly
    BY <1>3, OrderlyBefore
  <2>2. Orderly'
    BY <1>3, <2>1, PollOrderly, SysEndReturnsOrderly, FinishRoundOrderly, VersionCheckOrderly,
       MonitorOrderly, BootCheckOrderly, StartRoundOrderly, AnswerOrderly, AnswerFailsOrderly,
       StartUpdateOrderly, CommEndReturnsOrderly, StatusWorkOrderly, ReportsOrderly, HttpOrderly,
       HttpDoneOrderly, FlashFailsOrderly, ResetsOrderly DEF FotaNext
  <2> QED  BY <1>1, <2>2
<1> QED  BY <1>2, <1>3

LEMMA UpdatesInvariance == FotaSpec => []FotaInv
    BY InitOrderly, NextOrderly, PTL DEF FotaSpec

(* Types: the count of prepares never goes below 0, whichever ends overtake     *)
(* each other, and commMgr_work_q is blocked for a processor, never for "none". *)
THEOREM UpdateTypes == FotaSpec => []FotaTypeOK
    BY UpdatesInvariance, PTL DEF FotaInv

LEMMA CountedOnce ==
    ASSUME FotaTypeOK, Orderly, NEW updates, updates = {d \in Device : job[d].inProgress}
    PROVE  /\ Cardinality(updates) <= 1
           /\ updates \subseteq hold
           /\ daRefs = Cardinality(updates \ {"nrf9160"})
<1>1. updates \subseteq hold
    BY DEF Orderly, OneJob, ProgressHeld
<1>2. Cardinality({}) = 0
    BY FS_EmptySet
<1>3. CASE updates = {}
  <2>1. daRefs = 0 /\ updates \ {"nrf9160"} = {}
    BY <1>3 DEF Orderly, OneJob, PrepareCounted, Device
  <2>2. Cardinality(updates) = 0 /\ Cardinality(updates \ {"nrf9160"}) = 0
    BY <1>2, <1>3, <2>1
  <2> QED  BY <1>1, <2>1, <2>2
<1>4. CASE updates # {}
  <2>1. PICK d \in Device : job[d].inProgress
    BY <1>4
  <2>2. updates = {d} /\ Cardinality({d}) = 1
    BY <2>1, ProgressPends, OnePending, FS_Singleton DEF Orderly, OneJob
  <2>3. daRefs = IF d = "nrf9160" THEN 0 ELSE 1
    BY <2>1, <2>2 DEF Orderly, OneJob, PrepareCounted, Device
  <2>4. updates \ {"nrf9160"} = IF d = "nrf9160" THEN {} ELSE {d}
    BY <2>2
  <2>5. Cardinality(updates) = 1 /\ Cardinality(updates \ {"nrf9160"}) = daRefs
    BY <1>2, <2>2, <2>3, <2>4
  <2> QED  BY <1>1, <2>5
<1> QED  BY <1>3, <1>4

LEMMA OneJobIsOne == FotaInv => OneAtATime
    BY CountedOnce DEF FotaInv, OneAtATime

(* As long as no answer of the cloud is late, the three threads of fota.c never *)
(* have two updates in progress; the one there is has its flag, and is counted  *)
(* at the DA16200 once and only while it lasts.                                 *)
THEOREM OneUpdateAtATime == FotaSpec => []OneAtATime
    BY UpdatesInvariance, OneJobIsOne, PTL

(* The cloud is told that an update is done only of a processor that runs the   *)
(* new version, whatever failed, was reset or waited in its slot before.        *)
THEOREM DoneIsInstalled == FotaSpec => []DoneMeansInstalled
<1>1. FotaInv => DoneMeansInstalled
    BY DEF FotaInv, DoneMeansInstalled, Orderly, RestOrderly
<1> QED  BY <1>1, UpdatesInvariance, PTL

(* fota_handle_da_event() flashes a file that was downloaded to its end, and    *)
(* no later download, end or failure touches it while it is flashed.            *)
THEOREM WholeFilesFlashed == FotaSpec => []FlashedIsWhole
<1>1. FotaInv => FlashedIsWhole
    BY DEF FotaInv, FlashedIsWhole, Orderly, RestOrderly, Image
<1> QED  BY <1>1, UpdatesInvariance, PTL
=============================================================================
