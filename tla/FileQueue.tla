----------------------------- MODULE FileQueue -----------------------------
(***************************************************************************)
(* A queue kept as one file per entry (src/c_modules/fqueue/src/fqueue.c), *)
(* as the collar uses it: the ML thread puts the activities it inferred    *)
(* (src/commercial_collar/src/ml/src/ml.cpp) and the communication         *)
(* manager's thread moves them into telemetry messages                     *)
(* (ml_get_json_list in src/c_modules/json/src/d1_json.c).                 *)
(*                                                                         *)
(* A step is what a thread does between two calls of the file system, each *)
(* of which may block: the threads interleave there.  A file that was      *)
(* opened for writing exists, and is empty until it is closed.  All reads  *)
(* are K_NO_WAIT, as those of the collar are.                              *)
(*                                                                         *)
(* The ML thread is started and stopped between two reads: ml_stop() and   *)
(* ml_start() run on the reader's own thread, but for the first start,     *)
(* when the time becomes known.                                            *)
(***************************************************************************)
EXTENDS Naturals, FiniteSets

CONSTANTS
    Records,    \* the inferences
    Nothing,    \* no record
    MaxIndex,   \* bound: largest number of a file
    Room,       \* records that fit in a message
    MaxFaults   \* bound: errors of the file system, and resets

ASSUME FileQueueAssumption ==
    /\ Nothing \notin Records
    /\ MaxIndex \in Nat
    /\ Room \in Nat \ {0}
    /\ MaxFaults \in Nat

VARIABLES
    files,  \* the directory: what each file holds, Nothing if it is empty
    w,      \* the writer: where it is, cur_idx, the file it has open, what it puts
    r,      \* the reader: where it is, cur_idx, its locals
    sem,    \* fqueue_lock, a semaphore that counts to 1
    faults  \* errors and resets so far

vars == <<files, w, r, sem, faults>>

Indexes == 0..MaxIndex

Entries == {i \in DOMAIN files : files[i] # Nothing}

(* Where the reader is: not in ml_get_json_list(), about to open the file,
   to ask for its size, to read it. *)
ReaderPlaces == {"idle", "open", "stat", "read"}

Off == [place |-> "off", idx |-> 0, file |-> 0, rec |-> Nothing]

NoSession == [place |-> "idle", op |-> "peek", idx |-> 0, room |-> 0,
              opened |-> FALSE, seen |-> Nothing, got |-> Nothing]

Init ==
    /\ files = [i \in {} |-> Nothing]
    /\ w = Off
    /\ r = NoSession
    /\ sem = FALSE
    /\ faults = 0

Fault == faults < MaxFaults /\ faults' = faults + 1

-----------------------------------------------------------------------------
(* Faulty variant for a mutation run: no entry is not a case of its own. *)
FirstOrIntMax ==
    IF Entries = {} THEN MaxIndex + 1
    ELSE CHOOSE i \in Entries : \A j \in Entries : i <= j

(* fq_find_first_and_last() skips the files that are empty *)
First == IF Entries = {} THEN 0 ELSE CHOOSE i \in Entries : \A j \in Entries : i <= j
Last == CHOOSE i \in Entries : \A j \in Entries : j <= i

(* Faulty variant for a mutation run: the writer starts at the last entry. *)
AtLast == IF Entries = {} THEN 0 ELSE Last

AfterLast == IF Entries = {} THEN 0 ELSE Last + 1

(* ml_start(): fqueue_init() for writing *)
Start ==
    /\ w.place = "off" /\ r.place = "idle"
    /\ AfterLast \in Indexes
    /\ w' = [Off EXCEPT !.place = "ready", !.idx = AfterLast]
    /\ UNCHANGED <<files, r, sem, faults>>

(* ml_stop() waits for the thread, which ends the put it is in *)
Stop ==
    /\ w.place = "ready" /\ r.place = "idle"
    /\ w' = Off
    /\ UNCHANGED <<files, r, sem, faults>>

(* fqueue_put(), up to fs_open(): cur_idx moves on whether it succeeds or not *)
CreateFile(rec) ==
    /\ w.place = "ready" /\ w.idx < MaxIndex
    /\ \/ /\ w' = [w EXCEPT !.place = "opened", !.file = w.idx, !.idx = @ + 1, !.rec = rec]
          /\ files' = [i \in DOMAIN files \cup {w.idx} |->
                          IF i \in DOMAIN files THEN files[i] ELSE Nothing]
          /\ UNCHANGED faults
       \/ /\ w' = [w EXCEPT !.idx = @ + 1]
          /\ Fault
          /\ UNCHANGED files
    /\ UNCHANGED <<r, sem>>

(* fs_write(), fs_close() and the semaphore, which is given in any case *)
CloseFile ==
    /\ w.place = "opened"
    /\ w' = [w EXCEPT !.place = "ready", !.rec = Nothing]
    /\ \/ files' = [files EXCEPT ![w.file] = w.rec] /\ UNCHANGED faults
       \/ Fault /\ UNCHANGED files
    /\ sem' = TRUE
    /\ UNCHANGED r

Writer == CloseFile \/ \E rec \in Records : CreateFile(rec)

-----------------------------------------------------------------------------
(* ml_get_json_list(): fqueue_init() for reading, and a first peek *)
Begin == [NoSession EXCEPT !.place = "open", !.idx = First, !.room = Room]

BeginReading ==
    /\ r.place = "idle"
    /\ r' = Begin
    /\ UNCHANGED <<files, w, sem, faults>>

(* A peek that fails ends the list; the result of a get is ignored, and the
   next record is peeked at. *)
ReadFails ==
    r' = IF r.op = "peek" THEN NoSession
         ELSE [r EXCEPT !.place = "open", !.op = "peek", !.got = Nothing]

(* Faulty variant for a mutation run: a peek moves on as well. *)
PeekMovesOn(rec) ==
    r' = IF r.room = 0 THEN Begin
         ELSE [r EXCEPT !.place = "open", !.op = "get", !.room = @ - 1, !.got = rec, !.idx = @ + 1]

(* A peek that succeeds: the record is got if it fits, otherwise it waits for
   the next message, which commMgr_queue_telemetry() begins at once. *)
PeekSucceeds(rec) ==
    r' = IF r.room = 0 THEN Begin
         ELSE [r EXCEPT !.place = "open", !.op = "get", !.room = @ - 1, !.got = rec]

(* fqueue_read(): fs_open(); without a file k_poll(), which ends at once, with
   the semaphore if it is there -- and the file is not opened again. *)
OpenFile ==
    /\ r.place = "open"
    /\ \/ /\ r.idx \in DOMAIN files
          /\ r' = [r EXCEPT !.place = "stat", !.opened = TRUE, !.seen = files[r.idx]]
          /\ UNCHANGED sem
       \/ /\ r.idx \notin DOMAIN files /\ sem
          /\ sem' = FALSE
          /\ r' = [r EXCEPT !.place = "stat", !.opened = FALSE, !.seen = Nothing]
       \/ /\ r.idx \notin DOMAIN files /\ ~sem
          /\ ReadFails
          /\ UNCHANGED sem
    /\ UNCHANGED <<files, w, faults>>

(* Faulty variant for a mutation run: the reader waits for an empty file. *)
StatFileWaits ==
    /\ r.place = "stat"
    /\ \/ /\ r.idx \notin Entries /\ sem
          /\ sem' = FALSE
          /\ UNCHANGED r
       \/ /\ r.idx \in DOMAIN files => r.idx \in Entries
          /\ r' = [r EXCEPT !.place = "read"]
          /\ UNCHANGED sem
    /\ UNCHANGED <<files, w, faults>>

(* fs_stat(): for an empty file the semaphore is taken, and the size asked for
   again; without the semaphore, or with a size, the file is read.  When there
   is no file the size is what was on the stack. *)
StatFile ==
    /\ r.place = "stat"
    /\ \/ /\ r.idx \notin Entries /\ sem
          /\ sem' = FALSE
          /\ UNCHANGED r
       \/ /\ r.idx \in DOMAIN files => r.idx \in Entries \/ ~sem
          /\ r' = [r EXCEPT !.place = "read"]
          /\ UNCHANGED sem
    /\ UNCHANGED <<files, w, faults>>

(* fs_read(): what the file held when it was opened, or holds now.  No byte is
   read from an empty one, which is not an error. *)
Readable == {r.seen} \cup {files[i] : i \in {r.idx} \cap DOMAIN files}

RemoveEntry ==
    /\ files' = [i \in DOMAIN files \ {r.idx} |-> files[i]]
    /\ r' = [r EXCEPT !.place = "open", !.op = "peek", !.idx = @ + 1, !.got = Nothing]

ReadFile ==
    /\ r.place = "read"
    /\ \/ ~r.opened /\ ReadFails /\ UNCHANGED files \* -EBADF
       \/ /\ r.opened
          /\ \E rec \in Readable :
                CASE r.op = "peek" -> PeekSucceeds(rec) /\ UNCHANGED files
                  [] r.op = "get" /\ rec # Nothing -> RemoveEntry
                  [] OTHER -> ReadFails /\ UNCHANGED files
    /\ UNCHANGED <<w, sem, faults>>

Reader == OpenFile \/ StatFile \/ ReadFile

-----------------------------------------------------------------------------
(* The collar is reset: only the files are left *)
Reset ==
    /\ Fault
    /\ w' = Off
    /\ r' = NoSession
    /\ sem' = FALSE
    /\ UNCHANGED files

Next == Start \/ Stop \/ Writer \/ BeginReading \/ Reader \/ Reset

Spec == Init /\ [][Next]_vars

(* The threads run when they can, and telemetry is sent periodically. *)
FairSpec == Spec /\ WF_vars(Reader) /\ WF_vars(BeginReading) /\ WF_vars(CloseFile)

-----------------------------------------------------------------------------
TypeOK ==
    /\ DOMAIN files \subseteq Indexes
    /\ \A i \in DOMAIN files : files[i] \in Records \cup {Nothing}
    /\ w \in [place : {"off", "ready", "opened"}, idx : Indexes, file : Indexes,
              rec : Records \cup {Nothing}]
    /\ r \in [place : ReaderPlaces, op : {"peek", "get"}, idx : Indexes, room : 0..Room,
              opened : BOOLEAN, seen : Records \cup {Nothing}, got : Records \cup {Nothing}]
    /\ sem \in BOOLEAN
    /\ faults \in 0..MaxFaults

(* The directory is a first-in-first-out store of records, in which the empty
   files of puts that are under way or failed do not count: fqueue_put never
   overwrites an entry, fqueue_get removes the oldest, and a reset at any
   moment loses none. *)
Store == INSTANCE FifoStore WITH slots <- [i \in Entries |-> files[i]]
KeepsRecords == Store!Spec

(* The entry that ml_get_json_list removes is the one it decoded and put into
   the message, if its peek found one. *)
RemovesWhatItRead == r.op = "get" /\ r.got # Nothing => r.idx \in DOMAIN files /\ files[r.idx] = r.got

(* Every record gets into a message: no empty file that a reset or an error
   left behind keeps fqueue_init() from the records behind it for ever. *)
EveryRecordIsRead == \A i \in Indexes : i \in Entries ~> i \notin Entries
=============================================================================
