-------------------------- MODULE FileQueue_proofs --------------------------
(***************************************************************************)
(* Proofs about FileQueue, for every number of files and records, every    *)
(* size of a message and every number of errors and resets: type           *)
(* correctness, the entry that is removed is the one that was read, and    *)
(* the directory implements FifoStore.                                     *)
(*                                                                         *)
(* The argument: the writer's next file is behind every entry              *)
(* (WriterBehind), the reader's is not behind any (ReaderInFront), so      *)
(* neither meets the other's file unless it is still empty; and what the   *)
(* reader found when it opened a file stays there until it removes it      *)
(* (FileStays, RemovesWhatItRead).                                         *)
(***************************************************************************)
EXTENDS FileQueue, WellFoundedInduction, TLAPS

(* Every file was created below MaxIndex. *)
FilesBelowMax == \A i \in DOMAIN files : i < MaxIndex

(* The writer's file, and its next one, are behind every entry. *)
WriterBehind ==
    /\ w.place = "ready" => \A i \in Entries : i < w.idx
    /\ w.place = "opened" => /\ \A i \in Entries : i < w.file
                             /\ w.file \in DOMAIN files
                             /\ w.file < w.idx
                             /\ w.rec \in Records

(* In a session of the reader no entry is in front of its file, and neither
   is the writer. *)
ReaderInFront ==
    r.place # "idle" =>
        /\ \A i \in Entries : r.idx <= i
        /\ w.place = "ready" => r.idx <= w.idx
        /\ w.place = "opened" => r.idx <= w.file

(* TypeOK by the part of the state it is about *)
FilesOK ==
    /\ DOMAIN files \subseteq Indexes
    /\ \A i \in DOMAIN files : files[i] \in Records \cup {Nothing}

WriterOK ==
    w \in [place : {"off", "ready", "opened"}, idx : Indexes, file : Indexes,
           rec : Records \cup {Nothing}]

ReaderOK ==
    r \in [place : ReaderPlaces, op : {"peek", "get"}, idx : Indexes, room : 0..Room,
           opened : BOOLEAN, seen : Records \cup {Nothing}, got : Records \cup {Nothing}]

SemOK == sem \in BOOLEAN

FaultsOK == faults \in 0..MaxFaults

LEMMA TypeParts ==
    /\ TypeOK <=> (FilesOK /\ WriterOK /\ ReaderOK /\ SemOK /\ FaultsOK)
    /\ TypeOK' <=> (FilesOK' /\ WriterOK' /\ ReaderOK' /\ SemOK' /\ FaultsOK')
    BY DEF TypeOK, FilesOK, WriterOK, ReaderOK, SemOK, FaultsOK

LEMMA FaultType == FaultsOK /\ (Fault \/ UNCHANGED faults) => FaultsOK'
    BY FileQueueAssumption DEF FaultsOK, Fault

(* What the reader found in the file that it opened is still there. *)
FileStays ==
    r.place \in {"stat", "read"} /\ r.opened =>
        /\ r.idx \in DOMAIN files
        /\ r.seen # Nothing => files[r.idx] = r.seen

IInv == TypeOK /\ FilesBelowMax /\ WriterBehind /\ ReaderInFront /\ FileStays /\ RemovesWhatItRead

-----------------------------------------------------------------------------
(* The entries have a first and, as they are below MaxIndex, a last one. *)

LEMMA SmallestExists ==
    ASSUME NEW T, T \subseteq Nat, T # {}
    PROVE  \E i \in T : \A j \in T : i <= j
<1>1. PICK i \in T : \A j \in T : ~(<<j, i>> \in OpToRel(<, Nat))
    BY WFMin, NatLessThanWellFounded, Zenon
<1>2. \A j \in T : ~(j < i)
    BY <1>1 DEF OpToRel
<1>3. \A j \in T : i <= j
    BY <1>2
<1> QED  BY <1>3

LEMMA LargestExists ==
    ASSUME NEW T, NEW b \in Nat, T \subseteq 0..b, T # {}
    PROVE  \E i \in T : \A j \in T : j <= i
<1> DEFINE U == {n \in 0..b : b - n \in T}
<1>1. U \subseteq Nat /\ U # {}
  <2>1. PICK k \in T : TRUE
      OBVIOUS
  <2>2. k \in 0..b /\ b - k \in 0..b /\ b - (b - k) = k
      BY <2>1
  <2>3. b - k \in U
      BY <2>1, <2>2
  <2>4. U \subseteq Nat
      OBVIOUS
  <2> HIDE DEF U
  <2> QED  BY <2>3, <2>4
<1>2. PICK n \in U : \A k \in U : n <= k
    BY <1>1, SmallestExists
<1>3. ASSUME NEW j \in T
      PROVE  j <= b - n
  <2>1. j \in 0..b /\ b - j \in 0..b /\ b - (b - j) = j
      OBVIOUS
  <2>2. b - j \in U
      BY <2>1
  <2>3. n \in 0..b /\ n <= b - j
      BY <1>2, <2>2
  <2> QED  BY <2>1, <2>3
<1> QED  BY <1>2, <1>3

LEMMA EntriesAreIndexes ==
    ASSUME TypeOK, FilesBelowMax
    PROVE  /\ Entries \subseteq 0..MaxIndex
           /\ \A i \in Entries : i < MaxIndex
           /\ \A i \in Entries : files[i] \in Records
    BY DEF TypeOK, FilesBelowMax, Entries, Indexes

LEMMA FirstIsFirst ==
    ASSUME TypeOK, FilesBelowMax
    PROVE  /\ First \in Indexes
           /\ \A i \in Entries : First <= i
           /\ First = 0 \/ First \in Entries
<1>1. Entries \subseteq 0..MaxIndex
    BY EntriesAreIndexes
<1>2. CASE Entries = {}
    BY <1>2, FileQueueAssumption DEF First, Indexes
<1>3. CASE Entries # {}
  <2>1. \E i \in Entries : \A j \in Entries : i <= j
    <3>1. Entries \subseteq Nat
        BY <1>1, FileQueueAssumption
    <3> QED  BY <1>3, <3>1, SmallestExists
  <2>2. First \in Entries /\ \A j \in Entries : First <= j
      BY <1>3, <2>1 DEF First
  <2> QED  BY <1>1, <2>2 DEF Indexes
<1> QED  BY <1>2, <1>3

LEMMA AfterLastIsBehind ==
    ASSUME TypeOK, FilesBelowMax
    PROVE  \A i \in Entries : i < AfterLast
<1>1. Entries \subseteq 0..MaxIndex
    BY EntriesAreIndexes
<1>2. SUFFICES ASSUME Entries # {}
               PROVE  \A i \in Entries : i < AfterLast
    OBVIOUS
<1>3. \E i \in Entries : \A j \in Entries : j <= i
    BY <1>1, <1>2, LargestExists, FileQueueAssumption
<1>4. Last \in Entries /\ \A j \in Entries : j <= Last
    BY <1>3 DEF Last
<1> QED  BY <1>1, <1>2, <1>4 DEF AfterLast

-----------------------------------------------------------------------------
(* The invariant holds at first, and each action preserves it. *)

LEMMA InitInv == Init => IInv
<1> SUFFICES ASSUME Init PROVE IInv
    OBVIOUS
<1>1. Entries = {}
    BY DEF Init, Entries
<1>2. TypeOK
  <2>1. FilesOK
      BY DEF Init, FilesOK
  <2>2. WriterOK
      BY FileQueueAssumption DEF Init, WriterOK, Off, Indexes
  <2>3. ReaderOK
      BY FileQueueAssumption DEF Init, ReaderOK, NoSession, Indexes, ReaderPlaces
  <2>4. SemOK
      BY DEF Init, SemOK
  <2>5. FaultsOK
      BY FileQueueAssumption DEF Init, FaultsOK
  <2> QED  BY <2>1, <2>2, <2>3, <2>4, <2>5, TypeParts
<1>3. FilesBelowMax
    BY DEF Init, FilesBelowMax
<1> QED  BY <1>1, <1>2, <1>3
    DEF Init, IInv, Off, NoSession, WriterBehind, ReaderInFront, FileStays, RemovesWhatItRead

LEMMA StartInv == IInv /\ Start => IInv'
<1> SUFFICES ASSUME IInv, Start PROVE IInv'
    OBVIOUS
<1>1. Entries' = Entries
    BY DEF Start, Entries
<1>2. TypeOK'
  <2>1. WriterOK'
    <3>1. AfterLast \in Indexes /\ 0 \in Indexes
        BY FileQueueAssumption DEF Start, Indexes
    <3>2. w' = [place |-> "ready", idx |-> AfterLast, file |-> 0, rec |-> Nothing]
        BY DEF Start, Off
    <3> QED  BY <3>1, <3>2 DEF WriterOK
  <2> QED  BY <2>1, TypeParts DEF IInv, Start, FilesOK, ReaderOK, SemOK, FaultsOK
<1>3. WriterBehind'
    BY <1>1, AfterLastIsBehind DEF IInv, Start, Off, WriterBehind
<1> QED  BY <1>1, <1>2, <1>3
    DEF IInv, Start, FilesBelowMax, ReaderInFront, FileStays, RemovesWhatItRead

LEMMA StopInv == IInv /\ Stop => IInv'
<1> SUFFICES ASSUME IInv, Stop PROVE IInv'
    OBVIOUS
<1>1. Entries' = Entries
    BY DEF Stop, Entries
<1>2. TypeOK'
  <2>1. WriterOK'
      BY FileQueueAssumption DEF Stop, WriterOK, Off, Indexes
  <2> QED  BY <2>1, TypeParts DEF IInv, Stop, FilesOK, ReaderOK, SemOK, FaultsOK
<1> QED  BY <1>1, <1>2
    DEF IInv, Stop, Off, FilesBelowMax, WriterBehind, ReaderInFront, FileStays, RemovesWhatItRead

LEMMA CreateFileInv ==
    ASSUME IInv, NEW rec \in Records, CreateFile(rec)
    PROVE  IInv'
<1>1. w.place = "ready" /\ w.idx \in Indexes /\ w.idx < MaxIndex /\ w.idx + 1 \in Indexes /\ w.idx \in Nat
    BY FileQueueAssumption DEF IInv, CreateFile, TypeOK, Indexes
<1>2. w.idx \notin Entries
    BY <1>1 DEF IInv, WriterBehind
<1>3. CASE UNCHANGED files
  <2>1. Entries' = Entries
      BY <1>3 DEF Entries
  <2>2. CASE w' = [w EXCEPT !.idx = @ + 1] /\ Fault
    <3>1. TypeOK'
      <4>1. WriterOK'
          BY <1>1, <2>2, TypeParts DEF IInv, WriterOK
      <4> QED  BY <1>3, <2>2, <4>1, TypeParts, FaultType DEF IInv, CreateFile, FilesOK, ReaderOK, SemOK
    <3>2. w'.place = "ready" /\ w'.idx = w.idx + 1
        BY <1>1, <2>2 DEF IInv, TypeOK
    <3>3. \A i \in Entries : i \in Nat
        BY EntriesAreIndexes DEF IInv
    <3>4. r.idx \in Nat
        BY DEF IInv, TypeOK, Indexes
    <3> QED  BY <1>1, <1>3, <2>1, <3>1, <3>2, <3>3, <3>4
        DEF IInv, CreateFile, FilesBelowMax, WriterBehind, ReaderInFront, FileStays, RemovesWhatItRead
  <2>3. CASE /\ w' = [w EXCEPT !.place = "opened", !.file = w.idx, !.idx = @ + 1, !.rec = rec]
             /\ files' = [i \in DOMAIN files \cup {w.idx} |->
                              IF i \in DOMAIN files THEN files[i] ELSE Nothing]
             /\ UNCHANGED faults
    <3>1. w.idx \in DOMAIN files
        BY <1>3, <2>3
    <3>2. TypeOK'
      <4>1. WriterOK'
          BY <1>1, <2>3, TypeParts DEF IInv, WriterOK
      <4> QED  BY <1>3, <2>3, <4>1, TypeParts, FaultType DEF IInv, CreateFile, FilesOK, ReaderOK, SemOK
    <3>3. w'.place = "opened" /\ w'.file = w.idx /\ w'.idx = w.idx + 1 /\ w'.rec = rec
        BY <1>1, <2>3 DEF IInv, TypeOK
    <3> QED  BY <1>1, <1>3, <2>1, <3>1, <3>2, <3>3
        DEF IInv, CreateFile, FilesBelowMax, WriterBehind, ReaderInFront, FileStays, RemovesWhatItRead
  <2> QED  BY <2>2, <2>3 DEF CreateFile
<1>4. CASE /\ w' = [w EXCEPT !.place = "opened", !.file = w.idx, !.idx = @ + 1, !.rec = rec]
           /\ files' = [i \in DOMAIN files \cup {w.idx} |->
                            IF i \in DOMAIN files THEN files[i] ELSE Nothing]
           /\ UNCHANGED faults
  <2>1. /\ DOMAIN files' = DOMAIN files \cup {w.idx}
        /\ \A i \in DOMAIN files : files'[i] = files[i]
        /\ w.idx \notin DOMAIN files => files'[w.idx] = Nothing
      BY <1>4
  <2>2. Entries' = Entries
      BY <1>2, <2>1 DEF Entries
  <2>3. TypeOK'
    <3>1. WriterOK'
        BY <1>1, <1>4, TypeParts DEF IInv, WriterOK
    <3>2. FilesOK'
        BY <1>1, <2>1, TypeParts DEF IInv, FilesOK
    <3> QED  BY <1>4, <3>1, <3>2, TypeParts, FaultType DEF IInv, CreateFile, ReaderOK, SemOK
  <2>4. w'.place = "opened" /\ w'.file = w.idx /\ w'.idx = w.idx + 1 /\ w'.rec = rec
      BY <1>1, <1>4 DEF IInv, TypeOK
  <2>5. FilesBelowMax'
      BY <1>1, <2>1 DEF IInv, FilesBelowMax
  <2>6. WriterBehind' /\ ReaderInFront'
      BY <1>1, <2>1, <2>2, <2>4 DEF IInv, CreateFile, WriterBehind, ReaderInFront
  <2>7. FileStays' /\ RemovesWhatItRead'
      BY <2>1 DEF IInv, CreateFile, FileStays, RemovesWhatItRead
  <2> QED  BY <2>3, <2>5, <2>6, <2>7 DEF IInv
<1> QED  BY <1>3, <1>4 DEF CreateFile

LEMMA CloseFileInv == IInv /\ CloseFile => IInv'
<1> SUFFICES ASSUME IInv, CloseFile PROVE IInv'
    OBVIOUS
<1>1. w.place = "opened" /\ w.file \in DOMAIN files /\ w.file < w.idx /\ w.rec \in Records
    BY DEF IInv, CloseFile, WriterBehind
<1>2. w'.place = "ready" /\ w'.idx = w.idx
    BY DEF IInv, TypeOK, CloseFile
<1>3. w.idx \in Nat /\ w.file \in Nat /\ r.idx \in Nat
    BY DEF IInv, TypeOK, Indexes
<1>4. /\ DOMAIN files' = DOMAIN files
      /\ \A i \in DOMAIN files : i # w.file => files'[i] = files[i]
      /\ files'[w.file] \in {files[w.file], w.rec}
    BY <1>1 DEF CloseFile
<1>5. Entries' \subseteq Entries \cup {w.file}
    BY <1>4 DEF Entries
<1>6. files[w.file] = Nothing
    BY <1>1, <1>3 DEF IInv, WriterBehind, Entries
<1>7. TypeOK'
  <2>1. WriterOK'
      BY TypeParts DEF IInv, CloseFile, WriterOK
  <2>2. FilesOK'
      BY <1>1, <1>4, TypeParts DEF IInv, FilesOK
  <2>3. SemOK'
      BY DEF CloseFile, SemOK
  <2> QED  BY <2>1, <2>2, <2>3, TypeParts, FaultType DEF IInv, CloseFile, ReaderOK
<1>8. FilesBelowMax'
    BY <1>4 DEF IInv, FilesBelowMax
<1>9. \A i \in Entries : i \in Nat
    BY EntriesAreIndexes DEF IInv
<1>10. WriterBehind' /\ ReaderInFront'
    BY <1>1, <1>2, <1>3, <1>5, <1>9 DEF IInv, CloseFile, WriterBehind, ReaderInFront
<1>11. FileStays' /\ RemovesWhatItRead'
    BY <1>4, <1>6 DEF IInv, CloseFile, FileStays, RemovesWhatItRead
<1> QED  BY <1>7, <1>8, <1>10, <1>11 DEF IInv

LEMMA BeginFacts ==
    ASSUME IInv, UNCHANGED <<files, w>>, r' = Begin
    PROVE  ReaderOK' /\ ReaderInFront' /\ FileStays' /\ RemovesWhatItRead'
<1>1. /\ First \in Indexes
      /\ \A i \in Entries : First <= i
      /\ First = 0 \/ First \in Entries
    BY FirstIsFirst DEF IInv
<1>2. r' = [place |-> "open", op |-> "peek", idx |-> First, room |-> Room,
            opened |-> FALSE, seen |-> Nothing, got |-> Nothing]
    BY DEF Begin, NoSession
<1>3. ReaderOK'
  <2>1. Room \in 0..Room
      BY FileQueueAssumption
  <2> QED  BY <1>1, <1>2, <2>1 DEF ReaderOK, ReaderPlaces
<1>4. ReaderInFront'
  <2>1. Entries' = Entries /\ w' = w
      BY DEF Entries
  <2>2. w.idx \in Nat /\ w.file \in Nat
      BY DEF IInv, TypeOK, Indexes
  <2>3. \A i \in Entries : i \in Nat
      BY EntriesAreIndexes DEF IInv
  <2> QED  BY <1>1, <1>2, <2>1, <2>2, <2>3 DEF IInv, WriterBehind, ReaderInFront
<1> QED  BY <1>2, <1>3, <1>4 DEF FileStays, RemovesWhatItRead

LEMMA ReadFailsFacts ==
    ASSUME IInv, UNCHANGED <<files, w>>, r.place # "idle", ReadFails
    PROVE  ReaderOK' /\ ReaderInFront' /\ FileStays' /\ RemovesWhatItRead'
<1>1. CASE r.op = "peek"
  <2>1. r' = NoSession
      BY <1>1 DEF ReadFails
  <2>2. ReaderOK'
      BY <2>1, FileQueueAssumption DEF ReaderOK, NoSession, ReaderPlaces, Indexes
  <2> QED  BY <2>1, <2>2 DEF NoSession, ReaderInFront, FileStays, RemovesWhatItRead
<1>2. CASE r.op # "peek"
  <2>1. r' = [r EXCEPT !.place = "open", !.op = "peek", !.got = Nothing]
      BY <1>2 DEF ReadFails
  <2>2. ReaderOK'
      BY <2>1, TypeParts DEF IInv, ReaderOK, ReaderPlaces
  <2>3. r'.place = "open" /\ r'.op = "peek" /\ r'.idx = r.idx
      BY <2>1 DEF IInv, TypeOK
  <2>4. Entries' = Entries /\ w' = w
      BY DEF Entries
  <2> QED  BY <2>2, <2>3, <2>4 DEF IInv, ReaderInFront, FileStays, RemovesWhatItRead
<1> QED  BY <1>1, <1>2

LEMMA BeginReadingInv == IInv /\ BeginReading => IInv'
<1> SUFFICES ASSUME IInv, BeginReading PROVE IInv'
    OBVIOUS
<1>1. ReaderOK' /\ ReaderInFront' /\ FileStays' /\ RemovesWhatItRead'
    BY BeginFacts DEF BeginReading
<1>2. TypeOK'
    BY <1>1, TypeParts DEF IInv, BeginReading, FilesOK, WriterOK, SemOK, FaultsOK
<1> QED  BY <1>1, <1>2 DEF IInv, BeginReading, FilesBelowMax, WriterBehind, Entries

(* A step of the reader that changes neither the files nor the writer *)
LEMMA ReaderStepInv ==
    ASSUME IInv, UNCHANGED <<files, w, faults>>, SemOK',
           ReaderOK' /\ ReaderInFront' /\ FileStays' /\ RemovesWhatItRead'
    PROVE  IInv'
<1>1. TypeOK'
    BY TypeParts DEF IInv, FilesOK, WriterOK, FaultsOK
<1> QED  BY <1>1 DEF IInv, FilesBelowMax, WriterBehind, Entries

LEMMA OpenFileInv == IInv /\ OpenFile => IInv'
<1> SUFFICES ASSUME IInv, OpenFile PROVE IInv'
    OBVIOUS
<1>1. SemOK'
    BY TypeParts DEF IInv, OpenFile, SemOK
<1>2. Entries' = Entries /\ w' = w /\ files' = files /\ r.place = "open"
    BY DEF OpenFile, Entries
<1>3. CASE r.idx \in DOMAIN files /\ r' = [r EXCEPT !.place = "stat", !.opened = TRUE, !.seen = files[r.idx]]
  <2>1. ReaderOK'
      BY <1>3, TypeParts DEF IInv, ReaderOK, ReaderPlaces, FilesOK
  <2>2. /\ r'.place = "stat" /\ r'.op = r.op /\ r'.idx = r.idx /\ r'.opened
        /\ r'.seen = files[r.idx] /\ r'.got = r.got
      BY <1>3, TypeParts DEF IInv, ReaderOK
  <2>3. ReaderInFront' /\ FileStays' /\ RemovesWhatItRead'
      BY <1>2, <1>3, <2>2 DEF IInv, ReaderInFront, FileStays, RemovesWhatItRead
  <2> QED  BY <1>1, <1>2, <2>1, <2>3, ReaderStepInv DEF OpenFile
<1>4. CASE r' = [r EXCEPT !.place = "stat", !.opened = FALSE, !.seen = Nothing]
  <2>1. ReaderOK'
      BY <1>4, TypeParts DEF IInv, ReaderOK, ReaderPlaces
  <2>2. /\ r'.place = "stat" /\ r'.op = r.op /\ r'.idx = r.idx /\ ~r'.opened
        /\ r'.got = r.got
      BY <1>4, TypeParts DEF IInv, ReaderOK
  <2>3. ReaderInFront' /\ FileStays' /\ RemovesWhatItRead'
      BY <1>2, <2>2 DEF IInv, ReaderInFront, FileStays, RemovesWhatItRead
  <2> QED  BY <1>1, <1>2, <2>1, <2>3, ReaderStepInv DEF OpenFile
<1>5. CASE ReadFails
    BY <1>1, <1>2, <1>5, ReadFailsFacts, ReaderStepInv DEF OpenFile
<1> QED  BY <1>3, <1>4, <1>5 DEF OpenFile

LEMMA StatFileInv == IInv /\ StatFile => IInv'
<1> SUFFICES ASSUME IInv, StatFile PROVE IInv'
    OBVIOUS
<1>1. SemOK'
    BY TypeParts DEF IInv, StatFile, SemOK
<1>2. Entries' = Entries /\ w' = w /\ files' = files /\ r.place = "stat"
    BY DEF StatFile, Entries
<1>3. CASE UNCHANGED r
  <2>1. ReaderOK' /\ ReaderInFront' /\ FileStays' /\ RemovesWhatItRead'
      BY <1>2, <1>3, TypeParts DEF IInv, ReaderOK, ReaderInFront, FileStays, RemovesWhatItRead
  <2> QED  BY <1>1, <1>2, <2>1, ReaderStepInv DEF StatFile
<1>4. CASE r' = [r EXCEPT !.place = "read"]
  <2>1. ReaderOK'
      BY <1>4, TypeParts DEF IInv, ReaderOK, ReaderPlaces
  <2>2. /\ r'.place = "read" /\ r'.op = r.op /\ r'.idx = r.idx /\ r'.opened = r.opened
        /\ r'.seen = r.seen /\ r'.got = r.got
      BY <1>4, TypeParts DEF IInv, ReaderOK
  <2>3. ReaderInFront' /\ FileStays' /\ RemovesWhatItRead'
      BY <1>2, <2>2 DEF IInv, ReaderInFront, FileStays, RemovesWhatItRead
  <2> QED  BY <1>1, <1>2, <2>1, <2>3, ReaderStepInv DEF StatFile
<1> QED  BY <1>3, <1>4 DEF StatFile

(* What is read from a file that was opened is what it holds, or nothing. *)
LEMMA ReadableFacts ==
    ASSUME IInv, r.place = "read", r.opened, NEW rec \in Readable
    PROVE  /\ rec \in Records \cup {Nothing}
           /\ rec # Nothing => /\ r.idx \in Entries
                               /\ files[r.idx] = rec
<1>1. rec = r.seen \/ (r.idx \in DOMAIN files /\ rec = files[r.idx])
    BY DEF Readable
<1>2. r.seen \in Records \cup {Nothing}
    BY DEF IInv, TypeOK
<1>3. r.idx \in DOMAIN files => files[r.idx] \in Records \cup {Nothing}
    BY DEF IInv, TypeOK
<1> QED  BY <1>1, <1>2, <1>3 DEF IInv, FileStays, Entries

LEMMA PeekSucceedsFacts ==
    ASSUME IInv, UNCHANGED <<files, w>>, r.place = "read", r.opened,
           NEW rec \in Readable, PeekSucceeds(rec)
    PROVE  ReaderOK' /\ ReaderInFront' /\ FileStays' /\ RemovesWhatItRead'
<1>1. CASE r.room = 0
    BY <1>1, BeginFacts DEF PeekSucceeds
<1>2. CASE r.room # 0
  <2>1. r' = [r EXCEPT !.place = "open", !.op = "get", !.room = @ - 1, !.got = rec]
      BY <1>2 DEF PeekSucceeds
  <2>2. r.room \in 0..Room /\ r.room - 1 \in 0..Room
      BY <1>2, FileQueueAssumption DEF IInv, TypeOK
  <2>3. rec \in Records \cup {Nothing}
      BY ReadableFacts
  <2>4. ReaderOK'
      BY <2>1, <2>2, <2>3, TypeParts DEF IInv, ReaderOK, ReaderPlaces
  <2>5. r'.place = "open" /\ r'.op = "get" /\ r'.idx = r.idx /\ r'.got = rec
      BY <2>1, TypeParts DEF IInv, ReaderOK
  <2>6. Entries' = Entries /\ w' = w
      BY DEF Entries
  <2>7. ReaderInFront' /\ FileStays'
      BY <2>5, <2>6 DEF IInv, ReaderInFront, FileStays
  <2>8. RemovesWhatItRead'
      BY <2>5, ReadableFacts DEF RemovesWhatItRead, Entries
  <2> QED  BY <2>4, <2>7, <2>8
<1> QED  BY <1>1, <1>2

LEMMA RemoveEntryFacts ==
    ASSUME IInv, RemoveEntry, UNCHANGED <<w, sem, faults>>, r.place # "idle", r.idx \in Entries
    PROVE  IInv'
<1>1. /\ DOMAIN files' = DOMAIN files \ {r.idx}
      /\ \A i \in DOMAIN files' : files'[i] = files[i]
    BY DEF RemoveEntry
<1>2. Entries' = Entries \ {r.idx}
    BY <1>1 DEF Entries
<1>3. r.idx \in Nat /\ r.idx < MaxIndex /\ r.idx + 1 \in Indexes
    BY EntriesAreIndexes, FileQueueAssumption DEF IInv, Indexes
<1>4. TypeOK'
  <2>1. ReaderOK'
      BY <1>3, TypeParts DEF IInv, RemoveEntry, ReaderOK, ReaderPlaces
  <2>2. FilesOK'
      BY <1>1, TypeParts DEF IInv, FilesOK
  <2> QED  BY <2>1, <2>2, TypeParts DEF IInv, WriterOK, SemOK, FaultsOK
<1>5. r'.place = "open" /\ r'.op = "peek" /\ r'.idx = r.idx + 1
    BY DEF RemoveEntry, IInv, TypeOK
<1>6. FilesBelowMax'
    BY <1>1 DEF IInv, FilesBelowMax
<1>7. WriterBehind'
  <2>1. w.place = "opened" => files[w.file] = Nothing
    <3>1. w.place = "opened" => w.file \in Nat /\ ~(w.file < w.file)
        BY DEF IInv, TypeOK, Indexes
    <3> QED  BY <3>1 DEF IInv, WriterBehind, Entries
  <2> QED  BY <1>1, <1>2, <2>1 DEF IInv, WriterBehind, Entries
<1>8. ReaderInFront'
  <2>1. \A i \in Entries : i \in Nat
      BY EntriesAreIndexes DEF IInv
  <2>2. w.idx \in Nat /\ w.file \in Nat
      BY DEF IInv, TypeOK, Indexes
  <2> QED  BY <1>2, <1>3, <1>5, <2>1, <2>2 DEF IInv, WriterBehind, ReaderInFront
<1> QED  BY <1>4, <1>5, <1>6, <1>7, <1>8 DEF IInv, FileStays, RemovesWhatItRead

LEMMA ReadFileInv == IInv /\ ReadFile => IInv'
<1> SUFFICES ASSUME IInv, ReadFile PROVE IInv'
    OBVIOUS
<1>1. SemOK' /\ r.place = "read"
    BY TypeParts DEF IInv, ReadFile, SemOK
<1>2. CASE ReadFails /\ UNCHANGED files
    BY <1>1, <1>2, ReadFailsFacts, ReaderStepInv DEF ReadFile
<1>3. ASSUME r.opened, NEW rec \in Readable, PeekSucceeds(rec), UNCHANGED files
      PROVE  IInv'
    BY <1>1, <1>3, PeekSucceedsFacts, ReaderStepInv DEF ReadFile
<1>4. ASSUME r.opened, NEW rec \in Readable, rec # Nothing, RemoveEntry
      PROVE  IInv'
    BY <1>1, <1>4, ReadableFacts, RemoveEntryFacts DEF ReadFile
<1> QED  BY <1>2, <1>3, <1>4 DEF ReadFile

LEMMA ResetInv == IInv /\ Reset => IInv'
<1> SUFFICES ASSUME IInv, Reset PROVE IInv'
    OBVIOUS
<1>1. TypeOK'
  <2>1. WriterOK'
      BY FileQueueAssumption DEF Reset, WriterOK, Off, Indexes
  <2>2. ReaderOK'
      BY FileQueueAssumption DEF Reset, ReaderOK, NoSession, ReaderPlaces, Indexes
  <2>3. SemOK'
      BY DEF Reset, SemOK
  <2> QED  BY <2>1, <2>2, <2>3, TypeParts, FaultType DEF IInv, Reset, FilesOK
<1> QED  BY <1>1
    DEF IInv, Reset, Off, NoSession, FilesBelowMax, WriterBehind, ReaderInFront, FileStays, RemovesWhatItRead

LEMMA StepInv == IInv /\ [Next]_vars => IInv'
<1> SUFFICES ASSUME IInv, [Next]_vars PROVE IInv'
    OBVIOUS
<1>1. CASE UNCHANGED vars
    BY <1>1, TypeParts
    DEF vars, IInv, FilesOK, WriterOK, ReaderOK, SemOK, FaultsOK,
        FilesBelowMax, WriterBehind, ReaderInFront, FileStays, RemovesWhatItRead, Entries
<1>2. CASE Next
    BY <1>2, StartInv, StopInv, CreateFileInv, CloseFileInv, BeginReadingInv, OpenFileInv,
       StatFileInv, ReadFileInv, ResetInv DEF Next, Writer, Reader
<1> QED  BY <1>1, <1>2

LEMMA Invariance == Spec => []IInv
    BY InitInv, StepInv, PTL DEF Spec

-----------------------------------------------------------------------------
(* The queue's state is always well-formed: cur_idx of writer and reader stay
   in the range of file numbers, whatever the faults and resets. *)
THEOREM TypeCorrect == Spec => []TypeOK
<1>1. IInv => TypeOK
    BY DEF IInv
<1> QED  BY <1>1, Invariance, PTL

(* fqueue_get removes the entry that ml_get_json_list decoded after its peek,
   whatever the ML thread writes in between. *)
THEOREM RemovesTheEntryItRead == Spec => []RemovesWhatItRead
<1>1. IInv => RemovesWhatItRead
    BY DEF IInv
<1> QED  BY <1>1, Invariance, PTL

-----------------------------------------------------------------------------
(* The mapped store *)
Stored == [i \in Entries |-> files[i]]

LEMMA SameEntriesSameStore ==
    ASSUME Entries' = Entries, \A i \in Entries : files'[i] = files[i]
    PROVE  Stored' = Stored
    BY DEF Stored

(* A file that is created, or found empty, is not an entry. *)
LEMMA CreateFileStutters ==
    ASSUME IInv, NEW rec \in Records, CreateFile(rec)
    PROVE  Stored' = Stored
<1>1. CASE UNCHANGED files
    BY <1>1 DEF Stored, Entries
<1>2. CASE files' = [i \in DOMAIN files \cup {w.idx} |->
                         IF i \in DOMAIN files THEN files[i] ELSE Nothing]
  <2>1. \A i \in DOMAIN files : files'[i] = files[i]
      BY <1>2
  <2>2. Entries' = Entries
      BY <1>2 DEF Entries
  <2> QED  BY <2>1, <2>2, SameEntriesSameStore DEF Entries
<1> QED  BY <1>1, <1>2 DEF CreateFile

(* The record of a file that is closed is behind all the others. *)
LEMMA CloseFilePuts ==
    ASSUME IInv, CloseFile
    PROVE  Store!PutRecord \/ Stored' = Stored
<1>1. /\ w.file \in DOMAIN files
      /\ w.rec \in Records
      /\ \A i \in Entries : i < w.file
      /\ w.file \in Nat
    BY DEF IInv, TypeOK, Indexes, CloseFile, WriterBehind
<1>2. CASE UNCHANGED files
    BY <1>2 DEF Stored, Entries
<1>3. CASE files' = [files EXCEPT ![w.file] = w.rec]
  <2>1. w.file \notin Entries
      BY <1>1
  <2>2. w.rec # Nothing
      BY <1>1, FileQueueAssumption
  <2>3. /\ files'[w.file] = w.rec
        /\ \A i \in DOMAIN files : i # w.file => files'[i] = files[i]
      BY <1>1, <1>3
  <2>4. Entries' = Entries \cup {w.file}
      BY <1>1, <1>3, <2>2, <2>3 DEF Entries
  <2>5. PICK f \in Nat, rec \in Records : f = w.file /\ rec = w.rec
      BY <1>1
  <2>6. Stored' = [j \in Entries \cup {f} |-> IF j = f THEN rec ELSE Stored[j]]
      BY <2>1, <2>3, <2>4, <2>5 DEF Stored, Entries
  <2>7. f \in DOMAIN Stored' \ DOMAIN Stored /\ DOMAIN Stored = Entries
      BY <2>1, <2>4, <2>5 DEF Stored
  <2> QED  BY <1>1, <2>5, <2>6, <2>7 DEF Store!PutRecord, Store!Positions, Stored
<1> QED  BY <1>2, <1>3 DEF CloseFile

(* The entry that is removed is the first one. *)
LEMMA RemoveEntryTakes ==
    ASSUME IInv, RemoveEntry, r.place # "idle", r.idx \in Entries
    PROVE  Store!TakeFirst
<1>1. \A i \in Entries : r.idx <= i
    BY DEF IInv, ReaderInFront
<1>2. /\ DOMAIN files' = DOMAIN files \ {r.idx}
      /\ \A i \in DOMAIN files' : files'[i] = files[i]
    BY DEF RemoveEntry
<1>3. Entries' = Entries \ {r.idx}
    BY <1>2 DEF Entries
<1>4. PICK f \in Entries : f = r.idx
    OBVIOUS
<1>5. Stored' = [j \in Entries \ {f} |-> Stored[j]]
    BY <1>2, <1>3, <1>4 DEF Stored, Entries
<1> QED  BY <1>1, <1>4, <1>5 DEF Store!TakeFirst, Store!Positions, Stored

LEMMA ReadFileStore ==
    ASSUME IInv, ReadFile
    PROVE  Store!TakeFirst \/ Stored' = Stored
<1>1. CASE UNCHANGED files
    BY <1>1 DEF Stored, Entries
<1>2. ASSUME r.opened, NEW rec \in Readable, rec # Nothing, RemoveEntry
      PROVE  Store!TakeFirst
    BY <1>2, ReadableFacts, RemoveEntryTakes DEF ReadFile
<1> QED  BY <1>1, <1>2 DEF ReadFile

(* Whatever the interleaving of reader and writer, the failures of the file
   system and the resets, a record that was closed stays until the reader
   takes it, records are taken in the order in which they were put, and none
   is overwritten. *)
THEOREM KeepsEveryRecord == Spec => KeepsRecords
<1>1. Init => Store!Init
  <2> SUFFICES ASSUME Init PROVE Stored = [i \in {} |-> 0]
      BY DEF Store!Init, Stored
  <2>1. Entries = {}
      BY DEF Init, Entries
  <2> QED  BY <2>1 DEF Stored
<1>2. IInv /\ [Next]_vars => Store!Next \/ Stored' = Stored
  <2> SUFFICES ASSUME IInv, [Next]_vars
               PROVE  Store!Next \/ Stored' = Stored
      OBVIOUS
  <2>1. CASE UNCHANGED files
      BY <2>1 DEF Stored, Entries
  <2>2. ASSUME NEW rec \in Records, CreateFile(rec)
        PROVE  Stored' = Stored
      BY <2>2, CreateFileStutters
  <2>3. CASE CloseFile
      BY <2>3, CloseFilePuts DEF Store!Next
  <2>4. CASE ReadFile
      BY <2>4, ReadFileStore DEF Store!Next
  <2> QED  BY <2>1, <2>2, <2>3, <2>4
      DEF vars, Next, Start, Stop, Writer, BeginReading, Reader, OpenFile, StatFile, Reset
<1>3. IInv /\ [Next]_vars => [Store!Next]_Stored
    BY <1>2
<1> QED  BY <1>1, <1>3, Invariance, PTL DEF Spec, KeepsRecords, Store!Spec, Stored

=============================================================================
