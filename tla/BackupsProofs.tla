----------------------------- MODULE BackupsProofs -----------------------------
(* Theorems about Backups, for any retention, any number of jobs, restores   *)
(* and kills, on either engine.                                              *)
EXTENDS Backups, SequenceTheorems, TLAPS

\* What makes ReplacedIsKept inductive: while a restore runs the app is stopped,
\* so the database it copied aside is still the one it is about to overwrite.
RestoreKeeps ==
  /\ restore.at \in {"idle", "copying", "opening", "writing"}
  /\ restore.at # "idle" => ~appUp
  /\ engine = "sqlite" /\ restore.at = "opening" /\ live.state = "whole"
       => live.data \in safety

Inv == ReplacedIsKept /\ RestoreKeeps

LEMMA InvInit == Init => Inv
BY DEF Init, Inv, ReplacedIsKept, RestoreKeeps, NoRestore

\* The backup job touches neither the database nor its safety copies.
LEMMA InvJob == Inv /\ Job => Inv'
<1> SUFFICES ASSUME Inv, Job PROVE Inv'
    OBVIOUS
<1>1. UNCHANGED <<engine, live, appUp, safety, replaced, restore>>
  BY DEF Job, Start, CannotStart, Vacuum, Compress, UnlinkRaw, PgDumpContents, PgDump, PgDumpFails,
         Crash, VerifyPasses, VerifyFails, PruneOne, Pruned, Heartbeat, KillJob
<1> QED BY <1>1 DEF Inv, ReplacedIsKept, RestoreKeeps

LEMMA InvOperator == Inv /\ Operator => Inv'
<1> SUFFICES ASSUME Inv, Operator PROVE Inv'
    OBVIOUS
<1> USE DEF Inv, ReplacedIsKept, RestoreKeeps, NoRestore
<1>1. CASE Write
  BY <1>1 DEF Write
<1>2. CASE StopOrStartApp
  BY <1>2 DEF StopOrStartApp
<1>3. CASE StartRestore
  BY <1>3 DEF StartRestore, FirstStep
<1>4. CASE CopySafety
  BY <1>4 DEF CopySafety
<1>5. CASE Overwrite
  BY <1>5 DEF Overwrite
<1>6. CASE ArchiveGone
  BY <1>6 DEF ArchiveGone
<1>7. CASE WritePart
  BY <1>7 DEF WritePart
<1>8. CASE WriteAll
  BY <1>8 DEF WriteAll
<1>9. CASE KillRestore
  BY <1>9 DEF KillRestore
<1> QED BY <1>1, <1>2, <1>3, <1>4, <1>5, <1>6, <1>7, <1>8, <1>9 DEF Operator

LEMMA InvNext == Inv /\ [Next]_vars => Inv'
<1>1. Inv /\ UNCHANGED vars => Inv'
  BY DEF Inv, ReplacedIsKept, RestoreKeeps, vars
<1> QED BY <1>1, InvJob, InvOperator DEF Next

\* On SQLite every whole version a forced restore has replaced is in a safety
\* copy, whichever restores were killed and started again (restore.py, main).
THEOREM VictimsAreKept == Spec => []ReplacedIsKept
<1>1. Inv => ReplacedIsKept
  BY DEF Inv
<1> QED BY <1>1, InvInit, InvNext, PTL DEF Spec

-----------------------------------------------------------------------------
(* The directory: what the operators on it return *)

FileType == [kind : {"raw", "archive"}, no : Nat, data : Nat, content : States,
             written : {"begun", "listed", "closed"}]

LEMMA RemoveOne ==
  ASSUME NEW fs \in Seq(FileType), NEW k \in 1..Len(fs)
  PROVE  /\ RemoveAt(fs, k) \in Seq(FileType)
         /\ Len(RemoveAt(fs, k)) = Len(fs) - 1
         /\ \A j \in 1..(Len(fs) - 1) :
              RemoveAt(fs, k)[j] = fs[IF j < k THEN j ELSE j + 1]
<1> DEFINE front == SubSeq(fs, 1, k - 1)
           back == SubSeq(fs, k + 1, Len(fs))
<1>1. Len(fs) \in Nat /\ \A j \in 1..Len(fs) : fs[j] \in FileType
  BY ElementOfSeq, LenProperties
<1>2. /\ front \in Seq(FileType) /\ Len(front) = k - 1
      /\ \A j \in 1..(k - 1) : front[j] = fs[j]
  <2>1. \A j \in 1..(k - 1) : fs[j] \in FileType
    BY <1>1
  <2>2. /\ SubSeq(fs, 1, k - 1) \in Seq(FileType)
        /\ Len(SubSeq(fs, 1, k - 1)) = IF 1 <= k - 1 THEN k - 1 - 1 + 1 ELSE 0
        /\ \A j \in 1..(k - 1 - 1 + 1) : SubSeq(fs, 1, k - 1)[j] = fs[1 + j - 1]
    BY <1>1, <2>1, SubSeqProperties
  <2> QED
    BY <2>2, <1>1
<1>3. /\ back \in Seq(FileType) /\ Len(back) = Len(fs) - k
      /\ \A j \in 1..(Len(fs) - k) : back[j] = fs[k + j]
  <2>1. \A j \in (k + 1)..Len(fs) : fs[j] \in FileType
    BY <1>1
  <2>2. /\ SubSeq(fs, k + 1, Len(fs)) \in Seq(FileType)
        /\ Len(SubSeq(fs, k + 1, Len(fs)))
             = IF k + 1 <= Len(fs) THEN Len(fs) - (k + 1) + 1 ELSE 0
        /\ \A j \in 1..(Len(fs) - (k + 1) + 1) :
             SubSeq(fs, k + 1, Len(fs))[j] = fs[k + 1 + j - 1]
    BY <1>1, <2>1, SubSeqProperties
  <2> QED
    BY <2>2, <1>1
<1>4. RemoveAt(fs, k) = front \o back
  BY DEF RemoveAt
<1> HIDE DEF front, back
<1>5. /\ front \o back \in Seq(FileType)
      /\ Len(front \o back) = Len(front) + Len(back)
      /\ \A j \in 1..(Len(front) + Len(back)) :
           (front \o back)[j] = IF j <= Len(front) THEN front[j] ELSE back[j - Len(front)]
  BY <1>2, <1>3, ConcatProperties
<1>6. ASSUME NEW j \in 1..(Len(fs) - 1)
      PROVE  RemoveAt(fs, k)[j] = fs[IF j < k THEN j ELSE j + 1]
  BY <1>1, <1>2, <1>3, <1>4, <1>5
<1> QED
  BY <1>1, <1>2, <1>3, <1>4, <1>5, <1>6

Progress == {"listed", "closed"}

Upto(f, how) == [f EXCEPT !.written = how]

LEMMA UptoKeeps ==
  ASSUME NEW f \in FileType, NEW how \in Progress
  PROVE  /\ Upto(f, how) \in FileType /\ Upto(f, how).no = f.no
         /\ Upto(f, how).kind = f.kind /\ Upto(f, how).data = f.data
         /\ Upto(f, how).content = f.content /\ Upto(f, how).written = how
BY DEF Upto, FileType, Progress

LEMMA WriteLast ==
  ASSUME NEW fs \in Seq(FileType), fs # <<>>, NEW how \in Progress
  PROVE  /\ Written(fs, how) \in Seq(FileType)
         /\ Len(Written(fs, how)) = Len(fs)
         /\ \A j \in 1..Len(fs) :
              Written(fs, how)[j] = IF j = Len(fs) THEN Upto(fs[j], how) ELSE fs[j]
<1> DEFINE last == Upto(fs[Len(fs)], how)
<1>1. Len(fs) \in 1..Len(fs) /\ fs[Len(fs)] \in FileType
  BY LenProperties, ElementOfSeq, EmptySeq
<1>2. last \in FileType
  BY <1>1, UptoKeeps
<1>3. Written(fs, how) = [fs EXCEPT ![Len(fs)] = last]
  BY DEF Written, Upto
<1> HIDE DEF last
<1>4. /\ [fs EXCEPT ![Len(fs)] = last] \in Seq(FileType)
      /\ Len([fs EXCEPT ![Len(fs)] = last]) = Len(fs)
      /\ \A j \in 1..Len(fs) :
           [fs EXCEPT ![Len(fs)] = last][j] = IF j = Len(fs) THEN last ELSE fs[j]
  BY <1>1, <1>2, ExceptSeq
<1> QED
  BY <1>3, <1>4 DEF last

LEMMA NewestSurplus ==
  ASSUME NEW fs \in Seq(FileType), Surplus(fs) # {}, Keep \in Nat
  PROVE  NextSurplus(fs) = Len(fs) - Keep /\ NextSurplus(fs) \in 1..Len(fs)
<1>1. Len(fs) \in Nat
  OBVIOUS
<1>2. Len(fs) - Keep \in Surplus(fs) /\ \A j \in Surplus(fs) : j <= Len(fs) - Keep
  BY <1>1 DEF Surplus
<1>3. NextSurplus(fs) \in Surplus(fs) /\ \A j \in Surplus(fs) : j <= NextSurplus(fs)
  BY <1>2 DEF NextSurplus
<1>4. NextSurplus(fs) \in Int
  BY <1>1, <1>3 DEF Surplus
<1>5. NextSurplus(fs) = Len(fs) - Keep
  BY <1>1, <1>2, <1>3, <1>4
<1> QED
  BY <1>1, <1>2, <1>5 DEF Surplus

-----------------------------------------------------------------------------
(* A heartbeat is honest, and retention deletes only for something newer.    *)
(* What makes them inductive is what each stage of the job knows of the file *)
(* it is working on, which is always the newest of the directory, and that   *)
(* no two jobs' files are ever out of order, whatever failed in between.     *)

Stages == {"idle", "dumping", "compressing", "unlinking", "verifying", "pruning", "reporting"}

Versions == [data : Nat, state : States]

TypeOK ==
  /\ engine \in {"sqlite", "postgres"}
  /\ live \in Versions
  /\ newest \in Nat
  /\ files \in Seq(FileType)
  /\ job \in [at : Stages, no : Nat, of : Versions, mixed : BOOLEAN,
              said : {"nothing", "alert", "heartbeat"}]
  /\ \/ restore = NoRestore
     \/ restore \in [at : {"copying", "opening", "writing"}, file : FileType]

\* Oldest first, and of one job's two files the uncompressed one before the archive.
Ordered(fs) ==
  \A i, j \in 1..Len(fs) : i < j =>
    /\ fs[i].no <= fs[j].no
    /\ fs[i].no = fs[j].no => fs[i].kind = "raw" /\ fs[j].kind = "archive"

Numbered == \A i \in 1..Len(files) : files[i].no <= job.no

OfJob(f) == f.no = job.no /\ f.data = job.of.data

\* The archive of this job: what the database was, unless a restore got in between.
Archived(f) ==
  /\ OfJob(f) /\ f.kind = "archive"
  /\ f.content = job.of.state \/ (engine = "sqlite" /\ job.mixed)
  /\ engine = "sqlite" => job.of.state # "partial"

DumpingOK ==
  job.at = "dumping" =>
    /\ OfJob(Last(files)) /\ Last(files).content = job.of.state
    /\ Last(files).kind = IF engine = "sqlite" THEN "raw" ELSE "archive"

CompressingOK ==
  job.at \in {"compressing", "unlinking"} =>
    engine = "sqlite" /\ Len(files) >= 2 /\ files[Len(files) - 1].kind = "raw"

ArchivedOK ==
  job.at \in {"compressing", "unlinking", "verifying", "pruning", "reporting"} =>
    /\ Archived(Last(files))
    /\ job.at # "compressing" => Last(files).written = "closed"

VerifiedOK ==
  /\ job.at \in {"pruning", "reporting"} => Verifies(Last(files))
  /\ job.at = "pruning" => Keep > 0
  /\ job.at = "reporting" /\ Keep > 0 => Len(files) <= Keep

StageOK ==
  /\ job.at # "idle" => Len(files) > 0 /\ job.said = "nothing"
  /\ DumpingOK /\ CompressingOK /\ ArchivedOK /\ VerifiedOK

JobInv == TypeOK /\ Ordered(files) /\ Numbered /\ StageOK /\ HonestHeartbeat

LEMMA SameOrder ==
  ASSUME NEW fs \in Seq(FileType), NEW gs \in Seq(FileType), Ordered(fs),
         Len(gs) = Len(fs),
         \A j \in 1..Len(fs) : gs[j].no = fs[j].no /\ gs[j].kind = fs[j].kind
  PROVE  Ordered(gs)
BY DEF Ordered

LEMMA RemoveOrder ==
  ASSUME NEW fs \in Seq(FileType), NEW k \in 1..Len(fs), Ordered(fs)
  PROVE  Ordered(RemoveAt(fs, k))
<1> DEFINE gs == RemoveAt(fs, k)
           was(j) == IF j < k THEN j ELSE j + 1
<1>1. /\ Len(fs) \in Nat /\ Len(gs) = Len(fs) - 1
      /\ \A j \in 1..Len(gs) : gs[j] = fs[was(j)]
  BY RemoveOne
<1>2. \A j \in 1..Len(gs) : was(j) \in 1..Len(fs)
  BY <1>1
<1>3. \A i, j \in 1..Len(gs) : i < j => was(i) < was(j)
  BY <1>1
<1>4. ASSUME NEW i \in 1..Len(gs), NEW j \in 1..Len(gs), i < j
      PROVE  /\ gs[i].no <= gs[j].no
             /\ gs[i].no = gs[j].no => gs[i].kind = "raw" /\ gs[j].kind = "archive"
  <2> HIDE DEF gs, was
  <2> QED
    BY <1>1, <1>2, <1>3, <1>4 DEF Ordered
<1> QED
  BY <1>4 DEF Ordered

LEMMA AppendOrder ==
  ASSUME NEW fs \in Seq(FileType), NEW f \in FileType, Ordered(fs),
         \A i \in 1..Len(fs) :
           \/ fs[i].no < f.no
           \/ fs[i].no = f.no /\ fs[i].kind = "raw" /\ f.kind = "archive"
  PROVE  Ordered(Append(fs, f))
<1> DEFINE gs == Append(fs, f)
<1>1. /\ Len(fs) \in Nat /\ Len(gs) = Len(fs) + 1
      /\ \A i \in 1..Len(fs) : gs[i] = fs[i] /\ fs[i].no \in Nat
      /\ gs[Len(fs) + 1] = f /\ f.no \in Nat
  <2>1. \A i \in 1..Len(fs) : fs[i] \in FileType
    BY ElementOfSeq
  <2> QED
    BY <2>1, AppendProperties DEF FileType
<1> HIDE DEF gs
<1>2. ASSUME NEW i \in 1..Len(gs), NEW j \in 1..Len(gs), i < j
      PROVE  /\ gs[i].no <= gs[j].no
             /\ gs[i].no = gs[j].no => gs[i].kind = "raw" /\ gs[j].kind = "archive"
  <2>1. CASE j = Len(fs) + 1
    BY <1>1, <1>2, <2>1
  <2>2. CASE j # Len(fs) + 1
    <3>1. i \in 1..Len(fs) /\ j \in 1..Len(fs)
      <4>1. Len(fs) \in Nat /\ Len(gs) = Len(fs) + 1
        BY <1>1
      <4> QED
        BY <1>2, <2>2, <4>1
    <3> QED
      BY <1>1, <1>2, <3>1 DEF Ordered
  <2> QED
    BY <2>1, <2>2
<1>3. Ordered(gs)
  BY <1>2 DEF Ordered
<1> QED
  BY <1>3 DEF gs

LEMMA JobInvInit == Init => JobInv
<1> SUFFICES ASSUME Init PROVE JobInv
    OBVIOUS
<1>1. files = <<>> /\ Len(files) = 0 /\ files \in Seq(FileType)
  BY DEF Init
<1>2. TypeOK
  BY <1>1, BackupsAssumption DEF Init, TypeOK, Versions, States, Stages, NoRestore
<1> QED
  BY <1>1, <1>2 DEF Init, JobInv, Ordered, Numbered, StageOK, DumpingOK, CompressingOK,
                    ArchivedOK, VerifiedOK, HonestHeartbeat

LEMMA FilesTyped ==
  ASSUME TypeOK
  PROVE  /\ Len(files) \in Nat
         /\ \A i \in 1..Len(files) : files[i] \in FileType /\ files[i].no \in Nat
         /\ Last(files) = files[Len(files)]
         /\ ToSet(files) = {files[i] : i \in 1..Len(files)}
<1>1. files \in Seq(FileType)
  BY DEF TypeOK
<1>2. \A i \in 1..Len(files) : files[i] \in FileType
  BY <1>1, ElementOfSeq
<1>3. Len(files) \in Nat /\ DOMAIN files = 1..Len(files)
  BY <1>1, LenProperties
<1> QED
  BY <1>2, <1>3 DEF FileType, Last, ToSet

\* What a step that leaves the directory alone still has to show.
LEMMA JobInvStill ==
  ASSUME JobInv, UNCHANGED <<files, engine>>, TypeOK', job'.no = job.no,
         StageOK', HonestHeartbeat'
  PROVE  JobInv'
BY DEF JobInv, Numbered, Ordered

LEMMA JobInvStart == JobInv /\ Start => JobInv'
<1> SUFFICES ASSUME JobInv, Start PROVE JobInv'
    OBVIOUS
<1> DEFINE f == File(IF engine = "sqlite" THEN "raw" ELSE "archive", job.no + 1, live)
<1>1. TypeOK /\ files \in Seq(FileType) /\ f \in FileType /\ job.no \in Nat
  BY DEF JobInv, TypeOK, File, FileType, Versions
<1>2. /\ job' = [at |-> "dumping", no |-> job.no + 1, of |-> live, mixed |-> FALSE,
                 said |-> "nothing"]
      /\ files' = Append(files, f)
      /\ UNCHANGED <<engine, live, newest, restore>>
  BY DEF Start
<1>3. /\ files' \in Seq(FileType) /\ Len(files') = Len(files) + 1
      /\ \A i \in 1..Len(files) : files'[i] = files[i]
      /\ files'[Len(files) + 1] = f
  BY <1>1, <1>2, AppendProperties
<1>4. /\ f.no = job.no + 1 /\ f.data = live.data /\ f.content = live.state
      /\ f.kind = IF engine = "sqlite" THEN "raw" ELSE "archive"
  BY DEF File
<1> HIDE DEF f
<1>5. /\ Len(files) \in Nat
      /\ \A i \in 1..Len(files) : files[i].no \in Nat /\ files[i].no <= job.no
  BY <1>1, FilesTyped DEF JobInv, Numbered
<1>6. TypeOK'
  BY <1>1, <1>2, <1>3 DEF TypeOK, Versions, Stages
<1>7. Ordered(files')
  BY <1>1, <1>2, <1>4, <1>5, AppendOrder DEF JobInv
<1>8. Numbered'
  BY <1>1, <1>2, <1>3, <1>4, <1>5 DEF Numbered
<1>9. StageOK'
  <2>1. Last(files') = f /\ Len(files') > 0
    BY <1>3, <1>5 DEF Last
  <2> QED
    BY <1>2, <1>4, <2>1
       DEF StageOK, DumpingOK, CompressingOK, ArchivedOK, VerifiedOK, OfJob
<1> QED
  BY <1>2, <1>6, <1>7, <1>8, <1>9 DEF JobInv, HonestHeartbeat

\* VACUUM INTO finishes the copy and the archive opens beside it: no file moves.
LEMMA VacuumPlaces ==
  ASSUME JobInv, Vacuum
  PROVE  /\ files' \in Seq(FileType) /\ Len(files') = Len(files) + 1
         /\ \A i \in 1..Len(files) :
              files'[i].no = files[i].no /\ files'[i].kind = files[i].kind
         /\ Ordered(files')
         /\ Last(files') = files'[Len(files) + 1]
         /\ OfJob(Last(files')) /\ Last(files').kind = "archive"
         /\ Last(files').content = job.of.state \/ job.mixed
<1> DEFINE n == Len(files)
           mixedUp == [files[n] EXCEPT !.content = "partial"]
           out == IF job.mixed THEN [files EXCEPT ![n].content = "partial"] ELSE files
           new == [Last(out) EXCEPT !.kind = "archive"]
<1>1. /\ TypeOK /\ files \in Seq(FileType) /\ n \in Nat /\ n > 0 /\ files[n] \in FileType
      /\ \A i \in 1..n : files[i] \in FileType /\ files[i].no \in Nat
      /\ OfJob(files[n]) /\ files[n].content = job.of.state /\ files[n].kind = "raw"
      /\ engine = "sqlite" /\ job.of.state # "partial"
      /\ \A i \in 1..n : files[i].no <= job.no
      /\ job.no \in Nat
  <2>1. Last(files) = files[n] /\ n > 0
    BY FilesTyped DEF JobInv, StageOK, Vacuum
  <2> QED
    BY <2>1, FilesTyped DEF JobInv, StageOK, DumpingOK, Numbered, Vacuum, TypeOK
<1>2. /\ out \in Seq(FileType) /\ Len(out) = n
      /\ \A i \in 1..n : i # n => out[i] = files[i]
      /\ out[n] = IF job.mixed THEN mixedUp ELSE files[n]
  <2>1. mixedUp \in FileType
    BY <1>1 DEF FileType, States
  <2>2. [files EXCEPT ![n].content = "partial"] = [files EXCEPT ![n] = mixedUp]
    OBVIOUS
  <2> HIDE DEF mixedUp
  <2>3. /\ [files EXCEPT ![n] = mixedUp] \in Seq(FileType)
        /\ Len([files EXCEPT ![n] = mixedUp]) = n
        /\ \A i \in 1..n : [files EXCEPT ![n] = mixedUp][i] = IF i = n THEN mixedUp ELSE files[i]
    BY <1>1, <2>1, ExceptSeq
  <2> QED
    BY <1>1, <2>2, <2>3
<1>3. /\ files' = Append(Written(out, "closed"), new)
      /\ job' = [job EXCEPT !.at = "compressing"]
      /\ UNCHANGED <<engine, live, newest, restore>>
  BY DEF Vacuum, Goto
<1>4. /\ out[n] \in FileType /\ out[n].no = job.no /\ out[n].data = job.of.data
      /\ out[n].kind = "raw" /\ (out[n].content = job.of.state \/ job.mixed)
  <2>1. /\ mixedUp \in FileType /\ mixedUp.no = files[n].no /\ mixedUp.data = files[n].data
        /\ mixedUp.kind = files[n].kind
    BY <1>1 DEF FileType, States
  <2> HIDE DEF out, mixedUp
  <2> QED
    BY <1>1, <1>2, <2>1 DEF OfJob
<1> HIDE DEF out, mixedUp
<1>5. /\ new \in FileType /\ new.no = job.no /\ new.data = job.of.data
      /\ new.kind = "archive" /\ (new.content = job.of.state \/ job.mixed)
  BY <1>2, <1>4 DEF FileType, Last
<1> HIDE DEF new
<1> DEFINE shut == Written(out, "closed")
<1>6. /\ shut \in Seq(FileType) /\ Len(shut) = n
      /\ \A i \in 1..n : shut[i].no = files[i].no /\ shut[i].kind = files[i].kind
  <2>1. out # <<>>
    BY <1>1, <1>2
  <2>2. /\ shut \in Seq(FileType) /\ Len(shut) = n
        /\ \A i \in 1..n :
             shut[i] = IF i = n THEN Upto(out[i], "closed") ELSE out[i]
    BY <1>2, <2>1, WriteLast DEF Progress
  <2>3. shut[n].no = job.no /\ shut[n].kind = "raw"
    <3>1. shut[n] = Upto(out[n], "closed")
      BY <1>1, <2>2
    <3> QED
      BY <1>4, <3>1, UptoKeeps DEF Progress
  <2>4. \A i \in 1..n : i # n => shut[i] = files[i]
    BY <1>2, <2>2
  <2> QED
    BY <1>1, <2>2, <2>3, <2>4 DEF OfJob
<1> HIDE DEF shut
<1>7. /\ files' \in Seq(FileType) /\ Len(files') = n + 1 /\ files'[n + 1] = new
      /\ \A i \in 1..n : files'[i].no = files[i].no /\ files'[i].kind = files[i].kind
  BY <1>3, <1>5, <1>6, AppendProperties DEF shut
<1>8. Ordered(files')
  <2>1. Ordered(shut)
    BY <1>1, <1>6, SameOrder DEF JobInv
  <2>2. \A i \in 1..n :
          \/ files[i].no < job.no
          \/ files[i].no = job.no /\ files[i].kind = "raw"
    <3>1. \A i \in 1..n : i = n \/ i < n
      BY <1>1
    <3>2. \A i \in 1..n : i < n => ~(files[i].no = files[n].no)
      BY <1>1 DEF JobInv, Ordered
    <3> QED
      BY <1>1, <3>1, <3>2 DEF OfJob
  <2>3. \A i \in 1..n :
          \/ shut[i].no < new.no
          \/ shut[i].no = new.no /\ shut[i].kind = "raw" /\ new.kind = "archive"
    BY <1>5, <1>6, <2>2
  <2> QED
    BY <1>3, <1>5, <1>6, <2>1, <2>3, AppendOrder DEF shut
<1>9. Last(files') = new
  BY <1>1, <1>7 DEF Last
<1> QED
  BY <1>5, <1>7, <1>8, <1>9 DEF OfJob

LEMMA JobInvVacuum == JobInv /\ Vacuum => JobInv'
<1> SUFFICES ASSUME JobInv, Vacuum PROVE JobInv'
    OBVIOUS
<1> DEFINE n == Len(files)
<1>1. /\ TypeOK /\ n \in Nat /\ n > 0 /\ files[n].kind = "raw" /\ engine = "sqlite"
      /\ job.of.state # "partial" /\ job.said = "nothing"
  BY FilesTyped DEF JobInv, StageOK, DumpingOK, Vacuum
<1>2. job' = [job EXCEPT !.at = "compressing"] /\ UNCHANGED <<engine, live, newest, restore>>
  BY DEF Vacuum, Goto
<1>3. /\ files' \in Seq(FileType) /\ Len(files') = n + 1
      /\ \A i \in 1..n : files'[i].no = files[i].no /\ files'[i].kind = files[i].kind
      /\ Ordered(files') /\ Last(files') = files'[n + 1]
      /\ OfJob(Last(files')) /\ Last(files').kind = "archive"
      /\ Last(files').content = job.of.state \/ job.mixed
  BY VacuumPlaces
<1>4. /\ TypeOK' /\ job'.at = "compressing" /\ job'.no = job.no /\ job'.of = job.of
      /\ job'.mixed = job.mixed /\ job'.said = "nothing"
  BY <1>1, <1>2, <1>3 DEF TypeOK, Stages
<1>5. Numbered'
  <2>1. \A i \in 1..n : files'[i].no <= job'.no
    BY <1>1, <1>3, <1>4 DEF JobInv, Numbered
  <2>2. files'[n + 1].no <= job'.no
    BY <1>1, <1>3, <1>4 DEF OfJob, TypeOK
  <2> QED
    BY <1>1, <1>3, <2>1, <2>2 DEF Numbered
<1>6. StageOK'
  <2>1. Len(files') >= 2 /\ files'[Len(files') - 1].kind = "raw"
    BY <1>1, <1>3
  <2> QED
    BY <1>1, <1>2, <1>3, <1>4, <2>1
       DEF StageOK, DumpingOK, CompressingOK, ArchivedOK, VerifiedOK, OfJob, Archived
<1> QED
  BY <1>3, <1>4, <1>5, <1>6 DEF JobInv, HonestHeartbeat

\* The file the job is writing grows: its place in the directory, its job and what
\* it is a copy of stay.
LEMMA NewestGrows ==
  ASSUME JobInv, Len(files) > 0, NEW how \in Progress, files' = Written(files, how)
  PROVE  /\ files' \in Seq(FileType) /\ Len(files') = Len(files)
         /\ \A i \in 1..Len(files) :
              files'[i].no = files[i].no /\ files'[i].kind = files[i].kind
         /\ Last(files') = Upto(Last(files), how)
         /\ Last(files) \in FileType
         /\ Ordered(files')
<1>1. /\ files \in Seq(FileType) /\ files # <<>> /\ Len(files) \in Nat
      /\ \A i \in 1..Len(files) : files[i] \in FileType
      /\ Last(files) = files[Len(files)]
  BY FilesTyped DEF JobInv, TypeOK
<1>2. /\ files' \in Seq(FileType) /\ Len(files') = Len(files)
      /\ \A i \in 1..Len(files) :
           files'[i] = IF i = Len(files) THEN Upto(files[i], how) ELSE files[i]
  BY <1>1, WriteLast
<1>3. files'[Len(files)] = Upto(files[Len(files)], how)
  BY <1>1, <1>2
<1>4. /\ files'[Len(files)].no = files[Len(files)].no
      /\ files'[Len(files)].kind = files[Len(files)].kind
  BY <1>1, <1>3, UptoKeeps
<1>5. \A i \in 1..Len(files) : files'[i].no = files[i].no /\ files'[i].kind = files[i].kind
  BY <1>2, <1>4
<1>6. Ordered(files')
  BY <1>1, <1>2, <1>5, SameOrder DEF JobInv
<1> QED
  BY <1>1, <1>2, <1>3, <1>5, <1>6 DEF Last

LEMMA JobInvCompress == JobInv /\ Compress => JobInv'
<1> SUFFICES ASSUME JobInv, Compress PROVE JobInv'
    OBVIOUS
<1>1. /\ TypeOK /\ Len(files) \in Nat /\ Len(files) >= 2 /\ job.at = "compressing"
      /\ files[Len(files) - 1].kind = "raw" /\ engine = "sqlite"
      /\ Archived(Last(files)) /\ job.said = "nothing"
  BY FilesTyped DEF JobInv, StageOK, CompressingOK, ArchivedOK, Compress
<1>2. /\ files' = Written(files, "closed") /\ job' = [job EXCEPT !.at = "unlinking"]
      /\ UNCHANGED <<engine, live, newest, restore>>
  BY DEF Compress, Goto
<1>3. /\ files' \in Seq(FileType) /\ Len(files') = Len(files)
      /\ \A i \in 1..Len(files) :
           files'[i].no = files[i].no /\ files'[i].kind = files[i].kind
      /\ Last(files') = Upto(Last(files), "closed")
      /\ Last(files) \in FileType
      /\ Ordered(files')
  BY <1>1, <1>2, NewestGrows DEF Progress
<1>4. /\ TypeOK' /\ job'.at = "unlinking" /\ job'.no = job.no /\ job'.of = job.of
      /\ job'.mixed = job.mixed /\ job'.said = "nothing"
  BY <1>1, <1>2, <1>3 DEF TypeOK, Stages
<1>5. Numbered'
  BY <1>3, <1>4 DEF JobInv, Numbered
<1>6. StageOK'
  <2>1. Archived(Last(files))' /\ Last(files').written = "closed"
    BY <1>1, <1>2, <1>3, <1>4, UptoKeeps DEF Archived, OfJob, Progress
  <2>2. files'[Len(files') - 1].kind = "raw"
    BY <1>1, <1>3
  <2> QED
    BY <1>1, <1>2, <1>3, <1>4, <2>1, <2>2
       DEF StageOK, DumpingOK, CompressingOK, ArchivedOK, VerifiedOK
<1> QED
  BY <1>3, <1>4, <1>5, <1>6 DEF JobInv, HonestHeartbeat

LEMMA JobInvPgDump == JobInv /\ PgDump => JobInv'
<1> SUFFICES ASSUME JobInv, PgDump PROVE JobInv'
    OBVIOUS
<1>1. /\ TypeOK /\ Len(files) \in Nat /\ Len(files) > 0 /\ job.at = "dumping"
      /\ engine = "postgres" /\ job.said = "nothing"
      /\ OfJob(Last(files)) /\ Last(files).kind = "archive"
      /\ Last(files).content = job.of.state
  BY FilesTyped DEF JobInv, StageOK, DumpingOK, PgDump
<1>2. /\ files' = Written(files, "closed") /\ job' = [job EXCEPT !.at = "verifying"]
      /\ UNCHANGED <<engine, live, newest, restore>>
  BY DEF PgDump, Goto
<1>3. /\ files' \in Seq(FileType) /\ Len(files') = Len(files)
      /\ \A i \in 1..Len(files) :
           files'[i].no = files[i].no /\ files'[i].kind = files[i].kind
      /\ Last(files') = Upto(Last(files), "closed")
      /\ Last(files) \in FileType
      /\ Ordered(files')
  BY <1>1, <1>2, NewestGrows DEF Progress
<1>4. /\ TypeOK' /\ job'.at = "verifying" /\ job'.no = job.no /\ job'.of = job.of
      /\ job'.mixed = job.mixed /\ job'.said = "nothing"
  BY <1>1, <1>2, <1>3 DEF TypeOK, Stages
<1>5. Numbered'
  BY <1>3, <1>4 DEF JobInv, Numbered
<1>6. StageOK'
  <2>1. Archived(Last(files))' /\ Last(files').written = "closed"
    BY <1>1, <1>2, <1>3, <1>4, UptoKeeps DEF Archived, OfJob, Progress
  <2> QED
    BY <1>1, <1>2, <1>3, <1>4, <2>1
       DEF StageOK, DumpingOK, CompressingOK, ArchivedOK, VerifiedOK
<1> QED
  BY <1>3, <1>4, <1>5, <1>6 DEF JobInv, HonestHeartbeat

LEMMA JobInvPgDumpContents == JobInv /\ PgDumpContents => JobInv'
<1> SUFFICES ASSUME JobInv, PgDumpContents PROVE JobInv'
    OBVIOUS
<1>1. /\ TypeOK /\ Len(files) \in Nat /\ Len(files) > 0 /\ job.at = "dumping"
      /\ engine = "postgres" /\ job.said = "nothing" /\ OfJob(Last(files))
      /\ Last(files).kind = "archive" /\ Last(files).content = job.of.state
  BY FilesTyped DEF JobInv, StageOK, DumpingOK, PgDumpContents
<1>2. files' = Written(files, "listed") /\ UNCHANGED <<engine, live, newest, job, restore>>
  BY DEF PgDumpContents
<1>3. /\ files' \in Seq(FileType) /\ Len(files') = Len(files)
      /\ \A i \in 1..Len(files) :
           files'[i].no = files[i].no /\ files'[i].kind = files[i].kind
      /\ Last(files') = Upto(Last(files), "listed")
      /\ Last(files) \in FileType
      /\ Ordered(files')
  BY <1>1, <1>2, NewestGrows DEF Progress
<1>4. TypeOK'
  BY <1>1, <1>2, <1>3 DEF TypeOK
<1>5. Numbered'
  BY <1>2, <1>3 DEF JobInv, Numbered
<1>6. StageOK'
  <2>1. OfJob(Last(files))' /\ Last(files').kind = "archive"
        /\ Last(files').content = job.of.state
    BY <1>1, <1>2, <1>3, UptoKeeps DEF OfJob, Progress
  <2> QED
    BY <1>1, <1>2, <1>3, <2>1
       DEF StageOK, DumpingOK, CompressingOK, ArchivedOK, VerifiedOK
<1> QED
  BY <1>1, <1>2, <1>3, <1>4, <1>5, <1>6 DEF JobInv, HonestHeartbeat

\* A job that never gets as far as a file has only used up its turn.
LEMMA JobInvCannotStart == JobInv /\ CannotStart => JobInv'
<1> SUFFICES ASSUME JobInv, CannotStart PROVE JobInv'
    OBVIOUS
<1>1. PICK said \in {"alert", "nothing"} :
        job' = [at |-> "idle", no |-> job.no + 1, of |-> live, mixed |-> FALSE, said |-> said]
  BY DEF CannotStart
<1>2. TypeOK /\ UNCHANGED <<engine, live, newest, files, restore>>
  BY DEF CannotStart, JobInv
<1>3. TypeOK'
  BY <1>1, <1>2 DEF TypeOK, Stages
<1>4. Numbered'
  <2>1. \A i \in 1..Len(files) : files[i].no \in Nat /\ files[i].no <= job.no
    BY <1>2, FilesTyped DEF JobInv, Numbered
  <2>2. job.no \in Nat
    BY <1>2 DEF TypeOK
  <2> QED
    BY <1>1, <1>2, <2>1, <2>2 DEF Numbered
<1>5. StageOK' /\ HonestHeartbeat'
  BY <1>1 DEF StageOK, DumpingOK, CompressingOK, ArchivedOK, VerifiedOK, HonestHeartbeat
<1> QED
  BY <1>2, <1>3, <1>4, <1>5 DEF JobInv, Ordered

LEMMA JobInvUnlinkRaw == JobInv /\ UnlinkRaw => JobInv'
<1> SUFFICES ASSUME JobInv, UnlinkRaw PROVE JobInv'
    OBVIOUS
<1> DEFINE n == Len(files)
<1>1. /\ TypeOK /\ files \in Seq(FileType) /\ n \in Nat /\ n >= 2 /\ job.at = "unlinking"
      /\ Last(files) = files[n] /\ Archived(Last(files)) /\ job.said = "nothing"
      /\ Last(files).written = "closed"
  BY FilesTyped DEF JobInv, StageOK, CompressingOK, ArchivedOK, UnlinkRaw, TypeOK
<1>2. /\ files' = RemoveAt(files, n - 1) /\ job' = [job EXCEPT !.at = "verifying"]
      /\ UNCHANGED <<engine, live, newest, restore>>
  BY DEF UnlinkRaw, Goto
<1>3. /\ files' \in Seq(FileType) /\ Len(files') = n - 1
      /\ \A j \in 1..(n - 1) : files'[j] = files[IF j < n - 1 THEN j ELSE j + 1]
      /\ Ordered(files')
  BY <1>1, <1>2, RemoveOne, RemoveOrder DEF JobInv
<1>4. /\ TypeOK' /\ job'.at = "verifying" /\ job'.no = job.no /\ job'.of = job.of
      /\ job'.mixed = job.mixed /\ job'.said = "nothing"
  BY <1>1, <1>2, <1>3 DEF TypeOK, Stages
<1>5. Numbered'
  BY <1>1, <1>3, <1>4 DEF JobInv, Numbered
<1>6. StageOK'
  <2>1. Last(files') = Last(files)
    BY <1>1, <1>3 DEF Last
  <2> QED
    BY <1>1, <1>2, <1>3, <1>4, <2>1
       DEF StageOK, DumpingOK, CompressingOK, ArchivedOK, VerifiedOK, Archived, OfJob
<1> QED
  BY <1>3, <1>4, <1>5, <1>6 DEF JobInv, HonestHeartbeat

LEMMA JobInvPruneOne == JobInv /\ PruneOne => JobInv'
<1> SUFFICES ASSUME JobInv, PruneOne PROVE JobInv'
    OBVIOUS
<1> DEFINE n == Len(files)
           k == NextSurplus(files)
<1>1. /\ TypeOK /\ files \in Seq(FileType) /\ n \in Nat /\ job.at = "pruning" /\ Keep > 0
      /\ Last(files) = files[n] /\ Archived(Last(files)) /\ Verifies(Last(files))
      /\ Last(files).written = "closed" /\ job.said = "nothing"
  BY FilesTyped DEF JobInv, StageOK, ArchivedOK, VerifiedOK, PruneOne, TypeOK
<1>2. /\ files' = RemoveAt(files, k)
      /\ UNCHANGED <<engine, live, newest, restore, job>>
  BY DEF PruneOne
<1>3. k = n - Keep /\ k \in 1..n
  BY <1>1, NewestSurplus, BackupsAssumption DEF PruneOne
<1> HIDE DEF k
<1>4. /\ files' \in Seq(FileType) /\ Len(files') = n - 1
      /\ \A j \in 1..(n - 1) : files'[j] = files[IF j < k THEN j ELSE j + 1]
      /\ Ordered(files')
  BY <1>1, <1>2, <1>3, RemoveOne, RemoveOrder DEF JobInv
<1>5. TypeOK'
  BY <1>1, <1>2, <1>4 DEF TypeOK
<1>6. Numbered'
  BY <1>1, <1>2, <1>3, <1>4 DEF JobInv, Numbered
<1>7. StageOK'
  <2>1. Last(files') = Last(files) /\ Len(files') > 0
    BY <1>1, <1>3, <1>4, BackupsAssumption DEF Last
  <2> QED
    BY <1>1, <1>2, <1>4, <2>1
       DEF StageOK, DumpingOK, CompressingOK, ArchivedOK, VerifiedOK, Archived, OfJob, Verifies
<1> QED
  BY <1>1, <1>2, <1>4, <1>5, <1>6, <1>7 DEF JobInv, HonestHeartbeat

\* The job ends without a heartbeat.
LEMMA JobInvEnd ==
  ASSUME JobInv, NEW said \in {"nothing", "alert"}, End(said),
         UNCHANGED <<engine, live, newest, files, restore>>
  PROVE  JobInv'
<1>1. TypeOK
  BY DEF JobInv
<1>2. /\ job'.at = "idle" /\ job'.said = said /\ job'.no = job.no
      /\ TypeOK'
  BY <1>1 DEF TypeOK, Stages, End
<1>3. StageOK' /\ HonestHeartbeat'
  BY <1>2 DEF StageOK, DumpingOK, CompressingOK, ArchivedOK, VerifiedOK, HonestHeartbeat
<1> QED
  BY <1>2, <1>3, JobInvStill

LEMMA JobInvVerifyPasses == JobInv /\ VerifyPasses => JobInv'
<1> SUFFICES ASSUME JobInv, VerifyPasses PROVE JobInv'
    OBVIOUS
<1> DEFINE next == IF Keep = 0 THEN "reporting" ELSE "pruning"
<1>1. /\ TypeOK /\ job.at = "verifying" /\ Verifies(Last(files))
      /\ job' = [job EXCEPT !.at = next]
      /\ UNCHANGED <<engine, live, newest, files, restore>>
  BY DEF JobInv, VerifyPasses, Goto
<1>2. /\ job'.at = next /\ job'.no = job.no /\ job'.of = job.of
      /\ job'.mixed = job.mixed /\ job'.said = job.said /\ TypeOK'
  BY <1>1 DEF TypeOK, Stages
<1>3. StageOK' /\ HonestHeartbeat'
  BY <1>1, <1>2, BackupsAssumption
     DEF JobInv, StageOK, DumpingOK, CompressingOK, ArchivedOK, VerifiedOK, Archived, OfJob,
         Verifies, Complete, HonestHeartbeat
<1> QED
  BY <1>1, <1>2, <1>3, JobInvStill

LEMMA JobInvPruned == JobInv /\ Pruned => JobInv'
<1> SUFFICES ASSUME JobInv, Pruned PROVE JobInv'
    OBVIOUS
<1>1. /\ TypeOK /\ job.at = "pruning" /\ Len(files) \in Nat
      /\ job' = [job EXCEPT !.at = "reporting"]
      /\ UNCHANGED <<engine, live, newest, files, restore>>
  BY FilesTyped DEF JobInv, Pruned, Goto
<1>2. /\ job'.at = "reporting" /\ job'.no = job.no /\ job'.of = job.of
      /\ job'.mixed = job.mixed /\ job'.said = job.said /\ TypeOK'
  BY <1>1 DEF TypeOK, Stages
<1>3. Len(files) <= Keep
  <2>1. ~(1 \in 1..(Len(files) - Keep))
    BY DEF Pruned, Surplus
  <2> QED
    BY <1>1, <2>1, BackupsAssumption
<1>4. StageOK' /\ HonestHeartbeat'
  BY <1>1, <1>2, <1>3
     DEF JobInv, StageOK, DumpingOK, CompressingOK, ArchivedOK, VerifiedOK, Archived, OfJob,
         Verifies, Complete, HonestHeartbeat
<1> QED
  BY <1>1, <1>2, <1>4, JobInvStill

\* Where everything a job knows of its archive comes together.
LEMMA JobInvHeartbeat == JobInv /\ Heartbeat => JobInv'
<1> SUFFICES ASSUME JobInv, Heartbeat PROVE JobInv'
    OBVIOUS
<1>1. PICK said \in {"heartbeat", "nothing"} : job' = [job EXCEPT !.at = "idle", !.said = said]
  BY DEF Heartbeat, End
<1>2. /\ TypeOK /\ job.at = "reporting"
      /\ UNCHANGED <<engine, live, newest, files, restore>>
  BY DEF JobInv, Heartbeat
<1>3. /\ job'.at = "idle" /\ job'.no = job.no /\ job'.of = job.of
      /\ job'.mixed = job.mixed /\ TypeOK'
  BY <1>1, <1>2 DEF TypeOK, Stages
<1>4. StageOK'
  BY <1>3 DEF StageOK, DumpingOK, CompressingOK, ArchivedOK, VerifiedOK
<1>5. HonestHeartbeat'
  <2> DEFINE f == Last(files)
  <2>1. Archived(f) /\ Complete(f) /\ (Keep > 0 => Len(files) <= Keep)
    BY <1>2 DEF JobInv, StageOK, ArchivedOK, VerifiedOK, Complete
  <2>2. job.of.state \in {"whole", "partial", "empty"} /\ engine \in {"sqlite", "postgres"}
    BY <1>2 DEF TypeOK, Versions, States
  <2>3. \/ f.content = "whole" /\ f.data = job.of.data
        \/ engine = "postgres" /\ job.of.state # "whole"
        \/ engine = "sqlite" /\ job.mixed
    BY <2>1, <2>2 DEF Archived, OfJob, Verifies, Complete
  <2>4. UNCHANGED <<files, engine>> /\ job'.no = job.no /\ job'.of = job.of
        /\ job'.mixed = job.mixed
    BY <1>2, <1>3
  <2> QED
    BY <2>1, <2>3, <2>4 DEF Archived, OfJob, HonestHeartbeat, Verifies, Complete
<1> QED
  BY <1>2, <1>3, <1>4, <1>5, JobInvStill

LEMMA JobInvJob == JobInv /\ Job => JobInv'
<1> SUFFICES ASSUME JobInv, Job PROVE JobInv'
    OBVIOUS
<1>1. CASE Start        BY <1>1, JobInvStart
<1>2. CASE Vacuum       BY <1>2, JobInvVacuum
<1>3. CASE Compress     BY <1>3, JobInvCompress
<1>4. CASE UnlinkRaw    BY <1>4, JobInvUnlinkRaw
<1>5. CASE PgDump       BY <1>5, JobInvPgDump
<1>14. CASE PgDumpContents
  BY <1>14, JobInvPgDumpContents
<1>15. CASE CannotStart BY <1>15, JobInvCannotStart
<1>6. CASE PgDumpFails
  BY <1>6, JobInvEnd DEF PgDumpFails
<1>7. CASE Crash
  BY <1>7, JobInvEnd DEF Crash
<1>8. CASE VerifyPasses BY <1>8, JobInvVerifyPasses
<1>9. CASE VerifyFails
  BY <1>9, JobInvEnd DEF VerifyFails
<1>10. CASE PruneOne    BY <1>10, JobInvPruneOne
<1>11. CASE Pruned      BY <1>11, JobInvPruned
<1>12. CASE Heartbeat   BY <1>12, JobInvHeartbeat
<1>13. CASE KillJob
  BY <1>13, JobInvEnd DEF KillJob
<1> QED
  BY <1>1, <1>2, <1>3, <1>4, <1>5, <1>6, <1>7, <1>8, <1>9, <1>10, <1>11, <1>12, <1>13,
     <1>14, <1>15 DEF Job

\* A restore reaches into the job only to spoil the copy being taken.
LEMMA JobInvOperator == JobInv /\ Operator => JobInv'
<1> SUFFICES ASSUME JobInv, Operator PROVE JobInv'
    OBVIOUS
<1>1. UNCHANGED <<engine, files>> /\ TypeOK
  BY DEF JobInv, Operator, Write, StopOrStartApp, StartRestore, CopySafety, Overwrite,
         ArchiveGone, WritePart, WriteAll, KillRestore
<1>2. UNCHANGED job
      \/ (Overwrite /\ job' = [job EXCEPT !.mixed = @ \/ (engine = "sqlite" /\ job.at = "dumping")])
  BY DEF Operator, Write, StopOrStartApp, StartRestore, CopySafety, Overwrite,
         ArchiveGone, WritePart, WriteAll, KillRestore
<1>3. /\ job'.at = job.at /\ job'.no = job.no /\ job'.of = job.of /\ job'.said = job.said
      /\ (job.mixed => job'.mixed)
      /\ job' \in [at : Stages, no : Nat, of : Versions, mixed : BOOLEAN,
                   said : {"nothing", "alert", "heartbeat"}]
  BY <1>1, <1>2 DEF TypeOK
<1>4. restore' = NoRestore \/ restore' \in [at : {"copying", "opening", "writing"}, file : FileType]
  <2>1. CASE StartRestore
    BY <1>1, <2>1, FilesTyped DEF StartRestore, FirstStep
  <2>2. CASE CopySafety
    BY <1>1, <2>2 DEF CopySafety, TypeOK, NoRestore
  <2>3. CASE Overwrite
    BY <1>1, <2>3, FilesTyped DEF Overwrite
  <2>4. CASE Write \/ StopOrStartApp \/ ArchiveGone \/ WritePart \/ WriteAll \/ KillRestore
    BY <1>1, <2>4 DEF Write, StopOrStartApp, ArchiveGone, WritePart, WriteAll, KillRestore, TypeOK
  <2> QED
    BY <2>1, <2>2, <2>3, <2>4 DEF Operator
<1>5. live' \in Versions /\ newest' \in Nat
  <2>1. CASE Write
    BY <1>1, <2>1 DEF Write, TypeOK, Versions
  <2>2. CASE Overwrite
    <3>1. \E state \in States : live' = [live EXCEPT !.state = state]
      BY <2>2 DEF Overwrite, States
    <3>2. newest' = newest
      BY <2>2 DEF Overwrite
    <3> QED
      BY <1>1, <3>1, <3>2 DEF TypeOK, Versions
  <2>3. CASE WritePart
    BY <1>1, <2>3 DEF WritePart, TypeOK, Versions, States
  <2>4. CASE WriteAll
    <3>1. restore.file \in FileType
      BY <1>1, <2>4 DEF WriteAll, TypeOK, NoRestore
    <3>2. restore.file.data \in Nat /\ restore.file.content \in States
      BY <3>1 DEF FileType
    <3>3. /\ newest' = newest
          /\ \/ live' = [data |-> restore.file.data, state |-> restore.file.content]
             \/ live' = [data |-> restore.file.data, state |-> "partial"]
      BY <2>4 DEF WriteAll
    <3> QED
      BY <1>1, <3>2, <3>3 DEF TypeOK, Versions, States
  <2>5. CASE StopOrStartApp \/ StartRestore \/ CopySafety \/ ArchiveGone \/ KillRestore
    BY <1>1, <2>5 DEF StopOrStartApp, StartRestore, CopySafety, ArchiveGone, KillRestore, TypeOK
  <2> QED
    BY <2>1, <2>2, <2>3, <2>4, <2>5 DEF Operator
<1>6. TypeOK'
  BY <1>1, <1>3, <1>4, <1>5 DEF TypeOK
<1>7. StageOK' /\ HonestHeartbeat'
  BY <1>1, <1>3
     DEF JobInv, StageOK, DumpingOK, CompressingOK, ArchivedOK, VerifiedOK, Archived, OfJob,
         Verifies, Complete, HonestHeartbeat
<1> QED
  BY <1>1, <1>3, <1>6, <1>7, JobInvStill

LEMMA JobInvNext == JobInv /\ [Next]_vars => JobInv'
<1>1. JobInv /\ UNCHANGED vars => JobInv'
  BY DEF JobInv, TypeOK, Ordered, Numbered, StageOK, DumpingOK, CompressingOK, ArchivedOK,
         VerifiedOK, Archived, OfJob, Verifies, Complete, HonestHeartbeat, vars
<1> QED BY <1>1, JobInvJob, JobInvOperator DEF Next

\* A heartbeat vouches for the whole job: retention holds, and the newest file is
\* this job's, verifies, lacks nothing and is the database the job set out to copy,
\* but for the two things verify cannot see (backup.py, main and verify).
THEOREM HeartbeatsAreHonest == Spec => []HonestHeartbeat
<1>1. JobInv => HonestHeartbeat
  BY DEF JobInv
<1> QED BY <1>1, JobInvInit, JobInvNext, PTL DEF Spec

\* The archive of f's job is still there after the step.
Survives(f) == \E g \in ToSet(files') : g.no = f.no /\ g.kind = "archive"

NewerIn(f, fs) == \E g \in ToSet(fs) : Complete(g) /\ g.no > f.no

\* A step that keeps every file's place, job and kind loses no archive.
LEMMA NothingLost ==
  ASSUME JobInv, files' \in Seq(FileType), Len(files') >= Len(files),
         \A i \in 1..Len(files) : files'[i].no = files[i].no /\ files'[i].kind = files[i].kind,
         NEW f \in ToSet(files), f.kind = "archive"
  PROVE  Survives(f)
<1>1. PICK i \in 1..Len(files) : f = files[i]
  BY FilesTyped DEF JobInv
<1>2. i \in DOMAIN files'
  BY FilesTyped, LenProperties DEF JobInv
<1> QED
  BY <1>1, <1>2 DEF Survives, ToSet

LEMMA ArchiveOutlivesRaw ==
  ASSUME JobInv, UnlinkRaw, NEW f \in ToSet(files), f.kind = "archive"
  PROVE  Survives(f)
<1> DEFINE n == Len(files)
<1>1. /\ TypeOK /\ files \in Seq(FileType) /\ n \in Nat /\ n >= 2
      /\ files[n - 1].kind = "raw" /\ files' = RemoveAt(files, n - 1)
  BY FilesTyped DEF JobInv, StageOK, CompressingOK, UnlinkRaw, TypeOK
<1>2. /\ files' \in Seq(FileType) /\ Len(files') = n - 1
      /\ \A j \in 1..(n - 1) : files'[j] = files[IF j < n - 1 THEN j ELSE j + 1]
  BY <1>1, RemoveOne
<1>3. PICK i \in 1..n : f = files[i]
  BY <1>1, FilesTyped
<1>4. \E j \in 1..(n - 1) : files'[j] = f
  <2>1. i # n - 1
    BY <1>1, <1>3
  <2>2. CASE i = n
    BY <1>1, <1>2, <1>3, <2>2
  <2>3. CASE i # n
    <3>1. i \in 1..(n - 1) /\ i < n - 1
      BY <1>1, <2>1, <2>3
    <3> QED
      BY <1>1, <1>2, <1>3, <3>1
  <2> QED
    BY <2>2, <2>3
<1> QED
  BY <1>2, <1>4, LenProperties DEF Survives, ToSet

\* Retention removes the file NextSurplus names and no other; the newest, which
\* verifies, stays and is of a later job than any other archive.
LEMMA PrunedOnlyForNewer ==
  ASSUME JobInv, PruneOne, NEW f \in ToSet(files), f.kind = "archive"
  PROVE  Survives(f) \/ NewerIn(f, files')
<1> DEFINE n == Len(files)
           k == NextSurplus(files)
<1>1. /\ TypeOK /\ files \in Seq(FileType) /\ n \in Nat /\ Keep > 0 /\ Ordered(files)
      /\ Last(files) = files[n] /\ Complete(files[n])
      /\ \A i \in 1..n : files[i].no \in Nat
      /\ files' = RemoveAt(files, k)
  BY FilesTyped DEF JobInv, StageOK, ArchivedOK, VerifiedOK, PruneOne, TypeOK, Complete
<1>2. k = n - Keep /\ k \in 1..n
  BY <1>1, NewestSurplus, BackupsAssumption DEF PruneOne
<1> HIDE DEF k
<1>3. /\ files' \in Seq(FileType) /\ Len(files') = n - 1
      /\ \A j \in 1..(n - 1) : files'[j] = files[IF j < k THEN j ELSE j + 1]
  BY <1>1, <1>2, RemoveOne
<1>4. k < n /\ n - 1 \in 1..(n - 1) /\ files'[n - 1] = files[n]
  BY <1>1, <1>2, <1>3, BackupsAssumption
<1>5. PICK i \in 1..n : f = files[i]
  BY <1>1, FilesTyped
<1>6. CASE i = k
  <2>1. files[i].no < files[n].no
    <3>1. files[i].no <= files[n].no /\ files[i].no # files[n].no
      BY <1>1, <1>4, <1>5, <1>6 DEF Ordered
    <3> QED
      BY <1>1, <1>4, <1>5, <3>1
  <2>2. files[n] \in ToSet(files')
    BY <1>3, <1>4, LenProperties DEF ToSet
  <2>3. files[n].no > f.no
    BY <1>1, <1>4, <1>5, <2>1
  <2> QED
    BY <1>1, <2>2, <2>3 DEF NewerIn
<1>7. CASE i # k
  <2>1. \E j \in 1..(n - 1) : files'[j] = f
    <3>1. CASE i < k
      <4>1. i \in 1..(n - 1)
        BY <1>1, <1>2, <1>4, <3>1
      <4> QED
        BY <1>3, <1>5, <3>1, <4>1
    <3>2. CASE i > k
      <4>1. i - 1 \in 1..(n - 1) /\ ~(i - 1 < k) /\ i - 1 + 1 = i
        BY <1>1, <1>2, <3>2
      <4> QED
        BY <1>3, <1>5, <4>1
    <3> QED
      BY <1>1, <1>2, <1>7, <3>1, <3>2
  <2> QED
    BY <1>3, <2>1, LenProperties DEF Survives, ToSet
<1> QED
  BY <1>6, <1>7

\* Every other step leaves the files it finds in place.
LEMMA OthersKeepPlaces ==
  ASSUME JobInv, [Next]_vars, ~UnlinkRaw, ~PruneOne
  PROVE  /\ files' \in Seq(FileType) /\ Len(files') >= Len(files)
         /\ \A i \in 1..Len(files) :
              files'[i].no = files[i].no /\ files'[i].kind = files[i].kind
<1>1. /\ TypeOK /\ files \in Seq(FileType) /\ Len(files) \in Nat
      /\ Last(files) = files[Len(files)]
  BY FilesTyped DEF JobInv, TypeOK
<1>2. CASE UNCHANGED files
  BY <1>1, <1>2
<1>3. CASE Start
  <2> DEFINE f == File(IF engine = "sqlite" THEN "raw" ELSE "archive", job.no + 1, live)
  <2>1. f \in FileType
    BY <1>1 DEF TypeOK, File, FileType, Versions
  <2>2. files' = Append(files, f)
    BY <1>3 DEF Start
  <2> HIDE DEF f
  <2> QED
    BY <1>1, <2>1, <2>2, AppendProperties
<1>4. CASE Vacuum
  BY <1>1, <1>4, VacuumPlaces
<1>5. CASE Compress \/ PgDumpContents \/ PgDump
  <2>1. Len(files) > 0 /\ \E how \in Progress : files' = Written(files, how)
    BY <1>1, <1>5 DEF Compress, PgDumpContents, PgDump, JobInv, StageOK, Progress
  <2> QED
    BY <1>1, <2>1, NewestGrows
<1> QED
  BY <1>2, <1>3, <1>4, <1>5
     DEF Next, Job, Operator, Start, CannotStart, Vacuum, Compress, UnlinkRaw, PgDumpContents, PgDump,
         PgDumpFails, Crash, VerifyPasses, VerifyFails, PruneOne, Pruned, Heartbeat, KillJob, Write, StopOrStartApp,
         StartRestore, CopySafety, Overwrite, ArchiveGone, WritePart, WriteAll, KillRestore, vars

\* Retention deletes an archive only while a newer one that verifies is in the
\* directory, whatever broken files killed jobs left in it (prune).
THEOREM PruningLeavesNewer == Spec => PrunedForNewer
<1>1. ASSUME JobInv, [Next]_vars, NEW f \in ToSet(files), f.kind = "archive",
             \A g \in ToSet(files') : g.no # f.no \/ g.kind = "raw"
      PROVE  \E g \in ToSet(files') : Complete(g) /\ g.no > f.no
  <2>1. ~Survives(f)
    BY <1>1 DEF Survives
  <2>2. CASE UnlinkRaw
    BY <1>1, <2>1, <2>2, ArchiveOutlivesRaw
  <2>3. CASE PruneOne
    BY <1>1, <2>1, <2>3, PrunedOnlyForNewer DEF NewerIn
  <2>4. CASE ~UnlinkRaw /\ ~PruneOne
    BY <1>1, <2>1, <2>4, OthersKeepPlaces, NothingLost
  <2> QED
    BY <2>2, <2>3, <2>4
<1>2. JobInv /\ [Next]_vars =>
        [\A f \in ToSet(files) :
           f.kind = "archive" /\ (\A g \in ToSet(files') : g.no # f.no \/ g.kind = "raw") =>
             \E g \in ToSet(files') : Complete(g) /\ g.no > f.no]_vars
  BY <1>1
<1> QED BY <1>2, JobInvInit, JobInvNext, PTL DEF Spec, PrunedForNewer
=============================================================================
