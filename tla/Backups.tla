------------------------------ MODULE Backups ------------------------------
(* The nightly backup job (scripts/backup.py), the restore an operator runs *)
(* during an incident (scripts/restore.py) and the two channels the job     *)
(* reports on (app/services/alerting.py).                                   *)
(*                                                                          *)
(* The job's directory is a sequence of files, oldest first: what a job     *)
(* that was killed or failed left behind stays in it, and retention counts  *)
(* it.  A version of the database is a number; the program can be killed    *)
(* between any two steps of either script.                                  *)
EXTENDS Integers, Sequences, FiniteSets, SequencesExt

CONSTANTS Keep,        \* --keep: how many files retention leaves, 0 for all
          Engines,     \* the engines a deployment may use: "sqlite", "postgres"
          MaxJobs,     \* bound: backup jobs started
          MaxVersion   \* bound: versions the app writes

ASSUME BackupsAssumption ==
  /\ Keep \in Nat
  /\ Engines \subseteq {"sqlite", "postgres"}
  /\ MaxJobs \in Nat
  /\ MaxVersion \in Nat \ {0}

VARIABLES
  engine,    \* of DATABASE_URL
  live,      \* the configured database: its version, and how much of it there is
  appUp,     \* whether the app is serving (the runbook stops it before a restore)
  newest,    \* the last version written
  files,     \* the backup directory, oldest first by mtime
  safety,    \* the versions a complete safety copy of a restore holds
  replaced,  \* the whole versions some restore has overwritten
  job,       \* the backup job
  restore    \* the restore with --force

vars == <<engine, live, appUp, newest, files, safety, replaced, job, restore>>

States == {"whole", "partial", "empty"}
NoRestore == [at |-> "idle"]

-----------------------------------------------------------------------------
(* Files *)

File(kind, no, of) ==
  [kind |-> kind, no |-> no, data |-> of.data, content |-> of.state,
   written |-> "begun"]

VerifiesAnySize(f) == f.kind = "archive" /\ f.written # "begun"

\* A gzip cut short, a dump without its table of contents, an archive of nothing,
\* and a format verify does not know (the uncompressed copy a killed SQLite job
\* leaves) all fail.  A dump cut after its table of contents passes: its rows are
\* not read.
Verifies(f) == f.kind = "archive" /\ f.written # "begun" /\ f.content # "empty"

\* What is meant by a usable archive: it verifies, and nothing of it is missing.
Complete(f) == Verifies(f) /\ f.written = "closed"

SameFile(f, g) == f.kind = g.kind /\ f.no = g.no

SurplusUnreversed(fs) == (Keep + 1)..Len(fs)

\* Newest first, everything after the first Keep is surplus.
Surplus(fs) == 1..(Len(fs) - Keep)

NextSurplus(fs) == CHOOSE i \in Surplus(fs) : \A j \in Surplus(fs) : j <= i

\* The newest file is written as far as its table of contents, or to its end.
Written(fs, upTo) == [fs EXCEPT ![Len(fs)].written = upTo]

-----------------------------------------------------------------------------
(* The backup job *)

\* The job ends, having reported on a channel or on none.
End(said) == job' = [job EXCEPT !.at = "idle", !.said = said]

Goto(at) == job' = [job EXCEPT !.at = at]

\* VACUUM INTO and pg_dump both read one consistent state of the database, the
\* one they start from; the file exists from the first byte.
Start ==
  /\ job.at = "idle" /\ job.no < MaxJobs
  /\ job' = [at |-> "dumping", no |-> job.no + 1, of |-> live, mixed |-> FALSE,
             said |-> "nothing"]
  /\ files' = Append(files,
       File(IF engine = "sqlite" THEN "raw" ELSE "archive", job.no + 1, live))
  /\ UNCHANGED <<engine, live, appUp, newest, safety, replaced, restore>>

\* No database at the path, no pg_dump to run, no directory to write to: the first
\* leaves by SystemExit, the others alert, and no file exists yet.
CannotStart ==
  /\ job.at = "idle" /\ job.no < MaxJobs
  /\ \E said \in {"alert"} \cup (IF engine = "sqlite" THEN {"nothing"} ELSE {}) :
       job' = [at |-> "idle", no |-> job.no + 1, of |-> live, mixed |-> FALSE, said |-> said]
  /\ UNCHANGED <<engine, live, appUp, newest, files, safety, replaced, restore>>

\* VACUUM INTO refuses a malformed database but copies an empty one; a file
\* overwritten underneath it may come out as a mixture of two versions.
Vacuum ==
  /\ engine = "sqlite" /\ job.at = "dumping" /\ job.of.state # "partial"
  /\ files' = LET out == IF job.mixed THEN [files EXCEPT ![Len(files)].content = "partial"]
                         ELSE files
              IN  Append(Written(out, "closed"), [Last(out) EXCEPT !.kind = "archive"])
  /\ Goto("compressing")
  /\ UNCHANGED <<engine, live, appUp, newest, safety, replaced, restore>>

Compress ==
  /\ job.at = "compressing"
  /\ files' = Written(files, "closed")
  /\ Goto("unlinking")
  /\ UNCHANGED <<engine, live, appUp, newest, safety, replaced, restore>>

UnlinkRaw ==
  /\ job.at = "unlinking"
  /\ files' = RemoveAt(files, Len(files) - 1)
  /\ Goto("verifying")
  /\ UNCHANGED <<engine, live, appUp, newest, safety, replaced, restore>>

\* pg_dump writes its table of contents first, then the rows.
PgDumpContents ==
  /\ engine = "postgres" /\ job.at = "dumping" /\ Last(files).written = "begun"
  /\ files' = Written(files, "listed")
  /\ UNCHANGED <<engine, live, appUp, newest, safety, replaced, job, restore>>

\* A database half restored dumps without complaint.
PgDump ==
  /\ engine = "postgres" /\ job.at = "dumping" /\ Last(files).written = "listed"
  /\ files' = Written(files, "closed")
  /\ Goto("verifying")
  /\ UNCHANGED <<engine, live, appUp, newest, safety, replaced, restore>>

\* A pg_dump that fails leaves by SystemExit, which reports nowhere, and what it
\* wrote stays.
PgDumpFails ==
  /\ engine = "postgres" /\ job.at = "dumping"
  /\ End("nothing")
  /\ UNCHANGED <<engine, live, appUp, newest, files, safety, replaced, restore>>

\* Any other exception (a malformed source, a full disk, a file that cannot be
\* removed) alerts "crashed"; what was written stays.
Crash ==
  /\ \/ engine = "sqlite" /\ job.at = "dumping"
     \/ job.at \in {"compressing", "unlinking", "pruning"}
  /\ End("alert")
  /\ UNCHANGED <<engine, live, appUp, newest, files, safety, replaced, restore>>

VerifyPasses ==
  /\ job.at = "verifying" /\ Verifies(Last(files))
  /\ Goto(IF Keep = 0 THEN "reporting" ELSE "pruning")
  /\ UNCHANGED <<engine, live, appUp, newest, files, safety, replaced, restore>>

\* The bad file is left in place for inspection.
VerifyFails ==
  /\ job.at = "verifying" /\ ~Verifies(Last(files))
  /\ End("alert")
  /\ UNCHANGED <<engine, live, appUp, newest, files, safety, replaced, restore>>

PruneOne ==
  /\ job.at = "pruning" /\ Surplus(files) # {}
  /\ files' = RemoveAt(files, NextSurplus(files))
  /\ UNCHANGED <<engine, live, appUp, newest, safety, replaced, job, restore>>

Pruned ==
  /\ job.at = "pruning" /\ Surplus(files) = {}
  /\ Goto("reporting")
  /\ UNCHANGED <<engine, live, appUp, newest, files, safety, replaced, restore>>

\* A ping that is not configured or does not land is not an error.
Heartbeat ==
  /\ job.at = "reporting"
  /\ \E said \in {"heartbeat", "nothing"} : End(said)
  /\ UNCHANGED <<engine, live, appUp, newest, files, safety, replaced, restore>>

KillJob ==
  /\ job.at # "idle"
  /\ End("nothing")
  /\ UNCHANGED <<engine, live, appUp, newest, files, safety, replaced, restore>>

-----------------------------------------------------------------------------
(* The app, and the operator who stops it for a restore *)

Write ==
  /\ appUp /\ live.state = "whole" /\ newest < MaxVersion
  /\ newest' = newest + 1
  /\ live' = [live EXCEPT !.data = newest + 1]
  /\ UNCHANGED <<engine, appUp, files, safety, replaced, job, restore>>

StopOrStartApp ==
  /\ restore.at = "idle"
  /\ appUp' = ~appUp
  /\ UNCHANGED <<engine, live, newest, files, safety, replaced, job, restore>>

-----------------------------------------------------------------------------
(* restore FILE --force *)

FirstStepUncopied == "opening"

FirstStep == IF engine = "sqlite" THEN "copying" ELSE "opening"

\* The archive is verified first; only SQLite takes a safety copy.
StartRestore ==
  /\ restore.at = "idle" /\ ~appUp
  /\ \E f \in ToSet(files) :
       /\ Verifies(f)
       /\ restore' = [at |-> FirstStep, file |-> f]
  /\ UNCHANGED <<engine, live, appUp, newest, files, safety, replaced, job>>

CopySafety ==
  /\ restore.at = "copying"
  /\ safety' = safety \cup (IF live.state = "whole" THEN {live.data} ELSE {})
  /\ restore' = [restore EXCEPT !.at = "opening"]
  /\ UNCHANGED <<engine, live, appUp, newest, files, replaced, job>>

\* The archive is opened before the database is truncated (SQLite) or its tables
\* dropped (pg_restore --clean, outside a transaction).
Overwrite ==
  /\ restore.at = "opening"
  /\ \E f \in ToSet(files) :
       /\ SameFile(f, restore.file)
       /\ restore' = [at |-> "writing", file |-> f]
  /\ live' = [live EXCEPT !.state = IF engine = "sqlite" THEN "empty" ELSE "partial"]
  /\ replaced' = replaced \cup (IF live.state = "whole" THEN {live.data} ELSE {})
  /\ job' = [job EXCEPT !.mixed = @ \/ (engine = "sqlite" /\ job.at = "dumping")]
  /\ UNCHANGED <<engine, appUp, newest, files, safety>>

\* A job retention removed the archive meanwhile: nothing has been touched yet.
ArchiveGone ==
  /\ restore.at = "opening" /\ \A f \in ToSet(files) : ~SameFile(f, restore.file)
  /\ restore' = NoRestore
  /\ UNCHANGED <<engine, live, appUp, newest, files, safety, replaced, job>>

WritePart ==
  /\ restore.at = "writing" /\ live.state = "empty"
  /\ live' = [live EXCEPT !.state = "partial"]
  /\ UNCHANGED <<engine, appUp, newest, files, safety, replaced, job, restore>>

\* A dump that ends after its table of contents gives back a part of the rows.
WriteAll ==
  /\ restore.at = "writing"
  /\ LET f == restore.file
     IN  live' = [data |-> f.data,
                  state |-> IF f.written = "closed" THEN f.content ELSE "partial"]
  /\ restore' = NoRestore
  /\ UNCHANGED <<engine, appUp, newest, files, safety, replaced, job>>

\* Killed, or failed: pg_restore's own errors are only printed, and the script
\* goes on to say "restored".
KillRestore ==
  /\ restore.at # "idle"
  /\ restore' = NoRestore
  /\ UNCHANGED <<engine, live, appUp, newest, files, safety, replaced, job>>

-----------------------------------------------------------------------------
Init ==
  /\ engine \in Engines
  /\ live = [data |-> 1, state |-> "whole"]
  /\ newest = 1
  /\ appUp = TRUE
  /\ files = <<>> /\ safety = {} /\ replaced = {}
  /\ job = [at |-> "idle", no |-> 0, of |-> live, mixed |-> FALSE, said |-> "nothing"]
  /\ restore = NoRestore

Job == \/ Start \/ CannotStart \/ Vacuum \/ Compress \/ UnlinkRaw
       \/ PgDumpContents \/ PgDump \/ PgDumpFails \/ Crash
       \/ VerifyPasses \/ VerifyFails \/ PruneOne \/ Pruned \/ Heartbeat \/ KillJob

Operator == \/ Write \/ StopOrStartApp \/ StartRestore \/ CopySafety \/ Overwrite
            \/ ArchiveGone \/ WritePart \/ WriteAll \/ KillRestore

Next == Job \/ Operator

Spec == Init /\ [][Next]_vars

-----------------------------------------------------------------------------
(* Properties *)

\* A heartbeat means the whole job worked (backup.py's main): the directory is
\* within its retention, its newest file is this job's, verifies, lacks nothing and
\* is the database as it was when the job began.  Two things escape verify, which looks
\* at the file and not at its rows: a Postgres database already half restored,
\* and a SQLite file a restore overwrote while it was being read.
HonestHeartbeat ==
  job.said = "heartbeat" =>
    LET f == Last(files)
    IN  /\ f.no = job.no /\ Complete(f)
        /\ Keep > 0 => Len(files) <= Keep
        /\ \/ f.content = "whole" /\ f.data = job.of.data
           \/ engine = "postgres" /\ job.of.state # "whole"
           \/ engine = "sqlite" /\ job.mixed

\* Retention deletes an archive only for a newer usable one, however many broken
\* files earlier jobs left, those among them that would verify: the directory
\* never goes from having a backup to having none (prune,
\* test_prune_keeps_the_newest).
PrunedForNewer ==
  [][\A f \in ToSet(files) :
       f.kind = "archive" /\ (\A g \in ToSet(files') : g.no # f.no \/ g.kind = "raw") =>
         \E g \in ToSet(files') : Complete(g) /\ g.no > f.no]_vars

\* On SQLite whatever a forced restore replaces is in a safety copy, though the
\* restore be killed half way and another one started over what it left
\* (restore.py: "takes a safety copy of what it replaces first").
ReplacedIsKept == engine = "sqlite" => replaced \subseteq safety
=============================================================================
