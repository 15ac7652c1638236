----------------------------- MODULE VisionQueue -----------------------------
(***************************************************************************)
(* VisionService (services/vision.py): image files and their rows, the     *)
(* queue of analyses, shutdown, crash and recovery at startup.             *)
(*                                                                         *)
(* A file is named by the digest of its content, so files are a set of     *)
(* images; a partly written file is like a whole one without a row: it     *)
(* blocks the exclusive creation and nobody reads it.  Asset ids and       *)
(* analysis ids are the numbers of the requests that would create them.    *)
(* Requests are not cancelled; they end before shutdown begins and die in  *)
(* a crash.  Image decoding appears as a request that is refused.  A file  *)
(* operation or a transaction may fail in create_asset and delete_asset,   *)
(* where it can leave a file behind; analyses meet a database that works.  *)
(***************************************************************************)
EXTENDS Naturals, Sequences, FiniteSets

CONSTANTS Images,        \* contents of image files
          NumUploaders,  \* how many uploads and scans may overlap,
          NumDeleters,   \* how many deletions,
          NumSubmitters, \* how many submissions
          MaxQueue,      \* vision_max_queue
          MaxScan,       \* vision_max_scan_files
          MaxFiles,      \* bound: image files sent or scanned
          MaxAnalyses,   \* bound: submissions
          MaxStops,      \* bound: orderly shutdowns
          MaxCrashes,    \* bound: crashes
          None

ASSUME VisionAssumption ==
    /\ None \notin Images
    /\ {MaxQueue, MaxScan, MaxFiles, MaxAnalyses} \subseteq Nat \ {0}
    /\ {MaxStops, MaxCrashes} \subseteq Nat
    /\ {NumUploaders, NumDeleters, NumSubmitters} \subseteq Nat \ {0}

Assets == 1 .. MaxFiles
Analyses == 1 .. MaxAnalyses
Uploaders == 1 .. NumUploaders
Deleters == 1 .. NumDeleters
Submitters == 1 .. NumSubmitters

\* Requests of a kind are alike: a new one is the first that is free.
FirstIdle(pc, r) == pc[r] = "idle" /\ \A q \in 1 .. r - 1 : pc[q] # "idle"

VARIABLES
    \* disk and database
    files,      \* images with a file under vision_storage_root
    assets,     \* ids of the vision_assets rows
    content,    \* image of each asset that is or was stored, or is being stored
    row,        \* "none" | "queued" | "running" | "completed" | "failed" | "gone"
    subject,    \* asset of each analysis
    \* requests
    upc,        \* "idle" | "next" | "writing" | "written"
    cur, last,  \* file an uploader is at, and its last one
    dpc,        \* "idle" | "found" | "dropped" | "late"
    victim,     \* asset a deleter has found
    spc,        \* "idle" | "checked" | "inserted"
    job,        \* analysis of a submitter
    sent, submitted,   \* files and analyses requested so far
    \* tasks
    tpc,        \* control point of _execute_analysis
    line,       \* tasks that wait for the semaphore, in order
    \* lifespan
    phase,      \* "up" | "draining" | "marking" | "closing" | "down"
    todo,       \* analyses shutdown still has to mark as failed
    mark,       \* the one it has read as active
    stops, crashes,
    robbed,     \* history: images whose file went after another deletion
    spoiled     \* history: images whose file a failure or a crash left behind

disk == <<files, assets, content>>
analyses == <<row, subject>>
uploads == <<upc, cur, last, sent>>
deletes == <<dpc, victim>>
submits == <<spc, job, submitted>>
tasks == <<tpc, line>>
lifespan == <<phase, todo, mark, stops, crashes>>
history == <<robbed, spoiled>>
vars == <<disk, analyses, uploads, deletes, submits, tasks, lifespan, history>>

TypeOK ==
    /\ files \subseteq Images /\ assets \subseteq Assets
    /\ content \in [Assets -> Images \cup {None}]
    /\ row \in [Analyses -> {"none", "queued", "running", "completed", "failed", "gone"}]
    /\ subject \in [Analyses -> Assets \cup {0}]
    /\ upc \in [Uploaders -> {"idle", "next", "writing", "written"}]
    /\ cur \in [Uploaders -> Assets \cup {0}] /\ last \in [Uploaders -> Assets \cup {0}]
    /\ dpc \in [Deleters -> {"idle", "found", "dropped", "late"}] /\ victim \in [Deleters -> Assets \cup {0}]
    /\ spc \in [Submitters -> {"idle", "checked", "inserted"}] /\ job \in [Submitters -> Analyses \cup {0}]
    /\ sent \in 0 .. MaxFiles /\ submitted \in 0 .. MaxAnalyses
    /\ tpc \in [Analyses -> {"none", "waiting", "started", "provider", "answered", "written",
                             "failing", "failed", "stopping", "unwinding", "unwound"}]
    /\ line \in Seq(Analyses)
    /\ phase \in {"up", "draining", "marking", "closing", "down"}
    /\ todo \subseteq Analyses /\ mark \in Analyses \cup {0}
    /\ stops \in 0 .. MaxStops /\ crashes \in 0 .. MaxCrashes
    /\ robbed \subseteq Images /\ spoiled \subseteq Images

Init ==
    /\ files = {} /\ assets = {} /\ content = [x \in Assets |-> None]
    /\ row = [a \in Analyses |-> "none"] /\ subject = [a \in Analyses |-> 0]
    /\ upc = [u \in Uploaders |-> "idle"]
    /\ cur = [u \in Uploaders |-> 0] /\ last = [u \in Uploaders |-> 0]
    /\ dpc = [d \in Deleters |-> "idle"] /\ victim = [d \in Deleters |-> 0]
    /\ spc = [s \in Submitters |-> "idle"] /\ job = [s \in Submitters |-> 0]
    /\ sent = 0 /\ submitted = 0
    /\ tpc = [a \in Analyses |-> "none"] /\ line = <<>>
    /\ phase = "up" /\ todo = {} /\ mark = 0
    /\ stops = 0 /\ crashes = 0 /\ robbed = {} /\ spoiled = {}

-----------------------------------------------------------------------------
(* create_asset, for one upload or for each file of a folder.              *)

\* An upload request: one file.
Upload(u) ==
    /\ phase = "up" /\ FirstIdle(upc, u) /\ sent < MaxFiles
    /\ upc' = [upc EXCEPT ![u] = "next"]
    /\ sent' = sent + 1
    /\ cur' = [cur EXCEPT ![u] = sent + 1] /\ last' = [last EXCEPT ![u] = sent + 1]
    /\ UNCHANGED <<disk, analyses, deletes, submits, tasks, lifespan, history>>

\* scan_folder: several files, never more than the limit.
Scan(u) ==
    /\ phase = "up" /\ FirstIdle(upc, u)
    /\ \E n \in 2 .. MaxScan :
         /\ sent + n <= MaxFiles
         /\ sent' = sent + n
         /\ last' = [last EXCEPT ![u] = sent + n]
    /\ upc' = [upc EXCEPT ![u] = "next"]
    /\ cur' = [cur EXCEPT ![u] = sent + 1]
    /\ UNCHANGED <<disk, analyses, deletes, submits, tasks, lifespan, history>>

EndRequest(u) ==
    /\ upc' = [upc EXCEPT ![u] = "idle"]
    /\ cur' = [cur EXCEPT ![u] = 0] /\ last' = [last EXCEPT ![u] = 0]

\* create_asset has returned or raised for this file: an upload answers, a
\* scan counts the file and goes on.
NextFile(u) ==
    IF cur[u] < last[u]
    THEN /\ upc' = [upc EXCEPT ![u] = "next"]
         /\ cur' = [cur EXCEPT ![u] = @ + 1] /\ UNCHANGED last
    ELSE EndRequest(u)

\* The file is too large, unreadable, or no image of an allowed format; or the
\* lookup fails, which ends a scan too.
RefuseFile(u) ==
    /\ upc[u] = "next"
    /\ NextFile(u) \/ EndRequest(u)
    /\ UNCHANGED <<disk, analyses, sent, deletes, submits, tasks, lifespan, history>>

Stored(i) == \E x \in assets : content[x] = i

\* The digest is looked up; an asset with this content is the answer.
LookUpDigest(u) ==
    /\ upc[u] = "next"
    /\ \E i \in Images :
         \/ /\ Stored(i)
            /\ NextFile(u)
            /\ UNCHANGED content
         \/ /\ ~Stored(i)
            /\ upc' = [upc EXCEPT ![u] = "writing"]
            /\ content' = [content EXCEPT ![cur[u]] = i]
            /\ UNCHANGED <<cur, last>>
    /\ UNCHANGED <<files, assets, sent, analyses, deletes, submits, tasks, lifespan, history>>

\* Mutant: the file is opened without O_EXCL.
WriteOver(u) ==
    /\ upc[u] = "writing"
    /\ files' = files \cup {content[cur[u]]}
    /\ upc' = [upc EXCEPT ![u] = "written"]
    /\ UNCHANGED <<assets, content, cur, last, sent, analyses, deletes, submits, tasks, lifespan, history>>

\* _write_private creates the file or raises FileExistsError.
WritePrivate(u) ==
    /\ upc[u] = "writing"
    /\ \/ /\ content[cur[u]] \notin files
          /\ files' = files \cup {content[cur[u]]}
          /\ upc' = [upc EXCEPT ![u] = "written"]
          /\ UNCHANGED <<content, cur, last>>
       \/ /\ content[cur[u]] \in files
          /\ content' = [content EXCEPT ![cur[u]] = None]
          /\ NextFile(u)
          /\ UNCHANGED files
    /\ UNCHANGED <<assets, sent, analyses, deletes, submits, tasks, lifespan, history>>

\* _write_private raises another OSError, which the scan counts: before the file
\* exists, or after, and then the file stays.
WriteFails(u) ==
    /\ upc[u] = "writing"
    /\ \/ UNCHANGED <<files, spoiled>>
       \/ /\ content[cur[u]] \notin files
          /\ files' = files \cup {content[cur[u]]}
          /\ spoiled' = spoiled \cup {content[cur[u]]}
    /\ content' = [content EXCEPT ![cur[u]] = None]
    /\ NextFile(u)
    /\ UNCHANGED <<assets, sent, analyses, deletes, submits, tasks, lifespan, robbed>>

\* The row is inserted and committed; sha256 is unique, and a violation of
\* that is caught neither by the upload nor by the scan.
InsertAsset(u) ==
    /\ upc[u] = "written"
    /\ IF Stored(content[cur[u]])
       THEN EndRequest(u) /\ UNCHANGED assets
       ELSE NextFile(u) /\ assets' = assets \cup {cur[u]}
    /\ UNCHANGED <<files, content, sent, analyses, deletes, submits, tasks, lifespan, history>>

\* The INSERT or its commit fails: the file stays, unless another deletion has
\* taken it.
InsertFails(u) ==
    /\ upc[u] = "written"
    /\ EndRequest(u)
    /\ spoiled' = spoiled \cup ({content[cur[u]]} \cap files)
    /\ UNCHANGED <<disk, sent, analyses, deletes, submits, tasks, lifespan, robbed>>

-----------------------------------------------------------------------------
(* delete_asset.                                                           *)

\* get_asset finds the row.
FindAsset(d) ==
    /\ phase = "up" /\ FirstIdle(dpc, d)
    /\ \E x \in assets : victim' = [victim EXCEPT ![d] = x]
    /\ dpc' = [dpc EXCEPT ![d] = "found"]
    /\ UNCHANGED <<disk, analyses, uploads, submits, tasks, lifespan, history>>

\* The row goes, if it is still there, and its analyses go with it.
DeleteRow(d) ==
    /\ dpc[d] = "found"
    /\ assets' = assets \ {victim[d]}
    /\ row' = [a \in Analyses |-> IF subject[a] = victim[d] /\ row[a] # "none" THEN "gone" ELSE row[a]]
    /\ dpc' = [dpc EXCEPT ![d] = IF victim[d] \in assets THEN "dropped" ELSE "late"]
    /\ UNCHANGED <<files, content, subject, uploads, victim, submits, tasks, lifespan, history>>

EndDeletion(d) == dpc' = [dpc EXCEPT ![d] = "idle"] /\ victim' = [victim EXCEPT ![d] = 0]

\* The DELETE or its commit fails.
DeleteFails(d) ==
    /\ dpc[d] = "found"
    /\ EndDeletion(d)
    /\ UNCHANGED <<disk, analyses, uploads, submits, tasks, lifespan, history>>

\* Mutant: the file is left behind.
ForgetFile(d) ==
    /\ dpc[d] \in {"dropped", "late"}
    /\ EndDeletion(d)
    /\ UNCHANGED <<disk, analyses, uploads, submits, tasks, lifespan, history>>

\* The file goes, whoever removed the row.
Unlink(d) ==
    /\ dpc[d] \in {"dropped", "late"}
    /\ files' = files \ {content[victim[d]]}
    /\ robbed' = IF dpc[d] = "late" THEN robbed \cup {content[victim[d]]} ELSE robbed
    /\ spoiled' = spoiled \ {content[victim[d]]}
    /\ EndDeletion(d)
    /\ UNCHANGED <<assets, content, analyses, uploads, submits, tasks, lifespan>>

\* The unlink fails with an OSError: the file stays.
UnlinkFails(d) ==
    /\ dpc[d] \in {"dropped", "late"}
    /\ content[victim[d]] \in files
    /\ spoiled' = spoiled \cup {content[victim[d]]}
    /\ EndDeletion(d)
    /\ UNCHANGED <<disk, analyses, uploads, submits, tasks, lifespan, robbed>>

-----------------------------------------------------------------------------
(* submit_analysis.                                                        *)

Tasks == {a \in Analyses : tpc[a] # "none"}

\* Mutant: the limit is compared with >.
HasRoomForOneMore == Cardinality(Tasks) <= MaxQueue

\* The limit looks at the tasks that exist already.
HasRoom == Cardinality(Tasks) < MaxQueue

\* get_asset, the model check and the limit; a refused request has no effect.
CheckSubmission(s) ==
    /\ phase = "up" /\ FirstIdle(spc, s) /\ submitted < MaxAnalyses
    /\ HasRoom
    /\ submitted' = submitted + 1
    /\ job' = [job EXCEPT ![s] = submitted + 1]
    /\ \E x \in assets : subject' = [subject EXCEPT ![submitted + 1] = x]
    /\ spc' = [spc EXCEPT ![s] = "checked"]
    /\ UNCHANGED <<disk, row, uploads, deletes, tasks, lifespan, history>>

\* The row is inserted as queued; the foreign key refuses it when the asset
\* has been deleted meanwhile.
InsertAnalysis(s) ==
    /\ spc[s] = "checked"
    /\ \/ /\ subject[job[s]] \in assets
          /\ row' = [row EXCEPT ![job[s]] = "queued"]
          /\ spc' = [spc EXCEPT ![s] = "inserted"]
          /\ UNCHANGED <<job, subject>>
       \/ /\ subject[job[s]] \notin assets
          /\ spc' = [spc EXCEPT ![s] = "idle"] /\ job' = [job EXCEPT ![s] = 0]
          /\ subject' = [subject EXCEPT ![job[s]] = 0]
          /\ UNCHANGED row
    /\ UNCHANGED <<disk, submitted, uploads, deletes, tasks, lifespan, history>>

\* The task is created and registered, and asks for the semaphore.
CreateTask(s) ==
    /\ spc[s] = "inserted"
    /\ tpc' = [tpc EXCEPT ![job[s]] = "waiting"]
    /\ line' = Append(line, job[s])
    /\ spc' = [spc EXCEPT ![s] = "idle"] /\ job' = [job EXCEPT ![s] = 0]
    /\ UNCHANGED <<disk, analyses, submitted, uploads, deletes, lifespan, history>>

-----------------------------------------------------------------------------
(* _execute_analysis.                                                      *)

requests == <<uploads, deletes, submits>>

Goto(a, pc) == tpc' = [tpc EXCEPT ![a] = pc]

\* The semaphore is free; the row is marked as running whatever its status.
\* A row that was deleted ends the task, as an early return or as an error.
Begin(a) ==
    /\ line # <<>> /\ Head(line) = a /\ tpc[a] = "waiting"
    /\ \A b \in Analyses : tpc[b] \in {"none", "waiting"}
    /\ line' = Tail(line)
    /\ \/ /\ row[a] = "gone"
          /\ Goto(a, "none")
          /\ UNCHANGED row
       \/ /\ row[a] # "gone"
          /\ row' = [row EXCEPT ![a] = "running"]
          /\ Goto(a, "started")
    /\ UNCHANGED <<disk, subject, requests, lifespan, history>>

\* The file is read; it may be gone.
ReadFile(a) ==
    /\ tpc[a] = "started"
    /\ Goto(a, IF content[subject[a]] \in files THEN "provider" ELSE "failing")
    /\ UNCHANGED <<disk, analyses, requests, line, lifespan, history>>

\* The provider answers, and the task returns unless the row is still running.
Answer(a) ==
    /\ tpc[a] = "provider"
    /\ Goto(a, IF row[a] = "running" THEN "answered" ELSE "none")
    /\ UNCHANGED <<disk, analyses, requests, line, lifespan, history>>

ProviderFails(a) ==
    /\ tpc[a] = "provider"
    /\ Goto(a, "failing")
    /\ UNCHANGED <<disk, analyses, requests, line, lifespan, history>>

\* The answer is stored; an update of a deleted row is an error.
Complete(a) ==
    /\ tpc[a] = "answered"
    /\ \/ /\ row[a] = "gone"
          /\ Goto(a, "failing")
          /\ UNCHANGED row
       \/ /\ row[a] # "gone"
          /\ row' = [row EXCEPT ![a] = "completed"]
          /\ Goto(a, "written")
    /\ UNCHANGED <<disk, subject, requests, line, lifespan, history>>

Return(a) ==
    /\ tpc[a] = "written"
    /\ Goto(a, "none")
    /\ UNCHANGED <<disk, analyses, requests, line, lifespan, history>>

\* Mutant: a row that has ended is marked as failed again.
MarkableAgain(a) == row[a] \notin {"none", "gone"}

\* Mutant: only queued rows can fail.
MarkableQueued(a) == row[a] = "queued"

\* What _mark_failed will overwrite.
Markable(a) == row[a] \in {"queued", "running"}

\* _mark_failed reads the row, in the task, after an error ("failing") or a
\* cancellation ("unwinding") ...
TaskReadsRow(a) ==
    /\ tpc[a] \in {"failing", "unwinding"}
    /\ Goto(a, CASE ~Markable(a) -> "none"
                 [] tpc[a] = "failing" -> "failed"
                 [] OTHER -> "unwound")
    /\ UNCHANGED <<disk, analyses, requests, line, lifespan, history>>

\* The write of _mark_failed; a row deleted since the read is an error.
WriteFailed(a) == row' = [row EXCEPT ![a] = IF @ = "gone" THEN @ ELSE "failed"]

\* ... and writes it.
TaskMarksFailed(a) ==
    /\ tpc[a] \in {"failed", "unwound"}
    /\ WriteFailed(a)
    /\ Goto(a, "none")
    /\ UNCHANGED <<disk, subject, requests, line, lifespan, history>>

\* A cancelled provider call has cleaned up.
ProviderStopped(a) ==
    /\ tpc[a] = "stopping"
    /\ Goto(a, "unwinding")
    /\ UNCHANGED <<disk, analyses, requests, line, lifespan, history>>

-----------------------------------------------------------------------------
(* Shutdown, crash and startup.                                            *)

\* Where a cancellation takes a task: only the try block handles it.
Cancelled(pc) ==
    CASE pc = "provider" -> "stopping"
      [] pc \in {"answered", "written"} -> "unwinding"
      [] OTHER -> "none"

\* shutdown cancels every task it knows; the server has drained its requests.
ShutdownBegin ==
    /\ phase = "up" /\ stops < MaxStops
    /\ \A u \in Uploaders : upc[u] = "idle"
    /\ \A d \in Deleters : dpc[d] = "idle"
    /\ \A s \in Submitters : spc[s] = "idle"
    /\ phase' = "draining" /\ stops' = stops + 1
    /\ todo' = Tasks
    /\ tpc' = [a \in Analyses |-> Cancelled(tpc[a])]
    /\ line' = <<>>
    /\ UNCHANGED <<disk, analyses, requests, mark, crashes, history>>

\* Mutant: only tasks that are still running are marked.
MarkStillRunning ==
    /\ phase = "draining"
    /\ \A a \in Analyses : tpc[a] \in {"none", "stopping"}
    /\ phase' = "marking"
    /\ todo' = todo \cap Tasks
    /\ UNCHANGED <<disk, analyses, requests, tasks, mark, stops, crashes, history>>

\* wait returns when the tasks have ended, or at its timeout, which only the
\* clean-up of a provider call outlasts.  All of todo is cancelled or running.
ShutdownWaited ==
    /\ phase = "draining"
    /\ \A a \in Analyses : tpc[a] \in {"none", "stopping"}
    /\ phase' = "marking"
    /\ UNCHANGED <<disk, analyses, requests, tasks, todo, mark, stops, crashes, history>>

\* shutdown calls _mark_failed for the tasks in the order of their creation:
\* it reads an active row, or skips the others ...
ShutdownReadsRow(a) ==
    /\ phase = "marking" /\ mark = 0 /\ a \in todo /\ \A b \in todo : a <= b
    /\ todo' = todo \ {a}
    /\ mark' = IF Markable(a) THEN a ELSE 0
    /\ UNCHANGED <<disk, analyses, requests, tasks, phase, stops, crashes, history>>

\* ... and writes it.
ShutdownMarksFailed ==
    /\ phase = "marking" /\ mark # 0
    /\ WriteFailed(mark)
    /\ mark' = 0
    /\ UNCHANGED <<disk, subject, requests, tasks, phase, todo, stops, crashes, history>>

\* shutdown returns; other services are shut down next.
ShutdownReturns ==
    /\ phase = "marking" /\ mark = 0 /\ todo = {}
    /\ phase' = "closing"
    /\ UNCHANGED <<disk, analyses, requests, tasks, todo, mark, stops, crashes, history>>

\* What is in memory goes with the process.
Die ==
    /\ phase' = "down" /\ todo' = {} /\ mark' = 0
    /\ upc' = [u \in Uploaders |-> "idle"]
    /\ cur' = [u \in Uploaders |-> 0] /\ last' = [u \in Uploaders |-> 0]
    /\ dpc' = [d \in Deleters |-> "idle"] /\ victim' = [d \in Deleters |-> 0]
    /\ spc' = [s \in Submitters |-> "idle"] /\ job' = [s \in Submitters |-> 0]
    /\ tpc' = [a \in Analyses |-> "none"] /\ line' = <<>>
    /\ UNCHANGED <<disk, analyses, sent, submitted, robbed>>

Exit == phase = "closing" /\ Die /\ UNCHANGED <<stops, crashes, spoiled>>

\* The images whose file an upload or a deletion was between its two halves with.
InBetween ==
    {content[cur[u]] : u \in {v \in Uploaders : upc[v] = "written"}}
        \cup {content[victim[d]] : d \in {e \in Deleters : dpc[e] \in {"dropped", "late"}}}

Crash ==
    /\ phase # "down" /\ crashes < MaxCrashes
    /\ Die
    /\ spoiled' = spoiled \cup (InBetween \cap files)
    /\ crashes' = crashes + 1 /\ UNCHANGED stops

\* Mutant: recovery looks for running analyses only.
RecoverRunning ==
    /\ phase = "down"
    /\ row' = [a \in Analyses |-> IF row[a] = "running" THEN "failed" ELSE row[a]]
    /\ phase' = "up"
    /\ UNCHANGED <<disk, subject, requests, tasks, todo, mark, stops, crashes, history>>

\* recover_stale_analyses, before the first request.
Recover ==
    /\ phase = "down"
    /\ row' = [a \in Analyses |-> IF row[a] \in {"queued", "running"} THEN "failed" ELSE row[a]]
    /\ phase' = "up"
    /\ UNCHANGED <<disk, subject, requests, tasks, todo, mark, stops, crashes, history>>

-----------------------------------------------------------------------------
UploaderStep(u) ==
    \/ RefuseFile(u) \/ LookUpDigest(u) \/ WritePrivate(u) \/ InsertAsset(u)
    \/ WriteFails(u) \/ InsertFails(u)

DeleterStep(d) == DeleteRow(d) \/ Unlink(d) \/ DeleteFails(d) \/ UnlinkFails(d)
SubmitterStep(s) == InsertAnalysis(s) \/ CreateTask(s)

TaskStep(a) ==
    \/ Begin(a) \/ ReadFile(a) \/ Answer(a) \/ ProviderFails(a) \/ Complete(a) \/ Return(a)
    \/ TaskReadsRow(a) \/ TaskMarksFailed(a) \/ ProviderStopped(a)

ShutdownStep ==
    \/ ShutdownWaited \/ ShutdownMarksFailed \/ ShutdownReturns \/ Exit
    \/ \E a \in Analyses : ShutdownReadsRow(a)

Next ==
    \/ \E u \in Uploaders : Upload(u) \/ Scan(u) \/ UploaderStep(u)
    \/ \E d \in Deleters : FindAsset(d) \/ DeleterStep(d)
    \/ \E s \in Submitters : CheckSubmission(s) \/ SubmitterStep(s)
    \/ \E a \in Analyses : TaskStep(a)
    \/ ShutdownBegin \/ ShutdownStep \/ Crash \/ Recover

Spec == Init /\ [][Next]_vars

\* The event loop runs what is ready, provider calls end (they have timeouts),
\* and the process is started again after it has ended.
FairSpec ==
    /\ Spec
    /\ \A s \in Submitters : WF_vars(SubmitterStep(s))
    /\ \A a \in Analyses : WF_vars(TaskStep(a))
    /\ WF_vars(ShutdownStep) /\ WF_vars(Recover)

-----------------------------------------------------------------------------
(* Properties.                                                             *)

\* Every asset row has its file, although files and rows share no transaction
\* (create_asset writes the file first, delete_asset removes it last).  The
\* one exception: a deletion that finds its row already deleted still removes
\* the file, which may be that of a later upload of the same image.
RowHasFile == \A x \in assets : content[x] \in files \cup robbed

\* A file without a row belongs to an upload or a deletion in progress, or to
\* one that failed or died between its two halves (create_asset after
\* _write_private has created the file, delete_asset after its commit).  In no
\* overlap do requests that go through, or an orderly shutdown, leave a file
\* that makes its image impossible to upload again.
OrphansComeFromFailures ==
    \A i \in files : Stored(i) \/ i \in InBetween \/ i \in spoiled

\* While the service is up, somebody is on the way to end every active
\* analysis: the submitter that inserted it, a waiting task for a queued row,
\* the task inside the semaphore for a running one.
ActiveRowsHaveOwners ==
    phase = "up" =>
        \A a \in Analyses :
            /\ row[a] = "queued" => \/ \E s \in Submitters : spc[s] = "inserted" /\ job[s] = a
                                    \/ tpc[a] = "waiting" /\ \E k \in 1 .. Len(line) : line[k] = a
            /\ row[a] = "running" => tpc[a] \in {"started", "provider", "answered", "failing", "failed"}

\* vision_max_queue is checked before two awaits, so concurrent submissions
\* overshoot it, but never by more than the submissions that overlap.
OvershootIsBounded == Cardinality(Tasks) <= MaxQueue + NumSubmitters - 1

\* When VisionService.shutdown has returned, no analysis reads queued or
\* running, wherever its task was when it was cancelled.
ShutdownLeavesNoneActive == phase = "closing" => \A a \in Analyses : ~Markable(a)

\* The outcome of an analysis is written once, by its task, by shutdown or by
\* recovery; only the deletion of the asset removes it.
OutcomeIsFinal ==
    [][\A a \in Analyses : row[a] \in {"completed", "failed"} => row'[a] \in {row[a], "gone"}]_vars

Contract == INSTANCE VisionContract WITH
    image <- [x \in Assets |-> IF x \in assets THEN content[x] ELSE None],
    status <- row,
    about <- [a \in Analyses |-> IF row[a] = "none" THEN None ELSE subject[a]]

\* However uploads, deletions, submissions, tasks, shutdown, crashes and recovery
\* interleave, the two tables change only as VisionContract says: unique contents,
\* analyses of assets that are there, one running at a time, one outcome each.
ImplementsVisionContract == Contract!CSpec

\* Every analysis that was queued completes, fails or goes with its asset,
\* whatever crashes and shutdowns do to its task.
AnalysesEnd == \A a \in Analyses : (row[a] = "queued") ~> (row[a] \in {"completed", "failed", "gone"})

-----------------------------------------------------------------------------
(* The inductive invariant: what VisionQueueProofs proves the properties    *)
(* from.                                                                    *)

\* The ids a request still has to use, and those of rows and of deletions.
Pending(u) == IF upc[u] = "idle" THEN {} ELSE cur[u] .. last[u]
Kept == assets \cup {victim[d] : d \in {e \in Deleters : dpc[e] # "idle"}}

\* Ids are used once: no request is about to use one that another one, a row
\* or a deletion has.
IdsAreApart ==
    /\ \A u \in Uploaders : Pending(u) \subseteq 1 .. sent /\ (upc[u] # "idle" => cur[u] \in Pending(u))
    /\ \A u, v \in Uploaders : u # v => Pending(u) \cap Pending(v) = {}
    /\ Kept \subseteq 1 .. sent
    /\ \A u \in Uploaders : Pending(u) \cap Kept = {}

ImagesAreKnown ==
    /\ \A x \in Kept : content[x] \in Images
    /\ \A u \in Uploaders : upc[u] \in {"writing", "written"} => content[cur[u]] \in Images

\* The ids that lay claim to the file of their image: those of rows, of uploads
\* that have written it, and of deletions that have removed its row.
Claims == assets \cup {cur[u] : u \in {v \in Uploaders : upc[v] = "written"}}
                 \cup {victim[d] : d \in {e \in Deleters : dpc[e] = "dropped"}}

\* Why an unlink never takes the file of somebody else's row, late ones apart:
\* the exclusive creation admits one claim to an image.
ClaimsAreExclusive ==
    /\ \A x \in Claims : content[x] \in files \cup robbed
    /\ \A x, y \in Claims : content[x] = content[y] /\ content[x] \notin robbed => x = y
    /\ \A d \in Deleters : dpc[d] = "dropped" => victim[d] \notin assets
    /\ \A d, e \in Deleters :
         dpc[d] = "dropped" /\ dpc[e] = "dropped" /\ victim[d] = victim[e] => d = e

FilesInv == IdsAreApart /\ ImagesAreKnown /\ ClaimsAreExclusive /\ OrphansComeFromFailures

\* The statuses an analysis can have at each control point of its task.
TasksFollowRows ==
    \A a \in Analyses :
        /\ tpc[a] = "waiting" => row[a] \in {"queued", "gone"} /\ \E k \in 1 .. Len(line) : line[k] = a
        /\ tpc[a] \in {"started", "provider", "answered", "failing", "failed"} => row[a] \in {"running", "gone"}
        /\ tpc[a] = "written" => row[a] \in {"completed", "gone"}
        /\ tpc[a] \in {"stopping", "unwound"} => row[a] \in {"running", "failed", "gone"}
        /\ tpc[a] = "unwinding" => row[a] \in {"running", "completed", "failed", "gone"}

\* A submitter's analysis is its own, and has no task yet.
SubmittersOwnJobs ==
    /\ \A s \in Submitters :
         /\ spc[s] # "idle" => job[s] \in 1 .. submitted /\ tpc[job[s]] = "none"
         /\ spc[s] = "checked" => row[job[s]] = "none"
         /\ spc[s] = "inserted" => row[job[s]] \in {"queued", "gone"}
    /\ \A s, t \in Submitters : spc[s] # "idle" /\ spc[t] # "idle" /\ job[s] = job[t] => s = t
    /\ \A a \in Analyses : a > submitted => row[a] = "none" /\ tpc[a] = "none"

\* What shutdown relies on: no requests, only cancelled tasks, and every active
\* analysis among those it still has to mark.
PhasesInOrder ==
    /\ phase # "up" =>
         /\ \A u \in Uploaders : upc[u] = "idle"
         /\ \A d \in Deleters : dpc[d] = "idle"
         /\ \A s \in Submitters : spc[s] = "idle"
    /\ \A a \in Analyses :
         /\ phase = "up" => tpc[a] \notin {"stopping", "unwinding", "unwound"}
         /\ phase # "up" => tpc[a] \in {"none", "stopping", "unwinding", "unwound"}
         /\ phase = "down" => tpc[a] = "none"
         /\ phase = "draining" /\ Markable(a) => a \in todo
         /\ phase = "marking" /\ Markable(a) => a \in todo \/ a = mark
    /\ phase # "marking" => mark = 0
    /\ mark # 0 => row[mark] \notin {"none", "completed"}

Submitting == {s \in Submitters : spc[s] # "idle"}

\* A submitter that has found room is counted before its task exists.
QueueIsBounded == Cardinality(Tasks) + Cardinality(Submitting) <= MaxQueue + NumSubmitters - 1

\* The foreign key of vision_analyses: what has not gone has its asset.
AnalysesHaveAssets == \A a \in Analyses : row[a] \notin {"none", "gone"} => subject[a] \in assets

TasksInv ==
    /\ TasksFollowRows
    /\ SubmittersOwnJobs
    /\ PhasesInOrder
    /\ ActiveRowsHaveOwners
    /\ ShutdownLeavesNoneActive
    /\ QueueIsBounded

IInv == TypeOK /\ FilesInv /\ TasksInv /\ AnalysesHaveAssets
=============================================================================
