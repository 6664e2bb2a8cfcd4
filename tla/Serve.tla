-------------------------------- MODULE Serve --------------------------------
(***************************************************************************)
(* The always-on container: `vps-sync serve` (internal/schedule), the       *)
(* restart policy and stop grace period of docker-compose.yml around it,    *)
(* and the notification of each run (internal/notify).  A run is taken      *)
(* apart only as far as the loop, a shutdown and an outage can tell:        *)
(* fetching by rsync, working on the local disk, uploading.  Publisher      *)
(* models what is inside.                                                   *)
(*                                                                         *)
(* Time is counted modulo the cycle of the cron expression.  Every local    *)
(* step is shorter than one unit of it, the time rsync takes is not         *)
(* bounded, and neither is that of an upload that nobody cancels.           *)
(***************************************************************************)
EXTENDS Integers

CONSTANTS
    Period,         \* the length of the cycle of SCHEDULE
    Ticks,          \* the times of the cycle at which it fires
    Grace,          \* stop_grace_period
    Settings,       \* the configurations of the deployment
    Faults          \* what may go wrong: a subset of FaultKinds

FaultKinds == { "crash",        \* the process dies
                "stop",         \* docker stop, and docker compose up again
                "outage",       \* R2 or production is unreachable for a time
                "step",         \* a step of a run fails for another reason
                "disk_lost",    \* the host is rebuilt while it is stopped
                "export" }      \* `export` is run by hand on a blank host

\* RUN_ON_START, AUTO_BOOTSTRAP, FETCH_PROD_DB, and if PROD_DB_SRC is set.
AllSettings ==
    [runOnStart : BOOLEAN, autoBootstrap : BOOLEAN, fetchProdDB : BOOLEAN,
     prodDBSrc : BOOLEAN]

ASSUME ServeAssumption ==
    /\ Period \in Nat \ {0} /\ Grace \in Nat
    /\ Ticks \subseteq 0..(Period - 1) /\ Ticks # {}
    /\ Faults \subseteq FaultKinds /\ Settings \subseteq AllSettings

VARIABLES
    setting,    \* the configuration; it never changes
    now,        \* the time, modulo the cycle
    pc,         \* what the process is doing; "down" when there is none
    ctx,        \* "active" until SIGTERM cancels the context
    timer,      \* the time left on the timer of the loop
    fired,      \* the timer has started a run at this very time
    outcome,    \* how the last run ended
    told,       \* the last outcome the webhook delivered
    wanted,     \* the container is meant to run: it was not stopped
    grace,      \* the time left until a stopped container is killed
    db,         \* the mirror: "absent", "empty" (zero bytes) or "ok"
    backup,     \* the bucket holds a db-backup/ object
    up          \* the services that can be reached

proc == <<pc, ctx, timer, fired, outcome, told>>
vars == <<setting, now, pc, ctx, timer, fired, outcome, told, wanted, grace, db,
          backup, up>>

RunOnStart == setting.runOnStart
AutoBootstrap == setting.autoBootstrap
FetchProdDB == setting.fetchProdDB
ProdDBSrc == setting.prodDBSrc

Services == {"r2", "prod"}
Running == {"fetching", "working", "uploading"}

\* mutant: the next tick may be the present one
UntilNextOrNow(t) ==
    CHOOSE d \in 0..(Period - 1) :
        /\ (t + d) % Period \in Ticks
        /\ \A e \in 0..(d - 1) : (t + e) % Period \notin Ticks

\* sched.Next(now) - now: the next time of the schedule is later than now.
UntilNext(t) ==
    CHOOSE d \in 1..Period :
        /\ (t + d) % Period \in Ticks
        /\ \A e \in 1..(d - 1) : (t + e) % Period \notin Ticks

Init ==
    /\ setting \in Settings
    /\ now = 0 /\ pc = "down" /\ ctx = "cancelled" /\ timer = 0
    /\ fired = FALSE /\ outcome = "none" /\ told = "none"
    /\ wanted = TRUE /\ grace = 0
    /\ db \in {"absent", "ok"} /\ up = Services
    /\ backup \in BOOLEAN /\ (db = "absent" /\ ~ProdDBSrc => backup)

-----------------------------------------------------------------------------
(* schedule.Serve.                                                          *)

\* mutant: an interval from the end of the last run
RearmFullCycle == pc' = "waiting" /\ timer' = Period

\* The head of the loop: the timer runs until the next tick.
Rearm == pc' = "waiting" /\ timer' = UntilNext(now)

\* execute enters run.Weekly.
BeginRun == pc' = (IF FetchProdDB THEN "fetching" ELSE "working")

\* What Serve does once there is nothing to seed.
EnterLoop == IF RunOnStart THEN BeginRun /\ UNCHANGED timer ELSE Rearm

\* mutant: a database that is missing is not seeded
StartUnseeded ==
    /\ pc = "down" /\ wanted /\ ctx' = "active" /\ EnterLoop
    /\ UNCHANGED <<now, fired, outcome, told, wanted, grace, db, backup, up>>

\* The container starts, or the restart policy starts it again.
Start ==
    /\ pc = "down" /\ wanted /\ ctx' = "active"
    /\ IF AutoBootstrap /\ db = "absent"
       THEN pc' = "seeding" /\ UNCHANGED timer
       ELSE EnterLoop
    /\ UNCHANGED <<now, fired, outcome, told, wanted, grace, db, backup, up>>

\* SeedDB finds a database: rsync does not carry the context, a download does.
Seedable == IF ProdDBSrc THEN "prod" \in up
            ELSE "r2" \in up /\ backup /\ ctx = "active"

\* A seeding that fails ends the process.
Seed ==
    /\ pc = "seeding"
    /\ IF Seedable
       THEN db' = "ok" /\ EnterLoop /\ UNCHANGED ctx
       ELSE pc' = "down" /\ ctx' = "cancelled" /\ UNCHANGED <<timer, db>>
    /\ UNCHANGED <<now, fired, outcome, told, wanted, grace, backup, up>>

\* mutant: every failure is reported
EndRunReported(result) ==
    outcome' = result /\ pc' = "notifying" /\ UNCHANGED timer

\* execute: a run that failed after a shutdown is not reported.
EndRun(result) ==
    /\ outcome' = result
    /\ IF result # "ok" /\ ctx = "cancelled"
       THEN Rearm
       ELSE pc' = "notifying" /\ UNCHANGED timer

\* rsync replaces the mirror, or fails, as it does without a source; it does
\* not carry the context.
Fetch ==
    /\ pc = "fetching"
    /\ IF ProdDBSrc /\ "prod" \in up
       THEN db' = "ok" /\ pc' = "working" /\ UNCHANGED <<timer, outcome>>
       ELSE EndRun("failed") /\ UNCHANGED db
    /\ UNCHANGED <<now, ctx, fired, told, wanted, grace, backup, up>>

\* The steps up to the validation, when none of them fails by itself:
\* check_database refuses a database that is missing or empty, the queries of
\* the export carry the context.
Work ==
    /\ pc = "working"
    /\ CASE db # "ok" -> EndRun("failed")
         [] db = "ok" /\ ctx = "cancelled" -> EndRun("interrupted")
         [] OTHER -> pc' = "uploading" /\ UNCHANGED <<timer, outcome>>
    /\ UNCHANGED <<now, ctx, fired, told, wanted, grace, db, backup, up>>

\* upload_r2 and what follows it: every request carries the context.  Once the
\* bundle is up a backup that fails, or is cut off, is only a warning.
Upload ==
    /\ pc = "uploading"
    /\ CASE ctx = "cancelled" -> EndRun("interrupted") \/ EndRun("ok")
         [] ctx = "active" /\ "r2" \notin up -> EndRun("failed")
         [] OTHER -> EndRun("ok")
    /\ backup' \in {backup, "r2" \in up \/ backup}
    /\ UNCHANGED <<now, ctx, fired, told, wanted, grace, db, up>>

\* What a run or a seeding may fail on although all it needs is there: the
\* quick check, the snapshot, the shrink guard or another error of the export,
\* the validation, a request.  The shrink guard refuses the same mirror again
\* at every tick.
StepFails ==
    /\ "step" \in Faults
    /\ \/ /\ pc = "seeding" /\ Seedable
          /\ pc' = "down" /\ ctx' = "cancelled"
          /\ UNCHANGED <<timer, outcome, backup>>
       \/ /\ \/ pc = "fetching" /\ ProdDBSrc /\ "prod" \in up
             \/ pc = "working" /\ db = "ok" /\ ctx = "active"
          /\ EndRun("failed") /\ UNCHANGED <<ctx, backup>>
       \/ /\ pc = "uploading" /\ "r2" \in up /\ ctx = "active"
          /\ EndRun("failed") /\ backup' \in {backup, TRUE} /\ UNCHANGED ctx
    /\ UNCHANGED <<now, fired, told, wanted, grace, db, up>>

\* notify.RunResult: a webhook that fails is logged and forgotten.
Notify ==
    /\ pc = "notifying"
    /\ told' \in {told, outcome} /\ Rearm
    /\ UNCHANGED <<now, ctx, fired, outcome, wanted, grace, db, backup, up>>

\* mutant: the loop gives up after a failed run
FireUnlessFailed ==
    /\ pc = "waiting" /\ timer = 0 /\ outcome # "failed"
    /\ BeginRun /\ fired' = TRUE
    /\ UNCHANGED <<now, ctx, timer, outcome, told, wanted, grace, db, backup,
                   up>>

\* The two cases of the select; either may go first when both are ready.
Fire ==
    /\ pc = "waiting" /\ timer = 0
    /\ BeginRun /\ fired' = TRUE
    /\ UNCHANGED <<now, ctx, timer, outcome, told, wanted, grace, db, backup,
                   up>>

Exit ==
    /\ pc = "waiting" /\ ctx = "cancelled" /\ pc' = "down"
    /\ UNCHANGED <<now, ctx, timer, fired, outcome, told, wanted, grace, db,
                   backup, up>>

-----------------------------------------------------------------------------
(* Time, docker and the world.                                              *)

\* What does not wait: a timer that ran out, a context that is cancelled.
Urgent ==
    \/ pc = "waiting" /\ timer = 0
    \/ pc = "notifying"
    \/ ctx = "cancelled" /\ ( \/ pc \in {"waiting", "working", "uploading"}
                              \/ pc = "seeding" /\ ~ProdDBSrc )

\* mutant: the timer is not stopped while a run is on
AdvanceTicker ==
    /\ ~Urgent
    /\ now' = (now + 1) % Period /\ fired' = FALSE /\ timer' = timer - 1
    /\ ~wanted /\ pc # "down" => grace > 0
    /\ grace' = IF grace > 0 THEN grace - 1 ELSE 0
    /\ UNCHANGED <<pc, ctx, outcome, told, wanted, db, backup, up>>

Advance ==
    /\ ~Urgent
    /\ now' = (now + 1) % Period /\ fired' = FALSE
    /\ timer' = IF pc = "waiting" THEN timer - 1 ELSE timer
    /\ ~wanted /\ pc # "down" => grace > 0
    /\ grace' = IF grace > 0 THEN grace - 1 ELSE 0
    /\ UNCHANGED <<pc, ctx, outcome, told, wanted, db, backup, up>>

\* mutant: SIGTERM is not caught by signal.NotifyContext
StopUnheard ==
    /\ "stop" \in Faults /\ wanted
    /\ wanted' = FALSE /\ grace' = Grace
    /\ UNCHANGED <<now, pc, ctx, timer, fired, outcome, told, db, backup, up>>

\* docker stop sends SIGTERM, and SIGKILL when the grace period is over.
Stop ==
    /\ "stop" \in Faults /\ wanted
    /\ wanted' = FALSE /\ grace' = Grace /\ ctx' = "cancelled"
    /\ UNCHANGED <<now, pc, timer, fired, outcome, told, db, backup, up>>

Die == pc' = "down" /\ ctx' = "cancelled" /\ UNCHANGED <<timer, outcome, told>>

Kill ==
    /\ ~wanted /\ grace = 0 /\ pc # "down" /\ Die
    /\ UNCHANGED <<now, fired, wanted, grace, db, backup, up>>

Crash ==
    /\ "crash" \in Faults /\ pc # "down" /\ Die
    /\ UNCHANGED <<now, fired, wanted, grace, db, backup, up>>

ComposeUp ==
    /\ ~wanted /\ pc = "down" /\ wanted' = TRUE /\ grace' = 0
    /\ UNCHANGED <<now, proc, db, backup, up>>

LoseDisk ==
    /\ "disk_lost" \in Faults /\ ~wanted /\ pc = "down"
    /\ db' = "absent" /\ (~ProdDBSrc => backup)
    /\ UNCHANGED <<now, proc, wanted, grace, backup, up>>

\* `docker compose run --rm sync export`: sqlite3 creates the file it is to
\* back up (snapshot.Backup).
ExportByHand ==
    /\ "export" \in Faults /\ db = "absent" /\ db' = "empty"
    /\ UNCHANGED <<now, proc, wanted, grace, backup, up>>

Outage ==
    /\ "outage" \in Faults
    /\ \E s \in Services : up' = up \ {s} \/ up' = up \cup {s}
    /\ UNCHANGED <<now, proc, wanted, grace, db, backup>>

Process ==
    /\ Seed \/ Fetch \/ Work \/ Upload \/ StepFails \/ Notify \/ Fire \/ Exit
    /\ UNCHANGED setting
Docker == (Start \/ Kill) /\ UNCHANGED setting
Time == Advance /\ UNCHANGED setting
World ==
    /\ Stop \/ Crash \/ ComposeUp \/ LoseDisk \/ ExportByHand \/ Outage
    /\ UNCHANGED setting

Next == Process \/ Docker \/ Time \/ World

Spec == Init /\ [][Next]_vars

\* The process is scheduled, docker does what it was told, time passes.
Fairness == WF_vars(Process) /\ WF_vars(Docker) /\ WF_vars(Time)

FairSpec == Spec /\ Fairness

-----------------------------------------------------------------------------
(* Properties.                                                              *)

\* The state has its type; the timer never runs past the tick it was set for,
\* and a publish that a shutdown interrupted is not reported as a failure
\* (schedule.go, execute).
TypeOK ==
    /\ setting \in Settings
    /\ now \in 0..(Period - 1) /\ timer \in 0..Period /\ grace \in 0..Grace
    /\ pc \in {"down", "seeding", "notifying", "waiting"} \cup Running
    /\ ctx \in {"active", "cancelled"} /\ fired \in BOOLEAN
    /\ outcome \in {"none", "ok", "failed", "interrupted"}
    /\ told \in {"none", "ok", "failed"}
    /\ wanted \in BOOLEAN /\ backup \in BOOLEAN
    /\ db \in {"absent", "empty", "ok"} /\ up \subseteq Services

\* However long the last run took and whenever the process was started, a
\* process that waits wakes up at the first tick after now (Serve's loop).
WaitsForNextTick ==
    pc = "waiting" =>
        /\ (now + timer) % Period \in Ticks
        /\ \A e \in 1..(timer - 1) : (now + e) % Period \notin Ticks

\* The timer never starts two runs at one tick.
OneRunPerTick == [][pc = "waiting" /\ pc' \in Running => ~fired]_vars

\* Dockerfile, main.go: docker stop "unwinds an in-flight publish rather than
\* killing it mid-upload": no upload is left when the grace period is over.
NeverKilledMidUpload ==
    ~wanted /\ grace = 0 /\ Grace > 0 => pc # "uploading"

\* schedule.go: "the next tick is the retry".  A run that failed is followed
\* by another, unless the container is stopped or keeps crashing.
FailureRetried ==
    <>[]wanted /\ <>[](pc # "down") =>
        (outcome = "failed" /\ pc = "notifying" ~> pc \in Running)

\* What has to be in order for a publish: the container is left alone, and
\* the services it is configured to use can be reached.
InOrder ==
    /\ wanted /\ "r2" \in up
    /\ FetchProdDB \/ ProdDBSrc => "prod" \in up
Published == pc = "notifying" /\ outcome = "ok"

\* Once outages, stops and crashes are over and no step of a run fails any
\* more, publishes happen again and again, whatever was left behind (README,
\* docker-compose.yml: a rebuilt host recovers on its own).  The premise is
\* needed: a mirror that the shrink guard refuses is refused at every tick.
PublishesRecur ==
    <>[]InOrder /\ <>[][~Crash /\ ~StepFails]_vars => []<>Published

-----------------------------------------------------------------------------
(* What the documentation says; runs of their own show what the code does.  *)

\* README: a rebuilt host is seeded "from PROD_DB_SRC when it is set,
\* otherwise from the newest snapshot"; run.go: "Seeding tries PROD_DB_SRC
\* first when it is set, then the newest snapshot in the R2 db-backup/
\* prefix.  The R2 path is what makes a rebuilt host recoverable".  With R2
\* reachable and a backup in it, a container that is left alone publishes.
RecoversFromBackup ==
    <>[](wanted /\ "r2" \in up /\ backup) => <>Published

\* schedule.go: "Serve runs the pipeline on Options.Spec until ctx is
\* canceled."  No run begins after that.
NoRunAfterCancel ==
    [][pc \notin Running /\ pc' \in Running => ctx' = "active"]_vars

=============================================================================
