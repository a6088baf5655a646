----------------------------- MODULE PrintManager -----------------------------
(***************************************************************************)
(* Printing: the PrintManager coroutines of ecpg/print_manager.py working  *)
(* on the spool, the messages that reach them through ecpg/main.py, CUPS   *)
(* and the cloud's print permission.                                       *)
(*                                                                         *)
(* The gateway is one asyncio process.  Code between two awaits runs       *)
(* undisturbed, so an action of this module is such a stretch: it starts   *)
(* where an await returned and ends at the next await that really waits    *)
(* for something.  work[m].pc names the await a manager is waiting at.     *)
(* Reports to the cloud are recorded where they are decided; their         *)
(* delivery is the subject of StatusOutbox.                                *)
(***************************************************************************)
EXTENDS SpoolJobs, Sequences, FiniteSets

CONSTANTS
    Job,                \* job ids
    Manager,            \* PrintManager instances sharing the spool
    NoJob,              \* no job
    Protocol,           \* kinds of print_job the cloud sends: "legacy", "v2"
    MaxGen,             \* bound: dispatches of one job by the cloud
    MaxAttempts,        \* MAX_ATTEMPTS (5)
    MaxStatusFailures,  \* MAX_STATUS_FAILURES (3)
    MaxCrashes          \* bound: restarts

ASSUME ConstantsAssumption ==
    /\ NoJob \notin Job
    /\ Protocol \subseteq {"legacy", "v2"}
    /\ MaxGen \in Nat /\ MaxCrashes \in Nat
    /\ MaxAttempts \in Nat \ {0}
    /\ MaxStatusFailures \in Nat \ {0}

VARIABLES
    jobs,        \* job -> its row in spool_jobs; survives a restart
    batch,       \* manager -> job -> row read by due_jobs, still to be handled
    work,        \* manager -> what its coroutine is doing
    cancelling,  \* job -> progress of a cancel that found the job open
    cups,        \* job -> the CUPS jobs created for it; the id is the index
    configured,  \* the job's printer is in the current configuration
    available,   \* make_backend reached CUPS when the process started
    issued,      \* job -> last generation the cloud dispatched
    granted,     \* observer: permissions the cloud gave, as <<job, generation>>
    told,        \* observer: job -> last job_status report
    legacy,      \* observer: jobs found at the upgrade of an older database
    unsent,      \* observer: job -> end or progress a restart left unreported
    crashes      \* restarts so far

past == <<legacy, unsent, crashes>>
vars == <<jobs, batch, work, cancelling, cups, configured, available,
          issued, granted, told, past>>

Pc == {"idle", "fetch", "intent", "granted", "denied",
       "submit", "accepted", "undo", "undone", "poll", "polled"}

Seen == {"none", "done", "failed", "printing", "unknown"}

Idle == [pc |-> "idle", job |-> NoJob, row |-> NoRow, id |-> 0, seen |-> "none"]

Nothing == [j \in Job |-> NoRow]      \* an empty batch

Unreported == [status |-> "absent", safe |-> FALSE]

TypeOK ==
    /\ jobs \in [Job -> Row]
    /\ batch \in [Manager -> [Job -> Row]]
    /\ work \in [Manager -> [pc : Pc, job : Job \cup {NoJob}, row : Row,
                             id : Nat, seen : Seen]]
    /\ cancelling \in [Job -> {"no", "cups", "report"}]
    /\ cups \in [Job -> Seq({"active", "completed", "aborted"})]
    /\ configured \in BOOLEAN
    /\ available \in BOOLEAN
    /\ issued \in [Job -> 0..MaxGen]
    /\ granted \subseteq Job \X (0..MaxGen)
    /\ told \in [Job -> [status : Status \cup {"absent"}, safe : BOOLEAN]]
    /\ legacy \subseteq Job
    /\ unsent \in [Job -> Status \cup {"absent"}]
    /\ crashes \in 0..MaxCrashes

\* An older version left some jobs "printing" without a CUPS id, whether or not
\* CUPS had them; Spool.__init__ has recovered them, nobody reported that.
Init ==
    /\ legacy \in SUBSET Job
    /\ jobs = [j \in Job |-> IF j \in legacy THEN Recover(LegacyRow) ELSE NoRow]
    /\ unsent = [j \in Job |-> jobs[j].status]
    /\ batch = [m \in Manager |-> Nothing]
    /\ work = [m \in Manager |-> Idle]
    /\ cancelling = [j \in Job |-> "no"]
    /\ cups \in [Job -> {<<>>, <<"active">>}]
    /\ \A j \in Job \ legacy : cups[j] = <<>>
    /\ configured \in BOOLEAN
    /\ available \in BOOLEAN
    /\ issued = [j \in Job |-> 0]
    /\ granted = {}
    /\ told = [j \in Job |-> Unreported]
    /\ crashes = 0

-----------------------------------------------------------------------------
(* The cloud, the configuration and the passage of time.                   *)

\* The cloud (re)dispatches a job: a new generation and token.
CloudDispatches(j) ==
    /\ issued[j] < MaxGen
    /\ issued' = [issued EXCEPT ![j] = @ + 1]
    /\ UNCHANGED <<jobs, batch, work, cancelling, cups, configured, available,
                   granted, told, past>>

\* The orders for j that may arrive, late and repeatedly.
Orders(j) ==
    {o \in [intent : BOOLEAN, gen : 0..issued[j]] :
        IF o.gen = 0 THEN "legacy" \in Protocol /\ ~o.intent
                     ELSE "v2" \in Protocol /\ o.intent}

\* _on_print_job: enqueue, then a task that runs process_due (StartPass).
Enqueue(j) ==
    /\ \E o \in Orders(j) : jobs' = [jobs EXCEPT ![j] = AddJob(@, o)]
    /\ UNCHANGED <<batch, work, cancelling, cups, configured, available,
                   issued, granted, told, past>>

\* A new configuration adds or removes the printer (sync_queues).
ConfigSync ==
    /\ configured' = ~configured
    /\ UNCHANGED <<jobs, batch, work, cancelling, cups, available,
                   issued, granted, told, past>>

BackoffElapses(j) ==
    /\ CanCancel(jobs[j]) /\ ~jobs[j].due      \* only open jobs are looked at again
    /\ jobs' = [jobs EXCEPT ![j].due = TRUE]
    /\ UNCHANGED <<batch, work, cancelling, cups, configured, available,
                   issued, granted, told, past>>

\* _cleanup_loop
Cleanup(j) ==
    /\ jobs' = [jobs EXCEPT ![j] = CleanUp(@)]
    /\ UNCHANGED <<batch, work, cancelling, cups, configured, available,
                   issued, granted, told, past>>

-----------------------------------------------------------------------------
(* Helpers of a manager's steps.  r is the job's row as it is now; seen is *)
(* the manager's older copy of it.                                         *)

AtAwait(m, pc, j, row) ==
    work' = [work EXCEPT ![m] = [Idle EXCEPT !.pc = pc, !.job = j, !.row = row]]

\* _process_one returns; process_due goes on with the rest of the batch.
Leave(m) == work' = [work EXCEPT ![m] = Idle]

\* The report carries not_submitted, computed from the row as it is now.
ReportWithoutIntent(status, r) ==     \* mutant: submitted_at is not considered
    [status |-> status, safe |-> r.cups = 0]
Report(status, r) == [status |-> status, safe |-> ~r.submitted /\ r.cups = 0]

\* update_job; then, if a row changed and the code says so, status_cb.
Write(j, r, allowed, new, tells) ==
    IF Updatable(r, allowed, new.status)
    THEN /\ jobs' = [jobs EXCEPT ![j] = new]
         /\ told' = IF tells THEN [told EXCEPT ![j] = Report(new.status, new)]
                             ELSE told
    ELSE jobs' = [jobs EXCEPT ![j] = r] /\ told' = told

AnyStatus == Status

IsLastTooLate(attempts) == attempts > MaxAttempts     \* mutant: off by one
IsLast(attempts) == attempts >= MaxAttempts

FailOrRetry(m, j, seen, r, retry) ==
    LET attempts == seen.attempts + 1
        final    == ~retry \/ IsLast(attempts)
        new      == [r EXCEPT !.status   = IF final THEN "failed" ELSE "pending",
                              !.attempts = attempts,
                              !.due      = @ /\ final,
                              !.cups     = 0]
    IN Write(j, r, Unsubmitted, new, final) /\ Leave(m)

UncertainUntold(j, r) ==              \* mutant: the report is forgotten
    Write(j, r, AnyStatus, [r EXCEPT !.status = "uncertain"], FALSE)
Uncertain(j, r) == Write(j, r, AnyStatus, [r EXCEPT !.status = "uncertain"], TRUE)

SubmitUnchecked(m, j, r) ==           \* mutant: the answer of begin_submit is ignored
    /\ told' = told
    /\ jobs' = [jobs EXCEPT ![j] = IF CanBeginSubmit(r) THEN BeginSubmit(r) ELSE r]
    /\ AtAwait(m, "submit", j, NoRow)
Submit(m, j, r) ==
    /\ told' = told
    /\ IF CanBeginSubmit(r)
       THEN /\ jobs' = [jobs EXCEPT ![j] = BeginSubmit(r)]
            /\ AtAwait(m, "submit", j, NoRow)
       ELSE jobs' = [jobs EXCEPT ![j] = r] /\ Leave(m)

\* With the PDF at hand: the backend, the intent, the submission.
Proceed(m, j, seen, r) ==
    \/ /\ ~available
       /\ FailOrRetry(m, j, seen, r, TRUE)
    \/ /\ available /\ seen.intent
       /\ AtAwait(m, "intent", j, seen)
       /\ jobs' = [jobs EXCEPT ![j] = r] /\ told' = told
    \/ /\ available /\ ~seen.intent
       /\ Submit(m, j, r)

-----------------------------------------------------------------------------
(* A manager's pass over the due jobs.                                     *)

\* due_jobs returns copies; columns no later step reads are not kept.
Snapshot(r) == [r EXCEPT !.due = FALSE, !.failures = 0]

\* process_due takes _process_lock and reads the batch.
StartPass(m) ==
    /\ work[m].pc = "idle" /\ batch[m] = Nothing
    /\ \E j \in Job : IsDue(jobs[j])
    /\ batch' = [batch EXCEPT ![m] =
                   [j \in Job |-> IF IsDue(jobs[j]) THEN Snapshot(jobs[j]) ELSE NoRow]]
    /\ UNCHANGED <<jobs, work, cancelling, cups, configured, available,
                   issued, granted, told, past>>

\* _process_one up to its first await.  The order of created_at is left open.
TakeJob(m, j) ==
    LET seen == batch[m][j] IN
    /\ work[m].pc = "idle"
    /\ seen.status # "absent"
    /\ batch' = [batch EXCEPT ![m][j] = NoRow]
    /\ \/ /\ seen.cups # 0
          /\ work' = [work EXCEPT ![m] = [Idle EXCEPT !.pc = "poll", !.job = j,
                                                      !.id = seen.cups]]
          /\ UNCHANGED <<jobs, told>>
       \/ /\ seen.cups = 0 /\ ~configured
          /\ FailOrRetry(m, j, seen, jobs[j], TRUE)
       \/ /\ seen.cups = 0 /\ configured /\ ~seen.pdf
          /\ AtAwait(m, "fetch", j, seen)
          /\ UNCHANGED <<jobs, told>>
       \/ /\ seen.cups = 0 /\ configured /\ seen.pdf
          /\ Proceed(m, j, seen, jobs[j])
    /\ UNCHANGED <<cancelling, cups, configured, available, issued, granted, past>>

\* _download or _render_html returned.
FetchOk(m) ==
    LET j   == work[m].job
        new == [jobs[j] EXCEPT !.status = "downloading", !.pdf = TRUE]
    IN
    /\ work[m].pc = "fetch"
    /\ IF Updatable(jobs[j], Unsubmitted, "downloading")
       THEN Proceed(m, j, work[m].row, new)
       ELSE Leave(m) /\ UNCHANGED <<jobs, told>>
    /\ UNCHANGED <<batch, cancelling, cups, configured, available, issued,
                   granted, past>>

FetchFails(m) ==
    /\ work[m].pc = "fetch"
    /\ FailOrRetry(m, work[m].job, work[m].row, jobs[work[m].job], TRUE)
    /\ UNCHANGED <<batch, cancelling, cups, configured, available, issued,
                   granted, past>>

\* The cloud decides a print_intent: only the current generation may print.
CloudGrants(m) ==
    LET j == work[m].job IN
    /\ work[m].pc = "intent"
    /\ work[m].row.gen = issued[j]
    /\ granted' = granted \cup {<<j, issued[j]>>}
    /\ work' = [work EXCEPT ![m].pc = "granted"]
    /\ UNCHANGED <<jobs, batch, cancelling, cups, configured, available, issued,
                   told, past>>

CloudDenies(m) ==
    /\ work[m].pc = "intent"
    /\ work' = [work EXCEPT ![m].pc = "denied"]
    /\ UNCHANGED <<jobs, batch, cancelling, cups, configured, available, issued,
                   granted, told, past>>

\* The answer reaches _process_one ...
IntentGranted(m) ==
    /\ work[m].pc = "granted"
    /\ Submit(m, work[m].job, jobs[work[m].job])
    /\ UNCHANGED <<batch, cancelling, cups, configured, available, issued,
                   granted, past>>

IntentDenied(m) ==
    /\ work[m].pc = "denied"
    /\ FailOrRetry(m, work[m].job, work[m].row, jobs[work[m].job], FALSE)
    /\ UNCHANGED <<batch, cancelling, cups, configured, available, issued,
                   granted, past>>

\* ... or does not: no connection, timeout, an answer that is no bool.
IntentMissing(m) ==
    /\ work[m].pc \in {"intent", "granted", "denied"}
    /\ FailOrRetry(m, work[m].job, work[m].row, jobs[work[m].job], TRUE)
    /\ UNCHANGED <<batch, cancelling, cups, configured, available, issued,
                   granted, past>>

-----------------------------------------------------------------------------
(* CUPS.  print_file runs in a thread: CUPS accepts at some moment, the    *)
(* coroutine learns of it later, or gets an exception instead.             *)

CupsAccepts(m) ==
    LET j == work[m].job IN
    /\ work[m].pc = "submit"
    /\ cups' = [cups EXCEPT ![j] = Append(@, "active")]
    /\ work' = [work EXCEPT ![m].pc = "accepted", ![m].id = Len(cups[j]) + 1]
    /\ UNCHANGED <<jobs, batch, cancelling, configured, available, issued,
                   granted, told, past>>

PrintRaises(m) ==
    LET j == work[m].job IN
    /\ work[m].pc \in {"submit", "accepted"}
    /\ Uncertain(j, jobs[j]) /\ Leave(m)
    /\ UNCHANGED <<batch, cancelling, cups, configured, available, issued,
                   granted, past>>

\* print_file returned: a job canceled meanwhile is taken back from CUPS.
PrintReturned(m) ==
    LET j  == work[m].job
        id == work[m].id
    IN
    /\ work[m].pc = "accepted"
    /\ \/ /\ jobs[j].status \in {"canceled", "uncertain"}
          /\ jobs' = [jobs EXCEPT ![j].cups = id]
          /\ work' = [work EXCEPT ![m].pc = "undo"]
          /\ told' = told
       \/ LET new == [jobs[j] EXCEPT !.status = "printing", !.cups = id] IN
          /\ jobs[j].status \notin {"canceled", "uncertain"}
          /\ Write(j, jobs[j], AnyStatus, new, TRUE)
          /\ IF Updatable(jobs[j], AnyStatus, "printing")
             THEN work' = [work EXCEPT ![m].pc = "poll"]
             ELSE Leave(m)
    /\ UNCHANGED <<batch, cancelling, cups, configured, available, issued,
                   granted, past>>

\* cancel_job of the backend: errors are swallowed, so it may have no effect.
CupsCancel(j, id) ==
    \/ UNCHANGED cups
    \/ /\ cups[j][id] = "active"
       /\ cups' = [cups EXCEPT ![j][id] = "aborted"]

Undo(m) ==
    /\ work[m].pc = "undo"
    /\ CupsCancel(work[m].job, work[m].id)
    /\ work' = [work EXCEPT ![m].pc = "undone"]
    /\ UNCHANGED <<jobs, batch, cancelling, configured, available, issued,
                   granted, told, past>>

UndoReported(m) ==
    LET j == work[m].job IN
    /\ work[m].pc = "undone"
    /\ told' = [told EXCEPT ![j] = Report(jobs[j].status, jobs[j])]
    /\ Leave(m)
    /\ UNCHANGED <<jobs, batch, cancelling, cups, configured, available, issued,
                   granted, past>>

CupsFinishes(j) ==
    /\ \E id \in DOMAIN cups[j], s \in {"completed", "aborted"} :
          /\ cups[j][id] = "active"
          /\ cups' = [cups EXCEPT ![j][id] = s]
    /\ UNCHANGED <<jobs, batch, work, cancelling, configured, available, issued,
                   granted, told, past>>

\* _poll_state: what CUPS says now, or nothing intelligible.
CupsSays(state) ==
    CASE state = "completed" -> "done"
      [] state = "aborted"   -> "failed"
      [] OTHER               -> "printing"

Poll(m) ==
    /\ work[m].pc = "poll"
    /\ \E s \in {"unknown"} \cup
               (IF available THEN {CupsSays(cups[work[m].job][work[m].id])} ELSE {}) :
          work' = [work EXCEPT ![m].pc = "polled", ![m].seen = s]
    /\ UNCHANGED <<jobs, batch, cancelling, cups, configured, available, issued,
                   granted, told, past>>

\* _apply_poll_state for an unknown state: the row counts the failures; the
\* time limit may pass between two of them, never at the first.
CountFailure(j) ==
    LET r     == jobs[j]
        count == [r EXCEPT !.failures = @ + 1]
    IN
    IF r.status # "printing" THEN UNCHANGED <<jobs, told>>
    ELSE \/ /\ count.failures < MaxStatusFailures
            /\ jobs' = [jobs EXCEPT ![j] = count] /\ told' = told
         \/ /\ count.failures >= MaxStatusFailures \/ r.failures > 0
            /\ Uncertain(j, count)

ApplyPoll(m) ==
    LET j   == work[m].job
        r   == jobs[j]
        new == [r EXCEPT !.failures = 0]
    IN
    /\ work[m].pc = "polled"
    /\ \/ work[m].seen = "unknown" /\ CountFailure(j)
       \/ /\ work[m].seen # "unknown" /\ r.status # "printing"
          /\ UNCHANGED <<jobs, told>>
       \/ /\ work[m].seen = "done" /\ r.status = "printing"
          /\ Write(j, new, AnyStatus, [new EXCEPT !.status = "done"], TRUE)
       \/ /\ work[m].seen = "failed" /\ r.status = "printing"
          /\ Uncertain(j, new)
       \/ /\ work[m].seen = "printing" /\ r.status = "printing"
          /\ Write(j, new, AnyStatus, new, TRUE)
    /\ Leave(m)
    /\ UNCHANGED <<batch, cancelling, cups, configured, available, issued,
                   granted, past>>

-----------------------------------------------------------------------------
(* cancel: one SQL statement decides, then CUPS, then the report.          *)

CancelJob(j) ==
    LET new == Cancel(jobs[j]) IN
    /\ CanCancel(jobs[j])
    /\ jobs' = [jobs EXCEPT ![j] = new]
    /\ \/ /\ new.cups = 0
          /\ told' = [told EXCEPT ![j] = Report(new.status, new)]
          /\ UNCHANGED cancelling
       \/ /\ new.cups # 0
          /\ cancelling' = [cancelling EXCEPT ![j] = "cups"]
          /\ UNCHANGED told
    /\ UNCHANGED <<batch, work, cups, configured, available, issued, granted, past>>

CancelAtCups(j) ==
    /\ cancelling[j] = "cups"
    /\ CupsCancel(j, jobs[j].cups)
    /\ cancelling' = [cancelling EXCEPT ![j] = "report"]
    /\ UNCHANGED <<jobs, batch, work, configured, available, issued, granted,
                   told, past>>

CancelReported(j) ==
    /\ cancelling[j] = "report"
    /\ told' = [told EXCEPT ![j] = Report(jobs[j].status, jobs[j])]
    /\ cancelling' = [cancelling EXCEPT ![j] = "no"]
    /\ UNCHANGED <<jobs, batch, work, cups, configured, available, issued,
                   granted, past>>

-----------------------------------------------------------------------------

\* _resend_unreported_statuses, for a row as it is now.  What it sends from an
\* older read is StatusOutbox's subject; an end does not grow old.
Resend(j) ==
    LET r == jobs[j] IN
    /\ r.status \in {"printing"} \cup Terminal
    /\ r.status = "printing" => r.failures = 0
    /\ told' = [told EXCEPT ![j] = Report(r.status, r)]
    /\ UNCHANGED <<jobs, batch, work, cancelling, cups, configured, available,
                   issued, granted, past>>

\* The process dies and starts again; only the spool and CUPS remember.
Crash ==
    /\ crashes < MaxCrashes
    /\ crashes' = crashes + 1
    /\ jobs' = [j \in Job |-> Recover(jobs[j])]
    /\ batch' = [m \in Manager |-> Nothing]
    /\ work' = [m \in Manager |-> Idle]
    /\ cancelling' = [j \in Job |-> "no"]
    /\ available' \in BOOLEAN
    /\ unsent' = [j \in Job |-> IF told[j].status = jobs'[j].status
                               THEN "absent" ELSE jobs'[j].status]
    /\ UNCHANGED <<cups, configured, issued, granted, told, legacy>>

ManagerStep(m) ==
    \/ StartPass(m)
    \/ \E j \in Job : TakeJob(m, j)
    \/ FetchOk(m) \/ FetchFails(m)
    \/ IntentGranted(m) \/ IntentDenied(m) \/ IntentMissing(m)
    \/ PrintRaises(m) \/ PrintReturned(m)
    \/ Undo(m) \/ UndoReported(m)
    \/ Poll(m) \/ ApplyPoll(m)

CancelStep(j) == CancelAtCups(j) \/ CancelReported(j)

Next ==
    \/ \E m \in Manager : ManagerStep(m) \/ CloudGrants(m) \/ CloudDenies(m) \/ CupsAccepts(m)
    \/ \E j \in Job : \/ CloudDispatches(j) \/ Enqueue(j) \/ BackoffElapses(j)
                      \/ Cleanup(j) \/ CupsFinishes(j)
                      \/ CancelJob(j) \/ CancelStep(j) \/ Resend(j)
    \/ ConfigSync
    \/ Crash

Spec == Init /\ [][Next]_vars

-----------------------------------------------------------------------------
(* Fairness.  Awaited calls end: downloads, the intent request and CUPS    *)
(* have timeouts, the spool loop starts a pass every ten seconds, time     *)
(* passes, and CUPS finishes what it accepted.  Nothing is assumed of the  *)
(* cloud, of the configuration or of restarts.                             *)

FairSpec ==
    /\ Spec
    /\ \A m \in Manager : WF_vars(ManagerStep(m))
    /\ \A m \in Manager : WF_vars(CupsAccepts(m))
    /\ \A j \in Job : /\ WF_vars(BackoffElapses(j))
                      /\ WF_vars(CupsFinishes(j))
                      /\ WF_vars(CancelStep(j))

-----------------------------------------------------------------------------
(* Properties.                                                             *)

AtCups(m, j) == work[m].pc \in {"submit", "accepted"} /\ work[m].job = j

Untouched(j) == cups[j] = <<>> /\ \A m \in Manager : ~AtCups(m, j)

\* A job reaches CUPS at most once: through passes of several managers,
\* duplicate orders, cancels and restarts (begin_submit, Spool.__init__).
AtMostOneHandover ==
    \A j \in Job : Len(cups[j]) <= 1

\* A final status reported with not_submitted lets the cloud print the job
\* elsewhere: this gateway then never hands it to CUPS, now or later.  The jobs
\* of an older database are the exception: their rows know of no submission,
\* and the resend reports them as not submitted whatever CUPS had of them.
NotSubmittedIsFinal ==
    \A j \in Job \ legacy : told[j].status \in Terminal /\ told[j].safe => Untouched(j)

\* What an end state says about paper: "done" only after CUPS completed the
\* job, "failed" and "canceled" only if CUPS never saw it.
StatusTruth ==
    \A j \in Job :
        /\ jobs[j].status = "done" => cups[j] = <<"completed">>
        /\ jobs[j].status \in {"failed", "canceled"} => Untouched(j)

\* due_jobs never selects "submitting", so a row in that state must have a
\* coroutine that will move it on: otherwise the job hangs until a restart.
SubmittingIsOwned ==
    \A j \in Job : jobs[j].status = "submitting" => \E m \in Manager : AtCups(m, j)

\* A job whose row demands the cloud's permission when it is submitted was
\* given one, for the generation in the row or for one it had before: a newer
\* order that arrives during the request does not undo the answer, and an
\* older one that arrives late does not replace the generation.
SubmittedWithPermission ==
    \A j \in Job : jobs[j].submitted /\ jobs[j].intent
                      => \E g \in 1..jobs[j].gen : <<j, g>> \in granted

\* The attempts are bounded, and the last one ends the job.
RetryBudget ==
    \A j \in Job : /\ jobs[j].attempts <= MaxAttempts
                   /\ jobs[j].attempts = MaxAttempts => jobs[j].status = "failed"

\* What the row shows, the cloud was told, unless a coroutine still owes it the
\* report or a restart left just this status unreported: no interleaving of
\* passes, polls and cancels makes an older status the last report, before a
\* restart or after it.  StatusOutbox builds on this.
NoSilentEnd ==
    \A j \in Job :
        jobs[j].status \in {"printing"} \cup Terminal
            => \/ told[j].status = jobs[j].status
               \/ unsent[j] = jobs[j].status
               \/ cancelling[j] # "no"
               \/ \E m \in Manager : work[m].pc \in {"undo", "undone"} /\ work[m].job = j

\* No late download, retry, poll, order or restart revives a job that ended
\* or rewrites how it ended.
TerminalIsFinal ==
    [][\A j \in Job : jobs[j].status \in Terminal => jobs'[j].status = jobs[j].status]_vars

\* Once the end of a job was reported, no report takes it back, of a coroutine
\* here or a resend of the row as it is.  (A row read before that and resent
\* after it is StatusOutbox's: NoStaleConfirmation.)
VerdictStands ==
    [][\A j \in Job : told[j].status \in Terminal => told'[j].status = told[j].status]_vars

\* Every job the spool took ends: printed, given up, canceled or unclear.
EveryJobSettles == \A j \in Job : jobs[j].status # "absent" ~> jobs[j].status \in Terminal

-----------------------------------------------------------------------------
(* The inductive invariant behind the safety properties: what a row says,  *)
(* what CUPS has and where the managers stand agree with each other.       *)

RowInv(j) ==
    LET r == jobs[j] IN
    /\ j \in legacy => r.status = "uncertain" /\ ~r.submitted
    /\ r.submitted <=> j \notin legacy /\ r.status \in {"submitting", "printing", "done", "uncertain"}
    /\ ~r.submitted => r.cups = 0 /\ (cups[j] = <<>> \/ j \in legacy)
    /\ r.cups # 0 => r.cups = 1 /\ Len(cups[j]) = 1
    /\ r.status \in {"printing", "done"} => r.cups = 1
    /\ r.status = "done" => cups[j][1] = "completed"
    /\ r.status = "submitting" => \E m \in Manager : AtCups(m, j)
    /\ cancelling[j] # "no" => r.status = "uncertain" /\ r.cups = 1
    /\ told[j].status \in Terminal /\ told[j].safe
          => r.status \in {"failed", "canceled"} \/ j \in legacy

WorkInv(m) ==
    LET w == work[m]
        r == jobs[w.job]
        c == cups[w.job]
    IN
    /\ w.pc # "idle" => w.job \in Job \ legacy
    /\ w.pc \in {"submit", "accepted"} => r.status \in {"submitting", "uncertain"} /\ r.cups = 0
    /\ w.pc = "submit" => c = <<>>
    /\ w.pc \in {"accepted", "undo", "undone", "poll", "polled"} => w.id = 1 /\ Len(c) = 1
    /\ w.pc \in {"undo", "undone"} => r.status = "uncertain" /\ r.cups = 1
    /\ w.pc = "polled" /\ w.seen = "done" => c[1] = "completed"
    /\ \A j \in Job : batch[m][j].cups # 0 => batch[m][j].cups = 1 /\ Len(cups[j]) = 1
    /\ \A j \in Job : batch[m][j].status # "absent" => j \notin legacy

OneAtCups == \A m, n \in Manager, j \in Job : AtCups(m, j) /\ AtCups(n, j) => m = n

\* Holds in every reachable state and is preserved by every step: rows, CUPS
\* and coroutines agree, whichever awaits the managers are suspended at.
IInv ==
    /\ TypeOK
    /\ \A j \in Job : RowInv(j) /\ Len(cups[j]) <= 1
    /\ \A m \in Manager : WorkInv(m)
    /\ OneAtCups

-----------------------------------------------------------------------------
(* PrintManager implements PrintJob: a row's status is its phase, the      *)
(* ticket is the committed submission, used up when CUPS has the job.      *)

phaseOf(r) == CASE r.status \in Unsubmitted  -> "open"
                [] r.status = "submitting"   -> "committed"
                [] OTHER                     -> r.status

Abstract == INSTANCE PrintJob WITH
    phase  <- [j \in Job |-> phaseOf(jobs[j])],
    ticket <- [j \in Job |-> CASE ~jobs[j].submitted -> "none"
                               [] jobs[j].submitted /\ cups[j] = <<>> -> "issued"
                               [] OTHER -> "used"]

\* The promise of PrintJob, kept by every step of the code.
ImplementsPrintJob == Abstract!PrintJobSpec
==============================================================================
