-------------------------- MODULE PrintManagerProofs --------------------------
(***************************************************************************)
(* Theorems about PrintManager, for any number of jobs, managers, orders   *)
(* and restarts.  The invariant IInv is inductive; the safety properties   *)
(* follow from it.  Most actions of a manager up to begin_submit change    *)
(* one row in one of three ways, which BeforeSubmitInv treats once.        *)
(***************************************************************************)
EXTENDS PrintManager, TLAPS

USE DEF past

Reports == [status : Status \cup {"absent"}, safe : BOOLEAN]
Works   == [pc : Pc, job : Job \cup {NoJob}, row : Row, id : Nat, seen : Seen]

\* SQL statements turn rows into rows.
LEMMA RowStatements ==
    ASSUME NEW r \in Row
    PROVE  /\ \A o \in [intent : BOOLEAN, gen : Nat] : AddJob(r, o) \in Row
           /\ BeginSubmit(r) \in Row
           /\ Cancel(r) \in Row
           /\ CleanUp(r) \in Row
           /\ Recover(r) \in Row
           /\ Snapshot(r) \in Row
<1> USE DEF Row, Status, Unsubmitted, Terminal
<1>1. ASSUME NEW o \in [intent : BOOLEAN, gen : Nat] PROVE AddJob(r, o) \in Row
  <2>1. InsertOrIgnore(r) \in Row
    BY DEF InsertOrIgnore, NoRow
  <2>2. \A i \in Row : [i EXCEPT !.intent = o.intent, !.gen = o.gen] \in Row
    OBVIOUS
  <2> QED BY <2>1, <2>2 DEF AddJob
<1>2. BeginSubmit(r) \in Row  BY DEF BeginSubmit
<1>3. Cancel(r) \in Row       BY DEF Cancel
<1>4. CleanUp(r) \in Row      BY DEF CleanUp
<1>5. Recover(r) \in Row      BY DEF Recover
<1>6. Snapshot(r) \in Row     BY DEF Snapshot
<1> QED BY <1>1, <1>2, <1>3, <1>4, <1>5, <1>6

\* A report carries the status it is given; it is safe only for a row that
\* was never submitted.
LEMMA ReportFacts ==
    ASSUME NEW r \in Row, NEW s \in Status \cup {"absent"}
    PROVE  /\ Report(s, r) \in Reports
           /\ Report(s, r).status = s
           /\ Report(s, r).safe => ~r.submitted
  BY DEF Report, Reports, Row

\* The absent row and the idle coroutine have their types.
LEMMA NoRowIsRow == /\ NoRow \in Row /\ NoRow.cups = 0 /\ NoRow.status = "absent"
                    /\ Idle \in Works /\ Idle.pc = "idle"
  BY DEF NoRow, Row, Status, Idle, Pc, Seen, Works

\* No report, and no job but those of an older version: the invariant holds
\* when the gateway starts.
LEMMA InitInv == Init => IInv
<1> SUFFICES ASSUME Init PROVE IInv
  OBVIOUS
<1> DEFINE old == [NoRow EXCEPT !.status = "uncertain"]
<1>1. old \in Row /\ old.status = "uncertain" /\ ~old.submitted /\ old.cups = 0
  BY DEF NoRow, Row, Status, Terminal
<1>2. Recover(LegacyRow) = old
  BY DEF Recover, LegacyRow, NoRow
<1> HIDE DEF old
<1>3. /\ legacy \subseteq Job
      /\ jobs = [j \in Job |-> IF j \in legacy THEN old ELSE NoRow]
      /\ unsent = [j \in Job |-> jobs[j].status]
      /\ batch = [m \in Manager |-> Nothing] /\ work = [m \in Manager |-> Idle]
      /\ cancelling = [j \in Job |-> "no"] /\ told = [j \in Job |-> Unreported]
      /\ cups \in [Job -> {<<>>, <<"active">>}]
      /\ \A j \in Job \ legacy : cups[j] = <<>>
      /\ configured \in BOOLEAN /\ available \in BOOLEAN
      /\ issued = [j \in Job |-> 0] /\ granted = {} /\ crashes = 0
  BY <1>2 DEF Init
<1>4. jobs \in [Job -> Row]
  BY <1>1, <1>3, NoRowIsRow
<1>5. TypeOK
  <2>1. batch \in [Manager -> [Job -> Row]] /\ work \in [Manager -> Works]
    BY <1>3, NoRowIsRow DEF Nothing
  <2>2. unsent \in [Job -> Status \cup {"absent"}]
    BY <1>3, <1>4 DEF Row
  <2>3. cups \in [Job -> Seq({"active", "completed", "aborted"})]
    <3> DEFINE C == {"active", "completed", "aborted"}
    <3>1. <<>> \in Seq(C) /\ <<"active">> \in Seq(C)
      OBVIOUS
    <3> HIDE DEF C
    <3>2. cups \in [Job -> Seq(C)]
      BY <1>3, <3>1
    <3> QED BY <3>2 DEF C
  <2>4. told \in [Job -> Reports]
    BY <1>3 DEF Unreported, Reports
  <2> QED BY <1>3, <1>4, <2>1, <2>2, <2>3, <2>4, ConstantsAssumption
          DEF TypeOK, Works, Reports
<1>6. ASSUME NEW j \in Job PROVE RowInv(j) /\ Len(cups[j]) <= 1
  <2>1. /\ jobs[j] = IF j \in legacy THEN old ELSE NoRow
        /\ told[j] = Unreported /\ cancelling[j] = "no"
        /\ cups[j] = <<>> \/ (j \in legacy /\ cups[j] = <<"active">>)
    BY <1>3
  <2>2. NoRow.status = "absent" /\ ~NoRow.submitted /\ NoRow.cups = 0
        /\ Unreported.status = "absent"
    BY DEF NoRow, Unreported
  <2>3. Len(cups[j]) <= 1
    <3>1. Len(<<>>) <= 1 /\ Len(<<"active">>) <= 1
      OBVIOUS
    <3>2. cups[j] = <<>> \/ cups[j] = <<"active">>
      BY <2>1
    <3> QED BY <3>1, <3>2
  <2> HIDE DEF old
  <2>4. jobs[j].status \in {"absent", "uncertain"} /\ ~jobs[j].submitted /\ jobs[j].cups = 0
        /\ (j \in legacy <=> jobs[j].status = "uncertain")
    BY <1>1, <2>1, <2>2
  <2>5. RowInv(j)
    BY <2>1, <2>2, <2>4 DEF RowInv, Terminal
  <2> QED BY <2>3, <2>5
<1>7. ASSUME NEW m \in Manager PROVE WorkInv(m)
  <2>1. work[m].pc = "idle" /\ \A j \in Job : batch[m][j] = NoRow
    BY <1>3, NoRowIsRow DEF Nothing
  <2> QED BY <2>1, NoRowIsRow DEF WorkInv
<1>8. OneAtCups
  BY <1>3, NoRowIsRow DEF OneAtCups, AtCups
<1> QED BY <1>5, <1>6, <1>7, <1>8 DEF IInv

-----------------------------------------------------------------------------
(* Up to begin_submit.                                                     *)

\* How the row o of a job becomes n while CUPS has nothing of the job.
Kept(o, n)      == n.status = o.status /\ n.submitted = o.submitted /\ n.cups = o.cups
Accepted(o, n)  == /\ o.status = "absent" /\ n.status = "pending"
                   /\ ~n.submitted /\ n.cups = 0
Reworked(o, n)  == /\ o.status \in Unsubmitted
                   /\ n.status \in Unsubmitted \cup {"failed"}
                   /\ ~n.submitted /\ n.cups = 0
Committed(o, n) == /\ o.status \in Unsubmitted
                   /\ n.status = "submitting" /\ n.submitted /\ n.cups = 0

\* What a step of manager m up to begin_submit does, r being the job's row
\* before it: the row, the coroutine and perhaps a report "failed" change.
Outcome(m, j, r) ==
    \E new \in Row, w \in Works :
        /\ jobs' = [jobs EXCEPT ![j] = new]
        /\ work' = [work EXCEPT ![m] = w]
        /\ \/ told' = told /\ (new.status = "failed" => r.status = "failed")
           \/ new.status = "failed" /\ told' = [told EXCEPT ![j] = Report("failed", new)]
        /\ \/ /\ Kept(r, new) \/ Reworked(r, new)
              /\ w.pc \in {"idle", "fetch", "intent"}
              /\ w.pc # "idle" => w.job \in Job \ legacy
           \/ Committed(r, new) /\ w.pc = "submit" /\ w.job = j

\* A row that is not yet submitted has no CUPS job.
Sound(r) == r \in Row /\ (r.status \in Unsubmitted => ~r.submitted /\ r.cups = 0)

\* _fail_or_retry changes a job not yet submitted, or nothing, and returns.
LEMMA FailOrRetryOutcome ==
    ASSUME NEW m \in Manager, NEW j \in Job, NEW seen \in Row, NEW r,
           NEW retry \in BOOLEAN, Sound(r), FailOrRetry(m, j, seen, r, retry)
    PROVE  Outcome(m, j, r)
<1> DEFINE attempts == seen.attempts + 1
           final    == ~retry \/ IsLast(attempts)
           new      == [r EXCEPT !.status   = IF final THEN "failed" ELSE "pending",
                                 !.attempts = attempts,
                                 !.due      = @ /\ final,
                                 !.cups     = 0]
<1>1. new \in Row /\ new.submitted = r.submitted /\ new.cups = 0
      /\ new.status = IF final THEN "failed" ELSE "pending"
  <2>1. attempts \in Nat /\ r \in Row
    BY DEF Row, Sound
  <2>2. (r.due /\ final) \in BOOLEAN
    OBVIOUS
  <2>3. (IF final THEN "failed" ELSE "pending") \in Status
    BY DEF Status, Unsubmitted, Terminal
  <2> HIDE DEF attempts, final
  <2> QED BY <2>1, <2>2, <2>3 DEF Row
<1>2. Write(j, r, Unsubmitted, new, final) /\ work' = [work EXCEPT ![m] = Idle]
  BY DEF FailOrRetry, Leave
<1> HIDE DEF new, final
<1>3. CASE Updatable(r, Unsubmitted, new.status)
  <2>1. Reworked(r, new)
    BY <1>1, <1>3 DEF Updatable, Reworked, Sound, Unsubmitted
  <2>2. jobs' = [jobs EXCEPT ![j] = new]
    BY <1>2, <1>3 DEF Write
  <2>3. \/ told' = told /\ new.status # "failed"
        \/ new.status = "failed" /\ told' = [told EXCEPT ![j] = Report("failed", new)]
    <3>1. CASE final
      BY <1>1, <1>2, <1>3, <3>1 DEF Write
    <3>2. CASE ~final
      BY <1>1, <1>2, <1>3, <3>2 DEF Write
    <3> QED BY <3>1, <3>2
  <2> QED BY <1>1, <1>2, <2>1, <2>2, <2>3, NoRowIsRow DEF Outcome
<1>4. CASE ~Updatable(r, Unsubmitted, new.status)
  BY <1>2, <1>4, NoRowIsRow DEF Write, Outcome, Kept, Sound
<1> QED BY <1>3, <1>4

\* begin_submit either commits the submission and goes to CUPS, or the
\* coroutine leaves the job alone.
LEMMA SubmitOutcome ==
    ASSUME NEW m \in Manager, NEW j \in Job, NEW r, Sound(r), Submit(m, j, r)
    PROVE  Outcome(m, j, r)
<1> DEFINE w == [Idle EXCEPT !.pc = "submit", !.job = j, !.row = NoRow]
<1>1. w \in Works /\ w.pc = "submit" /\ w.job = j
  BY NoRowIsRow DEF Works, Idle, Pc
<1>2. CASE CanBeginSubmit(r)
  <2>1. BeginSubmit(r) \in Row /\ Committed(r, BeginSubmit(r))
    BY <1>2, RowStatements DEF CanBeginSubmit, BeginSubmit, Committed, Sound, Row
  <2>2. jobs' = [jobs EXCEPT ![j] = BeginSubmit(r)] /\ work' = [work EXCEPT ![m] = w] /\ told' = told
    BY <1>2 DEF Submit, AtAwait
  <2> HIDE DEF w
  <2> QED BY <1>1, <2>1, <2>2 DEF Outcome, Committed
<1>3. CASE ~CanBeginSubmit(r)
  BY <1>3, NoRowIsRow DEF Submit, Leave, Outcome, Kept, Sound
<1> QED BY <1>2, <1>3

\* With the PDF at hand: one of the outcomes above, whatever the backend.
LEMMA ProceedOutcome ==
    ASSUME NEW m \in Manager, NEW j \in Job \ legacy, NEW seen \in Row, NEW r, Sound(r),
           Proceed(m, j, seen, r)
    PROVE  Outcome(m, j, r)
<1> DEFINE w == [Idle EXCEPT !.pc = "intent", !.job = j, !.row = seen]
<1>1. w \in Works /\ w.pc = "intent" /\ w.job = j
  BY NoRowIsRow DEF Works, Idle, Pc
<1>2. CASE FailOrRetry(m, j, seen, r, TRUE)
  BY <1>2, FailOrRetryOutcome
<1>3. CASE /\ work' = [work EXCEPT ![m] = w]
           /\ jobs' = [jobs EXCEPT ![j] = r] /\ told' = told
  <2> HIDE DEF w
  <2> QED BY <1>1, <1>3 DEF Outcome, Kept, Sound
<1>4. CASE Submit(m, j, r)
  BY <1>4, SubmitOutcome
<1> QED BY <1>2, <1>3, <1>4 DEF Proceed, AtAwait

\* A step of a coroutine that is not yet at CUPS and has one of the outcomes
\* above keeps the invariant.
LEMMA BeforeSubmitInv ==
    ASSUME IInv, NEW m \in Manager, NEW j \in Job \ legacy,
           work[m].pc \in {"idle", "fetch", "intent", "granted", "denied"},
           Outcome(m, j, jobs[j]),
           \/ batch' = batch
           \/ batch' = [batch EXCEPT ![m] = [batch[m] EXCEPT ![j] = NoRow]],
           UNCHANGED <<cancelling, cups, configured, available, issued, granted, past>>
    PROVE  IInv'
<1>0. PICK new \in Row, w \in Works :
        /\ jobs' = [jobs EXCEPT ![j] = new]
        /\ work' = [work EXCEPT ![m] = w]
        /\ \/ told' = told /\ (new.status = "failed" => jobs[j].status = "failed")
           \/ new.status = "failed" /\ told' = [told EXCEPT ![j] = Report("failed", new)]
        /\ \/ /\ Kept(jobs[j], new) \/ Reworked(jobs[j], new)
              /\ w.pc \in {"idle", "fetch", "intent"}
              /\ w.pc # "idle" => w.job \in Job \ legacy
           \/ Committed(jobs[j], new) /\ w.pc = "submit" /\ w.job = j
  BY DEF Outcome
<1>1. /\ jobs \in [Job -> Row] /\ jobs[j] \in Row
      /\ work \in [Manager -> Works]
      /\ batch \in [Manager -> [Job -> Row]]
      /\ told \in [Job -> Reports]
      /\ RowInv(j)
  BY DEF IInv, TypeOK, Reports, Works
<1>2. TypeOK'
  <2>1. jobs' \in [Job -> Row]
    BY <1>0, <1>1
  <2>2. work' \in [Manager -> Works]
    BY <1>0, <1>1
  <2>3. batch' \in [Manager -> [Job -> Row]]
    <3>1. [batch[m] EXCEPT ![j] = NoRow] \in [Job -> Row]
      BY <1>0, <1>1, NoRowIsRow
    <3>2. CASE batch' = [batch EXCEPT ![m] = [batch[m] EXCEPT ![j] = NoRow]]
      BY <1>1, <3>1, <3>2
    <3> QED BY <1>1, <3>2
  <2>4. told' \in [Job -> Reports]
    <3>1. Report("failed", new) \in Reports
      BY ReportFacts DEF Status, Terminal
    <3>2. CASE told' = [told EXCEPT ![j] = Report("failed", new)]
      BY <1>0, <1>1, <3>1, <3>2
    <3> QED BY <1>0, <1>1, <3>2
  <2> QED BY <2>1, <2>2, <2>3, <2>4 DEF IInv, TypeOK, Reports, Works
<1>3. jobs'[j] = new /\ \A k \in Job \ {j} : jobs'[k] = jobs[k] /\ told'[k] = told[k]
  BY <1>0, <1>1
<1>4. work'[m] = w /\ \A n \in Manager \ {m} : work'[n] = work[n]
  BY <1>0, <1>1
<1>5. ~ \E n \in Manager : AtCups(n, j) /\ Committed(jobs[j], new)
  BY DEF IInv, WorkInv, AtCups, Committed, Unsubmitted
<1>6. ASSUME NEW k \in Job PROVE RowInv(k)' /\ Len(cups'[k]) <= 1
  <2>1. CASE k # j
    BY <2>1, <1>0, <1>3, <1>4, <1>1 DEF RowInv, AtCups, IInv
  <2>2. CASE k = j
    <3>1. told'[j] = told[j] \/ (new.status = "failed")
      BY <1>0, <1>1
    <3>2. \A n \in Manager : AtCups(n, j) => AtCups(n, j)'
      BY <1>0, <1>4 DEF AtCups
    <3>3. Committed(jobs[j], new) => AtCups(m, j)'
      BY <1>0, <1>3, <1>4 DEF AtCups, Kept, Reworked, Committed, Unsubmitted
    <3>4. /\ new.submitted <=> new.status \in {"submitting", "printing", "done", "uncertain"}
          /\ ~new.submitted => new.cups = 0 /\ cups[j] = <<>>
          /\ new.cups # 0 => new.cups = 1 /\ Len(cups[j]) = 1
          /\ new.status \in {"printing", "done"} => new.cups = 1
          /\ new.status = "done" => cups[j][1] = "completed"
          /\ cancelling[j] # "no" => new.status = "uncertain" /\ new.cups = 1
      BY <1>0, <1>1 DEF RowInv, Kept, Reworked, Committed, Unsubmitted
    <3>5. new.status = "submitting" => \E n \in Manager : AtCups(n, j)'
      BY <1>0, <1>1, <3>2, <3>3 DEF RowInv, Kept, Reworked, Committed, Unsubmitted
    <3>6. told'[j].status \in Terminal /\ told'[j].safe => new.status \in {"failed", "canceled"}
      BY <1>0, <1>1, <3>1 DEF RowInv, Kept, Reworked, Committed, Unsubmitted
    <3>7. RowInv(j)'
      BY <1>0, <1>3, <3>4, <3>5, <3>6 DEF RowInv
    <3> QED BY <2>2, <3>7 DEF IInv
  <2> QED BY <2>1, <2>2
<1>7. ASSUME NEW n \in Manager PROVE WorkInv(n)'
  <2>1. CASE n # m
    BY <2>1, <1>0, <1>1, <1>3, <1>4 DEF WorkInv, IInv, Kept, Reworked, Committed, Unsubmitted
  <2>2. CASE n = m
    <3>1. \A k \in Job : \/ batch[m][k] = batch'[m][k]
                         \/ batch'[m][k].cups = 0 /\ batch'[m][k].status = "absent"
      BY <1>0, <1>1, NoRowIsRow
    <3>2. \A k \in Job : /\ batch'[m][k].cups # 0 => batch'[m][k].cups = 1 /\ Len(cups[k]) = 1
                         /\ batch'[m][k].status # "absent" => k \notin legacy
      BY <3>1 DEF IInv, WorkInv
    <3> QED BY <2>2, <3>2, <1>0, <1>1, <1>3, <1>4 DEF WorkInv, RowInv, IInv, Kept, Reworked, Committed, Unsubmitted
  <2> QED BY <2>1, <2>2
<1>8. OneAtCups'
  BY <1>0, <1>4, <1>5 DEF OneAtCups, AtCups, IInv
<1> QED BY <1>2, <1>6, <1>7, <1>8 DEF IInv

\* What the invariant says about types, in the form the steps below use.
LEMMA Typing ==
    ASSUME IInv
    PROVE  /\ jobs \in [Job -> Row] /\ batch \in [Manager -> [Job -> Row]]
           /\ work \in [Manager -> Works]
           /\ told \in [Job -> Reports]
           /\ cups \in [Job -> Seq({"active", "completed", "aborted"})]
           /\ cancelling \in [Job -> {"no", "cups", "report"}]
           /\ \A j \in Job : Sound(jobs[j])
  BY DEF IInv, TypeOK, Works, Reports, RowInv, Sound, Unsubmitted

\* A manager that takes a job CUPS knows goes to poll it.
Polls(m, j) ==
    /\ batch[m][j].cups # 0
    /\ work' = [work EXCEPT ![m] = [Idle EXCEPT !.pc = "poll", !.job = j, !.id = batch[m][j].cups]]
    /\ UNCHANGED <<jobs, told>>

\* Taking any other job has one of the outcomes, however old the copy is.
LEMMA TakeJobOutcome ==
    ASSUME IInv, NEW m \in Manager, NEW j \in Job, TakeJob(m, j)
    PROVE  Outcome(m, j, jobs[j]) \/ Polls(m, j)
<1> DEFINE seen == batch[m][j]
<1>1. seen \in Row /\ Sound(jobs[j]) /\ j \in Job \ legacy
  BY Typing DEF TakeJob, IInv, WorkInv
<1>2. CASE FailOrRetry(m, j, seen, jobs[j], TRUE)
  BY <1>1, <1>2, FailOrRetryOutcome
<1>3. CASE Proceed(m, j, seen, jobs[j])
  BY <1>1, <1>3, ProceedOutcome
<1>4. CASE AtAwait(m, "fetch", j, seen) /\ UNCHANGED <<jobs, told>>
  <2> DEFINE w == [Idle EXCEPT !.pc = "fetch", !.job = j, !.row = seen]
  <2>1. w \in Works /\ w.pc = "fetch" /\ w.job = j
    BY <1>1, NoRowIsRow DEF Works, Idle, Pc
  <2>2. jobs' = [jobs EXCEPT ![j] = jobs[j]] /\ work' = [work EXCEPT ![m] = w] /\ told' = told
    BY <1>4, Typing DEF AtAwait
  <2> HIDE DEF w
  <2> QED BY <1>1, <2>1, <2>2 DEF Outcome, Kept, Sound
<1> QED BY <1>2, <1>3, <1>4 DEF TakeJob, Polls

\* Taking a job from the batch keeps the invariant.
LEMMA TakeJobInv ==
    ASSUME IInv, NEW m \in Manager, NEW j \in Job, TakeJob(m, j)
    PROVE  IInv'
<1> DEFINE seen == batch[m][j]
<1>1. /\ seen \in Row /\ j \in Job \ legacy
      /\ batch' = [batch EXCEPT ![m] = [batch[m] EXCEPT ![j] = NoRow]]
      /\ work[m].pc = "idle"
      /\ UNCHANGED <<cancelling, cups, configured, available, issued, granted, past>>
  BY Typing DEF TakeJob, IInv, WorkInv
<1>2. CASE Outcome(m, j, jobs[j])
  BY <1>1, <1>2, BeforeSubmitInv
<1>3. CASE Polls(m, j)
  <2> DEFINE w == [Idle EXCEPT !.pc = "poll", !.job = j, !.id = seen.cups]
  <2>1. w \in Works /\ w.pc = "poll" /\ w.job = j /\ w.id = seen.cups
    BY <1>1, NoRowIsRow DEF Works, Idle, Pc, Row
  <2>2. work' = [work EXCEPT ![m] = w]
    BY <1>3 DEF Polls
  <2>3. seen.cups = 1 /\ Len(cups[j]) = 1
    BY <1>3 DEF IInv, WorkInv, Polls
  <2> HIDE DEF w
  <2>4. work'[m] = w /\ \A n \in Manager \ {m} : work'[n] = work[n]
    BY <2>2, Typing
  <2>5. \A n \in Manager, k \in Job :
           batch'[n][k] = batch[n][k] \/ (batch'[n][k].cups = 0 /\ batch'[n][k].status = "absent")
    BY <1>1, Typing, NoRowIsRow
  <2>6. TypeOK'
    <3>1. batch' \in [Manager -> [Job -> Row]]
      <4>1. [batch[m] EXCEPT ![j] = NoRow] \in [Job -> Row]
        BY Typing, NoRowIsRow
      <4> QED BY <1>1, <4>1, Typing
    <3>2. work' \in [Manager -> Works]
      BY <2>1, <2>2, Typing
    <3> QED BY <3>1, <3>2, <1>1, <1>3 DEF IInv, TypeOK, Works, Polls
  <2>7. ASSUME NEW n \in Manager, NEW k \in Job PROVE AtCups(n, k)' <=> AtCups(n, k)
    BY <1>1, <2>1, <2>4 DEF AtCups
  <2>8. ASSUME NEW k \in Job PROVE RowInv(k)' /\ Len(cups'[k]) <= 1
    BY <1>1, <1>3, <2>7 DEF IInv, RowInv, Polls
  <2>9. ASSUME NEW n \in Manager PROVE WorkInv(n)'
    BY <1>1, <1>3, <2>1, <2>3, <2>4, <2>5 DEF IInv, WorkInv, Polls
  <2> QED BY <2>6, <2>7, <2>8, <2>9 DEF IInv, OneAtCups
<1> QED BY <1>2, <1>3, TakeJobOutcome

\* The end of a download or rendering has one of the outcomes.
LEMMA FetchOutcome ==
    ASSUME IInv, NEW m \in Manager, FetchOk(m) \/ FetchFails(m)
    PROVE  Outcome(m, work[m].job, jobs[work[m].job])
<1> DEFINE j   == work[m].job
           new == [jobs[j] EXCEPT !.status = "downloading", !.pdf = TRUE]
<1>1. /\ work[m].pc = "fetch" /\ j \in Job \ legacy /\ work[m].row \in Row
      /\ Sound(jobs[j]) /\ jobs[j] \in Row
      /\ UNCHANGED <<batch, cancelling, cups, configured, available, issued, granted, past>>
  BY Typing DEF FetchOk, FetchFails, IInv, WorkInv, Works
<1>3. CASE FetchFails(m)
  BY <1>1, <1>3, FailOrRetryOutcome DEF FetchFails
<1>4. CASE FetchOk(m) /\ Updatable(jobs[j], Unsubmitted, "downloading")
  <2>1. jobs[j].status \in Unsubmitted /\ ~jobs[j].submitted /\ jobs[j].cups = 0
    BY <1>1, <1>4 DEF Updatable, Sound
  <2>2. /\ new \in Row /\ new.status = "downloading"
        /\ ~new.submitted /\ new.cups = 0
    BY <1>1, <2>1 DEF Row, Status, Unsubmitted
  <2>3. Proceed(m, j, work[m].row, new)
    BY <1>4 DEF FetchOk
  <2> HIDE DEF new
  <2>4. Outcome(m, j, new)
    BY <1>1, <2>2, <2>3, ProceedOutcome DEF Sound
  <2> QED BY <2>1, <2>2, <2>4 DEF Outcome, Kept, Reworked, Committed, Unsubmitted
<1>5. CASE FetchOk(m) /\ ~Updatable(jobs[j], Unsubmitted, "downloading")
  <2>1. jobs' = [jobs EXCEPT ![j] = jobs[j]] /\ told' = told /\ work' = [work EXCEPT ![m] = Idle]
    BY <1>5, Typing DEF FetchOk, Leave
  <2> QED BY <1>1, <2>1, NoRowIsRow DEF Outcome, Kept
<1> QED BY <1>3, <1>4, <1>5

\* The end of a download or rendering keeps the invariant.
LEMMA FetchInv ==
    ASSUME IInv, NEW m \in Manager, FetchOk(m) \/ FetchFails(m)
    PROVE  IInv'
<1>1. /\ work[m].pc = "fetch" /\ work[m].job \in Job \ legacy
      /\ UNCHANGED <<batch, cancelling, cups, configured, available, issued, granted, past>>
  BY DEF FetchOk, FetchFails, IInv, WorkInv
<1> QED BY <1>1, FetchOutcome, BeforeSubmitInv

\* An answer to print_intent, or its absence, has one of the outcomes.
LEMMA IntentAnswerOutcome ==
    ASSUME IInv, NEW m \in Manager,
           IntentGranted(m) \/ IntentDenied(m) \/ IntentMissing(m)
    PROVE  Outcome(m, work[m].job, jobs[work[m].job])
<1> DEFINE j == work[m].job
<1>1. /\ work[m].pc \in {"intent", "granted", "denied"}
      /\ j \in Job \ legacy /\ work[m].row \in Row /\ Sound(jobs[j])
  BY Typing DEF IntentGranted, IntentDenied, IntentMissing, IInv, WorkInv, Works
<1>2. CASE Submit(m, j, jobs[j])
  BY <1>1, <1>2, SubmitOutcome
<1>3. CASE \E retry \in BOOLEAN : FailOrRetry(m, j, work[m].row, jobs[j], retry)
  BY <1>1, <1>3, FailOrRetryOutcome
<1> QED BY <1>2, <1>3 DEF IntentGranted, IntentDenied, IntentMissing

\* An answer to print_intent, or its absence, keeps the invariant.
LEMMA IntentAnswerInv ==
    ASSUME IInv, NEW m \in Manager,
           IntentGranted(m) \/ IntentDenied(m) \/ IntentMissing(m)
    PROVE  IInv'
<1>1. /\ work[m].pc \in {"intent", "granted", "denied"} /\ work[m].job \in Job \ legacy
      /\ UNCHANGED <<batch, cancelling, cups, configured, available, issued, granted, past>>
  BY DEF IntentGranted, IntentDenied, IntentMissing, IInv, WorkInv
<1> QED BY <1>1, IntentAnswerOutcome, BeforeSubmitInv

-----------------------------------------------------------------------------
(* Bookkeeping, and what happens outside the managers.                     *)

\* Only the row of j changes, and not what the invariant says of it.
LEMMA BookkeepingInv ==
    ASSUME IInv, NEW j \in Job, NEW new \in Row,
           jobs' = [jobs EXCEPT ![j] = new],
           \/ Kept(jobs[j], new)
           \/ Accepted(jobs[j], new),
           UNCHANGED <<batch, work, cancelling, cups, configured, available, issued,
                       granted, told, past>>
    PROVE  IInv'
<1>1. jobs'[j] = new /\ \A k \in Job \ {j} : jobs'[k] = jobs[k]
  BY Typing
<1>2. TypeOK'
  BY Typing DEF IInv, TypeOK
<1>3. \A m \in Manager, k \in Job : AtCups(m, k)' <=> AtCups(m, k)
  BY DEF AtCups
<1>4. ASSUME NEW k \in Job PROVE RowInv(k)' /\ Len(cups'[k]) <= 1
  <2>1. CASE k # j
    BY <1>1, <1>3, <2>1 DEF IInv, RowInv
  <2>2. CASE k = j
    BY <1>1, <1>3, <2>2 DEF IInv, RowInv, Kept, Accepted, Terminal
  <2> QED BY <2>1, <2>2
<1>5. ASSUME NEW m \in Manager PROVE WorkInv(m)'
  BY <1>1 DEF IInv, WorkInv, Kept, Accepted
<1> QED BY <1>2, <1>3, <1>4, <1>5 DEF IInv, OneAtCups

\* A print_job message keeps the invariant, duplicate or not.
LEMMA EnqueueInv ==
    ASSUME IInv, NEW j \in Job, Enqueue(j)
    PROVE  IInv'
<1>1. PICK o \in Orders(j) : jobs' = [jobs EXCEPT ![j] = AddJob(jobs[j], o)]
  BY DEF Enqueue
<1>2. o \in [intent : BOOLEAN, gen : Nat]
  BY ConstantsAssumption DEF Orders, IInv, TypeOK
<1>3. jobs[j] \in Row /\ RowInv(j)
  BY Typing DEF IInv
<1>4. AddJob(jobs[j], o) \in Row
  BY <1>2, <1>3, RowStatements
<1>5. LET r == jobs[j]  n == AddJob(r, o) IN
      \/ Kept(r, n)
      \/ Accepted(r, n)
  BY <1>3 DEF AddJob, InsertOrIgnore, TakesIntent, NoRow, Row, Kept, Accepted, Unsubmitted
<1> QED BY <1>1, <1>4, <1>5, BookkeepingInv DEF Enqueue

\* The end of a retry delay keeps the invariant.
LEMMA BackoffElapsesInv ==
    ASSUME IInv, NEW j \in Job, BackoffElapses(j)
    PROVE  IInv'
<1>1. [jobs[j] EXCEPT !.due = TRUE] \in Row /\ Kept(jobs[j], [jobs[j] EXCEPT !.due = TRUE])
  BY Typing DEF Row, Kept
<1> QED BY <1>1, BookkeepingInv DEF BackoffElapses

\* cleanup_done keeps the invariant.
LEMMA CleanupInv ==
    ASSUME IInv, NEW j \in Job, Cleanup(j)
    PROVE  IInv'
<1>1. CleanUp(jobs[j]) \in Row /\ Kept(jobs[j], CleanUp(jobs[j]))
  <2>1. jobs[j] \in Row /\ CleanUp(jobs[j]) \in Row
    BY Typing, RowStatements
  <2> QED BY <2>1 DEF CleanUp, Kept, Row
<1> QED BY <1>1, BookkeepingInv DEF Cleanup

\* Configuration, cloud and the cloud's decisions touch no row and no CUPS job.
LEMMA OutsideInv ==
    ASSUME IInv,
           \/ ConfigSync
           \/ \E j \in Job : CloudDispatches(j)
           \/ \E m \in Manager : CloudGrants(m) \/ CloudDenies(m)
    PROVE  IInv'
<1>1. UNCHANGED <<jobs, batch, cancelling, cups, told, past>>
  BY DEF ConfigSync, CloudDispatches, CloudGrants, CloudDenies
<1>2. TypeOK' /\ \A n \in Manager :
         \/ work'[n] = work[n]
         \/ /\ work[n].pc = "intent" /\ work'[n].pc \in {"granted", "denied"}
            /\ work'[n].job = work[n].job
  <2>1. CASE ConfigSync
    BY <2>1 DEF ConfigSync, IInv, TypeOK
  <2>2. CASE \E j \in Job : CloudDispatches(j)
    BY <2>2, ConstantsAssumption DEF CloudDispatches, IInv, TypeOK
  <2>3. CASE \E m \in Manager : CloudGrants(m) \/ CloudDenies(m)
    <3>1. PICK m \in Manager : CloudGrants(m) \/ CloudDenies(m)
      BY <2>3
    <3>2. work[m].pc = "intent" /\ work[m].job \in Job
      BY <3>1 DEF CloudGrants, CloudDenies, IInv, WorkInv
    <3>3. granted' \subseteq Job \X (0..MaxGen) /\ issued' = issued
          /\ configured' = configured /\ available' = available
      BY <3>1, <3>2 DEF CloudGrants, CloudDenies, IInv, TypeOK
    <3>4. PICK pc \in {"granted", "denied"} : work' = [work EXCEPT ![m] = [work[m] EXCEPT !.pc = pc]]
      BY <3>1 DEF CloudGrants, CloudDenies
    <3>5. work' \in [Manager -> Works]
      BY <3>4, Typing DEF Works, Pc
    <3>6. TypeOK'
      BY <1>1, <3>3, <3>5 DEF IInv, TypeOK, Works
    <3> QED BY <3>2, <3>4, <3>6, Typing DEF Works
  <2> QED BY <2>1, <2>2, <2>3
<1>3. \A n \in Manager, k \in Job : AtCups(n, k)' <=> AtCups(n, k)
  BY <1>2 DEF AtCups
<1>4. ASSUME NEW k \in Job PROVE RowInv(k)' /\ Len(cups'[k]) <= 1
  BY <1>1, <1>3 DEF IInv, RowInv
<1>5. ASSUME NEW n \in Manager PROVE WorkInv(n)'
  BY <1>1, <1>2 DEF IInv, WorkInv
<1> QED BY <1>2, <1>3, <1>4, <1>5 DEF IInv, OneAtCups

\* Reading the due jobs keeps the invariant: "submitting" is not read.
LEMMA StartPassInv ==
    ASSUME IInv, NEW m \in Manager, StartPass(m)
    PROVE  IInv'
<1> DEFINE b == [j \in Job |-> IF IsDue(jobs[j]) THEN Snapshot(jobs[j]) ELSE NoRow]
<1>1. batch' = [batch EXCEPT ![m] = b]
      /\ UNCHANGED <<jobs, work, cancelling, cups, configured, available, issued,
                     granted, told, past>>
  BY DEF StartPass
<1>2. \A j \in Job : /\ b[j] \in Row /\ (b[j].cups # 0 => b[j].cups = jobs[j].cups)
                     /\ j \in legacy => b[j].status = "absent"
  <2> TAKE j \in Job
  <2>1. jobs[j] \in Row /\ Snapshot(jobs[j]) \in Row
    BY Typing, RowStatements
  <2>2. Snapshot(jobs[j]).cups = jobs[j].cups
    BY <2>1 DEF Snapshot, Row
  <2>3. b[j] = IF IsDue(jobs[j]) THEN Snapshot(jobs[j]) ELSE NoRow
    OBVIOUS
  <2>4. j \in legacy => ~IsDue(jobs[j])
    BY DEF IInv, RowInv, IsDue, Unsubmitted
  <2> QED BY <2>1, <2>2, <2>3, <2>4, NoRowIsRow
<1>3. b \in [Job -> Row]
  BY <1>2
<1> HIDE DEF b
<1>4. TypeOK'
  BY <1>1, <1>3, Typing DEF IInv, TypeOK
<1>5. \A n \in Manager, k \in Job : AtCups(n, k)' <=> AtCups(n, k)
  BY <1>1 DEF AtCups
<1>6. ASSUME NEW k \in Job PROVE RowInv(k)' /\ Len(cups'[k]) <= 1
  BY <1>1, <1>5 DEF IInv, RowInv
<1>7. ASSUME NEW n \in Manager PROVE WorkInv(n)'
  <2>1. \A k \in Job : /\ batch'[n][k].cups # 0 => batch'[n][k].cups = 1 /\ Len(cups[k]) = 1
                       /\ batch'[n][k].status # "absent" => k \notin legacy
    <3>1. CASE n = m
      BY <1>1, <1>2, <3>1, Typing DEF IInv, RowInv
    <3>2. CASE n # m
      BY <1>1, <3>2, Typing DEF IInv, WorkInv
    <3> QED BY <3>1, <3>2
  <2> QED BY <1>1, <2>1 DEF IInv, WorkInv
<1> QED BY <1>4, <1>5, <1>6, <1>7 DEF IInv, OneAtCups

-----------------------------------------------------------------------------
(* CUPS and the cancels.                                                   *)

CupsState == {"active", "completed", "aborted"}

\* CUPS ends a job or nothing: no job appears, no completed one changes.
CupsKept ==
    /\ cups' \in [Job -> Seq(CupsState)]
    /\ \A k \in Job : /\ Len(cups'[k]) = Len(cups[k])
                      /\ cups[k] = <<>> => cups'[k] = <<>>
                      /\ cups[k][1] = "completed" => cups'[k][1] = "completed"

\* A CUPS job that ends, or not, leaves the number of CUPS jobs as it was.
LEMMA CupsKeptRule ==
    ASSUME IInv, NEW j \in Job, NEW id \in DOMAIN cups[j],
           \/ UNCHANGED cups
           \/ \E s \in {"completed", "aborted"} :
                 cups[j][id] = "active" /\ cups' = [cups EXCEPT ![j] = [cups[j] EXCEPT ![id] = s]]
    PROVE  CupsKept
<1>1. cups \in [Job -> Seq(CupsState)]
  BY Typing DEF CupsState
<1>2. CASE UNCHANGED cups
  BY <1>1, <1>2 DEF CupsKept
<1>3. ASSUME NEW s \in {"completed", "aborted"}, cups[j][id] = "active",
             cups' = [cups EXCEPT ![j] = [cups[j] EXCEPT ![id] = s]]
      PROVE  CupsKept
  <2> DEFINE c == [cups[j] EXCEPT ![id] = s]
  <2>1. cups[j] \in Seq(CupsState) /\ id \in 1..Len(cups[j])
    BY <1>1
  <2>2. c \in Seq(CupsState) /\ Len(c) = Len(cups[j])
    BY <2>1 DEF CupsState
  <2>3. cups[j][1] = "completed" => c[1] = "completed"
    BY <1>3, <2>1
  <2>4. cups[j] # <<>>
    BY <2>1
  <2>5. cups'[j] = c /\ \A k \in Job \ {j} : cups'[k] = cups[k]
    BY <1>1, <1>3
  <2>6. cups' \in [Job -> Seq(CupsState)]
    BY <1>1, <1>3, <2>2
  <2> QED BY <2>2, <2>3, <2>4, <2>5, <2>6 DEF CupsKept
<1> QED BY <1>2, <1>3

\* A CUPS job that ends keeps the invariant.
LEMMA CupsFinishesInv ==
    ASSUME IInv, NEW j \in Job, CupsFinishes(j)
    PROVE  IInv'
<1>1. CupsKept
  BY CupsKeptRule DEF CupsFinishes
<1>2. UNCHANGED <<jobs, batch, work, cancelling, configured, available, issued,
                  granted, told, past>>
  BY DEF CupsFinishes
<1>3. \A n \in Manager, k \in Job : AtCups(n, k)' <=> AtCups(n, k)
  BY <1>2 DEF AtCups
<1>4. TypeOK'
  BY <1>1, <1>2 DEF IInv, TypeOK, CupsKept, CupsState
<1>5. ASSUME NEW k \in Job PROVE RowInv(k)' /\ Len(cups'[k]) <= 1
  BY <1>1, <1>2, <1>3 DEF IInv, RowInv, CupsKept
<1>6. ASSUME NEW n \in Manager PROVE WorkInv(n)'
  BY <1>1, <1>2 DEF IInv, WorkInv, CupsKept
<1> QED BY <1>3, <1>4, <1>5, <1>6 DEF IInv, OneAtCups

\* A manager takes a canceled job back from CUPS, or reports that it did.
LEMMA UndoInv ==
    ASSUME IInv, NEW m \in Manager, Undo(m) \/ UndoReported(m)
    PROVE  IInv'
<1> DEFINE j == work[m].job
<1>1. /\ work[m].pc \in {"undo", "undone"} /\ j \in Job \ legacy
      /\ jobs[j] \in Row /\ jobs[j].status = "uncertain" /\ jobs[j].submitted
      /\ work[m].id = 1 /\ Len(cups[j]) = 1 /\ 1 \in DOMAIN cups[j]
  BY Typing DEF Undo, UndoReported, IInv, WorkInv, RowInv
<1>2. CupsKept
  BY <1>1, CupsKeptRule, Typing DEF Undo, UndoReported, CupsCancel
<1>3. PICK w \in Works :
         work' = [work EXCEPT ![m] = w] /\ (w.pc = "idle" \/ w = [work[m] EXCEPT !.pc = "undone"])
  <2>1. CASE Undo(m)
    <3>1. [work[m] EXCEPT !.pc = "undone"] \in Works
      BY Typing DEF Works, Pc
    <3> QED BY <2>1, <3>1 DEF Undo
  <2>2. CASE UndoReported(m)
    BY <2>2, NoRowIsRow DEF UndoReported, Leave
  <2> QED BY <2>1, <2>2
<1>4. work'[m] = w /\ \A n \in Manager \ {m} : work'[n] = work[n]
  BY <1>3, Typing
<1>5. w.pc \in {"idle", "undone"} /\ (w.pc = "undone" => w.job = j /\ w.id = 1)
  BY <1>1, <1>3, Typing DEF Works
<1>6. /\ told' = told \/ told' = [told EXCEPT ![j] = Report("uncertain", jobs[j])]
      /\ UNCHANGED <<jobs, batch, cancelling, configured, available, issued, granted, past>>
  BY <1>1 DEF Undo, UndoReported
<1>7. /\ told' \in [Job -> Reports]
      /\ \A k \in Job : told'[k] = told[k] \/ (k = j /\ ~told'[k].safe)
  <2>1. Report("uncertain", jobs[j]) \in Reports /\ ~Report("uncertain", jobs[j]).safe
    BY <1>1, ReportFacts DEF Status, Terminal
  <2>2. CASE told' = [told EXCEPT ![j] = Report("uncertain", jobs[j])]
    BY <2>1, <2>2, Typing
  <2> QED BY <1>6, <2>2, Typing
<1>8. TypeOK'
  BY <1>2, <1>3, <1>6, <1>7, Typing DEF IInv, TypeOK, CupsKept, CupsState, Reports, Works
<1>9. \A n \in Manager, k \in Job : AtCups(n, k)' <=> AtCups(n, k)
  BY <1>1, <1>4, <1>5 DEF AtCups
<1>10. ASSUME NEW k \in Job PROVE RowInv(k)' /\ Len(cups'[k]) <= 1
  BY <1>2, <1>6, <1>7, <1>9 DEF IInv, RowInv, CupsKept
<1>11. ASSUME NEW n \in Manager PROVE WorkInv(n)'
  BY <1>1, <1>2, <1>4, <1>5, <1>6 DEF IInv, WorkInv, CupsKept
<1> QED BY <1>8, <1>9, <1>10, <1>11 DEF IInv, OneAtCups

\* CUPS accepting a job keeps the invariant: it is the only one for its job.
LEMMA CupsAcceptsInv ==
    ASSUME IInv, NEW m \in Manager, CupsAccepts(m)
    PROVE  IInv'
<1> DEFINE j == work[m].job
           w == [work[m] EXCEPT !.pc = "accepted", !.id = Len(cups[j]) + 1]
<1>1. /\ work[m].pc = "submit" /\ j \in Job \ legacy /\ cups[j] = <<>>
      /\ jobs[j].cups = 0 /\ jobs[j].status \in {"submitting", "uncertain"}
      /\ jobs[j].submitted
  BY DEF CupsAccepts, IInv, WorkInv, RowInv
<1>2. /\ cups' = [cups EXCEPT ![j] = Append(cups[j], "active")]
      /\ work' = [work EXCEPT ![m] = w]
      /\ UNCHANGED <<jobs, batch, cancelling, configured, available, issued,
                     granted, told, past>>
  BY DEF CupsAccepts
<1>3. Append(cups[j], "active") = <<"active">> /\ Len(cups[j]) = 0
  BY <1>1
<1>4. w \in Works /\ w.pc = "accepted" /\ w.job = j /\ w.id = 1
  <2>1. work[m] \in Works
    BY Typing
  <2>2. Len(cups[j]) + 1 = 1
    BY <1>3
  <2>3. w = [work[m] EXCEPT !.pc = "accepted", !.id = 1]
    BY <2>2
  <2> HIDE DEF w
  <2> QED BY <2>1, <2>3 DEF Works, Pc
<1> HIDE DEF w
<1>5. /\ work'[m] = w /\ \A n \in Manager \ {m} : work'[n] = work[n]
      /\ cups'[j] = <<"active">> /\ Len(cups'[j]) = 1 /\ \A k \in Job \ {j} : cups'[k] = cups[k]
  BY <1>1, <1>2, <1>3, Typing
<1>6. \A n \in Manager, k \in Job : AtCups(n, k)' <=> AtCups(n, k)
  BY <1>1, <1>4, <1>5 DEF AtCups
<1>7. TypeOK'
  <2>1. <<"active">> \in Seq(CupsState)
    BY DEF CupsState
  <2>2. cups' \in [Job -> Seq(CupsState)]
    BY <1>2, <1>3, <2>1, Typing DEF CupsState
  <2>3. work' \in [Manager -> Works]
    BY <1>2, <1>4, Typing
  <2> QED BY <1>2, <2>2, <2>3 DEF IInv, TypeOK, CupsState, Works
<1>8. ASSUME NEW k \in Job PROVE RowInv(k)' /\ Len(cups'[k]) <= 1
  BY <1>1, <1>2, <1>5, <1>6 DEF IInv, RowInv
<1>9. ASSUME NEW n \in Manager PROVE WorkInv(n)'
  <2>1. n # m => ~(work[n].pc = "submit" /\ work[n].job = j)
    BY <1>1 DEF IInv, OneAtCups, AtCups
  <2>2. \A k \in Job : Len(cups[k]) = 1 => cups'[k] = cups[k]
    BY <1>3, <1>5
  <2> QED BY <1>1, <1>2, <1>4, <1>5, <2>1, <2>2 DEF IInv, WorkInv
<1> QED BY <1>6, <1>7, <1>8, <1>9 DEF IInv, OneAtCups

\* Asking CUPS for a state keeps the invariant: "done" was true when read.
LEMMA PollInv ==
    ASSUME IInv, NEW m \in Manager, Poll(m)
    PROVE  IInv'
<1> DEFINE j == work[m].job
<1>1. /\ work[m].pc = "poll" /\ j \in Job \ legacy /\ work[m].id = 1 /\ Len(cups[j]) = 1
      /\ UNCHANGED <<jobs, batch, cancelling, cups, configured, available, issued,
                     granted, told, past>>
  BY DEF Poll, IInv, WorkInv
<1>2. PICK s \in {"unknown", CupsSays(cups[j][work[m].id])} :
         work' = [work EXCEPT ![m] = [work[m] EXCEPT !.pc = "polled", !.seen = s]]
  BY DEF Poll
<1>3. s \in Seen /\ (s = "done" => cups[j][1] = "completed")
  BY <1>1, <1>2 DEF CupsSays, Seen
<1> DEFINE w == [work[m] EXCEPT !.pc = "polled", !.seen = s]
<1>4. w \in Works /\ w.pc = "polled" /\ w.job = j /\ w.id = 1 /\ w.seen = s
  BY <1>1, <1>3, Typing DEF Works, Pc
<1>5. work' = [work EXCEPT ![m] = w]
  BY <1>2
<1> HIDE DEF w
<1>6. work'[m] = w /\ \A n \in Manager \ {m} : work'[n] = work[n]
  BY <1>5, Typing
<1>7. TypeOK'
  BY <1>1, <1>4, <1>5, Typing DEF IInv, TypeOK, Works
<1>8. \A n \in Manager, k \in Job : AtCups(n, k)' <=> AtCups(n, k)
  BY <1>1, <1>4, <1>6 DEF AtCups
<1>9. ASSUME NEW k \in Job PROVE RowInv(k)' /\ Len(cups'[k]) <= 1
  BY <1>1, <1>8 DEF IInv, RowInv
<1>10. ASSUME NEW n \in Manager PROVE WorkInv(n)'
  BY <1>1, <1>3, <1>4, <1>6 DEF IInv, WorkInv
<1> QED BY <1>7, <1>8, <1>9, <1>10 DEF IInv, OneAtCups

-----------------------------------------------------------------------------
(* After the submission.                                                   *)

\* How a submitted row changes when its manager lets go of it.
Settled(o, n) == /\ o.status \in {"submitting", "printing"} /\ n.status = "uncertain"
                 /\ n.submitted /\ n.cups = o.cups
Finished(o, n) == /\ o.status = "printing" /\ n.status = "done"
                  /\ n.submitted /\ n.cups = o.cups

\* A coroutine that leaves its job "printing", finished or unclear keeps the
\* invariant.
LEMMA LetGoInv ==
    ASSUME IInv, NEW m \in Manager, NEW j \in Job \ legacy, NEW new \in Row,
           jobs' = [jobs EXCEPT ![j] = new],
           work' = [work EXCEPT ![m] = Idle],
           \/ told' = told
           \/ new.submitted /\ told' = [told EXCEPT ![j] = Report(new.status, new)],
           \/ Kept(jobs[j], new) /\ (AtCups(m, j) => new.status # "submitting")
           \/ Settled(jobs[j], new)
           \/ Finished(jobs[j], new) /\ cups[j][1] = "completed",
           AtCups(m, j) \/ work[m].pc = "polled",
           UNCHANGED <<batch, cancelling, cups, configured, available, issued,
                       granted, past>>
    PROVE  IInv'
<1>1. jobs'[j] = new /\ \A k \in Job \ {j} : jobs'[k] = jobs[k]
  BY Typing
<1>2. work'[m].pc = "idle" /\ \A n \in Manager \ {m} : work'[n] = work[n]
  BY Typing, NoRowIsRow
<1>3. /\ told' \in [Job -> Reports]
      /\ \A k \in Job : told'[k] = told[k] \/ (k = j /\ ~told'[k].safe)
  <2>1. new.status \in Status \cup {"absent"}
    BY DEF Row
  <2>2. Report(new.status, new) \in Reports
        /\ (new.submitted => ~Report(new.status, new).safe)
    BY <2>1, ReportFacts
  <2>3. CASE new.submitted /\ told' = [told EXCEPT ![j] = Report(new.status, new)]
    BY <2>2, <2>3, Typing
  <2> QED BY <2>3, Typing
<1>4. TypeOK'
  BY <1>3, Typing, NoRowIsRow DEF IInv, TypeOK, Reports, Works
<1>5. \A n \in Manager \ {m}, k \in Job : AtCups(n, k)' <=> AtCups(n, k)
  BY <1>2 DEF AtCups
<1>6. \A k \in Job : ~AtCups(m, k)'
  BY <1>2 DEF AtCups
<1>7. ASSUME NEW k \in Job PROVE RowInv(k)' /\ Len(cups'[k]) <= 1
  <2>1. CASE k # j
    <3>1. ~AtCups(m, k)
      BY <2>1 DEF AtCups
    <3>2. (\E n \in Manager : AtCups(n, k)) => \E n \in Manager : AtCups(n, k)'
      BY <3>1, <1>5
    <3> QED BY <1>1, <1>3, <2>1, <3>2 DEF IInv, RowInv
  <2>2. CASE k = j
    <3>1. RowInv(j) /\ Len(cups[j]) <= 1
      BY DEF IInv
    <3>2. /\ new.submitted <=> new.status \in {"submitting", "printing", "done", "uncertain"}
          /\ ~new.submitted => new.cups = 0 /\ cups[j] = <<>>
          /\ new.cups # 0 => new.cups = 1 /\ Len(cups[j]) = 1
          /\ new.status \in {"printing", "done"} => new.cups = 1
          /\ new.status = "done" => cups[j][1] = "completed"
          /\ cancelling[j] # "no" => new.status = "uncertain" /\ new.cups = 1
      BY <3>1 DEF RowInv, Kept, Settled, Finished
    <3>3. new.status = "submitting" => \E n \in Manager : AtCups(n, j)'
      BY <3>1, <1>5 DEF RowInv, Kept, Settled, Finished
    <3>4. told'[j].status \in Terminal /\ told'[j].safe => new.status \in {"failed", "canceled"}
      BY <3>1, <1>3 DEF RowInv, Kept, Settled, Finished
    <3>5. RowInv(j)'
      BY <1>1, <3>2, <3>3, <3>4 DEF RowInv
    <3> QED BY <2>2, <3>1, <3>5
  <2> QED BY <2>1, <2>2
<1>8. ASSUME NEW n \in Manager PROVE WorkInv(n)'
  BY <1>1, <1>2 DEF IInv, WorkInv, Kept, Settled, Finished
<1> QED BY <1>4, <1>5, <1>6, <1>7, <1>8 DEF IInv, OneAtCups

\* _uncertain on a row that is "submitting", "printing" or already unclear.
LEMMA UncertainLetsGo ==
    ASSUME NEW j \in Job, NEW r \in Row, Uncertain(j, r), r.submitted,
           r.status \in {"submitting", "printing", "uncertain"}
    PROVE  \E new \in Row :
              /\ jobs' = [jobs EXCEPT ![j] = new]
              /\ told' = [told EXCEPT ![j] = Report(new.status, new)]
              /\ new.status = "uncertain" /\ new.submitted /\ new.cups = r.cups
<1> DEFINE new == [r EXCEPT !.status = "uncertain"]
<1>1. new \in Row /\ new.status = "uncertain" /\ new.submitted /\ new.cups = r.cups
  BY DEF Row, Status, Terminal
<1>2. Write(j, r, AnyStatus, new, TRUE)
  BY DEF Uncertain
<1> HIDE DEF new
<1>3. Updatable(r, AnyStatus, new.status)
  BY <1>1 DEF Updatable, AnyStatus, Status, Unsubmitted, Terminal
<1> QED BY <1>1, <1>2, <1>3 DEF Write

\* An exception out of print_file keeps the invariant: the job is unclear.
LEMMA PrintRaisesInv ==
    ASSUME IInv, NEW m \in Manager, PrintRaises(m)
    PROVE  IInv'
<1> DEFINE j == work[m].job
<1>1. /\ AtCups(m, j) /\ j \in Job \ legacy /\ jobs[j] \in Row
      /\ jobs[j].status \in {"submitting", "uncertain"} /\ jobs[j].submitted
  BY Typing DEF PrintRaises, IInv, WorkInv, RowInv, AtCups
<1>2. Uncertain(j, jobs[j]) /\ work' = [work EXCEPT ![m] = Idle]
      /\ UNCHANGED <<batch, cancelling, cups, configured, available, issued, granted, past>>
  BY DEF PrintRaises, Leave
<1>3. PICK new \in Row :
         /\ jobs' = [jobs EXCEPT ![j] = new]
         /\ told' = [told EXCEPT ![j] = Report(new.status, new)]
         /\ new.status = "uncertain" /\ new.submitted /\ new.cups = jobs[j].cups
  BY <1>1, <1>2, UncertainLetsGo
<1>4. Kept(jobs[j], new) \/ Settled(jobs[j], new)
  BY <1>1, <1>3 DEF Kept, Settled, Row
<1> QED BY <1>1, <1>2, <1>3, <1>4, LetGoInv

\* Applying a polled state keeps the invariant, also if the row has changed
\* since the poll.
LEMMA ApplyPollInv ==
    ASSUME IInv, NEW m \in Manager, ApplyPoll(m)
    PROVE  IInv'
<1> DEFINE j   == work[m].job
           r   == jobs[j]
           new == [r EXCEPT !.failures = 0]
           count == [r EXCEPT !.failures = @ + 1]
<1>1. /\ work[m].pc = "polled" /\ ~AtCups(m, j) /\ j \in Job \ legacy /\ r \in Row
      /\ work[m].seen = "done" => cups[j][1] = "completed"
      /\ r.status = "printing" => r.submitted
      /\ work' = [work EXCEPT ![m] = Idle]
      /\ UNCHANGED <<batch, cancelling, cups, configured, available, issued, granted, past>>
  BY Typing DEF ApplyPoll, Leave, IInv, WorkInv, RowInv, AtCups
<1>2. CASE UNCHANGED <<jobs, told>>
  <2>1. jobs' = [jobs EXCEPT ![j] = r] /\ Kept(r, r)
    BY <1>2, Typing DEF Kept
  <2> QED BY <1>1, <1>2, <2>1, LetGoInv
<1>3. new \in Row /\ count \in Row /\ Kept(r, new) /\ Kept(r, count)
  BY <1>1 DEF Row, Kept
<1> HIDE DEF new, count
<1>4. ASSUME NEW s \in Row, Kept(r, s), Uncertain(j, s), r.status = "printing" PROVE IInv'
  <2>1. s.submitted /\ s.status = "printing"
    BY <1>1, <1>4 DEF Kept
  <2>2. PICK n \in Row :
           /\ jobs' = [jobs EXCEPT ![j] = n]
           /\ told' = [told EXCEPT ![j] = Report(n.status, n)]
           /\ n.status = "uncertain" /\ n.submitted /\ n.cups = s.cups
    BY <1>1, <1>4, <2>1, UncertainLetsGo
  <2>3. Settled(r, n)
    BY <1>4, <2>2 DEF Kept, Settled
  <2> QED BY <1>1, <2>2, <2>3, LetGoInv
<1>5. CASE work[m].seen = "unknown" /\ CountFailure(j)
  <2>1. CASE jobs' = [jobs EXCEPT ![j] = count] /\ told' = told
    BY <1>1, <1>3, <2>1, LetGoInv
  <2>2. CASE r.status = "printing" /\ Uncertain(j, count)
    BY <1>3, <1>4, <2>2
  <2> QED BY <1>2, <1>5, <2>1, <2>2 DEF CountFailure, count
<1>6. CASE /\ work[m].seen = "done" /\ r.status = "printing"
           /\ Write(j, new, AnyStatus, [new EXCEPT !.status = "done"], TRUE)
  <2> DEFINE n == [new EXCEPT !.status = "done"]
  <2>1. n \in Row /\ n.status = "done" /\ n.submitted /\ n.cups = r.cups
        /\ new.status = "printing"
    BY <1>1, <1>3, <1>6 DEF Row, Kept, Status, Terminal
  <2>2. Write(j, new, AnyStatus, n, TRUE)
    BY <1>6
  <2> HIDE DEF n
  <2>3. jobs' = [jobs EXCEPT ![j] = n] /\ told' = [told EXCEPT ![j] = Report(n.status, n)]
    BY <2>1, <2>2 DEF Write, Updatable, AnyStatus, Status, Unsubmitted, Terminal
  <2>4. Finished(r, n)
    BY <1>6, <2>1 DEF Finished
  <2> QED BY <1>1, <1>6, <2>1, <2>3, <2>4, LetGoInv
<1>7. CASE work[m].seen = "failed" /\ r.status = "printing" /\ Uncertain(j, new)
  BY <1>3, <1>4, <1>7
<1>8. CASE /\ work[m].seen = "printing" /\ r.status = "printing"
           /\ Write(j, new, AnyStatus, new, TRUE)
  <2>1. new.status = "printing" /\ new.submitted
    BY <1>1, <1>3, <1>8 DEF Kept
  <2>2. jobs' = [jobs EXCEPT ![j] = new] /\ told' = [told EXCEPT ![j] = Report(new.status, new)]
    BY <1>8, <2>1 DEF Write, Updatable, AnyStatus, Status, Unsubmitted, Terminal
  <2> QED BY <1>1, <1>3, <2>1, <2>2, LetGoInv
<1> QED BY <1>2, <1>5, <1>6, <1>7, <1>8 DEF ApplyPoll, new

\* The return of print_file keeps the invariant, also if the job was canceled
\* meanwhile.
LEMMA PrintReturnedInv ==
    ASSUME IInv, NEW m \in Manager, PrintReturned(m)
    PROVE  IInv'
<1> DEFINE j == work[m].job
           r == jobs[j]
           new == [r EXCEPT !.status = IF r.status = "uncertain" THEN "uncertain" ELSE "printing",
                            !.cups = 1]
           w == [work[m] EXCEPT !.pc = IF r.status = "uncertain" THEN "undo" ELSE "poll"]
<1>1. /\ work[m].pc = "accepted" /\ work[m].id = 1 /\ AtCups(m, j) /\ j \in Job \ legacy
      /\ r \in Row /\ r.submitted /\ r.status \in {"submitting", "uncertain"}
      /\ Len(cups[j]) = 1 /\ work[m] \in Works
      /\ UNCHANGED <<batch, cancelling, cups, configured, available, issued, granted, past>>
  BY Typing DEF PrintReturned, IInv, WorkInv, RowInv, AtCups
<1>2. /\ new \in Row /\ new.submitted /\ new.cups = 1
      /\ new.status = IF r.status = "uncertain" THEN "uncertain" ELSE "printing"
  BY <1>1 DEF Row, Status, Terminal
<1>3. /\ w \in Works /\ w.job = j /\ w.id = 1
      /\ w.pc = IF r.status = "uncertain" THEN "undo" ELSE "poll"
  BY <1>1 DEF Works, Pc
<1>4. /\ jobs' = [jobs EXCEPT ![j] = new]
      /\ work' = [work EXCEPT ![m] = w]
      /\ told' = told \/ told' = [told EXCEPT ![j] = Report("printing", new)]
  <2>1. CASE r.status = "uncertain"
    <3>1. /\ jobs' = [jobs EXCEPT ![j] = [r EXCEPT !.cups = 1]]
          /\ work' = [work EXCEPT ![m] = [work[m] EXCEPT !.pc = "undo"]] /\ told' = told
      BY <1>1, <2>1 DEF PrintReturned
    <3>2. new = [r EXCEPT !.cups = 1]
      BY <1>1, <2>1 DEF Row
    <3> QED BY <2>1, <3>1, <3>2
  <2>2. CASE r.status = "submitting"
    <3> DEFINE p == [r EXCEPT !.status = "printing", !.cups = 1]
    <3>1. Updatable(r, AnyStatus, "printing") /\ p.status = "printing"
      BY <1>1, <2>2 DEF Updatable, AnyStatus, Status, Unsubmitted, Terminal, Row
    <3>2. /\ Write(j, r, AnyStatus, p, TRUE)
          /\ work' = [work EXCEPT ![m] = [work[m] EXCEPT !.pc = "poll"]]
      BY <1>1, <2>2, <3>1 DEF PrintReturned
    <3>3. new = p
      BY <2>2
    <3> HIDE DEF p
    <3>4. jobs' = [jobs EXCEPT ![j] = p] /\ told' = [told EXCEPT ![j] = Report(p.status, p)]
      BY <3>1, <3>2 DEF Write
    <3> QED BY <2>2, <3>1, <3>2, <3>3, <3>4
  <2> QED BY <1>1, <2>1, <2>2
<1> HIDE DEF new, w
<1>5. jobs'[j] = new /\ \A k \in Job \ {j} : jobs'[k] = jobs[k]
  BY <1>1, <1>4, Typing
<1>6. work'[m] = w /\ \A n \in Manager \ {m} : work'[n] = work[n]
  BY <1>4, Typing
<1>7. /\ told' \in [Job -> Reports]
      /\ \A k \in Job : told'[k] = told[k] \/ (k = j /\ ~told'[k].safe)
  <2>1. Report("printing", new) \in Reports /\ ~Report("printing", new).safe
    BY <1>2, ReportFacts DEF Status
  <2>2. CASE told' = [told EXCEPT ![j] = Report("printing", new)]
    BY <1>1, <2>1, <2>2, Typing
  <2> QED BY <1>4, <2>2, Typing
<1>8. TypeOK'
  <2>1. jobs' \in [Job -> Row] /\ work' \in [Manager -> Works]
    BY <1>2, <1>3, <1>4, Typing
  <2> QED BY <1>1, <1>7, <2>1 DEF IInv, TypeOK, Reports, Works
<1>9. \A n \in Manager, k \in Job : AtCups(n, k)' <=> AtCups(n, k) /\ n # m
  BY <1>1, <1>3, <1>6 DEF AtCups
<1>10. ASSUME NEW k \in Job PROVE RowInv(k)' /\ Len(cups'[k]) <= 1
  <2>1. CASE k # j
    <3>1. ~AtCups(m, k)
      BY <2>1 DEF AtCups
    <3>2. (\E n \in Manager : AtCups(n, k)) => \E n \in Manager : AtCups(n, k)'
      BY <3>1, <1>9
    <3> QED BY <1>1, <1>5, <1>7, <2>1, <3>2 DEF IInv, RowInv
  <2>2. CASE k = j
    <3>1. told'[j].status \in Terminal => ~told'[j].safe
      BY <1>1, <1>7 DEF IInv, RowInv
    <3>2. cancelling[j] = "no"
      BY <1>1 DEF IInv, WorkInv, RowInv
    <3> QED BY <1>1, <1>2, <1>5, <2>2, <3>1, <3>2 DEF IInv, RowInv
  <2> QED BY <2>1, <2>2
<1>11. ASSUME NEW n \in Manager PROVE WorkInv(n)'
  <2>1. CASE n = m
    BY <1>1, <1>2, <1>3, <1>5, <1>6, <2>1 DEF IInv, WorkInv
  <2>2. CASE n # m
    <3>1. work[n].pc \in {"submit", "accepted"} => work[n].job # j
      BY <1>1, <2>2 DEF IInv, OneAtCups, AtCups, WorkInv
    <3> QED BY <1>1, <1>2, <1>5, <1>6, <2>2, <3>1 DEF IInv, WorkInv
  <2> QED BY <2>1, <2>2
<1> QED BY <1>8, <1>9, <1>10, <1>11 DEF IInv, OneAtCups

\* cancel_job keeps the invariant at every stage of the job.
LEMMA CancelJobInv ==
    ASSUME IInv, NEW j \in Job, CancelJob(j)
    PROVE  IInv'
<1> DEFINE r   == jobs[j]
           new == Cancel(r)
<1>1. /\ r \in Row /\ new \in Row /\ RowInv(j) /\ Len(cups[j]) <= 1
      /\ j \notin legacy
  BY Typing, RowStatements DEF IInv, CancelJob, CanCancel, RowInv, Terminal
<1>2. /\ new.submitted = r.submitted /\ new.cups = r.cups
      /\ new.status = IF r.submitted THEN "uncertain" ELSE "canceled"
      /\ r.status \notin Terminal \cup {"absent"}
  BY <1>1 DEF CancelJob, CanCancel, Cancel, Row, RowInv
<1>3. /\ jobs' = [jobs EXCEPT ![j] = new]
      /\ \/ cancelling' = cancelling
         \/ new.cups # 0 /\ cancelling' = [cancelling EXCEPT ![j] = "cups"]
      /\ told' = told \/ told' = [told EXCEPT ![j] = Report(new.status, new)]
      /\ UNCHANGED <<batch, work, cups, configured, available, issued, granted, past>>
  BY DEF CancelJob
<1> HIDE DEF new
<1>4. jobs'[j] = new /\ \A k \in Job \ {j} : jobs'[k] = jobs[k]
  BY <1>3, Typing
<1>5. /\ cancelling' \in [Job -> {"no", "cups", "report"}]
      /\ \A k \in Job : cancelling'[k] = cancelling[k] \/ (k = j /\ new.cups # 0)
  <2>1. CASE new.cups # 0 /\ cancelling' = [cancelling EXCEPT ![j] = "cups"]
    BY <2>1, Typing
  <2> QED BY <1>3, <2>1, Typing
<1>6. /\ told' \in [Job -> Reports]
      /\ \A k \in Job : \/ told'[k] = told[k]
                        \/ k = j /\ (told'[k].safe => ~new.submitted)
  <2>1. Report(new.status, new) \in Reports
        /\ (Report(new.status, new).safe => ~new.submitted)
    BY <1>1, ReportFacts DEF Row
  <2>2. CASE told' = [told EXCEPT ![j] = Report(new.status, new)]
    BY <2>1, <2>2, Typing
  <2> QED BY <1>3, <2>2, Typing
<1>7. TypeOK'
  <2>1. jobs' \in [Job -> Row]
    BY <1>1, <1>3, Typing
  <2> QED BY <1>3, <1>5, <1>6, <2>1 DEF IInv, TypeOK, Reports
<1>8. \A n \in Manager, k \in Job : AtCups(n, k)' <=> AtCups(n, k)
  BY <1>3 DEF AtCups
<1>9. ASSUME NEW k \in Job PROVE RowInv(k)' /\ Len(cups'[k]) <= 1
  <2>1. CASE k # j
    BY <1>3, <1>4, <1>5, <1>6, <1>8, <2>1 DEF IInv, RowInv
  <2>2. CASE k = j
    <3>1. /\ new.submitted <=> new.status \in {"submitting", "printing", "done", "uncertain"}
          /\ ~new.submitted => new.cups = 0 /\ cups[j] = <<>>
          /\ new.cups # 0 => new.cups = 1 /\ Len(cups[j]) = 1
          /\ new.status \in {"uncertain", "canceled"}
      BY <1>1, <1>2 DEF RowInv, Row
    <3>2. cancelling'[j] # "no" => new.status = "uncertain" /\ new.cups = 1
      BY <1>1, <1>2, <1>5, <3>1 DEF RowInv, Terminal
    <3>3. told'[j].status \in Terminal /\ told'[j].safe => new.status \in {"failed", "canceled"}
      BY <1>1, <1>2, <1>6 DEF RowInv, Terminal
    <3> QED BY <1>1, <1>3, <1>4, <2>2, <3>1, <3>2, <3>3 DEF RowInv
  <2> QED BY <2>1, <2>2
<1>10. ASSUME NEW n \in Manager PROVE WorkInv(n)'
  BY <1>1, <1>2, <1>3, <1>4 DEF IInv, WorkInv, RowInv, Terminal
<1> QED BY <1>7, <1>8, <1>9, <1>10 DEF IInv, OneAtCups

\* The rest of a cancel: CUPS is asked, then the cloud is told.
LEMMA CancelStepInv ==
    ASSUME IInv, NEW j \in Job, CancelStep(j)
    PROVE  IInv'
<1>1. /\ cancelling[j] # "no" /\ jobs[j] \in Row
      /\ jobs[j].status = "uncertain" /\ jobs[j].submitted /\ jobs[j].cups = 1
      /\ Len(cups[j]) = 1 /\ 1 \in DOMAIN cups[j]
  BY Typing DEF CancelStep, CancelAtCups, CancelReported, IInv, RowInv
<1>2. CupsKept
  BY <1>1, CupsKeptRule, Typing DEF CancelStep, CancelAtCups, CancelReported, CupsCancel
<1>3. /\ cancelling' \in [Job -> {"no", "cups", "report"}]
      /\ \A k \in Job : cancelling'[k] = cancelling[k] \/ k = j
      /\ told' = told \/ told' = [told EXCEPT ![j] = Report("uncertain", jobs[j])]
      /\ UNCHANGED <<jobs, batch, work, configured, available, issued, granted, past>>
  BY <1>1, Typing DEF CancelStep, CancelAtCups, CancelReported
<1>4. /\ told' \in [Job -> Reports]
      /\ \A k \in Job : told'[k] = told[k] \/ (k = j /\ ~told'[k].safe)
  <2>1. Report("uncertain", jobs[j]) \in Reports /\ ~Report("uncertain", jobs[j]).safe
    BY <1>1, ReportFacts DEF Status, Terminal
  <2>2. CASE told' = [told EXCEPT ![j] = Report("uncertain", jobs[j])]
    BY <2>1, <2>2, Typing
  <2> QED BY <1>3, <2>2, Typing
<1>5. TypeOK'
  BY <1>2, <1>3, <1>4 DEF IInv, TypeOK, CupsKept, CupsState, Reports
<1>6. \A n \in Manager, k \in Job : AtCups(n, k)' <=> AtCups(n, k)
  BY <1>3 DEF AtCups
<1>7. ASSUME NEW k \in Job PROVE RowInv(k)' /\ Len(cups'[k]) <= 1
  BY <1>1, <1>2, <1>3, <1>4, <1>6 DEF IInv, RowInv, CupsKept
<1>8. ASSUME NEW n \in Manager PROVE WorkInv(n)'
  BY <1>2, <1>3 DEF IInv, WorkInv, CupsKept
<1> QED BY <1>5, <1>6, <1>7, <1>8 DEF IInv, OneAtCups

\* A resend after a connection keeps the invariant: it says what the row says,
\* and only an older version's row is unclear without a submission.
LEMMA ResendInv ==
    ASSUME IInv, NEW j \in Job, Resend(j)
    PROVE  IInv'
<1> DEFINE r == jobs[j]
<1>1. /\ told' = [told EXCEPT ![j] = Report(r.status, r)]
      /\ UNCHANGED <<jobs, batch, work, cancelling, cups, configured, available,
                     issued, granted, past>>
  BY DEF Resend
<1>2. r \in Row /\ RowInv(j)
  BY Typing DEF IInv
<1>3. /\ Report(r.status, r) \in Reports /\ Report(r.status, r).status = r.status
      /\ Report(r.status, r).safe => ~r.submitted
  BY <1>2, ReportFacts DEF Row
<1>4. told' \in [Job -> Reports] /\ \A k \in Job \ {j} : told'[k] = told[k]
  BY <1>1, <1>3, Typing
<1>5. TypeOK'
  BY <1>1, <1>4 DEF IInv, TypeOK, Reports
<1>6. \A n \in Manager, k \in Job : AtCups(n, k)' <=> AtCups(n, k)
  BY <1>1 DEF AtCups
<1>7. ASSUME NEW k \in Job PROVE RowInv(k)' /\ Len(cups'[k]) <= 1
  <2>1. told'[j].status \in Terminal /\ told'[j].safe
           => r.status \in {"failed", "canceled"} \/ j \in legacy
    BY <1>1, <1>2, <1>3, Typing DEF RowInv, Terminal
  <2> QED BY <1>1, <1>4, <1>6, <2>1 DEF IInv, RowInv
<1>8. ASSUME NEW n \in Manager PROVE WorkInv(n)'
  BY <1>1 DEF IInv, WorkInv
<1> QED BY <1>5, <1>6, <1>7, <1>8 DEF IInv, OneAtCups

\* A restart keeps the invariant: what was being submitted becomes unclear.
LEMMA CrashInv ==
    ASSUME IInv, Crash
    PROVE  IInv'
<1>1. /\ jobs' = [j \in Job |-> Recover(jobs[j])]
      /\ batch' = [m \in Manager |-> Nothing] /\ work' = [m \in Manager |-> Idle]
      /\ cancelling' = [j \in Job |-> "no"]
      /\ available' \in BOOLEAN /\ crashes' \in 0..MaxCrashes
      /\ unsent' = [j \in Job |-> IF told[j].status = jobs'[j].status
                                  THEN "absent" ELSE jobs'[j].status]
      /\ UNCHANGED <<cups, configured, issued, granted, told, legacy>>
  BY ConstantsAssumption DEF Crash, IInv, TypeOK
<1>2. TypeOK'
  <2>1. jobs' \in [Job -> Row]
    BY <1>1, Typing, RowStatements
  <2>2. batch' \in [Manager -> [Job -> Row]] /\ work' \in [Manager -> Works]
    BY <1>1, NoRowIsRow DEF Nothing
  <2>3. unsent' \in [Job -> Status \cup {"absent"}]
    BY <1>1, <2>1 DEF Row
  <2> QED BY <1>1, <2>1, <2>2, <2>3 DEF IInv, TypeOK, Works
<1>3. ASSUME NEW k \in Job PROVE RowInv(k)' /\ Len(cups'[k]) <= 1
  <2> DEFINE r == jobs[k]
             n == jobs'[k]
  <2>1. r \in Row /\ RowInv(k) /\ Len(cups[k]) <= 1 /\ n = Recover(r)
    BY <1>1, Typing DEF IInv
  <2>2. r.status = "submitting" => r.cups = 0
    BY <2>1 DEF RowInv, IInv, WorkInv, AtCups
  <2>3. /\ n.submitted = r.submitted /\ n.cups = r.cups
        /\ n.status = IF r.status = "submitting" THEN "uncertain" ELSE r.status
    BY <2>1, <2>2 DEF Recover, Row, RowInv
  <2> HIDE DEF n
  <2>4. /\ k \in legacy => n.status = "uncertain" /\ ~n.submitted
        /\ n.submitted <=> k \notin legacy /\ n.status \in {"submitting", "printing", "done", "uncertain"}
        /\ ~n.submitted => n.cups = 0 /\ (cups[k] = <<>> \/ k \in legacy)
        /\ n.cups # 0 => n.cups = 1 /\ Len(cups[k]) = 1
        /\ n.status \in {"printing", "done"} => n.cups = 1
        /\ n.status = "done" => cups[k][1] = "completed"
        /\ n.status # "submitting"
        /\ told[k].status \in Terminal /\ told[k].safe
              => n.status \in {"failed", "canceled"} \/ k \in legacy
    BY <2>1, <2>3 DEF RowInv
  <2>5. cancelling'[k] = "no"
    BY <1>1
  <2> QED BY <1>1, <2>1, <2>4, <2>5 DEF RowInv, n
<1>4. ASSUME NEW m \in Manager PROVE WorkInv(m)'
  BY <1>1, NoRowIsRow DEF WorkInv, Nothing
<1>5. OneAtCups'
  BY <1>1, NoRowIsRow DEF OneAtCups, AtCups
<1> QED BY <1>2, <1>3, <1>4, <1>5 DEF IInv

-----------------------------------------------------------------------------
(* The theorems.                                                           *)

\* A step that changes nothing keeps the invariant.
LEMMA StutterInv == IInv /\ UNCHANGED vars => IInv'
  BY DEF vars, IInv, TypeOK, RowInv, WorkInv, OneAtCups, AtCups

\* Every step of the gateway, of CUPS and of the cloud keeps the invariant.
LEMMA NextInv == IInv /\ [Next]_vars => IInv'
<1> SUFFICES ASSUME IInv, Next PROVE IInv'
  BY StutterInv
<1>1. ASSUME NEW m \in Manager,
             ManagerStep(m) \/ CloudGrants(m) \/ CloudDenies(m) \/ CupsAccepts(m)
      PROVE  IInv'
  BY <1>1, StartPassInv, TakeJobInv, FetchInv, IntentAnswerInv, PrintRaisesInv,
     PrintReturnedInv, UndoInv, PollInv, ApplyPollInv, OutsideInv, CupsAcceptsInv
  DEF ManagerStep
<1>2. ASSUME NEW j \in Job,
             \/ CloudDispatches(j) \/ Enqueue(j) \/ BackoffElapses(j)
             \/ Cleanup(j) \/ CupsFinishes(j) \/ CancelJob(j) \/ CancelStep(j)
             \/ Resend(j)
      PROVE  IInv'
  BY <1>2, OutsideInv, EnqueueInv, BackoffElapsesInv, CleanupInv, CupsFinishesInv,
     CancelJobInv, CancelStepInv, ResendInv
<1>3. CASE ConfigSync
  BY <1>3, OutsideInv
<1>4. CASE Crash
  BY <1>4, CrashInv
<1> QED BY <1>1, <1>2, <1>3, <1>4 DEF Next

\* Rows, CUPS jobs and coroutines agree in every reachable state, for any
\* number of jobs, managers, dispatches and restarts.
THEOREM Inductive == Spec => []IInv
  BY InitInv, NextInv, PTL DEF Spec

\* Every variable keeps its type.
THEOREM TypeCorrect == Spec => []TypeOK
<1>1. IInv => TypeOK
  BY DEF IInv
<1> QED BY <1>1, Inductive, PTL

\* A job reaches CUPS at most once, however many managers, duplicates,
\* cancels and restarts there are.
THEOREM HandedOverAtMostOnce == Spec => []AtMostOneHandover
<1>1. IInv => AtMostOneHandover
  BY DEF IInv, AtMostOneHandover
<1> QED BY <1>1, Inductive, PTL

\* What the cloud was told is not submitted never is, whichever managers,
\* cancels, resends and restarts follow; an older version's jobs apart, which
\* the resend reports as not submitted without knowing it.
THEOREM NotSubmittedStaysTrue == Spec => []NotSubmittedIsFinal
<1>1. IInv => NotSubmittedIsFinal
  BY DEF IInv, NotSubmittedIsFinal, Untouched, RowInv, WorkInv, AtCups
<1> QED BY <1>1, Inductive, PTL

\* "done", "failed" and "canceled" say the truth about paper.
THEOREM EndStatesAreTrue == Spec => []StatusTruth
<1>1. ASSUME IInv, NEW j \in Job, jobs[j].status = "done"
      PROVE  cups[j] = <<"completed">>
  <2>1. Len(cups[j]) = 1 /\ cups[j][1] = "completed" /\ cups[j] \in Seq(CupsState)
    BY <1>1, Typing DEF IInv, RowInv, CupsState
  <2> QED BY <2>1
<1>2. ASSUME IInv, NEW j \in Job, jobs[j].status \in {"failed", "canceled"}
      PROVE  Untouched(j)
  BY <1>2 DEF IInv, Untouched, RowInv, WorkInv, AtCups
<1>3. IInv => StatusTruth
  BY <1>1, <1>2 DEF StatusTruth
<1> QED BY <1>3, Inductive, PTL

\* No row is left in "submitting" without a coroutine that moves it on.
THEOREM SubmittingHasAnOwner == Spec => []SubmittingIsOwned
<1>1. IInv => SubmittingIsOwned
  BY DEF IInv, RowInv, SubmittingIsOwned
<1> QED BY <1>1, Inductive, PTL
==============================================================================
