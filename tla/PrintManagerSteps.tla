--------------------------- MODULE PrintManagerSteps ---------------------------
(***************************************************************************)
(* What one step of PrintManager does to each job, and the theorems that   *)
(* follow: ends are final, the last report is the row's, and PrintManager  *)
(* implements PrintJob.                                                    *)
(***************************************************************************)
EXTENDS PrintManagerProofs

USE DEF past

\* The ways of a status.
Forward(a, b) ==
    \/ a = "absent" /\ b = "pending"
    \/ a \in Unsubmitted /\ b \in Unsubmitted \cup {"failed", "canceled", "submitting"}
    \/ a = "submitting" /\ b \in {"printing", "uncertain"}
    \/ a = "printing" /\ b \in {"done", "uncertain"}

\* A step moves the row forward, lets CUPS take the job, or does neither.
Course(j) ==
    \/ Forward(jobs[j].status, jobs'[j].status) /\ cups'[j] = cups[j]
    \/ jobs'[j].status = jobs[j].status /\ (cups'[j] = <<>> <=> cups[j] = <<>>)
    \/ /\ jobs'[j] = jobs[j] /\ jobs[j].status \in {"submitting", "uncertain"}
       /\ cups[j] = <<>> /\ cups'[j] # <<>>

Undoing(m, j) == work[m].pc \in {"undo", "undone"} /\ work[m].job = j

\* Somebody still has to report about j.
Owed(j) == cancelling[j] # "no" \/ \E m \in Manager : Undoing(m, j)

Visible == {"printing"} \cup Terminal

\* A report is about the row as it is after the step; only what is owed, or
\* cut short by a restart, is not reported at once.
Telling(j) ==
    \/ Crash
    \/ told'[j].status = jobs'[j].status
    \/ /\ told'[j] = told[j]
       /\ jobs'[j].status = jobs[j].status \/ jobs'[j].status \notin Visible \/ Owed(j)'
       /\ Owed(j) => Owed(j)'

\* A report is the row's, also after a restart.
Honest(j) == told'[j] = told[j] \/ told'[j].status = jobs'[j].status

JobStep(j) == Course(j) /\ Telling(j) /\ Honest(j)

\* Nothing about j changes but perhaps the time and the payload.
LEMMA RestStep ==
    ASSUME IInv, NEW j \in Job, jobs'[j].status = jobs[j].status,
           cups'[j] = <<>> <=> cups[j] = <<>>,
           told'[j] = told[j], Owed(j) => Owed(j)'
    PROVE  JobStep(j)
  BY DEF JobStep, Course, Telling, Honest

\* A step that is about j leaves the other jobs alone.
LEMMA OthersRest ==
    ASSUME IInv, NEW j \in Job, JobStep(j),
           \A k \in Job \ {j} : /\ jobs'[k] = jobs[k] /\ cups'[k] = cups[k]
                                /\ told'[k] = told[k] /\ cancelling'[k] = cancelling[k],
           \A n \in Manager, k \in Job \ {j} : Undoing(n, k) => Undoing(n, k)'
    PROVE  \A k \in Job : JobStep(k)
<1>1. ASSUME NEW k \in Job \ {j} PROVE JobStep(k)
  BY <1>1, RestStep DEF Owed
<1> QED BY <1>1

\* A manager's step that changes no debt: the row of j, the report about it and
\* the place of the manager, who is handling j or nothing.
LEMMA ManagerRest ==
    ASSUME IInv, NEW m \in Manager, NEW j \in Job, JobStep(j),
           work[m].pc # "idle" => work[m].job = j,
           \A n \in Manager \ {m} : work'[n] = work[n],
           \A k \in Job \ {j} : jobs'[k] = jobs[k] /\ cups'[k] = cups[k] /\ told'[k] = told[k],
           cancelling' = cancelling
    PROVE  \A k \in Job : JobStep(k)
<1>1. \A n \in Manager, k \in Job \ {j} : Undoing(n, k) => Undoing(n, k)'
  BY DEF Undoing
<1> QED BY <1>1, OthersRest

\* Up to begin_submit.
LEMMA EarlyStep ==
    ASSUME IInv, NEW m \in Manager, NEW j \in Job, Outcome(m, j, jobs[j]),
           work[m].pc \in {"idle", "fetch", "intent", "granted", "denied"},
           work[m].pc # "idle" => work[m].job = j,
           UNCHANGED <<cancelling, cups, crashes>>
    PROVE  \A k \in Job : JobStep(k)
<1>1. PICK new \in Row, w \in Works :
        /\ jobs' = [jobs EXCEPT ![j] = new]
        /\ work' = [work EXCEPT ![m] = w]
        /\ \/ told' = told /\ (new.status = "failed" => jobs[j].status = "failed")
           \/ new.status = "failed" /\ told' = [told EXCEPT ![j] = Report("failed", new)]
        /\ \/ /\ Kept(jobs[j], new) \/ Reworked(jobs[j], new)
              /\ w.pc \in {"idle", "fetch", "intent"}
              /\ w.pc # "idle" => w.job \in Job \ legacy
           \/ Committed(jobs[j], new) /\ w.pc = "submit" /\ w.job = j
  BY DEF Outcome
<1>2. /\ jobs'[j] = new /\ \A n \in Manager \ {m} : work'[n] = work[n]
      /\ told'[j] = told[j] \/ told'[j].status = "failed"
      /\ \A k \in Job \ {j} : jobs'[k] = jobs[k] /\ told'[k] = told[k]
  BY <1>1, Typing, ReportFacts DEF Status, Terminal
<1>3. \A n \in Manager, k \in Job : Undoing(n, k) => Undoing(n, k)'
  BY <1>2 DEF Undoing
<1>4. Course(j)
  BY <1>1, <1>2 DEF Course, Forward, Kept, Reworked, Committed
<1>5. Telling(j)
  <2>1. CASE told' = told /\ (new.status = "failed" => jobs[j].status = "failed")
    BY <1>1, <1>2, <1>3, <2>1
    DEF Telling, Owed, Kept, Reworked, Committed, Visible, Terminal, Unsubmitted
  <2>2. CASE new.status = "failed" /\ told' = [told EXCEPT ![j] = Report("failed", new)]
    BY <1>2, <2>2, Typing, ReportFacts DEF Telling, Status, Terminal
  <2> QED BY <1>1, <2>1, <2>2
<1>6. Honest(j)
  BY <1>1, <1>2, Typing, ReportFacts DEF Honest, Status, Terminal
<1> QED BY <1>2, <1>4, <1>5, <1>6, ManagerRest DEF JobStep

\* Taking a job from the batch: to poll it, or one of the outcomes.
LEMMA TakeJobStep ==
    ASSUME IInv, NEW m \in Manager, NEW j \in Job, TakeJob(m, j)
    PROVE  \A k \in Job : JobStep(k)
<1>1. work[m].pc = "idle" /\ UNCHANGED <<cancelling, cups, crashes>>
  BY DEF TakeJob
<1>2. CASE Outcome(m, j, jobs[j])
  BY <1>1, <1>2, EarlyStep
<1>3. CASE Polls(m, j)
  <2>1. \A n \in Manager, k \in Job : Undoing(n, k) => Undoing(n, k)'
    BY <1>1, <1>3, Typing DEF Polls, Undoing
  <2> QED BY <1>1, <1>3, <2>1, RestStep DEF Polls, Owed
<1> QED BY <1>2, <1>3, TakeJobOutcome

\* The end of a download, and an answer to print_intent or its absence.
LEMMA FetchIntentStep ==
    ASSUME IInv, NEW m \in Manager,
           \/ FetchOk(m) \/ FetchFails(m)
           \/ IntentGranted(m) \/ IntentDenied(m) \/ IntentMissing(m)
    PROVE  \A k \in Job : JobStep(k)
<1>1. /\ work[m].pc \in {"fetch", "intent", "granted", "denied"} /\ work[m].job \in Job
      /\ UNCHANGED <<cancelling, cups, crashes>>
  BY DEF FetchOk, FetchFails, IntentGranted, IntentDenied, IntentMissing, IInv, WorkInv
<1>2. Outcome(m, work[m].job, jobs[work[m].job])
  BY FetchOutcome, IntentAnswerOutcome
<1> QED BY <1>1, <1>2, EarlyStep

-----------------------------------------------------------------------------
(* At CUPS.                                                                *)

\* The report that goes with a write.
LEMMA WriteStep ==
    ASSUME IInv, NEW m \in Manager, NEW j \in Job, NEW new \in Row,
           jobs' = [jobs EXCEPT ![j] = new],
           told' = [told EXCEPT ![j] = Report(new.status, new)],
           new.status = jobs[j].status \/ Forward(jobs[j].status, new.status),
           work[m].pc # "idle" => work[m].job = j,
           \A n \in Manager \ {m} : work'[n] = work[n],
           UNCHANGED <<cancelling, cups>>
    PROVE  \A k \in Job : JobStep(k)
<1>1. jobs'[j] = new /\ told'[j].status = new.status
  BY Typing, ReportFacts DEF Row
<1>2. JobStep(j)
  BY <1>1 DEF JobStep, Course, Telling, Honest
<1> QED BY <1>2, ManagerRest, Typing

\* Nothing is written and nobody's debt forgotten.
LEMMA QuietStep ==
    ASSUME IInv, NEW m \in Manager, NEW j \in Job,
           jobs'[j].status = jobs[j].status,
           \A k \in Job \ {j} : jobs'[k] = jobs[k],
           work[m].pc # "idle" => work[m].job = j,
           Undoing(m, j) => Undoing(m, j)',
           \A n \in Manager \ {m} : work'[n] = work[n],
           \A k \in Job : cups'[k] = <<>> <=> cups[k] = <<>>,
           UNCHANGED <<cancelling, told>>
    PROVE  \A k \in Job : JobStep(k)
<1>1. \A n \in Manager, k \in Job : Undoing(n, k) => Undoing(n, k)'
  BY DEF Undoing
<1>2. \A k \in Job : jobs'[k].status = jobs[k].status /\ told'[k] = told[k]
  OBVIOUS
<1>3. \A k \in Job : Owed(k) => Owed(k)'
  BY <1>1 DEF Owed
<1> QED BY <1>2, <1>3, RestStep

\* A hand-over that becomes unclear is reported so.
LEMMA UncertainStep ==
    ASSUME IInv, NEW m \in Manager, NEW j \in Job, NEW r \in Row,
           r.status = jobs[j].status,
           r.status \in {"submitting", "printing", "uncertain"},
           Uncertain(j, r),
           work[m].job = j, work'[m].pc = "idle",
           work[m].pc \notin {"undo", "undone"},
           \A n \in Manager \ {m} : work'[n] = work[n],
           UNCHANGED <<cancelling, cups>>
    PROVE  \A k \in Job : JobStep(k)
<1> DEFINE new == [r EXCEPT !.status = "uncertain"]
<1>1. new \in Row /\ new.status = "uncertain"
  BY DEF Row, Status, Terminal
<1>2. Updatable(r, AnyStatus, "uncertain")
  BY DEF Updatable, AnyStatus, Status, Terminal, Unsubmitted
<1>3. jobs' = [jobs EXCEPT ![j] = new] /\ told' = [told EXCEPT ![j] = Report(new.status, new)]
  BY <1>1, <1>2 DEF Uncertain, Write
<1> HIDE DEF new
<1> QED BY <1>1, <1>3, WriteStep DEF Forward

\* print_file raised: the hand-over is unclear, and reported so.
LEMMA PrintRaisesStep ==
    ASSUME IInv, NEW m \in Manager, PrintRaises(m)
    PROVE  \A k \in Job : JobStep(k)
<1>1. /\ work[m].job \in Job /\ work[m].pc \in {"submit", "accepted"}
      /\ jobs[work[m].job].status \in {"submitting", "uncertain"}
      /\ Uncertain(work[m].job, jobs[work[m].job])
      /\ work' = [work EXCEPT ![m] = Idle]
      /\ UNCHANGED <<cancelling, cups>>
  BY DEF PrintRaises, Leave, IInv, WorkInv
<1>2. work'[m].pc = "idle" /\ \A n \in Manager \ {m} : work'[n] = work[n]
  BY <1>1, Typing, NoRowIsRow
<1> QED BY <1>1, <1>2, UncertainStep, Typing

\* print_file returned: "printing" is reported, or the job has to be taken back.
LEMMA PrintReturnedStep ==
    ASSUME IInv, NEW m \in Manager, PrintReturned(m)
    PROVE  \A k \in Job : JobStep(k)
<1> DEFINE j   == work[m].job
           new == [jobs[j] EXCEPT !.status = "printing", !.cups = work[m].id]
<1>1. /\ work[m].pc = "accepted" /\ j \in Job /\ work[m].id \in Nat
      /\ jobs[j] \in Row /\ jobs[j].status \in {"submitting", "uncertain"}
      /\ UNCHANGED <<cancelling, cups>>
  BY Typing DEF PrintReturned, IInv, WorkInv, Works
<1>2. CASE jobs[j].status = "uncertain"
  <2>1. /\ jobs' = [jobs EXCEPT ![j].cups = work[m].id]
        /\ work' = [work EXCEPT ![m].pc = "undo"] /\ told' = told
    BY <1>2 DEF PrintReturned
  <2>2. /\ jobs'[j].status = jobs[j].status
        /\ \A k \in Job \ {j} : jobs'[k] = jobs[k]
        /\ \A n \in Manager \ {m} : work'[n] = work[n]
    BY <1>1, <2>1, Typing DEF Row
  <2> QED BY <1>1, <2>1, <2>2, QuietStep DEF Undoing
<1>3. CASE jobs[j].status = "submitting"
  <2>1. new \in Row /\ new.status = "printing"
    BY <1>1 DEF Row, Status
  <2>2. Updatable(jobs[j], AnyStatus, "printing")
    BY <1>3 DEF Updatable, AnyStatus, Status, Terminal, Unsubmitted
  <2>3. /\ Write(j, jobs[j], AnyStatus, new, TRUE)
        /\ work' = [work EXCEPT ![m].pc = "poll"]
    BY <1>3, <2>2 DEF PrintReturned
  <2> HIDE DEF new
  <2>4. jobs' = [jobs EXCEPT ![j] = new] /\ told' = [told EXCEPT ![j] = Report(new.status, new)]
    BY <2>1, <2>2, <2>3 DEF Write
  <2>5. \A n \in Manager \ {m} : work'[n] = work[n]
    BY <2>3, Typing
  <2> QED BY <1>1, <1>3, <2>1, <2>4, <2>5, WriteStep DEF Forward
<1> QED BY <1>1, <1>2, <1>3

\* CUPS takes the job.
LEMMA CupsAcceptsStep ==
    ASSUME IInv, NEW m \in Manager, CupsAccepts(m)
    PROVE  \A k \in Job : JobStep(k)
<1>1. PICK j \in Job : j = work[m].job
  BY DEF CupsAccepts, IInv, WorkInv
<1>2. /\ work[m].pc = "submit" /\ cups[j] = <<>>
      /\ jobs[j].status \in {"submitting", "uncertain"}
      /\ cups' = [cups EXCEPT ![j] = Append(cups[j], "active")]
      /\ UNCHANGED <<jobs, cancelling, told>>
      /\ \A n \in Manager \ {m} : work'[n] = work[n]
  BY <1>1, Typing DEF CupsAccepts, IInv, WorkInv
<1>3. cups'[j] # <<>> /\ \A k \in Job \ {j} : cups'[k] = cups[k]
  BY <1>2, Typing
<1>4. \A n \in Manager, k \in Job : Undoing(n, k) => Undoing(n, k)'
  BY <1>2 DEF Undoing
<1>5. Course(j)
  BY <1>2, <1>3 DEF Course
<1>6. Owed(j) => Owed(j)'
  BY <1>2, <1>4 DEF Owed
<1>7. Telling(j) /\ Honest(j)
  BY <1>2, <1>6 DEF Telling, Honest
<1> QED BY <1>2, <1>3, <1>4, <1>5, <1>7, OthersRest DEF JobStep

\* A step about j that touches no row but perhaps CUPS's jobs, and either keeps
\* what is owed or reports the row as it is.
LEMMA DebtStep ==
    ASSUME IInv, NEW j \in Job, CupsKept, UNCHANGED jobs,
           \/ told' = told /\ (Owed(j) => Owed(j)')
           \/ told' = [told EXCEPT ![j] = Report(jobs[j].status, jobs[j])],
           \A k \in Job \ {j} : cancelling'[k] = cancelling[k],
           \A n \in Manager, k \in Job \ {j} : Undoing(n, k) => Undoing(n, k)'
    PROVE  \A k \in Job : JobStep(k)
<1>1. \A k \in Job : cups'[k] = <<>> <=> cups[k] = <<>>
  BY Typing DEF CupsKept, CupsState
<1>2. \A k \in Job \ {j} : told'[k] = told[k]
  BY Typing
<1>3. ASSUME NEW k \in Job \ {j} PROVE JobStep(k)
  BY <1>1, <1>2, <1>3, RestStep DEF Owed
<1>4. JobStep(j)
  <2>1. CASE told' = told /\ (Owed(j) => Owed(j)')
    BY <1>1, <2>1, RestStep
  <2>2. CASE told' = [told EXCEPT ![j] = Report(jobs[j].status, jobs[j])]
    <3>1. told'[j].status = jobs'[j].status
      BY <2>2, Typing DEF Report
    <3> QED BY <1>1, <3>1 DEF JobStep, Course, Telling, Honest
  <2> QED BY <2>1, <2>2
<1> QED BY <1>3, <1>4

\* Taking a job back keeps the debt until it is reported.
LEMMA UndoStep ==
    ASSUME IInv, NEW m \in Manager, Undo(m) \/ UndoReported(m)
    PROVE  \A k \in Job : JobStep(k)
<1>0. PICK j \in Job : j = work[m].job
  BY DEF Undo, UndoReported, IInv, WorkInv
<1>1. /\ work[m].pc \in {"undo", "undone"} /\ work[m].job = j
      /\ work[m].id = 1 /\ Len(cups[j]) = 1 /\ 1 \in DOMAIN cups[j]
      /\ UNCHANGED <<jobs, cancelling>>
  BY <1>0, Typing DEF Undo, UndoReported, IInv, WorkInv
<1>2. CupsKept
  BY <1>1, CupsKeptRule, Typing DEF Undo, UndoReported, CupsCancel
<1>3. \A n \in Manager \ {m} : work'[n] = work[n]
  BY Typing DEF Undo, UndoReported, Leave
<1>4. \A n \in Manager, k \in Job \ {j} : Undoing(n, k) => Undoing(n, k)'
  BY <1>1, <1>3 DEF Undoing
<1>5. CASE Undo(m)
  <2>1. Undoing(m, j)' /\ told' = told
    BY <1>1, <1>5, Typing DEF Undo, Undoing, Works
  <2> QED BY <1>1, <1>2, <1>4, <2>1, DebtStep DEF Owed
<1>6. CASE UndoReported(m)
  BY <1>1, <1>2, <1>4, <1>6, DebtStep DEF UndoReported
<1> QED BY <1>5, <1>6

\* So does a cancel.
LEMMA CancelStepStep ==
    ASSUME IInv, NEW j \in Job, CancelStep(j)
    PROVE  \A k \in Job : JobStep(k)
<1>1. /\ cancelling[j] # "no" /\ Len(cups[j]) = 1 /\ 1 \in DOMAIN cups[j] /\ jobs[j].cups = 1
      /\ UNCHANGED <<jobs, work>>
      /\ \A k \in Job \ {j} : cancelling'[k] = cancelling[k]
  BY Typing DEF CancelStep, CancelAtCups, CancelReported, IInv, RowInv
<1>2. CupsKept
  BY <1>1, CupsKeptRule, Typing DEF CancelStep, CancelAtCups, CancelReported, CupsCancel
<1>3. \A n \in Manager, k \in Job : Undoing(n, k) => Undoing(n, k)'
  BY <1>1 DEF Undoing
<1>4. CASE CancelAtCups(j)
  <2>1. cancelling'[j] = "report" /\ told' = told
    BY <1>4, Typing DEF CancelAtCups
  <2> QED BY <1>1, <1>2, <1>3, <2>1, DebtStep DEF Owed
<1>5. CASE CancelReported(j)
  BY <1>1, <1>2, <1>3, <1>5, DebtStep DEF CancelReported
<1> QED BY <1>4, <1>5 DEF CancelStep

\* CUPS finishes a job.
LEMMA CupsFinishesStep ==
    ASSUME IInv, NEW j \in Job, CupsFinishes(j)
    PROVE  \A k \in Job : JobStep(k)
<1>1. CupsKept
  BY CupsKeptRule DEF CupsFinishes
<1>2. UNCHANGED <<jobs, work, cancelling, told>>
  BY DEF CupsFinishes
<1> QED BY <1>1, <1>2, DebtStep DEF Owed, Undoing

\* Asking CUPS changes nothing.
LEMMA PollStep ==
    ASSUME IInv, NEW m \in Manager, Poll(m)
    PROVE  \A k \in Job : JobStep(k)
<1>1. /\ work[m].pc = "poll" /\ work[m].job \in Job
      /\ UNCHANGED <<jobs, cancelling, told, cups>>
      /\ \A n \in Manager \ {m} : work'[n] = work[n]
  BY Typing DEF Poll, IInv, WorkInv
<1> QED BY <1>1, QuietStep DEF Undoing

\* What a poll found moves the row only forward, and is reported.
LEMMA ApplyPollStep ==
    ASSUME IInv, NEW m \in Manager, ApplyPoll(m)
    PROVE  \A k \in Job : JobStep(k)
<1>0. PICK j \in Job : j = work[m].job
  BY DEF ApplyPoll, IInv, WorkInv
<1> DEFINE r     == jobs[j]
           new   == [r EXCEPT !.failures = 0]
           count == [r EXCEPT !.failures = r.failures + 1]
           done  == [new EXCEPT !.status = "done"]
<1>1. /\ work[m].pc = "polled" /\ work[m].job = j /\ r \in Row
      /\ UNCHANGED <<cancelling, cups>>
      /\ work'[m].pc = "idle" /\ \A n \in Manager \ {m} : work'[n] = work[n]
  BY <1>0, Typing, NoRowIsRow DEF ApplyPoll, Leave, IInv, WorkInv
<1>2. /\ new \in Row /\ new.status = r.status
      /\ count \in Row /\ count.status = r.status
      /\ done \in Row /\ done.status = "done"
  <2>1. new \in Row /\ new.status = r.status
    BY <1>1 DEF Row
  <2>2. count \in Row /\ count.status = r.status
    BY <1>1 DEF Row
  <2> HIDE DEF new
  <2>3. done \in Row /\ done.status = "done"
    BY <2>1 DEF Row, Status, Terminal
  <2> QED BY <2>1, <2>2, <2>3
<1>3. CASE UNCHANGED <<jobs, told>>
  BY <1>1, <1>3, QuietStep DEF Undoing
<1>4. CASE r.status = "printing" /\ jobs' = [jobs EXCEPT ![j] = count] /\ told' = told
  <2> HIDE DEF count
  <2>1. jobs'[j] = count /\ \A k \in Job \ {j} : jobs'[k] = jobs[k]
    BY <1>4, Typing
  <2> QED BY <1>1, <1>2, <1>4, <2>1, QuietStep DEF Undoing
<1>5. CASE r.status = "printing" /\ (Uncertain(j, count) \/ Uncertain(j, new))
  <2> HIDE DEF new, count
  <2> QED BY <1>1, <1>2, <1>5, UncertainStep
<1>6. CASE r.status = "printing" /\ Write(j, new, AnyStatus, done, TRUE)
  <2> HIDE DEF done
  <2>1. Updatable(new, AnyStatus, "done")
    BY <1>2, <1>6 DEF Updatable, AnyStatus, Status, Terminal, Unsubmitted
  <2> HIDE DEF new
  <2>2. jobs' = [jobs EXCEPT ![j] = done] /\ told' = [told EXCEPT ![j] = Report(done.status, done)]
    BY <1>2, <1>6, <2>1 DEF Write
  <2> QED BY <1>1, <1>2, <1>6, <2>2, WriteStep DEF Forward
<1>7. CASE r.status = "printing" /\ Write(j, new, AnyStatus, new, TRUE)
  <2>1. Updatable(new, AnyStatus, "printing")
    BY <1>2, <1>7 DEF Updatable, AnyStatus, Status, Terminal, Unsubmitted
  <2> HIDE DEF new
  <2>2. jobs' = [jobs EXCEPT ![j] = new] /\ told' = [told EXCEPT ![j] = Report(new.status, new)]
    BY <1>2, <1>7, <2>1 DEF Write
  <2> QED BY <1>1, <1>2, <1>7, <2>2, WriteStep
<1> QED BY <1>0, <1>3, <1>4, <1>5, <1>6, <1>7 DEF ApplyPoll, CountFailure

-----------------------------------------------------------------------------
(* Outside the managers.                                                   *)

\* A cancel ends an open job, and reports it or owes the report.
LEMMA CancelJobStep ==
    ASSUME IInv, NEW j \in Job, CancelJob(j)
    PROVE  \A k \in Job : JobStep(k)
<1> DEFINE new == Cancel(jobs[j])
<1>1. /\ jobs[j] \in Row /\ jobs[j].status \notin Terminal \cup {"absent"}
      /\ jobs[j].submitted <=> jobs[j].status \in {"submitting", "printing"}
      /\ ~jobs[j].submitted => jobs[j].cups = 0
      /\ jobs' = [jobs EXCEPT ![j] = new]
      /\ UNCHANGED <<work, cups>>
  BY Typing DEF CancelJob, CanCancel, IInv, RowInv, Terminal
<1>2. new \in Row /\ Forward(jobs[j].status, new.status)
  <2>1. new \in Row
    BY <1>1, RowStatements
  <2>2. new.status = IF jobs[j].submitted \/ jobs[j].cups # 0 THEN "uncertain" ELSE "canceled"
    BY <1>1 DEF Cancel, Row
  <2> QED BY <1>1, <2>1, <2>2 DEF Forward, Row, Status, Unsubmitted
<1> HIDE DEF new
<1>3. jobs'[j] = new /\ \A k \in Job \ {j} : jobs'[k] = jobs[k]
  BY <1>1, Typing
<1>4. /\ \A k \in Job \ {j} : told'[k] = told[k] /\ cancelling'[k] = cancelling[k]
      /\ \/ told'[j].status = new.status
         \/ told'[j] = told[j] /\ cancelling'[j] = "cups"
  <2>1. \/ told' = [told EXCEPT ![j] = Report(new.status, new)] /\ cancelling' = cancelling
        \/ told' = told /\ cancelling' = [cancelling EXCEPT ![j] = "cups"]
    BY DEF CancelJob, new
  <2>2. Report(new.status, new).status = new.status
    BY DEF Report
  <2> QED BY <2>1, <2>2, Typing
<1>5. \A n \in Manager, k \in Job : Undoing(n, k) => Undoing(n, k)'
  BY <1>1 DEF Undoing
<1>6. Course(j)
  BY <1>1, <1>2, <1>3 DEF Course
<1>7. Telling(j) /\ Honest(j)
  BY <1>3, <1>4 DEF Telling, Honest, Owed
<1> QED BY <1>1, <1>3, <1>4, <1>5, <1>6, <1>7, OthersRest DEF JobStep

\* Orders, time and cleaning up change a status only when they create a row.
LEMMA BookkeepingStep ==
    ASSUME IInv, NEW j \in Job, Enqueue(j) \/ BackoffElapses(j) \/ Cleanup(j)
    PROVE  \A k \in Job : JobStep(k)
<1>1. PICK new : /\ jobs' = [jobs EXCEPT ![j] = new]
                 /\ \/ new.status = jobs[j].status
                    \/ jobs[j].status = "absent" /\ new.status = "pending"
  <2>1. CASE Enqueue(j)
    <3>1. PICK o \in Orders(j) : jobs' = [jobs EXCEPT ![j] = AddJob(jobs[j], o)]
      BY <2>1 DEF Enqueue
    <3>2. LET n == AddJob(jobs[j], o) IN
          n.status = jobs[j].status \/ (jobs[j].status = "absent" /\ n.status = "pending")
      BY Typing DEF AddJob, InsertOrIgnore, NoRow, Row
    <3> QED BY <3>1, <3>2
  <2>2. CASE BackoffElapses(j)
    <3>1. [jobs[j] EXCEPT !.due = TRUE].status = jobs[j].status
      BY Typing DEF Row
    <3> QED BY <2>2, <3>1 DEF BackoffElapses
  <2>3. CASE Cleanup(j)
    <3>1. CleanUp(jobs[j]).status = jobs[j].status
      BY Typing DEF CleanUp, Row
    <3> QED BY <2>3, <3>1 DEF Cleanup
  <2> QED BY <2>1, <2>2, <2>3
<1>2. jobs'[j] = new /\ \A k \in Job \ {j} : jobs'[k] = jobs[k]
  BY <1>1, Typing
<1>3. UNCHANGED <<work, cancelling, cups, told>>
  BY DEF Enqueue, BackoffElapses, Cleanup
<1>4. \A k \in Job : Owed(k) => Owed(k)'
  BY <1>3 DEF Owed, Undoing
<1>5. ASSUME NEW k \in Job PROVE JobStep(k)
  <2>1. Course(k)
    BY <1>1, <1>2, <1>3 DEF Course, Forward
  <2>2. Telling(k) /\ Honest(k)
    BY <1>1, <1>2, <1>3, <1>4 DEF Telling, Honest, Visible, Terminal
  <2> QED BY <2>1, <2>2 DEF JobStep
<1> QED BY <1>5

\* Steps that touch neither rows nor reports, nor what CUPS has.
LEMMA OutsideStep ==
    ASSUME IInv,
           \/ \E m \in Manager : StartPass(m) \/ CloudGrants(m) \/ CloudDenies(m)
           \/ \E j \in Job : CloudDispatches(j)
           \/ ConfigSync
           \/ UNCHANGED vars
    PROVE  \A k \in Job : JobStep(k)
<1>1. UNCHANGED <<jobs, cancelling, cups, told>>
  BY DEF StartPass, CloudGrants, CloudDenies, CloudDispatches, ConfigSync, vars
<1>2. \A n \in Manager, k \in Job : Undoing(n, k) => Undoing(n, k)'
  <2>1. ASSUME NEW m \in Manager, CloudGrants(m) \/ CloudDenies(m)
        PROVE  \A n \in Manager, k \in Job : Undoing(n, k) => Undoing(n, k)'
    BY <2>1, Typing DEF CloudGrants, CloudDenies, Undoing
  <2>2. CASE work' = work
    BY <2>2 DEF Undoing
  <2> QED BY <2>1, <2>2 DEF StartPass, CloudDispatches, ConfigSync, vars
<1> QED BY <1>1, <1>2, RestStep DEF Owed

\* A resend of the row as it is.
LEMMA ResendStep ==
    ASSUME IInv, NEW j \in Job, Resend(j)
    PROVE  \A k \in Job : JobStep(k)
<1>1. /\ UNCHANGED <<jobs, work, cancelling, cups>>
      /\ told' = [told EXCEPT ![j] = Report(jobs[j].status, jobs[j])]
  BY DEF Resend
<1>2. CupsKept
  BY <1>1, Typing DEF CupsKept, CupsState
<1>3. \A n \in Manager, k \in Job \ {j} : Undoing(n, k) => Undoing(n, k)'
  BY <1>1 DEF Undoing
<1> QED BY <1>1, <1>2, <1>3, DebtStep

\* A restart recovers the submissions that were under way, without a report.
LEMMA CrashStep ==
    ASSUME IInv, Crash
    PROVE  \A k \in Job : JobStep(k)
<1>1. /\ told' = told /\ cups' = cups
      /\ \A k \in Job : jobs'[k] = Recover(jobs[k])
  BY DEF Crash, IInv, TypeOK
<1>2. ASSUME NEW k \in Job PROVE Course(k)
  BY <1>1, Typing DEF Recover, Course, Forward, Row
<1> QED BY <1>1, <1>2 DEF JobStep, Telling, Honest

-----------------------------------------------------------------------------
(* Every step.                                                             *)

\* Every step of the system is one of these for every job.
LEMMA NextStep == IInv /\ [Next]_vars => \A k \in Job : JobStep(k)
<1> SUFFICES ASSUME IInv, [Next]_vars PROVE \A k \in Job : JobStep(k)
  OBVIOUS
<1>1. ASSUME NEW m \in Manager,
             ManagerStep(m) \/ CloudGrants(m) \/ CloudDenies(m) \/ CupsAccepts(m)
      PROVE  \A k \in Job : JobStep(k)
  BY <1>1, OutsideStep, TakeJobStep, FetchIntentStep, PrintRaisesStep,
     PrintReturnedStep, UndoStep, PollStep, ApplyPollStep, CupsAcceptsStep
  DEF ManagerStep
<1>2. ASSUME NEW j \in Job,
             \/ CloudDispatches(j) \/ Enqueue(j) \/ BackoffElapses(j)
             \/ Cleanup(j) \/ CupsFinishes(j) \/ CancelJob(j) \/ CancelStep(j)
             \/ Resend(j)
      PROVE  \A k \in Job : JobStep(k)
  BY <1>2, OutsideStep, BookkeepingStep, CupsFinishesStep, CancelJobStep, CancelStepStep,
     ResendStep
<1>3. CASE ConfigSync \/ UNCHANGED vars
  BY <1>3, OutsideStep
<1>4. CASE Crash
  BY <1>4, CrashStep
<1> QED BY <1>1, <1>2, <1>3, <1>4 DEF Next

-----------------------------------------------------------------------------
(* Ends are final.                                                         *)

\* No late download, retry, poll, order or restart revives a job that ended
\* or rewrites how it ended.
THEOREM EndsAreFinal == Spec => TerminalIsFinal
<1>1. ASSUME NEW j \in Job, Course(j), jobs[j].status \in Terminal
      PROVE  jobs'[j].status = jobs[j].status
  BY <1>1 DEF Course, Forward, Terminal, Unsubmitted
<1>2. IInv /\ [Next]_vars
        => [\A j \in Job : jobs[j].status \in Terminal => jobs'[j].status = jobs[j].status]_vars
  BY <1>1, NextStep DEF JobStep
<1> QED BY <1>2, Inductive, PTL DEF Spec, TerminalIsFinal

\* A reported end is the row's end.
ToldInv == \A j \in Job : told[j].status \in Terminal => told[j].status = jobs[j].status

\* Reports of an end are the row's, and stay.
LEMMA ToldInvStep ==
    ASSUME IInv, ToldInv, [Next]_vars, NEW j \in Job
    PROVE  /\ told'[j].status \in Terminal => told'[j].status = jobs'[j].status
           /\ told[j].status \in Terminal => told'[j].status = told[j].status
<1>1. JobStep(j)
  BY NextStep
<1>2. jobs[j].status \in Terminal => jobs'[j].status = jobs[j].status
  BY <1>1 DEF JobStep, Course, Forward, Terminal, Unsubmitted
<1> QED BY <1>1, <1>2 DEF JobStep, Honest, ToldInv

\* Once the end of a job was reported, no report takes it back.
THEOREM VerdictsStand == Spec => VerdictStands
<1>1. Init => ToldInv
  BY DEF Init, ToldInv, Unreported, Terminal
<1>2. IInv /\ ToldInv /\ [Next]_vars => ToldInv'
  BY ToldInvStep DEF ToldInv
<1>3. IInv /\ ToldInv /\ [Next]_vars
        => [\A j \in Job : told[j].status \in Terminal => told'[j].status = told[j].status]_vars
  BY ToldInvStep
<1> QED BY <1>1, <1>2, <1>3, Inductive, PTL DEF Spec, VerdictStands

-----------------------------------------------------------------------------
(* The last report.                                                        *)

\* Only a restart adds to the past, and nothing changes what was found.
LEMMA PastStep == [Next]_vars => legacy' = legacy /\ (Crash \/ UNCHANGED unsent)
<1> SUFFICES ASSUME [Next]_vars PROVE legacy' = legacy /\ (Crash \/ UNCHANGED unsent)
  OBVIOUS
<1>1. CASE Crash
  BY <1>1 DEF Crash
<1>2. ASSUME NEW m \in Manager,
             ManagerStep(m) \/ CloudGrants(m) \/ CloudDenies(m) \/ CupsAccepts(m)
      PROVE  UNCHANGED past
  BY <1>2 DEF ManagerStep, StartPass, TakeJob, FetchOk, FetchFails, CloudGrants,
     CloudDenies, IntentGranted, IntentDenied, IntentMissing, CupsAccepts,
     PrintRaises, PrintReturned, Undo, UndoReported, Poll, ApplyPoll
<1>3. ASSUME NEW j \in Job,
             \/ CloudDispatches(j) \/ Enqueue(j) \/ BackoffElapses(j)
             \/ Cleanup(j) \/ CupsFinishes(j) \/ CancelJob(j) \/ CancelStep(j)
             \/ Resend(j)
      PROVE  UNCHANGED past
  BY <1>3 DEF CloudDispatches, Enqueue, BackoffElapses, Cleanup, CupsFinishes,
     CancelJob, CancelStep, CancelAtCups, CancelReported, Resend
<1> QED BY <1>1, <1>2, <1>3 DEF Next, ConfigSync, vars

\* What the row shows, the cloud was told, unless somebody still has to report
\* it or the last restart left just this status unreported.
THEOREM NoEndIsSilent == Spec => []NoSilentEnd
<1> DEFINE Quiet(j) == /\ jobs[j].status \in Visible
                       /\ told[j].status # jobs[j].status
                       /\ unsent[j] # jobs[j].status
           Inv == \A j \in Job : Quiet(j) => Owed(j)
<1>1. Inv <=> NoSilentEnd
  BY DEF NoSilentEnd, Owed, Undoing, Visible
<1>2. Init => Inv
  BY DEF Init
<1>3. ASSUME IInv, Inv, [Next]_vars PROVE Inv'
  <2>1. ASSUME NEW j \in Job, Quiet(j)' PROVE Owed(j)'
    <3>1. Telling(j)
      BY <1>3, NextStep DEF JobStep
    <3>2. CASE Crash
      BY <2>1, <3>2 DEF Crash
    <3>3. CASE ~Crash
      <4>1. unsent' = unsent
        BY <1>3, <3>3, PastStep
      <4> QED BY <1>3, <2>1, <3>1, <3>3, <4>1 DEF Telling
    <3> QED BY <3>2, <3>3
  <2> QED BY <2>1
<1> HIDE DEF Inv
<1> QED BY <1>1, <1>2, <1>3, Inductive, PTL DEF Spec

-----------------------------------------------------------------------------
(* PrintManager implements PrintJob.                                       *)

phaseBar  == [j \in Job |-> phaseOf(jobs[j])]
ticketOf(j) == CASE ~jobs[j].submitted -> "none"
                 [] jobs[j].submitted /\ cups[j] = <<>> -> "issued"
                 [] OTHER -> "used"

\* A step maps to a step of PrintJob, or to nothing.
LEMMA StepSimulation ==
    ASSUME IInv, IInv', legacy' = legacy, NEW j \in Job, Course(j)
    PROVE  Abstract!Step(j) \/ Abstract!Stay(j)
<1> DEFINE a == jobs[j].status  b == jobs'[j].status
           p == phaseOf(jobs[j])  q == phaseOf(jobs'[j])
           t == ticketOf(j)  u == ticketOf(j)'
<1>1. /\ a \in Status \cup {"absent"} /\ b \in Status \cup {"absent"}
      /\ jobs[j].submitted \in BOOLEAN /\ jobs'[j].submitted \in BOOLEAN
  BY DEF IInv, TypeOK, Row
<1> DEFINE paper == IF j \in legacy THEN {} ELSE {"submitting", "printing", "done", "uncertain"}
<1>2. /\ jobs[j].submitted <=> a \in paper
      /\ jobs'[j].submitted <=> b \in paper
      /\ j \in legacy => a = "uncertain" /\ b = "uncertain"
      /\ ~jobs[j].submitted /\ j \notin legacy => cups[j] = <<>>
      /\ b \in {"printing", "done"} => cups'[j] # <<>>
      /\ a \in {"printing", "done"} => cups[j] # <<>>
  <2>1. RowInv(j) /\ RowInv(j)'
    BY DEF IInv
  <2>2. Len(<<>>) = 0
    OBVIOUS
  <2>3. /\ jobs[j].submitted <=> a \in paper
        /\ jobs'[j].submitted <=> b \in paper
    BY <2>1 DEF RowInv
  <2>4. j \in legacy => a = "uncertain" /\ b = "uncertain"
    BY <2>1 DEF RowInv
  <2>5. ~jobs[j].submitted /\ j \notin legacy => cups[j] = <<>>
    BY <2>1 DEF RowInv
  <2>6. b \in {"printing", "done"} => cups'[j] # <<>>
    <3>1. b \in {"printing", "done"} => jobs'[j].cups = 1
      BY <2>1 DEF RowInv
    <3>2. jobs'[j].cups = 1 => Len(cups'[j]) = 1
      BY <2>1 DEF RowInv
    <3> QED BY <2>2, <3>1, <3>2
  <2>7. a \in {"printing", "done"} => cups[j] # <<>>
    <3>1. a \in {"printing", "done"} => jobs[j].cups = 1
      BY <2>1 DEF RowInv
    <3>2. jobs[j].cups = 1 => Len(cups[j]) = 1
      BY <2>1 DEF RowInv
    <3> QED BY <2>2, <3>1, <3>2
  <2> HIDE DEF a, b, paper
  <2> QED BY <2>3, <2>4, <2>5, <2>6, <2>7
<1>3. /\ p = CASE a \in Unsubmitted -> "open" [] a = "submitting" -> "committed" [] OTHER -> a
      /\ q = CASE b \in Unsubmitted -> "open" [] b = "submitting" -> "committed" [] OTHER -> b
  BY DEF phaseOf
<1>4. /\ t = IF ~jobs[j].submitted THEN "none" ELSE IF cups[j] = <<>> THEN "issued" ELSE "used"
      /\ u = IF ~jobs'[j].submitted THEN "none" ELSE IF cups'[j] = <<>> THEN "issued" ELSE "used"
  BY <1>1 DEF ticketOf
<1>5. CASE j \in legacy
  <2>1. p = q /\ t = u
    BY <1>2, <1>3, <1>4, <1>5 DEF Unsubmitted
  <2>2. /\ phaseBar[j] = p /\ phaseBar'[j] = q
        /\ [k \in Job |-> ticketOf(k)][j] = t /\ [k \in Job |-> ticketOf(k)]'[j] = u
    BY DEF phaseBar
  <2> QED BY <2>1, <2>2 DEF Abstract!Stay, phaseBar, ticketOf
<1>6. CASE j \notin legacy
  <2>1. /\ jobs[j].submitted <=> a \in {"submitting", "printing", "done", "uncertain"}
        /\ jobs'[j].submitted <=> b \in {"submitting", "printing", "done", "uncertain"}
        /\ ~jobs[j].submitted => cups[j] = <<>>
        /\ b \in {"printing", "done"} => cups'[j] # <<>>
        /\ a \in {"printing", "done"} => cups[j] # <<>>
    BY <1>2, <1>6
  <2> HIDE DEF p, q, t, u, paper
  <2>2. \/ p = "absent" /\ q = "open" /\ u = t
        \/ p = "open" /\ q \in {"failed", "canceled"} /\ u = t
        \/ p = "open" /\ q = "committed" /\ t = "none" /\ u = "issued"
        \/ p \in {"committed", "uncertain"} /\ q = p /\ t = "issued" /\ u = "used"
        \/ p = "committed" /\ q = "printing" /\ t = "used" /\ u = "used"
        \/ p = "printing" /\ q = "done" /\ u = t
        \/ p \in {"committed", "printing"} /\ q = "uncertain" /\ u = t
        \/ q = p /\ u = t
    <3>1. CASE Forward(a, b) /\ cups'[j] = cups[j]
      <4>1. CASE a = "absent" /\ b = "pending"
        BY <3>1, <4>1, <2>1, <1>3, <1>4 DEF Unsubmitted
      <4>2. CASE a \in Unsubmitted /\ b \in Unsubmitted \cup {"failed", "canceled", "submitting"}
        BY <3>1, <4>2, <2>1, <1>3, <1>4 DEF Unsubmitted
      <4>3. CASE a = "submitting" /\ b \in {"printing", "uncertain"}
        BY <3>1, <4>3, <2>1, <1>3, <1>4 DEF Unsubmitted
      <4>4. CASE a = "printing" /\ b \in {"done", "uncertain"}
        BY <3>1, <4>4, <2>1, <1>3, <1>4 DEF Unsubmitted
      <4> QED BY <3>1, <4>1, <4>2, <4>3, <4>4 DEF Forward
    <3>2. CASE b = a /\ (cups'[j] = <<>> <=> cups[j] = <<>>)
      <4>1. p = q /\ jobs[j].submitted = jobs'[j].submitted
        BY <3>2, <1>1, <2>1, <1>3
      <4>2. u = t
        BY <3>2, <4>1, <1>4, Zenon
      <4> QED BY <4>1, <4>2
    <3>3. CASE /\ jobs'[j] = jobs[j] /\ a \in {"submitting", "uncertain"}
               /\ cups[j] = <<>> /\ cups'[j] # <<>>
      BY <3>3, <2>1, <1>3, <1>4 DEF Unsubmitted
    <3> QED BY <3>1, <3>2, <3>3 DEF Course
  <2>3. /\ phaseBar[j] = p /\ phaseBar'[j] = q
        /\ [k \in Job |-> ticketOf(k)][j] = t /\ [k \in Job |-> ticketOf(k)]'[j] = u
    BY DEF phaseBar, p, q, t, u
  <2> QED BY <2>2, <2>3
          DEF Abstract!Step, Abstract!Stay, Abstract!Accept, Abstract!GiveUp, Abstract!Commit,
              Abstract!HandOver, Abstract!Confirm, Abstract!Finish, Abstract!Doubt,
              phaseBar, ticketOf
<1> QED BY <1>5, <1>6

\* Paper at most once, and only after the submission was written down; a job
\* that failed or was canceled never reached CUPS; "done" only after CUPS had it.
THEOREM Refinement == Spec => ImplementsPrintJob
<1>1. Init => Abstract!PrintJobInit
  BY DEF Init, Abstract!PrintJobInit, phaseOf, NoRow, LegacyRow, Recover, Unsubmitted
<1>2. ASSUME IInv, IInv', [Next]_vars
      PROVE  Abstract!PrintJobNext
  <2>1. ASSUME NEW j \in Job PROVE Abstract!Step(j) \/ Abstract!Stay(j)
    BY <1>2, NextStep, PastStep, StepSimulation DEF JobStep
  <2>2. ASSUME NEW j \in Job PROVE phaseOf(jobs'[j]) \in Abstract!Phase
    BY <1>2 DEF phaseOf, Abstract!Phase, IInv, TypeOK, Row, Status, Unsubmitted, Terminal
  <2>3. ASSUME NEW j \in Job
        PROVE  (CASE ~jobs'[j].submitted -> "none"
                  [] jobs'[j].submitted /\ cups'[j] = <<>> -> "issued"
                  [] OTHER -> "used") \in {"none", "issued", "used"}
    BY <1>2 DEF IInv, TypeOK, Row
  <2> QED BY <2>1, <2>2, <2>3 DEF Abstract!PrintJobNext
<1> QED BY <1>1, <1>2, Inductive, PTL
        DEF Spec, ImplementsPrintJob, Abstract!PrintJobSpec

=============================================================================
