-------------------------- MODULE PrintManagerCopies --------------------------
(***************************************************************************)
(* Managers work on copies of rows that may be old.  Two theorems about    *)
(* what the copies can do: the attempts of a job stay within their budget, *)
(* and with a cloud that demands permissions nothing is submitted without. *)
(***************************************************************************)
EXTENDS PrintManagerSteps

USE DEF past

\* The cloud puts every order under permission.
Strict == Protocol = {"v2"}

\* The cloud permitted j, for its generation or for one it had before.
Permitted(j) == \E g \in 1..jobs[j].gen : <<j, g>> \in granted

\* A copy of the row of j demands a permission, for no newer generation.
Fits(j, r) == r.intent /\ r.gen \in 1..jobs[j].gen

\* A copy of the row of j that may be in a manager's hands.
CopyOk(j, r) ==
    /\ r.attempts < MaxAttempts
    /\ Strict /\ r.status # "absent" => Fits(j, r)

\* A row.  Those an older version left are never looked at again.
RowOk(j) ==
    /\ jobs[j].attempts <= MaxAttempts
    /\ jobs[j].attempts = MaxAttempts => jobs[j].status = "failed"
    /\ Strict /\ jobs[j].status # "absent" /\ j \notin legacy
          => jobs[j].intent /\ jobs[j].gen >= 1
    /\ Strict /\ jobs[j].submitted => Permitted(j)
    /\ jobs[j].status = "absent" => jobs[j].gen = 0

\* The copy in a manager's hands.
Holding == {"fetch", "intent", "granted", "denied"}
HandOk(m) ==
    /\ work[m].row.attempts < MaxAttempts
    /\ Strict /\ work[m].pc \in Holding => Fits(work[m].job, work[m].row)
    /\ Strict /\ work[m].pc = "granted" => Permitted(work[m].job)

CopyInv ==
    /\ \A j \in Job : RowOk(j)
    /\ \A m \in Manager, j \in Job : CopyOk(j, batch[m][j])
    /\ \A m \in Manager : HandOk(m)

\* There is nothing wrong with a row that does not exist.
LEMMA NoRowOk == (\A j : CopyOk(j, NoRow)) /\ NoRow.attempts = 0 /\ Idle.row = NoRow
                 /\ Idle.pc \notin Holding
  BY ConstantsAssumption DEF CopyOk, NoRow, Idle, Holding

\* There are no copies when the gateway starts.
LEMMA InitCopies == Init => CopyInv
<1> SUFFICES ASSUME Init PROVE CopyInv
  OBVIOUS
<1>1. ASSUME NEW j \in Job PROVE RowOk(j)
  <2>1. /\ jobs[j].attempts = 0 /\ ~jobs[j].submitted
        /\ j \notin legacy => jobs[j].status = "absent"
        /\ jobs[j].status = "absent" => jobs[j].gen = 0
    <3>1. jobs[j] = IF j \in legacy THEN Recover(LegacyRow) ELSE NoRow
      BY DEF Init
    <3>2. /\ Recover(LegacyRow).attempts = 0 /\ ~Recover(LegacyRow).submitted
          /\ Recover(LegacyRow).gen = 0
      BY DEF Recover, LegacyRow, NoRow
    <3> QED BY <3>1, <3>2 DEF NoRow
  <2> QED BY <2>1, ConstantsAssumption DEF RowOk
<1>2. \A m \in Manager, j \in Job : CopyOk(j, batch[m][j])
  BY NoRowOk DEF Init, Nothing
<1>3. \A m \in Manager : HandOk(m)
  BY NoRowOk, ConstantsAssumption DEF Init, HandOk, Holding, Idle
<1> QED BY <1>1, <1>2, <1>3 DEF CopyInv

\* Generations are numbers.
LEMMA GenIsNat == ASSUME IInv PROVE \A j \in Job : jobs[j].gen \in Nat
  BY Typing DEF Row

\* Only a row's generation may grow, so that what fitted it fits it still.
Grows == \A j \in Job : jobs'[j].gen \in Nat /\ jobs'[j].gen >= jobs[j].gen

LEMMA StillRight ==
    ASSUME IInv, Grows, granted \subseteq granted', NEW j \in Job
    PROVE  /\ Permitted(j) => Permitted(j)'
           /\ \A r \in Row : Fits(j, r) => Fits(j, r)'
           /\ \A r \in Row : CopyOk(j, r) => CopyOk(j, r)'
<1>1. /\ jobs[j].gen \in Nat /\ jobs'[j].gen \in Nat /\ jobs'[j].gen >= jobs[j].gen
  BY Typing DEF Grows, Row
<1>2. \A g : g \in 1..jobs[j].gen => g \in 1..jobs'[j].gen
  BY <1>1
<1>3. Permitted(j) => Permitted(j)'
  BY <1>2 DEF Permitted
<1>4. \A r \in Row : Fits(j, r) => Fits(j, r)'
  BY <1>2 DEF Fits
<1>5. \A r \in Row : CopyOk(j, r) => CopyOk(j, r)'
  BY <1>4 DEF CopyOk
<1> QED BY <1>3, <1>4, <1>5

\* What does not touch the columns attempts, intent, generation and submission of a row
\* keeps it right.
Alike(o, n) ==
    /\ n.attempts = o.attempts /\ n.intent = o.intent /\ n.gen = o.gen
    /\ n.submitted => o.submitted
    /\ n.status = "absent" <=> o.status = "absent"

\* A row that such a step changes stays right.
LEMMA AlikeRow ==
    ASSUME IInv, CopyInv, [Next]_vars, granted \subseteq granted',
           NEW j \in Job, Alike(jobs[j], jobs'[j])
    PROVE  RowOk(j)'
<1>1. jobs[j].status = "failed" => jobs'[j].status = "failed"
  BY NextStep DEF JobStep, Course, Forward, Unsubmitted
<1>2. legacy' = legacy
  BY PastStep
<1>3. Permitted(j) => Permitted(j)'
  BY DEF Permitted, Alike
<1> QED BY <1>1, <1>2, <1>3 DEF CopyInv, RowOk, Alike

\* Generations stay where rows are alike.
LEMMA AlikeGrows ==
    ASSUME IInv, \A j \in Job : Alike(jobs[j], jobs'[j])
    PROVE  Grows
  BY Typing DEF Alike, Grows, Row

\* A manager that stays where it was, or goes where it holds no copy.
Settles(m) ==
    \/ work'[m] = work[m]
    \/ /\ work'[m].row = work[m].row /\ work'[m].job = work[m].job
       /\ work'[m].pc \notin Holding
    \/ work'[m].row = NoRow /\ work'[m].pc \notin Holding

\* The copy of a manager that settles is right, if there is one.
LEMMA SettledHand ==
    ASSUME IInv, CopyInv, Grows, granted \subseteq granted', NEW m \in Manager, Settles(m)
    PROVE  HandOk(m)'
<1>1. CASE work'[m] = work[m]
  <2>1. work[m].row \in Row /\ (work[m].pc \in Holding => work[m].job \in Job)
    BY Typing DEF Works, Holding, IInv, WorkInv
  <2> QED BY <1>1, <2>1, StillRight DEF CopyInv, HandOk, Holding
<1>2. CASE work'[m].row = work[m].row /\ work'[m].pc \notin Holding
  BY <1>2 DEF CopyInv, HandOk, Holding
<1>3. CASE work'[m].row = NoRow /\ work'[m].pc \notin Holding
  BY <1>3, NoRowOk, ConstantsAssumption DEF HandOk, Holding
<1> QED BY <1>1, <1>2, <1>3 DEF Settles

\* A step that changes neither copies nor the columns in question.
LEMMA PlainCopies ==
    ASSUME IInv, CopyInv, [Next]_vars, granted \subseteq granted', batch' = batch,
           \A j \in Job : Alike(jobs[j], jobs'[j]),
           \A m \in Manager : Settles(m)
    PROVE  CopyInv'
<1>1. \A j \in Job : RowOk(j)'
  BY AlikeRow
<1>2. Grows
  BY AlikeGrows
<1>3. \A m \in Manager : HandOk(m)'
  BY <1>2, SettledHand
<1>4. \A m \in Manager, j \in Job : CopyOk(j, batch[m][j])'
  BY <1>2, StillRight, Typing DEF CopyInv, CopyOk, Fits
<1> QED BY <1>1, <1>3, <1>4 DEF CopyInv

-----------------------------------------------------------------------------
(* Up to begin_submit.                                                     *)

\* What manager m makes of its copy seen, r being the row of j.
Handles(m, j, seen, r) ==
    \E new \in Row, w \in Works :
        /\ jobs' = [jobs EXCEPT ![j] = new]
        /\ work' = [work EXCEPT ![m] = w]
        /\ \/ new.attempts = r.attempts
           \/ /\ new.attempts = seen.attempts + 1
              /\ new.attempts >= MaxAttempts => new.status = "failed"
        /\ new.intent = r.intent /\ (new.status = "absent" <=> r.status = "absent")
        /\ new.gen = r.gen
        /\ new.submitted => r.submitted \/ ~seen.intent \/ work[m].pc = "granted"
        /\ \/ w.row = NoRow /\ w.pc \notin Holding
           \/ w.row = seen /\ w.job = j /\ w.pc \in {"fetch", "intent"}

\* _fail_or_retry counts on from the copy, and ends the job at the limit.
LEMMA FailOrRetryHandles ==
    ASSUME NEW m \in Manager, NEW j \in Job, NEW seen \in Row, NEW r \in Row,
           NEW retry \in BOOLEAN, FailOrRetry(m, j, seen, r, retry)
    PROVE  Handles(m, j, seen, r)
<1> DEFINE attempts == seen.attempts + 1
           final    == ~retry \/ IsLast(attempts)
           new      == [r EXCEPT !.status   = IF final THEN "failed" ELSE "pending",
                                 !.attempts = attempts,
                                 !.due      = @ /\ final,
                                 !.cups     = 0]
<1>1. /\ new \in Row /\ new.attempts = seen.attempts + 1
      /\ new.intent = r.intent /\ new.gen = r.gen /\ new.submitted = r.submitted
      /\ new.status \in {"failed", "pending"}
      /\ new.attempts >= MaxAttempts => new.status = "failed"
  <2>1. attempts \in Nat /\ r \in Row
    BY DEF Row
  <2>2. (r.due /\ final) \in BOOLEAN
    OBVIOUS
  <2>3. (IF final THEN "failed" ELSE "pending") \in Status
    BY DEF Status, Unsubmitted, Terminal
  <2>4. attempts >= MaxAttempts => final
    BY DEF IsLast
  <2> HIDE DEF attempts, final
  <2>5. /\ new \in Row /\ new.attempts = attempts
        /\ new.intent = r.intent /\ new.gen = r.gen /\ new.submitted = r.submitted
        /\ new.status = IF final THEN "failed" ELSE "pending"
    BY <2>1, <2>2, <2>3 DEF Row
  <2> HIDE DEF new
  <2> QED BY <2>4, <2>5 DEF attempts
<1>2. Write(j, r, Unsubmitted, new, final) /\ work' = [work EXCEPT ![m] = Idle]
  BY DEF FailOrRetry, Leave
<1> HIDE DEF new, final
<1>3. CASE Updatable(r, Unsubmitted, new.status)
  <2>1. jobs' = [jobs EXCEPT ![j] = new]
    BY <1>2, <1>3 DEF Write
  <2>2. r.status # "absent" /\ new.status # "absent"
    BY <1>1, <1>3 DEF Updatable, Unsubmitted
  <2> QED BY <1>1, <1>2, <2>1, <2>2, NoRowIsRow, NoRowOk DEF Handles
<1>4. CASE ~Updatable(r, Unsubmitted, new.status)
  <2>1. jobs' = [jobs EXCEPT ![j] = r]
    BY <1>2, <1>4 DEF Write
  <2> QED BY <1>2, <2>1, NoRowIsRow, NoRowOk DEF Handles
<1> QED BY <1>3, <1>4

\* begin_submit follows a permission, or a copy that needs none.
LEMMA SubmitHandles ==
    ASSUME NEW m \in Manager, NEW j \in Job, NEW seen \in Row, NEW r \in Row,
           ~seen.intent \/ work[m].pc = "granted", Submit(m, j, r)
    PROVE  Handles(m, j, seen, r)
<1> DEFINE w == [Idle EXCEPT !.pc = "submit", !.job = j, !.row = NoRow]
<1>1. w \in Works /\ w.pc \notin Holding /\ w.row = NoRow
  BY NoRowIsRow DEF Works, Idle, Pc, Holding
<1>2. CASE CanBeginSubmit(r)
  <2>1. /\ BeginSubmit(r) \in Row /\ BeginSubmit(r).attempts = r.attempts
        /\ BeginSubmit(r).intent = r.intent /\ BeginSubmit(r).gen = r.gen
        /\ BeginSubmit(r).status # "absent"
        /\ r.status # "absent"
    BY <1>2, RowStatements DEF CanBeginSubmit, BeginSubmit, Row, Unsubmitted
  <2>2. jobs' = [jobs EXCEPT ![j] = BeginSubmit(r)] /\ work' = [work EXCEPT ![m] = w]
    BY <1>2 DEF Submit, AtAwait
  <2> HIDE DEF w
  <2> QED BY <1>1, <2>1, <2>2 DEF Handles
<1>3. CASE ~CanBeginSubmit(r)
  BY <1>3, NoRowIsRow, NoRowOk DEF Submit, Leave, Handles
<1> QED BY <1>2, <1>3

\* So does the way from the PDF to begin_submit.
LEMMA ProceedHandles ==
    ASSUME NEW m \in Manager, NEW j \in Job, NEW seen \in Row, NEW r \in Row,
           Proceed(m, j, seen, r)
    PROVE  Handles(m, j, seen, r)
<1> DEFINE w == [Idle EXCEPT !.pc = "intent", !.job = j, !.row = seen]
<1>1. w \in Works /\ w.pc = "intent" /\ w.row = seen /\ w.job = j
  BY NoRowIsRow DEF Works, Idle, Pc
<1>2. CASE FailOrRetry(m, j, seen, r, TRUE)
  BY <1>2, FailOrRetryHandles
<1>3. CASE work' = [work EXCEPT ![m] = w] /\ jobs' = [jobs EXCEPT ![j] = r]
  <2> HIDE DEF w
  <2> QED BY <1>1, <1>3 DEF Handles
<1>4. CASE ~seen.intent /\ Submit(m, j, r)
  BY <1>4, SubmitHandles
<1> QED BY <1>2, <1>3, <1>4 DEF Proceed, AtAwait

\* Handling a copy that is right keeps rows and copies right.
LEMMA HandlesKeeps ==
    ASSUME IInv, CopyInv, [Next]_vars, NEW m \in Manager, NEW j \in Job,
           NEW seen \in Row, seen.attempts < MaxAttempts, Strict => Fits(j, seen),
           Handles(m, j, seen, jobs[j]),
           work[m].pc = "granted" => work[m].job = j,
           granted' = granted,
           \A n \in Manager, k \in Job : batch'[n][k] \in {batch[n][k], NoRow}
    PROVE  CopyInv'
<1>1. PICK new \in Row, w \in Works :
        /\ jobs' = [jobs EXCEPT ![j] = new]
        /\ work' = [work EXCEPT ![m] = w]
        /\ \/ new.attempts = jobs[j].attempts
           \/ /\ new.attempts = seen.attempts + 1
              /\ new.attempts >= MaxAttempts => new.status = "failed"
        /\ new.intent = jobs[j].intent /\ (new.status = "absent" <=> jobs[j].status = "absent")
        /\ new.gen = jobs[j].gen
        /\ new.submitted => jobs[j].submitted \/ ~seen.intent \/ work[m].pc = "granted"
        /\ \/ w.row = NoRow /\ w.pc \notin Holding
           \/ w.row = seen /\ w.job = j /\ w.pc \in {"fetch", "intent"}
  BY DEF Handles
<1>2. /\ jobs'[j] = new /\ work'[m] = w
      /\ \A k \in Job \ {j} : jobs'[k] = jobs[k]
      /\ \A n \in Manager \ {m} : work'[n] = work[n]
  BY <1>1, Typing
<1>3. /\ \A k \in Job : jobs'[k].gen = jobs[k].gen
      /\ \A k \in Job : Permitted(k)' <=> Permitted(k)
      /\ legacy' = legacy
  <2>1. \A k \in Job : jobs'[k].gen = jobs[k].gen
    BY <1>1, <1>2
  <2> QED BY <2>1, PastStep DEF Permitted
<1>4. ASSUME NEW k \in Job PROVE RowOk(k)'
  <2>1. CASE k # j
    BY <1>2, <1>3, <2>1 DEF CopyInv, RowOk
  <2>2. CASE k = j
    <3>1. jobs[j].status = "failed" => new.status = "failed"
      BY <1>2, NextStep DEF JobStep, Course, Forward, Unsubmitted
    <3>2. new.attempts <= MaxAttempts /\ (new.attempts = MaxAttempts => new.status = "failed")
      BY <1>1, <3>1, ConstantsAssumption DEF CopyInv, RowOk, Row
    <3>3. /\ Strict /\ new.status # "absent" /\ j \notin legacy => new.intent /\ new.gen >= 1
          /\ new.status = "absent" => new.gen = 0
      BY <1>1 DEF CopyInv, RowOk
    <3>4. Strict /\ new.submitted => Permitted(j)
      BY <1>1 DEF CopyInv, RowOk, HandOk, Fits
    <3> QED BY <1>2, <1>3, <2>2, <3>2, <3>3, <3>4 DEF RowOk
  <2> QED BY <2>1, <2>2
<1>5. Grows
  <2>1. \A k \in Job : jobs'[k].gen = jobs[k].gen
    BY <1>3
  <2> QED BY <2>1, GenIsNat DEF Grows
<1>6. ASSUME NEW n \in Manager PROVE HandOk(n)'
  <2>1. CASE n # m
    BY <1>2, <1>5, <2>1, SettledHand DEF Settles
  <2>2. CASE n = m /\ w.row = NoRow /\ w.pc \notin Holding
    BY <1>2, <1>5, <2>2, SettledHand DEF Settles
  <2>3. CASE n = m /\ w.row = seen /\ w.job = j /\ w.pc \in {"fetch", "intent"}
    BY <1>2, <1>5, <2>3, StillRight DEF HandOk
  <2> QED BY <1>1, <2>1, <2>2, <2>3
<1>7. ASSUME NEW n \in Manager, NEW k \in Job PROVE CopyOk(k, batch[n][k])'
  <2>1. CopyOk(k, batch[n][k]) => CopyOk(k, batch'[n][k])
    BY NoRowOk
  <2>2. batch'[n][k] \in Row
    BY Typing, NoRowIsRow
  <2>3. CopyOk(k, batch'[n][k]) => CopyOk(k, batch[n][k])'
    <3>1. Fits(k, batch'[n][k]) => Fits(k, batch[n][k])'
      BY <1>3 DEF Fits
    <3> QED BY <3>1 DEF CopyOk
  <2> QED BY <2>1, <2>3 DEF CopyInv
<1> QED BY <1>4, <1>6, <1>7 DEF CopyInv

\* Taking a job from the batch handles the copy taken.
LEMMA TakeJobCopies ==
    ASSUME IInv, CopyInv, NEW m \in Manager, NEW j \in Job, TakeJob(m, j), [Next]_vars
    PROVE  CopyInv'
<1> DEFINE seen == batch[m][j]
<1>1. /\ seen \in Row /\ seen.attempts < MaxAttempts /\ (Strict => Fits(j, seen)) /\ jobs[j] \in Row
      /\ work[m].pc = "idle" /\ granted' = granted
      /\ batch' = [batch EXCEPT ![m] = [batch[m] EXCEPT ![j] = NoRow]]
  BY Typing DEF TakeJob, CopyInv, CopyOk
<1>2. \A n \in Manager, k \in Job : batch'[n][k] \in {batch[n][k], NoRow}
  BY <1>1, Typing
<1>3. CASE Handles(m, j, seen, jobs[j])
  BY <1>1, <1>2, <1>3, HandlesKeeps
<1>4. CASE FailOrRetry(m, j, seen, jobs[j], TRUE)
  BY <1>1, <1>3, <1>4, FailOrRetryHandles
<1>5. CASE Proceed(m, j, seen, jobs[j])
  BY <1>1, <1>3, <1>5, ProceedHandles
<1>6. CASE AtAwait(m, "fetch", j, seen) /\ UNCHANGED <<jobs, told>>
  <2> DEFINE w == [Idle EXCEPT !.pc = "fetch", !.job = j, !.row = seen]
  <2>1. w \in Works /\ w.pc = "fetch" /\ w.row = seen /\ w.job = j
    BY <1>1, NoRowIsRow DEF Works, Idle, Pc
  <2>2. jobs' = [jobs EXCEPT ![j] = jobs[j]] /\ work' = [work EXCEPT ![m] = w]
    BY <1>6, Typing DEF AtAwait
  <2>3. jobs[j].submitted \in BOOLEAN
    BY <1>1 DEF Row
  <2> HIDE DEF w, seen
  <2> QED BY <1>1, <1>3, <2>1, <2>2, <2>3 DEF Handles
<1>7. CASE /\ work' = [work EXCEPT ![m] = [Idle EXCEPT !.pc = "poll", !.job = j, !.id = seen.cups]]
           /\ UNCHANGED <<jobs, told>>
  <2> DEFINE w == [Idle EXCEPT !.pc = "poll", !.job = j, !.id = seen.cups]
  <2>1. w \in Works /\ w.pc \notin Holding /\ w.row = NoRow
    BY <1>1, NoRowIsRow DEF Works, Idle, Pc, Row, Holding
  <2>2. jobs' = [jobs EXCEPT ![j] = jobs[j]] /\ work' = [work EXCEPT ![m] = w]
    BY <1>7, Typing
  <2> HIDE DEF w, seen
  <2> QED BY <1>1, <1>3, <2>1, <2>2 DEF Handles
<1> QED BY <1>4, <1>5, <1>6, <1>7 DEF TakeJob

\* The end of a download handles the copy in hand.
LEMMA FetchCopies ==
    ASSUME IInv, CopyInv, NEW m \in Manager, FetchOk(m) \/ FetchFails(m), [Next]_vars
    PROVE  CopyInv'
<1>0. PICK j \in Job : j = work[m].job
  BY DEF FetchOk, FetchFails, IInv, WorkInv
<1> DEFINE seen == work[m].row
           new  == [jobs[j] EXCEPT !.status = "downloading", !.pdf = TRUE]
<1>1. /\ work[m].pc = "fetch" /\ work[m].job = j /\ seen \in Row /\ jobs[j] \in Row
      /\ seen.attempts < MaxAttempts /\ (Strict => Fits(j, seen))
      /\ granted' = granted /\ batch' = batch
  BY <1>0, Typing DEF FetchOk, FetchFails, CopyInv, HandOk, Works, Holding
<1>2. CASE Handles(m, j, seen, jobs[j])
  BY <1>1, <1>2, HandlesKeeps
<1>3. CASE FetchFails(m)
  BY <1>0, <1>1, <1>2, <1>3, FailOrRetryHandles DEF FetchFails
<1>4. CASE FetchOk(m) /\ Updatable(jobs[j], Unsubmitted, "downloading")
  <2>1. /\ new \in Row /\ new.attempts = jobs[j].attempts /\ new.intent = jobs[j].intent
        /\ new.gen = jobs[j].gen
        /\ new.submitted = jobs[j].submitted
        /\ new.status # "absent" /\ jobs[j].status # "absent"
    BY <1>1, <1>4 DEF Row, Status, Unsubmitted, Updatable
  <2>2. Proceed(m, j, seen, new)
    BY <1>0, <1>4 DEF FetchOk
  <2> HIDE DEF new, seen
  <2>3. Handles(m, j, seen, new)
    BY <1>1, <2>1, <2>2, ProceedHandles
  <2>4. Handles(m, j, seen, jobs[j])
    BY <2>1, <2>3 DEF Handles
  <2> QED BY <1>2, <2>4
<1>5. CASE FetchOk(m) /\ ~Updatable(jobs[j], Unsubmitted, "downloading")
  <2>1. jobs' = jobs /\ work' = [work EXCEPT ![m] = Idle]
    BY <1>0, <1>5 DEF FetchOk, Leave
  <2>2. \A n \in Manager : Settles(n)
    BY <2>1, Typing, NoRowOk DEF Settles
  <2>3. \A k \in Job : Alike(jobs[k], jobs'[k])
    BY <2>1 DEF Alike
  <2> QED BY <1>1, <2>2, <2>3, PlainCopies
<1> QED BY <1>3, <1>4, <1>5

\* So does an answer to print_intent, or its absence.
LEMMA IntentCopies ==
    ASSUME IInv, CopyInv, NEW m \in Manager, [Next]_vars,
           IntentGranted(m) \/ IntentDenied(m) \/ IntentMissing(m)
    PROVE  CopyInv'
<1>0. PICK j \in Job : j = work[m].job
  BY DEF IntentGranted, IntentDenied, IntentMissing, IInv, WorkInv
<1> DEFINE seen == work[m].row
<1>1. /\ work[m].job = j /\ seen \in Row /\ jobs[j] \in Row
      /\ work[m].pc \in Holding
      /\ granted' = granted /\ batch' = batch
  BY <1>0, Typing DEF IntentGranted, IntentDenied, IntentMissing, Works, Holding
<1>2. seen.attempts < MaxAttempts /\ (Strict => Fits(j, seen))
  BY <1>1 DEF CopyInv, HandOk
<1> HIDE DEF seen
<1>3. CASE Handles(m, j, seen, jobs[j])
  BY <1>1, <1>2, <1>3, HandlesKeeps
<1>4. CASE IntentGranted(m)
  <2>1. work[m].pc = "granted" /\ Submit(m, j, jobs[j])
    BY <1>0, <1>4 DEF IntentGranted
  <2> QED BY <1>1, <1>3, <2>1, SubmitHandles
<1>5. CASE IntentDenied(m)
  <2>1. FailOrRetry(m, j, seen, jobs[j], FALSE)
    BY <1>0, <1>5 DEF IntentDenied, seen
  <2> QED BY <1>1, <1>3, <2>1, FailOrRetryHandles
<1>6. CASE IntentMissing(m)
  <2>1. FailOrRetry(m, j, seen, jobs[j], TRUE)
    BY <1>0, <1>6 DEF IntentMissing, seen
  <2> QED BY <1>1, <1>3, <2>1, FailOrRetryHandles
<1> QED BY <1>4, <1>5, <1>6

-----------------------------------------------------------------------------
(* Every other step.                                                       *)

\* due_jobs copies rows that are right.
LEMMA StartPassCopies ==
    ASSUME IInv, CopyInv, NEW m \in Manager, StartPass(m), [Next]_vars
    PROVE  CopyInv'
<1>1. UNCHANGED <<jobs, work, granted>>
  BY DEF StartPass
<1>2. ASSUME NEW n \in Manager, NEW k \in Job PROVE CopyOk(k, batch'[n][k])
  <2>1. CASE IsDue(jobs[k]) /\ batch'[n][k] = Snapshot(jobs[k])
    <3>1. /\ jobs[k].attempts < MaxAttempts /\ jobs[k].status # "absent" /\ k \notin legacy
          /\ jobs[k].gen \in Nat
      BY <2>1, Typing, ConstantsAssumption
      DEF CopyInv, RowOk, IsDue, Unsubmitted, Row, IInv, RowInv
    <3>2. /\ Snapshot(jobs[k]).attempts = jobs[k].attempts
          /\ Snapshot(jobs[k]).intent = jobs[k].intent
          /\ Snapshot(jobs[k]).gen = jobs[k].gen
      BY Typing DEF Snapshot, Row
    <3>3. Strict => jobs[k].intent /\ jobs[k].gen >= 1
      BY <3>1 DEF CopyInv, RowOk
    <3> QED BY <2>1, <3>1, <3>2, <3>3 DEF CopyOk, Fits
  <2>2. batch'[n][k] \in {batch[n][k], NoRow} \/ (IsDue(jobs[k]) /\ batch'[n][k] = Snapshot(jobs[k]))
    BY Typing DEF StartPass
  <2> QED BY <2>1, <2>2, NoRowOk DEF CopyInv
<1>3. \A k \in Job : RowOk(k)'
  BY <1>1, PastStep DEF CopyInv, RowOk, Permitted
<1>4. Grows
  BY <1>1, Typing DEF Grows, Row
<1>5. \A n \in Manager : HandOk(n)'
  BY <1>1, <1>4, SettledHand DEF Settles
<1>6. \A n \in Manager, k \in Job : CopyOk(k, batch[n][k])'
  BY <1>1, <1>2 DEF CopyOk, Fits
<1> QED BY <1>3, <1>5, <1>6 DEF CopyInv

\* The cloud decides.
LEMMA CloudCopies ==
    ASSUME IInv, CopyInv, NEW m \in Manager, [Next]_vars, CloudGrants(m) \/ CloudDenies(m)
    PROVE  CopyInv'
<1>0. PICK j \in Job : j = work[m].job
  BY DEF CloudGrants, CloudDenies, IInv, WorkInv
<1>1. /\ work[m].pc = "intent" /\ UNCHANGED <<jobs, batch>> /\ granted \subseteq granted'
      /\ work'[m].row = work[m].row /\ work'[m].job = j
      /\ work'[m].pc \in {"granted", "denied"}
      /\ work'[m].pc = "granted" => <<j, work[m].row.gen>> \in granted'
      /\ \A n \in Manager \ {m} : work'[n] = work[n]
  BY <1>0, Typing DEF CloudGrants, CloudDenies, Works
<1>2. Grows
  BY <1>1, Typing DEF Grows, Row
<1>3. \A k \in Job : RowOk(k)'
  BY <1>1, <1>2, StillRight, PastStep DEF CopyInv, RowOk
<1>4. ASSUME NEW n \in Manager PROVE HandOk(n)'
  <2>1. CASE n # m
    BY <1>1, <1>2, <2>1, SettledHand DEF Settles
  <2>2. CASE n = m
    <3>1. Strict => Fits(j, work[m].row)
      BY <1>0, <1>1 DEF CopyInv, HandOk, Holding
    <3> QED BY <1>0, <1>1, <2>2, <3>1 DEF CopyInv, HandOk, Holding, Fits, Permitted
  <2> QED BY <2>1, <2>2
<1>5. \A n \in Manager, k \in Job : CopyOk(k, batch[n][k])'
  BY <1>1 DEF CopyInv, CopyOk, Fits
<1> QED BY <1>3, <1>4, <1>5 DEF CopyInv

\* A coroutine that returns holds nothing.
LEMMA LeaveSettles ==
    ASSUME IInv, NEW m \in Manager, Leave(m)
    PROVE  \A n \in Manager : Settles(n)
  BY Typing, NoRowOk DEF Leave, Settles

\* A write to one row that leaves the columns in question alone.
LEMMA AlikeWrite ==
    ASSUME IInv, NEW j \in Job, NEW new, Alike(jobs[j], new),
           jobs' = [jobs EXCEPT ![j] = new] \/ jobs' = jobs
    PROVE  \A k \in Job : Alike(jobs[k], jobs'[k])
  BY Typing DEF Alike

\* What is reported about an unclear hand-over.
LEMMA UncertainAlike ==
    ASSUME IInv, NEW j \in Job, NEW r \in Row, Alike(jobs[j], r),
           r.status # "absent", Uncertain(j, r)
    PROVE  \A k \in Job : Alike(jobs[k], jobs'[k])
<1> DEFINE new == [r EXCEPT !.status = "uncertain"]
<1>1. Alike(jobs[j], new)
  BY DEF Alike, Row
<1>2. jobs' = [jobs EXCEPT ![j] = new] \/ jobs' = [jobs EXCEPT ![j] = r]
  BY DEF Uncertain, Write
<1> HIDE DEF new
<1> QED BY <1>1, <1>2, AlikeWrite

\* The thread that prints returns or raises.
LEMMA PrintCopies ==
    ASSUME IInv, CopyInv, [Next]_vars, NEW m \in Manager,
           PrintRaises(m) \/ PrintReturned(m)
    PROVE  CopyInv'
<1>0. PICK j \in Job : j = work[m].job
  BY DEF PrintRaises, PrintReturned, IInv, WorkInv
<1> DEFINE new == [jobs[j] EXCEPT !.status = "printing", !.cups = work[m].id]
<1>1. /\ jobs[j] \in Row /\ jobs[j].status \in {"submitting", "uncertain"}
      /\ work[m] \in Works /\ batch' = batch /\ granted' = granted
  BY <1>0, Typing DEF PrintRaises, PrintReturned, IInv, WorkInv
<1>2. Alike(jobs[j], new)
  BY <1>1 DEF Alike, Row
<1>3. Alike(jobs[j], jobs[j])
  BY <1>1 DEF Alike
<1>4. Alike(jobs[j], [jobs[j] EXCEPT !.cups = work[m].id])
  BY <1>1 DEF Alike, Row
<1>5. CASE PrintRaises(m)
  <2>1. Uncertain(j, jobs[j]) /\ Leave(m)
    BY <1>0, <1>5 DEF PrintRaises
  <2> QED BY <1>1, <1>3, <2>1, UncertainAlike, LeaveSettles, PlainCopies
<1>6. CASE PrintReturned(m)
  <2>1. \A k \in Job : Alike(jobs[k], jobs'[k])
    <3>1. \/ jobs' = [jobs EXCEPT ![j] = [jobs[j] EXCEPT !.cups = work[m].id]]
          \/ jobs' = [jobs EXCEPT ![j] = new]
          \/ jobs' = [jobs EXCEPT ![j] = jobs[j]]
      BY <1>0, <1>6 DEF PrintReturned, Write
    <3> HIDE DEF new
    <3> QED BY <1>2, <1>3, <1>4, <3>1, AlikeWrite
  <2>2. \A n \in Manager : Settles(n)
    <3>1. \/ Leave(m)
          \/ \E pc \in {"undo", "poll"} : work' = [work EXCEPT ![m].pc = pc]
      BY <1>6 DEF PrintReturned
    <3>2. ASSUME NEW pc \in {"undo", "poll"}, work' = [work EXCEPT ![m].pc = pc]
          PROVE  \A n \in Manager : Settles(n)
      BY <3>2, Typing DEF Settles, Works, Holding
    <3> QED BY <3>1, <3>2, LeaveSettles
  <2> QED BY <1>1, <2>1, <2>2, PlainCopies
<1> QED BY <1>5, <1>6

\* Polling: the row counts failures, or ends.
LEMMA ApplyPollCopies ==
    ASSUME IInv, CopyInv, [Next]_vars, NEW m \in Manager, ApplyPoll(m)
    PROVE  CopyInv'
<1>0. PICK j \in Job : j = work[m].job
  BY DEF ApplyPoll, IInv, WorkInv
<1> DEFINE r     == jobs[j]
           new   == [r EXCEPT !.failures = 0]
           count == [r EXCEPT !.failures = @ + 1]
           done  == [new EXCEPT !.status = "done"]
<1>1. r \in Row /\ batch' = batch /\ granted' = granted /\ Leave(m)
  BY <1>0, Typing DEF ApplyPoll
<1>2. /\ new \in Row /\ new.status = r.status /\ Alike(jobs[j], new)
      /\ count \in Row /\ count.status = r.status /\ Alike(jobs[j], count)
  <2>1. r.failures + 1 \in Nat
    BY <1>1 DEF Row
  <2> QED BY <1>1, <2>1 DEF Row, Alike
<1>3. r.status = "printing" => Alike(jobs[j], done)
  BY <1>1 DEF Row, Alike
<1>4. \/ jobs' = jobs
      \/ r.status = "printing" /\ jobs' = [jobs EXCEPT ![j] = count]
      \/ r.status = "printing" /\ Uncertain(j, count)
      \/ r.status = "printing" /\ jobs' = [jobs EXCEPT ![j] = done]
      \/ r.status = "printing" /\ jobs' = [jobs EXCEPT ![j] = new]
      \/ r.status = "printing" /\ Uncertain(j, new)
  BY <1>0 DEF ApplyPoll, CountFailure, Write
<1> HIDE DEF new, count, done
<1>5. \A k \in Job : Alike(jobs[k], jobs'[k])
  BY <1>1, <1>2, <1>3, <1>4, AlikeWrite, UncertainAlike DEF Alike
<1> QED BY <1>1, <1>5, LeaveSettles, PlainCopies

\* Steps of a manager that leave every row as it is.
LEMMA RowlessCopies ==
    ASSUME IInv, CopyInv, [Next]_vars, NEW m \in Manager,
           CupsAccepts(m) \/ Undo(m) \/ UndoReported(m) \/ Poll(m)
    PROVE  CopyInv'
<1>1. UNCHANGED <<jobs, batch, granted>>
  BY DEF CupsAccepts, Undo, UndoReported, Poll
<1>2. \A k \in Job : Alike(jobs[k], jobs'[k])
  BY <1>1 DEF Alike
<1>3. CASE UndoReported(m)
  BY <1>1, <1>2, <1>3, LeaveSettles, PlainCopies DEF UndoReported
<1>4. CASE CupsAccepts(m) \/ Undo(m) \/ Poll(m)
  <2>1. /\ work'[m].row = work[m].row /\ work'[m].job = work[m].job
        /\ work'[m].pc \in {"accepted", "undone", "polled"}
        /\ \A n \in Manager \ {m} : work'[n] = work[n]
    BY <1>4, Typing DEF CupsAccepts, Undo, Poll, Works
  <2>2. \A n \in Manager : Settles(n)
    BY <2>1 DEF Settles, Holding
  <2> QED BY <1>1, <1>2, <2>2, PlainCopies
<1> QED BY <1>3, <1>4

\* Outside the managers, but for orders and restarts.
LEMMA OutsideCopies ==
    ASSUME IInv, CopyInv, [Next]_vars,
           \/ \E j \in Job : \/ CloudDispatches(j) \/ BackoffElapses(j) \/ Cleanup(j)
                            \/ CupsFinishes(j) \/ CancelJob(j) \/ CancelStep(j) \/ Resend(j)
           \/ ConfigSync \/ UNCHANGED vars
    PROVE  CopyInv'
<1>1. UNCHANGED <<work, batch, granted>>
  BY DEF CloudDispatches, BackoffElapses, Cleanup, CupsFinishes, CancelJob, CancelStep,
         CancelAtCups, CancelReported, Resend, ConfigSync, vars
<1>2. \A n \in Manager : Settles(n)
  BY <1>1 DEF Settles
<1>3. \A k \in Job : Alike(jobs[k], jobs'[k])
  <2>1. CASE jobs' = jobs
    BY <2>1 DEF Alike
  <2>2. ASSUME NEW j \in Job, BackoffElapses(j) PROVE \A k \in Job : Alike(jobs[k], jobs'[k])
    <3>1. Alike(jobs[j], [jobs[j] EXCEPT !.due = TRUE])
      BY Typing DEF Alike, Row
    <3>2. jobs' = [jobs EXCEPT ![j] = [jobs[j] EXCEPT !.due = TRUE]]
      BY <2>2 DEF BackoffElapses
    <3> QED BY <3>1, <3>2, AlikeWrite
  <2>3. ASSUME NEW j \in Job, Cleanup(j) PROVE \A k \in Job : Alike(jobs[k], jobs'[k])
    <3>1. Alike(jobs[j], CleanUp(jobs[j]))
      BY Typing DEF Alike, Row, CleanUp
    <3>2. jobs' = [jobs EXCEPT ![j] = CleanUp(jobs[j])]
      BY <2>3 DEF Cleanup
    <3> QED BY <3>1, <3>2, AlikeWrite
  <2>4. ASSUME NEW j \in Job, CancelJob(j) PROVE \A k \in Job : Alike(jobs[k], jobs'[k])
    <3>1. Alike(jobs[j], Cancel(jobs[j]))
      BY <2>4, Typing DEF Alike, Row, Cancel, CancelJob, CanCancel
    <3>2. jobs' = [jobs EXCEPT ![j] = Cancel(jobs[j])]
      BY <2>4 DEF CancelJob
    <3> QED BY <3>1, <3>2, AlikeWrite
  <2> QED BY <2>1, <2>2, <2>3, <2>4
          DEF CloudDispatches, CupsFinishes, CancelStep, CancelAtCups, CancelReported,
              Resend, ConfigSync, vars
<1> QED BY <1>1, <1>2, <1>3, PlainCopies

\* An order creates a row that has made no attempt; with a cloud that demands
\* permissions it demands one.
LEMMA EnqueueCopies ==
    ASSUME IInv, CopyInv, NEW j \in Job, Enqueue(j), [Next]_vars
    PROVE  CopyInv'
<1>1. PICK o \in Orders(j) : jobs' = [jobs EXCEPT ![j] = AddJob(jobs[j], o)]
  BY DEF Enqueue
<1>2. UNCHANGED <<work, batch, granted>>
  BY DEF Enqueue
<1>3. (Strict => o.intent /\ o.gen >= 1) /\ o.gen \in Nat
  BY ConstantsAssumption DEF Orders, Strict, IInv, TypeOK
<1> DEFINE r == jobs[j]
           i == InsertOrIgnore(r)
           n == AddJob(r, o)
<1>4. r \in Row /\ RowOk(j) /\ (r.status = "absent" => ~r.submitted)
  BY Typing DEF CopyInv, IInv, RowInv, Row
<1>5. /\ i \in Row /\ i.status # "absent"
      /\ i = r \/ (i.attempts = 0 /\ ~i.submitted /\ i.status = "pending" /\ i.gen = 0)
  BY <1>4 DEF InsertOrIgnore, NoRow, Row, Status, Unsubmitted
<1>6. /\ n.attempts = i.attempts /\ n.submitted = i.submitted /\ n.status = i.status
      /\ \/ n.intent = i.intent /\ n.gen = i.gen
         \/ n.intent = o.intent /\ n.gen = o.gen /\ o.gen >= i.gen
      /\ i # r => n.intent = o.intent /\ n.gen = o.gen
  BY <1>3, <1>5 DEF AddJob, TakesIntent, Row, Unsubmitted
<1>7. n.gen \in Nat /\ n.gen >= r.gen
  <2>1. r.gen \in Nat /\ i.gen \in Nat
    BY <1>4, <1>5 DEF Row
  <2>2. CASE i = r
    BY <1>3, <1>6, <2>1, <2>2
  <2>3. CASE i # r
    <3>1. r.status = "absent" => r.gen = 0
      BY <1>4 DEF RowOk
    <3>2. i = r \/ r.status = "absent"
      BY DEF InsertOrIgnore
    <3> QED BY <1>3, <1>6, <2>1, <2>3, <3>1, <3>2
  <2> QED BY <2>2, <2>3
<1>8. /\ n.attempts <= MaxAttempts
      /\ n.attempts = MaxAttempts => n.status = "failed"
      /\ Strict /\ n.status # "absent" /\ j \notin legacy => n.intent /\ n.gen >= 1
      /\ Strict /\ n.submitted => Permitted(j)
      /\ n.status # "absent"
  BY <1>3, <1>4, <1>5, <1>6, ConstantsAssumption DEF RowOk
<1> HIDE DEF r, i, n
<1>9. jobs'[j] = n /\ \A k \in Job \ {j} : jobs'[k] = jobs[k]
  BY <1>1, Typing DEF n, r
<1>10. Grows
  BY <1>7, <1>9, GenIsNat DEF Grows, r
<1>11. \A k \in Job : RowOk(k)'
  <2>1. \A k \in Job : Permitted(k) => Permitted(k)'
    BY <1>2, <1>10, StillRight
  <2> QED BY <1>8, <1>9, <2>1, PastStep DEF RowOk, CopyInv
<1>12. \A m \in Manager : HandOk(m)'
  BY <1>2, <1>10, SettledHand DEF Settles
<1>13. \A m \in Manager, k \in Job : CopyOk(k, batch[m][k])'
  BY <1>2, <1>10, StillRight, Typing DEF CopyInv, CopyOk, Fits
<1> QED BY <1>11, <1>12, <1>13 DEF CopyInv

\* A restart forgets all copies.
LEMMA CrashCopies ==
    ASSUME IInv, CopyInv, [Next]_vars, Crash
    PROVE  CopyInv'
<1>1. /\ granted' = granted
      /\ \A k \in Job : jobs'[k] = Recover(jobs[k])
      /\ \A n \in Manager : work'[n] = Idle
      /\ \A n \in Manager, k \in Job : batch'[n][k] = NoRow
  BY DEF Crash, Nothing
<1>2. ASSUME NEW k \in Job PROVE RowOk(k)'
  <2>1. Alike(jobs[k], jobs'[k])
    BY <1>1, Typing DEF Alike, Recover, Row
  <2> QED BY <1>1, <2>1, AlikeRow
<1>3. ASSUME NEW n \in Manager PROVE HandOk(n)'
  BY <1>1, NoRowOk, ConstantsAssumption DEF HandOk, Holding, Idle
<1>4. \A n \in Manager, k \in Job : CopyOk(k, batch[n][k])'
  BY <1>1, NoRowIsRow, ConstantsAssumption, NoRowOk DEF CopyOk
<1> QED BY <1>2, <1>3, <1>4 DEF CopyInv

\* Every step keeps rows and copies right.
LEMMA NextCopies == IInv /\ CopyInv /\ [Next]_vars => CopyInv'
<1> SUFFICES ASSUME IInv, CopyInv, [Next]_vars PROVE CopyInv'
  OBVIOUS
<1>1. ASSUME NEW m \in Manager,
             ManagerStep(m) \/ CloudGrants(m) \/ CloudDenies(m) \/ CupsAccepts(m)
      PROVE  CopyInv'
  BY <1>1, StartPassCopies, TakeJobCopies, FetchCopies, IntentCopies, PrintCopies,
     ApplyPollCopies, RowlessCopies, CloudCopies
  DEF ManagerStep
<1>2. ASSUME NEW j \in Job,
             \/ CloudDispatches(j) \/ Enqueue(j) \/ BackoffElapses(j)
             \/ Cleanup(j) \/ CupsFinishes(j) \/ CancelJob(j) \/ CancelStep(j)
             \/ Resend(j)
      PROVE  CopyInv'
  BY <1>2, OutsideCopies, EnqueueCopies
<1> QED BY <1>1, <1>2, OutsideCopies, CrashCopies DEF Next

\* The invariant holds always.
LEMMA CopiesAreRight == Spec => []CopyInv
  BY InitCopies, NextCopies, Inductive, PTL DEF Spec

-----------------------------------------------------------------------------

\* _fail_or_retry counts on a copy that may be old, of several managers; still
\* the attempts stay within MAX_ATTEMPTS, and the last one ends the job.
THEOREM RetriesAreBounded == Spec => []RetryBudget
<1>1. CopyInv => RetryBudget
  BY DEF CopyInv, RowOk, RetryBudget
<1> QED BY <1>1, CopiesAreRight, PTL

\* If every order demands the cloud's permission, whatever is submitted was
\* permitted: for the generation in the row or, since the manager asks on the
\* strength of a copy, for an earlier one; never for none, nor for one the row
\* had not reached.  With orders of both kinds this fails (the run print_upgrade).
THEOREM PermissionComesFirst == Strict => (Spec => []SubmittedWithPermission)
<1> SUFFICES ASSUME Strict PROVE Spec => []SubmittedWithPermission
  OBVIOUS
<1>1. CopyInv => SubmittedWithPermission
  BY DEF CopyInv, RowOk, SubmittedWithPermission, Permitted
<1> QED BY <1>1, CopiesAreRight, PTL

=============================================================================
