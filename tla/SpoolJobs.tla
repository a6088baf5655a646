------------------------------ MODULE SpoolJobs ------------------------------
(***************************************************************************)
(* The rows of the table spool_jobs of ecpg/spool.py and the SQL           *)
(* statements that change them.  Every statement runs under Spool._lock    *)
(* and commits before it returns, so each operator below is one atomic     *)
(* step on one row: a guard (the WHERE clause) and the row that results    *)
(* (the SET clause).                                                       *)
(*                                                                         *)
(* Columns are kept as far as the control of the program depends on them:  *)
(*   submitted   submitted_at IS NOT NULL                                  *)
(*   cups        cups_job, 0 standing for NULL                             *)
(*   pdf         pdf_path names a spooled file                             *)
(*   due         next_retry_at <= now                                      *)
(*   intent      requires_intent                                           *)
(*   gen         generation (with its dispatch_token), 0 standing for NULL *)
(*   failures    status_failures; status_unknown_since is NULL iff it is 0 *)
(***************************************************************************)
EXTENDS Naturals

Terminal    == {"done", "failed", "canceled", "uncertain"}
Unsubmitted == {"pending", "downloading"}
Status      == Unsubmitted \cup {"submitting", "printing"} \cup Terminal

\* A job id the spool has no row for.
NoRow == [status |-> "absent", submitted |-> FALSE, cups |-> 0, pdf |-> FALSE,
          attempts |-> 0, due |-> FALSE, intent |-> FALSE, gen |-> 0,
          failures |-> 0]

\* What an older version could leave behind: "printing" without a CUPS id, and,
\* since the column is new, without submitted_at.
LegacyRow == [NoRow EXCEPT !.status = "printing"]

Row == [status : Status \cup {"absent"}, submitted : BOOLEAN, cups : Nat,
        pdf : BOOLEAN, attempts : Nat, due : BOOLEAN, intent : BOOLEAN,
        gen : Nat, failures : Nat]

\* add_job: INSERT OR IGNORE, then the UPDATE of the intent columns, in one
\* transaction.  "generation < NULL" is not true in SQL, so an order without
\* a generation only changes a row that has none.
InsertOrIgnore(r) ==
    IF r.status = "absent" THEN [NoRow EXCEPT !.status = "pending", !.due = TRUE] ELSE r

TakesAnyIntent(r, gen) ==          \* mutant: the last order counts, whatever its generation
    ~r.submitted /\ r.status \in Unsubmitted /\ (r.gen = 0 \/ gen # 0)
TakesIntent(r, gen) ==
    /\ ~r.submitted
    /\ r.status \in Unsubmitted
    /\ r.gen = 0 \/ (gen # 0 /\ r.gen < gen)

AddJob(r, order) ==
    LET i == InsertOrIgnore(r) IN
    IF TakesIntent(i, order.gen)
    THEN [i EXCEPT !.intent = order.intent, !.gen = order.gen]
    ELSE i

\* due_jobs selects by status and next_retry_at; "submitting" is not among
\* the statuses it selects.
IsDue(r) == r.status \in Unsubmitted \cup {"printing"} /\ r.due

\* The WHERE clause of update_job(allowed_states=allowed, status=status).
Updatable(r, allowed, status) ==
    /\ r.status \in allowed
    /\ r.status \notin Terminal \/ r.status = status
    /\ status \in Unsubmitted => ~r.submitted

\* begin_submit: the local intent is committed before CUPS is called.
CanBeginSubmitAnyStatus(r) == ~r.submitted      \* mutant: the status is not checked
CanBeginSubmit(r) == ~r.submitted /\ r.status \in Unsubmitted
BeginSubmit(r)    == [r EXCEPT !.status = "submitting", !.submitted = TRUE]

\* cancel_job: one statement decides between the two outcomes.
CanCancel(r) == r.status \notin Terminal \cup {"absent"}
CancelPlain(r) == [r EXCEPT !.status = "canceled"]   \* mutant: paper is forgotten
Cancel(r)    == [r EXCEPT !.status = IF r.submitted \/ r.cups # 0
                                     THEN "uncertain" ELSE "canceled"]

\* cleanup_done: the row stays as a tombstone, only its payload is dropped.
CleanUp(r) == IF r.status \in Terminal THEN [r EXCEPT !.pdf = FALSE] ELSE r

\* Spool.__init__: a submission the process did not survive is unclear.
RecoverNothing(r) == r                          \* mutant: no recovery
Recover(r) ==
    IF r.status \in {"submitting", "printing"} /\ r.cups = 0
    THEN [r EXCEPT !.status = "uncertain"] ELSE r
==============================================================================
