------------------------------- MODULE PrintJob -------------------------------
(***************************************************************************)
(* What the gateway promises about a print job, whatever fails on the way: *)
(* paper comes out at most once, and only after a permission to print (the *)
(* ticket) was written down; a job that ended "failed" or "canceled" never *)
(* had a ticket, so the cloud may print it elsewhere; "done" means CUPS    *)
(* took the job; everything in between ends "uncertain".  PrintManager is  *)
(* shown to implement this module.                                         *)
(***************************************************************************)
EXTENDS Naturals

CONSTANT Job

VARIABLES phase,      \* job -> where the job stands
          ticket      \* job -> the permission to hand the job to CUPS, once

Phase == {"absent", "open", "committed", "printing",
          "done", "failed", "canceled", "uncertain"}

\* A job that is unclear from the start never gets a ticket.
PrintJobInit ==
    /\ phase  \in [Job -> {"absent", "uncertain"}]
    /\ ticket = [j \in Job |-> "none"]

Accept(j) ==
    /\ phase[j] = "absent" /\ phase'[j] = "open"
    /\ ticket'[j] = ticket[j]

\* Before any page: failed or canceled, and no ticket was ever issued.
GiveUp(j) ==
    /\ phase[j] = "open" /\ phase'[j] \in {"failed", "canceled"}
    /\ ticket'[j] = ticket[j]

Commit(j) ==
    /\ phase[j] = "open" /\ phase'[j] = "committed"
    /\ ticket[j] = "none" /\ ticket'[j] = "issued"

\* CUPS takes the job; the gateway may already have declared it uncertain.
HandOver(j) ==
    /\ phase[j] \in {"committed", "uncertain"} /\ phase'[j] = phase[j]
    /\ ticket[j] = "issued" /\ ticket'[j] = "used"

Confirm(j) ==
    /\ phase[j] = "committed" /\ phase'[j] = "printing"
    /\ ticket[j] = "used" /\ ticket'[j] = "used"

Finish(j) ==
    /\ phase[j] = "printing" /\ phase'[j] = "done"
    /\ ticket'[j] = ticket[j]

Doubt(j) ==
    /\ phase[j] \in {"committed", "printing"} /\ phase'[j] = "uncertain"
    /\ ticket'[j] = ticket[j]

Step(j) ==
    \/ Accept(j) \/ GiveUp(j) \/ Commit(j) \/ HandOver(j)
    \/ Confirm(j) \/ Finish(j) \/ Doubt(j)

Stay(j) == phase'[j] = phase[j] /\ ticket'[j] = ticket[j]

\* A restart may move several jobs at once.
PrintJobNext ==
    /\ phase'  \in [Job -> Phase]
    /\ ticket' \in [Job -> {"none", "issued", "used"}]
    /\ \A j \in Job : Step(j) \/ Stay(j)

PrintJobSpec == PrintJobInit /\ [][PrintJobNext]_<<phase, ticket>>
==============================================================================
