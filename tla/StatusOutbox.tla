----------------------------- MODULE StatusOutbox -----------------------------
(***************************************************************************)
(* The way of a job's status to the cloud: the columns status and          *)
(* reported_status of the spool are the outbox, main.py reports and        *)
(* resends, cloud_connector.py owns the WebSocket, and an ACK empties the  *)
(* outbox.  An older cloud sends no ACK; there a successful send has to do.*)
(*                                                                         *)
(* Several coroutines call _report_job_status and wait for the WebSocket   *)
(* in it: "print" (PrintManager's status_cb), "loop" (_spool_loop          *)
(* resending), "reader" (the WebSocket reader, which runs the handlers of  *)
(* config_sync and cancel_job and reads nothing else meanwhile) and the    *)
(* requests of the status page, which cancel jobs too.  websockets writes  *)
(* a frame when send is called and then waits for the buffer to drain, so  *)
(* a message is on the wire before its sender goes on.                     *)
(***************************************************************************)
EXTENDS Naturals, Sequences, FiniteSets

CONSTANTS
    JobCount,     \* the jobs are 1..JobCount, in the order of created_at
    Page,         \* requests of the status page that may be handled at a time
    Clouds,       \* kinds of cloud that may answer: subset of {"acking", "old"}
    Busy,         \* bound: jobs that may be printed, canceled or become unclear;
                  \* the others can only fail
    MaxWire,      \* bound: messages under way at which no more is resent
    MaxWaiting,   \* bound: sends waited for at which nothing new is begun
    MaxDrops      \* bound: connections lost

ASSUME OutboxAssumption ==
    /\ Busy \subseteq 1..JobCount
    /\ Page \cap {"print", "loop", "reader"} = {}
    /\ JobCount \in Nat /\ MaxWire \in Nat /\ MaxWaiting \in Nat /\ MaxDrops \in Nat
    /\ Clouds \subseteq {"acking", "old"} /\ Clouds # {}

Job  == 1..JobCount
Task == {"print", "loop", "reader"} \cup Page
Resender == {"loop", "reader"}
Canceller == {"reader"} \cup Page

\* "pending" stands for every status that is not reported (pending,
\* downloading, submitting), "done" for an end after "printing" and "failed"
\* for an end without it.
Status   == {"pending", "printing", "done", "failed"}
Terminal == {"done", "failed"}
Moves == {<<"pending", "printing">>, <<"pending", "failed">>, <<"printing", "done">>}

\* "pending" is never reported.
Message == [job : Job, status : Status \ {"pending"}]
None == [job |-> 0, status |-> "pending"]

VARIABLES
    status,     \* job -> spool_jobs.status
    owed,       \* <<canceller, job>>: CUPS takes the job back, the report follows
    unclear,    \* job -> status_failures > 0: CUPS does not say how it is
    reported,   \* job -> spool_jobs.reported_status, "none" standing for NULL
    todo,       \* resender -> messages still to send about the rows it read
    sending,    \* task -> the message whose send it waits for
    syncing,    \* where the reader is in the handler of config_sync: not in it,
                \* "apply"ing the serial address, "stuck" there for good, or
                \* resending and then "report"ing the health of the printers
    link,       \* "down", "up", or "closing": lost, the reader not yet back
    cloud,      \* the cloud the current connection leads to
    ackMode,    \* status_ack_supported
    wire,       \* frames on the way to the cloud
    back,       \* frames on the way to the gateway
    processed,  \* observer: the messages a cloud that acknowledges has stored
    drops       \* connections lost so far

vars == <<status, owed, unclear, reported, todo, sending, syncing, link, cloud, ackMode,
          wire, back, processed, drops>>

row == <<status, owed, unclear>>
net == <<syncing, link, cloud, ackMode, back, processed, drops>>

UnderWay == Len(wire) + Len(back)
Waiting  == Cardinality({t \in Task : sending[t] # None})
Room == UnderWay < MaxWire /\ Waiting < MaxWaiting

Config == [type |-> "config_sync", job |-> 0, status |-> "pending"]
Ack(msg) == [type |-> "job_status_ack", job |-> msg.job, status |-> msg.status]

TypeOK ==
    /\ status \in [Job -> Status]
    /\ owed \subseteq Canceller \X Job
    /\ unclear \in [Job -> BOOLEAN]
    /\ reported \in [Job -> Status \cup {"none"}]
    /\ todo \in [Resender -> SUBSET Message]
    /\ sending \in [Task -> Message \cup {None}]
    /\ syncing \in {"no", "apply", "stuck", "report"}
    /\ link \in {"down", "up", "closing"}
    /\ cloud \in Clouds
    /\ ackMode \in BOOLEAN
    /\ wire \in Seq(Message)
    /\ \A i \in DOMAIN back : back[i] = Config \/ \E msg \in Message : back[i] = Ack(msg)
    /\ processed \subseteq Message
    /\ drops \in 0..MaxDrops

Init ==
    /\ status = [j \in Job |-> "pending"]
    /\ owed = {}
    /\ unclear = [j \in Job |-> FALSE]
    /\ reported = [j \in Job |-> "none"]
    /\ todo = [t \in Resender |-> {}]
    /\ sending = [t \in Task |-> None]
    /\ syncing = "no"
    /\ link = "down" /\ cloud \in Clouds /\ ackMode = TRUE
    /\ wire = <<>> /\ back = <<>>
    /\ processed = {}
    /\ drops = 0

-----------------------------------------------------------------------------
(* _report_job_status, send_job_status and _send.                          *)

\* With no connection _send returns FALSE at once; otherwise the frame is
\* written and the task waits.
Report(t, msg) ==
    IF link = "up"
    THEN wire' = Append(wire, msg) /\ sending' = [sending EXCEPT ![t] = msg]
    ELSE UNCHANGED <<wire, sending>>

\* mark_status_reported: only if the row still has that status.
MarkAny(msg) == reported' = [reported EXCEPT ![msg.job] = msg.status]  \* mutant: unconditional
Mark(msg) ==
    reported' = IF status[msg.job] = msg.status
                THEN [reported EXCEPT ![msg.job] = msg.status] ELSE reported

\* The send succeeded; the capability is looked up only now.
SendReturns(t) ==
    /\ sending[t] # None
    /\ sending' = [sending EXCEPT ![t] = None]
    /\ IF ackMode THEN UNCHANGED reported ELSE Mark(sending[t])
    /\ UNCHANGED <<row, todo, wire, net>>

-----------------------------------------------------------------------------
(* PrintManager: a row moves, then status_cb is awaited.                  *)

RowMoves(j) ==
    /\ sending["print"] = None /\ Waiting < MaxWaiting
    /\ \E s \in Status :
          /\ <<status[j], s>> \in Moves /\ (s = "printing" => j \in Busy)
          /\ status' = [status EXCEPT ![j] = s]
          /\ Report("print", [job |-> j, status |-> s])
    /\ unclear' = [unclear EXCEPT ![j] = FALSE]
    /\ UNCHANGED <<owed, reported, todo, net>>

\* Nobody but the canceller itself waits for its CUPS call and its sends.
Free(t) == sending[t] = None /\ \A j \in Job : <<t, j>> \notin owed
ReaderFree == Free("reader") /\ syncing = "no"

\* For a job that CUPS has, cancel waits for CUPS before it reports
\* (PrintManager.NoSilentEnd).
Cancels(t, j) ==
    /\ IF t = "reader" THEN ReaderFree /\ link # "down" ELSE Free(t)
    /\ j \in Busy /\ Waiting < MaxWaiting
    /\ \/ /\ status[j] = "pending"
          /\ status' = [status EXCEPT ![j] = "failed"]
          /\ Report(t, [job |-> j, status |-> "failed"])
          /\ owed' = owed
       \/ /\ status[j] = "printing"
          /\ status' = [status EXCEPT ![j] = "done"]
          /\ owed' = owed \cup {<<t, j>>}
          /\ UNCHANGED <<wire, sending>>
    /\ unclear' = [unclear EXCEPT ![j] = FALSE]
    /\ UNCHANGED <<reported, todo, net>>

CancelReports(t, j) ==
    /\ <<t, j>> \in owed /\ owed' = owed \ {<<t, j>>}
    /\ Report(t, [job |-> j, status |-> status[j]])
    /\ UNCHANGED <<status, unclear, reported, todo, net>>

\* A job canceled while print_file ran is reported again when it returned.
ReportsAgain(j) ==
    /\ sending["print"] = None
    /\ status[j] = "failed" /\ j \in Busy
    /\ Room
    /\ Report("print", [job |-> j, status |-> "failed"])
    /\ UNCHANGED <<row, reported, todo, net>>

\* A poll without an answer reports nothing; every good one reports "printing"
\* (_apply_poll_state).
PollUnclear(j) ==
    /\ sending["print"] = None
    /\ status[j] = "printing" /\ ~unclear[j] /\ j \in Busy
    /\ unclear' = [unclear EXCEPT ![j] = TRUE]
    /\ UNCHANGED <<status, owed, reported, todo, sending, wire, net>>

PollPrinting(j) ==
    /\ sending["print"] = None
    /\ status[j] = "printing"
    /\ Room
    /\ unclear' = [unclear EXCEPT ![j] = FALSE]
    /\ Report("print", [job |-> j, status |-> "printing"])
    /\ UNCHANGED <<status, owed, reported, todo, net>>

-----------------------------------------------------------------------------
(* _resend_unreported_statuses: one read of the outbox, then a send for    *)
(* each row read that deserves one, as it was when it was read.            *)

Unreported(j) == reported[j] # status[j]

\* The rows the loop does not skip.
ResendsAll(j) == Unreported(j)                       \* mutant: nothing is skipped
ResendsUnclear(j) == Unreported(j) /\ status[j] # "pending"  \* mutant: clear or not
ResendsPrinting(j) == Unreported(j) /\ status[j] = "printing" /\ ~unclear[j]  \* mutant: ends are forgotten
Resends(j) ==
    /\ Unreported(j)
    /\ status[j] # "pending"
    /\ ~(status[j] = "printing" /\ unclear[j])

\* The messages about them; they go out in the order of the rows.
Snapshot == {[job |-> j, status |-> status[j]] : j \in {k \in Job : Resends(k)}}

\* The first message goes out in the same breath as the read.
SendFirst(t, list) ==
    \/ /\ list = {} \/ link # "up"
       /\ todo' = [todo EXCEPT ![t] = {}]
       /\ UNCHANGED <<wire, sending>>
    \/ /\ link = "up"
       /\ \E msg \in list :
             /\ \A other \in list : msg.job <= other.job
             /\ todo' = [todo EXCEPT ![t] = list \ {msg}]
             /\ Report(t, msg)

LoopResends ==
    /\ sending["loop"] = None /\ todo["loop"] = {}
    /\ link = "up" /\ Room
    /\ Snapshot # {}
    /\ SendFirst("loop", Snapshot)
    /\ UNCHANGED <<row, reported, net>>

NextResend(t) ==
    /\ sending[t] = None /\ todo[t] # {}
    /\ SendFirst(t, todo[t])
    /\ UNCHANGED <<row, reported, net>>

-----------------------------------------------------------------------------
(* CloudConnector: the reader and the connection.                          *)

\* config_sync: the capability is noted, then the handler applies the serial
\* address.  That may raise, which ends the handler, or wait for ever for a
\* passthrough client that does not read (SerialPassthrough.ApplyEnds).
OnConfigSync ==
    /\ ReaderFree
    /\ back # <<>> /\ Head(back) = Config
    /\ back' = Tail(back)
    /\ ackMode' = (cloud = "acking")
    /\ syncing' \in {"no", "apply", "stuck"}
    /\ UNCHANGED <<row, reported, todo, sending, wire, link, cloud, processed, drops>>

\* apply() came back: the rows are read and resent.
Applied ==
    /\ syncing = "apply"
    /\ syncing' = "report"
    /\ SendFirst("reader", Snapshot)
    /\ UNCHANGED <<row, reported, link, cloud, ackMode, back, processed, drops>>

\* The health of the printers is reported last, and the reader is free again.
SyncEnds ==
    /\ syncing = "report"
    /\ sending["reader"] = None /\ todo["reader"] = {}
    /\ syncing' = "no"
    /\ UNCHANGED <<row, reported, todo, sending, link, cloud, ackMode, wire, back,
                   processed, drops>>

OnJobStatusAck ==
    /\ ReaderFree
    /\ back # <<>> /\ Head(back).type = "job_status_ack"
    /\ back' = Tail(back)
    /\ Mark(Head(back))
    /\ UNCHANGED <<row, todo, sending, syncing, link, cloud, ackMode, wire, processed, drops>>

\* _connect_and_serve: until config_sync a send confirms nothing.
ConnectKeepsMode == UNCHANGED ackMode      \* mutant: the last cloud's capability stays
ResetAckMode     == ackMode' = TRUE

Connect ==
    /\ link = "down"
    /\ link' = "up"
    /\ cloud' \in Clouds
    /\ ResetAckMode
    /\ wire' = <<>>
    /\ back' = <<Config>>
    /\ UNCHANGED <<row, reported, todo, sending, syncing, processed, drops>>

\* Frames in both directions are lost; some of the sends under way raise,
\* others had just succeeded.  What had arrived is still read, and a handler the
\* reader is in finishes, before _connect_and_serve returns and run() connects
\* again.
ConnectionLost ==
    /\ link = "up" /\ drops < MaxDrops
    /\ link' = "closing"
    /\ wire' = <<>>
    /\ \E k \in 0..Len(back) : back' = SubSeq(back, 1, k)
    /\ drops' = drops + 1
    /\ \E failed \in SUBSET Task :
          sending' = [t \in Task |-> IF t \in failed THEN None ELSE sending[t]]
    /\ UNCHANGED <<row, reported, todo, syncing, cloud, ackMode, processed>>

ReaderEnds ==
    /\ link = "closing" /\ ReaderFree /\ back = <<>>
    /\ link' = "down"
    /\ UNCHANGED <<row, reported, todo, sending, syncing, cloud, ackMode, wire, back,
                   processed, drops>>

\* The cloud stores the status and, if it is a newer one, acknowledges it.
CloudProcesses ==
    /\ wire # <<>>
    /\ wire' = Tail(wire)
    /\ IF cloud = "acking"
       THEN /\ processed' = processed \cup {Head(wire)}
            /\ back' = Append(back, Ack(Head(wire)))
       ELSE UNCHANGED <<processed, back>>
    /\ UNCHANGED <<row, reported, todo, sending, syncing, link, cloud, ackMode, drops>>

\* A submission that was under way is unclear after the restart: its row ends,
\* and nobody reports that but the resend loop.
Recovery ==
    \E unfinished \in SUBSET {j \in Job : status[j] = "pending"} :
        status' = [j \in Job |-> IF j \in unfinished THEN "failed" ELSE status[j]]

Crash ==
    /\ drops < MaxDrops
    /\ Recovery /\ owed' = {}
    /\ drops' = drops + 1
    /\ link' = "down" /\ ackMode' = TRUE
    /\ wire' = <<>> /\ back' = <<>>
    /\ todo' = [t \in Resender |-> {}]
    /\ sending' = [t \in Task |-> None]
    /\ syncing' = "no"
    /\ UNCHANGED <<unclear, reported, cloud, processed>>

Next ==
    \/ \E t \in Task : SendReturns(t)
    \/ \E t \in Resender : NextResend(t)
    \/ \E j \in Job : \/ RowMoves(j) \/ PollUnclear(j) \/ PollPrinting(j) \/ ReportsAgain(j)
                      \/ \E t \in Canceller : Cancels(t, j) \/ CancelReports(t, j)
    \/ LoopResends
    \/ OnConfigSync \/ Applied \/ SyncEnds \/ OnJobStatusAck
    \/ Connect \/ ConnectionLost \/ ReaderEnds
    \/ CloudProcesses
    \/ Crash

Spec == Init /\ [][Next]_vars

\* The loop resends every ten seconds, sends end, the reader reads unless it is
\* stuck, run() reconnects, the network delivers and the cloud processes.
\* Whether apply() comes back is not for fairness to say: OnConfigSync decides
\* it.  Fairness of the loop is strong because MaxWire, a bound of the model,
\* holds it up at times.
FairSpec ==
    /\ Spec
    /\ \A t \in Task : WF_vars(SendReturns(t))
    /\ \A t \in Resender : WF_vars(NextResend(t))
    /\ \A t \in Canceller, j \in Job : WF_vars(CancelReports(t, j))
    /\ SF_vars(LoopResends)
    /\ WF_vars(OnConfigSync) /\ WF_vars(Applied) /\ WF_vars(SyncEnds)
    /\ WF_vars(OnJobStatusAck)
    /\ WF_vars(Connect) /\ WF_vars(ReaderEnds)
    /\ WF_vars(CloudProcesses)

-----------------------------------------------------------------------------
(* Properties.                                                             *)

\* Connected to a cloud that acknowledges, an entry leaves the outbox only
\* after a cloud stored exactly that status: not on a bare send before
\* config_sync, not on the ACK of an older status, whatever cloud was
\* connected before.
OnlyStoredIsReported ==
    [][\A j \in Job : reported'[j] # reported[j] /\ cloud = "acking"
                      => [job |-> j, status |-> reported'[j]] \in processed]_vars

\* What leaves the outbox had this status in the row: the newest status of a
\* job cannot be confirmed by a message about an older one.
NoStaleConfirmation ==
    [][\A j \in Job : reported'[j] # reported[j] => reported'[j] = status[j]]_vars

\* The end of every job reaches the cloud and leaves the outbox, through
\* lost connections and restarts, unless a passthrough client holds the reader
\* for good: then no ACK is read and run() connects no more.
EveryEndIsReported ==
    \A j \in Job :
        status[j] \in Terminal ~> reported[j] = status[j] \/ [](syncing = "stuck")

Printing(j) == [job |-> j, status |-> "printing"]
Sent(msg)   == Len(wire') > Len(wire) /\ wire'[Len(wire')] = msg

\* While CUPS does not say how a job is, no "printing" about it is sent.
NoPrintingWhileUnclear == [][\A j \in Job : Sent(Printing(j)) => ~unclear'[j]]_vars

\* What holds in place of it: such a "printing" is in the hands of a resender
\* that read the outbox before, and no read of the outbox adds one.
FromOldReads ==
    \A j \in Job : unclear'[j] =>
        /\ Sent(Printing(j)) => \E t \in Resender : Printing(j) \in todo[t]
        /\ \A t \in Resender : Printing(j) \in todo'[t] => Printing(j) \in todo[t]

PrintingOnlyFromOldReads == [][FromOldReads]_vars
==============================================================================
