# Verification of the Einsatzcockpit gateway

The gateway (`src/ecpg`) is one asyncio process beside a fire brigade's printers
and its serial alarm line. It prints what the cloud orders, reports how that
went, forwards alarms, and copies the alarm line to other programs; it has to do
so through restarts, lost connections and unclear answers, without printing
twice and without losing an alarm. This directory models it in TLA+, checks the
models with TLC, and proves their safety properties with TLAPS.

## 1. Inventory

| component | source | state | operations |
|---|---|---|---|
| job spool | `spool.py` | table `spool_jobs`, kept over restarts | `add_job`, `due_jobs`, `begin_submit`, `update_job`, `cancel_job`, `mark_status_reported`, `cleanup_done`, recovery at start |
| print manager | `print_manager.py` | `_process_lock`, known printers, coroutines in flight | `process_due`, `_process_one`, `_poll_state`, `_apply_poll_state`, `_fail_or_retry`, `cancel`, `sync_queues`, `notfall_print` |
| status outbox | `main.py`, `cloud_connector.py`, `spool.py` | `status`, `reported_status`, `status_ack_supported` | `_report_job_status`, `_resend_unreported_statuses`, `_on_job_status_ack` |
| cloud connector | `cloud_connector.py` | the WebSocket, `_seen_ids`, `_intent_waiters` | `run`, `_connect_and_serve`, `_on_message`, `_send`, `request_print_intent` |
| alarm path | `main.py`, `spool.py` | `raw_alarms_ring`, `alarm_sequence` | `_on_datagram`, `_forward_alarm`, `_alarm_forward_loop`, `_offline_notdruck` |
| serial reception | `serial_ingest.py` | TCP connection, buffer, lock file | `_run`, `_read_loop`, `start`, `stop` |
| serial fan-out | `serial_passthrough.py` | server, one queue per client | `update_config`, `apply`, `start`, `stop`, `broadcast`, `_handle`, `_drain_input`, `_end_client` |
| pairing | `pairing.py`, `main.py`, `status_server.py` | `device_token`, `pairing_code` | `ensure_paired`, `try_pair`, `_await_token`, `POST /pair` |
| agent | `main.py` | tasks, configuration | handlers, loops, start, stop |
| parser, health, discovery, rendering, status page, settings | the other files | none of their own | probes, text and page layout |

How they interact. `Agent.run` waits for the device token, then starts the
connector and the loops. The WebSocket reader calls one handler at a time and
reads nothing while a handler waits; `print_job` therefore only stores the job
and starts a task. The spool loop (10 s), every such task and tests with several
`PrintManager`s run `process_due` on the same SQLite rows. Reports go out through
the connector; what is not confirmed stays in the outbox columns. The serial task
broadcasts every chunk to the fan-out's queues, then cuts it into datagrams, and
reads nothing while an alarm is stored, posted and perhaps printed; a second loop
(30 s) posts what is pending. `config_sync` reconfigures printers and the fan-out
inside the reader.

What is hard here:

* A coroutine works on a *copy* of a row across several awaits (download, the
  cloud's permission, CUPS), while messages, cancels and other passes change it.
* CUPS may have taken a job although the gateway got an exception, was canceled
  or died; that can only be `uncertain`, and never printed again.
* `failed` with `not_submitted` lets the cloud print elsewhere: it has to stay true.
* ACKs are late, lost, or not spoken at all by an older cloud; connections die in
  the middle of a send. The cloud repeats its orders until they are acknowledged.
* A permission may arrive after its ten seconds, or for a request of a connection
  that is gone.
* Bytes and pauses arrive while the reader does not read.
* A client of the fan-out may stop reading while others are served, while its
  queue is full, or while the server is being stopped under it.
* A pairing code works once, and the answer to it may be lost.

What makes each component right is stated by the properties of section 4; the
full list of hazards, with their lines, is in `PROJECT.json`.

## 2. Modules

| module | models | state ↔ code |
|---|---|---|
| `SpoolJobs` | the SQL statements on one row of `spool_jobs` | a row is a record; each statement is a guard (WHERE) and a new row (SET) |
| `PrintJob` | abstract: what the gateway promises about one order | `phase`, and a `ticket` that allows one hand-over to CUPS |
| `PrintManager` | `print_manager.py` with the handlers in `main.py` that reach it | `jobs` = the table, `batch` = the rows `due_jobs` returned, `work[m]` = the local variables of manager m's coroutine and the await it stands at, `cancelling` = `cancel` across its await, `cups` = the print jobs in CUPS, `told` = the last report; `legacy`, `unsent` = observers of what an upgrade and a restart left |
| `MCPrintManager`, `MCSerialPassthrough` | symmetry and configurations for TLC | |
| `StatusOutbox` | the way of a status to the cloud | `reported` = `reported_status`, `todo` = rows read and still to be resent, `sending` = a pending `ws.send`, `owed` = cancels, of the reader or of the status page, that wait for CUPS before they report, `syncing` = where the reader is in the handler of `config_sync`, `ackMode` = `status_ack_supported`, `wire`/`back` = frames under way |
| `AlarmLedger` | abstract: what the gateway owes the cloud | `owed`, `arrived` |
| `AlarmForwarding` | the alarm path | `ring`, `counter` = `raw_alarms_ring`, `alarm_sequence`; `pc`, `row`, `answer` = the two posting tasks; `pending` = the rows the loop read |
| `SerialIngest` | framing of the byte stream | `inbox` = asyncio's StreamReader, `buffer` = `_read_loop`'s buffer, `at` = the await it stands at |
| `SerialPassthrough` | the fan-out and who starts and stops it | `config` = the fields of `update_config`, `applied` = the address of the last `apply()`, `clients`, `queue` = `_clients` and their queues, `server` = `_server` with `_running_addr`, `listening` = its sockets, `conn`, `watched` = each connection's handler and `_drain_input` task, `reader`, `run` = the two tasks that call `stop()`, `written`, `taken`, `peer` = transport and client |
| `Pairing` | from a one-time code to the stored token | `token`, `typed` = the two kv entries, `agent` = where `Agent.run` stands, `code`, `answer` = the POST under way, `used`, `lost` = the cloud's side |
| `CloudConnector` | orders with ACKs and the `print_intent` RPC over one WebSocket | `link`, `inbox`, `wire` = the connection, `seen` = `_seen_ids`, `handling` = the running handler, `stuck` = it is a `config_sync` that never ends, `waiter` = `_intent_waiters`, `outcome` = what `request_print_intent` returned, `verdict`, `acked` = the cloud's side |
| `Gateway` | `Agent.run`: composes `Pairing` and `CloudConnector`, which crash together | `crashes` |
| `PrintManagerProofs`, `PrintManagerSteps`, `PrintManagerCopies` | theorems about `PrintManager` | |
| `StatusOutboxProofs`, `AlarmForwardingProofs`, `SerialIngestProofs`, `SerialPassthroughProofs`, `GatewayProofs` | theorems about the module of that name | |

**What an action is.** asyncio runs a coroutine undisturbed from one await to the
next, so an action is such a stretch, with everything in it: `FetchOk`, for
instance, is the return of the download, the `update_job`, the look at the backend
and at `requires_intent`, and possibly `begin_submit`. An await that really
waits (network, CUPS thread, sleep) separates actions. `Spool` methods run under
a lock and commit before they return; each is a part of one action. Variables
called *observer* are not in the program: they remember what a property compares.

**Abstractions in `PrintManager`.** A report is recorded in `told` when it is
decided: delivery is `StatusOutbox`'s subject, and the WebSocket send it waits for
changes no row. `Resend` is a resend of the row as it is; one of a row read earlier
(which repeats an older status) is `StatusOutbox`'s. `Init` is a new database, or one of
an older version whose `printing` rows without a CUPS id `Spool.__init__` has just made
`uncertain` (`legacy`), CUPS having had the job or not; other rows of an older version
are rows this version could have written. `unsent` remembers the status a restart left
without a report, until the resend sends it. Times are reduced to what the code compares them with: `due`
(`next_retry_at <= now`) and a free choice, from the second failure on, of
whether the 120 s have passed. The three tries of `_poll_state` are one: CUPS is
asked at one moment. `process_due` takes jobs in any order rather than by `created_at`.
A PDF that is recorded is assumed to be on disk; deleting it would lead back to
the download. `cups_job=None` in retries is kept. One printer is modelled, present
in the configuration or not. `CloudGrants` demands the current generation: the
cloud is not in `src/`; `CloudDenies` may happen to any request.

**Abstractions in `StatusOutbox`.** `pending` stands for the three states that
are not reported, `done` for an end after printing (also `uncertain`), `failed`
for an end before it. `Busy` bounds the jobs that may be printed, canceled or become
unclear; the others can only fail. `OnConfigSync` stops where the handler stops: it
raises (and the reader is free again), or waits in `apply()`, which comes back
(`Applied`) or never does (`stuck`). What `RowMoves` and `Cancels` take for granted (every change of a row is
followed by a report of it, at once or, for a cancel, after CUPS has answered, or
a restart) is `NoSilentEnd` of `PrintManager`, checked and proved there. Before it
waits, `ws.send` writes the frame, so a message is on the wire when its sender is
suspended. When a connection dies any of the pending sends may fail or succeed.
The rows a resend has read are a set from which it takes the smallest job next, as
`ORDER BY created_at` does.

**Abstractions in `AlarmForwarding`.** Raw bytes, time and source are the
identity of the alarm, which the code sends from the same row at each attempt.
The parser either compiles or not; the fields it extracts are informative.
After a timeout a request may still reach the cloud later; that only adds to
`stored` and is left out. The emergency print is tried at its place, but changes nothing
the gateway keeps, so that there is no state to say anything about (section 6).

**Abstractions in `SerialIngest`.** Bytes are text, blank or form feed. A read
returns all that is there (a chunk of more than 4096 bytes never occurs at these
bounds; a shorter one is a matter of when bytes arrive). A connection reset
makes `read` raise at once and the unread bytes are lost, as asyncio does.

**Abstractions in `SerialPassthrough`.** Chunks are numbered as they are broadcast.
The way to a client is what was `written` and what it has `taken`: `Window` chunks
fit into the sockets, `HighWater` more into the transport before `drain()` waits;
a write whose `drain()` does not wait is followed by the next without suspension
in the code, which the model cuts into one action per chunk (another task may then
run between them; it finds the queue no emptier than the code leaves it).
Nothing waits between the check of `max_clients` and the registration, so
`HandleStarts` is one action; the iteration of the loop between accepting and
starting the handler is `Accept`. Bind addresses are literals, so that `start()`
waits for nothing that lets a connection in before it returns. `Server.wait_closed`
is that of Python 3.12, which `Dockerfile` and `pyproject.toml` ask for. A configuration is noted field by field, and
`update_config` raises at a value it cannot use: `OnConfigSync` then leaves the fields up
to that one changed (`HalfNoted`), whatever runs and accepts as it was, and `applied`, the
observer of the last configuration that got as far as `apply()`, too. The same for an
exception before `update_config` (`save_config`, `sync_queues`).

**Abstractions in `Pairing` and `CloudConnector`.** A token is written as the code
it was given for. The form is shown only while there is no token; a code sent to
`POST /pair` later would be stored and never read. Nothing is known of the cloud
but that it redeems a code once. In the connector the frames of job statuses are
left out (they are `StatusOutbox`'s), and so are messages nobody waits for. Request
ids, random in the code, are numbered in the order the requests are made. A send
takes no time of its own: the frame is on the wire before the sender waits, and a
send that raises is `IntentTimesOut`. `ConnectionLost` is the moment the loss is
noticed: with `ping_interval=None` (`cloud_connector.py:70`) only TCP notices it,
which may take long but changes nothing that the properties speak of. `Syncs` are the
orders that are a `config_sync`: only their handler may never end (`stuck`).

## 3. How the project was built, and what is left

1. `SpoolJobs`, `PrintJob`, `PrintManager`: the most important behaviour, with its
   refinement and its inductive invariant.
2. `StatusOutbox`, `AlarmForwarding`, `SerialIngest`.
3. `SerialPassthrough`, `Pairing`, `CloudConnector`, and `Gateway` which composes the
   last two. What `fanout_stuck` shows of `apply()` is an outcome of `config_sync` in
   `StatusOutbox` and `CloudConnector`.
4. The assumption of `StatusOutbox` about its print manager, made a property of
   `PrintManager` (`NoSilentEnd`) and proved, in place of a product of the two.
5. Proofs: for every safety and action property of the passing runs and for the
   two refinements, `PrintJob` and `AlarmLedger`.
6. For three of the disagreements of section 6, the exact boundary: what holds in place
   of the text, proved (`PermissionComesFirst`, `OldReadsAreTheCause`, `SeenPausesCount`).

What could still be added: an abstract specification of a print manager's reports that
`PrintManager` implements and `StatusOutbox` takes as its environment, `ReceptionLock` with two processes, and the order in which
`Agent.run` shuts its tasks down.

## 4. Runs

| run | instance | what it shows |
|---|---|---|
| `print_one` | 1 job, new or of an older version, 1 manager, legacy and v2 orders, 2 dispatches, 5 attempts, 3 unknown states, 2 restarts | ends are true (`StatusTruth`) and reported once and for all (`VerdictStands`); `not_submitted` stays true, except for a job of an older version; `PrintJob` is implemented, which makes every end final; every job ends |
| `print_two` | 2 managers, v2 orders, 2 dispatches, 2 attempts, 1 restart | one hand-over, no orphaned `submitting`, no submission without permission, attempts within their budget although two passes may count one, and the last report is the row's, before and after the restart (`NoSilentEnd`) |
| `print_upgrade` | 1 job first ordered without, then with `requires_intent` | **violated**: printed without permission from an old copy of the row |
| `outbox` | 2 jobs, acknowledging and older clouds, 1 lost connection or restart, cancels by the cloud and by 1 request of the status page | an entry leaves the outbox only for the status the row has, with an acknowledging cloud only when it was stored, and every end leaves it, unless the reader is stuck in `config_sync` for good; `printing` of an unclear job comes only from rows read before it became unclear (`PrintingOnlyFromOldReads`) |
| `outbox_stale` | 2 jobs | **violated**: `printing` is resent while CUPS is unclear |
| `alarms` | 4 alarms, a ring of 2, 1 restart, broken and valid parser configuration | `AlarmLedger` is implemented, so that no alarm disappears unless displaced by newer ones; numbers identify alarms; all are forwarded while the loop lives |
| `alarms_parser` | 1 alarm | **violated**: with a broken expression the alarm stays in the gateway |
| `frames` | all streams of 4 bytes, 2 pauses, 2 connections, failing handlers, stop | datagrams equal those of a one-pass reference, in every chunking; no text read is lost or repeated; a pause that passes while `read` waits divides the datagrams |
| `frames_pause` | 3 bytes, 2 pauses | **violated**: two alarms become one while an earlier one is handled |
| `fanout` | 2 clients of which 1 need not read, queues of 1, 2 chunks, 2 addresses, a limit of 1 or 2, 2 new configurations, shutdown | each client is sent the same stream from its registration on (`IdenticalStream`); registry and handlers agree; the server that runs and accepts is that of the last configuration noted to the end, also around one that raised half way (`AppliedIsCurrent`); nobody is cut off for another's slowness; who reads gets everything; only a client that does not read, or whose handler began after the registry was emptied, holds up `stop()` |
| `fanout_stuck` | 1 client that need not read, 2 configurations | **violated**: `apply()` never ends |
| `gateway` | 1 valid and 1 wrong code, 2 tries per start, 2 orders, 1 of them a `config_sync`, a memory of 1 id, 2 requests, 1 lost connection, 1 crash | no redeemed code is wasted; a valid code in the environment pairs; no order is handled twice but for the memory's bound; what is acknowledged was handled; a permission is the answer to its own request; every order is acknowledged in the end, unless the reader is stuck in `config_sync` for good |

**Why the bounds are enough.** Rows of different jobs never touch each other: the
statements name one `job_id`. What one job does to another is to delay it, between
`StartPass` and `TakeJob`, and that any delay is possible there is in the model of
one job too. Two managers with one job give every overlap of two passes; a third
pass adds no new pair. `MaxAttempts` and `MaxStatusFailures` have the code's values
in `print_one`; two dispatches make one order older than another. In
`print_two` they are smaller: two attempts are enough for two passes that count the same
one, and nothing else checked there depends on them.
In `outbox`, two jobs let a resend wait for the first while the second changes;
`MaxWire` bounds when *more* is resent, not what is on the wire, and `MaxWaiting`
when something new is begun: any two of the four tasks wait for a send at the same
time, and a third and fourth only to finish what they began. One lost connection
or restart separates two clouds. A ring of two with four alarms evicts rows that are
pending, being posted, and already forwarded. Four bytes hold text, a form feed,
text again and a blank; two pauses, one that is seen and one that is not. In `fanout` a queue of one is full after one chunk, so that
the second chunk, the end of the client's input and `stop()` each meet a full
queue; with `Window` and `HighWater` zero a client that does not read blocks at
once; a second address makes the server move, and with two new configurations one that
raises half way comes before or after one that is applied. In `gateway` a memory of one id
forgets an order as soon as the other comes between, and `MaxWire` bounds only when
something *new* is begun; two requests let an answer cross another request. What
the small numbers leave open the theorems of section 5 close, for safety.
Deadlock is checked in the print runs; the other systems really stop when
everything is reported, forwarded or the bounds are used up.

**Fairness.** `PrintManager`: awaited calls return (downloads and permission have
timeouts, CUPS calls are local), the spool loop starts a pass every ten seconds,
retry delays pass, CUPS finishes what it accepted or its state becomes unknown
three times. Nothing is assumed of the cloud, of configurations or of restarts.
`StatusOutbox`: the loop runs, sends and CUPS calls end, `run()` reconnects with a capped
backoff, and the network and the cloud answer on a connection that lives; the
number of lost connections is bounded, that is, one finally holds. Fairness of
`LoopResends` is strong because `MaxWire`, a bound of the model, disables it at times.
That `apply()` comes back is not assumed, for `fanout_stuck` shows that it may not:
the reader reads on unless it is stuck, and `EveryEndIsReported` and `EveryOrderAcked` say
what follows (after a crash the reader is free again, so the exception is being stuck for
good).
`AlarmForwarding`: posts end after 15 s, the loop wakes every 30 s. Strong
fairness of `CloudAccepts("loop", a)` is an assumption on the surroundings, not
on the code: of unboundedly many attempts to post an alarm not all are in vain.
`SerialPassthrough`: handlers, watchers, `start()` and `wait_closed()` go on when
they can, because asyncio schedules every ready task; of the clients only
`Readers` are assumed to read. `Pairing`: the agent's own steps are fair, posts end
after 15 s, docker restarts the process that ended; strong fairness of
`CloudRedeems` says of the surroundings that not every post of a code is in vain.
`CloudConnector`: `run()` reconnects, the reader reads, handlers that are not stuck end,
and on a connection that lives the network and the cloud do their part.

## 5. Proofs

Each theorem holds for every value of the constants that satisfies the assumption
named in the module that declares them, and these say no more than that bounds
are numbers and special values are not members of the sets. In particular the
theorems hold for rings, queues and memories of the code's own sizes.

| theorem | states |
|---|---|
| `PrintManagerProofs!Inductive`, `TypeCorrect` | `IInv`, `TypeOK` |
| `PrintManagerProofs!HandedOverAtMostOnce` | `AtMostOneHandover` |
| `PrintManagerProofs!NotSubmittedStaysTrue` | `NotSubmittedIsFinal`, for all jobs but those of an older version |
| `PrintManagerProofs!EndStatesAreTrue` | `StatusTruth` |
| `PrintManagerProofs!SubmittingHasAnOwner` | `SubmittingIsOwned` |
| `PrintManagerSteps!EndsAreFinal` | `TerminalIsFinal` |
| `PrintManagerSteps!VerdictsStand` | `VerdictStands` |
| `PrintManagerSteps!NoEndIsSilent` | `NoSilentEnd`, before and after restarts |
| `PrintManagerSteps!Refinement` | `ImplementsPrintJob` |
| `PrintManagerCopies!RetriesAreBounded` | `RetryBudget` |
| `PrintManagerCopies!PermissionComesFirst` | `SubmittedWithPermission`, if every order demands permission: one for the generation in the row or an earlier one of the job |
| `StatusOutboxProofs!TypeCorrect`, `NeverStale`, `StoredBeforeReported` | `TypeOK`, `NoStaleConfirmation`, `OnlyStoredIsReported` |
| `StatusOutboxProofs!OldReadsAreTheCause` | `PrintingOnlyFromOldReads` |
| `AlarmForwardingProofs!TypeCorrect`, `NoneSwallowed`, `NumbersAreIdentities` | `TypeOK`, `NothingSwallowed`, `NumbersIdentify` |
| `AlarmForwardingProofs!Refinement` | `ImplementsLedger` |
| `SerialIngestProofs!Invariance`, `TypeCorrect`, `ChunksDoNotMatter`, `NothingReadIsLost` | the inductive invariant, `TypeOK`, `ChunkingIsIrrelevant`, `NoTextLost` |
| `SerialIngestProofs!SeenPausesCount` | `SeenPausesSeparate` |
| `SerialPassthroughProofs!TypeCorrect`, `StreamIsIdentical`, `RegistryIsRight`, `CurrentIsApplied`, `NobodyElsesFault` | `TypeOK`, `IdenticalStream`, `RegistryAgrees`, `AppliedIsCurrent`, `OnlyOwnFault` |
| `GatewayProofs!TypeCorrect`, `CodesAreUsed`, `StaysPaired`, `OrdersHandledOnce`, `HandledBeforeAcked`, `AnswersAreOwn` | `TypeOK`, `NoCodeWasted`, `PairedForGood`, `RepetitionsRecognised`, `AckedIsHandled`, `PermissionIsOwn` |

**`PrintManager`.** "At most one CUPS job" is not inductive, since a coroutine that
stands before `print_file` would add a second one. So `IInv` says who may stand
there. `RowInv` ties `submitted_at` to the status, to the CUPS id and to CUPS itself
(a row not submitted has no job in CUPS; a row in `submitting` has a coroutine at
CUPS); `WorkInv` ties each await to what must still be true of the row and of CUPS
when it ends (a coroutine waiting for `print_file` has a row in `submitting` or
`uncertain`, and while CUPS has not accepted there is no CUPS job); `OneAtCups`
says that no two coroutines stand there for one job. `begin_submit` establishes
this, because its WHERE clause demands a row that was never submitted. The steps
before the submission all change a row in one of three ways: `Kept` (nothing that
the invariant speaks of), `Reworked` (still or finally unsubmitted) and `Committed`
(submitted, and now at CUPS); `BeforeSubmitInv` treats these once. The steps at and
after CUPS, cancels and restarts have a lemma each; `NextInv` puts them together.

`PrintManagerSteps` asks what one step can do to one job (`JobStep`): its row, its
CUPS jobs and its last report move forward along a fixed course, and what is not
yet reported is owed by a coroutine or was left by a restart (`unsent`). Finality, the standing of verdicts, `NoSilentEnd`
and the simulation of `PrintJob` all follow from that course. `PrintManagerCopies`
follows the copies of rows: what may be in a batch or in a manager's hands
(`CopyOk`, `HandOk`), however old. With orders of both kinds `PermissionComesFirst`
is false, which is what `print_upgrade` shows; the hypothesis `Strict` names the
boundary. It does not say that the permission is for the generation in the row: a newer
order may arrive while the request waits (section 6).

A job of an older version is `uncertain` with `submitted_at` NULL from the start, the one
row for which `RowInv` does not tie `submitted_at` to CUPS; no pass ever takes it up
(`WorkInv`: whatever a manager holds is not `legacy`), which is what the other theorems
need of it.

**`StatusOutbox`.** Two facts: a bare send confirms only while `ackMode` is false,
which it is only towards a cloud that sends no ACK; and an ACK on its way is about
a message that a cloud has stored (`AckInv`). `NoPrintingWhileUnclear` is false in
general (`outbox_stale`). A read of the outbox skips unclear jobs, and every other
report is made in the step that clears the job or ends it, so only a message held
across an await can be wrong. `OldReadsAreTheCause` says that, of every step: it shows
that what `outbox_stale` finds is the only way, so that a fresh look at
`status_failures` before each send would be enough.

**`AlarmForwarding`.** The ring is the newest alarms without a gap, and the number
of an alarm is the count of alarms received (`RingInv`): this is what makes the
restored counter right after a restart, and says exactly which alarm an eviction
drops. A row in somebody's hands was received, and a confirmation is true (`PostInv`).
The refinement of `AlarmLedger` needs both: from `RingInv` follows that `Receive` keeps
exactly the rows the ledger keeps, from `PostInv` that a late mark settles an alarm
that has arrived, or nothing when its row is gone.

**`SerialIngest`.** The reference takes in everything `_read_loop` saw, byte by byte, and
the program takes it in chunks, cuts, waits and goes on. The invariant `FrameInv` says
how the two are related at every await: if the reference were given the bytes that are
still in the buffer after the datagrams already out, it would be where it is after
the whole stream. `Split` keeps this because the first cut is the first place where
the reference has a datagram with text (`NoCut`, `FramedCut`); at `read` the buffer
has no form feed (part of `TypeOK`), so datagrams and reference are equal there;
elsewhere the buffer can only add to them (`OnlyAppends`). `NoTextLost` does not follow
from it, as it holds for abandoned chunks too; it is kept alongside, because no cut
loses text (`CutKeepsText`).

These are statements about sequences of any length, and need induction over
data. The library states induction with an operator as parameter, which the
installed provers cannot instantiate. `SetInduction` states it with a set and
derives it from the pigeonhole principle of `FiniteSetTheorems`: if a set with 0 and
successors lacked m, the successor would map the finitely many members below m
one-to-one into themselves without 0. `SeqInduction` follows, and `FoldCourse` shows
that the recursive function of `Fold` exists. For this `Fold` takes its step as a
function, so that the lemmas about it are first-order.

`PauseSeparates` is false in general (`frames_pause`). `SeenPausesCount` proves what
holds in its place: a pause that passes while `read` waits divides the datagrams for
good. Whatever is in buffer or inbox came after every such pause (`PauseInv`), because
a timeout is noticed only with an empty inbox and empties the buffer. So a pause
during `on_datagram` is the only way to what `frames_pause` finds.

**`SerialPassthrough`.** For every client the queue continues what was written: up
to the first sentinel it holds the chunks that follow without a gap, and if there is
none they reach up to the last chunk broadcast (`ClientInv`). Emptying a full queue
for the sentinel keeps this, because what comes after a sentinel is never written.
`TaskInv` says at each await of the reader what runs, what accepts and what was noted.
A configuration that raised half way changes `config` only while the reader is idle, and
an idle reader compares with `applied`; the awaits of `apply()` read `config` again, and
find there what was applied, because the reader reads nothing else meanwhile.

**`Gateway`.** Pairing: only an unpaired gateway posts a code, and an answer under
way belongs to a code the cloud has redeemed. Connector: the memory is the end of
the sequence of accepted orders, of full length unless fewer were accepted
(`MemoryInv`), so an order that is not recognised lies at least `SeenMax` back; what
is on the wire or remembered has been handled, but for the order in the handler
(`AckInv`); a request is on the wire at most once and undecided, and an answer under
way is the cloud's decision (`IntentInv`).

**Proved and not checked apart.** `TerminalIsFinal` follows from `ImplementsPrintJob`
and `NothingSwallowed` from `ImplementsLedger`, which the runs check; `PairedForGood` is
proved without a run. They say the same in the words of the concrete modules.

**Model-checked only.** Liveness (`EveryJobSettles`, `EveryEndIsReported`,
`ForwardedWhileLoopLives`, `ReadersGetAll`, `OnlyStragglersHoldStop`, `EnvCodePairs`,
`EveryOrderAcked`): fairness and ENABLED are out of the prover's reach.
Of what the passing runs check, everything else is proved. What the runs that expect a
violation check is false, and what holds in its place is proved as said above; for
`EveryAlarmForwarded` and `ApplyEnds`, which are liveness, the positive counterpart is
checked (`ForwardedWhileLoopLives`, `OnlyStragglersHoldStop`).

## 6. Where code and text disagree

1. `print_manager.py:251` asks the *copy* of the row whether a permission is
   required; an order with `requires_intent` that arrives during the download is
   printed without one (`print_upgrade`; `docs/multi-worker-phase4.md:14-17`).
2. `main.py:176`: the resend loop checks `status_failures` before it waits, and
   sends `printing` after the state became unclear (`outbox_stale`;
   `docs/multi-worker-phase4.md:67-68`).
3. `main.py:263`: `get_parser` is outside the `try`; a `regex_set` that does not
   compile ends the serial task and the forward loop (`alarms_parser`;
   `alarm_parser.py:5-6`).
4. `serial_ingest.py:166`: pauses during handling are not seen (`frames_pause`;
   `README.md:69-70` of the repository).
5. `serial_passthrough.py:76`: `stop()` waits for clients that do not read, and with
   it `apply()`, the WebSocket reader and the end of the process (`fanout_stuck`;
   `serial_passthrough.py:9-10` and `:50`).
6. `spool.py:104-106` makes a `printing` row of an older version `uncertain` without
   setting `submitted_at`, and `main.py:165` reports it with `not_submitted`, although CUPS
   may have had it. `docs/multi-worker-phase4.md:30`: "`uncertain` ist erst nach der
   lokalen CUPS-Grenze moeglich." The model has these rows; `NotSubmittedIsFinal` excepts
   them by name, for every other job it is proved.
7. `cloud_connector.py:84-91`: requests whose connection is lost are released when the
   reader leaves its loop, which is after the handler it is running has ended (up to never,
   see 5), or by their own ten seconds. `docs/multi-worker-phase4.md:29`:
   "Verbindungsende loest offene Intent-RPCs sofort als nicht erhalten auf." In
   `CloudConnector` these are the states with `link = "lost"`; no property claims more than
   the code does.

The first five have a run that shows them; 6 and 7 are in the models and are read off them.

Observations no document contradicts, found while modelling:

* `serial_ingest.py:185`: when the handler raises between two datagrams of a chunk,
  the `finally` emits the rest as one datagram, form feeds included.
* A positive answer to the pairing POST whose body is no JSON ends `Agent.run`.
* `update_config` of the fan-out raises for a value that is no number after it has
  changed part of the configuration (`HalfNoted`), and the message is acknowledged all the same:
  `_on_message` sends the ACK whether or not the handler raised.
* Clients admitted under an older allowlist or limit stay connected.
* A revoked token is never replaced; a typed code whose POST fails has to be typed
  again.
* `_on_config_sync` saves a configuration before it applies it, and `Agent.run` applies
  the saved one at its start (`main.py:57-60`): one that makes `update_config` or
  `sync_queues` raise ends the process at every start, until another is saved.
* A grant for one generation also prints the job when a newer one arrives during the
  request: the row then shows the newer generation (`SubmittedWithPermission`).
* A resend that read `printing` before the job ended may send it after the end was
  reported; the ACK does not confirm the newer row (`NoStaleConfirmation`), and the cloud
  sees the older status last.
* Without an emergency printer or a print manager (`main.py:303-305`), with a printer that
  is unknown or a CUPS call that fails (`print_manager.py:377-388`), the emergency print
  prints nothing, and an alarm the cloud did not take is heard by nobody until the loop
  posts it. A restart between storing and posting has the same effect. Nothing in the gateway keeps
  whether it printed, so no property is stated about it.
* The backoff grows after every abnormal disconnect and is reset only by a normal one
  (`cloud_connector.py:52`).

## 7. Not modelled

`ReceptionLock` is a file lock between processes and the reconnect backoffs are
times; neither changes state another component reads. The heartbeat only reports.
Health probes, discovery, page and PDF layout, settings and the extraction of
fields from an alarm keep no state and are left out; their success or failure is an
input where another component depends on it. Of the status page its two state
changes are modelled, `POST /pair` and `POST /jobs/{id}/cancel`. Disk space and the
content of files are not modelled. `refresh_artifact` changes only the URL a later
download uses. The upgrade of an old database in `Spool.__init__` is modelled as far
as it restores `alarm_sequence` and recovers unclear submissions, including the rows an
older version left in `printing` without a CUPS id (`legacy` in `PrintManager.Init`).
