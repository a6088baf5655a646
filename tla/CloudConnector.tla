---------------------------- MODULE CloudConnector ----------------------------
(***************************************************************************)
(* What crosses the WebSocket of ecpg/cloud_connector.py, apart from the   *)
(* job statuses of StatusOutbox: orders of the cloud, which it repeats     *)
(* until they are acknowledged, and the print_intent RPC.                  *)
(*                                                                         *)
(* One task reads and handles one message at a time.  A frame is on the    *)
(* wire before the task that sends it waits.  When a connection is lost    *)
(* the frames that had arrived are still read; only when the reader has    *)
(* come to the end of them does it clean up and connect again.             *)
(***************************************************************************)
EXTENDS Naturals, Sequences

CONSTANTS
    Order,      \* orders of the cloud, by message id
    NoOrder,    \* no order
    Syncs,      \* the orders that are a config_sync
    MaxRid,     \* bound: print_intent requests; the k-th that is made has rid k
    Answers,    \* how the cloud may answer one
    SeenMax,    \* maxlen of _seen_ids (512)
    MaxWire,    \* bound: frames under way at which nobody begins something new
    MaxDrops    \* bound: connections lost

ASSUME ConnectorAssumption ==
    /\ NoOrder \notin Order /\ Syncs \subseteq Order
    /\ SeenMax \in Nat \ {0} /\ MaxRid \in Nat
    /\ Answers \subseteq {"yes", "no", "odd"}
    /\ MaxWire \in Nat /\ MaxDrops \in Nat

VARIABLES
    link,       \* "down", "up", "lost" (the reader not yet back)
    inbox,      \* frames on the way to the gateway
    wire,       \* frames on the way to the cloud
    seen,       \* _seen_ids
    handling,   \* the order whose handler runs
    stuck,      \* it waits for a passthrough client that never reads
    waiter,     \* rid -> its future in _intent_waiters, "absent" if none
    outcome,    \* rid -> what request_print_intent returned, "open" before
    verdict,    \* cloud: rid -> its decision
    acked,      \* cloud: the orders acknowledged
    accepted,   \* observer: the orders handlers were called for, since the start
    ended,      \* observer: the orders whose handler came to an end
    drops

connVars == <<link, inbox, wire, seen, handling, stuck, waiter, outcome, verdict,
              acked, accepted, ended, drops>>

Rid == 1..MaxRid

\* ok in an intent_result: true, false, or no bool.
Answer == {"yes", "no", "odd"}

ToGateway == [type : {"order"}, id : Order]
               \cup [type : {"result"}, id : Rid, ok : Answer]
ToCloud == [type : {"ack"}, id : Order] \cup [type : {"intent"}, id : Rid]

ConnectorTypeOK ==
    /\ link \in {"down", "up", "lost"}
    /\ inbox \in Seq(ToGateway)
    /\ wire \in Seq(ToCloud)
    /\ seen \in Seq(Order) /\ Len(seen) <= SeenMax
    /\ handling \in Order \cup {NoOrder} /\ stuck \in BOOLEAN
    /\ waiter \in [Rid -> {"absent", "pending", "yes", "no", "none"}]
    /\ outcome \in [Rid -> {"open", "yes", "no", "none"}]
    /\ verdict \in [Rid -> Answer \cup {"none"}]
    /\ acked \subseteq Order
    /\ accepted \in Seq(Order)
    /\ ended \subseteq Order
    /\ drops \in 0..MaxDrops

ConnectorInit ==
    /\ link = "down" /\ inbox = <<>> /\ wire = <<>>
    /\ seen = <<>> /\ handling = NoOrder /\ stuck = FALSE
    /\ waiter = [r \in Rid |-> "absent"]
    /\ outcome = [r \in Rid |-> "open"]
    /\ verdict = [r \in Rid |-> "none"]
    /\ acked = {} /\ accepted = <<>> /\ ended = {}
    /\ drops = 0

UnderWay == Len(inbox) + Len(wire)

-----------------------------------------------------------------------------
(* The connection.                                                         *)

Connect ==
    /\ link = "down"
    /\ link' = "up"
    /\ inbox' = <<>> /\ wire' = <<>>
    /\ UNCHANGED <<seen, handling, stuck, waiter, outcome, verdict, acked, accepted, ended, drops>>

ConnectionLost ==
    /\ link = "up" /\ drops < MaxDrops
    /\ link' = "lost"
    /\ \E k \in 0..Len(inbox) : inbox' = SubSeq(inbox, 1, k)
    /\ wire' = <<>>
    /\ drops' = drops + 1
    /\ UNCHANGED <<seen, handling, stuck, waiter, outcome, verdict, acked, accepted, ended>>

\* _send
Put(frame) == wire' = IF link = "up" THEN Append(wire, frame) ELSE wire

\* finally of _connect_and_serve: whoever waits is told that there is no answer,
\* but only when the reader is back from the handler it was in.
ReleaseWaiters ==
    waiter' = [r \in Rid |-> IF waiter[r] = "pending" THEN "none" ELSE waiter[r]]

ReaderEnds ==
    /\ link = "lost" /\ handling = NoOrder /\ inbox = <<>>
    /\ link' = "down"
    /\ ReleaseWaiters
    /\ UNCHANGED <<inbox, wire, seen, handling, stuck, outcome, verdict, acked, accepted, ended, drops>>

-----------------------------------------------------------------------------
(* _on_message.                                                            *)

Reads(type) == handling = NoOrder /\ inbox # <<>> /\ Head(inbox).type = type

Ack(i) == [type |-> "ack", id |-> i]

\* append to a deque with maxlen
RememberAll(i) == Append(seen, i)                     \* mutant: a list in place of the deque
RememberFewer(i) == IF Len(seen) + 1 >= SeenMax THEN Tail(Append(seen, i))  \* mutant: off by one
                                               ELSE Append(seen, i)
Remember(i) == IF Len(seen) < SeenMax THEN Append(seen, i) ELSE Append(Tail(seen), i)

Recognised(i) == \E k \in DOMAIN seen : seen[k] = i

\* A repeated order is acknowledged again; a new one is noted and its handler
\* called, which takes its time.  That of a config_sync may wait for ever for a
\* passthrough client that does not read (SerialPassthrough.ApplyEnds).
DropSilently(i) == UNCHANGED wire          \* mutant: a repeated order is not acknowledged
AckAgain(i) == Put(Ack(i))

AckAtOnce(i) == Put(Ack(i))                \* mutant: acknowledged before it is handled
AckLater(i) == UNCHANGED wire

OnOrder(i) ==
    /\ Reads("order") /\ Head(inbox).id = i
    /\ inbox' = Tail(inbox)
    /\ \/ /\ Recognised(i)
          /\ AckAgain(i)
          /\ UNCHANGED <<seen, handling, stuck, accepted>>
       \/ /\ ~Recognised(i)
          /\ seen' = Remember(i)
          /\ handling' = i
          /\ stuck' \in IF i \in Syncs THEN BOOLEAN ELSE {FALSE}
          /\ accepted' = Append(accepted, i)
          /\ AckLater(i)
    /\ UNCHANGED <<link, waiter, outcome, verdict, acked, ended, drops>>

\* The handler returned or raised: either way the order is acknowledged.
HandlerEnds ==
    /\ handling # NoOrder /\ ~stuck
    /\ handling' = NoOrder
    /\ ended' = ended \cup {handling}
    /\ Put(Ack(handling))
    /\ UNCHANGED <<link, inbox, seen, stuck, waiter, outcome, verdict, acked, accepted, drops>>

\* intent_result goes to the future with its rid, if it is still open.
SettleAny(r, ok) ==                        \* mutant: whoever waits gets the answer
    waiter' = [q \in Rid |-> IF waiter[q] = "pending" THEN ok ELSE waiter[q]]
Settle(r, ok) ==
    waiter' = [waiter EXCEPT ![r] = IF @ = "pending" THEN ok ELSE @]

OnIntentResult ==
    /\ Reads("result")
    /\ inbox' = Tail(inbox)
    /\ Settle(Head(inbox).id, IF Head(inbox).ok = "odd" THEN "none" ELSE Head(inbox).ok)
    /\ UNCHANGED <<link, wire, seen, handling, stuck, outcome, verdict, acked, accepted, ended, drops>>

-----------------------------------------------------------------------------
(* request_print_intent, called by the print tasks.                        *)

Return(r, value) ==
    /\ outcome' = [outcome EXCEPT ![r] = value]
    /\ waiter' = [waiter EXCEPT ![r] = "absent"]

\* Without a usable connection _send fails at once.
RequestIntent(r) ==
    /\ outcome[r] = "open" /\ waiter[r] = "absent" /\ Len(wire) < MaxWire
    /\ \A q \in Rid : q < r => outcome[q] # "open" \/ waiter[q] # "absent"
    /\ \/ /\ link = "up"
          /\ waiter' = [waiter EXCEPT ![r] = "pending"]
          /\ Put([type |-> "intent", id |-> r])
          /\ UNCHANGED outcome
       \/ link # "up" /\ Return(r, "none") /\ UNCHANGED wire
    /\ UNCHANGED <<link, inbox, seen, handling, stuck, verdict, acked, accepted, ended, drops>>

IntentReturns(r) ==
    /\ waiter[r] \in {"yes", "no", "none"}
    /\ Return(r, waiter[r])
    /\ UNCHANGED <<link, inbox, wire, seen, handling, stuck, verdict, acked, accepted, ended, drops>>

\* Ten seconds are over, even if the future has just been settled, or the
\* send raised.
IntentTimesOut(r) ==
    /\ waiter[r] # "absent"
    /\ Return(r, "none")
    /\ UNCHANGED <<link, inbox, wire, seen, handling, stuck, verdict, acked, accepted, ended, drops>>

-----------------------------------------------------------------------------
(* The cloud.                                                              *)

\* An order is sent, and sent again until it is acknowledged.
CloudSends(i) ==
    /\ link = "up" /\ UnderWay < MaxWire
    /\ i \notin acked
    /\ inbox' = Append(inbox, [type |-> "order", id |-> i])
    /\ UNCHANGED <<link, wire, seen, handling, stuck, waiter, outcome, verdict, acked,
                   accepted, ended, drops>>

CloudReads ==
    /\ wire # <<>>
    /\ wire' = Tail(wire)
    /\ \/ /\ Head(wire).type = "ack"
          /\ acked' = acked \cup {Head(wire).id}
          /\ UNCHANGED <<inbox, verdict>>
       \/ /\ Head(wire).type = "intent"
          /\ \E ok \in Answers :
                /\ verdict' = [verdict EXCEPT ![Head(wire).id] = ok]
                /\ inbox' = Append(inbox, [type |-> "result", id |-> Head(wire).id, ok |-> ok])
          /\ UNCHANGED acked
    /\ UNCHANGED <<link, seen, handling, stuck, waiter, outcome, accepted, ended, drops>>

-----------------------------------------------------------------------------

\* Nothing of the connector is on disk; the print tasks end with it.
ConnectorCrash ==
    /\ link' = "down" /\ inbox' = <<>> /\ wire' = <<>>
    /\ seen' = <<>> /\ handling' = NoOrder /\ stuck' = FALSE /\ accepted' = <<>>
    /\ waiter' = [r \in Rid |-> "absent"]
    /\ outcome' = [r \in Rid |-> IF waiter[r] # "absent" THEN "none" ELSE outcome[r]]
    /\ UNCHANGED <<verdict, acked, ended, drops>>

ConnectorStep ==
    \/ Connect \/ ConnectionLost \/ ReaderEnds
    \/ \E i \in Order : OnOrder(i) \/ CloudSends(i)
    \/ HandlerEnds \/ OnIntentResult
    \/ \E r \in Rid : RequestIntent(r) \/ IntentReturns(r) \/ IntentTimesOut(r)
    \/ CloudReads

-----------------------------------------------------------------------------
(* Properties.                                                             *)

\* No handler is called twice for an order within one run of the process,
\* however often it is repeated, unless SeenMax other orders came between.
RepetitionsRecognised ==
    \A j, k \in DOMAIN accepted : j < k /\ accepted[j] = accepted[k] => k - j > SeenMax

\* What the cloud does not repeat any more has been handled to the end, through
\* crashes in the handler, lost ACKs and the ACKs of repetitions.
AckedIsHandled == acked \subseteq ended

\* A permission is the cloud's answer to this very request: not to another,
\* not to one given up before, not one left over from another connection.
PermissionIsOwn ==
    \A r \in Rid : outcome[r] \in {"yes", "no"} => verdict[r] = outcome[r]
==============================================================================
