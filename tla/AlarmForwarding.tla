---------------------------- MODULE AlarmForwarding ----------------------------
(***************************************************************************)
(* The way of an alarm: SerialIngest hands a datagram to _on_datagram of   *)
(* ecpg/main.py, which stores it in the ring of ecpg/spool.py, parses it,  *)
(* posts it to the cloud and prints it locally if that fails;              *)
(* _alarm_forward_loop posts what is still pending every 30 seconds.       *)
(*                                                                         *)
(* Two coroutines post: "rx", the task that reads the serial line (it      *)
(* reads nothing while it handles a datagram), and "loop".  Both can post  *)
(* the same row at the same time.                                          *)
(***************************************************************************)
EXTENDS Naturals, Sequences

CONSTANTS
    RingMax,      \* RING_MAX (500)
    RegexSets,    \* parser configurations the cloud may send: "valid", "broken"
    MaxAlarms,    \* bound: datagrams received
    MaxCrashes,   \* bound: restarts
    MaxSyncs      \* bound: changes of the parser configuration

ASSUME AlarmAssumption ==
    /\ RingMax \in Nat \ {0}
    /\ MaxAlarms \in Nat /\ MaxCrashes \in Nat /\ MaxSyncs \in Nat
    /\ RegexSets \subseteq {"valid", "broken"} /\ "valid" \in RegexSets

Poster == {"rx", "loop"}
Alarm  == 1..MaxAlarms

\* Answers of the cloud: accepted now, accepted for review, refused.
Code == {200, 202, 500}
NoCode == 0

VARIABLES
    ring,       \* raw_alarms_ring: rows [alarm, number, forwarded] by id
    counter,    \* kv 'alarm_sequence'
    regex,      \* the parser configuration in force (and saved)
    pc,         \* poster -> where it stands
    row,        \* poster -> the row it posts
    answer,     \* poster -> status code on its way back
    pending,    \* rows the loop read and has not handled yet (a set: ORDER BY id)
    received,   \* observer: datagrams received so far; names the newest alarm
    stored,     \* observer: <<number, alarm>> pairs the cloud accepted
    crashes, syncs

vars == <<ring, counter, regex, pc, row, answer, pending, received, stored, crashes, syncs>>

bounds == <<crashes, syncs>>

Row == [alarm : Alarm, number : Nat, forwarded : BOOLEAN]
NoRow == [alarm |-> 0, number |-> 0, forwarded |-> FALSE]

TypeOK ==
    /\ ring \in Seq(Row) /\ Len(ring) <= RingMax
    /\ counter \in Nat
    /\ regex \in RegexSets
    /\ pc \in [Poster -> {"idle", "post", "notice", "dead"}]
    /\ row \in [Poster -> Row \cup {NoRow}]
    /\ answer \in [Poster -> Code \cup {NoCode}]
    /\ pending \subseteq Row
    /\ received \in 0..MaxAlarms
    /\ stored \subseteq Nat \X Alarm
    /\ crashes \in 0..MaxCrashes /\ syncs \in 0..MaxSyncs

Init ==
    /\ ring = <<>> /\ counter = 0
    /\ regex = "valid"
    /\ pc = [p \in Poster |-> "idle"]
    /\ row = [p \in Poster |-> NoRow]
    /\ answer = [p \in Poster |-> NoCode]
    /\ pending = {}
    /\ received = 0
    /\ stored = {}
    /\ crashes = 0 /\ syncs = 0

-----------------------------------------------------------------------------
(* The ring.                                                               *)

\* Only the newest RING_MAX rows stay, forwarded or not.
Newest(s, n) == IF Len(s) > n THEN SubSeq(s, Len(s) - n + 1, Len(s)) ELSE s
EvictLate(s) == Newest(s, RingMax + 1)   \* mutant: one row too many stays
Evict(s) == Newest(s, RingMax)

\* The number of a new row comes from a counter of its own.
Number == counter + 1

\* add_raw_alarm: the counter, the row and the eviction in one transaction.
AddRawAlarm(new) ==
    /\ counter' = Number
    /\ ring' = Evict(Append(ring, new))

\* mark_alarm_forwarded; a row evicted meanwhile is not there any more.
MarkUpTo(a) ==                           \* mutant: WHERE id <= ?
    ring' = [i \in DOMAIN ring |->
                IF ring[i].alarm <= a THEN [ring[i] EXCEPT !.forwarded = TRUE] ELSE ring[i]]
Mark(a) ==
    ring' = [i \in DOMAIN ring |->
                IF ring[i].alarm = a THEN [ring[i] EXCEPT !.forwarded = TRUE] ELSE ring[i]]

\* pending_alarms
IsPending(r) == ~r.forwarded
PendingAlarms == {r \in {ring[i] : i \in DOMAIN ring} : IsPending(r)}

-----------------------------------------------------------------------------
(* Posting: _forward_alarm, a POST with a timeout of 15 seconds.           *)

StartPost(p, r) ==
    /\ pc' = [pc EXCEPT ![p] = "post"]
    /\ row' = [row EXCEPT ![p] = r]

\* The cloud stores the alarm; answering 200 or 202.
CloudAccepts(p, a) ==
    /\ pc[p] = "post" /\ answer[p] = NoCode /\ row[p].alarm = a
    /\ stored' = stored \cup {<<row[p].number, a>>}
    /\ \E code \in {200, 202} : answer' = [answer EXCEPT ![p] = code]
    /\ UNCHANGED <<ring, counter, regex, pc, row, pending, received, bounds>>

CloudRefuses(p) ==
    /\ pc[p] = "post" /\ answer[p] = NoCode
    /\ answer' = [answer EXCEPT ![p] = 500]
    /\ UNCHANGED <<ring, counter, regex, pc, row, pending, received, stored, bounds>>

\* The post ends with the answer, or without it (timeout, no connection): then
\* it failed, whether or not the cloud has the alarm.
ConfirmsAny(code) == code # NoCode               \* mutant: the code is not looked at
Confirms(code) == code \in {200, 202}

-----------------------------------------------------------------------------
(* _on_datagram.                                                           *)

\* Stored, then parsed.  get_parser compiles the cloud's expressions outside
\* any try: a broken one ends the serial task, which nothing starts again.
Receive ==
    LET new == [alarm |-> received + 1, number |-> Number, forwarded |-> FALSE] IN
    /\ pc["rx"] = "idle" /\ received < MaxAlarms
    /\ received' = received + 1
    /\ AddRawAlarm(new)
    /\ \/ regex = "valid" /\ StartPost("rx", new)
       \/ /\ regex = "broken"
          /\ pc' = [pc EXCEPT !["rx"] = "dead"]
          /\ UNCHANGED row
    /\ UNCHANGED <<regex, answer, pending, stored, bounds>>

Rest(p) == /\ row' = [row EXCEPT ![p] = NoRow]
           /\ answer' = [answer EXCEPT ![p] = NoCode]

\* Delivered: marked, then the notice over the WebSocket is awaited.
RxDelivered ==
    /\ pc["rx"] = "post" /\ Confirms(answer["rx"])
    /\ Mark(row["rx"].alarm)
    /\ pc' = [pc EXCEPT !["rx"] = "notice"]
    /\ Rest("rx")
    /\ UNCHANGED <<counter, regex, pending, received, stored, bounds>>

NoticeSent ==
    /\ pc["rx"] = "notice"
    /\ pc' = [pc EXCEPT !["rx"] = "idle"]
    /\ UNCHANGED <<ring, counter, regex, row, answer, pending, received, stored, bounds>>

\* Refused or not answered: the emergency print is tried, in the same breath.
\* Nothing is kept of whether it prints, or whether there is a printer for it.
\* What it raises ends the read loop or the serial task: then nothing more is
\* received, as Receive may always stay out.
RxFailed ==
    /\ pc["rx"] = "post"
    /\ pc' = [pc EXCEPT !["rx"] = "idle"]
    /\ Rest("rx")
    /\ UNCHANGED <<ring, counter, regex, pending, received, stored, bounds>>

-----------------------------------------------------------------------------
(* _alarm_forward_loop.                                                    *)

\* The oldest row of rs is parsed and posted; after the last the loop sleeps.
HandleNext(rs) ==
    \/ /\ rs = {}
       /\ pending' = rs
       /\ pc' = [pc EXCEPT !["loop"] = "idle"]
       /\ row' = [row EXCEPT !["loop"] = NoRow]
    \/ /\ regex = "valid"
       /\ \E next \in rs :
             /\ \A r \in rs : next.alarm <= r.alarm
             /\ pending' = rs \ {next}
             /\ StartPost("loop", next)
    \/ /\ rs # {} /\ regex = "broken"
       /\ pending' = {}
       /\ pc' = [pc EXCEPT !["loop"] = "dead"]
       /\ row' = [row EXCEPT !["loop"] = NoRow]

ForwardPass ==
    /\ pc["loop"] = "idle"
    /\ PendingAlarms # {}
    /\ HandleNext(PendingAlarms)
    /\ UNCHANGED <<ring, counter, regex, answer, received, stored, bounds>>

LoopReturns ==
    /\ pc["loop"] = "post"
    /\ \/ Confirms(answer["loop"]) /\ Mark(row["loop"].alarm)
       \/ UNCHANGED ring                     \* refused, or no answer
    /\ answer' = [answer EXCEPT !["loop"] = NoCode]
    /\ HandleNext(pending)
    /\ UNCHANGED <<counter, regex, received, stored, bounds>>

-----------------------------------------------------------------------------

ConfigSync ==
    /\ syncs < MaxSyncs /\ syncs' = syncs + 1
    /\ regex' \in RegexSets
    /\ UNCHANGED <<ring, counter, pc, row, answer, pending, received, stored, crashes>>

\* Only the ring, the counter and the configuration are on disk.
CountRows == counter' = Len(ring)        \* mutant: the counter starts from the ring
RestoreCounter ==
    LET numbers == {counter} \cup {ring[i].number : i \in DOMAIN ring}
    IN counter' = CHOOSE n \in numbers : \A k \in numbers : k <= n

Crash ==
    /\ crashes < MaxCrashes /\ crashes' = crashes + 1
    /\ pc' = [p \in Poster |-> "idle"]
    /\ row' = [p \in Poster |-> NoRow]
    /\ answer' = [p \in Poster |-> NoCode]
    /\ pending' = {}
    /\ RestoreCounter
    /\ UNCHANGED <<ring, regex, received, stored, syncs>>

Next ==
    \/ Receive \/ RxDelivered \/ NoticeSent \/ RxFailed
    \/ ForwardPass \/ LoopReturns
    \/ \E p \in Poster : CloudRefuses(p) \/ \E a \in Alarm : CloudAccepts(p, a)
    \/ ConfigSync \/ Crash

Spec == Init /\ [][Next]_vars

\* Posts end by their timeout, the loop wakes every 30 seconds, and the cloud
\* is not out of reach at every single attempt to post an alarm: that is
\* assumed of the surroundings.
FairSpec ==
    /\ Spec
    /\ WF_vars(RxDelivered \/ RxFailed) /\ WF_vars(NoticeSent)
    /\ WF_vars(ForwardPass) /\ WF_vars(LoopReturns)
    /\ \A a \in Alarm : SF_vars(CloudAccepts("loop", a))

-----------------------------------------------------------------------------
(* Properties.                                                             *)

InRing(a) == \E i \in DOMAIN ring : ring[i].alarm = a
StoredAlarm(a) == \E s \in stored : s[2] = a

\* An alarm leaves the set of those still to be sent only when the cloud has
\* it, or when RING_MAX newer alarms have displaced it; no crash, refusal or
\* double posting loses one.
NothingSwallowed ==
    \A a \in 1..received :
        \/ StoredAlarm(a)
        \/ \E i \in DOMAIN ring : ring[i].alarm = a /\ ~ring[i].forwarded
        \/ received - a >= RingMax

\* The cloud removes duplicates by number: two alarms must never share one,
\* although rows are evicted and the process restarts.
NumbersIdentify ==
    \A s, t \in stored : s[1] = t[1] => s[2] = t[2]

\* Every alarm reaches the cloud, unless newer ones displace it: the comment
\* "nie einen Alarm verschlucken" of alarm_parser.py.
EveryAlarmForwarded ==
    \A a \in Alarm :
        received >= a ~> StoredAlarm(a) \/ ~InRing(a)

\* What is left of that: it holds as long as the forward loop lives.
ForwardedWhileLoopLives ==
    \A a \in Alarm :
        received >= a ~> StoredAlarm(a) \/ ~InRing(a) \/ pc["loop"] = "dead"

-----------------------------------------------------------------------------
(* AlarmForwarding implements AlarmLedger: what is owed are the rows that  *)
(* are not marked.                                                         *)

Owed == {ring[i].alarm : i \in {k \in DOMAIN ring : ~ring[k].forwarded}}

Ledger == INSTANCE AlarmLedger WITH
    Slots   <- RingMax,
    owed    <- Owed,
    arrived <- {s[2] : s \in stored}

\* The promise of AlarmLedger, kept by every step of the code: an alarm is
\* given up for no other reason than its arrival or newer alarms, and comes
\* back neither by a late answer nor by a restart.
ImplementsLedger == Ledger!LedgerSpec
==============================================================================
