------------------------- MODULE AlarmForwardingProofs -------------------------
(***************************************************************************)
(* Theorems about AlarmForwarding, for a ring of any size and any number   *)
(* of alarms, configurations and restarts.  At their core is that the ring *)
(* always holds the newest alarms without a gap, so that the number of an  *)
(* alarm is the count of alarms received, although rows are displaced and  *)
(* the counter is restored after a restart.                                *)
(***************************************************************************)
EXTENDS AlarmForwarding, SequenceTheorems, TLAPS

\* The ring holds the newest alarms, numbered as they came; a row is marked
\* only when the cloud has its alarm.
RingInv ==
    /\ counter = received
    /\ Len(ring) = IF received < RingMax THEN received ELSE RingMax
    /\ \A i \in 1..Len(ring) :
          /\ ring[i].alarm = received - Len(ring) + i
          /\ ring[i].number = ring[i].alarm
          /\ ring[i].forwarded => StoredAlarm(ring[i].alarm)

\* A row in somebody's hands is one that was received.
Known(r) == r.number = r.alarm /\ r.alarm <= received

\* Only who posts has a row and an answer, and a confirmation is true.
PostInv ==
    /\ \A p \in Poster : /\ Known(row[p])
                         /\ IF pc[p] = "post" THEN row[p] \in Row
                                              ELSE row[p] = NoRow /\ answer[p] = NoCode
                         /\ answer[p] \in {200, 202} => StoredAlarm(row[p].alarm)
    /\ \A r \in pending : Known(r)
    /\ \A s \in stored : s[1] = s[2]

IInv == TypeOK /\ RingInv /\ PostInv

\* The invariant holds when the gateway starts with an empty spool.
LEMMA InitInv == Init => IInv
  BY AlarmAssumption
  DEF Init, IInv, TypeOK, RingInv, PostInv, Known, NoRow, NoCode, Row, Alarm, Poster, Code

\* A sequence in Seq(Row) has rows at its indexes.
LEMMA RingFacts ==
    ASSUME TypeOK
    PROVE  /\ Len(ring) \in Nat /\ DOMAIN ring = 1..Len(ring)
           /\ \A i \in 1..Len(ring) : ring[i] \in Row
           /\ received \in Nat /\ counter \in Nat
  BY AlarmAssumption DEF TypeOK

\* add_raw_alarm drops exactly the rows that are too old.
LEMMA AddRow ==
    ASSUME TypeOK, NEW new \in Row, NEW s, s = Evict(Append(ring, new))
    PROVE  /\ s \in Seq(Row)
           /\ Len(s) = IF Len(ring) < RingMax THEN Len(ring) + 1 ELSE RingMax
           /\ \A i \in 1..Len(s) :
                 s[i] = IF i = Len(s) THEN new ELSE ring[Len(ring) + 1 - Len(s) + i]
<1> DEFINE a == Append(ring, new)
<1>0. PICK n \in Nat : n = Len(ring)
  BY RingFacts
<1>1. /\ n <= RingMax /\ a \in Seq(Row) /\ Len(a) = n + 1
      /\ \A i \in 1..n : a[i] = ring[i]
      /\ a[n + 1] = new
      /\ RingMax \in Nat \ {0} /\ s = Evict(a)
  BY <1>0, AlarmAssumption DEF TypeOK
<1> HIDE DEF a
<1>2. s = IF Len(a) > RingMax THEN SubSeq(a, Len(a) - RingMax + 1, Len(a)) ELSE a
  BY <1>1 DEF Evict, Newest
<1>3. CASE n < RingMax
  <2>1. ~(Len(a) > RingMax)
    BY <1>1, <1>3
  <2> QED BY <1>0, <1>1, <1>3, <1>2, <2>1
<1>4. CASE n = RingMax
  <2>0. Len(a) > RingMax /\ Len(a) - RingMax + 1 = 2 /\ Len(a) = n + 1
    BY <1>1, <1>4
  <2>1. s = SubSeq(a, 2, n + 1)
    BY <1>2, <2>0
  <2>2. \A i \in 2..(n + 1) : a[i] \in Row
    BY <1>1
  <2>3. /\ s \in Seq(Row) /\ Len(s) = n
        /\ \A i \in 1..n : s[i] = a[i + 1]
    BY <1>1, <1>4, <2>1, <2>2, SubSeqProperties
  <2> QED BY <1>0, <1>1, <1>4, <2>3
<1> QED BY <1>1, <1>3, <1>4

\* A marked row says the truth, and marking changes nothing else.
LEMMA MarkRow ==
    ASSUME IInv, NEW a, Mark(a), StoredAlarm(a), UNCHANGED <<counter, received, stored>>
    PROVE  /\ ring' \in Seq(Row) /\ Len(ring') = Len(ring)
           /\ RingInv'
<1>1. /\ Len(ring) \in Nat /\ DOMAIN ring = 1..Len(ring)
      /\ \A i \in 1..Len(ring) : ring[i] \in Row
  BY RingFacts DEF IInv
<1>2. ring' = [i \in 1..Len(ring) |->
                  IF ring[i].alarm = a THEN [ring[i] EXCEPT !.forwarded = TRUE] ELSE ring[i]]
  BY <1>1 DEF Mark
<1>3. \A i \in 1..Len(ring) : [ring[i] EXCEPT !.forwarded = TRUE] \in Row
  BY <1>1 DEF Row
<1>4. ring' \in Seq(Row) /\ Len(ring') = Len(ring)
  BY <1>1, <1>2, <1>3
<1>5. \A i \in 1..Len(ring) :
          /\ ring'[i].alarm = ring[i].alarm /\ ring'[i].number = ring[i].number
          /\ ring'[i].forwarded => ring[i].forwarded \/ ring[i].alarm = a
  BY <1>1, <1>2 DEF Row
<1> QED BY <1>4, <1>5 DEF IInv, RingInv, StoredAlarm

\* A step that does not touch the ring, while the cloud may store something.
LEMMA RingStays ==
    ASSUME IInv, UNCHANGED <<ring, counter, received>>, stored \subseteq stored'
    PROVE  RingInv'
  BY DEF IInv, RingInv, StoredAlarm

-----------------------------------------------------------------------------

\* A new row gets the next number.
LEMMA ReceiveInv == ASSUME IInv, Receive PROVE IInv'
<1> DEFINE new == [alarm |-> received + 1, number |-> Number, forwarded |-> FALSE]
           n   == Len(ring)
<1>1. /\ new \in Row /\ new.alarm = received + 1 /\ new.number = received + 1 /\ ~new.forwarded
      /\ received' = received + 1 /\ counter' = received + 1
      /\ ring' = Evict(Append(ring, new))
      /\ received \in Nat /\ received + 1 \in Alarm /\ n \in Nat
      /\ UNCHANGED <<regex, answer, pending, stored, bounds>>
      /\ pc["rx"] = "idle" /\ row["rx"] = NoRow
  BY RingFacts, AlarmAssumption
  DEF Receive, AddRawAlarm, Number, Row, Alarm, IInv, TypeOK, RingInv, PostInv, Poster
<1> HIDE DEF new
<1>2. /\ ring' \in Seq(Row)
      /\ Len(ring') = IF n < RingMax THEN n + 1 ELSE RingMax
      /\ \A i \in 1..Len(ring') :
            ring'[i] = IF i = Len(ring') THEN new ELSE ring[n + 1 - Len(ring') + i]
  <2>1. TypeOK
    BY DEF IInv
  <2>2. \A s : s = Evict(Append(ring, new)) =>
            /\ s \in Seq(Row)
            /\ Len(s) = IF n < RingMax THEN n + 1 ELSE RingMax
            /\ \A i \in 1..Len(s) :
                  s[i] = IF i = Len(s) THEN new ELSE ring[n + 1 - Len(s) + i]
    BY <1>1, <2>1, AddRow
  <2> QED BY <1>1, <2>2
<1>3. RingInv'
  <2>1. n = IF received < RingMax THEN received ELSE RingMax
    BY DEF IInv, RingInv
  <2>2. Len(ring') = IF received' < RingMax THEN received' ELSE RingMax
    BY <1>1, <1>2, <2>1, AlarmAssumption
  <2>3. ASSUME NEW i \in 1..Len(ring')
        PROVE  /\ ring'[i].alarm = received' - Len(ring') + i
               /\ ring'[i].number = ring'[i].alarm
               /\ ring'[i].forwarded => StoredAlarm(ring'[i].alarm)
    <3>1. Len(ring') \in Nat
      BY <1>1, <1>2, AlarmAssumption
    <3>2. CASE i = Len(ring')
      BY <1>1, <1>2, <3>1, <3>2
    <3>3. CASE i # Len(ring')
      <4>1. ring'[i] = ring[n + 1 - Len(ring') + i] /\ n + 1 - Len(ring') + i \in 1..n
        <5>1. n <= RingMax
          BY <1>1, AlarmAssumption DEF IInv, TypeOK
        <5>2. Len(ring') = n + 1 \/ Len(ring') = n
          BY <1>1, <1>2, <5>1, AlarmAssumption
        <5>3. n + 1 - Len(ring') + i \in 1..n
          <6> HIDE DEF n
          <6> QED BY <1>1, <3>1, <3>3, <5>2
        <5>4. ring'[i] = ring[n + 1 - Len(ring') + i]
          <6> HIDE DEF n
          <6> QED BY <1>2, <3>3
        <5> QED BY <5>3, <5>4
      <4>2. ring'[i].alarm = received - n + (n + 1 - Len(ring') + i)
        BY <4>1 DEF IInv, RingInv
      <4> QED BY <1>1, <3>1, <4>1, <4>2 DEF IInv, RingInv
    <3> QED BY <3>2, <3>3
  <2> QED BY <1>1, <2>2, <2>3 DEF RingInv, StoredAlarm
<1>4. \/ /\ pc' = [pc EXCEPT !["rx"] = "post"] /\ row' = [row EXCEPT !["rx"] = new]
      \/ pc' = [pc EXCEPT !["rx"] = "dead"] /\ row' = row
  BY <1>1 DEF Receive, StartPost, new
<1>5. /\ pc \in [Poster -> {"idle", "post", "notice", "dead"}]
      /\ row \in [Poster -> Row \cup {NoRow}]
      /\ answer["rx"] = NoCode
      /\ received' \in 0..MaxAlarms
  BY <1>1 DEF IInv, TypeOK, PostInv, Poster, Receive, Alarm
<1>6. PostInv'
  <2>1. \A r : Known(r) /\ r.alarm \in Nat => r.number = r.alarm /\ r.alarm <= received + 1
    BY <1>1 DEF Known
  <2>2. \A r \in Row \cup {NoRow} : r.alarm \in Nat
    BY AlarmAssumption DEF Row, Alarm, NoRow
  <2>3. ASSUME NEW p \in Poster PROVE row[p].number = row[p].alarm /\ row[p].alarm <= received + 1
    BY <1>5, <2>1, <2>2 DEF IInv, PostInv
  <2>4. ASSUME NEW r \in pending PROVE r.number = r.alarm /\ r.alarm <= received + 1
    BY <2>1, <2>2 DEF IInv, PostInv, TypeOK
  <2>5. \A r \in pending' : Known(r)'
    BY <1>1, <2>4 DEF Known
  <2>6. ASSUME NEW p \in Poster
        PROVE  /\ Known(row[p])'
               /\ IF pc'[p] = "post" THEN row'[p] \in Row
                                     ELSE row'[p] = NoRow /\ answer'[p] = NoCode
               /\ answer'[p] \in {200, 202} => StoredAlarm(row[p].alarm)'
    <3>1. CASE p = "rx"
      <4>1. /\ answer'[p] = NoCode
            /\ \/ pc'[p] = "post" /\ row'[p] = new
               \/ pc'[p] = "dead" /\ row'[p] = NoRow
        BY <1>1, <1>4, <1>5, <3>1 DEF Poster
      <4> QED BY <1>1, <4>1 DEF Known, NoCode, NoRow
    <3>2. CASE p # "rx"
      <4>1. pc'[p] = pc[p] /\ row'[p] = row[p] /\ answer'[p] = answer[p]
        BY <1>1, <1>4, <1>5, <3>2
      <4> QED BY <1>1, <2>3, <4>1 DEF Known, IInv, PostInv, StoredAlarm
    <3> QED BY <3>1, <3>2
  <2> QED BY <1>1, <2>5, <2>6 DEF PostInv, IInv
<1>7. TypeOK'
  <2>1. /\ pc' \in [Poster -> {"idle", "post", "notice", "dead"}]
        /\ row' \in [Poster -> Row \cup {NoRow}]
    BY <1>1, <1>4, <1>5
  <2>2. counter' \in Nat /\ Len(ring') <= RingMax
    BY <1>1, <1>2, AlarmAssumption
  <2> QED BY <1>1, <1>2, <1>5, <2>1, <2>2 DEF IInv, TypeOK, bounds
<1> QED BY <1>3, <1>6, <1>7 DEF IInv

\* The cloud answers; when it accepts, it has the alarm.
LEMMA CloudInv ==
    ASSUME IInv, NEW p \in Poster, CloudRefuses(p) \/ \E a \in Alarm : CloudAccepts(p, a)
    PROVE  IInv'
<1>1. PICK code \in {200, 202, 500} :
        /\ pc[p] = "post" /\ row[p] \in Row
        /\ answer' = [answer EXCEPT ![p] = code]
        /\ \/ code = 500 /\ stored' = stored
           \/ stored' = stored \cup {<<row[p].number, row[p].alarm>>}
        /\ UNCHANGED <<ring, counter, regex, pc, row, pending, received, bounds>>
  BY DEF CloudRefuses, CloudAccepts, IInv, PostInv
<1>2. stored \subseteq stored'
  BY <1>1
<1>3. RingInv'
  BY <1>1, <1>2, RingStays
<1>4. \A a : StoredAlarm(a) => StoredAlarm(a)'
  BY <1>2 DEF StoredAlarm
<1>5. code # 500 => StoredAlarm(row[p].alarm)'
  <2> SUFFICES ASSUME code # 500 PROVE \E s \in stored' : s[2] = row[p].alarm
    BY <1>1 DEF StoredAlarm
  <2>1. <<row[p].number, row[p].alarm>> \in stored'
    BY <1>1
  <2> QED BY <2>1
<1>6. PostInv'
  <2>1. ASSUME NEW q \in Poster
        PROVE  /\ Known(row[q])'
               /\ IF pc'[q] = "post" THEN row'[q] \in Row
                                     ELSE row'[q] = NoRow /\ answer'[q] = NoCode
               /\ answer'[q] \in {200, 202} => StoredAlarm(row[q].alarm)'
    <3>1. answer'[q] = IF q = p THEN code ELSE answer[q]
      BY <1>1 DEF IInv, TypeOK
    <3> QED BY <1>1, <1>4, <1>5, <3>1 DEF IInv, PostInv, Known
  <2>2. row[p].number = row[p].alarm
    BY DEF IInv, PostInv, Known
  <2>3. \A s \in stored' : s[1] = s[2]
    BY <1>1, <2>2 DEF IInv, PostInv
  <2> QED BY <1>1, <2>1, <2>3 DEF IInv, PostInv, Known
<1>7. TypeOK'
  <2>1. answer' \in [Poster -> Code \cup {NoCode}]
    BY <1>1 DEF IInv, TypeOK, Code
  <2>2. stored' \subseteq Nat \X Alarm
    BY <1>1 DEF IInv, TypeOK, Row
  <2> QED BY <1>1, <2>1, <2>2 DEF IInv, TypeOK, bounds
<1> QED BY <1>3, <1>6, <1>7 DEF IInv

\* The serial task learns how its post ended.
LEMMA RxInv ==
    ASSUME IInv, RxDelivered \/ RxFailed \/ NoticeSent
    PROVE  IInv'
<1> DEFINE a == row["rx"].alarm
<1>1. /\ UNCHANGED <<counter, regex, pending, received, stored, bounds>>
      /\ "rx" \in Poster
      /\ pc \in [Poster -> {"idle", "post", "notice", "dead"}]
      /\ row \in [Poster -> Row \cup {NoRow}]
      /\ answer \in [Poster -> Code \cup {NoCode}]
  BY DEF RxDelivered, RxFailed, NoticeSent, Poster, IInv, TypeOK
<1>2. /\ pc'["rx"] \in {"idle", "notice"} /\ row'["rx"] = NoRow /\ answer'["rx"] = NoCode
      /\ pc' \in [Poster -> {"idle", "post", "notice", "dead"}]
      /\ row' \in [Poster -> Row \cup {NoRow}]
      /\ answer' \in [Poster -> Code \cup {NoCode}]
      /\ \A p \in Poster \ {"rx"} : /\ pc'[p] = pc[p] /\ row'[p] = row[p]
                                    /\ answer'[p] = answer[p]
  <2>1. CASE RxDelivered \/ RxFailed
    BY <1>1, <2>1 DEF RxDelivered, RxFailed, Rest
  <2>2. CASE NoticeSent
    BY <1>1, <2>2 DEF NoticeSent, IInv, PostInv
  <2> QED BY <2>1, <2>2
<1>3. PostInv'
  <2>1. ASSUME NEW p \in Poster
        PROVE  /\ Known(row[p])'
               /\ IF pc'[p] = "post" THEN row'[p] \in Row
                                     ELSE row'[p] = NoRow /\ answer'[p] = NoCode
               /\ answer'[p] \in {200, 202} => StoredAlarm(row[p].alarm)'
    <3>1. CASE p = "rx"
      BY <1>1, <1>2, <3>1, RingFacts DEF Known, NoRow, NoCode, IInv
    <3>2. CASE p # "rx"
      BY <1>1, <1>2, <3>2 DEF Known, IInv, PostInv, StoredAlarm
    <3> QED BY <3>1, <3>2
  <2> QED BY <1>1, <2>1 DEF PostInv, Known, IInv
<1>4. /\ ring' \in Seq(Row) /\ Len(ring') = Len(ring) /\ RingInv'
  <2>1. CASE RxDelivered
    <3>1. Mark(a) /\ StoredAlarm(a)
      BY <2>1, <1>1 DEF RxDelivered, Confirms, IInv, PostInv
    <3> QED BY <1>1, <3>1, MarkRow DEF IInv, TypeOK
  <2>2. CASE RxFailed
    <3>1. ring' = ring
      BY <2>2 DEF RxFailed
    <3> QED BY <1>1, <3>1, RingStays DEF IInv, TypeOK
  <2>3. CASE NoticeSent
    <3>1. ring' = ring
      BY <2>3 DEF NoticeSent
    <3> QED BY <1>1, <3>1, RingStays DEF IInv, TypeOK
  <2> QED BY <2>1, <2>2, <2>3
<1>6. TypeOK'
  BY <1>1, <1>2, <1>4 DEF IInv, TypeOK, bounds
<1> QED BY <1>3, <1>4, <1>6 DEF IInv

\* The forward loop takes its next row from rows that were received.
LEMMA LoopInv ==
    ASSUME IInv, ForwardPass \/ LoopReturns
    PROVE  IInv'
<1>1. PICK rs \in SUBSET Row : HandleNext(rs) /\ \A r \in rs : Known(r)
  <2>1. CASE ForwardPass
    <3>1. PendingAlarms \subseteq Row
      BY RingFacts DEF IInv, PendingAlarms
    <3>2. \A r \in PendingAlarms : Known(r)
      BY RingFacts DEF IInv, RingInv, PendingAlarms, Known, Row
    <3> QED BY <2>1, <3>1, <3>2 DEF ForwardPass
  <2>2. CASE LoopReturns
    BY <2>2 DEF LoopReturns, IInv, TypeOK, PostInv
  <2> QED BY <2>1, <2>2
<1>2. /\ UNCHANGED <<counter, regex, received, stored, bounds>>
      /\ "loop" \in Poster
      /\ pc \in [Poster -> {"idle", "post", "notice", "dead"}]
      /\ row \in [Poster -> Row \cup {NoRow}]
      /\ answer \in [Poster -> Code \cup {NoCode}]
  BY DEF ForwardPass, LoopReturns, Poster, IInv, TypeOK
<1>3. answer' = [answer EXCEPT !["loop"] = NoCode]
  <2>1. CASE ForwardPass
    <3>1. answer["loop"] = NoCode /\ answer' = answer
      BY <2>1 DEF ForwardPass, IInv, PostInv, Poster
    <3> QED BY <1>2, <3>1
  <2> QED BY <2>1 DEF LoopReturns
<1>4. PICK r \in Row \cup {NoRow}, at \in {"idle", "post", "dead"} :
        /\ pc' = [pc EXCEPT !["loop"] = at]
        /\ row' = [row EXCEPT !["loop"] = r]
        /\ IF at = "post" THEN r \in rs ELSE r = NoRow
        /\ pending' \subseteq rs
  BY <1>1 DEF HandleNext, StartPost
<1>5. PostInv'
  <2>1. ASSUME NEW p \in Poster
        PROVE  /\ Known(row[p])'
               /\ IF pc'[p] = "post" THEN row'[p] \in Row
                                     ELSE row'[p] = NoRow /\ answer'[p] = NoCode
               /\ answer'[p] \in {200, 202} => StoredAlarm(row[p].alarm)'
    <3>1. CASE p = "loop"
      BY <1>1, <1>2, <1>3, <1>4, <3>1, RingFacts DEF Known, NoRow, NoCode, IInv
    <3>2. CASE p # "loop"
      BY <1>2, <1>3, <1>4, <3>2 DEF Known, IInv, PostInv, StoredAlarm
    <3> QED BY <3>1, <3>2
  <2> QED BY <1>1, <1>2, <1>4, <2>1 DEF PostInv, Known, IInv
<1>6. ring' \in Seq(Row) /\ Len(ring') = Len(ring) /\ RingInv'
  <2>1. CASE ring' = ring
    BY <1>2, <2>1, RingStays DEF IInv, TypeOK
  <2>2. CASE Confirms(answer["loop"]) /\ Mark(row["loop"].alarm)
    <3>1. StoredAlarm(row["loop"].alarm)
      BY <1>2, <2>2 DEF Confirms, IInv, PostInv
    <3> QED BY <1>2, <2>2, <3>1, MarkRow
  <2> QED BY <2>1, <2>2 DEF ForwardPass, LoopReturns
<1>7. TypeOK'
  BY <1>1, <1>2, <1>3, <1>4, <1>6 DEF IInv, TypeOK, bounds
<1> QED BY <1>5, <1>6, <1>7 DEF IInv

\* RestoreCounter finds the count of the alarms received again.
LEMMA CrashInv == ASSUME IInv, Crash PROVE IInv'
<1>1. counter' = received
  <2> DEFINE numbers == {counter} \cup {ring[i].number : i \in DOMAIN ring}
  <2>1. counter = received /\ counter \in numbers
    BY DEF IInv, RingInv
  <2>2. \A k \in numbers : k \in Nat /\ k <= counter
    BY RingFacts DEF IInv, RingInv, Row
  <2>3. counter' \in numbers /\ \A k \in numbers : k <= counter'
    BY <2>1, <2>2 DEF Crash, RestoreCounter
  <2> HIDE DEF numbers
  <2> QED BY <2>1, <2>2, <2>3
<1>2. /\ UNCHANGED <<ring, regex, received, stored>>
      /\ pc' = [p \in Poster |-> "idle"] /\ row' = [p \in Poster |-> NoRow]
      /\ answer' = [p \in Poster |-> NoCode] /\ pending' = {}
      /\ crashes' \in 0..MaxCrashes /\ syncs' \in 0..MaxSyncs
      /\ received \in Nat /\ "rx" \in Poster
  BY RingFacts, AlarmAssumption DEF Crash, IInv, TypeOK, Poster
<1>3. RingInv'
  BY <1>1, <1>2 DEF IInv, RingInv, StoredAlarm
<1>4. PostInv'
  BY <1>2 DEF IInv, PostInv, Known, NoRow, NoCode
<1>6. TypeOK'
  BY <1>1, <1>2 DEF IInv, TypeOK, PostInv, Row
<1> QED BY <1>3, <1>4, <1>6 DEF IInv

\* Every step keeps the invariant.
LEMMA NextInv == IInv /\ [Next]_vars => IInv'
<1> SUFFICES ASSUME IInv, [Next]_vars PROVE IInv'
  OBVIOUS
<1>1. CASE ConfigSync
  <2>1. /\ UNCHANGED <<ring, counter, pc, row, answer, pending, received, stored, crashes>>
        /\ regex' \in RegexSets /\ syncs' \in 0..MaxSyncs
    BY <1>1, AlarmAssumption DEF ConfigSync, IInv, TypeOK
  <2> QED BY <2>1 DEF IInv, TypeOK, RingInv, PostInv, Known, StoredAlarm
<1>2. CASE UNCHANGED vars
  BY <1>2 DEF vars, bounds, IInv, TypeOK, RingInv, PostInv, Known, StoredAlarm
<1> QED BY <1>1, <1>2, ReceiveInv, RxInv, LoopInv, CloudInv, CrashInv DEF Next

\* The invariant holds always.
LEMMA Inductive == Spec => []IInv
  BY InitInv, NextInv, PTL DEF Spec

-----------------------------------------------------------------------------

\* Every variable keeps its type, and the ring its size.
THEOREM TypeCorrect == Spec => []TypeOK
  BY Inductive, PTL DEF IInv

\* No refusal, lost answer, double posting or restart loses an alarm: it is
\* still to be sent, at the cloud, or displaced by RING_MAX newer ones.
THEOREM NoneSwallowed == Spec => []NothingSwallowed
<1>1. IInv => NothingSwallowed
  <2> SUFFICES ASSUME IInv, NEW a \in 1..received, received - a < RingMax, ~StoredAlarm(a)
               PROVE  \E i \in DOMAIN ring : ring[i].alarm = a /\ ~ring[i].forwarded
    BY RingFacts, AlarmAssumption DEF NothingSwallowed, IInv
  <2> DEFINE i == a - (received - Len(ring))
  <2>1. i \in 1..Len(ring)
    BY RingFacts, AlarmAssumption DEF IInv, RingInv
  <2>2. ring[i].alarm = a
    BY <2>1, RingFacts DEF IInv, RingInv
  <2> QED BY <2>1, <2>2, RingFacts DEF IInv, RingInv
<1> QED BY <1>1, Inductive, PTL

\* No two alarms the cloud stored share a number.
THEOREM NumbersAreIdentities == Spec => []NumbersIdentify
<1>1. IInv => NumbersIdentify
  BY DEF IInv, PostInv, NumbersIdentify
<1> QED BY <1>1, Inductive, PTL

-----------------------------------------------------------------------------
(* AlarmForwarding implements AlarmLedger.                                 *)

Arrived == {s[2] : s \in stored}

\* What is owed, row by row.
LEMMA OwedFacts ==
    ASSUME RingInv, ring \in Seq(Row), received \in Nat, NEW a
    PROVE  a \in Owed <=> \E i \in 1..Len(ring) : /\ a = received - Len(ring) + i
                                                  /\ ~ring[i].forwarded
<1>1. DOMAIN ring = 1..Len(ring)
  OBVIOUS
<1>2. \A i \in 1..Len(ring) : ring[i].alarm = received - Len(ring) + i
  BY DEF RingInv
<1> QED BY <1>1, <1>2 DEF Owed

\* A new alarm is owed, and displaces the one that is RING_MAX older.
LEMMA ReceiveLedger ==
    ASSUME IInv, IInv', Receive
    PROVE  Ledger!Receive
<1> DEFINE new == [alarm |-> received + 1, number |-> Number, forwarded |-> FALSE]
           n == Len(ring)
           m == Len(ring')
<1>1. /\ new \in Row /\ ~new.forwarded /\ received' = received + 1
      /\ ring' = Evict(Append(ring, new)) /\ stored' = stored
      /\ received \in Nat /\ n \in Nat /\ n <= RingMax
      /\ ring \in Seq(Row) /\ ring' \in Seq(Row)
  BY RingFacts, AlarmAssumption
  DEF Receive, AddRawAlarm, Number, Row, Alarm, IInv, TypeOK
<1> HIDE DEF new
<1>2. /\ m = IF n < RingMax THEN n + 1 ELSE RingMax
      /\ \A i \in 1..m : ring'[i] = IF i = m THEN new ELSE ring[n + 1 - m + i]
  <2>1. TypeOK
    BY DEF IInv
  <2>2. \A s : s = Evict(Append(ring, new)) =>
            /\ Len(s) = IF n < RingMax THEN n + 1 ELSE RingMax
            /\ \A i \in 1..Len(s) : s[i] = IF i = Len(s) THEN new ELSE ring[n + 1 - Len(s) + i]
    BY <1>1, <2>1, AddRow
  <2> QED BY <1>1, <2>2
<1>3. \A a : a \in Owed <=> \E i \in 1..n : a = received - n + i /\ ~ring[i].forwarded
  BY <1>1, OwedFacts DEF IInv
<1>4. \A a : a \in Owed' <=> \E i \in 1..m : a = received' - m + i /\ ~ring'[i].forwarded
  <2>1. DOMAIN ring' = 1..m
    BY <1>1
  <2>2. \A i \in 1..m : ring'[i].alarm = received' - m + i
    BY DEF IInv, RingInv
  <2> QED BY <2>1, <2>2 DEF Owed
<1> HIDE DEF n, m
<1>5. m \in Nat /\ m >= 1 /\ m <= n + 1 /\ m <= RingMax /\ (m = n + 1 \/ m = RingMax)
  BY <1>1, <1>2, AlarmAssumption
<1>6. ASSUME NEW a \in Owed' PROVE a \in Owed \cup {received'} /\ received' - a < RingMax
  <2>1. PICK i \in 1..m : a = received' - m + i /\ ~ring'[i].forwarded
    BY <1>4
  <2>2. received' - a < RingMax
    <3>1. PICK r \in Nat, l \in Nat : r = received' /\ l = m
      BY <1>1, <1>5
    <3>2. a = r - l + i /\ i >= 1 /\ i \in Nat /\ l <= RingMax /\ RingMax \in Nat
      BY <1>5, <2>1, <3>1, AlarmAssumption
    <3>3. r - a < RingMax
      BY <3>2
    <3> QED BY <3>1, <3>3
  <2>3. CASE i = m
    BY <1>1, <1>5, <2>1, <2>2, <2>3
  <2>4. CASE i # m
    <3>1. n + 1 - m + i \in 1..n /\ a = received - n + (n + 1 - m + i)
      BY <1>1, <1>5, <2>1, <2>4
    <3>2. ~ring[n + 1 - m + i].forwarded
      BY <1>2, <2>1, <2>4
    <3>3. a \in Owed
      BY <1>3, <3>1, <3>2
    <3> QED BY <2>2, <3>3
  <2> QED BY <2>3, <2>4
<1>7. ASSUME NEW a \in Owed \cup {received'}, received' - a < RingMax PROVE a \in Owed'
  <2>1. CASE a = received'
    <3>1. m \in 1..m /\ a = received' - m + m
      BY <1>1, <1>5, <2>1
    <3>2. ~ring'[m].forwarded
      BY <1>1, <1>2, <3>1
    <3> QED BY <1>4, <3>1, <3>2
  <2>2. CASE a \in Owed
    <3>1. PICK i \in 1..n : a = received - n + i /\ ~ring[i].forwarded
      BY <1>3, <2>2
    <3> DEFINE k == i - (n + 1 - m)
    <3>2. k \in 1..m /\ k # m /\ n + 1 - m + k = i /\ a = received' - m + k
      BY <1>1, <1>5, <1>7, <3>1, AlarmAssumption
    <3> HIDE DEF k
    <3>3. ~ring'[k].forwarded
      BY <1>2, <3>1, <3>2
    <3> QED BY <1>4, <3>2, <3>3
  <2> QED BY <2>1, <2>2
<1>8. Owed' = {a \in Owed \cup {received'} : received' - a < RingMax}
  BY <1>6, <1>7
<1> QED BY <1>1, <1>8 DEF Ledger!Receive

\* A mark settles one alarm, or nothing if its row is gone or marked already.
LEMMA MarkLedger ==
    ASSUME IInv, NEW p \in Poster, pc[p] = "post", Confirms(answer[p]),
           Mark(row[p].alarm), UNCHANGED <<received, stored>>
    PROVE  \E a \in 1..received : Ledger!Settle(a)
<1> DEFINE a == row[p].alarm
<1>1. a \in 1..received /\ StoredAlarm(a)
  BY RingFacts, AlarmAssumption DEF IInv, PostInv, Known, Row, Alarm, Confirms
<1>2. /\ DOMAIN ring = 1..Len(ring) /\ \A i \in 1..Len(ring) : ring[i] \in Row
  BY RingFacts DEF IInv
<1> HIDE DEF a
<1>3. /\ DOMAIN ring' = 1..Len(ring)
      /\ \A i \in 1..Len(ring) :
            /\ ring'[i].alarm = ring[i].alarm
            /\ ring'[i].forwarded <=> (ring[i].forwarded \/ ring[i].alarm = a)
  BY <1>2 DEF Mark, Row, a
<1>4. Owed' = Owed \ {a}
  BY <1>2, <1>3 DEF Owed
<1>5. a \in Arrived
  BY <1>1 DEF StoredAlarm, Arrived
<1> QED BY <1>1, <1>4, <1>5 DEF Ledger!Settle, Arrived

\* The cloud stores an alarm it was posted.
LEMMA AcceptLedger ==
    ASSUME IInv, NEW p \in Poster, NEW a \in Alarm, CloudAccepts(p, a)
    PROVE  Ledger!Arrive(a) /\ a \in 1..received
<1>1. a \in 1..received
  BY RingFacts, AlarmAssumption DEF CloudAccepts, IInv, PostInv, Known, Row, Alarm
<1>2. stored' = stored \cup {<<row[p].number, a>>} /\ UNCHANGED <<ring, received>>
  BY DEF CloudAccepts
<1>3. {s[2] : s \in stored'} = {s[2] : s \in stored} \cup {a}
  <2> DEFINE new == <<row[p].number, a>>
  <2>1. new[2] = a /\ stored' = stored \cup {new}
    BY <1>2
  <2> HIDE DEF new
  <2> QED BY <2>1
<1> QED BY <1>1, <1>2, <1>3 DEF Ledger!Arrive, Owed

\* Whatever the ring, two posting tasks, refusals, lost answers and restarts do
\* is a step of AlarmLedger or none: an alarm is given up only because it has
\* arrived or newer ones have displaced it, and never comes back.
THEOREM Refinement == Spec => ImplementsLedger
<1> DEFINE view == <<received, Owed, Arrived>>
<1>1. Init => Ledger!LedgerInit
  BY DEF Init, Ledger!LedgerInit, Owed
<1>2. ASSUME IInv, IInv', [Next]_vars
      PROVE  Ledger!LedgerNext \/ UNCHANGED view
  <2>1. CASE Receive
    BY <1>2, <2>1, ReceiveLedger DEF Ledger!LedgerNext
  <2>2. CASE RxDelivered
    <3>1. \E a \in 1..received : Ledger!Settle(a)
      BY <1>2, <2>2, MarkLedger DEF RxDelivered, Poster
    <3> QED BY <3>1 DEF Ledger!LedgerNext
  <2>3. CASE LoopReturns
    <3>1. UNCHANGED <<received, stored>> /\ pc["loop"] = "post" /\ "loop" \in Poster
      BY <2>3 DEF LoopReturns, Poster
    <3>2. CASE ring' = ring
      BY <3>1, <3>2 DEF Owed, Arrived
    <3>3. CASE Confirms(answer["loop"]) /\ Mark(row["loop"].alarm)
      <4>1. \E a \in 1..received : Ledger!Settle(a)
        BY <1>2, <3>1, <3>3, MarkLedger
      <4> QED BY <4>1 DEF Ledger!LedgerNext
    <3> QED BY <2>3, <3>2, <3>3 DEF LoopReturns
  <2>4. ASSUME NEW p \in Poster, NEW a \in Alarm, CloudAccepts(p, a)
        PROVE  Ledger!LedgerNext
    BY <1>2, <2>4, AcceptLedger DEF Ledger!LedgerNext
  <2>5. CASE UNCHANGED <<ring, received, stored>>
    BY <2>5 DEF Owed, Arrived
  <2> QED BY <1>2, <2>1, <2>2, <2>3, <2>4, <2>5
          DEF Next, vars, RxFailed, NoticeSent, ForwardPass, CloudRefuses, ConfigSync, Crash
<1> QED BY <1>1, <1>2, Inductive, PTL
        DEF Spec, ImplementsLedger, Ledger!LedgerSpec, Arrived

=============================================================================
