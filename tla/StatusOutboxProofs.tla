--------------------------- MODULE StatusOutboxProofs ---------------------------
(***************************************************************************)
(* Theorems about StatusOutbox, for any number of jobs, any mixture of     *)
(* clouds and any number of lost connections and restarts: what may leave  *)
(* the outbox.  They rest on two facts: a send counts as a confirmation    *)
(* only towards a cloud that sends no ACK, and an ACK on its way is about  *)
(* a message some cloud has processed.                                     *)
(***************************************************************************)
EXTENDS StatusOutbox, SequenceTheorems, TLAPS

\* The frames a cloud sends.
Frame == {Config} \cup {Ack(msg) : msg \in Message}

\* What an acknowledgement is about.
About(f) == [job |-> f.job, status |-> f.status]

AckInv ==
    /\ ~ackMode => cloud = "old"
    /\ back \in Seq(Frame)
    /\ \A i \in 1..Len(back) : back[i].type = "job_status_ack" => About(back[i]) \in processed

\* A canceller owes a report about a job that ended.
OwedInv == \A o \in owed : status[o[2]] = "done"

IInv == TypeOK /\ AckInv /\ OwedInv

\* The messages of a read of the outbox, and the frames, have their types.
LEMMA Messages ==
    ASSUME TypeOK
    PROVE  Snapshot \subseteq Message
  BY DEF Snapshot, Resends, TypeOK, Message

\* An acknowledgement names exactly what it is about.
LEMMA AckFacts ==
    ASSUME NEW msg \in Message
    PROVE  /\ Ack(msg) \in Frame /\ About(Ack(msg)) = msg
           /\ Ack(msg).type = "job_status_ack"
  BY DEF Ack, About, Frame, Message

\* No message is the absence of one.
LEMMA FrameFacts ==
    /\ Config \in Frame /\ Config.type = "config_sync"
    /\ \A f \in Frame : f = Config \/ \E msg \in Message : f = Ack(msg)
    /\ \A msg \in Message : msg # None /\ msg.job \in Job /\ msg.status \in Status
  BY DEF Frame, Config, Message, None, Job, Status

\* The invariant holds when the gateway starts.
LEMMA InitInv == Init => IInv
  BY OutboxAssumption
  DEF Init, IInv, TypeOK, AckInv, OwedInv, Job, Status, Task, Resender, Message, None, Frame

\* Reporting keeps the types.
LEMMA ReportTypes ==
    ASSUME TypeOK, NEW t \in Task, NEW msg \in Message, Report(t, msg)
    PROVE  wire' \in Seq(Message) /\ sending' \in [Task -> Message \cup {None}]
<1>1. wire \in Seq(Message) /\ sending \in [Task -> Message \cup {None}]
  BY DEF TypeOK
<1>2. \/ wire' = Append(wire, msg) /\ sending' = [sending EXCEPT ![t] = msg]
      \/ UNCHANGED <<wire, sending>>
  BY DEF Report
<1> QED BY <1>1, <1>2

\* Sending the first of several messages keeps the types.
LEMMA SendFirstTypes ==
    ASSUME TypeOK, NEW t \in Resender, NEW list \in SUBSET Message, SendFirst(t, list)
    PROVE  /\ wire' \in Seq(Message) /\ sending' \in [Task -> Message \cup {None}]
           /\ todo' \in [Resender -> SUBSET Message]
<1>1. t \in Task
  BY DEF Task, Resender
<1>2. CASE UNCHANGED <<wire, sending>> /\ todo' = [todo EXCEPT ![t] = {}]
  BY <1>2 DEF TypeOK
<1>3. CASE \E msg \in list : todo' = [todo EXCEPT ![t] = list \ {msg}] /\ Report(t, msg)
  <2>1. PICK msg \in list : todo' = [todo EXCEPT ![t] = list \ {msg}] /\ Report(t, msg)
    BY <1>3
  <2> QED BY <1>1, <2>1, ReportTypes DEF TypeOK
<1> QED BY <1>2, <1>3 DEF SendFirst

\* mark_status_reported changes an entry only to what the row shows.
LEMMA MarkFacts ==
    ASSUME TypeOK, NEW msg, Mark(msg), msg.status \in Status
    PROVE  /\ reported' \in [Job -> Status \cup {"none"}]
           /\ \A j \in Job : reported'[j] # reported[j]
                 => j = msg.job /\ reported'[j] = msg.status /\ msg.status = status[j]
  BY DEF Mark, TypeOK

\* Frames that are forgotten, from the front or the back, leave the rest true.
LEMMA FewerFrames ==
    ASSUME IInv
    PROVE  /\ back # <<>> => /\ Tail(back) \in Seq(Frame)
                             /\ \A i \in 1..Len(Tail(back)) : Tail(back)[i] = back[i + 1] /\ i + 1 \in 1..Len(back)
           /\ \A k \in 0..Len(back) :
                 /\ SubSeq(back, 1, k) \in Seq(Frame) /\ Len(SubSeq(back, 1, k)) = k
                 /\ \A i \in 1..k : SubSeq(back, 1, k)[i] = back[i] /\ i \in 1..Len(back)
<1>1. back \in Seq(Frame) /\ Len(back) \in Nat /\ \A i \in 1..Len(back) : back[i] \in Frame
  BY DEF IInv, AckInv
<1>2. ASSUME NEW k \in 0..Len(back)
      PROVE  /\ SubSeq(back, 1, k) \in Seq(Frame) /\ Len(SubSeq(back, 1, k)) = k
             /\ \A i \in 1..k : SubSeq(back, 1, k)[i] = back[i] /\ i \in 1..Len(back)
  <2>1. /\ k \in Int /\ 1 \in Int /\ (IF 1 <= k THEN k - 1 + 1 ELSE 0) = k
        /\ \A i \in 1..k : back[i] \in Frame /\ i \in 1..Len(back) /\ 1 + i - 1 = i
        /\ k - 1 + 1 = k
    BY <1>1
  <2> QED BY <2>1, SubSeqProperties
<1>3. CASE back # <<>>
  BY <1>1, <1>3
<1> QED BY <1>2, <1>3

-----------------------------------------------------------------------------

\* What is left of the frames on their way, while the clouds learn more.
LEMMA AckInvKept ==
    ASSUME IInv, back' \in Seq(Frame), processed \subseteq processed',
           ~ackMode' => cloud' = "old",
           \A i \in 1..Len(back') : \/ \E k \in 1..Len(back) : back'[i] = back[k]
                                    \/ back'[i].type # "job_status_ack"
                                    \/ About(back'[i]) \in processed'
    PROVE  AckInv'
  BY DEF IInv, AckInv, About

\* TypeOK says of the frames no more than their sequence does.
LEMMA TypesOfFrames ==
    ASSUME NEW s \in Seq(Frame)
    PROVE  \A i \in DOMAIN s : s[i] = Config \/ \E msg \in Message : s[i] = Ack(msg)
  BY DEF Frame

\* What the print manager and a cancel do to one job.
JobStep(j) == \/ RowMoves(j) \/ PollUnclear(j) \/ PollPrinting(j)
              \/ ReportsAgain(j) \/ \E t \in Canceller : Cancels(t, j) \/ CancelReports(t, j)

\* They report at most one status of it, and "printing" only once it is clear.
LEMMA JobSteps ==
    ASSUME TypeOK, OwedInv, NEW j \in Job, JobStep(j)
    PROVE  \/ UNCHANGED <<wire, sending>>
           \/ \E t \in Task, s \in Status \ {"pending"} :
                 /\ Report(t, [job |-> j, status |-> s])
                 /\ s = "printing" => ~unclear'[j]
<1>0. "print" \in Task /\ Canceller \subseteq Task /\ Terminal \subseteq Status \ {"pending"}
  BY DEF Task, Canceller, Terminal, Status
<1>1. CASE RowMoves(j)
  <2>1. PICK s \in Status : /\ <<status[j], s>> \in Moves
                            /\ Report("print", [job |-> j, status |-> s])
    BY <1>1 DEF RowMoves
  <2>2. s # "pending" /\ ~unclear'[j]
    BY <1>1, <2>1 DEF RowMoves, Moves, TypeOK
  <2> QED BY <1>0, <2>1, <2>2
<1>2. CASE PollPrinting(j)
  <2>1. Report("print", [job |-> j, status |-> "printing"]) /\ ~unclear'[j]
    BY <1>2 DEF PollPrinting, TypeOK
  <2>2. "printing" \in Status \ {"pending"}
    BY DEF Status
  <2> QED BY <1>0, <2>1, <2>2
<1>3. ASSUME NEW t \in Canceller, CancelReports(t, j)
      PROVE  Report(t, [job |-> j, status |-> "done"])
  <2>1. <<t, j>>[2] = j
    OBVIOUS
  <2> QED BY <1>3, <2>1 DEF CancelReports, OwedInv
<1>4. ASSUME NEW t \in Canceller, Cancels(t, j)
      PROVE  UNCHANGED <<wire, sending>> \/ Report(t, [job |-> j, status |-> "failed"])
  BY <1>4 DEF Cancels
<1>5. CASE ReportsAgain(j)
  <2>1. Report("print", [job |-> j, status |-> "failed"])
    BY <1>5 DEF ReportsAgain
  <2> QED BY <1>0, <2>1 DEF Status
<1>6. CASE PollUnclear(j)
  BY <1>6 DEF PollUnclear
<1>7. \A s \in Terminal : s # "printing"
  BY DEF Terminal
<1>8. "done" \in Terminal /\ "failed" \in Terminal
  BY DEF Terminal
<1> QED BY <1>0, <1>1, <1>2, <1>3, <1>4, <1>5, <1>6, <1>7, <1>8 DEF JobStep

\* Rows and sends: nothing of the connection changes.
LEMMA TaskInv ==
    ASSUME IInv, UNCHANGED net,
           \/ \E t \in Task : SendReturns(t)
           \/ \E t \in Resender : NextResend(t)
           \/ \E j \in Job : JobStep(j)
           \/ LoopResends
    PROVE  IInv'
<1>0. AckInv'
  BY DEF IInv, AckInv, net, About
<1>1. CASE \E t \in Task : SendReturns(t)
  <2>1. PICK t \in Task : SendReturns(t)
    BY <1>1
  <2>2. sending[t] \in Message
    BY <2>1 DEF SendReturns, IInv, TypeOK
  <2>3. reported' \in [Job -> Status \cup {"none"}]
    <3>1. CASE ackMode
      BY <2>1, <3>1 DEF SendReturns, IInv, TypeOK
    <3>2. CASE ~ackMode
      BY <2>1, <2>2, <3>2, MarkFacts, FrameFacts DEF SendReturns, IInv
    <3> QED BY <3>1, <3>2
  <2>4. sending' \in [Task -> Message \cup {None}]
    BY <2>1 DEF SendReturns, IInv, TypeOK
  <2> QED BY <1>0, <2>1, <2>3, <2>4 DEF SendReturns, IInv, TypeOK, OwedInv, row, net
<1>2. CASE \E t \in Resender : NextResend(t)
  <2>1. PICK t \in Resender : NextResend(t)
    BY <1>2
  <2>2. todo[t] \in SUBSET Message
    BY DEF IInv, TypeOK
  <2>3. /\ wire' \in Seq(Message) /\ sending' \in [Task -> Message \cup {None}]
        /\ todo' \in [Resender -> SUBSET Message]
    BY <2>1, <2>2, SendFirstTypes DEF NextResend, IInv
  <2> QED BY <1>0, <2>1, <2>3 DEF NextResend, IInv, TypeOK, OwedInv, row, net
<1>3. CASE LoopResends
  <2>1. /\ wire' \in Seq(Message) /\ sending' \in [Task -> Message \cup {None}]
        /\ todo' \in [Resender -> SUBSET Message]
    BY <1>3, SendFirstTypes, Messages DEF LoopResends, IInv, Resender
  <2> QED BY <1>0, <1>3, <2>1 DEF LoopResends, IInv, TypeOK, OwedInv, row, net
<1>4. CASE \E j \in Job : JobStep(j)
  <2>1. PICK j \in Job : JobStep(j)
    BY <1>4
  <2>2. wire' \in Seq(Message) /\ sending' \in [Task -> Message \cup {None}]
    <3>1. CASE UNCHANGED <<wire, sending>>
      BY <3>1 DEF IInv, TypeOK
    <3>2. ASSUME NEW t \in Task, NEW s \in Status \ {"pending"}, Report(t, [job |-> j, status |-> s])
          PROVE  wire' \in Seq(Message) /\ sending' \in [Task -> Message \cup {None}]
      <4>1. [job |-> j, status |-> s] \in Message
        BY DEF Message
      <4> QED BY <3>2, <4>1, ReportTypes DEF IInv
    <3> QED BY <2>1, <3>1, <3>2, JobSteps DEF IInv, OwedInv
  <2>3. /\ status' \in [Job -> Status] /\ owed' \subseteq Canceller \X Job /\ unclear' \in [Job -> BOOLEAN]
        /\ UNCHANGED <<reported, todo>>
    <3>1. owed' \subseteq Canceller \X Job
      <4>1. ASSUME NEW t \in Canceller, Cancels(t, j) \/ CancelReports(t, j)
            PROVE  owed' \subseteq owed \cup {<<t, j>>}
        BY <4>1 DEF Cancels, CancelReports
      <4>2. CASE owed' = owed
        BY <4>2 DEF IInv, TypeOK
      <4> QED BY <2>1, <4>1, <4>2
              DEF JobStep, RowMoves, ReportsAgain, PollUnclear, PollPrinting, row, IInv, TypeOK
    <3>2. CASE UNCHANGED <<status, unclear, reported, todo>>
      BY <3>1, <3>2 DEF IInv, TypeOK
    <3>3. ASSUME NEW t \in Canceller, Cancels(t, j)
          PROVE  /\ status' \in [Job -> Status] /\ unclear' \in [Job -> BOOLEAN]
                 /\ UNCHANGED <<reported, todo>>
      BY <3>3 DEF Cancels, IInv, TypeOK, Status
    <3>4. CASE RowMoves(j) \/ PollUnclear(j) \/ PollPrinting(j)
      BY <3>1, <3>4 DEF RowMoves, PollUnclear, PollPrinting, IInv, TypeOK
    <3>5. ASSUME ReportsAgain(j) \/ \E t \in Canceller : CancelReports(t, j)
          PROVE  UNCHANGED <<status, unclear, reported, todo>>
      BY <3>5 DEF ReportsAgain, CancelReports, row
    <3> QED BY <2>1, <3>1, <3>2, <3>3, <3>4, <3>5 DEF JobStep
  <2>4. OwedInv'
    <3>1. CASE RowMoves(j)
      <4>1. PICK s \in Status : <<status[j], s>> \in Moves /\ status' = [status EXCEPT ![j] = s]
        BY <3>1 DEF RowMoves
      <4>2. status[j] # "done"
        BY <4>1 DEF Moves
      <4> QED BY <3>1, <4>1, <4>2 DEF RowMoves, IInv, OwedInv, TypeOK
    <3>2. ASSUME NEW t \in Canceller, Cancels(t, j)
          PROVE  OwedInv'
      <4>1. /\ owed' \subseteq owed \cup {<<t, j>>}
            /\ \A k \in Job : status'[k] = status[k] \/ (k = j /\ status[j] # "done")
            /\ <<t, j>> \in owed' => <<t, j>> \in owed \/ status'[j] = "done"
        BY <3>2 DEF Cancels, IInv, TypeOK
      <4>2. /\ \A o \in owed : o[2] \in Job /\ status[o[2]] = "done"
            /\ <<t, j>>[2] = j
        BY DEF IInv, OwedInv, TypeOK
      <4> QED BY <4>1, <4>2 DEF OwedInv
    <3>3. CASE owed' \subseteq owed /\ status' = status
      BY <3>3 DEF IInv, OwedInv
    <3> QED BY <2>1, <3>1, <3>2, <3>3
            DEF JobStep, CancelReports, ReportsAgain, PollUnclear, PollPrinting, row
  <2> QED BY <1>0, <2>2, <2>3, <2>4 DEF IInv, TypeOK, net
<1> QED BY <1>1, <1>2, <1>3, <1>4

\* The reader handles a frame.
LEMMA ReaderInv ==
    ASSUME IInv, OnConfigSync \/ OnJobStatusAck
    PROVE  IInv'
<1>1. /\ back # <<>> /\ back' = Tail(back) /\ back' \in Seq(Frame) /\ Head(back) \in Frame
      /\ \A i \in 1..Len(back') : back'[i] = back[i + 1] /\ i + 1 \in 1..Len(back)
      /\ UNCHANGED <<row, link, cloud, processed, drops>>
  BY FewerFrames DEF OnConfigSync, OnJobStatusAck, IInv, AckInv
<1>2. ackMode' \in BOOLEAN /\ (~ackMode' => cloud' = "old")
  BY <1>1, OutboxAssumption DEF OnConfigSync, OnJobStatusAck, IInv, AckInv, TypeOK
<1>3. AckInv'
  BY <1>1, <1>2, AckInvKept
<1>4. /\ wire' \in Seq(Message) /\ sending' \in [Task -> Message \cup {None}]
      /\ todo' \in [Resender -> SUBSET Message]
      /\ reported' \in [Job -> Status \cup {"none"}]
      /\ syncing' \in {"no", "apply", "stuck", "report"}
  <2>1. CASE OnConfigSync
    BY <2>1, FrameFacts DEF OnConfigSync, IInv, TypeOK
  <2>2. CASE OnJobStatusAck
    <3>1. Head(back).status \in Status /\ Mark(Head(back))
      <4>1. Head(back) # Config
        BY <2>2, FrameFacts DEF OnJobStatusAck
      <4>2. PICK msg \in Message : Head(back) = Ack(msg)
        BY <1>1, <4>1, FrameFacts
      <4> QED BY <2>2, <4>2, FrameFacts DEF Ack, OnJobStatusAck
    <3>2. reported' \in [Job -> Status \cup {"none"}]
      BY <3>1, MarkFacts DEF IInv
    <3> QED BY <2>2, <3>2 DEF OnJobStatusAck, IInv, TypeOK
  <2> QED BY <2>1, <2>2
<1>5. TypeOK'
  BY <1>1, <1>2, <1>4, TypesOfFrames DEF IInv, TypeOK, row
<1> QED BY <1>1, <1>3, <1>5 DEF IInv, OwedInv, row

\* The handler of config_sync goes on.
LEMMA SyncInv ==
    ASSUME IInv, Applied \/ SyncEnds
    PROVE  IInv'
<1>1. /\ UNCHANGED <<row, reported, link, cloud, ackMode, back, processed, drops>>
      /\ syncing' \in {"no", "apply", "stuck", "report"}
  BY DEF Applied, SyncEnds
<1>2. /\ wire' \in Seq(Message) /\ sending' \in [Task -> Message \cup {None}]
      /\ todo' \in [Resender -> SUBSET Message]
  <2>1. CASE Applied
    BY <2>1, SendFirstTypes, Messages DEF Applied, IInv, Resender
  <2>2. CASE SyncEnds
    BY <2>2 DEF SyncEnds, IInv, TypeOK
  <2> QED BY <2>1, <2>2
<1>3. AckInv'
  BY <1>1 DEF IInv, AckInv, About
<1> QED BY <1>1, <1>2, <1>3 DEF IInv, TypeOK, OwedInv, row

\* A new connection begins with nothing on it, and confirms nothing yet.
LEMMA ConnectInv ==
    ASSUME IInv, Connect
    PROVE  IInv'
<1>1. /\ back' = <<Config>> /\ wire' = <<>> /\ link' = "up" /\ cloud' \in Clouds /\ ackMode' = TRUE
      /\ UNCHANGED <<row, reported, todo, sending, syncing, processed, drops>>
  BY DEF Connect, ResetAckMode
<1>2. back' \in Seq(Frame) /\ Len(back') = 1 /\ back'[1] = Config
  BY <1>1, FrameFacts
<1>3. AckInv'
  BY <1>1, <1>2, FrameFacts, AckInvKept
<1>4. TypeOK'
  BY <1>1, <1>2, TypesOfFrames DEF IInv, TypeOK, row
<1> QED BY <1>1, <1>3, <1>4 DEF IInv, OwedInv, row

\* A connection is lost, or the process dies.
LEMMA LossInv ==
    ASSUME IInv, ConnectionLost \/ ReaderEnds \/ Crash
    PROVE  IInv'
<1>1. /\ back' \in Seq(Frame)
      /\ \A i \in 1..Len(back') : \E k \in 1..Len(back) : back'[i] = back[k]
  <2>1. CASE ConnectionLost
    <3>1. PICK k \in 0..Len(back) : back' = SubSeq(back, 1, k)
      BY <2>1 DEF ConnectionLost
    <3> QED BY <3>1, FewerFrames
  <2>2. CASE ReaderEnds
    BY <2>2 DEF ReaderEnds, IInv, AckInv
  <2>3. CASE Crash
    <3>1. back' = <<>>
      BY <2>3 DEF Crash
    <3>2. back' \in Seq(Frame) /\ Len(back') = 0
      BY <3>1
    <3> QED BY <3>2
  <2> QED BY <2>1, <2>2, <2>3
<1>2. /\ wire' \in Seq(Message) /\ sending' \in [Task -> Message \cup {None}]
      /\ todo' \in [Resender -> SUBSET Message]
      /\ link' \in {"down", "up", "closing"} /\ cloud' = cloud /\ processed' = processed
      /\ reported' = reported /\ ackMode' \in BOOLEAN /\ drops' \in 0..MaxDrops
      /\ ~ackMode' => ~ackMode
      /\ syncing' \in {"no", "apply", "stuck", "report"}
  <2>1. CASE ConnectionLost
    <3>1. PICK failed \in SUBSET Task :
            sending' = [t \in Task |-> IF t \in failed THEN None ELSE sending[t]]
      BY <2>1 DEF ConnectionLost
    <3>2. sending' \in [Task -> Message \cup {None}]
      BY <3>1 DEF IInv, TypeOK
    <3>3. drops' \in 0..MaxDrops
      BY <2>1, OutboxAssumption DEF ConnectionLost, IInv, TypeOK
    <3> QED BY <2>1, <3>2, <3>3 DEF ConnectionLost, IInv, TypeOK
  <2>2. CASE ReaderEnds
    BY <2>2 DEF ReaderEnds, IInv, TypeOK
  <2>3. CASE Crash
    <3>1. drops' \in 0..MaxDrops
      BY <2>3, OutboxAssumption DEF Crash, IInv, TypeOK
    <3>2. /\ todo' \in [Resender -> SUBSET Message] /\ sending' \in [Task -> Message \cup {None}]
          /\ wire' \in Seq(Message)
      BY <2>3 DEF Crash
    <3> QED BY <2>3, <3>1, <3>2 DEF Crash, IInv, TypeOK
  <2> QED BY <2>1, <2>2, <2>3
<1>3. AckInv'
  BY <1>1, <1>2, AckInvKept DEF IInv, AckInv
<1>4. /\ status' \in [Job -> Status] /\ owed' \subseteq Canceller \X Job /\ unclear' \in [Job -> BOOLEAN]
      /\ OwedInv'
  <2>1. CASE UNCHANGED row
    BY <2>1 DEF row, IInv, TypeOK, OwedInv
  <2>2. CASE Crash
    BY <2>2 DEF Crash, Recovery, IInv, TypeOK, OwedInv, Status
  <2> QED BY <2>1, <2>2 DEF ConnectionLost, ReaderEnds
<1>5. TypeOK'
  BY <1>1, <1>2, <1>4, TypesOfFrames DEF IInv, TypeOK
<1> QED BY <1>3, <1>4, <1>5 DEF IInv

\* The cloud acknowledges what it has processed.
LEMMA CloudInv ==
    ASSUME IInv, CloudProcesses
    PROVE  IInv'
<1>1. PICK msg \in Message :
        /\ wire' \in Seq(Message)
        /\ \/ processed' = processed \cup {msg} /\ back' = Append(back, Ack(msg))
           \/ UNCHANGED <<processed, back>>
        /\ UNCHANGED <<row, reported, todo, sending, syncing, link, cloud, ackMode, drops>>
  <2>1. Head(wire) \in Message /\ Tail(wire) \in Seq(Message)
    BY DEF CloudProcesses, IInv, TypeOK
  <2> QED BY <2>1 DEF CloudProcesses
<1>2. /\ back' \in Seq(Frame)
      /\ \A i \in 1..Len(back') :
            \/ back'[i] = Ack(msg) /\ processed' = processed \cup {msg}
            \/ \E k \in 1..Len(back) : back'[i] = back[k]
  <2>1. back \in Seq(Frame) /\ Ack(msg) \in Frame
    BY AckFacts DEF IInv, AckInv
  <2>2. CASE UNCHANGED <<processed, back>>
    BY <2>1, <2>2
  <2>3. CASE processed' = processed \cup {msg} /\ back' = Append(back, Ack(msg))
    <3> DEFINE frame == Ack(msg)
    <3> HIDE DEF frame
    <3>1. frame \in Frame /\ back' = Append(back, frame)
      BY <2>1, <2>3 DEF frame
    <3>2. /\ back' \in Seq(Frame)
          /\ \A i \in 1..Len(back') :
                \/ back'[i] = frame
                \/ i \in 1..Len(back) /\ back'[i] = back[i]
      BY <2>1, <3>1
    <3> QED BY <2>3, <3>2 DEF frame
  <2> QED BY <1>1, <2>2, <2>3
<1>3. processed' = processed \cup {msg} => About(Ack(msg)) \in processed'
  BY AckFacts
<1>4. AckInv'
  BY <1>1, <1>2, <1>3, AckInvKept DEF IInv, AckInv
<1>5. TypeOK'
  BY <1>1, <1>2, TypesOfFrames DEF IInv, TypeOK, row
<1> QED BY <1>1, <1>4, <1>5 DEF IInv, OwedInv, row

\* Every step keeps the invariant.
LEMMA NextInv == IInv /\ [Next]_vars => IInv'
<1> SUFFICES ASSUME IInv, [Next]_vars PROVE IInv'
  OBVIOUS
<1>1. CASE UNCHANGED vars
  BY <1>1 DEF vars, IInv, TypeOK, AckInv, OwedInv, About
<1>2. CASE \/ \E t \in Task : SendReturns(t)
           \/ \E t \in Resender : NextResend(t)
           \/ \E j \in Job : JobStep(j)
           \/ LoopResends
  <2>1. UNCHANGED net
    BY <1>2 DEF SendReturns, NextResend, JobStep, RowMoves, Cancels, CancelReports, ReportsAgain,
                PollUnclear, PollPrinting, LoopResends, net
  <2> QED BY <1>2, <2>1, TaskInv
<1> QED BY <1>1, <1>2, ReaderInv, SyncInv, ConnectInv, LossInv, CloudInv DEF Next, JobStep

\* The invariant holds always.
LEMMA Inductive == Spec => []IInv
  BY InitInv, NextInv, PTL DEF Spec

-----------------------------------------------------------------------------

\* Every variable keeps its type.
THEOREM TypeCorrect == Spec => []TypeOK
  BY Inductive, PTL DEF IInv

\* Who changes the outbox: a send that counts as a confirmation, or an ACK.
LEMMA WhoConfirms ==
    ASSUME IInv, [Next]_vars, NEW j \in Job, reported'[j] # reported[j]
    PROVE  /\ reported'[j] = status[j]
           /\ cloud = "acking" => [job |-> j, status |-> reported'[j]] \in processed
<1>1. TypeOK
  BY DEF IInv
<1>2. CASE \E t \in Task : SendReturns(t)
  <2>1. PICK t \in Task : SendReturns(t)
    BY <1>2
  <2>2. sending[t] \in Message /\ ~ackMode /\ Mark(sending[t])
    BY <2>1 DEF SendReturns, IInv, TypeOK
  <2>3. sending[t].status \in Status
    BY <2>2, FrameFacts
  <2>4. reported'[j] = sending[t].status /\ sending[t].status = status[j]
    BY <1>1, <2>2, <2>3, MarkFacts
  <2>5. cloud # "acking"
    BY <2>2 DEF IInv, AckInv
  <2> QED BY <2>4, <2>5
<1>3. CASE OnJobStatusAck
  <2>1. back # <<>> /\ Head(back).type = "job_status_ack" /\ Mark(Head(back)) /\ Head(back) \in Frame
    BY <1>3 DEF OnJobStatusAck, IInv, AckInv
  <2>2. PICK msg \in Message : Head(back) = Ack(msg)
    BY <2>1, FrameFacts
  <2>3. About(Head(back)) \in processed
    <3>1. back \in Seq(Frame) /\ 1 \in 1..Len(back) /\ Head(back) = back[1]
      BY <2>1 DEF IInv, AckInv
    <3> QED BY <2>1, <3>1 DEF IInv, AckInv
  <2>4. Head(back).status \in Status
    BY <2>2, FrameFacts DEF Ack
  <2>5. j = Head(back).job /\ reported'[j] = Head(back).status /\ Head(back).status = status[j]
    BY <1>1, <2>1, <2>4, MarkFacts
  <2> QED BY <2>3, <2>5 DEF About
<1>4. CASE reported' = reported
  BY <1>4
<1> QED BY <1>2, <1>3, <1>4
        DEF Next, NextResend, RowMoves, Cancels, CancelReports, ReportsAgain, PollUnclear,
            PollPrinting, LoopResends, OnConfigSync, Applied, SyncEnds, Connect, ConnectionLost, ReaderEnds,
            CloudProcesses, Crash, vars

\* The newest status of a job is not confirmed by a message about an older one.
THEOREM NeverStale == Spec => NoStaleConfirmation
<1>1. IInv /\ [Next]_vars
        => [\A j \in Job : reported'[j] # reported[j] => reported'[j] = status[j]]_vars
  BY WhoConfirms
<1> QED BY <1>1, Inductive, PTL DEF Spec, NoStaleConfirmation

\* With a cloud that acknowledges, an entry leaves the outbox only after a cloud
\* stored that status, whatever clouds were connected before.
THEOREM StoredBeforeReported == Spec => OnlyStoredIsReported
<1>1. IInv /\ [Next]_vars
        => [\A j \in Job : reported'[j] # reported[j] /\ cloud = "acking"
                      => [job |-> j, status |-> reported'[j]] \in processed]_vars
  BY WhoConfirms
<1> QED BY <1>1, Inductive, PTL DEF Spec, OnlyStoredIsReported

-----------------------------------------------------------------------------
(* Where a "printing" about a job comes from whose state CUPS does not tell. *)

\* A read of the outbox skips the jobs that are unclear.
LEMMA SnapshotClear == \A j \in Job : Printing(j) \in Snapshot => ~unclear[j]
<1> SUFFICES ASSUME NEW j \in Job, Printing(j) \in Snapshot PROVE ~unclear[j]
  OBVIOUS
<1>1. PICK k \in Job : Resends(k) /\ [job |-> k, status |-> status[k]] = Printing(j)
  BY DEF Snapshot
<1>2. k = j /\ status[j] = "printing"
  BY <1>1 DEF Printing
<1> QED BY <1>1, <1>2 DEF Resends

\* The last frame on the wire, if there is one more than before, is this one.
LEMMA ReportAppends ==
    ASSUME TypeOK, NEW t \in Task, NEW msg \in Message, Report(t, msg), Len(wire') > Len(wire)
    PROVE  wire'[Len(wire')] = msg
<1>1. wire \in Seq(Message)
  BY DEF TypeOK
<1>2. wire' = Append(wire, msg) \/ wire' = wire
  BY DEF Report
<1> QED BY <1>1, <1>2

\* A resender sends one message of its list and keeps the rest.
LEMMA SendFirstFrom ==
    ASSUME TypeOK, NEW t \in Resender, NEW list \in SUBSET Message, SendFirst(t, list)
    PROVE  /\ \A other \in Resender : other # t => todo'[other] = todo[other]
           /\ todo'[t] \subseteq list
           /\ \A j \in Job : Sent(Printing(j)) => Printing(j) \in list
<1>0. t \in Task /\ todo \in [Resender -> SUBSET Message] /\ wire \in Seq(Message)
  BY DEF Task, Resender, TypeOK
<1>1. CASE UNCHANGED <<wire, sending>> /\ todo' = [todo EXCEPT ![t] = {}]
  BY <1>0, <1>1 DEF Sent
<1>2. ASSUME NEW msg \in list, todo' = [todo EXCEPT ![t] = list \ {msg}], Report(t, msg)
      PROVE  /\ \A other \in Resender : other # t => todo'[other] = todo[other]
             /\ todo'[t] \subseteq list
             /\ \A j \in Job : Sent(Printing(j)) => Printing(j) \in list
  <2>1. Len(wire') > Len(wire) => wire'[Len(wire')] = msg
    BY <1>0, <1>2, ReportAppends
  <2> QED BY <1>0, <1>2, <2>1 DEF Sent
<1> QED BY <1>1, <1>2 DEF SendFirst

\* A list whose jobs are clear adds nothing about the others.
LEMMA ClearListIsHonest ==
    ASSUME TypeOK, NEW t \in Resender, NEW list \in SUBSET Message, SendFirst(t, list),
           unclear' = unclear,
           \A j \in Job : unclear[j] /\ Printing(j) \in list => Printing(j) \in todo[t]
    PROVE  FromOldReads
BY SendFirstFrom DEF FromOldReads

\* A report that is not "printing", or is about a job that is clear now.
LEMMA ReportIsHonest ==
    ASSUME TypeOK, NEW t \in Task, NEW k \in Job, NEW s \in Status \ {"pending"},
           Report(t, [job |-> k, status |-> s]), todo' = todo,
           s = "printing" => ~unclear'[k]
    PROVE  FromOldReads
<1> DEFINE msg == [job |-> k, status |-> s]
<1>1. msg \in Message
  BY DEF Message
<1>2. Len(wire') > Len(wire) => wire'[Len(wire')] = msg
  BY <1>1, ReportAppends
<1>3. \A j \in Job : msg = Printing(j) => j = k /\ s = "printing"
  BY DEF Printing
<1> HIDE DEF msg
<1> QED BY <1>2, <1>3 DEF FromOldReads, Sent

\* What a step may send, and what it leaves in the hands of a resender.
LEMMA StepIsHonest ==
    ASSUME IInv, Next
    PROVE  FromOldReads
<1>0. /\ TypeOK /\ wire \in Seq(Message) /\ todo \in [Resender -> SUBSET Message]
      /\ unclear \in [Job -> BOOLEAN] /\ status \in [Job -> Status]
  BY DEF IInv, TypeOK
<1>1. ASSUME NEW k \in Job, JobStep(k) PROVE FromOldReads
  <2>1. todo' = todo
    BY <1>1 DEF JobStep, RowMoves, Cancels, CancelReports, ReportsAgain, PollUnclear, PollPrinting
  <2>2. CASE wire' = wire
    BY <1>0, <2>1, <2>2 DEF FromOldReads, Sent
  <2>3. CASE \E t \in Task, s \in Status \ {"pending"} :
                /\ Report(t, [job |-> k, status |-> s])
                /\ s = "printing" => ~unclear'[k]
    BY <1>0, <2>1, <2>3, ReportIsHonest
  <2> QED BY <1>0, <1>1, <2>2, <2>3, JobSteps DEF IInv
<1>2. CASE LoopResends
  <2>1. "loop" \in Resender /\ SendFirst("loop", Snapshot) /\ unclear' = unclear
    BY <1>2 DEF LoopResends, Resender, row
  <2> QED BY <1>0, <2>1, Messages, SnapshotClear, ClearListIsHonest
<1>3. ASSUME NEW t \in Resender, NextResend(t) PROVE FromOldReads
  <2>1. SendFirst(t, todo[t]) /\ unclear' = unclear /\ todo[t] \in SUBSET Message
    BY <1>0, <1>3 DEF NextResend, row
  <2> QED BY <1>0, <2>1, ClearListIsHonest
<1>4. CASE Applied
  <2>1. "reader" \in Resender /\ SendFirst("reader", Snapshot) /\ unclear' = unclear
    BY <1>4 DEF Applied, Resender, row
  <2> QED BY <1>0, <2>1, Messages, SnapshotClear, ClearListIsHonest
<1>5. CASE \/ \E t \in Task : SendReturns(t)
           \/ OnConfigSync \/ SyncEnds \/ OnJobStatusAck
           \/ Connect \/ ConnectionLost \/ ReaderEnds \/ CloudProcesses
  <2>1. todo' = todo
    BY <1>5 DEF SendReturns, OnConfigSync, SyncEnds, OnJobStatusAck, Connect, ConnectionLost,
                ReaderEnds, CloudProcesses
  <2>2. wire' = wire \/ wire' = <<>> \/ (wire # <<>> /\ wire' = Tail(wire))
    BY <1>5 DEF SendReturns, OnConfigSync, SyncEnds, OnJobStatusAck, Connect, ConnectionLost,
                ReaderEnds, CloudProcesses
  <2>3. ~(Len(wire') > Len(wire))
    BY <1>0, <2>2
  <2> QED BY <2>1, <2>3 DEF FromOldReads, Sent
<1>6. CASE Crash
  <2>1. todo' = [t \in Resender |-> {}] /\ wire' = <<>>
    BY <1>6 DEF Crash
  <2>2. ~(Len(wire') > Len(wire))
    BY <1>0, <2>1
  <2> QED BY <2>1, <2>2 DEF FromOldReads, Sent
<1> QED BY <1>1, <1>2, <1>3, <1>4, <1>5, <1>6 DEF Next, JobStep

\* The cloud is told "printing" of an unclear job only by a resender that read
\* the outbox before the job became unclear: the rows kept across a send are the
\* only reason for what the run outbox_stale finds.
THEOREM OldReadsAreTheCause == Spec => PrintingOnlyFromOldReads
<1>1. IInv /\ [Next]_vars => [FromOldReads]_vars
  BY StepIsHonest
<1> QED BY <1>1, Inductive, PTL DEF Spec, PrintingOnlyFromOldReads
=============================================================================
