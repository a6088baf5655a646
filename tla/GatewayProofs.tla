----------------------------- MODULE GatewayProofs -----------------------------
(***************************************************************************)
(* Theorems about Gateway: Pairing and CloudConnector, which share nothing *)
(* but the moment they crash, have an invariant each.  They hold for any   *)
(* codes, orders and requests, a memory of any size, and any number of     *)
(* lost connections and crashes.                                           *)
(***************************************************************************)
EXTENDS Gateway, TLAPS

-----------------------------------------------------------------------------
(* Pairing.                                                                *)

\* Only an unpaired gateway posts a code; a token on its way is that of the
\* code being posted, which the cloud has redeemed; no try begins when there
\* have been MaxTries.
PairInv ==
    /\ PairingTypeOK
    /\ NoCodeWasted
    /\ agent = "post" => token = NoCode
    /\ answer = "token" => agent = "post" /\ code \in used
    /\ agent # "ended" => tries < MaxTries

\* A gateway without a token has redeemed nothing yet.
LEMMA PairInit == PairingInit => PairInv
  BY PairingAssumption DEF PairingInit, PairInv, PairingTypeOK, NoCodeWasted

\* What becomes of a request nobody waits for.
LEMMA ForsakeFacts ==
    ASSUME PairInv, agent = "post", Forsake
    PROVE  /\ used \subseteq used' /\ used' \subseteq Valid
           /\ lost \subseteq lost' /\ lost' \subseteq Valid
           /\ used' \ used \subseteq lost'
           /\ answer = "token" => code \in lost'
           /\ code' = NoCode /\ answer' = "none"
  BY DEF PairInv, PairingTypeOK, Forsake

\* ensure_paired chooses what to redeem.
LEMMA EnsurePairedInv == ASSUME PairInv, EnsurePaired PROVE PairInv' /\ token' = token
<1>1. /\ UNCHANGED <<token, env, used, lost>> /\ agent = "check" /\ answer # "token"
      /\ env \in Code \cup {NoCode} /\ typed \in Code \cup {NoCode}
      /\ tries \in 0..MaxTries /\ tries < MaxTries /\ 0 < MaxTries
  <2>1. /\ UNCHANGED <<token, env, used, lost>> /\ agent = "check"
    BY DEF EnsurePaired
  <2>2. env \in EnvCodes /\ typed \in Code \cup {NoCode} /\ answer # "token"
    BY <2>1 DEF PairInv, PairingTypeOK
  <2>3. tries \in 0..MaxTries /\ tries < MaxTries
    BY <2>1 DEF PairInv, PairingTypeOK
  <2> QED BY <2>1, <2>2, <2>3, PairingAssumption
<1>2. CASE Paired
  <2>1. agent' = "running" /\ tries' = 0 /\ UNCHANGED <<typed, code, answer>>
    BY <1>2 DEF EnsurePaired
  <2>2. tries' \in 0..MaxTries /\ tries' < MaxTries
    BY <1>1, <2>1, PairingAssumption
  <2> QED BY <1>1, <2>1, <2>2 DEF PairInv, PairingTypeOK, NoCodeWasted
<1>3. CASE ~Paired
  <2>1. ChooseCode /\ tries' = tries /\ token = NoCode
    BY <1>3 DEF EnsurePaired, Paired
  <2>2. /\ agent' \in {"post", "sleep"} /\ answer' \in {"none", "refused"}
        /\ code' \in Code \cup {NoCode} /\ typed' \in Code \cup {NoCode}
    BY <1>1, <2>1 DEF ChooseCode, Redeem, PairInv, PairingTypeOK
  <2> QED BY <1>1, <2>1, <2>2 DEF PairInv, PairingTypeOK, NoCodeWasted
<1> QED BY <1>2, <1>3

\* The cloud answers, the answer arrives or does not, and the agent goes on.
LEMMA PairingStepInv ==
    ASSUME PairInv, PairingStep
    PROVE  PairInv' /\ (token # NoCode => token' = token)
<1>1. ASSUME NEW c \in Code, EnterCode(c) PROVE PairInv' /\ token' = token
  BY <1>1 DEF EnterCode, PairInv, PairingTypeOK, NoCodeWasted
<1>2. CASE CloudRedeems
  BY <1>2 DEF CloudRedeems, PairInv, PairingTypeOK, NoCodeWasted
<1>3. CASE CloudRefuses
  BY <1>3 DEF CloudRefuses, PairInv, PairingTypeOK, NoCodeWasted
<1>4. CASE TokenArrives
  <2>1. /\ token = NoCode /\ token' = code /\ code \in used /\ used \subseteq Valid
        /\ code \in Code /\ NoCode \notin used
    BY <1>4, PairingAssumption DEF TokenArrives, StoreToken, PairInv, PairingTypeOK
  <2>2. 0 \in 0..MaxTries /\ 0 < MaxTries
    BY PairingAssumption
  <2> QED BY <1>4, <2>1, <2>2 DEF TokenArrives, PairInv, PairingTypeOK, NoCodeWasted
<1>5. CASE Refused
  BY <1>5 DEF Refused, PairInv, PairingTypeOK, NoCodeWasted
<1>6. CASE PostFails
  BY <1>6, ForsakeFacts DEF PostFails, PairInv, PairingTypeOK, NoCodeWasted
<1>7. CASE NextTry \/ Restart
  <2>1. /\ agent \in {"sleep", "ended"} /\ agent' \in {"ended", "check"} /\ env' \in EnvCodes
        /\ UNCHANGED <<token, typed, code, answer, used, lost>>
    BY <1>7 DEF NextTry, Restart, StartAgain, KvKept, PairInv, PairingTypeOK
  <2>2. tries' \in 0..MaxTries /\ (agent' # "ended" => tries' < MaxTries)
    BY <1>7, PairingAssumption DEF NextTry, Restart, StartAgain, PairInv, PairingTypeOK
  <2> QED BY <2>1, <2>2 DEF PairInv, PairingTypeOK, NoCodeWasted
<1> QED BY <1>1, <1>2, <1>3, <1>4, <1>5, <1>6, <1>7, EnsurePairedInv DEF PairingStep

\* What the spool has survives the process.
LEMMA PairingCrashInv ==
    ASSUME PairInv, PairingCrash
    PROVE  PairInv' /\ token' = token
<1>1. /\ agent' = "check" /\ tries' = 0 /\ env' \in EnvCodes /\ UNCHANGED <<token, typed>>
      /\ 0 \in 0..MaxTries /\ 0 < MaxTries
  BY PairingAssumption DEF PairingCrash, StartAgain, KvKept
<1>2. CASE agent = "post"
  BY <1>1, <1>2, ForsakeFacts DEF PairingCrash, PairInv, PairingTypeOK, NoCodeWasted
<1>3. CASE agent # "post"
  BY <1>1, <1>3 DEF PairingCrash, PairInv, PairingTypeOK, NoCodeWasted
<1> QED BY <1>2, <1>3

-----------------------------------------------------------------------------
(* CloudConnector: frames and types.                                       *)

\* The handler has come to its end for what has been acknowledged or whose
\* acknowledgment is under way, and for what is remembered, except the order
\* being handled.
AckInv ==
    /\ acked \subseteq ended
    /\ \A k \in 1..Len(wire) : wire[k].type = "ack" => wire[k].id \in ended
    /\ \A k \in 1..Len(seen) : seen[k] \in ended \/ (seen[k] = handling /\ handling # NoOrder)

\* What is remembered is the end of what has been accepted.
MemoryInv ==
    /\ Len(seen) <= Len(accepted)
    /\ Len(seen) < SeenMax => Len(seen) = Len(accepted)
    /\ \A k \in 1..Len(seen) : seen[k] = accepted[(Len(accepted) - Len(seen)) + k]

\* The requests that have not been made.
Unmade == {r \in Rid : outcome[r] = "open" /\ waiter[r] = "absent"}

\* A request is on the wire once and not yet decided, its answer is the
\* cloud's decision, and so is what the waiter was told and returned.
IntentInv ==
    /\ \A k \in 1..Len(wire) : wire[k].type = "intent"
          => verdict[wire[k].id] = "none" /\ wire[k].id \notin Unmade
    /\ \A j, k \in 1..Len(wire) :
          j # k /\ wire[j].type = "intent" /\ wire[k].type = "intent" => wire[j].id # wire[k].id
    /\ \A k \in 1..Len(inbox) : inbox[k].type = "result" => verdict[inbox[k].id] = inbox[k].ok
    /\ \A r \in Unmade : verdict[r] = "none"
    /\ \A r \in Rid : /\ waiter[r] \in {"yes", "no"} => verdict[r] = waiter[r]
                      /\ outcome[r] \in {"yes", "no"} => verdict[r] = outcome[r]

ConnInv ==
    /\ ConnectorTypeOK /\ RepetitionsRecognised
    /\ AckInv /\ MemoryInv /\ IntentInv

\* What is left of a sequence without its first element.
LEMMA TailOf ==
    ASSUME NEW S, NEW s \in Seq(S), s # <<>>
    PROVE  /\ Tail(s) \in Seq(S) /\ Len(Tail(s)) + 1 = Len(s) /\ Len(Tail(s)) \in Nat
           /\ Head(s) = s[1] /\ 1 \in 1..Len(s) /\ Head(s) \in S
           /\ \A k \in 1..Len(Tail(s)) : Tail(s)[k] = s[k + 1] /\ k + 1 \in 1..Len(s)
  OBVIOUS

\* An element more at the end.
LEMMA AppendTo ==
    ASSUME NEW S, NEW s \in Seq(S), NEW e \in S
    PROVE  /\ Append(s, e) \in Seq(S) /\ Len(Append(s, e)) = Len(s) + 1 /\ Len(s) \in Nat
           /\ Append(s, e)[Len(s) + 1] = e
           /\ \A k \in 1..Len(s) : Append(s, e)[k] = s[k]
           /\ \A k \in 1..Len(Append(s, e)) : k \in 1..Len(s) \/ k = Len(s) + 1
  OBVIOUS

\* The first n elements.
LEMMA FrontOf ==
    ASSUME NEW S, NEW s \in Seq(S), NEW n \in 0..Len(s)
    PROVE  /\ SubSeq(s, 1, n) \in Seq(S) /\ Len(SubSeq(s, 1, n)) = n
           /\ \A k \in 1..n : SubSeq(s, 1, n)[k] = s[k] /\ k \in 1..Len(s)
  OBVIOUS

\* No element at all.
LEMMA NothingIn ==
    ASSUME NEW S
    PROVE  <<>> \in Seq(S) /\ Len(<<>>) = 0 /\ \A k \in 1..Len(<<>>) : FALSE
  OBVIOUS

\* The types of the frames, in the form the steps use.
LEMMA Frames ==
    ASSUME ConnectorTypeOK
    PROVE  /\ \A k \in 1..Len(wire) : wire[k] \in ToCloud
           /\ \A k \in 1..Len(inbox) : inbox[k] \in ToGateway
           /\ \A f \in ToCloud : \/ f.type = "ack" /\ f.id \in Order
                                 \/ f.type = "intent" /\ f.id \in Rid
           /\ \A f \in ToGateway : \/ f.type = "order" /\ f.id \in Order
                                   \/ f.type = "result" /\ f.id \in Rid /\ f.ok \in Answer
           /\ \A i \in Order : /\ Ack(i) \in ToCloud /\ Ack(i).type = "ack" /\ Ack(i).id = i
                               /\ [type |-> "order", id |-> i] \in ToGateway
           /\ \A r \in Rid : [type |-> "intent", id |-> r] \in ToCloud
           /\ \A r \in Rid, ok \in Answer : [type |-> "result", id |-> r, ok |-> ok] \in ToGateway
  BY DEF ConnectorTypeOK, ToCloud, ToGateway, Ack

\* A frame is put on the wire, if there is one.
LEMMA PutFacts ==
    ASSUME ConnectorTypeOK, NEW f \in ToCloud, Put(f)
    PROVE  /\ wire' \in Seq(ToCloud)
           /\ \A k \in 1..Len(wire') : (k \in 1..Len(wire) /\ wire'[k] = wire[k]) \/ wire'[k] = f
           /\ \A j, k \in 1..Len(wire') :
                 j # k => (j \in 1..Len(wire) /\ wire'[j] = wire[j])
                          \/ (k \in 1..Len(wire) /\ wire'[k] = wire[k])
<1>1. wire \in Seq(ToCloud)
  BY DEF ConnectorTypeOK
<1>2. CASE link = "up"
  BY <1>1, <1>2, AppendTo DEF Put
<1>3. CASE link # "up"
  BY <1>1, <1>3 DEF Put
<1> QED BY <1>2, <1>3

-----------------------------------------------------------------------------
(* CloudConnector: steps.                                                  *)

\* Nothing has happened when the process starts for the first time.
LEMMA ConnInit == ConnectorInit => ConnInv
<1> SUFFICES ASSUME ConnectorInit PROVE ConnInv
  OBVIOUS
<1>1. /\ inbox \in Seq(ToGateway) /\ wire \in Seq(ToCloud) /\ seen \in Seq(Order)
      /\ accepted \in Seq(Order) /\ DOMAIN accepted = {}
      /\ Len(inbox) = 0 /\ Len(wire) = 0 /\ Len(seen) = 0 /\ Len(accepted) = 0
  BY DEF ConnectorInit
<1>2. ConnectorTypeOK
  <2>1. stuck \in BOOLEAN /\ drops \in 0..MaxDrops /\ Len(seen) <= SeenMax
    <3>1. stuck \in BOOLEAN /\ drops = 0
      BY DEF ConnectorInit
    <3>2. drops \in 0..MaxDrops /\ Len(seen) <= SeenMax
      BY <1>1, <3>1, ConnectorAssumption
    <3> QED BY <3>1, <3>2
  <2>2. /\ waiter \in [Rid -> {"absent", "pending", "yes", "no", "none"}]
        /\ outcome \in [Rid -> {"open", "yes", "no", "none"}]
        /\ verdict \in [Rid -> Answer \cup {"none"}]
    BY DEF ConnectorInit
  <2>3. /\ link \in {"down", "up", "lost"} /\ handling \in Order \cup {NoOrder}
        /\ acked \subseteq Order /\ ended \subseteq Order
    BY DEF ConnectorInit
  <2> QED BY <1>1, <2>1, <2>2, <2>3 DEF ConnectorTypeOK
<1>3. AckInv /\ MemoryInv /\ IntentInv /\ RepetitionsRecognised
  BY <1>1, ConnectorAssumption
     DEF ConnectorInit, AckInv, MemoryInv, IntentInv, Unmade, RepetitionsRecognised
<1> QED BY <1>2, <1>3 DEF ConnInv

\* A step that puts no request on the wire, decides nothing and makes up no
\* answer.
LEMMA IntentKept ==
    ASSUME ConnInv, verdict' = verdict, Unmade' \subseteq Unmade,
           \A k \in 1..Len(wire') : wire'[k].type = "intent"
              => k \in 1..Len(wire) /\ wire'[k] = wire[k],
           \A k \in 1..Len(inbox') : inbox'[k].type = "result"
              => \E l \in 1..Len(inbox) : inbox'[k] = inbox[l],
           \A r \in Rid : /\ waiter'[r] \in {"yes", "no"} => verdict[r] = waiter'[r]
                          /\ outcome'[r] \in {"yes", "no"} => verdict[r] = outcome'[r]
    PROVE  IntentInv'
<1>1. \A k \in 1..Len(wire') : wire'[k].type = "intent"
         => verdict'[wire'[k].id] = "none" /\ wire'[k].id \notin Unmade'
  BY DEF ConnInv, IntentInv
<1>2. \A j, k \in 1..Len(wire') :
         j # k /\ wire'[j].type = "intent" /\ wire'[k].type = "intent" => wire'[j].id # wire'[k].id
  BY DEF ConnInv, IntentInv
<1>3. \A k \in 1..Len(inbox') : inbox'[k].type = "result" => verdict'[inbox'[k].id] = inbox'[k].ok
  BY DEF ConnInv, IntentInv
<1>4. \A r \in Unmade' : verdict'[r] = "none"
  BY DEF ConnInv, IntentInv
<1> QED BY <1>1, <1>2, <1>3, <1>4 DEF IntentInv

\* Connect, ConnectionLost and ReaderEnds: frames disappear, and those who wait
\* are told so at the end.
LEMMA LinkInv ==
    ASSUME ConnInv, Connect \/ ConnectionLost \/ ReaderEnds
    PROVE  ConnInv'
<1>1. /\ UNCHANGED <<seen, handling, stuck, outcome, verdict, acked, accepted, ended>>
      /\ link' \in {"up", "lost", "down"} /\ drops' \in 0..MaxDrops
      /\ inbox' \in Seq(ToGateway) /\ wire' \in Seq(ToCloud)
      /\ \A k \in 1..Len(inbox') : k \in 1..Len(inbox) /\ inbox'[k] = inbox[k]
      /\ \A k \in 1..Len(wire') : k \in 1..Len(wire) /\ wire'[k] = wire[k]
      /\ waiter' \in [Rid -> {"absent", "pending", "yes", "no", "none"}]
      /\ \A r \in Rid : waiter'[r] = waiter[r] \/ (waiter[r] = "pending" /\ waiter'[r] = "none")
  <2>1. CASE Connect
    BY <2>1, NothingIn DEF Connect, ConnInv, ConnectorTypeOK
  <2>2. CASE ConnectionLost
    <3>1. PICK n \in 0..Len(inbox) : inbox' = SubSeq(inbox, 1, n)
      BY <2>2 DEF ConnectionLost
    <3>2. drops' \in 0..MaxDrops
      BY <2>2, ConnectorAssumption DEF ConnectionLost, ConnInv, ConnectorTypeOK
    <3>3. inbox \in Seq(ToGateway) /\ wire' = <<>>
      BY <2>2 DEF ConnectionLost, ConnInv, ConnectorTypeOK
    <3>4. /\ inbox' \in Seq(ToGateway)
          /\ \A k \in 1..Len(inbox') : k \in 1..Len(inbox) /\ inbox'[k] = inbox[k]
      BY <3>1, <3>3, FrontOf
    <3>5. wire' \in Seq(ToCloud) /\ \A k \in 1..Len(wire') : FALSE
      BY <3>3, NothingIn
    <3> QED BY <2>2, <3>2, <3>4, <3>5 DEF ConnectionLost, ConnInv, ConnectorTypeOK
  <2>3. CASE ReaderEnds
    BY <2>3 DEF ReaderEnds, ReleaseWaiters, ConnInv, ConnectorTypeOK
  <2> QED BY <2>1, <2>2, <2>3
<1>2. ConnectorTypeOK'
  BY <1>1 DEF ConnInv, ConnectorTypeOK
<1>3. AckInv'
  BY <1>1 DEF ConnInv, AckInv
<1>4. MemoryInv' /\ RepetitionsRecognised'
  BY <1>1 DEF ConnInv, MemoryInv, RepetitionsRecognised
<1>5. IntentInv'
  <2>1. Unmade' = Unmade
    BY <1>1 DEF Unmade
  <2>2. \A r \in Rid : /\ waiter'[r] \in {"yes", "no"} => verdict[r] = waiter'[r]
                       /\ outcome'[r] \in {"yes", "no"} => verdict[r] = outcome'[r]
    BY <1>1 DEF ConnInv, IntentInv
  <2> QED BY <1>1, <2>1, <2>2, IntentKept
<1> QED BY <1>2, <1>3, <1>4, <1>5 DEF ConnInv

\* The handler is called for an order that is not remembered: the memory goes
\* on being the end of what was accepted, and no order occurs in it twice.
LEMMA Remembering ==
    ASSUME ConnInv, NEW i \in Order, ~Recognised(i), handling = NoOrder, handling' = i,
           seen' = Remember(i), accepted' = Append(accepted, i),
           UNCHANGED ended
    PROVE  /\ MemoryInv' /\ RepetitionsRecognised'
           /\ seen' \in Seq(Order) /\ Len(seen') <= SeenMax /\ accepted' \in Seq(Order)
           /\ \A k \in 1..Len(seen') : seen'[k] \in ended \/ seen'[k] = i
<1>1. /\ seen \in Seq(Order) /\ accepted \in Seq(Order)
      /\ SeenMax \in Nat \ {0}
  BY ConnectorAssumption DEF ConnInv, ConnectorTypeOK
<1>2. PICK s \in Nat, a \in Nat : s = Len(seen) /\ a = Len(accepted)
  BY <1>1
<1>3. /\ s <= SeenMax /\ s <= a /\ (s < SeenMax => s = a)
      /\ \A k \in 1..s : seen[k] = accepted[(a - s) + k]
      /\ \A k \in 1..s : seen[k] \in ended /\ seen[k] # i
  <2>1. \A k \in 1..s : seen[k] # i
    BY <1>1, <1>2 DEF Recognised
  <2> QED BY <1>2, <2>1 DEF ConnInv, ConnectorTypeOK, MemoryInv, AckInv
<1>4. /\ accepted' \in Seq(Order) /\ Len(accepted') = a + 1 /\ accepted'[a + 1] = i
      /\ \A k \in 1..a : accepted'[k] = accepted[k]
  BY <1>1, <1>2, AppendTo
<1>5. DOMAIN accepted = 1..a /\ DOMAIN accepted' = 1..(a + 1)
  BY <1>1, <1>2, <1>4
<1>6. RepetitionsRecognised'
  <2>1. ASSUME NEW j \in 1..(a + 1), NEW k \in 1..(a + 1), j < k, accepted'[j] = accepted'[k]
        PROVE  k - j > SeenMax
    <3>1. CASE k \in 1..a
      <4>1. j \in 1..a /\ accepted[j] = accepted[k]
        BY <1>4, <2>1, <3>1
      <4> QED BY <1>5, <2>1, <3>1, <4>1 DEF ConnInv, RepetitionsRecognised
    <3>2. CASE k = a + 1
      <4>1. j \in 1..a /\ accepted[j] = i
        BY <1>4, <2>1, <3>2
      <4>2. ASSUME j > a - s PROVE FALSE
        <5>1. j - (a - s) \in 1..s /\ (a - s) + (j - (a - s)) = j
          BY <1>3, <4>1, <4>2
        <5>2. PICK l \in 1..s : (a - s) + l = j
          BY <5>1
        <5> QED BY <1>3, <4>1, <5>2
      <4> QED BY <1>1, <1>3, <3>2, <4>1, <4>2
    <3> QED BY <3>1, <3>2
  <2> QED BY <1>5, <2>1 DEF RepetitionsRecognised
<1>7. CASE s < SeenMax
  <2>1. seen' = Append(seen, i)
    BY <1>2, <1>7 DEF Remember
  <2>2. /\ seen' \in Seq(Order) /\ Len(seen') = s + 1 /\ seen'[s + 1] = i
        /\ \A k \in 1..s : seen'[k] = seen[k]
        /\ \A k \in 1..(s + 1) : k \in 1..s \/ k = s + 1
    BY <1>1, <1>2, <2>1, AppendTo
  <2>3. ASSUME NEW k \in 1..(s + 1)
        PROVE  seen'[k] = accepted'[k] /\ (seen'[k] \in ended \/ seen'[k] = i)
    <3>1. CASE k \in 1..s
      <4>1. (a - s) + k = k /\ k \in 1..a
        BY <1>3, <1>7, <3>1
      <4> QED BY <1>3, <1>4, <2>2, <3>1, <4>1
    <3>2. CASE k = s + 1
      BY <1>3, <1>4, <1>7, <2>2, <3>2
    <3> QED BY <2>2, <3>1, <3>2
  <2>4. /\ s + 1 = a + 1 /\ s + 1 <= SeenMax
        /\ \A k \in 1..(s + 1) : ((a + 1) - (s + 1)) + k = k
    BY <1>1, <1>3, <1>7
  <2> QED BY <1>4, <1>6, <2>2, <2>3, <2>4 DEF MemoryInv
<1>8. CASE ~(s < SeenMax)
  <2>1. seen # <<>> /\ s = SeenMax
    BY <1>1, <1>2, <1>3, <1>8
  <2>2. PICK t \in Seq(Order) : t = Tail(seen)
    BY <1>1, <2>1, TailOf
  <2>3. Len(t) + 1 = s /\ \A k \in 1..Len(t) : t[k] = seen[k + 1] /\ k + 1 \in 1..s
    BY <1>1, <1>2, <2>1, <2>2, TailOf
  <2>4. seen' = Append(t, i)
    BY <1>2, <1>8, <2>2 DEF Remember
  <2>5. PICK n \in Nat : n = Len(t)
    BY <2>2
  <2>6. /\ seen' \in Seq(Order) /\ Len(seen') = s /\ n + 1 = s /\ seen'[s] = i
        /\ \A k \in 1..n : seen'[k] = t[k]
        /\ \A k \in 1..s : k \in 1..n \/ k = s
    BY <2>2, <2>3, <2>4, <2>5, AppendTo
  <2>7. ASSUME NEW k \in 1..s
        PROVE  /\ seen'[k] = accepted'[((a + 1) - s) + k]
               /\ seen'[k] \in ended \/ seen'[k] = i
    <3>1. CASE k \in 1..n
      <4>1. seen'[k] = seen[k + 1] /\ k + 1 \in 1..s
        BY <2>3, <2>5, <2>6, <3>1
      <4>2. PICK l \in 1..a : l = (a - s) + (k + 1)
        BY <1>3, <4>1
      <4>3. seen[k + 1] = accepted[l] /\ ((a + 1) - s) + k = l
        BY <1>3, <4>1, <4>2
      <4> QED BY <1>3, <1>4, <4>1, <4>3
    <3>2. CASE k = s
      <4>1. ((a + 1) - s) + k = a + 1
        BY <1>3, <3>2
      <4> QED BY <1>4, <2>6, <3>2, <4>1
    <3> QED BY <2>6, <3>1, <3>2
  <2>8. s <= a + 1
    BY <1>3
  <2> QED BY <1>4, <1>6, <2>1, <2>6, <2>7, <2>8 DEF MemoryInv
<1> QED BY <1>7, <1>8

\* An order is read: acknowledged again if it is remembered, else handled.
LEMMA OnOrderInv == ASSUME ConnInv, NEW i \in Order, OnOrder(i) PROVE ConnInv'
<1>1. /\ handling = NoOrder /\ inbox # <<>> /\ inbox' = Tail(inbox)
      /\ UNCHANGED <<link, waiter, outcome, verdict, acked, ended, drops>>
  BY DEF OnOrder, Reads
<1>2. ConnectorTypeOK /\ inbox \in Seq(ToGateway) /\ wire \in Seq(ToCloud) /\ i # NoOrder
  BY ConnectorAssumption DEF ConnInv, ConnectorTypeOK
<1>3. /\ inbox' \in Seq(ToGateway)
      /\ \A k \in 1..Len(inbox') : \E l \in 1..Len(inbox) : inbox'[k] = inbox[l]
  BY <1>1, <1>2, TailOf
<1>4. /\ wire' \in Seq(ToCloud) /\ AckInv' /\ MemoryInv' /\ RepetitionsRecognised'
      /\ seen' \in Seq(Order) /\ Len(seen') <= SeenMax
      /\ accepted' \in Seq(Order) /\ handling' \in Order \cup {NoOrder} /\ stuck' \in BOOLEAN
      /\ \A k \in 1..Len(wire') : wire'[k].type = "intent"
            => k \in 1..Len(wire) /\ wire'[k] = wire[k]
  <2>1. CASE Recognised(i)
    <3>1. Put(Ack(i)) /\ UNCHANGED <<seen, handling, stuck, accepted>>
      BY <2>1 DEF OnOrder, AckAgain
    <3>2. /\ Ack(i) \in ToCloud /\ Ack(i).type = "ack" /\ Ack(i).id = i
      BY <1>2, Frames
    <3>3. i \in ended
      <4>1. DOMAIN seen = 1..Len(seen)
        BY <1>2 DEF ConnectorTypeOK
      <4> QED BY <1>1, <2>1, <4>1 DEF Recognised, ConnInv, AckInv
    <3>4. /\ wire' \in Seq(ToCloud)
          /\ \A k \in 1..Len(wire') : (k \in 1..Len(wire) /\ wire'[k] = wire[k]) \/ wire'[k] = Ack(i)
      BY <1>2, <3>1, <3>2, PutFacts
    <3>5. AckInv'
      BY <1>1, <3>1, <3>2, <3>3, <3>4 DEF ConnInv, AckInv
    <3>6. MemoryInv' /\ RepetitionsRecognised'
      BY <3>1 DEF ConnInv, MemoryInv, RepetitionsRecognised
    <3> QED BY <3>1, <3>2, <3>4, <3>5, <3>6 DEF ConnInv, ConnectorTypeOK
  <2>2. CASE ~Recognised(i)
    <3>1. /\ seen' = Remember(i) /\ handling' = i /\ accepted' = Append(accepted, i)
          /\ wire' = wire /\ stuck' \in BOOLEAN
      BY <2>2 DEF OnOrder, AckLater
    <3>2. /\ MemoryInv' /\ RepetitionsRecognised'
          /\ seen' \in Seq(Order) /\ Len(seen') <= SeenMax /\ accepted' \in Seq(Order)
          /\ \A k \in 1..Len(seen') : seen'[k] \in ended \/ seen'[k] = i
      BY <1>1, <2>2, <3>1, Remembering
    <3>3. AckInv'
      BY <1>1, <1>2, <3>1, <3>2 DEF ConnInv, AckInv
    <3> QED BY <1>2, <3>1, <3>2, <3>3
  <2> QED BY <2>1, <2>2
<1>5. ConnectorTypeOK'
  BY <1>1, <1>2, <1>3, <1>4 DEF ConnectorTypeOK
<1>6. IntentInv'
  <2>1. Unmade' = Unmade
    BY <1>1 DEF Unmade
  <2>2. \A r \in Rid : /\ waiter'[r] \in {"yes", "no"} => verdict[r] = waiter'[r]
                       /\ outcome'[r] \in {"yes", "no"} => verdict[r] = outcome'[r]
    BY <1>1 DEF ConnInv, IntentInv
  <2> QED BY <1>1, <1>3, <1>4, <2>1, <2>2, IntentKept
<1> QED BY <1>4, <1>5, <1>6 DEF ConnInv

\* The handler comes to its end, and the order is acknowledged.
LEMMA HandlerEndsInv == ASSUME ConnInv, HandlerEnds PROVE ConnInv'
<1>1. /\ handling \in Order /\ handling' = NoOrder /\ ended' = ended \cup {handling}
      /\ Put(Ack(handling))
      /\ UNCHANGED <<link, inbox, seen, stuck, waiter, outcome, verdict, acked, accepted, drops>>
  BY DEF HandlerEnds, ConnInv, ConnectorTypeOK
<1>2. ConnectorTypeOK /\ inbox \in Seq(ToGateway)
  BY DEF ConnInv, ConnectorTypeOK
<1>3. Ack(handling) \in ToCloud /\ Ack(handling).type = "ack" /\ Ack(handling).id = handling
  BY <1>1, <1>2, Frames
<1>4. /\ wire' \in Seq(ToCloud)
      /\ \A k \in 1..Len(wire') :
            (k \in 1..Len(wire) /\ wire'[k] = wire[k]) \/ wire'[k] = Ack(handling)
  BY <1>1, <1>2, <1>3, PutFacts
<1>5. ConnectorTypeOK'
  BY <1>1, <1>2, <1>4 DEF ConnectorTypeOK
<1>6. AckInv'
  BY <1>1, <1>3, <1>4 DEF ConnInv, AckInv
<1>7. MemoryInv' /\ RepetitionsRecognised'
  BY <1>1 DEF ConnInv, MemoryInv, RepetitionsRecognised
<1>8. IntentInv'
  <2>1. Unmade' = Unmade
    BY <1>1 DEF Unmade
  <2>2. \A r \in Rid : /\ waiter'[r] \in {"yes", "no"} => verdict[r] = waiter'[r]
                       /\ outcome'[r] \in {"yes", "no"} => verdict[r] = outcome'[r]
    BY <1>1 DEF ConnInv, IntentInv
  <2> QED BY <1>1, <1>3, <1>4, <2>1, <2>2, IntentKept
<1> QED BY <1>5, <1>6, <1>7, <1>8 DEF ConnInv

\* The answer goes to whoever asked, if he still waits.
LEMMA OnIntentResultInv == ASSUME ConnInv, OnIntentResult PROVE ConnInv'
<1>1. /\ inbox # <<>> /\ Head(inbox).type = "result" /\ inbox' = Tail(inbox)
      /\ Settle(Head(inbox).id, IF Head(inbox).ok = "odd" THEN "none" ELSE Head(inbox).ok)
      /\ UNCHANGED <<link, wire, seen, handling, stuck, outcome, verdict, acked, accepted, ended, drops>>
  BY DEF OnIntentResult, Reads
<1>2. ConnectorTypeOK /\ inbox \in Seq(ToGateway) /\ waiter \in [Rid -> {"absent", "pending", "yes", "no", "none"}]
  BY DEF ConnInv, ConnectorTypeOK
<1>3. /\ inbox' \in Seq(ToGateway)
      /\ \A k \in 1..Len(inbox') : \E l \in 1..Len(inbox) : inbox'[k] = inbox[l]
      /\ Head(inbox) = inbox[1] /\ 1 \in 1..Len(inbox) /\ Head(inbox) \in ToGateway
  BY <1>1, <1>2, TailOf
<1>4. PICK q \in Rid, ok \in Answer : q = Head(inbox).id /\ ok = Head(inbox).ok
  BY <1>1, <1>2, <1>3, Frames
<1>5. PICK v \in {"yes", "no", "none"} :
        /\ v = (IF ok = "odd" THEN "none" ELSE ok)
        /\ v \in {"yes", "no"} => v = ok
  BY DEF Answer
<1>6. verdict[q] = ok
  BY <1>1, <1>3, <1>4 DEF ConnInv, IntentInv
<1>7. waiter' = [waiter EXCEPT ![q] = IF waiter[q] = "pending" THEN v ELSE waiter[q]]
  BY <1>1, <1>4, <1>5 DEF Settle
<1>8. /\ waiter' \in [Rid -> {"absent", "pending", "yes", "no", "none"}]
      /\ \A r \in Rid : waiter'[r] = waiter[r] \/ (r = q /\ waiter'[r] = v /\ waiter[r] = "pending")
  BY <1>2, <1>7
<1>9. ConnectorTypeOK'
  BY <1>1, <1>2, <1>3, <1>8 DEF ConnectorTypeOK
<1>10. AckInv' /\ MemoryInv' /\ RepetitionsRecognised'
  BY <1>1 DEF ConnInv, AckInv, MemoryInv, RepetitionsRecognised
<1>11. IntentInv'
  <2>1. Unmade' \subseteq Unmade
    BY <1>1, <1>8 DEF Unmade
  <2>2. \A r \in Rid : /\ waiter'[r] \in {"yes", "no"} => verdict[r] = waiter'[r]
                       /\ outcome'[r] \in {"yes", "no"} => verdict[r] = outcome'[r]
    BY <1>1, <1>5, <1>6, <1>8 DEF ConnInv, IntentInv
  <2> QED BY <1>1, <1>3, <2>1, <2>2, IntentKept
<1> QED BY <1>9, <1>10, <1>11 DEF ConnInv

\* request_print_intent returns: with the answer, after its time, or at once.
LEMMA ReturnInv ==
    ASSUME ConnInv, NEW r \in Rid, NEW value \in {"yes", "no", "none"}, Return(r, value),
           value \in {"yes", "no"} => verdict[r] = value,
           UNCHANGED <<link, inbox, wire, seen, handling, stuck, verdict, acked, accepted, ended, drops>>
    PROVE  ConnInv'
<1>1. /\ outcome' = [outcome EXCEPT ![r] = value]
      /\ waiter' = [waiter EXCEPT ![r] = "absent"]
      /\ ConnectorTypeOK
      /\ waiter \in [Rid -> {"absent", "pending", "yes", "no", "none"}]
      /\ outcome \in [Rid -> {"open", "yes", "no", "none"}]
  BY DEF Return, ConnInv, ConnectorTypeOK
<1>2. /\ waiter' \in [Rid -> {"absent", "pending", "yes", "no", "none"}]
      /\ outcome' \in [Rid -> {"open", "yes", "no", "none"}]
      /\ waiter'[r] = "absent" /\ outcome'[r] = value
      /\ \A q \in Rid \ {r} : waiter'[q] = waiter[q] /\ outcome'[q] = outcome[q]
  BY <1>1
<1>3. ConnectorTypeOK'
  BY <1>1, <1>2 DEF ConnectorTypeOK
<1>4. AckInv' /\ MemoryInv' /\ RepetitionsRecognised'
  BY DEF ConnInv, AckInv, MemoryInv, RepetitionsRecognised
<1>5. IntentInv'
  <2>1. Unmade' \subseteq Unmade
    BY <1>2 DEF Unmade
  <2>2. \A q \in Rid : /\ waiter'[q] \in {"yes", "no"} => verdict[q] = waiter'[q]
                       /\ outcome'[q] \in {"yes", "no"} => verdict[q] = outcome'[q]
    BY <1>2 DEF ConnInv, IntentInv
  <2> QED BY <2>1, <2>2, IntentKept
<1> QED BY <1>3, <1>4, <1>5 DEF ConnInv

\* A request is made: the first frame about it.
LEMMA RequestInv == ASSUME ConnInv, NEW r \in Rid, RequestIntent(r) PROVE ConnInv'
<1>1. CASE link # "up"
  BY <1>1, ReturnInv DEF RequestIntent
<1>2. CASE link = "up"
  <2> DEFINE f == [type |-> "intent", id |-> r]
  <2>1. /\ outcome[r] = "open" /\ waiter[r] = "absent"
        /\ waiter' = [waiter EXCEPT ![r] = "pending"]
        /\ Put(f)
        /\ UNCHANGED <<outcome, link, inbox, seen, handling, stuck, verdict, acked, accepted, ended, drops>>
    BY <1>2 DEF RequestIntent
  <2>2. /\ ConnectorTypeOK /\ f \in ToCloud /\ f.type = "intent" /\ f.id = r
        /\ waiter \in [Rid -> {"absent", "pending", "yes", "no", "none"}]
    BY Frames DEF ConnInv, ConnectorTypeOK
  <2> HIDE DEF f
  <2>3. /\ wire' \in Seq(ToCloud)
        /\ \A k \in 1..Len(wire') : (k \in 1..Len(wire) /\ wire'[k] = wire[k]) \/ wire'[k] = f
        /\ \A j, k \in 1..Len(wire') :
              j # k => (j \in 1..Len(wire) /\ wire'[j] = wire[j])
                       \/ (k \in 1..Len(wire) /\ wire'[k] = wire[k])
    BY <2>1, <2>2, PutFacts
  <2>4. /\ waiter' \in [Rid -> {"absent", "pending", "yes", "no", "none"}]
        /\ waiter'[r] = "pending" /\ \A q \in Rid \ {r} : waiter'[q] = waiter[q]
    BY <2>1, <2>2
  <2>5. r \in Unmade /\ Unmade' = Unmade \ {r} /\ verdict[r] = "none"
    BY <2>1, <2>4 DEF Unmade, ConnInv, IntentInv
  <2>6. ConnectorTypeOK'
    BY <2>1, <2>2, <2>3, <2>4 DEF ConnectorTypeOK
  <2>7. AckInv'
    BY <2>1, <2>2, <2>3 DEF ConnInv, AckInv
  <2>8. MemoryInv' /\ RepetitionsRecognised'
    BY <2>1 DEF ConnInv, MemoryInv, RepetitionsRecognised
  <2>9. IntentInv'
    <3>1. \A k \in 1..Len(wire') : wire'[k].type = "intent"
             => verdict'[wire'[k].id] = "none" /\ wire'[k].id \notin Unmade'
      BY <2>1, <2>2, <2>3, <2>5 DEF ConnInv, IntentInv
    <3>2. ASSUME NEW j \in 1..Len(wire'), NEW k \in 1..Len(wire'), j # k,
                 wire'[j].type = "intent", wire'[k].type = "intent"
          PROVE  wire'[j].id # wire'[k].id
      <4>1. \A l \in 1..Len(wire) : wire[l].type = "intent" => wire[l].id # r
        BY <2>5 DEF ConnInv, IntentInv
      <4>2. CASE wire'[j] = f
        BY <2>2, <2>3, <3>2, <4>1, <4>2
      <4>3. CASE wire'[k] = f
        BY <2>2, <2>3, <3>2, <4>1, <4>3
      <4>4. CASE wire'[j] # f /\ wire'[k] # f
        BY <2>3, <3>2, <4>4 DEF ConnInv, IntentInv
      <4> QED BY <4>2, <4>3, <4>4
    <3>3. \A k \in 1..Len(inbox') : inbox'[k].type = "result" => verdict'[inbox'[k].id] = inbox'[k].ok
      BY <2>1 DEF ConnInv, IntentInv
    <3>4. \A q \in Unmade' : verdict'[q] = "none"
      BY <2>1, <2>5 DEF ConnInv, IntentInv
    <3>5. \A q \in Rid : /\ waiter'[q] \in {"yes", "no"} => verdict'[q] = waiter'[q]
                         /\ outcome'[q] \in {"yes", "no"} => verdict'[q] = outcome'[q]
      BY <2>1, <2>4 DEF ConnInv, IntentInv
    <3> QED BY <3>1, <3>2, <3>3, <3>4, <3>5 DEF IntentInv
  <2> QED BY <2>6, <2>7, <2>8, <2>9 DEF ConnInv
<1> QED BY <1>1, <1>2

\* The answer is returned, or none in time.
LEMMA IntentEndsInv ==
    ASSUME ConnInv, NEW r \in Rid, IntentReturns(r) \/ IntentTimesOut(r)
    PROVE  ConnInv'
<1>1. CASE IntentReturns(r)
  <2>1. /\ waiter[r] \in {"yes", "no", "none"} /\ Return(r, waiter[r])
        /\ waiter[r] \in {"yes", "no"} => verdict[r] = waiter[r]
    BY <1>1 DEF IntentReturns, ConnInv, IntentInv
  <2> QED BY <1>1, <2>1, ReturnInv DEF IntentReturns
<1>2. CASE IntentTimesOut(r)
  BY <1>2, ReturnInv DEF IntentTimesOut
<1> QED BY <1>1, <1>2

\* The cloud sends an order, maybe again.
LEMMA CloudSendsInv == ASSUME ConnInv, NEW i \in Order, CloudSends(i) PROVE ConnInv'
<1> DEFINE f == [type |-> "order", id |-> i]
<1>1. /\ inbox' = Append(inbox, f)
      /\ UNCHANGED <<link, wire, seen, handling, stuck, waiter, outcome, verdict, acked,
                     accepted, ended, drops>>
  BY DEF CloudSends
<1>2. ConnectorTypeOK /\ inbox \in Seq(ToGateway) /\ f \in ToGateway /\ f.type = "order"
  BY Frames DEF ConnInv, ConnectorTypeOK
<1> HIDE DEF f
<1>3. /\ inbox' \in Seq(ToGateway)
      /\ \A k \in 1..Len(inbox') : (k \in 1..Len(inbox) /\ inbox'[k] = inbox[k]) \/ inbox'[k] = f
  BY <1>1, <1>2, AppendTo
<1>4. ConnectorTypeOK'
  BY <1>1, <1>2, <1>3 DEF ConnectorTypeOK
<1>5. AckInv' /\ MemoryInv' /\ RepetitionsRecognised'
  BY <1>1 DEF ConnInv, AckInv, MemoryInv, RepetitionsRecognised
<1>6. IntentInv'
  <2>1. Unmade' = Unmade
    BY <1>1 DEF Unmade
  <2>2. \A r \in Rid : /\ waiter'[r] \in {"yes", "no"} => verdict[r] = waiter'[r]
                       /\ outcome'[r] \in {"yes", "no"} => verdict[r] = outcome'[r]
    BY <1>1 DEF ConnInv, IntentInv
  <2> QED BY <1>1, <1>2, <1>3, <2>1, <2>2, IntentKept
<1> QED BY <1>4, <1>5, <1>6 DEF ConnInv

\* The cloud notes an acknowledgment, or decides on a request and answers it.
LEMMA CloudReadsInv == ASSUME ConnInv, CloudReads PROVE ConnInv'
<1>1. /\ wire # <<>> /\ wire' = Tail(wire)
      /\ UNCHANGED <<link, seen, handling, stuck, waiter, outcome, accepted, ended, drops>>
  BY DEF CloudReads
<1>2. /\ ConnectorTypeOK /\ wire \in Seq(ToCloud) /\ inbox \in Seq(ToGateway)
      /\ verdict \in [Rid -> Answer \cup {"none"}]
  BY DEF ConnInv, ConnectorTypeOK
<1>3. /\ wire' \in Seq(ToCloud)
      /\ Head(wire) = wire[1] /\ 1 \in 1..Len(wire) /\ Head(wire) \in ToCloud
      /\ \A k \in 1..Len(wire') : /\ wire'[k] = wire[k + 1] /\ k + 1 \in 1..Len(wire)
                                  /\ k + 1 # 1
      /\ \A j, k \in 1..Len(wire') : j # k => j + 1 # k + 1
  <2>1. PICK t \in Seq(ToCloud) : t = wire'
    BY <1>1, <1>2, TailOf
  <2>2. \A k \in 1..Len(t) : k \in Nat
    BY <2>1
  <2> QED BY <1>1, <1>2, <2>1, <2>2, TailOf
<1>4. MemoryInv' /\ RepetitionsRecognised' /\ Unmade' = Unmade
  BY <1>1 DEF ConnInv, MemoryInv, RepetitionsRecognised, Unmade
<1>5. /\ \A k \in 1..Len(wire') : wire'[k].type = "intent"
            => verdict[wire'[k].id] = "none" /\ wire'[k].id \notin Unmade
      /\ \A j, k \in 1..Len(wire') :
            j # k /\ wire'[j].type = "intent" /\ wire'[k].type = "intent" => wire'[j].id # wire'[k].id
  <2>1. \A k \in 1..Len(wire') : wire'[k].type = "intent"
           => verdict[wire'[k].id] = "none" /\ wire'[k].id \notin Unmade
    BY <1>3 DEF ConnInv, IntentInv
  <2>2. ASSUME NEW j \in 1..Len(wire'), NEW k \in 1..Len(wire'), j # k,
               wire'[j].type = "intent", wire'[k].type = "intent"
        PROVE  wire'[j].id # wire'[k].id
    <3>1. PICK l \in 1..Len(wire) : l = j + 1
      BY <1>3
    <3>2. PICK m \in 1..Len(wire) : m = k + 1
      BY <1>3
    <3>3. l # m /\ wire'[j] = wire[l] /\ wire'[k] = wire[m]
      BY <1>3, <2>2, <3>1, <3>2
    <3> QED BY <2>2, <3>3 DEF ConnInv, IntentInv
  <2> QED BY <2>1, <2>2
<1>6. CASE Head(wire).type = "ack"
  <2>1. acked' = acked \cup {Head(wire).id} /\ UNCHANGED <<inbox, verdict>>
    BY <1>6 DEF CloudReads
  <2>2. Head(wire).id \in ended /\ Head(wire).id \in Order
    BY <1>2, <1>3, <1>6, Frames DEF ConnInv, AckInv
  <2>3. ConnectorTypeOK'
    BY <1>1, <1>2, <1>3, <2>1, <2>2 DEF ConnectorTypeOK
  <2>4. AckInv'
    BY <1>1, <1>3, <2>1, <2>2 DEF ConnInv, AckInv
  <2>5. IntentInv'
    BY <1>1, <1>4, <1>5, <2>1 DEF ConnInv, IntentInv
  <2> QED BY <1>4, <2>3, <2>4, <2>5 DEF ConnInv
<1>7. CASE Head(wire).type = "intent"
  <2>0. PICK q \in Rid : q = Head(wire).id
    BY <1>2, <1>3, <1>7, Frames
  <2> DEFINE result(ok) == [type |-> "result", id |-> q, ok |-> ok]
  <2>1. PICK ok \in Answer :
          /\ verdict' = [verdict EXCEPT ![q] = ok]
          /\ inbox' = Append(inbox, result(ok))
          /\ acked' = acked
    <3>1. PICK ok \in Answers :
            /\ verdict' = [verdict EXCEPT ![q] = ok]
            /\ inbox' = Append(inbox, result(ok))
            /\ acked' = acked
      BY <1>7, <2>0 DEF CloudReads
    <3>2. ok \in Answer
      BY ConnectorAssumption DEF Answer
    <3> QED BY <3>1, <3>2
  <2>2. PICK f \in ToGateway : f = result(ok) /\ f.id = q /\ f.ok = ok
    <3>1. result(ok) \in ToGateway
      BY <1>2, Frames
    <3> QED BY <3>1
  <2>3. /\ inbox' \in Seq(ToGateway)
        /\ \A k \in 1..Len(inbox') : (k \in 1..Len(inbox) /\ inbox'[k] = inbox[k]) \/ inbox'[k] = f
    BY <1>2, <2>1, <2>2, AppendTo
  <2>4. /\ verdict' \in [Rid -> Answer \cup {"none"}] /\ verdict'[q] = ok
        /\ \A r \in Rid \ {q} : verdict'[r] = verdict[r]
    BY <1>2, <2>1
  <2>5. /\ verdict[q] = "none" /\ q \notin Unmade
        /\ \A k \in 1..Len(wire') : wire'[k].type = "intent" => wire'[k].id # q
    BY <1>3, <1>7, <2>0 DEF ConnInv, IntentInv
  <2>6. \A k \in 1..Len(wire') : wire'[k].type = "intent" => wire'[k].id \in Rid
    <3>1. \A k \in 1..Len(wire') : wire'[k] \in ToCloud
      BY <1>3
    <3> QED BY <1>2, <3>1, Frames
  <2>7. \A k \in 1..Len(inbox) : inbox[k].type = "result"
           => inbox[k].id \in Rid /\ inbox[k].id # q /\ verdict[inbox[k].id] = inbox[k].ok
    <3>1. \A k \in 1..Len(inbox) : inbox[k].type = "result"
             => /\ inbox[k].id \in Rid /\ inbox[k].ok # "none"
                /\ verdict[inbox[k].id] = inbox[k].ok
      BY <1>2, Frames DEF Answer, ConnInv, IntentInv
    <3> QED BY <2>5, <3>1
  <2>8. ConnectorTypeOK'
    BY <1>1, <1>2, <1>3, <2>1, <2>3, <2>4 DEF ConnectorTypeOK
  <2>9. AckInv'
    BY <1>1, <1>3, <2>1 DEF ConnInv, AckInv
  <2>10. IntentInv'
    <3>1. \A k \in 1..Len(wire') : wire'[k].type = "intent"
             => verdict'[wire'[k].id] = "none" /\ wire'[k].id \notin Unmade'
      BY <1>4, <1>5, <2>4, <2>5, <2>6
    <3>2. \A k \in 1..Len(inbox') : inbox'[k].type = "result" => verdict'[inbox'[k].id] = inbox'[k].ok
      BY <2>2, <2>3, <2>4, <2>7
    <3>3. \A r \in Unmade' : verdict'[r] = "none"
      BY <1>4, <2>4, <2>5 DEF ConnInv, IntentInv, Unmade
    <3>4. \A r \in Rid : /\ waiter'[r] \in {"yes", "no"} => verdict'[r] = waiter'[r]
                         /\ outcome'[r] \in {"yes", "no"} => verdict'[r] = outcome'[r]
      BY <1>1, <2>4, <2>5 DEF ConnInv, IntentInv
    <3> QED BY <1>5, <3>1, <3>2, <3>3, <3>4 DEF IntentInv
  <2> QED BY <1>4, <2>8, <2>9, <2>10 DEF ConnInv
<1> QED BY <1>2, <1>3, <1>6, <1>7, Frames

\* A crash forgets the connection, the memory and who waited.
LEMMA ConnectorCrashInv == ASSUME ConnInv, ConnectorCrash PROVE ConnInv'
<1>1. /\ link' = "down" /\ handling' = NoOrder /\ stuck' = FALSE
      /\ UNCHANGED <<verdict, acked, ended, drops>>
      /\ waiter' = [r \in Rid |-> "absent"]
      /\ outcome' = [r \in Rid |-> IF waiter[r] # "absent" THEN "none" ELSE outcome[r]]
  BY DEF ConnectorCrash
<1>2. /\ inbox' \in Seq(ToGateway) /\ wire' \in Seq(ToCloud) /\ seen' \in Seq(Order)
      /\ accepted' \in Seq(Order) /\ DOMAIN accepted' = {}
      /\ Len(inbox') = 0 /\ Len(wire') = 0 /\ Len(seen') = 0 /\ Len(accepted') = 0
  BY DEF ConnectorCrash
<1>3. ConnectorTypeOK'
  <2>1. /\ waiter' \in [Rid -> {"absent", "pending", "yes", "no", "none"}]
        /\ outcome' \in [Rid -> {"open", "yes", "no", "none"}]
    BY <1>1 DEF ConnInv, ConnectorTypeOK
  <2>2. Len(seen') <= SeenMax
    BY <1>2, ConnectorAssumption
  <2>3. stuck' \in BOOLEAN /\ handling' \in Order \cup {NoOrder} /\ link' \in {"down", "up", "lost"}
    BY <1>1
  <2>4. /\ verdict' \in [Rid -> Answer \cup {"none"}] /\ drops' \in 0..MaxDrops
        /\ acked' \subseteq Order /\ ended' \subseteq Order
    BY <1>1 DEF ConnInv, ConnectorTypeOK
  <2> QED BY <1>2, <2>1, <2>2, <2>3, <2>4 DEF ConnectorTypeOK
<1>4. AckInv' /\ MemoryInv' /\ RepetitionsRecognised'
  BY <1>1, <1>2, ConnectorAssumption DEF ConnInv, AckInv, MemoryInv, RepetitionsRecognised
<1>5. IntentInv'
  <2>1. Unmade' \subseteq Unmade
    BY <1>1 DEF Unmade
  <2>2. \A r \in Rid : /\ waiter'[r] \in {"yes", "no"} => verdict[r] = waiter'[r]
                       /\ outcome'[r] \in {"yes", "no"} => verdict[r] = outcome'[r]
    BY <1>1 DEF ConnInv, IntentInv
  <2>3. (\A k \in 1..Len(wire') : FALSE) /\ \A k \in 1..Len(inbox') : FALSE
    BY <1>2
  <2> QED BY <1>1, <2>1, <2>2, <2>3, IntentKept
<1> QED BY <1>3, <1>4, <1>5 DEF ConnInv

-----------------------------------------------------------------------------
(* Gateway.                                                                *)

IInv == PairInv /\ ConnInv /\ crashes \in 0..MaxCrashes

\* A step of the one leaves the other alone; a crash is both.
LEMMA NextInv ==
    ASSUME IInv, [Next]_gatewayVars
    PROVE  IInv' /\ (token # NoCode => token' = token)
<1>1. CASE Pairs
  <2>1. PairInv' /\ (token # NoCode => token' = token)
    BY <1>1, PairingStepInv DEF Pairs, IInv
  <2>2. ConnInv'
    BY <1>1 DEF Pairs, connVars, IInv, ConnInv, ConnectorTypeOK, AckInv, MemoryInv, IntentInv,
                Unmade, RepetitionsRecognised
  <2> QED BY <1>1, <2>1, <2>2 DEF Pairs, IInv
<1>2. CASE Connects
  <2>1. ConnInv'
    BY <1>2, LinkInv, OnOrderInv, HandlerEndsInv, OnIntentResultInv, RequestInv, IntentEndsInv,
       CloudSendsInv, CloudReadsInv DEF Connects, ConnectorStep, IInv
  <2>2. PairInv' /\ token' = token
    BY <1>2 DEF Connects, pairVars, IInv, PairInv, PairingTypeOK, NoCodeWasted
  <2> QED BY <1>2, <2>1, <2>2 DEF Connects, IInv
<1>3. CASE Crash
  <2>1. crashes' \in 0..MaxCrashes
    BY <1>3, GatewayAssumption DEF Crash, IInv
  <2> QED BY <1>3, <2>1, PairingCrashInv, ConnectorCrashInv DEF Crash, IInv
<1>4. CASE UNCHANGED gatewayVars
  BY <1>4 DEF gatewayVars, pairVars, connVars, IInv, PairInv, PairingTypeOK, NoCodeWasted, ConnInv,
              ConnectorTypeOK, AckInv, MemoryInv, IntentInv, Unmade, RepetitionsRecognised
<1> QED BY <1>1, <1>2, <1>3, <1>4 DEF Next

\* The invariant holds always.
LEMMA Inductive == Spec => []IInv
<1>1. Init => IInv
  BY PairInit, ConnInit, GatewayAssumption DEF Init, IInv
<1>2. IInv /\ [Next]_gatewayVars => IInv'
  BY NextInv
<1> QED BY <1>1, <1>2, PTL DEF Spec

-----------------------------------------------------------------------------

\* Every variable keeps its type, and the memory its bound.
THEOREM TypeCorrect == Spec => []TypeOK
<1>1. IInv => TypeOK
  BY DEF IInv, PairInv, ConnInv, TypeOK
<1> QED BY <1>1, Inductive, PTL

\* What the cloud gave for a code is in the spool, on its way, or was lost with
\* an answer.
THEOREM CodesAreUsed == Spec => []NoCodeWasted
<1>1. IInv => NoCodeWasted
  BY DEF IInv, PairInv
<1> QED BY <1>1, Inductive, PTL

\* A paired gateway keeps its token.
THEOREM StaysPaired == Spec => PairedForGood
<1>1. IInv /\ [Next]_gatewayVars => [token # NoCode => token' = token]_pairVars
  BY NextInv
<1>2. IInv /\ UNCHANGED gatewayVars => UNCHANGED pairVars
  BY DEF gatewayVars
<1> QED BY <1>1, <1>2, Inductive, PTL DEF Spec, PairedForGood

\* No handler is called twice for an order in one run of the process, unless
\* more than SeenMax other orders came between.
THEOREM OrdersHandledOnce == Spec => []RepetitionsRecognised
<1>1. IInv => RepetitionsRecognised
  BY DEF IInv, ConnInv
<1> QED BY <1>1, Inductive, PTL

\* What the cloud sees acknowledged has been handled to the end.
THEOREM HandledBeforeAcked == Spec => []AckedIsHandled
<1>1. IInv => AckedIsHandled
  BY DEF IInv, ConnInv, AckInv, AckedIsHandled
<1> QED BY <1>1, Inductive, PTL

\* A permission is the cloud's answer to this very request.
THEOREM AnswersAreOwn == Spec => []PermissionIsOwn
<1>1. IInv => PermissionIsOwn
  BY DEF IInv, ConnInv, IntentInv, PermissionIsOwn
<1> QED BY <1>1, Inductive, PTL
=============================================================================
