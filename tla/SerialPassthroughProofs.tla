------------------------ MODULE SerialPassthroughProofs ------------------------
(***************************************************************************)
(* Theorems about SerialPassthrough, for any number of clients, chunks and *)
(* configurations and queues of any size.  The invariant says of every     *)
(* client how its queue continues what it was sent: up to the first        *)
(* sentinel the queue has the chunks that follow, without a gap.           *)
(***************************************************************************)
EXTENDS SerialPassthrough, TLAPS

\* No sentinel in the queue.
Clean(q) == \A k \in 1..Len(q) : q[k] # End

\* What comes before the sentinel continues base.
InOrder(q, base) ==
    \A i \in 1..Len(q) : (\A k \in 1..i : q[k] # End) => q[i] = base + i

ClientInv(c) ==
    /\ conn[c] \notin Handling => c \notin clients /\ queue[c] = <<>> /\ ~watched[c]
    /\ conn[c] \in {"none", "accepted"} => written[c] = <<>>
    /\ \A i \in 1..Len(written[c]) : written[c][i] = joined[c] + i
    /\ InOrder(queue[c], joined[c] + Len(written[c]))
    /\ c \in clients /\ Clean(queue[c])
          => joined[c] + Len(written[c]) + Len(queue[c]) = chunks
    /\ conn[c] \in Handling /\ c \notin clients => ~Clean(queue[c])

\* Where the reader stands tells what is listening, until the process ends.
TaskInv ==
    run = "running" =>
        CASE reader = "idle"     -> server \in {"off", applied} /\ listening = server
          [] reader = "starting" -> /\ server = "off" /\ listening = config.addr
                                    /\ applied = config.addr
          [] reader = "stopping" -> /\ server # "off" /\ listening = "off"
                                    /\ applied = Wanted(config)

IInv == TypeOK /\ TaskInv /\ \A c \in Client : ClientInv(c)

-----------------------------------------------------------------------------
(* Queues.                                                                 *)

\* A queue that goes on with the next chunk, or with a sentinel.
LEMMA AppendFacts ==
    ASSUME NEW q \in Seq(Nat), NEW base \in Nat, InOrder(q, base),
           NEW x \in Nat, x = End \/ (Clean(q) => x = base + Len(q) + 1)
    PROVE  /\ Append(q, x) \in Seq(Nat) /\ Len(Append(q, x)) = Len(q) + 1
           /\ InOrder(Append(q, x), base)
           /\ Clean(Append(q, x)) => Clean(q) /\ x # End
<1> DEFINE e == Append(q, x)
<1>1. PICK n \in Nat : n = Len(q)
  OBVIOUS
<1>2. /\ e \in Seq(Nat) /\ Len(e) = n + 1 /\ e[n + 1] = x
      /\ \A i \in 1..n : e[i] = q[i]
  BY <1>1
<1> HIDE DEF e
<1>3. ASSUME NEW i \in 1..Len(e), \A l \in 1..i : e[l] # End PROVE e[i] = base + i
  <2>1. \A l \in 1..i : l <= n => l \in 1..n /\ q[l] # End
    BY <1>2, <1>3
  <2>2. CASE i <= n
    <3>1. \A l \in 1..i : q[l] # End
      BY <1>1, <2>1, <2>2
    <3>2. i \in 1..Len(q) /\ e[i] = q[i]
      BY <1>1, <1>2, <2>2
    <3> QED BY <3>1, <3>2 DEF InOrder
  <2>3. CASE i = n + 1
    <3>1. Clean(q)
      BY <1>1, <2>1, <2>3 DEF Clean
    <3>2. x # End
      BY <1>2, <1>3, <2>3
    <3> QED BY <1>1, <1>2, <2>3, <3>1, <3>2
  <2> QED BY <1>2, <2>2, <2>3
<1>4. Clean(e) => Clean(q) /\ x # End
  BY <1>1, <1>2 DEF Clean
<1> QED BY <1>1, <1>2, <1>3, <1>4 DEF InOrder, e

\* _end_client leaves a sentinel, and what is before it in order.
LEMMA EndClientFacts ==
    ASSUME NEW q \in Seq(Nat), Len(q) <= QueueMax, NEW base \in Nat, InOrder(q, base)
    PROVE  /\ EndClient(q) \in Seq(Nat) /\ Len(EndClient(q)) <= QueueMax
           /\ InOrder(EndClient(q), base) /\ ~Clean(EndClient(q))
<1>0. End \in Nat
  BY DEF End
<1>1. CASE Len(q) < QueueMax
  <2>1. EndClient(q) = Append(q, End)
    BY <1>1 DEF EndClient
  <2>2. /\ Append(q, End) \in Seq(Nat) /\ Len(Append(q, End)) = Len(q) + 1
        /\ InOrder(Append(q, End), base) /\ ~Clean(Append(q, End))
    BY <1>0, AppendFacts
  <2> QED BY <1>1, <2>1, <2>2, FanOutAssumption
<1>2. CASE ~(Len(q) < QueueMax)
  <2>1. EndClient(q) = <<End>>
    BY <1>2 DEF EndClient
  <2>2. <<End>> \in Seq(Nat) /\ Len(<<End>>) = 1 /\ <<End>>[1] = End
    BY <1>0
  <2>3. InOrder(<<End>>, base) /\ ~Clean(<<End>>) /\ 1 <= QueueMax
    BY <2>2, FanOutAssumption DEF InOrder, Clean
  <2> QED BY <2>1, <2>2, <2>3
<1> QED BY <1>1, <1>2

\* broadcast continues a queue, or ends it.
LEMMA OfferFacts ==
    ASSUME NEW q \in Seq(Nat), Len(q) <= QueueMax, NEW base \in Nat, InOrder(q, base),
           NEW k \in Nat \ {0}, Clean(q) => base + Len(q) + 1 = k
    PROVE  /\ Offer(q, k) \in Seq(Nat) /\ Len(Offer(q, k)) <= QueueMax
           /\ InOrder(Offer(q, k), base)
           /\ Clean(Offer(q, k)) => base + Len(Offer(q, k)) = k
           /\ Len(q) = QueueMax => ~Clean(Offer(q, k))
<1>1. CASE Len(q) < QueueMax
  <2>1. Offer(q, k) = Append(q, k)
    BY <1>1 DEF Offer
  <2>2. /\ Append(q, k) \in Seq(Nat) /\ Len(Append(q, k)) = Len(q) + 1
        /\ InOrder(Append(q, k), base)
        /\ Clean(Append(q, k)) => Clean(q) /\ k # End
    BY AppendFacts
  <2> QED BY <1>1, <2>1, <2>2, FanOutAssumption
<1>2. CASE ~(Len(q) < QueueMax)
  BY <1>2, EndClientFacts DEF Offer
<1> QED BY <1>1, <1>2

\* The handler takes the next chunk from its queue.
LEMMA TailFacts ==
    ASSUME NEW q \in Seq(Nat), q # <<>>, Head(q) # End, NEW base \in Nat, InOrder(q, base)
    PROVE  /\ Head(q) = base + 1 /\ Tail(q) \in Seq(Nat) /\ Len(Tail(q)) + 1 = Len(q)
           /\ Len(Tail(q)) \in Nat
           /\ InOrder(Tail(q), base + 1)
           /\ Clean(q) <=> Clean(Tail(q))
<1> DEFINE t == Tail(q)
<1>1. /\ t \in Seq(Nat) /\ Len(q) \in Nat /\ Len(q) = Len(t) + 1 /\ Len(t) \in Nat
      /\ \A i \in 1..Len(t) : t[i] = q[i + 1]
      /\ q[1] = Head(q) /\ 1 \in 1..Len(q)
  OBVIOUS
<1> HIDE DEF t
<1>2. Head(q) = base + 1
  <2>1. \A k \in 1..1 : q[k] # End
    BY <1>1
  <2> QED BY <1>1, <2>1 DEF InOrder
<1>3. ASSUME NEW i \in 1..Len(t), \A l \in 1..i : t[l] # End PROVE t[i] = base + 1 + i
  <2>1. ASSUME NEW l \in 1..(i + 1) PROVE q[l] # End
    <3>1. CASE l = 1
      BY <1>1, <3>1
    <3>2. CASE l # 1
      <4>1. l - 1 \in 1..i /\ l - 1 \in 1..Len(t) /\ (l - 1) + 1 = l
        BY <1>1, <3>2
      <4> QED BY <1>1, <1>3, <4>1
    <3> QED BY <3>1, <3>2
  <2>2. i + 1 \in 1..Len(q) /\ t[i] = q[i + 1]
    BY <1>1
  <2>3. q[i + 1] = base + (i + 1)
    BY <2>1, <2>2 DEF InOrder
  <2> QED BY <2>2, <2>3
<1>4. Clean(q) <=> Clean(t)
  <2>1. ASSUME Clean(q), NEW k \in 1..Len(t) PROVE t[k] # End
    BY <1>1, <2>1 DEF Clean
  <2>2. ASSUME Clean(t), NEW k \in 1..Len(q) PROVE q[k] # End
    <3>1. CASE k = 1
      BY <1>1, <3>1
    <3>2. CASE k # 1
      <4>1. k - 1 \in 1..Len(t) /\ (k - 1) + 1 = k
        BY <1>1, <3>2
      <4> QED BY <1>1, <2>2, <4>1 DEF Clean
    <3> QED BY <3>1, <3>2
  <2> QED BY <2>1, <2>2 DEF Clean
<1> QED BY <1>1, <1>2, <1>3, <1>4 DEF InOrder, t

-----------------------------------------------------------------------------
(* Steps.                                                                  *)

\* Whatever is noted of a configuration is one, and asks for an address.
LEMMA Configs ==
    /\ \A cfg \in Config : Wanted(cfg) \in Address \cup {"off"}
    /\ config \in Config =>
          \A cfg \in Payloads : cfg \in Config /\ HalfNoted(cfg) \subseteq Config
<1>1. ASSUME NEW cfg \in Config PROVE Wanted(cfg) \in Address \cup {"off"}
  BY DEF Config, Wanted
<1>2. ASSUME config \in Config, NEW cfg \in Payloads, NEW half \in HalfNoted(cfg)
      PROVE  half \in Config
  <2>1. cfg \in Config
    BY PayloadsAssumption
  <2>2. CASE half = config \/ half = [config EXCEPT !.enabled = cfg.enabled]
             \/ half = [cfg EXCEPT !.allow = config.allow]
    BY <1>2, <2>1, <2>2 DEF Config
  <2>3. CASE \E a \in Address \cup {cfg.addr} :
                half = [config EXCEPT !.enabled = cfg.enabled, !.addr = a]
    BY <1>2, <2>1, <2>3 DEF Config
  <2> QED BY <1>2, <2>2, <2>3 DEF HalfNoted
<1> QED BY <1>1, <1>2, PayloadsAssumption

\* Nobody is connected when the gateway starts.
LEMMA InitInv == Init => IInv
<1> SUFFICES ASSUME Init PROVE IInv
  OBVIOUS
<1>1. <<>> \in Seq(Nat) /\ Len(<<>>) = 0
  OBVIOUS
<1>2. TypeOK
  <2>1. config \in Config /\ Wanted(config) \in Address \cup {"off"}
    BY Configs, PayloadsAssumption DEF Init
  <2> QED BY <1>1, <2>1, FanOutAssumption DEF Init, TypeOK, Attached, Handling
<1>3. ASSUME NEW c \in Client PROVE ClientInv(c)
  BY <1>1 DEF Init, ClientInv, InOrder, Handling
<1>4. TaskInv
  BY DEF Init, TaskInv
<1> QED BY <1>2, <1>3, <1>4 DEF IInv

\* What the invariant says about types, in the form the steps use.
LEMMA Typing ==
    ASSUME IInv
    PROVE  /\ \A c \in Client : /\ queue[c] \in Seq(Nat) /\ Len(queue[c]) <= QueueMax
                                /\ written[c] \in Seq(Nat) /\ Len(written[c]) \in Nat
                                /\ joined[c] \in Nat /\ joined[c] + Len(written[c]) \in Nat
                                /\ ClientInv(c)
           /\ queue \in [Client -> Seq(Nat)] /\ written \in [Client -> Seq(Nat)]
           /\ conn \in [Client -> Attached \cup {"none", "gone", "lost"}]
           /\ watched \in [Client -> BOOLEAN] /\ joined \in [Client -> 0..MaxChunks]
           /\ taken \in [Client -> Nat] /\ peer \in [Client -> {"away", "here", "left"}]
           /\ clients \subseteq Client /\ chunks \in Nat
  BY FanOutAssumption DEF IInv, TypeOK

\* A client that a step does not touch.
LEMMA ClientKept ==
    ASSUME NEW c \in Client, ClientInv(c), chunks' = chunks, c \in clients' <=> c \in clients,
           conn'[c] = conn[c], queue'[c] = queue[c], watched'[c] = watched[c],
           written'[c] = written[c], joined'[c] = joined[c]
    PROVE  ClientInv(c)'
  BY DEF ClientInv, InOrder, Clean

\* A client whose handler goes from one place to another of its loop, or of
\* the ways out of it.
LEMMA ClientMoves ==
    ASSUME NEW c \in Client, ClientInv(c), chunks' = chunks, c \in clients' <=> c \in clients,
           (conn[c] \in Handling <=> conn'[c] \in Handling) /\ conn'[c] # "none",
           conn'[c] = "accepted" => conn[c] \in {"none", "accepted"},
           queue'[c] = queue[c], watched'[c] = watched[c],
           written'[c] = written[c], joined'[c] = joined[c]
    PROVE  ClientInv(c)'
  BY DEF ClientInv, InOrder, Clean

\* Every queue gets the chunk, or its end.
LEMMA BroadcastInv == ASSUME IInv, Broadcast PROVE IInv'
<1>1. /\ chunks \in Nat /\ chunks' = chunks + 1 /\ chunks' \in 0..MaxChunks
      /\ chunks + 1 \in Nat \ {0}
      /\ queue' = [c \in Client |-> IF c \in clients THEN Offer(queue[c], chunks + 1) ELSE queue[c]]
      /\ clients' = clients \ {c \in clients : Len(queue[c]) = QueueMax}
      /\ UNCHANGED <<tasks, conn, watched, lines>>
  BY FanOutAssumption DEF Broadcast, CutSlow, TooSlow, IInv, TypeOK
<1>2. UNCHANGED <<config, applied, server, listening, reader, run, syncs, conn, watched,
                  written, taken, peer, joined>>
  BY <1>1 DEF tasks, lines
<1>3. ASSUME NEW c \in Client
      PROVE  /\ queue'[c] \in Seq(Nat) /\ Len(queue'[c]) <= QueueMax /\ ClientInv(c)'
  <2> DEFINE base == joined[c] + Len(written[c])
             new  == Offer(queue[c], chunks + 1)
  <2>1. CASE c \notin clients
    BY <1>1, <1>2, <2>1, Typing DEF ClientInv, InOrder, Clean
  <2>2. CASE c \in clients
    <3>1. /\ base \in Nat /\ queue[c] \in Seq(Nat) /\ Len(queue[c]) <= QueueMax
          /\ InOrder(queue[c], base) /\ conn[c] \in Handling
          /\ Clean(queue[c]) => base + Len(queue[c]) + 1 = chunks + 1
      BY <2>2, Typing DEF ClientInv
    <3>2. queue'[c] = new
      BY <1>1, <2>2
    <3>3. /\ new \in Seq(Nat) /\ Len(new) <= QueueMax /\ InOrder(new, base)
          /\ Clean(new) => base + Len(new) = chunks + 1
          /\ Len(queue[c]) = QueueMax => ~Clean(new)
      <4> HIDE DEF base
      <4> QED BY <1>1, <3>1, OfferFacts
    <3>4. c \notin clients' => ~Clean(new)
      BY <1>1, <2>2, <3>3
    <3> HIDE DEF new
    <3>5. /\ InOrder(queue[c], joined[c] + Len(written[c]))'
          /\ Clean(queue[c])' <=> Clean(new)
      BY <1>2, <3>2, <3>3 DEF InOrder, Clean
    <3>6. /\ conn'[c] \in Handling
          /\ written'[c] = written[c] /\ joined'[c] = joined[c]
      BY <1>2, <3>1
    <3>7. ClientInv(c)
      BY Typing
    <3>8. conn'[c] \notin {"none", "accepted"}
      BY <3>6 DEF Handling
    <3>9. ClientInv(c)'
      BY <1>1, <1>2, <3>2, <3>3, <3>4, <3>5, <3>6, <3>7, <3>8 DEF ClientInv
    <3> QED BY <3>2, <3>3, <3>9
  <2> QED BY <2>1, <2>2
<1>4. TypeOK'
  <2>1. queue' \in [Client -> Seq(Nat)]
    BY <1>1, <1>3
  <2> QED BY <1>1, <1>2, <1>3, <2>1 DEF IInv, TypeOK
<1>5. TaskInv'
  BY <1>2 DEF IInv, TaskInv, Wanted
<1> QED BY <1>3, <1>4, <1>5 DEF IInv

\* A connection is made, and admitted or not.
LEMMA ArrivalInv ==
    ASSUME IInv, NEW c \in Client, Accept(c) \/ HandleStarts(c)
    PROVE  IInv'
<1>1. /\ UNCHANGED <<config, applied, server, listening, reader, run, syncs, queue, written, taken, chunks>>
      /\ clients' \subseteq Client
      /\ conn' \in [Client -> Attached \cup {"none", "gone", "lost"}]
      /\ peer' \in [Client -> {"away", "here", "left"}]
      /\ watched' \in [Client -> BOOLEAN] /\ joined' \in [Client -> 0..MaxChunks]
  <2>1. CASE Accept(c)
    BY <2>1, Typing DEF Accept, tasks, Attached
  <2>2. CASE HandleStarts(c)
    <3>1. chunks \in 0..MaxChunks
      BY DEF IInv, TypeOK
    <3>2. CASE Register(c)
      <4>1. joined' \in [Client -> 0..MaxChunks]
        BY <3>1, <3>2, Typing DEF Register
      <4>2. conn' \in [Client -> Attached \cup {"none", "gone", "lost"}]
        BY <3>2, Typing DEF Register, Attached, Handling
      <4>3. watched' \in [Client -> BOOLEAN] /\ clients' \subseteq Client
        BY <3>2, Typing DEF Register
      <4> QED BY <2>2, <4>1, <4>2, <4>3, Typing DEF HandleStarts, tasks
    <3>3. CASE ~Register(c)
      <4>1. /\ UNCHANGED <<clients, watched, joined>>
            /\ conn' = [conn EXCEPT ![c] = "gone"]
        BY <2>2, <3>3 DEF HandleStarts
      <4>2. conn' \in [Client -> Attached \cup {"none", "gone", "lost"}]
        BY <4>1, Typing
      <4> QED BY <2>2, <4>1, <4>2, Typing DEF HandleStarts, tasks
    <3> QED BY <3>2, <3>3
  <2> QED BY <2>1, <2>2
<1>2. TypeOK'
  BY <1>1 DEF IInv, TypeOK
<1>3. TaskInv'
  BY <1>1 DEF IInv, TaskInv, Wanted
<1>4. ASSUME NEW d \in Client, d # c PROVE ClientInv(d)'
  <2>1. /\ conn'[d] = conn[d] /\ watched'[d] = watched[d] /\ joined'[d] = joined[d]
        /\ d \in clients' <=> d \in clients
    BY <1>4, Typing DEF Accept, HandleStarts, Register
  <2> QED BY <1>1, <2>1, ClientKept, Typing
<1>5. ClientInv(c)'
  <2>1. /\ conn[c] \in {"none", "accepted"} /\ conn[c] \notin Handling
        /\ c \notin clients /\ queue[c] = <<>> /\ ~watched[c] /\ written[c] = <<>>
    BY Typing DEF Accept, HandleStarts, Handling, ClientInv
  <2>2. CASE Accept(c)
    <3>1. conn'[c] = "accepted" /\ UNCHANGED <<clients, watched, joined>>
      BY <2>2, Typing DEF Accept
    <3> QED BY <1>1, <2>1, <3>1, ClientMoves, Typing DEF Handling
  <2>3. CASE HandleStarts(c) /\ ~Admits(c)
    <3>1. conn'[c] = "gone" /\ UNCHANGED <<clients, watched, joined>>
      BY <2>3, Typing DEF HandleStarts
    <3> QED BY <1>1, <2>1, <3>1, ClientMoves, Typing DEF Handling
  <2>4. CASE HandleStarts(c) /\ Register(c)
    <3>1. /\ conn'[c] = "waiting" /\ c \in clients' /\ joined'[c] = chunks
          /\ queue'[c] = <<>> /\ written'[c] = <<>> /\ chunks' = chunks
      BY <1>1, <2>1, <2>4, Typing DEF Register
    <3>2. Len(<<>>) = 0 /\ chunks \in Nat
      BY Typing
    <3> QED BY <3>1, <3>2 DEF ClientInv, InOrder, Clean, Handling
  <2> QED BY <2>2, <2>3, <2>4 DEF HandleStarts
<1> QED BY <1>2, <1>3, <1>4, <1>5 DEF IInv

\* The next chunk is written.
LEMMA WriteChunkInv == ASSUME IInv, NEW c \in Client, WriteChunk(c) PROVE IInv'
<1> DEFINE q    == queue[c]
           w    == written[c]
           base == joined[c] + Len(w)
<1>1. /\ conn[c] = "waiting" /\ q # <<>> /\ Head(q) # End
      /\ queue' = [queue EXCEPT ![c] = Tail(q)]
      /\ written' = [written EXCEPT ![c] = Append(w, Head(q))]
      /\ \E at \in {"drain", "waiting"} : conn' = [conn EXCEPT ![c] = at]
      /\ UNCHANGED <<config, applied, server, listening, reader, run, syncs, clients, watched,
                     taken, peer, joined, chunks>>
  BY DEF WriteChunk, tasks
<1>2. /\ q \in Seq(Nat) /\ w \in Seq(Nat) /\ base \in Nat /\ joined[c] \in Nat /\ Len(w) \in Nat
      /\ Len(q) <= QueueMax /\ ClientInv(c) /\ InOrder(q, base) /\ chunks \in Nat
  BY Typing DEF ClientInv
<1>3. /\ Head(q) = base + 1 /\ Tail(q) \in Seq(Nat) /\ Len(Tail(q)) + 1 = Len(q)
      /\ Len(Tail(q)) \in Nat
      /\ InOrder(Tail(q), base + 1)
      /\ Clean(q) <=> Clean(Tail(q))
  <2> HIDE DEF q, base
  <2> QED BY <1>1, <1>2, TailFacts
<1>4. PICK j \in Nat, n \in Nat, m \in Nat : j = joined[c] /\ n = Len(w) /\ m = Len(q)
  BY <1>2
<1>5. base = j + n
  BY <1>4
<1>6. /\ Append(w, Head(q)) \in Seq(Nat) /\ Len(Append(w, Head(q))) = n + 1
      /\ \A i \in 1..(n + 1) : Append(w, Head(q))[i] = j + i
  <2>1. PICK x \in Nat : x = Head(q) /\ x = j + n + 1
    BY <1>3, <1>5
  <2>2. \A i \in 1..n : w[i] = j + i
    BY <1>2, <1>4 DEF ClientInv
  <2>3. /\ Append(w, x) \in Seq(Nat) /\ Len(Append(w, x)) = n + 1
        /\ \A i \in 1..n : Append(w, x)[i] = w[i]
        /\ Append(w, x)[n + 1] = x
    BY <1>2, <1>4
  <2>4. \A i \in 1..(n + 1) : i \in 1..n \/ i = n + 1
    OBVIOUS
  <2>5. \A i \in 1..n : Append(w, x)[i] = j + i
    BY <2>2, <2>3
  <2>6. \A i \in 1..(n + 1) : Append(w, x)[i] = j + i
    BY <2>1, <2>3, <2>4, <2>5
  <2> QED BY <2>1, <2>3, <2>6
<1>7. /\ queue'[c] = Tail(q) /\ written'[c] = Append(w, Head(q)) /\ conn'[c] \in Handling
      /\ \A d \in Client \ {c} : /\ queue'[d] = queue[d] /\ written'[d] = written[d]
                                 /\ conn'[d] = conn[d]
  BY <1>1, Typing DEF Handling
<1>8. ClientInv(c)'
  <2>1. joined'[c] = j /\ Len(written'[c]) = n + 1
    BY <1>1, <1>4, <1>6, <1>7
  <2>2. (joined[c] + Len(written[c]))' = j + n + 1
    BY <2>1
  <2>3. \A i \in 1..Len(written'[c]) : written'[c][i] = joined'[c] + i
    BY <1>6, <1>7, <2>1
  <2>4. InOrder(queue'[c], (joined[c] + Len(written[c]))')
    BY <1>3, <1>5, <1>7, <2>2
  <2>5. c \in clients' /\ Clean(queue'[c])
           => (joined[c] + Len(written[c]))' + Len(queue'[c]) = chunks'
    <3>1. PICK t \in Nat : t = Len(queue'[c]) /\ t + 1 = m
      BY <1>3, <1>4, <1>7
    <3>2. c \in clients' /\ Clean(queue'[c]) => c \in clients /\ Clean(q)
      BY <1>1, <1>3, <1>7
    <3>3. c \in clients /\ Clean(q) => j + n + m = chunks
      BY <1>2, <1>4, <1>5 DEF ClientInv
    <3>4. chunks' = chunks
      BY <1>1
    <3> HIDE DEF q, w, base
    <3> QED BY <2>2, <3>1, <3>2, <3>3, <3>4
  <2>6. c \notin clients' => ~Clean(queue'[c])
    BY <1>1, <1>2, <1>3, <1>7 DEF ClientInv, Handling
  <2>7. conn'[c] \notin {"none", "accepted"}
    BY <1>7 DEF Handling
  <2> QED BY <1>7, <2>3, <2>4, <2>5, <2>6, <2>7 DEF ClientInv, InOrder, Clean
<1>9. ASSUME NEW d \in Client, d # c PROVE ClientInv(d)'
  BY <1>1, <1>7, <1>9, ClientKept, Typing
<1>10. TypeOK'
  <2>1. queue' \in [Client -> Seq(Nat)] /\ written' \in [Client -> Seq(Nat)]
    BY <1>1, <1>3, <1>6, Typing
  <2>2. conn' \in [Client -> Attached \cup {"none", "gone", "lost"}]
    BY <1>1, Typing DEF Attached, Handling
  <2>3. \A d \in Client : Len(queue'[d]) <= QueueMax
    <3>1. Len(Tail(q)) <= QueueMax
      <4>1. PICK t \in Nat : t = Len(Tail(q)) /\ t + 1 = m
        BY <1>3, <1>4
      <4>2. m <= QueueMax
        BY <1>2, <1>4
      <4> QED BY <4>1, <4>2, FanOutAssumption
    <3> QED BY <1>7, <3>1, Typing
  <2> QED BY <1>1, <2>1, <2>2, <2>3 DEF IInv, TypeOK
<1>11. TaskInv'
  BY <1>1 DEF IInv, TaskInv, Wanted
<1> QED BY <1>8, <1>9, <1>10, <1>11 DEF IInv

\* The handler leaves its loop and the registry.
LEMMA LeaveInv ==
    ASSUME IInv, NEW c \in Client, NEW to \in {"closing", "lost"}, LeaveLoop(c, to),
           conn[c] \in Handling, UNCHANGED <<tasks, lines, chunks>>
    PROVE  IInv'
<1>1. /\ UNCHANGED <<config, applied, server, listening, reader, run, syncs, written, taken,
                     peer, joined, chunks>>
      /\ clients' = clients \ {c}
      /\ conn' = [conn EXCEPT ![c] = to]
      /\ watched' = [watched EXCEPT ![c] = FALSE]
      /\ queue' = [queue EXCEPT ![c] = <<>>]
  BY DEF LeaveLoop, Discard, tasks, lines
<1>2. <<>> \in Seq(Nat) /\ Len(<<>>) = 0 /\ 0 <= QueueMax
  BY FanOutAssumption
<1>3. /\ conn'[c] = to /\ queue'[c] = <<>> /\ ~watched'[c] /\ c \notin clients'
      /\ \A d \in Client \ {c} : /\ queue'[d] = queue[d] /\ watched'[d] = watched[d]
                                 /\ conn'[d] = conn[d] /\ (d \in clients' <=> d \in clients)
  BY <1>1, Typing
<1>4. TypeOK'
  BY <1>1, <1>2, <1>3, Typing DEF IInv, TypeOK, Attached
<1>5. TaskInv'
  BY <1>1 DEF IInv, TaskInv, Wanted
<1>6. ClientInv(c)'
  BY <1>1, <1>2, <1>3, Typing DEF ClientInv, InOrder, Clean, Handling
<1>7. ASSUME NEW d \in Client, d # c PROVE ClientInv(d)'
  BY <1>1, <1>3, <1>7, ClientKept, Typing
<1> QED BY <1>4, <1>5, <1>6, <1>7 DEF IInv

\* drain returns, the connection closes, the client reads or leaves.
LEMMA QuietInv ==
    ASSUME IInv, NEW c \in Client,
           Drained(c) \/ Closed(c) \/ ClientReads(c) \/ ClientLeaves(c)
    PROVE  IInv'
<1>1. /\ UNCHANGED <<config, applied, server, listening, reader, run, syncs, clients, watched, queue,
                     written, joined, chunks>>
      /\ conn' \in [Client -> Attached \cup {"none", "gone", "lost"}]
      /\ peer' \in [Client -> {"away", "here", "left"}] /\ taken' \in [Client -> Nat]
      /\ \A d \in Client : \/ conn'[d] = conn[d]
                           \/ conn[d] = "drain" /\ conn'[d] = "waiting"
                           \/ conn[d] = "closing" /\ conn'[d] \in {"gone", "lost"}
  <2>1. CASE Drained(c)
    BY <2>1, Typing DEF Drained, tasks, lines, Attached, Handling
  <2>2. CASE Closed(c)
    BY <2>2, Typing DEF Closed, tasks, lines, Attached, Handling
  <2>3. CASE ClientReads(c)
    <3>1. taken' \in [Client -> Nat]
      BY <2>3, Typing DEF ClientReads
    <3> QED BY <2>3, <3>1, Typing DEF ClientReads, tasks
  <2>4. CASE ClientLeaves(c)
    BY <2>4, Typing DEF ClientLeaves, tasks
  <2> QED BY <2>1, <2>2, <2>3, <2>4
<1>2. TypeOK'
  BY <1>1 DEF IInv, TypeOK
<1>3. TaskInv'
  BY <1>1 DEF IInv, TaskInv, Wanted
<1>4. ASSUME NEW d \in Client PROVE ClientInv(d)'
  BY <1>1, ClientKept, ClientMoves, Typing DEF Handling
<1> QED BY <1>2, <1>3, <1>4 DEF IInv

\* Sentinels for some of those who are being handled, who may be deregistered:
\* stop(), or the end of what a client sends.
LEMMA SentinelInv ==
    ASSUME IInv, NEW S \in SUBSET Client, \A c \in S : conn[c] \in Handling,
           queue' = [c \in Client |-> IF c \in S THEN EndClient(queue[c]) ELSE queue[c]],
           clients' \subseteq clients, clients \ clients' \subseteq S,
           watched' \in [Client -> BOOLEAN],
           \A c \in Client : watched'[c] => watched[c],
           UNCHANGED <<conn, lines, chunks>>
    PROVE  \A c \in Client : /\ ClientInv(c)' /\ queue'[c] \in Seq(Nat)
                             /\ Len(queue'[c]) <= QueueMax
<1> TAKE c \in Client
<1>0. UNCHANGED <<written, taken, peer, joined>>
  BY DEF lines
<1> DEFINE base == joined[c] + Len(written[c])
           new  == EndClient(queue[c])
<1>1. CASE c \in S
  <2>1. /\ base \in Nat /\ queue[c] \in Seq(Nat) /\ Len(queue[c]) <= QueueMax
        /\ InOrder(queue[c], base) /\ conn[c] \in Handling /\ ClientInv(c)
    BY <1>1, Typing DEF ClientInv
  <2>2. queue'[c] = new
    BY <1>1
  <2>3. /\ new \in Seq(Nat) /\ Len(new) <= QueueMax /\ InOrder(new, base) /\ ~Clean(new)
    <3> HIDE DEF base
    <3> QED BY <2>1, EndClientFacts
  <2> HIDE DEF new
  <2>4. InOrder(queue[c], joined[c] + Len(written[c]))' /\ ~Clean(queue[c])'
    BY <1>0, <2>2, <2>3 DEF InOrder, Clean
  <2>5. ClientInv(c)'
    BY <1>0, <2>1, <2>4 DEF ClientInv, Handling
  <2> QED BY <2>2, <2>3, <2>5
<1>2. CASE c \notin S
  <2>1. queue'[c] = queue[c] /\ (c \in clients' <=> c \in clients)
    BY <1>2
  <2>2. ClientInv(c) /\ (watched'[c] => watched[c])
    BY Typing
  <2>3. ClientInv(c)'
    BY <1>0, <2>1, <2>2 DEF ClientInv, InOrder, Clean
  <2> QED BY <2>1, <2>3, Typing
<1> QED BY <1>1, <1>2

\* The end of what a client sends.
LEMMA EndOfInputInv == ASSUME IInv, NEW c \in Client, EndOfInput(c) PROVE IInv'
<1>1. /\ watched[c] /\ conn[c] \in Handling
      /\ UNCHANGED <<config, applied, server, listening, reader, run, syncs, clients, conn,
                     written, taken, peer, joined, chunks>>
      /\ watched' = [watched EXCEPT ![c] = FALSE]
      /\ queue' = [queue EXCEPT ![c] = EndClient(queue[c])]
  BY Typing DEF EndOfInput, tasks, lines, ClientInv
<1>2. queue' = [d \in Client |-> IF d \in {c} THEN EndClient(queue[d]) ELSE queue[d]]
  BY <1>1, Typing
<1>3. watched' \in [Client -> BOOLEAN] /\ \A d \in Client : watched'[d] => watched[d]
  BY <1>1, Typing
<1>4. \A d \in Client : /\ ClientInv(d)' /\ queue'[d] \in Seq(Nat)
                        /\ Len(queue'[d]) <= QueueMax
  BY <1>1, <1>2, <1>3, SentinelInv DEF lines
<1>5. TypeOK'
  <2>1. queue' \in [Client -> Seq(Nat)]
    BY <1>2, <1>4
  <2> QED BY <1>1, <1>3, <1>4, <2>1 DEF IInv, TypeOK
<1>6. TaskInv'
  BY <1>1 DEF IInv, TaskInv, Wanted
<1> QED BY <1>4, <1>5, <1>6 DEF IInv

\* stop() up to its await.
LEMMA StopFacts ==
    ASSUME IInv, StopBegins, UNCHANGED <<conn, watched, lines, chunks>>
    PROVE  /\ \A c \in Client : ClientInv(c)' /\ Len(queue'[c]) <= QueueMax
           /\ queue' \in [Client -> Seq(Nat)] /\ clients' = {}
           /\ listening' = IF server # "off" THEN "off" ELSE listening
<1>1. /\ queue' = [c \in Client |-> IF c \in clients THEN EndClient(queue[c]) ELSE queue[c]]
      /\ clients' = {}
      /\ listening' = IF server # "off" THEN "off" ELSE listening
  BY DEF StopBegins, EndEverybody
<1>2. \A c \in clients : conn[c] \in Handling
  BY Typing DEF ClientInv
<1>3. watched' \in [Client -> BOOLEAN] /\ \A d \in Client : watched'[d] => watched[d]
  BY Typing
<1>4. \A c \in Client : /\ ClientInv(c)' /\ queue'[c] \in Seq(Nat)
                        /\ Len(queue'[c]) <= QueueMax
  BY <1>1, <1>2, <1>3, SentinelInv, Typing
<1> QED BY <1>1, <1>4

\* Tasks that touch no client.
LEMMA ClientsKept ==
    ASSUME IInv, UNCHANGED <<clients, conn, watched, queue, lines, chunks>>
    PROVE  /\ \A c \in Client : ClientInv(c)' /\ Len(queue'[c]) <= QueueMax
           /\ queue' \in [Client -> Seq(Nat)]
  BY ClientKept, Typing DEF lines

\* A configuration arrives: it is noted to the end and applied, up to the first
\* await, or half noted.
LEMMA ConfigInv == ASSUME IInv, OnConfigSync PROVE IInv'
<1>1. PICK cfg \in Payloads :
        \/ config' = cfg /\ applied' = Wanted(cfg) /\ Apply(cfg)
        \/ /\ config' \in HalfNoted(cfg)
           /\ UNCHANGED <<applied, listening, reader, clients, queue>>
  BY DEF OnConfigSync
<1>2. /\ reader = "idle" /\ UNCHANGED <<server, run, conn, watched, lines, chunks>>
      /\ syncs' \in 0..MaxSyncs
  BY FanOutAssumption DEF OnConfigSync, IInv, TypeOK
<1>3. /\ config' \in Config /\ applied' \in Address \cup {"off"}
      /\ Wanted(cfg) \in Address \cup {"off"}
  BY <1>1, Configs DEF IInv, TypeOK
<1>4. /\ \A c \in Client : ClientInv(c)' /\ Len(queue'[c]) <= QueueMax
      /\ queue' \in [Client -> Seq(Nat)] /\ clients' \subseteq Client
  BY <1>1, <1>2, StopFacts, ClientsKept, Typing DEF Apply
<1>5. TaskInv' /\ listening' \in Address \cup {"off"} /\ reader' \in {"idle", "stopping", "starting"}
  <2>1. CASE UNCHANGED <<applied, listening, reader, clients, queue>>
    BY <1>2, <2>1 DEF TaskInv, IInv, TypeOK
  <2>2. CASE config' = cfg /\ applied' = Wanted(cfg) /\ Apply(cfg)
    <3>1. Wanted(config)' = Wanted(cfg)
      BY <2>2 DEF Wanted
    <3>2. CASE Outdated(cfg) /\ StopBegins /\ reader' = "stopping"
      BY <1>2, <2>2, <3>1, <3>2, StopFacts DEF Outdated, TaskInv, IInv, TypeOK
    <3>3. CASE server = "off" /\ Wanted(cfg) # "off" /\ Start(Wanted(cfg))
      <4>1. Wanted(cfg) = config'.addr
        BY <2>2, <3>3 DEF Wanted
      <4> QED BY <1>2, <1>3, <2>2, <3>3, <4>1 DEF Start, TaskInv, IInv, TypeOK
    <3>4. CASE /\ ~Outdated(cfg) /\ ~(server = "off" /\ Wanted(cfg) # "off")
               /\ UNCHANGED <<listening, reader, clients, queue>>
      BY <1>2, <2>2, <3>4 DEF Outdated, TaskInv, IInv, TypeOK
    <3> QED BY <2>2, <3>2, <3>3, <3>4 DEF Apply
  <2> QED BY <1>1, <2>1, <2>2
<1>6. TypeOK'
  BY <1>2, <1>3, <1>4, <1>5 DEF IInv, TypeOK, lines
<1> QED BY <1>4, <1>5, <1>6 DEF IInv

\* start() and wait_closed() return, or the process stops.
LEMMA ServerInv == ASSUME IInv, StartReturns \/ ServerClosed \/ Shutdown PROVE IInv'
<1>1. /\ UNCHANGED <<config, applied, syncs, conn, watched, lines, chunks>>
      /\ config \in Config /\ config.addr \in Address \cup {"off"}
      /\ Wanted(config) \in Address \cup {"off"}
      /\ Wanted(config)' = Wanted(config)
      /\ Wanted(config) # "off" => Wanted(config) = config.addr
  BY Configs DEF StartReturns, ServerClosed, Shutdown, IInv, TypeOK, Config, Wanted
<1>2. /\ \A c \in Client : ClientInv(c)' /\ Len(queue'[c]) <= QueueMax
      /\ queue' \in [Client -> Seq(Nat)] /\ clients' \subseteq Client
  BY <1>1, StopFacts, ClientsKept, Typing DEF StartReturns, ServerClosed, Shutdown
<1>3. /\ TaskInv' /\ listening' \in Address \cup {"off"} /\ server' \in Address \cup {"off"}
      /\ reader' \in {"idle", "stopping", "starting"} /\ run' \in {"running", "stopping", "stopped"}
  <2>1. CASE StartReturns
    BY <1>1, <2>1 DEF StartReturns, TaskInv, IInv, TypeOK
  <2>2. CASE ServerClosed
    BY <1>1, <2>2 DEF ServerClosed, Start, TaskInv, IInv, TypeOK
  <2>3. CASE Shutdown
    BY <1>1, <2>3, StopFacts DEF Shutdown, TaskInv, IInv, TypeOK
  <2> QED BY <2>1, <2>2, <2>3
<1>4. TypeOK'
  BY <1>1, <1>2, <1>3 DEF IInv, TypeOK, lines
<1> QED BY <1>2, <1>3, <1>4 DEF IInv

\* Every step keeps the invariant.
LEMMA NextInv == IInv /\ [Next]_fanVars => IInv'
<1> SUFFICES ASSUME IInv, [Next]_fanVars PROVE IInv'
  OBVIOUS
<1>1. CASE UNCHANGED fanVars
  <2>1. UNCHANGED <<clients, conn, watched, queue, lines, chunks>>
    BY <1>1 DEF fanVars, lines
  <2> QED BY <1>1, <2>1, ClientsKept DEF fanVars, IInv, TypeOK, TaskInv, Wanted
<1>2. ASSUME NEW c \in Client, HandlerStep(c) PROVE IInv'
  <2>1. CASE SentinelMet(c) \/ SendFails(c)
    BY <2>1, LeaveInv DEF SentinelMet, SendFails, Handling
  <2> QED BY <1>2, <2>1, ArrivalInv, WriteChunkInv, QuietInv DEF HandlerStep
<1>3. ASSUME NEW c \in Client,
             Accept(c) \/ EndOfInput(c) \/ ClientReads(c) \/ ClientLeaves(c)
      PROVE  IInv'
  BY <1>3, ArrivalInv, EndOfInputInv, QuietInv
<1> QED BY <1>1, <1>2, <1>3, BroadcastInv, ConfigInv, ServerInv DEF Next

\* The invariant holds always.
LEMMA Inductive == Spec => []IInv
  BY InitInv, NextInv, PTL DEF Spec

-----------------------------------------------------------------------------

\* Every variable keeps its type, and the queues their bound.
THEOREM TypeCorrect == Spec => []TypeOK
  BY Inductive, PTL DEF IInv

\* Every client is sent the chunks from its registration on, each once and in
\* order, however full its queue was.
THEOREM StreamIsIdentical == Spec => []IdenticalStream
<1>1. IInv => IdenticalStream
  <2> SUFFICES ASSUME IInv PROVE IdenticalStream
    OBVIOUS
  <2>1. \A c \in Client : DOMAIN written[c] = 1..Len(written[c])
    BY Typing
  <2> QED BY <2>1, Typing DEF ClientInv, IdenticalStream
<1> QED BY <1>1, Inductive, PTL

\* Who is registered is being handled; who is handled and not registered finds
\* a sentinel in its queue.
THEOREM RegistryIsRight == Spec => []RegistryAgrees
<1>1. IInv => RegistryAgrees
  <2> SUFFICES ASSUME IInv PROVE RegistryAgrees
    OBVIOUS
  <2>1. \A c \in Client : DOMAIN queue[c] = 1..Len(queue[c])
    BY Typing
  <2> QED BY <2>1, Typing DEF ClientInv, RegistryAgrees, Clean
<1> QED BY <1>1, Inductive, PTL

\* While nothing is being applied, the server that runs and accepts is that of
\* the last configuration noted to the end, or there is none, whatever raised
\* half way in between.
THEOREM CurrentIsApplied == Spec => []AppliedIsCurrent
<1>1. IInv => AppliedIsCurrent
  BY DEF IInv, TaskInv, AppliedIsCurrent
<1> QED BY <1>1, Inductive, PTL

\* A client loses its place through its own fault, or because stop() runs.
THEOREM NobodyElsesFault == Spec => OnlyOwnFault
<1> DEFINE Own(c) == \/ TooSlow(c) \/ peer[c] = "left" \/ \E i \in DOMAIN queue[c] : queue[c][i] = End
                     \/ reader' = "stopping" \/ run' # run
<1>1. ASSUME IInv, [Next]_fanVars, NEW c \in clients \ clients' PROVE Own(c)
  <2>1. CASE Broadcast
    BY <1>1, <2>1 DEF Broadcast, CutSlow
  <2>2. CASE OnConfigSync
    BY <1>1, <2>2 DEF OnConfigSync, Apply
  <2>3. CASE Shutdown
    BY <2>3 DEF Shutdown
  <2>4. ASSUME NEW d \in Client, SentinelMet(d) PROVE Own(c)
    <3>1. c = d
      BY <1>1, <2>4 DEF SentinelMet, LeaveLoop, Discard
    <3>2. queue[d] # <<>> /\ Head(queue[d]) = End /\ queue[d] \in Seq(Nat)
      BY <1>1, <2>4, Typing DEF SentinelMet
    <3>3. 1 \in DOMAIN queue[d] /\ queue[d][1] = End
      BY <3>2
    <3> QED BY <3>1, <3>3
  <2>5. ASSUME NEW d \in Client, SendFails(d) PROVE Own(c)
    BY <1>1, <2>5 DEF SendFails, LeaveLoop, Discard
  <2>6. CASE clients \subseteq clients'
    BY <1>1, <2>6
  <2> QED BY <1>1, <2>1, <2>2, <2>3, <2>4, <2>5, <2>6
          DEF Next, HandlerStep, Accept, HandleStarts, Register, WriteChunk, Drained, Closed,
              EndOfInput, ClientReads, ClientLeaves, StartReturns, ServerClosed, fanVars
<1>2. IInv /\ [Next]_fanVars
        => [\A c \in clients \ clients' :
              TooSlow(c) \/ peer[c] = "left" \/ (\E i \in DOMAIN queue[c] : queue[c][i] = End)
              \/ reader' = "stopping" \/ run' # run]_fanVars
  BY <1>1
<1> QED BY <1>2, Inductive, PTL DEF Spec, OnlyOwnFault

=============================================================================
