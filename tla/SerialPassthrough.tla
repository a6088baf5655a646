--------------------------- MODULE SerialPassthrough ---------------------------
(***************************************************************************)
(* The serial fan-out of ecpg/serial_passthrough.py: a TCP server that     *)
(* copies every chunk read from the serial line to the clients that are    *)
(* connected, through one bounded queue per client.                        *)
(*                                                                         *)
(* Tasks: a handler per connection (_handle) with a watcher that reads and *)
(* discards what the client sends (_drain_input); "reader", the WebSocket  *)
(* reader, which runs apply() inside the config_sync handler and reads     *)
(* nothing meanwhile; "run", Agent.run, which stops the server at the end. *)
(* The serial task broadcasts and never waits.                             *)
(*                                                                         *)
(* Server.wait_closed (Python 3.12) returns when every connection the      *)
(* server accepted is closed, and a connection is closed when its          *)
(* transport has nothing left to send.                                     *)
(***************************************************************************)
EXTENDS Naturals, Sequences, FiniteSets

CONSTANTS
    Client,       \* connections that may be made
    Readers,      \* those whose owner keeps reading what arrives
    Address,      \* bind addresses and ports; "off", for port 0, is none of them
    Payloads,     \* configurations the cloud may send
    QueueMax,     \* _QUEUE_MAX (256)
    Window,       \* chunks that fit into the sockets on the way to a client
    HighWater,    \* chunks the transport holds before drain() waits
    MaxChunks,    \* bound: chunks read from the line
    MaxSyncs      \* bound: configurations the cloud sends

ASSUME FanOutAssumption ==
    /\ Readers \subseteq Client
    /\ "off" \notin Address
    /\ QueueMax \in Nat \ {0}
    /\ Window \in Nat /\ HighWater \in Nat
    /\ MaxChunks \in Nat /\ MaxSyncs \in Nat

VARIABLES
    config,      \* what update_config noted
    applied,     \* observer: the address the last call of apply() was about
    server,      \* _server with its _running_addr, "off" standing for None
    listening,   \* the address whose sockets accept connections, or "off"
    reader,      \* the WebSocket reader in apply(): "idle", "stopping", "starting"
    run,         \* Agent.run: "running", "stopping", "stopped"
    clients,     \* _clients
    conn,        \* connection -> where its handler stands
    watched,     \* connection -> its _drain_input task runs
    queue,       \* connection -> its queue; End is the sentinel None
    written,     \* connection -> chunks given to its transport
    taken,       \* connection -> how many of them the client has read
    peer,        \* the client's side: "away", "here", "left"
    joined,      \* observer: connection -> chunks broadcast before it registered
    chunks,      \* chunks broadcast so far; the k-th chunk is k
    syncs

fanVars == <<config, applied, server, listening, reader, run, clients, conn,
             watched, queue, written, taken, peer, joined, chunks, syncs>>

tasks  == <<config, applied, server, listening, reader, run, syncs>>
lines  == <<written, taken, peer, joined>>

End == 0

\* Where a handler stands: "accepted" (connected, not begun), "waiting" for
\* its queue, "drain", "closing" (wait_closed of the writer), and after it.
Handling == {"waiting", "drain"}
Attached == {"accepted", "closing"} \cup Handling

\* The fields of passthrough_*; allow is whom the allowlist admits.
Config == [enabled : BOOLEAN, addr : Address \cup {"off"}, max : Nat \ {0},
           allow : SUBSET Client]

ASSUME PayloadsAssumption == \A cfg \in Payloads : cfg \in Config

\* The address a configuration asks for.
Wanted(cfg) == IF cfg.enabled THEN cfg.addr ELSE "off"

TypeOK ==
    /\ config \in Config /\ applied \in Address \cup {"off"}
    /\ server \in Address \cup {"off"} /\ listening \in Address \cup {"off"}
    /\ reader \in {"idle", "stopping", "starting"}
    /\ run \in {"running", "stopping", "stopped"}
    /\ clients \subseteq Client
    /\ conn \in [Client -> Attached \cup {"none", "gone", "lost"}]
    /\ watched \in [Client -> BOOLEAN]
    /\ queue \in [Client -> Seq(Nat)]
    /\ \A c \in Client : Len(queue[c]) <= QueueMax
    /\ written \in [Client -> Seq(Nat)]
    /\ taken \in [Client -> Nat]
    /\ peer \in [Client -> {"away", "here", "left"}]
    /\ joined \in [Client -> 0..MaxChunks]
    /\ chunks \in 0..MaxChunks /\ syncs \in 0..MaxSyncs

\* Agent.run has applied the stored configuration; bind addresses are
\* literals, so that start() is over before anybody can connect.
Init ==
    /\ config \in Payloads /\ applied = Wanted(config)
    /\ server \in {applied, "off"}            \* the port may be taken
    /\ listening = server
    /\ reader = "idle" /\ run = "running"
    /\ clients = {}
    /\ conn = [c \in Client |-> "none"]
    /\ watched = [c \in Client |-> FALSE]
    /\ queue = [c \in Client |-> <<>>]
    /\ written = [c \in Client |-> <<>>]
    /\ taken = [c \in Client |-> 0]
    /\ peer = [c \in Client |-> "away"]
    /\ joined = [c \in Client |-> 0]
    /\ chunks = 0 /\ syncs = 0

Up == run # "stopped"

-----------------------------------------------------------------------------
(* Queues.                                                                 *)

\* _end_client: the sentinel, for which a full queue is emptied.
EndClient(q) == IF Len(q) < QueueMax THEN Append(q, End) ELSE <<End>>

\* broadcast: a client whose queue is full is dropped.
TooSlow(c) == Len(queue[c]) = QueueMax

OfferUnbounded(q, k) == Append(q, k)                               \* mutant: no limit
OfferDropsOldest(q, k) == IF Len(q) < QueueMax THEN Append(q, k) ELSE Append(Tail(q), k)   \* mutant
Offer(q, k) == IF Len(q) < QueueMax THEN Append(q, k) ELSE EndClient(q)

CutAll(slow) == IF slow = {} THEN clients ELSE {}    \* mutant: one slow client empties the set
CutSlow(slow) == clients \ slow

Broadcast ==
    /\ run = "running" /\ chunks < MaxChunks
    /\ chunks' = chunks + 1
    /\ queue' = [c \in Client |-> IF c \in clients THEN Offer(queue[c], chunks + 1)
                                                   ELSE queue[c]]
    /\ clients' = CutSlow({c \in clients : TooSlow(c)})
    /\ UNCHANGED <<tasks, conn, watched, lines>>

-----------------------------------------------------------------------------
(* A connection.                                                           *)

Unread(c) == Len(written[c]) - taken[c]

AllFlushed(c) == \A d \in Client : Unread(d) <= Window     \* mutant: handlers wait for each other
Flushed(c) == Unread(c) <= Window

\* The server accepts; the handler begins an iteration of the loop later.
Accept(c) ==
    /\ Up /\ listening # "off" /\ conn[c] = "none"
    /\ conn' = [conn EXCEPT ![c] = "accepted"]
    /\ peer' = [peer EXCEPT ![c] = "here"]
    /\ UNCHANGED <<tasks, clients, watched, queue, written, taken, joined, chunks>>

Admits(c) == c \in config.allow /\ Cardinality(clients) < config.max

Register(c) ==
    /\ clients' = clients \cup {c}
    /\ conn' = [conn EXCEPT ![c] = "waiting"]
    /\ watched' = [watched EXCEPT ![c] = TRUE]
    /\ joined' = [joined EXCEPT ![c] = chunks]

HandleStarts(c) ==
    /\ Up /\ conn[c] = "accepted"
    /\ \/ Admits(c) /\ Register(c)
       \/ /\ ~Admits(c)
          /\ conn' = [conn EXCEPT ![c] = "gone"]
          /\ UNCHANGED <<clients, watched, joined>>
    /\ UNCHANGED <<tasks, queue, written, taken, peer, chunks>>

\* finally of _handle: deregistered, the watcher canceled, the writer closed.
DiscardNothing(c) == clients                      \* mutant: the client stays registered
Discard(c) == clients \ {c}

LeaveLoop(c, to) ==
    /\ clients' = Discard(c)
    /\ conn' = [conn EXCEPT ![c] = to]
    /\ watched' = [watched EXCEPT ![c] = FALSE]
    /\ queue' = [queue EXCEPT ![c] = <<>>]

\* The next chunk of the queue is written; drain() waits if the transport
\* holds too much.
WriteChunk(c) ==
    /\ Up /\ conn[c] = "waiting"
    /\ queue[c] # <<>> /\ Head(queue[c]) # End
    /\ queue' = [queue EXCEPT ![c] = Tail(@)]
    /\ written' = [written EXCEPT ![c] = Append(@, Head(queue[c]))]
    /\ conn' = [conn EXCEPT ![c] = IF Unread(c) + 1 > Window + HighWater
                                   THEN "drain" ELSE "waiting"]
    /\ UNCHANGED <<tasks, clients, watched, taken, peer, joined, chunks>>

Drained(c) ==
    /\ Up /\ conn[c] = "drain" /\ Flushed(c)
    /\ conn' = [conn EXCEPT ![c] = "waiting"]
    /\ UNCHANGED <<tasks, clients, watched, queue, lines, chunks>>

SentinelMet(c) ==
    /\ Up /\ conn[c] = "waiting"
    /\ queue[c] # <<>> /\ Head(queue[c]) = End
    /\ LeaveLoop(c, "closing")
    /\ UNCHANGED <<tasks, lines, chunks>>

\* write or drain raises: the client is not there any more.
SendFails(c) ==
    /\ Up /\ peer[c] = "left"
    /\ \/ conn[c] = "drain"
       \/ conn[c] = "waiting" /\ queue[c] # <<>> /\ Head(queue[c]) # End
    /\ LeaveLoop(c, "lost")
    /\ UNCHANGED <<tasks, lines, chunks>>

\* The connection is closed once the transport's buffer is empty or the
\* client has gone; what is in the sockets is still delivered.
Closed(c) ==
    /\ Up /\ conn[c] = "closing"
    /\ \/ Flushed(c) /\ conn' = [conn EXCEPT ![c] = "gone"]
       \/ peer[c] = "left" /\ conn' = [conn EXCEPT ![c] = "lost"]
    /\ UNCHANGED <<tasks, clients, watched, queue, lines, chunks>>

\* _drain_input reads the end of the stream, or an error.
EndOfInput(c) ==
    /\ Up /\ watched[c] /\ peer[c] = "left"
    /\ watched' = [watched EXCEPT ![c] = FALSE]
    /\ queue' = [queue EXCEPT ![c] = EndClient(@)]
    /\ UNCHANGED <<tasks, clients, conn, lines, chunks>>

ClientReads(c) ==
    /\ peer[c] = "here" /\ conn[c] # "lost" /\ Unread(c) > 0
    /\ taken' = [taken EXCEPT ![c] = @ + 1]
    /\ UNCHANGED <<tasks, clients, conn, watched, queue, written, peer, joined, chunks>>

ClientLeaves(c) ==
    /\ peer[c] = "here" /\ conn[c] \in Attached
    /\ peer' = [peer EXCEPT ![c] = "left"]
    /\ UNCHANGED <<tasks, clients, conn, watched, queue, written, taken, joined, chunks>>

HandlerStep(c) ==
    \/ HandleStarts(c) \/ WriteChunk(c) \/ Drained(c) \/ SentinelMet(c)
    \/ SendFails(c) \/ Closed(c)

-----------------------------------------------------------------------------
(* apply, start and stop.                                                  *)

\* stop() up to its await: every client gets the sentinel, the sockets close.
EndNobody == queue                                \* mutant: the handlers are not told
EndEverybody == [c \in Client |-> IF c \in clients THEN EndClient(queue[c]) ELSE queue[c]]

StopBegins ==
    /\ queue' = EndEverybody
    /\ clients' = {}
    /\ listening' = IF server # "off" THEN "off" ELSE listening

\* start() up to its await: bound to addr, or an OSError is logged and
\* forgotten.
Start(addr) ==
    \/ listening' = addr /\ reader' = "starting"
    \/ listening' = "off" /\ reader' = "idle"

\* apply compares what runs with what is configured.
OutdatedIfNew(cfg) ==              \* mutant: compared with what was configured before
    server # "off" /\ Wanted(cfg) # Wanted(config)
Outdated(cfg) == server # "off" /\ server # Wanted(cfg)

Apply(cfg) ==
    \/ Outdated(cfg) /\ StopBegins /\ reader' = "stopping"
    \/ /\ ~Outdated(cfg) /\ server = "off" /\ Wanted(cfg) # "off"
       /\ Start(Wanted(cfg)) /\ UNCHANGED <<clients, queue>>
    \/ /\ ~Outdated(cfg) /\ ~(server = "off" /\ Wanted(cfg) # "off")
       /\ UNCHANGED <<listening, reader, clients, queue>>

\* update_config notes one field after the other and raises at a value it
\* cannot use: a port or a limit that is no number, an address that is no text,
\* with the new port beside the old address.  The handler may also raise before
\* it comes to update_config.
HalfNoted(cfg) ==
    {config, [config EXCEPT !.enabled = cfg.enabled], [cfg EXCEPT !.allow = config.allow]}
    \cup {[config EXCEPT !.enabled = cfg.enabled, !.addr = a] : a \in Address \cup {cfg.addr}}

\* _on_config_sync: update_config and, unless that raises, apply.  max and allow
\* alone change nothing for those already connected.
OnConfigSync ==
    /\ Up /\ reader = "idle" /\ syncs < MaxSyncs
    /\ syncs' = syncs + 1
    /\ \E cfg \in Payloads :
          \/ config' = cfg /\ applied' = Wanted(cfg) /\ Apply(cfg)
          \/ /\ config' \in HalfNoted(cfg)
             /\ UNCHANGED <<applied, listening, reader, clients, queue>>
    /\ UNCHANGED <<server, run, conn, watched, lines, chunks>>

StartReturns ==
    /\ Up /\ reader = "starting"
    /\ server' = config.addr
    /\ reader' = "idle"
    /\ UNCHANGED <<config, applied, listening, run, syncs, clients, conn, watched, queue, lines, chunks>>

\* SIGTERM: Agent.run stops the fan-out; a server that is just being started
\* is not seen.
Shutdown ==
    /\ run = "running"
    /\ StopBegins
    /\ run' = IF server # "off" THEN "stopping" ELSE "stopped"
    /\ UNCHANGED <<config, applied, server, reader, syncs, conn, watched, lines, chunks>>

\* wait_closed returns in every task that waits for it; apply then starts the
\* server the configuration asks for.
ServerClosed ==
    /\ server # "off" /\ listening = "off"
    /\ \A c \in Client : conn[c] \notin Attached
    /\ server' = "off"
    /\ run' = IF run = "stopping" THEN "stopped" ELSE run
    /\ \/ reader = "stopping" /\ Wanted(config) # "off" /\ Start(Wanted(config))
       \/ /\ ~(reader = "stopping" /\ Wanted(config) # "off")
          /\ reader' = "idle" /\ listening' = "off"
    /\ UNCHANGED <<config, applied, syncs, clients, conn, watched, queue, lines, chunks>>

Next ==
    \/ Broadcast
    \/ \E c \in Client : \/ Accept(c) \/ HandlerStep(c) \/ EndOfInput(c)
                         \/ ClientReads(c) \/ ClientLeaves(c)
    \/ OnConfigSync \/ StartReturns \/ Shutdown \/ ServerClosed

Spec == Init /\ [][Next]_fanVars

\* Tasks that can go on do; TCP delivers, and gives up on a client that has
\* gone.  Of the clients only Readers are known to read.
FairSpec ==
    /\ Spec
    /\ \A c \in Client : WF_fanVars(HandlerStep(c)) /\ WF_fanVars(EndOfInput(c))
    /\ \A c \in Readers : WF_fanVars(ClientReads(c))
    /\ WF_fanVars(StartReturns) /\ WF_fanVars(ServerClosed)

-----------------------------------------------------------------------------
(* Properties.                                                             *)

\* Every client is sent the line's chunks from the moment it registered, each
\* once and in order, although full queues are emptied to make room for the
\* sentinel ("identischer Bytestrom").
IdenticalStream ==
    \A c \in Client : \A i \in DOMAIN written[c] : written[c][i] = joined[c] + i

\* The registry and the handlers agree: who is registered is being handled,
\* and a handler that broadcast and stop() do not reach any more has its
\* sentinel, so it will not wait for ever on a queue nobody fills.
RegistryAgrees ==
    /\ \A c \in clients : conn[c] \in Handling
    /\ \A c \in Client : conn[c] \in Handling /\ c \notin clients
                            => \E i \in DOMAIN queue[c] : queue[c][i] = End

\* While nothing is being applied, the server is that of the last configuration
\* noted to the end, or there is none, and what accepts connections is this
\* server: also when configurations that raised half way came before or after it.
AppliedIsCurrent ==
    reader = "idle" /\ run = "running" => server \in {"off", applied} /\ listening = server

\* A client loses its registration through its own slowness or departure, or
\* because stop() runs: never because another client is slow.
OnlyOwnFault ==
    [][\A c \in clients \ clients' :
          TooSlow(c) \/ peer[c] = "left" \/ (\E i \in DOMAIN queue[c] : queue[c][i] = End)
          \/ reader' = "stopping" \/ run' # run]_fanVars

\* A client that keeps reading gets every chunk of the time it is registered,
\* whatever the others do, unless it leaves or is cut off.
ReadersGetAll ==
    \A c \in Readers : \A k \in 1..MaxChunks :
        (c \in clients /\ joined[c] < k /\ k <= chunks)
            ~> (taken[c] >= k - joined[c] \/ c \notin clients \/ ~Up)

\* A connection that keeps stop() waiting: a client that is there, and does
\* not read what the transport still holds, or whose handler began only after
\* stop() had emptied the registry.
Straggler(c) ==
    /\ peer[c] = "here"
    /\ \/ conn[c] \in {"drain", "closing"} /\ Unread(c) > Window
       \/ c \in clients

\* Nothing else holds up stop(), and with it the configuration, the
\* WebSocket reader and the end of the process.
OnlyStragglersHoldStop ==
    reader = "stopping" \/ run = "stopping"
        ~> (reader # "stopping" /\ run # "stopping") \/ \E c \in Client : Straggler(c)

\* apply() "(re)startet oder stoppt den Server passend zur aktuellen
\* Konfiguration": while the gateway runs, it comes to an end.
ApplyEnds == reader = "stopping" /\ run = "running"
                ~> reader # "stopping" \/ run # "running"
==============================================================================
