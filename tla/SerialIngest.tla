----------------------------- MODULE SerialIngest -----------------------------
(***************************************************************************)
(* Reading alarms from the W&T com server: _run and _read_loop of          *)
(* ecpg/serial_ingest.py cut the byte stream of a TCP connection into      *)
(* datagrams, at form feeds, at pauses and at the end of the connection.   *)
(*                                                                         *)
(* While a datagram is handled (_emit awaits on_datagram, which may take   *)
(* the 15 seconds of a failing POST) nothing is read: bytes and pauses     *)
(* pass meanwhile, and asyncio's StreamReader only keeps the bytes.        *)
(***************************************************************************)
EXTENDS Naturals, Sequences

CONSTANTS
    Strategies,      \* datagram_strategy: subset of {"idle", "formfeed"}
    Byte,            \* bytes sent: subset of {"a", "b", "blank", "ff"}
    Failures,        \* may the handler raise OSError, or stop() be called
    MaxBytes,        \* bound: bytes sent
    MaxPauses,       \* bound: pauses of at least the timeout
    MaxConnections   \* bound: connections

ASSUME SerialAssumption ==
    /\ Strategies \subseteq {"idle", "formfeed"}
    /\ Byte \subseteq {"a", "b", "blank", "ff"}
    /\ Failures \in BOOLEAN
    /\ MaxBytes \in Nat /\ MaxPauses \in Nat /\ MaxConnections \in Nat

VARIABLES
    at,         \* "down", "waiting" in read, "busy" in _emit, "closing" in the last _emit, "stopped"
    after,      \* busy: "read" or "split" comes next
    stopping,   \* stop() was called
    strategy,   \* read from the configuration when the connection was made
    inbox,      \* StreamReader: bytes not read yet
    ended,      \* "no", "eof" or "reset" (read raises, whatever is in inbox)
    buffer,     \* _read_loop: bytes read, not emitted yet
    emitted,    \* datagrams given to on_datagram: [data, incomplete]
    seen,       \* observer: what _read_loop saw: bytes, timeouts, "end"
    abandoned,  \* observer: a failure kept the rest of a chunk from being split
    epoch,      \* observer: pauses on the line so far
    sent,       \* bytes sent so far
    connections

vars == <<at, after, stopping, strategy, inbox, ended, buffer, emitted, seen,
          abandoned, epoch, sent, connections>>

outside == <<epoch, sent, connections>>

\* A byte, and how many pauses came before it on the line.
Symbol == [byte : Byte, epoch : 0..MaxPauses]

\* Not a byte: the timeout under the strategy named that began epoch e, or the
\* end in it.
Mark(what, e) == [byte |-> what, epoch |-> e]

Seen == Symbol \cup [byte : {"idle", "formfeed", "end"}, epoch : 0..MaxPauses]

Datagram == [data : Seq(Symbol), incomplete : BOOLEAN]

IsText(x) == x.byte \in {"a", "b"}
IsFF(x)   == x.byte = "ff"
Blank(s)  == \A i \in DOMAIN s : ~IsText(s[i])      \* not data.strip()

TypeOK ==
    /\ at \in {"down", "waiting", "busy", "closing", "stopped"}
    /\ after \in {"read", "split"}
    /\ stopping \in BOOLEAN /\ abandoned \in BOOLEAN
    /\ strategy \in Strategies
    /\ inbox \in Seq(Symbol) /\ ended \in {"no", "eof", "reset"}
    /\ buffer \in Seq(Symbol)
    /\ emitted \in Seq(Datagram) /\ seen \in Seq(Seen)
    /\ at = "waiting" => ~\E i \in DOMAIN buffer : IsFF(buffer[i])
    /\ at \in {"down", "closing", "stopped"} => buffer = <<>>
    /\ at = "busy" /\ after = "read" => buffer = <<>>
    /\ epoch \in 0..MaxPauses /\ sent \in 0..MaxBytes
    /\ connections \in 0..MaxConnections

Init ==
    /\ at = "down" /\ after = "read" /\ stopping = FALSE
    /\ strategy \in Strategies
    /\ inbox = <<>> /\ ended = "no" /\ buffer = <<>>
    /\ emitted = <<>> /\ seen = <<>> /\ abandoned = FALSE
    /\ epoch = 0 /\ sent = 0 /\ connections = 0

-----------------------------------------------------------------------------
(* The com server and the line.                                            *)

\* _run: a new _read_loop with an empty buffer.
Connect ==
    /\ at = "down" /\ ~stopping /\ connections < MaxConnections
    /\ connections' = connections + 1
    /\ at' = "waiting" /\ strategy' \in Strategies
    /\ inbox' = <<>> /\ ended' = "no"
    /\ UNCHANGED <<after, stopping, buffer, emitted, seen, abandoned, epoch, sent>>

Open == at \in {"waiting", "busy"} /\ ended = "no"

Send(b) ==
    /\ Open /\ sent < MaxBytes
    /\ sent' = sent + 1
    /\ inbox' = Append(inbox, [byte |-> b, epoch |-> epoch])
    /\ UNCHANGED <<at, after, stopping, strategy, ended, buffer, emitted, seen,
                   abandoned, epoch, connections>>

Close ==
    /\ Open
    /\ ended' \in {"eof", "reset"}
    /\ UNCHANGED <<at, after, stopping, strategy, inbox, buffer, emitted, seen,
                   abandoned, outside>>

-----------------------------------------------------------------------------
(* _read_loop.                                                             *)

Emit(data, incomplete) ==
    emitted' = Append(emitted, [data |-> data, incomplete |-> incomplete])

\* Ends of text segments in buf; what lies between is blank and dropped.
Cuts(buf) ==
    {i \in DOMAIN buf :
        /\ IsFF(buf[i])
        /\ \E k \in 1..(i - 1) : IsText(buf[k]) /\ \A n \in k..(i - 1) : ~IsFF(buf[n])}

\* The last form feed up to there, or 0.
LastFF(buf, to) ==
    CHOOSE i \in 0..to : /\ i > 0 => IsFF(buf[i])
                         /\ \A k \in (i + 1)..to : ~IsFF(buf[k])

Text(buf, to) == SubSeq(buf, LastFF(buf, to) + 1, to)

DropThrough(buf, i) == SubSeq(buf, i + 1, Len(buf))   \* del buffer[:end + 1]

\* The while loop, up to its next await: the first datagram that has text is
\* emitted, or the rest without form feed waits for more.
SplitKeeps(buf) ==                    \* mutant: without text nothing is deleted
    IF Cuts(buf) = {}
    THEN buffer' = buf /\ at' = "waiting" /\ UNCHANGED <<after, emitted>>
    ELSE LET i == CHOOSE i \in Cuts(buf) : \A k \in Cuts(buf) : i <= k IN
         /\ Emit(Text(buf, i - 1), FALSE)
         /\ buffer' = DropThrough(buf, i)
         /\ at' = "busy" /\ after' = "split"
Split(buf) ==
    IF Cuts(buf) = {}
    THEN /\ buffer' = Text(buf, Len(buf))
         /\ at' = "waiting"
         /\ UNCHANGED <<after, emitted>>
    ELSE LET i == CHOOSE i \in Cuts(buf) : \A k \in Cuts(buf) : i <= k IN
         /\ Emit(Text(buf, i - 1), FALSE)
         /\ buffer' = DropThrough(buf, i)
         /\ at' = "busy" /\ after' = "split"

Read ==
    /\ at = "waiting" /\ inbox # <<>> /\ ended # "reset"
    /\ inbox' = <<>>
    /\ seen' = seen \o inbox
    /\ Split(buffer \o inbox)
    /\ UNCHANGED <<stopping, strategy, ended, abandoned, outside>>

\* The line is silent for at least the timeout of the strategy.  A waiting
\* reader notices.
TimeoutIsIncomplete == FALSE             \* mutant: a timeout always completes
PauseIsIncomplete == strategy = "formfeed"

PauseKeepsText ==                        \* mutant: on a timeout, continue
    /\ epoch < MaxPauses /\ Open
    /\ epoch' = epoch + 1
    /\ seen' = IF at = "busy" THEN seen ELSE Append(seen, Mark(strategy, epoch'))
    /\ UNCHANGED <<at, after, stopping, strategy, inbox, ended, buffer, emitted,
                   abandoned, sent, connections>>
Pause ==
    /\ epoch < MaxPauses /\ Open
    /\ epoch' = epoch + 1
    /\ \/ at = "busy" /\ UNCHANGED <<at, after, buffer, emitted, seen>>
       \/ /\ at = "waiting" /\ inbox = <<>>
          /\ seen' = Append(seen, Mark(strategy, epoch'))
          /\ buffer' = <<>>
          /\ IF Blank(buffer) THEN UNCHANGED <<at, after, emitted>>
             ELSE Emit(buffer, PauseIsIncomplete) /\ at' = "busy" /\ after' = "read"
    /\ UNCHANGED <<stopping, strategy, inbox, ended, abandoned, sent, connections>>

\* on_datagram returned.
EmitDone ==
    /\ at = "busy"
    /\ \/ after = "read" /\ at' = "waiting" /\ UNCHANGED <<after, buffer, emitted>>
       \/ after = "split" /\ Split(buffer)
    /\ UNCHANGED <<stopping, strategy, inbox, ended, seen, abandoned, outside>>

\* _read_loop's finally: a rest with text goes out as it is.
RestIsDropped ==                         \* mutant: no finally
    /\ buffer' = <<>> /\ at' = (IF stopping' THEN "stopped" ELSE "down")
    /\ UNCHANGED emitted
Finally ==
    /\ buffer' = <<>>
    /\ IF Blank(buffer)
       THEN at' = (IF stopping' THEN "stopped" ELSE "down") /\ UNCHANGED emitted
       ELSE Emit(buffer, TRUE) /\ at' = "closing"

\* read returned nothing, or raised.
ReadEnds ==
    /\ at = "waiting"
    /\ ended = "reset" \/ (ended = "eof" /\ inbox = <<>>)
    /\ seen' = Append(seen, Mark("end", epoch))
    /\ stopping' = stopping
    /\ Finally
    /\ UNCHANGED <<after, strategy, inbox, ended, abandoned, outside>>

LastEmitDone ==
    /\ at = "closing"
    /\ at' = IF stopping THEN "stopped" ELSE "down"
    /\ UNCHANGED <<after, stopping, strategy, inbox, ended, buffer, emitted, seen,
                   abandoned, outside>>

\* The handler raises OSError (the emergency print found no disk space), or
\* stop() cancels the task in read or in the handler.
Interrupted(stops) ==
    /\ Failures
    /\ at = "busy" \/ (stops /\ at = "waiting")
    /\ stopping' = stops
    /\ abandoned' = (abandoned \/ \E i \in DOMAIN buffer : IsFF(buffer[i]))
    /\ seen' = Append(seen, Mark("end", epoch))
    /\ Finally
    /\ UNCHANGED <<after, strategy, inbox, ended, outside>>

\* stop() while nothing is read, or during the last _emit.
StopElsewhere ==
    /\ Failures /\ at \in {"down", "closing"}
    /\ stopping' = TRUE /\ at' = "stopped"
    /\ UNCHANGED <<after, strategy, inbox, ended, buffer, emitted, seen, abandoned, outside>>

Next ==
    \/ Connect \/ Close \/ Pause
    \/ \E b \in Byte : Send(b)
    \/ Read \/ EmitDone \/ ReadEnds \/ LastEmitDone
    \/ \E stops \in BOOLEAN : Interrupted(stops)
    \/ StopElsewhere

Spec == Init /\ [][Next]_vars

-----------------------------------------------------------------------------
(* The reference: what the README says the stream means, given in one go.  *)

\* The step is a function, so that theorems about Fold hold for each use of it.
Fold(step, start, s) ==
    LET acc[k \in 0..Len(s)] ==
            IF k = 0 THEN start ELSE step[<<acc[k - 1], s[k]>>]
    IN  acc[Len(s)]

\* The datagrams so far, and what follows the last cut.
Framing == [out : Seq(Datagram), cur : Seq(Symbol)]

Cut(f, incomplete) ==
    [out |-> IF Blank(f.cur) THEN f.out
             ELSE Append(f.out, [data |-> f.cur, incomplete |-> incomplete]),
     cur |-> <<>>]

Take(f, x) ==
    CASE IsFF(x)          -> Cut(f, FALSE)
      [] x.byte = "idle"  -> Cut(f, FALSE)
      [] x.byte \in {"formfeed", "end"} -> Cut(f, TRUE)
      [] OTHER -> [f EXCEPT !.cur = Append(@, x)]

take == [p \in Framing \X Seen |-> Take(p[1], p[2])]

Framed(out, s) == Fold(take, [out |-> out, cur |-> <<>>], s)

Reference == Framed(<<>>, seen).out

\* However the stream falls into chunks, whatever is awaited in between, the
\* datagrams are those of the reference, complete or not as it says.
ChunkingIsIrrelevant ==
    ~abandoned => /\ Len(emitted) <= Len(Reference)
                  /\ emitted = SubSeq(Reference, 1, Len(emitted))
                  /\ at = "waiting" => emitted = Reference

pick == [p \in Seq(Symbol) \X Seen |-> IF IsText(p[2]) THEN Append(p[1], p[2]) ELSE p[1]]
join == [p \in Seq(Symbol) \X Datagram |-> p[1] \o p[2].data]

TextOf(s)   == Fold(pick, <<>>, s)
DataOf(out) == Fold(join, <<>>, out)

\* No text that was read is lost, doubled or moved, even when the handler
\* fails or the task is canceled between two datagrams of a chunk.
NoTextLost == TextOf(DataOf(emitted) \o buffer) = TextOf(seen)

\* Text before and text after a pause are not in the same datagram.
PauseSeparates ==
    \A i \in DOMAIN emitted :
        LET data == emitted[i].data
        IN \A k, l \in DOMAIN data :
              IsText(data[k]) /\ IsText(data[l]) => data[k].epoch = data[l].epoch

IsPause(x) == x.byte \in {"idle", "formfeed"}

\* What holds in place of it: a pause that passes while read waits divides the
\* datagrams, whatever came before and whatever fails.
SeenPausesSeparate ==
    \A p \in DOMAIN seen, i \in DOMAIN emitted :
        IsPause(seen[p]) =>
            LET data == emitted[i].data
            IN \A k, l \in DOMAIN data :
                  data[k].epoch < seen[p].epoch => data[l].epoch < seen[p].epoch
==============================================================================
