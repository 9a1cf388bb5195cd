-------------------------------- MODULE Pipe --------------------------------
(***************************************************************************)
(* fs/pipe: two Buffers cross-wired into a full-duplex pair of Ports.      *)
(*                                                                         *)
(* Any number of goroutines use the two ports. Every method of Buffer is   *)
(* one critical section of its mutex, except that a blocking Read gives    *)
(* the mutex up in sync.Cond.Wait: it sleeps in the condition's notify     *)
(* list, is woken by Signal or Broadcast, and must win the mutex again     *)
(* before it tests the buffer once more. Port.Close is two critical        *)
(* sections, one for each buffer.                                          *)
(***************************************************************************)
EXTENDS Naturals, Sequences

CONSTANTS
    Threads,     \* goroutines
    Bytes,       \* byte values
    Block,       \* NewBuffer's block argument
    Writes,      \* the data a Write may carry
    ReadSizes,   \* the lengths of the slice a Read may carry
    MaxBytes     \* bound: bytes accepted by one buffer in a behaviour

ASSUME PipeAssumption ==
    /\ Block \in BOOLEAN
    /\ Writes \subseteq Seq(Bytes)
    /\ ReadSizes \subseteq Nat
    /\ MaxBytes \in Nat

Ports == {1, 2}

\* Port p reads the buffer of its own number and writes the other one.
Reader(p) == p
Writer(p) == 3 - p

VARIABLES
    buffer,     \* buffer[b]: unread bytes of buffer b
    closed,     \* closed[b]
    waiters,    \* waiters[b]: notify list of dataCond, the oldest sleeper first
    pc,         \* pc[t]: where goroutine t is
    port,       \* port[t]: the port of its current call
    size,       \* size[t]: the length of its Read's slice
    sawEOF,     \* history: sawEOF[b], some Read of b returned io.EOF
    accepted,   \* history: bytes that Write accepted, for each buffer
    delivered   \* history: bytes that Read returned, for each buffer

vars == <<buffer, closed, waiters, pc, port, size, sawEOF,
          accepted, delivered>>

TypeOK ==
    /\ buffer \in [Ports -> Seq(Bytes)]
    /\ closed \in [Ports -> BOOLEAN]
    /\ waiters \in [Ports -> Seq(Threads)]
    /\ pc \in [Threads -> {"idle", "waiting", "woken", "closing"}]
    /\ port \in [Threads -> Ports]
    /\ size \in [Threads -> Nat]
    /\ sawEOF \in [Ports -> BOOLEAN]
    /\ accepted \in [Ports -> Seq(Bytes)]
    /\ delivered \in [Ports -> Seq(Bytes)]

Init ==
    /\ buffer = [b \in Ports |-> <<>>]
    /\ closed = [b \in Ports |-> FALSE]
    /\ waiters = [b \in Ports |-> <<>>]
    /\ pc = [t \in Threads |-> "idle"]
    /\ port = [t \in Threads |-> 1]
    /\ size = [t \in Threads |-> 0]
    /\ sawEOF = [b \in Ports |-> FALSE]
    /\ accepted = [b \in Ports |-> <<>>]
    /\ delivered = [b \in Ports |-> <<>>]

-----------------------------------------------------------------------------
(* Steps of sync.Cond.                                                     *)

\* Mutant of Signal: Write forgets to signal.
SignalForgotten(b) == UNCHANGED <<waiters, pc>>

\* Signal wakes the goroutine that has slept longest, if there is one.
Signal(b) ==
    IF waiters[b] = <<>>
    THEN UNCHANGED <<waiters, pc>>
    ELSE /\ waiters' = [waiters EXCEPT ![b] = Tail(@)]
         /\ pc' = [pc EXCEPT ![Head(waiters[b])] = "woken"]

\* Wait puts t at the end of the notify list and lets the mutex go.
Wait(t, b) ==
    /\ waiters' = [waiters EXCEPT ![b] = Append(@, t)]
    /\ pc' = [pc EXCEPT ![t] = "waiting"]

\* Broadcast wakes every sleeper of b; t, the caller, goes on at next.
Broadcast(b, t, next) ==
    /\ waiters' = [waiters EXCEPT ![b] = <<>>]
    /\ pc' = [u \in Threads |->
                 CASE u = t -> next
                   [] u # t /\ pc[u] = "waiting" /\ Reader(port[u]) = b -> "woken"
                   [] OTHER -> pc[u]]

\* The locals of t's call: p and n while it is pending.
Locals(t, p, n) ==
    /\ port' = [port EXCEPT ![t] = p]
    /\ size' = [size EXCEPT ![t] = n]

\* A call that is over has no locals.
NoLocals(t) == Locals(t, 1, 0)

-----------------------------------------------------------------------------
(* Buffer.Write and Port.Write.                                            *)

\* A closed buffer refuses the data with ErrClosedPipe.
WriteRefused(t, p) ==
    /\ pc[t] = "idle"
    /\ closed[Writer(p)]
    /\ UNCHANGED vars

\* Mutant of Write: no test of closed.
WriteUnchecked(t, p, data) ==
    LET b == Writer(p) IN
    /\ pc[t] = "idle"
    /\ Len(accepted[b]) + Len(data) <= MaxBytes
    /\ buffer' = [buffer EXCEPT ![b] = @ \o data]
    /\ accepted' = [accepted EXCEPT ![b] = @ \o data]
    /\ Signal(b)
    /\ UNCHANGED <<closed, port, size, sawEOF, delivered>>

Write(t, p, data) ==
    LET b == Writer(p) IN
    /\ pc[t] = "idle"
    /\ ~closed[b]
    /\ Len(accepted[b]) + Len(data) <= MaxBytes
    /\ buffer' = [buffer EXCEPT ![b] = @ \o data]
    /\ accepted' = [accepted EXCEPT ![b] = @ \o data]
    /\ Signal(b)
    /\ UNCHANGED <<closed, port, size, sawEOF, delivered>>

-----------------------------------------------------------------------------
(* Buffer.Read, Port.Read and PortFile.ReadAt, which takes no offset.      *)

Least(m, n) == IF m <= n THEN m ELSE n

\* The condition of Read's wait loop.
MustWait(b) == Block /\ buffer[b] = <<>> /\ ~closed[b]

\* A read of n bytes that does not wait answers EOF when there is nothing to
\* read: an empty bytes.Buffer does so too, unless the slice is empty.
AnswersEOF(b, n) == buffer[b] = <<>> /\ (closed[b] \/ n > 0)

\* The rest of Read: at most n bytes leave buffer b.
Take(b, n) ==
    LET k == Least(n, Len(buffer[b])) IN
    /\ buffer' = [buffer EXCEPT ![b] = SubSeq(@, k + 1, Len(@))]
    /\ delivered' = [delivered EXCEPT ![b] = @ \o SubSeq(buffer[b], 1, k)]
    /\ sawEOF' = [sawEOF EXCEPT ![b] = @ \/ AnswersEOF(b, n)]
    /\ UNCHANGED <<closed, waiters, accepted>>

\* A call that finds the buffer empty goes to sleep ...
ReadWaits(t, p, n) ==
    /\ pc[t] = "idle"
    /\ MustWait(Reader(p))
    /\ Wait(t, Reader(p))
    /\ Locals(t, p, n)
    /\ UNCHANGED <<buffer, closed, sawEOF, accepted, delivered>>

\* ... any other takes what there is.
Read(t, p, n) ==
    /\ pc[t] = "idle"
    /\ ~MustWait(Reader(p))
    /\ Take(Reader(p), n)
    /\ UNCHANGED <<pc, port, size>>

\* A woken reader has the mutex again and finds the buffer empty again ...
SleepAgain(t) ==
    /\ pc[t] = "woken"
    /\ MustWait(Reader(port[t]))
    /\ Wait(t, Reader(port[t]))
    /\ UNCHANGED <<buffer, closed, port, size, sawEOF, accepted, delivered>>

\* ... or leaves the loop.
Resume(t) ==
    /\ pc[t] = "woken"
    /\ ~MustWait(Reader(port[t]))
    /\ Take(Reader(port[t]), size[t])
    /\ pc' = [pc EXCEPT ![t] = "idle"]
    /\ NoLocals(t)

-----------------------------------------------------------------------------
(* Port.Close: the reader buffer, then the writer buffer.                  *)

\* Mutant of CloseBuffer: the flag is set and nobody is woken.
CloseSilently(t, b, next) ==
    /\ closed' = [closed EXCEPT ![b] = TRUE]
    /\ pc' = [pc EXCEPT ![t] = next]
    /\ UNCHANGED <<buffer, waiters, sawEOF, accepted, delivered>>

CloseBuffer(t, b, next) ==
    /\ closed' = [closed EXCEPT ![b] = TRUE]
    /\ Broadcast(b, t, next)
    /\ UNCHANGED <<buffer, sawEOF, accepted, delivered>>

CloseReader(t, p) ==
    /\ pc[t] = "idle"
    /\ CloseBuffer(t, Reader(p), "closing")
    /\ Locals(t, p, 0)

CloseWriter(t) ==
    /\ pc[t] = "closing"
    /\ CloseBuffer(t, Writer(port[t]), "idle")
    /\ NoLocals(t)

-----------------------------------------------------------------------------
Next ==
    \E t \in Threads :
        \/ \E p \in Ports : WriteRefused(t, p)
        \/ \E p \in Ports, data \in Writes : Write(t, p, data)
        \/ \E p \in Ports, n \in ReadSizes : ReadWaits(t, p, n)
        \/ \E p \in Ports, n \in ReadSizes : Read(t, p, n)
        \/ SleepAgain(t)
        \/ Resume(t)
        \/ \E p \in Ports : CloseReader(t, p)
        \/ CloseWriter(t)

Spec == Init /\ [][Next]_vars

\* A goroutine that can run is run, and a mutex that is free is given to one
\* of the goroutines that want it. Nothing obliges a caller to call.
Fairness ==
    \A t \in Threads :
        WF_vars(Resume(t)) /\ WF_vars(SleepAgain(t)) /\ WF_vars(CloseWriter(t))

FairSpec == Spec /\ Fairness

-----------------------------------------------------------------------------
(* Safety.                                                                 *)

\* No byte is lost, duplicated or reordered by the interleaving of readers,
\* writers and closers: what was delivered and then what is buffered is what
\* Write accepted.
StreamIntact ==
    \A b \in Ports : accepted[b] = delivered[b] \o buffer[b]

\* Nobody sleeps on a closed buffer: Close wakes every reader and no reader
\* goes to sleep afterwards.
NoSleeperOnClosed ==
    \A t \in Threads : pc[t] = "waiting" => ~closed[Reader(port[t])]

\* In a blocking pipe EOF is final: after a reader of the buffer has seen it,
\* no reader of it gets a byte, because it is closed and drained.
EOFIsFinal ==
    \A b \in Ports : Block /\ sawEOF[b] => closed[b] /\ buffer[b] = <<>>

-----------------------------------------------------------------------------
(* Liveness.                                                               *)

\* Port.Close ends every read of both directions, blocked or about to block.
CloseEndsReads ==
    \A t, u \in Threads :
        pc[u] = "closing" ~> pc[t] \notin {"waiting", "woken"}

\* A reader for which there is data does not sleep for ever: it, or another
\* reader that came first, takes the data. Write wakes one reader only, so
\* this needs every read to be as long as the data there may be, or one reader
\* for each buffer.
DataEndsRead ==
    \A t \in Threads :
        (pc[t] = "waiting" /\ buffer[Reader(port[t])] # <<>>)
           ~> (pc[t] = "idle" \/ buffer[Reader(port[t])] = <<>>)

-----------------------------------------------------------------------------
(* The pipe implements a pair of byte streams.                             *)

Streams == INSTANCE Duplex WITH
    Directions <- Ports, log <- accepted, out <- delivered, shut <- closed

\* Every step of the pipe is a step of the byte streams of Duplex, or changes
\* none of them.
ImplementsDuplex == Streams!StreamSteps
=============================================================================
