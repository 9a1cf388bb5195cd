------------------------------- MODULE Shm -------------------------------
(***************************************************************************)
(* The shared-memory channel between the page and a Go program in the      *)
(* emulator (misc/shm): two rings in one region that have nothing in       *)
(* common, each with one writer and one reader that poll a head and a      *)
(* tail.  The model is one ring; writer says which: Write of chan.go with  *)
(* pollForMessages of chan.js, or write of chan.js with Read of chan.go.   *)
(* Positions are counters of 32 bits, here modulo Word, which is no        *)
(* multiple of the size of the ring; the page takes them as signed.  A     *)
(* cell stands for some bytes: a message is a header of two cells, its     *)
(* length and zero, and a payload that holds its number in every cell.     *)
(***************************************************************************)
EXTENDS Integers, Sequences, SequencesExt

CONSTANTS BufferSize, Margin, Word,
          Sizes,       \* payload sizes, also none
          MaxMessages  \* how many messages are written

ASSUME ShmAssumption == /\ BufferSize \in Nat \ {0} /\ Margin \in Nat
                        /\ Word \in Nat /\ Word % BufferSize # 0
                        /\ Sizes \subseteq 0 .. BufferSize - 1 /\ MaxMessages \in Nat

HDR == 2

VARIABLES writer,      \* "go" or "js"
          head, tail, mem,
          wr,          \* what the writer is doing
          rd,          \* what the reader is doing, and what of a message it has left
          waiting,     \* messages given to the writer that are not in the ring
          written,     \* how many messages were given to the writer
          sent,        \* their payloads in order, those given up apart
          got,         \* what the reader handed on
          starts,      \* where messages were put
          strayed,     \* the reader took what lies in a gap for a message
          passed       \* a message got in before one that was written earlier

shmVars == <<writer, head, tail, mem, wr, rd, waiting, written, sent, got, starts, strayed, passed>>

(***************************************************************************)
(* Positions and what the two languages make of them.                      *)
(***************************************************************************)
Plus(p, n) == (p + n) % Word
Minus(p, q) == (p - q) % Word

\* readUint32 of chan.js puts the bytes together with <<, which is signed
Signed(p) == IF p >= Word \div 2 THEN p - Word ELSE p
JsRem(p, n) == IF p >= 0 THEN p % n ELSE -((-p) % n)
PosAt(p, side) == IF side = "js" THEN JsRem(Signed(p), BufferSize) ELSE p % BufferSize

\* where the next round starts, in 32 bits
NextCycle(p, side) == LET q == IF side = "js" THEN Signed(p) ELSE p
                      IN  ((q \div BufferSize + 1) * BufferSize) % Word

GoAvailable(h, t) == IF h >= t THEN (BufferSize - h + t) % Word ELSE t - h
JsAvailable(h, t) == BufferSize - Minus(h, t)
Available(h, t) == LET free == IF writer = "go" THEN GoAvailable(h, t) ELSE JsAvailable(h, t)
                   IN  IF free > Margin THEN free - Margin ELSE 0

MessageSize(m) == HDR + m.size

(***************************************************************************)
(* The writer: a try loads both counters, copies the message and stores    *)
(* the head.                                                               *)
(***************************************************************************)
\* a mutant: past a gap without a look at where the reader is
PlaceAnyway(m) ==
    LET pos == PosAt(head, writer)
        fits == MessageSize(m) <= Available(head, tail)
    IN  IF pos + MessageSize(m) <= BufferSize THEN [ok |-> fits, head |-> head, pos |-> pos]
        ELSE [ok |-> fits, head |-> NextCycle(head, writer), pos |-> 0]

\* whether the message fits and where: past a gap when the end is too near
Place(m) ==
    LET pos == PosAt(head, writer)
        fits == MessageSize(m) <= Available(head, tail)
    IN  IF pos + MessageSize(m) <= BufferSize THEN [ok |-> fits, head |-> head, pos |-> pos]
        ELSE [ok |-> fits /\ PosAt(tail, writer) >= MessageSize(m),
              head |-> NextCycle(head, writer), pos |-> 0]

Payload(m) == [c \in 1 .. m.size |-> m.id]
AllSent(ms) == FlattenSeq([i \in DOMAIN ms |-> Payload(ms[i])])

\* the Go program has one call at a time, the page starts one with every message of its port
WriteStarts(n) ==
    LET m == [id |-> written + 1, size |-> n]
    IN  /\ written < MaxMessages
        /\ writer = "go" => waiting = <<>> /\ wr.at = "idle"
        /\ waiting' = Append(waiting, m)
        /\ sent' = Append(sent, m)
        /\ written' = written + 1
        /\ UNCHANGED <<writer, head, tail, mem, wr, rd, got, starts, strayed, passed>>

WriteFits(i) ==
    /\ wr.at = "idle" /\ i \in DOMAIN waiting
    /\ LET p == Place(waiting[i])
       IN  p.ok /\ wr' = [at |-> "copy", msg |-> waiting[i], head |-> p.head, pos |-> p.pos]
    /\ waiting' = RemoveAt(waiting, i)
    /\ passed' = (passed \/ i > 1)
    /\ UNCHANGED <<writer, head, tail, mem, rd, written, sent, got, starts, strayed>>

CellOf(m, k) == IF k = 0 THEN m.size ELSE IF k < HDR THEN 0 ELSE m.id

WriteCopies ==
    /\ wr.at = "copy"
    /\ mem' = [c \in DOMAIN mem |-> IF c \in wr.pos .. wr.pos + MessageSize(wr.msg) - 1
                                    THEN CellOf(wr.msg, c - wr.pos) ELSE mem[c]]
    /\ wr' = [wr EXCEPT !.at = "publish"]
    /\ UNCHANGED <<writer, head, tail, rd, waiting, written, sent, got, starts, strayed, passed>>

WritePublishes ==
    /\ wr.at = "publish"
    /\ head' = Plus(wr.head, MessageSize(wr.msg))
    /\ starts' = starts \cup {wr.head}
    /\ wr' = [at |-> "idle"]
    /\ UNCHANGED <<writer, tail, mem, rd, waiting, written, sent, got, strayed, passed>>

\* the second is over, or the ten thousand tries: the message is given up
WriteGivesUp(i) ==
    /\ wr.at = "idle" /\ i \in DOMAIN waiting /\ ~Place(waiting[i]).ok
    /\ waiting' = RemoveAt(waiting, i)
    /\ sent' = SelectSeq(sent, LAMBDA x : x # waiting[i])
    /\ UNCHANGED <<writer, head, tail, mem, wr, rd, written, got, starts, strayed, passed>>

(***************************************************************************)
(* The reader: it loads the counters, copies a message and stores the      *)
(* tail.  A length that makes no sense, or no room for one, is a gap, and  *)
(* the rest of the round is skipped.                                       *)
(***************************************************************************)
reader == IF writer = "go" THEN "js" ELSE "go"

LengthAt(pos) == mem[pos] + Word * mem[pos + 1]

IsMessage(pos) == /\ pos + HDR <= BufferSize
                  /\ LengthAt(pos) \in 1 .. BufferSize - 1
                  /\ pos + HDR + LengthAt(pos) <= BufferSize

\* Bound: a reader that has handed on more than there was stops.
MayRead == Len(got) <= Len(AllSent(sent)) /\ rd.at = "idle" /\ rd.left = <<>> /\ Minus(head, tail) > 0

ReadTakes ==
    LET pos == PosAt(tail, reader)
    IN  /\ MayRead /\ IsMessage(pos)
        /\ rd' = [at |-> "took", next |-> Plus(tail, HDR + LengthAt(pos)),
                  left |-> SubSeq([c \in 1 .. 2 * BufferSize |->
                                     IF pos + HDR + c - 1 \in DOMAIN mem THEN mem[pos + HDR + c - 1] ELSE 0],
                                  1, LengthAt(pos))]
        /\ strayed' = (strayed \/ tail \notin starts)
        /\ UNCHANGED <<writer, head, tail, mem, wr, waiting, written, sent, got, starts, passed>>

ReadSkips ==
    /\ MayRead /\ ~IsMessage(PosAt(tail, reader))
    /\ tail' = NextCycle(tail, reader)
    /\ UNCHANGED <<writer, head, mem, wr, rd, waiting, written, sent, got, starts, strayed, passed>>

ReadAdvances ==
    /\ rd.at = "took"
    /\ tail' = rd.next
    /\ rd' = [at |-> "idle", left |-> rd.left]
    /\ UNCHANGED <<writer, head, mem, wr, waiting, written, sent, got, starts, strayed, passed>>

\* the page posts the message in one piece, Read hands out what fits its caller's buffer
ReadHandsOn(n) ==
    /\ rd.at = "idle" /\ rd.left # <<>>
    /\ n = Len(rd.left) \/ (reader = "go" /\ n < Len(rd.left))
    /\ got' = got \o SubSeq(rd.left, 1, n)
    /\ rd' = [rd EXCEPT !.left = SubSeq(@, n + 1, Len(@))]
    /\ UNCHANGED <<writer, head, tail, mem, wr, waiting, written, sent, starts, strayed, passed>>

ShmInit == /\ writer \in {"go", "js"}
           /\ head = 0 /\ tail = 0
           /\ mem = [c \in -BufferSize .. BufferSize |-> 0]
           /\ wr = [at |-> "idle"] /\ rd = [at |-> "idle", left |-> <<>>]
           /\ waiting = <<>> /\ written = 0 /\ sent = <<>> /\ got = <<>>
           /\ starts = {} /\ strayed = FALSE /\ passed = FALSE

ShmNext == \/ \E n \in Sizes : WriteStarts(n)
           \/ \E i \in 1 .. 2 : WriteFits(i) \/ WriteGivesUp(i)
           \/ WriteCopies \/ WritePublishes
           \/ ReadTakes \/ ReadSkips \/ ReadAdvances
           \/ \E n \in 1 .. BufferSize : ReadHandsOn(n)

-----------------------------------------------------------------------------
\* A message without a payload, and a counter that the page takes for negative
Empty == \E i \in DOMAIN sent : sent[i].size = 0
HalfWay == \E p \in starts \cup {head, tail} : Signed(p) < 0

\* Nothing is left: all that was written is in the ring, and the reader is at its end
ReadDry == waiting = <<>> /\ wr.at = "idle" /\ rd.at = "idle" /\ rd.left = <<>> /\ head = tail

\* What the reader hands on is what was written, whole and in order, and all of
\* it once nothing is left to read, across the end of the ring and however slow
\* the reader is.  The code leaves exceptions: the reader takes an old message
\* that lies in a gap for a new one (the writer marks no gap), or a message
\* without a payload for a gap; a message of the page that waits is passed by a
\* shorter one; and from half of the 32 bits on the page reads the counters as
\* negative (chan.js:34-38), so that what the comments say of overflow holds no
\* longer (chan.js:62, 170, chan.go:118, 235).
RingInOrder ==
    ~strayed /\ ~passed /\ ~Empty /\ ~HalfWay =>
        /\ IsPrefix(got, AllSent(sent))
        /\ ReadDry => got = AllSent(sent)

=============================================================================
