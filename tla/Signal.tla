------------------------------- MODULE Signal -------------------------------
(***************************************************************************)
(* fs/signal: a Broadcaster and the files opened on it.                    *)
(*                                                                         *)
(* A subscriber has a channel of Cap frames. Broadcast takes a snapshot of *)
(* the channels under the mutex and sends to them one by one after giving  *)
(* it up, so that a channel may be full, or closed, by the time of the     *)
(* send. A send on a closed channel panics, which ends the program.        *)
(*                                                                         *)
(* A file subscribes at most once (reader.once, rdwr.id), so a             *)
(* subscription and its id are named here by the file that owns it. The    *)
(* critical sections of Broadcaster.mu and of rdwr.mu never block: each is *)
(* one step. reader.mu is held by a Read that waits for a frame.           *)
(***************************************************************************)
EXTENDS Naturals, Sequences, FiniteSets

CONSTANTS
    Threads,      \* goroutines
    Readers,      \* files opened O_RDONLY
    Writers,      \* files opened O_WRONLY
    Rdwrs,        \* files opened O_RDWR
    Cap,          \* capacity of a subscriber's channel (64 in the code)
    FrameLen,     \* bytes in a frame
    ReadSizes,    \* lengths of the slice that a Read may carry
    None,         \* no file, no goroutine
    MaxFrames     \* bound: frames broadcast in a behaviour

Files == Readers \cup Writers \cup Rdwrs

ASSUME SignalAssumption ==
    /\ Readers \cap Writers = {} /\ Readers \cap Rdwrs = {} /\ Writers \cap Rdwrs = {}
    /\ None \notin Files \cup Threads
    /\ Cap \in Nat \ {0}
    /\ FrameLen \in Nat \ {0}
    /\ ReadSizes \subseteq Nat \ {0}
    /\ MaxFrames \in Nat

VARIABLES
    subscribed,  \* the files that have an entry in Broadcaster.readers
    everSub,     \* the files whose once has run, or whose id is set
    chan,        \* chan[f]: frames in the channel of f
    chClosed,    \* chClosed[f]: the channel of f is closed
    buf,         \* buf[f]: rest of a frame that did not fit a Read's slice
    closed,      \* closed[f]: f's closed flag
    holder,      \* holder[f]: the goroutine that holds reader.mu, or None
    pc,          \* pc[t]: where goroutine t is
    file,        \* file[t]: the file of its current call
    size,        \* size[t]: the length of its Read's slice
    hand,        \* hand[t]: frames a rdwr Read has received and not returned
    targets,     \* targets[t]: channels its Broadcast has still to send to
    payload,     \* payload[t]: the frame it broadcasts
    author,      \* history: author[n], the file that broadcast frame n
    sent,        \* history: sent[f], the frames put into the channel of f
    got,         \* history: got[f], the bytes that Reads of f returned
    solo,        \* history: solo[f], no two Reads of f have overlapped
    crashed      \* some goroutine has sent on a closed channel

fileVars == <<subscribed, everSub, chan, chClosed, buf, closed, holder>>
threadVars == <<pc, file, size, hand, targets, payload>>
history == <<author, sent, got, solo>>
vars == <<fileVars, threadVars, history, crashed>>

Subscribers == Readers \cup Rdwrs

BytesOf(n) == [i \in 1..FrameLen |-> <<n, i>>]

Init ==
    /\ subscribed = {}
    /\ everSub = {}
    /\ chan = [f \in Subscribers |-> <<>>]
    /\ chClosed = [f \in Subscribers |-> FALSE]
    /\ buf = [f \in Subscribers |-> <<>>]
    /\ closed = [f \in Subscribers |-> FALSE]
    /\ holder = [f \in Readers |-> None]
    /\ pc = [t \in Threads |-> "idle"]
    /\ file = [t \in Threads |-> None]
    /\ size = [t \in Threads |-> 0]
    /\ hand = [t \in Threads |-> <<>>]
    /\ targets = [t \in Threads |-> <<>>]
    /\ payload = [t \in Threads |-> 0]
    /\ author = <<>>
    /\ sent = [f \in Subscribers |-> <<>>]
    /\ got = [f \in Subscribers |-> <<>>]
    /\ solo = [f \in Subscribers |-> TRUE]
    /\ crashed = FALSE

-----------------------------------------------------------------------------
(* Goroutines.                                                             *)

\* t enters a call on f, at label.
Enter(t, f, label) ==
    /\ pc[t] = "idle"
    /\ pc' = [pc EXCEPT ![t] = label]
    /\ file' = [file EXCEPT ![t] = f]

\* t's call is over.
Return(t) ==
    /\ pc' = [pc EXCEPT ![t] = "idle"]
    /\ file' = [file EXCEPT ![t] = None]
    /\ size' = [size EXCEPT ![t] = 0]
    /\ hand' = [hand EXCEPT ![t] = <<>>]
    /\ UNCHANGED <<targets, payload>>

GoesTo(t, label) ==
    /\ pc' = [pc EXCEPT ![t] = label]
    /\ UNCHANGED <<file, size, targets, payload>>

\* Some other goroutine is in a Read of f.
OtherReads(t, f) ==
    \E u \in Threads \ {t} :
        file[u] = f /\ pc[u] \in {"reading", "receiving", "received"}

-----------------------------------------------------------------------------
(* Broadcaster.                                                            *)

\* AddReader, once for a file.
AddReader(f) ==
    /\ subscribed' = subscribed \cup {f}
    /\ everSub' = everSub \cup {f}

\* RemoveReader: a subscription that is gone is left alone.
RemoveReader(f) ==
    /\ subscribed' = subscribed \ {f}
    /\ chClosed' = [chClosed EXCEPT ![f] = @ \/ f \in subscribed]

\* Broadcaster.Close.
BroadcasterClose ==
    /\ subscribed' = {}
    /\ chClosed' = [f \in Subscribers |-> chClosed[f] \/ f \in subscribed]
    /\ UNCHANGED <<everSub, chan, buf, closed, holder, threadVars, history, crashed>>

-----------------------------------------------------------------------------
(* reader.Read and rdwr.Read.                                              *)

\* subscribe (of a reader) or ensure (of a rdwr). A reader subscribes even
\* when it has been closed. The unsynchronised accesses of a concurrent Close
\* to r.id and r.ch end like a Close that came before.
Subscribe(f) ==
    IF f \notin everSub /\ (f \in Readers \/ ~closed[f])
    THEN AddReader(f)
    ELSE UNCHANGED <<subscribed, everSub>>

ReadCall(t, f, n) ==
    /\ Enter(t, f, "reading")
    /\ size' = [size EXCEPT ![t] = n]
    /\ Subscribe(f)
    /\ solo' = [solo EXCEPT ![f] = @ /\ ~OtherReads(t, f)]
    /\ UNCHANGED <<chan, chClosed, buf, closed, holder, hand, targets, payload,
                   author, sent, got, crashed>>

\* What a Read does with r.mu in its hands, before it waits for a frame.
CanLock(f) == f \in Readers => holder[f] = None

ReadClosed(t) ==
    /\ pc[t] = "reading"
    /\ CanLock(file[t])
    /\ closed[file[t]]
    /\ Return(t)
    /\ UNCHANGED <<fileVars, history, crashed>>

Least(m, n) == IF m <= n THEN m ELSE n

\* The copy of a frame into the slice: the rest, if any, is put into buf.
CopyFrame(t, f, n) ==
    LET k == Least(size[t], FrameLen) IN
    /\ got' = [got EXCEPT ![f] = @ \o SubSeq(BytesOf(n), 1, k)]
    /\ buf' = IF k < FrameLen
              THEN [buf EXCEPT ![f] = SubSeq(BytesOf(n), k + 1, FrameLen)]
              ELSE buf

ReadBuffered(t) ==
    LET f == file[t]
        k == Least(size[t], Len(buf[f]))
    IN
    /\ pc[t] = "reading"
    /\ CanLock(f)
    /\ ~closed[f]
    /\ buf[f] # <<>>
    /\ got' = [got EXCEPT ![f] = @ \o SubSeq(buf[f], 1, k)]
    /\ buf' = [buf EXCEPT ![f] = SubSeq(@, k + 1, Len(@))]
    /\ Return(t)
    /\ UNCHANGED <<subscribed, everSub, chan, chClosed, closed, holder,
                   author, sent, solo, crashed>>

\* Mutant of ReadWaits: the mutex is not held while a reader waits.
ReadWaitsUnlocked(t) ==
    /\ pc[t] = "reading"
    /\ CanLock(file[t])
    /\ ~closed[file[t]]
    /\ buf[file[t]] = <<>>
    /\ GoesTo(t, "receiving")
    /\ UNCHANGED <<fileVars, hand, history, crashed>>

\* A reader goes to wait with its mutex held, a rdwr without.
ReadWaits(t) ==
    LET f == file[t] IN
    /\ pc[t] = "reading"
    /\ CanLock(f)
    /\ ~closed[f]
    /\ buf[f] = <<>>
    /\ holder' = IF f \in Readers THEN [holder EXCEPT ![f] = t] ELSE holder
    /\ GoesTo(t, "receiving")
    /\ UNCHANGED <<subscribed, everSub, chan, chClosed, buf, closed, hand, history, crashed>>

\* frame, ok := <-r.ch with a frame.
ReaderReceives(t) ==
    LET f == file[t] IN
    /\ pc[t] = "receiving"
    /\ f \in Readers
    /\ chan[f] # <<>>
    /\ chan' = [chan EXCEPT ![f] = Tail(@)]
    /\ CopyFrame(t, f, Head(chan[f]))
    /\ holder' = [holder EXCEPT ![f] = None]
    /\ Return(t)
    /\ UNCHANGED <<subscribed, everSub, chClosed, closed, author, sent, solo, crashed>>

RdwrReceives(t) ==
    LET f == file[t] IN
    /\ pc[t] = "receiving"
    /\ f \in Rdwrs
    /\ chan[f] # <<>>
    /\ chan' = [chan EXCEPT ![f] = Tail(@)]
    /\ hand' = [hand EXCEPT ![t] = <<Head(chan[f])>>]
    /\ GoesTo(t, "received")
    /\ UNCHANGED <<subscribed, everSub, chClosed, buf, closed, holder, history, crashed>>

\* A closed and drained channel ends the Read: io.EOF, or ErrClosed.
ReceivesClosed(t) ==
    LET f == file[t] IN
    /\ pc[t] = "receiving"
    /\ chClosed[f]
    /\ chan[f] = <<>>
    /\ holder' = IF f \in Readers THEN [holder EXCEPT ![f] = None] ELSE holder
    /\ Return(t)
    /\ UNCHANGED <<subscribed, everSub, chan, chClosed, buf, closed, history, crashed>>

\* A rdwr has its mutex again: the frame is dropped if it was closed meanwhile.
RdwrReturns(t) ==
    LET f == file[t] IN
    /\ pc[t] = "received"
    /\ IF closed[f]
       THEN UNCHANGED <<got, buf>>
       ELSE CopyFrame(t, f, Head(hand[t]))
    /\ Return(t)
    /\ UNCHANGED <<subscribed, everSub, chan, chClosed, closed, holder,
                   author, sent, solo, crashed>>

-----------------------------------------------------------------------------
(* writer.Write and rdwr.Write.                                            *)

WriteCall(t, f) ==
    /\ Enter(t, f, "writing")
    /\ IF f \in Rdwrs THEN Subscribe(f) ELSE UNCHANGED <<subscribed, everSub>>
    /\ UNCHANGED <<chan, chClosed, buf, closed, holder, size, hand, targets, payload,
                   history, crashed>>

\* The orders in which a range over a Go map may visit a set of files.
Orders(S) ==
    {s \in [1..Cardinality(S) -> S] : \A i, j \in DOMAIN s : s[i] = s[j] => i = j}

\* Broadcast excludes the writing file itself.
Audience(f) == subscribed \ {f}

\* The first half of Broadcast: the targets are fixed under the mutex.
Snapshot(t) ==
    /\ pc[t] = "writing"
    /\ Len(author) < MaxFrames
    /\ author' = Append(author, file[t])
    /\ payload' = [payload EXCEPT ![t] = Len(author) + 1]
    /\ \E s \in Orders(Audience(file[t])) : targets' = [targets EXCEPT ![t] = s]
    /\ pc' = [pc EXCEPT ![t] = "sending"]
    /\ UNCHANGED <<fileVars, file, size, hand, sent, got, solo, crashed>>

\* ch <- payload: waits while the channel is full ...
Send(t) ==
    /\ pc[t] = "sending"
    /\ targets[t] # <<>>
    /\ LET f == Head(targets[t]) IN
       /\ ~chClosed[f]
       /\ Len(chan[f]) < Cap
       /\ chan' = [chan EXCEPT ![f] = Append(@, payload[t])]
       /\ sent' = [sent EXCEPT ![f] = Append(@, payload[t])]
    /\ targets' = [targets EXCEPT ![t] = Tail(@)]
    /\ UNCHANGED <<subscribed, everSub, chClosed, buf, closed, holder,
                   pc, file, size, hand, payload, author, got, solo, crashed>>

\* ... and panics when the channel is closed, before or while it waits.
SendPanics(t) ==
    /\ pc[t] = "sending"
    /\ targets[t] # <<>>
    /\ chClosed[Head(targets[t])]
    /\ crashed' = TRUE
    /\ UNCHANGED <<fileVars, threadVars, history>>

WriteReturns(t) ==
    /\ pc[t] = "sending"
    /\ targets[t] = <<>>
    /\ pc' = [pc EXCEPT ![t] = "idle"]
    /\ file' = [file EXCEPT ![t] = None]
    /\ payload' = [payload EXCEPT ![t] = 0]
    /\ UNCHANGED <<fileVars, size, hand, targets, history, crashed>>

-----------------------------------------------------------------------------
(* reader.Close and rdwr.Close. writer.Close does nothing.                 *)

CloseCall(t, f) ==
    /\ Enter(t, f, "closing")
    /\ UNCHANGED <<fileVars, size, hand, targets, payload, history, crashed>>

\* A reader's Close needs the mutex that a waiting Read holds, and removes the
\* subscription, if there is one, in the same critical section.
ReaderCloses(t) ==
    LET f == file[t] IN
    /\ pc[t] = "closing"
    /\ f \in Readers
    /\ holder[f] = None
    /\ closed' = [closed EXCEPT ![f] = TRUE]
    /\ IF ~closed[f] /\ f \in everSub
       THEN RemoveReader(f)
       ELSE UNCHANGED <<subscribed, chClosed>>
    /\ Return(t)
    /\ UNCHANGED <<everSub, chan, buf, holder, history, crashed>>

\* Mutant of RdwrCloses: a waiting Read of the rdwr holds the mutex.
RdwrClosesAfterReads(t) ==
    LET f == file[t] IN
    /\ pc[t] = "closing"
    /\ f \in Rdwrs
    /\ ~\E u \in Threads : file[u] = f /\ pc[u] = "receiving"
    /\ closed' = [closed EXCEPT ![f] = TRUE]
    /\ IF ~closed[f] /\ f \in everSub
       THEN GoesTo(t, "removing") /\ UNCHANGED hand
       ELSE Return(t)
    /\ UNCHANGED <<subscribed, everSub, chan, chClosed, buf, holder, history, crashed>>

\* A rdwr's Close sets the flag, and leaves its mutex to remove a subscription.
RdwrCloses(t) ==
    LET f == file[t] IN
    /\ pc[t] = "closing"
    /\ f \in Rdwrs
    /\ closed' = [closed EXCEPT ![f] = TRUE]
    /\ IF ~closed[f] /\ f \in everSub
       THEN GoesTo(t, "removing") /\ UNCHANGED hand
       ELSE Return(t)
    /\ UNCHANGED <<subscribed, everSub, chan, chClosed, buf, holder, history, crashed>>

RdwrRemoves(t) ==
    /\ pc[t] = "removing"
    /\ RemoveReader(file[t])
    /\ Return(t)
    /\ UNCHANGED <<everSub, chan, buf, closed, holder, history, crashed>>

-----------------------------------------------------------------------------
ReadStep(t) ==
    \/ ReadClosed(t)
    \/ ReadBuffered(t)
    \/ ReadWaits(t)
    \/ ReaderReceives(t)
    \/ RdwrReceives(t)
    \/ ReceivesClosed(t)
    \/ RdwrReturns(t)

WriteStep(t) == Snapshot(t) \/ Send(t) \/ SendPanics(t) \/ WriteReturns(t)

CloseStep(t) == ReaderCloses(t) \/ RdwrCloses(t) \/ RdwrRemoves(t)

Next ==
    /\ ~crashed
    /\ \/ BroadcasterClose
       \/ \E t \in Threads :
             \/ \E f \in Subscribers, n \in ReadSizes : ReadCall(t, f, n)
             \/ \E f \in Writers \cup Rdwrs : WriteCall(t, f)
             \/ \E f \in Subscribers : CloseCall(t, f)
             \/ ReadStep(t)
             \/ WriteStep(t)
             \/ CloseStep(t)

Spec == Init /\ [][Next]_vars

\* A goroutine that can run is run, a free mutex is given to one that waits
\* for it, a channel operation that can proceed does. No call has to be made.
Fairness ==
    \A t \in Threads :
        WF_vars(~crashed /\ ReadStep(t)) /\ WF_vars(~crashed /\ WriteStep(t))
          /\ WF_vars(~crashed /\ CloseStep(t))

FairSpec == Spec /\ Fairness

-----------------------------------------------------------------------------
(* Safety.                                                                 *)

\* The i-th byte of everything that was put into the channel of f.
StreamByte(f, i) ==
    <<sent[f][((i - 1) \div FrameLen) + 1], ((i - 1) % FrameLen) + 1>>

\* The bytes of the frame that a Read of f has received and not returned.
InHand(f) ==
    LET S == {t \in Threads : file[t] = f /\ hand[t] # <<>>}
    IN IF S = {} THEN <<>> ELSE BytesOf(Head(hand[CHOOSE t \in S : TRUE]))

\* What was read from f, then the rest of a frame, then the channel, is what
\* was sent to f: no byte is lost, repeated or moved.
Stream(f) ==
    LET read == got[f] \o buf[f] \o InHand(f) IN
    /\ Len(read) + FrameLen * Len(chan[f]) = FrameLen * Len(sent[f])
    /\ \A i \in 1..Len(read) : read[i] = StreamByte(f, i)
    /\ chan[f] = SubSeq(sent[f], Len(sent[f]) - Len(chan[f]) + 1, Len(sent[f]))

\* A reader's mutex covers the wait for a frame, so that its stream is intact
\* however many goroutines read it and close it.
ReaderStream == \A f \in Readers : Stream(f)

\* A rdwr waits without its mutex: its stream is intact as long as its Reads
\* do not overlap and it is not closed.
SoloRdwrStream == \A f \in Rdwrs : solo[f] /\ ~closed[f] => Stream(f)

\* No file loses, repeats or moves a byte of what was sent to it.
StreamsIntact == ReaderStream /\ SoloRdwrStream

\* "Broadcast delivers a copy of data to every subscriber": when a Broadcast
\* is cut short, nobody who is still subscribed is left without the frame.
BroadcastReachesSubscribers ==
    crashed => \A t \in Threads :
        (targets[t] # <<>> /\ chClosed[Head(targets[t])])
           => \A i \in DOMAIN targets[t] : targets[t][i] \notin subscribed

-----------------------------------------------------------------------------
(* Liveness.                                                               *)

\* The Close of a rdwr ends, even while Reads of it wait.
RdwrCloseReturns ==
    \A t \in Threads :
        (pc[t] = "closing" /\ file[t] \in Rdwrs) ~> (pc[t] = "idle" \/ crashed)
=============================================================================
