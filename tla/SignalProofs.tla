---------------------------- MODULE SignalProofs ----------------------------
(***************************************************************************)
(* Theorems about the Broadcaster and its files, for any number of         *)
(* goroutines, files, frames and bytes in a frame: the streams that files  *)
(* give out are intact, and no subscriber is sent a frame twice or one of  *)
(* its own.  And about two stores of the browser, for any tasks and calls: *)
(* what has changed in the metadata of fsa is always due to be saved, and  *)
(* a name in a cache keeps one URL.                                        *)
(***************************************************************************)
EXTENDS Signal, Fsa, CacheFS, SequenceTheorems, FiniteSetTheorems, TLAPS

-----------------------------------------------------------------------------
(* Frames as bytes.                                                        *)

Bytes == Nat \X Nat

\* A byte's number and its frame: the r-th of the frames that follow q others.
LEMMA BytePlace ==
  ASSUME NEW F \in Nat \ {0}, NEW q \in Nat, NEW r \in Nat, r < F
  PROVE  (F * q + r) \div F = q /\ (F * q + r) % F = r
<1>1. PICK x \in Nat : x = F * q + r
  OBVIOUS
<1>2. PICK a \in Int : a = x \div F
  BY <1>1
<1>3. PICK m \in Int : m = x % F
  BY <1>1
<1>4. x = F * a + m /\ 0 <= m /\ m < F
  BY <1>1, <1>2, <1>3
<1>5. F * (a - q) = r - m
  <2>1. F * (a - q) = F * a - F * q
    OBVIOUS
  <2>2. QED
    BY <2>1, <1>4, <1>1
<1>6. PICK d \in Int : d = a - q
  OBVIOUS
<1>7. ~(d >= 1)
  <2>1. SUFFICES ASSUME d >= 1 PROVE FALSE
    OBVIOUS
  <2>2. F * d >= F
    BY <2>1, Z3
  <2>3. QED
    BY <2>2, <1>4, <1>5, <1>6
<1>8. ~(d <= -1)
  <2>1. SUFFICES ASSUME d <= -1 PROVE FALSE
    OBVIOUS
  <2>2. F * d <= -F
    BY <2>1, Z3
  <2>3. QED
    BY <2>2, <1>4, <1>5, <1>6
<1>9. d = 0
  BY <1>7, <1>8
<1>10. a = q /\ m = r
  BY <1>9, <1>6, <1>4, <1>1
<1>11. QED
  BY <1>10, <1>1, <1>2, <1>3

\* The bytes of n frames are in these frames.
LEMMA PlaceBound ==
  ASSUME NEW F \in Nat \ {0}, NEW n \in Nat, NEW i \in Nat, 1 <= i, i <= F * n
  PROVE  (i - 1) \div F \in 0 .. n - 1
<1>1. PICK a \in Int : a = (i - 1) \div F
  OBVIOUS
<1>2. PICK m \in Int : m = (i - 1) % F
  OBVIOUS
<1>3. i - 1 = F * a + m /\ 0 <= m /\ m < F
  BY <1>1, <1>2
<1>4. ~(a <= -1)
  <2>1. SUFFICES ASSUME a <= -1 PROVE FALSE
    OBVIOUS
  <2>2. F * a <= -F
    BY <2>1, Z3
  <2>3. QED
    BY <2>2, <1>3
<1>5. ~(a >= n)
  <2>1. SUFFICES ASSUME a >= n PROVE FALSE
    OBVIOUS
  <2>2. F * a >= F * n
    BY <2>1, Z3
  <2>3. QED
    BY <2>2, <1>3
<1>6. QED
  BY <1>4, <1>5, <1>1

\* The two pieces of a sequence that is cut are sequences, and put together
\* again they are the sequence.
LEMMA CutSequence ==
  ASSUME NEW S, NEW s \in Seq(S), NEW k \in 0 .. Len(s)
  PROVE  /\ SubSeq(s, 1, k) \in Seq(S)
         /\ SubSeq(s, k + 1, Len(s)) \in Seq(S)
         /\ SubSeq(s, 1, k) \o SubSeq(s, k + 1, Len(s)) = s
<1>1. Len(s) \in Nat /\ \A i \in 1 .. Len(s) : s[i] \in S
  BY LenProperties, ElementOfSeq
<1>2. SubSeq(s, 1, k) \in Seq(S) /\ SubSeq(s, k + 1, Len(s)) \in Seq(S)
  BY <1>1, SubSeqProperties
<1>3. 1 \in 1 .. Len(s) + 1 /\ k \in 1 - 1 .. Len(s) /\ Len(s) \in k .. Len(s)
  BY <1>1
<1>4. SubSeq(s, 1, k) \o SubSeq(s, k + 1, Len(s)) = SubSeq(s, 1, Len(s))
  BY <1>3, ConcatAdjacentSubSeq
<1>5. QED
  BY <1>2, <1>4, SubSeqFull

LEMMA BytesRegroup ==
  \A r, x, y \in Seq(Bytes) : (r \o x) \o y = r \o (x \o y)
BY ConcatAssociative

LEMMA NothingAdded ==
  ASSUME NEW r \in Seq(Bytes)
  PROVE  r \o <<>> = r
BY ConcatSimplifications

LEMMA FrameBytes ==
  ASSUME NEW n \in Nat
  PROVE  /\ BytesOf(n) \in Seq(Bytes)
         /\ Len(BytesOf(n)) = FrameLen
         /\ \A i \in 1 .. FrameLen : BytesOf(n)[i] = <<n, i>>
BY SignalAssumption DEF BytesOf, Bytes

(***************************************************************************)
(* read and the frames in c are what was sent as s.                        *)
(***************************************************************************)
Flat(read, s, c) ==
  /\ Len(read) + FrameLen * Len(c) = FrameLen * Len(s)
  /\ \A i \in 1 .. Len(read) : read[i] = <<s[((i - 1) \div FrameLen) + 1], ((i - 1) % FrameLen) + 1>>
  /\ c = SubSeq(s, Len(s) - Len(c) + 1, Len(s))

\* The channel is the end of what was sent.
LEMMA FlatIsEnd ==
  ASSUME NEW r \in Seq(Bytes), NEW s \in Seq(Nat), NEW c \in Seq(Nat), Flat(r, s, c)
  PROVE  /\ Len(s) - Len(c) \in Nat
         /\ Len(r) = FrameLen * (Len(s) - Len(c))
         /\ \A j \in 1 .. Len(c) : c[j] = s[Len(s) - Len(c) + j]
<1>1. PICK F \in Nat \ {0} : F = FrameLen
  BY SignalAssumption
<1>2. PICK ls \in Nat : ls = Len(s)
  BY LenProperties
<1>3. PICK lc \in Nat : lc = Len(c)
  BY LenProperties
<1>4. PICK lr \in Nat : lr = Len(r)
  BY LenProperties
<1>5. lr + F * lc = F * ls
  BY <1>1, <1>2, <1>3, <1>4 DEF Flat
<1>6. ls - lc \in Nat
  <2>1. SUFFICES ASSUME lc >= ls + 1 PROVE FALSE
    OBVIOUS
  <2>2. F * lc >= F * ls + F
    BY <2>1, Z3
  <2>3. QED
    BY <2>2, <1>5
<1>7. lr = F * (ls - lc)
  BY <1>5, Z3
<1>8. \A j \in 1 .. lc : c[j] = s[ls - lc + j]
  <2>1. PICK m \in Nat : m = ls - lc + 1
    BY <1>6
  <2>2. \A i \in m .. ls : s[i] \in Nat
    BY <2>1, <1>2, <1>6, ElementOfSeq
  <2>3. \A i \in 1 .. ls - m + 1 : SubSeq(s, m, ls)[i] = s[m + i - 1]
    BY <2>1, <2>2, SubSeqProperties
  <2>4. c = SubSeq(s, m, ls)
    BY <2>1, <1>2, <1>3 DEF Flat
  <2>5. QED
    BY <2>1, <2>3, <2>4
<1>9. QED
  BY <1>1, <1>2, <1>3, <1>4, <1>6, <1>7, <1>8

\* An end of a sequence, element by element, is a SubSeq of it.
LEMMA EndOf ==
  ASSUME NEW s \in Seq(Nat), NEW c \in Seq(Nat), Len(s) - Len(c) \in Nat,
         \A j \in 1 .. Len(c) : c[j] = s[Len(s) - Len(c) + j]
  PROVE  c = SubSeq(s, Len(s) - Len(c) + 1, Len(s))
<1>1. PICK ls \in Nat : ls = Len(s)
  BY LenProperties
<1>2. PICK lc \in Nat : lc = Len(c)
  BY LenProperties
<1>3. PICK m \in Nat : m = ls - lc + 1
  BY <1>1, <1>2
<1>4. \A i \in m .. ls : s[i] \in Nat
  BY <1>1, <1>2, <1>3, ElementOfSeq
<1>5. /\ SubSeq(s, m, ls) \in Seq(Nat)
      /\ Len(SubSeq(s, m, ls)) = IF m <= ls THEN ls - m + 1 ELSE 0
      /\ \A i \in 1 .. ls - m + 1 : SubSeq(s, m, ls)[i] = s[m + i - 1]
  BY <1>3, <1>4, SubSeqProperties
<1>6. PICK e \in Seq(Nat) : e = SubSeq(s, m, ls)
  BY <1>5
<1>7. Len(e) = lc /\ \A i \in 1 .. ls - m + 1 : e[i] = s[m + i - 1]
  BY <1>5, <1>6, <1>3
<1>8. ASSUME NEW j \in 1 .. lc PROVE c[j] = e[j]
  <2>1. c[j] = s[ls - lc + j]
    BY <1>1, <1>2
  <2>2. e[j] = s[m + j - 1]
    BY <1>3, <1>7
  <2>3. m + j - 1 = ls - lc + j
    BY <1>3
  <2>4. QED
    BY <2>1, <2>2, <2>3
<1>9. c = SubSeq(s, m, ls)
  BY <1>6, <1>7, <1>8, <1>2, SeqEqual
<1>10. QED
  BY <1>9, <1>1, <1>2, <1>3

\* A frame that is sent is added to what was sent and to the channel.
LEMMA FlatSend ==
  ASSUME NEW r \in Seq(Bytes), NEW s \in Seq(Nat), NEW c \in Seq(Nat), NEW n \in Nat, Flat(r, s, c)
  PROVE  Flat(r, Append(s, n), Append(c, n))
<1>1. PICK s2 \in Seq(Nat) : s2 = Append(s, n)
  BY AppendProperties
<1>2. PICK c2 \in Seq(Nat) : c2 = Append(c, n)
  BY AppendProperties
<1>3. PICK F \in Nat \ {0} : F = FrameLen
  BY SignalAssumption
<1>4. PICK ls \in Nat : ls = Len(s)
  BY LenProperties
<1>5. PICK lc \in Nat : lc = Len(c)
  BY LenProperties
<1>6. PICK lr \in Nat : lr = Len(r)
  BY LenProperties
<1>7. Len(s2) = ls + 1 /\ (\A i \in 1 .. ls : s2[i] = s[i]) /\ s2[ls + 1] = n
  BY <1>1, <1>4, AppendProperties
<1>8. Len(c2) = lc + 1 /\ (\A i \in 1 .. lc : c2[i] = c[i]) /\ c2[lc + 1] = n
  BY <1>2, <1>5, AppendProperties
<1>9. ls - lc \in Nat /\ lr = F * (ls - lc) /\ \A j \in 1 .. lc : c[j] = s[ls - lc + j]
  BY FlatIsEnd, <1>3, <1>4, <1>5, <1>6
<1>10. lr + F * (lc + 1) = F * (ls + 1)
  BY <1>9, Z3
<1>11. ASSUME NEW i \in 1 .. lr
       PROVE  r[i] = <<s2[((i - 1) \div F) + 1], ((i - 1) % F) + 1>>
  <2>1. lr <= F * ls
    <3>1. lr + F * lc = F * ls
      BY <1>3, <1>4, <1>5, <1>6 DEF Flat
    <3>2. PICK x \in Int : x = F * lc
      OBVIOUS
    <3>3. PICK y \in Int : y = F * ls
      OBVIOUS
    <3>4. x >= 0
      BY <3>2, Z3
    <3>5. lr + x = y
      BY <3>1, <3>2, <3>3
    <3>6. lr <= y
      BY <3>4, <3>5
    <3>7. QED
      BY <3>3, <3>6
  <2>2. (i - 1) \div F \in 0 .. ls - 1
    <3>1. i \in Nat /\ 1 <= i /\ i <= F * ls
      BY <2>1
    <3>2. QED
      BY <3>1, PlaceBound
  <2>3. PICK a \in 0 .. ls - 1 : a = (i - 1) \div F
    BY <2>2
  <2>4. r[i] = <<s[a + 1], ((i - 1) % F) + 1>>
    BY <2>3, <1>3, <1>6 DEF Flat
  <2>5. s2[a + 1] = s[a + 1]
    BY <1>7
  <2>6. QED
    BY <2>3, <2>4, <2>5
<1>12. c2 = SubSeq(s2, Len(s2) - Len(c2) + 1, Len(s2))
  <2>1. Len(s2) - Len(c2) = ls - lc
    BY <1>7, <1>8
  <2>2. ASSUME NEW j \in 1 .. lc + 1 PROVE c2[j] = s2[ls - lc + j]
    <3>1. PICK k \in Int : k = ls - lc + j
      OBVIOUS
    <3>2. CASE j = lc + 1
      <4>1. k = ls + 1
        BY <3>1, <3>2
      <4>2. QED
        BY <3>1, <3>2, <4>1, <1>7, <1>8
    <3>3. CASE j \in 1 .. lc
      <4>1. k \in 1 .. ls
        BY <3>1, <3>3, <1>9
      <4>2. c2[j] = c[j] /\ c[j] = s[k]
        BY <3>1, <3>3, <1>8, <1>9
      <4>3. s2[k] = s[k]
        BY <4>1, <1>7
      <4>4. QED
        BY <3>1, <4>2, <4>3
    <3>4. QED
      BY <3>2, <3>3, SMTT(60)
  <2>3. Len(s2) - Len(c2) \in Nat /\ \A j \in 1 .. Len(c2) : c2[j] = s2[Len(s2) - Len(c2) + j]
    BY <2>1, <2>2, <1>8, <1>9
  <2>4. QED
    BY <2>3, EndOf
<1>13. Flat(r, s2, c2)
  BY <1>3, <1>6, <1>7, <1>8, <1>10, <1>11, <1>12 DEF Flat
<1>14. QED
  BY <1>1, <1>2, <1>13

\* A frame that is taken out of the channel comes after what was read.
LEMMA FlatTake ==
  ASSUME NEW r \in Seq(Bytes), NEW s \in Seq(Nat), NEW c \in Seq(Nat), c # <<>>, Flat(r, s, c)
  PROVE  Flat(r \o BytesOf(Head(c)), s, Tail(c))
<1>1. PICK n \in Nat : n = Head(c)
  BY HeadTailProperties
<1>2. PICK c2 \in Seq(Nat) : c2 = Tail(c)
  BY HeadTailProperties
<1>3. PICK F \in Nat \ {0} : F = FrameLen
  BY SignalAssumption
<1>4. PICK ls \in Nat : ls = Len(s)
  BY LenProperties
<1>5. PICK lc \in Nat : lc = Len(c)
  BY LenProperties
<1>6. PICK lr \in Nat : lr = Len(r)
  BY LenProperties
<1>7. lc >= 1
  BY <1>5, EmptySeq
<1>8. Len(c2) = lc - 1 /\ \A j \in 1 .. lc - 1 : c2[j] = c[j + 1]
  BY <1>2, <1>5, HeadTailProperties
<1>9. ls - lc \in Nat /\ lr = F * (ls - lc) /\ \A j \in 1 .. lc : c[j] = s[ls - lc + j]
  BY FlatIsEnd, <1>3, <1>4, <1>5, <1>6
<1>10. PICK q \in Nat : q = ls - lc
  BY <1>9
<1>11. n = s[q + 1]
  BY <1>1, <1>7, <1>9, <1>10, HeadTailProperties
<1>12. PICK b \in Seq(Bytes) : b = BytesOf(n)
  BY FrameBytes
<1>13. Len(b) = F /\ \A i \in 1 .. F : b[i] = <<n, i>>
  BY <1>12, <1>3, FrameBytes
<1>14. PICK r2 \in Seq(Bytes) : r2 = r \o b
  BY ConcatProperties
<1>15. Len(r2) = lr + F /\ \A i \in 1 .. lr + F : r2[i] = IF i <= lr THEN r[i] ELSE b[i - lr]
  BY <1>13, <1>14, <1>6, ConcatProperties, ZenonT(60)
<1>16. (lr + F) + F * (lc - 1) = F * ls
  BY <1>9, Z3
<1>17. ASSUME NEW i \in 1 .. lr + F
       PROVE  r2[i] = <<s[((i - 1) \div F) + 1], ((i - 1) % F) + 1>>
  <2>1. CASE i <= lr
    BY <2>1, <1>3, <1>6, <1>15 DEF Flat
  <2>2. CASE i > lr
    <3>1. PICK j \in Nat : j = i - lr - 1
      BY <2>2
    <3>2. i - 1 = F * q + j /\ j < F
      BY <3>1, <1>9, <1>10
    <3>3. (i - 1) \div F = q /\ (i - 1) % F = j
      BY <3>2, BytePlace
    <3>4. r2[i] = <<n, j + 1>>
      <4>1. PICK k \in 1 .. F : k = j + 1
        BY <3>2
      <4>2. k = i - lr
        BY <3>1, <4>1
      <4>3. r2[i] = b[k]
        BY <2>2, <4>2, <1>15
      <4>4. b[k] = <<n, k>>
        BY <1>13
      <4>5. QED
        BY <4>1, <4>3, <4>4
    <3>5. QED
      BY <3>3, <3>4, <1>11
  <2>3. QED
    BY <2>1, <2>2
<1>18. c2 = SubSeq(s, Len(s) - Len(c2) + 1, Len(s))
  <2>1. Len(s) - Len(c2) = q + 1
    BY <1>4, <1>8, <1>10
  <2>2. ASSUME NEW j \in 1 .. lc - 1 PROVE c2[j] = s[q + 1 + j]
    <3>1. PICK k \in 1 .. lc : k = j + 1
      OBVIOUS
    <3>2. c2[j] = c[k]
      BY <3>1, <1>8
    <3>3. c[k] = s[ls - lc + k]
      BY <1>9
    <3>4. ls - lc + k = q + 1 + j
      BY <3>1, <1>10
    <3>5. QED
      BY <3>2, <3>3, <3>4
  <2>3. Len(s) - Len(c2) \in Nat
    BY <2>1
  <2>4. Len(c2) = lc - 1
    BY <1>8
  <2>5. \A j \in 1 .. Len(c2) : c2[j] = s[Len(s) - Len(c2) + j]
    BY <2>1, <2>2, <2>4
  <2>6. QED
    BY <2>3, <2>5, EndOf
<1>19. Flat(r2, s, c2)
  BY <1>3, <1>4, <1>8, <1>15, <1>16, <1>17, <1>18 DEF Flat
<1>20. QED
  BY <1>1, <1>2, <1>12, <1>14, <1>19

-----------------------------------------------------------------------------
(* The inductive invariant.                                                *)

Labels == {"idle", "reading", "receiving", "received", "writing", "sending", "closing", "removing"}

\* The states of a goroutine that is in a Read.
InRead == {"reading", "receiving", "received"}

FilesType ==
  /\ subscribed \subseteq Subscribers /\ everSub \subseteq Subscribers
  /\ chan \in [Subscribers -> Seq(Nat)] /\ sent \in [Subscribers -> Seq(Nat)]
  /\ buf \in [Subscribers -> Seq(Bytes)] /\ got \in [Subscribers -> Seq(Bytes)]
  /\ chClosed \in [Subscribers -> BOOLEAN] /\ closed \in [Subscribers -> BOOLEAN]
  /\ solo \in [Subscribers -> BOOLEAN]
  /\ holder \in [Readers -> Threads \cup {None}]
  /\ author \in Seq(Files)

ThreadsType ==
  /\ pc \in [Threads -> Labels]
  /\ file \in [Threads -> Files \cup {None}]
  /\ size \in [Threads -> Nat]
  /\ hand \in [Threads -> Seq(Nat)]
  /\ targets \in [Threads -> Seq(Subscribers)]
  /\ payload \in [Threads -> Nat]

TypeOK == FilesType /\ ThreadsType

\* The kind of file a call is on, where it is p, and what it has in its hands.
CallOK(p, f, h) ==
  /\ p \in InRead \cup {"closing"} => f \in Subscribers
  /\ p = "received" => f \in Rdwrs /\ h # <<>>
  /\ p \in {"writing", "sending"} => f \in Writers \cup Rdwrs
  /\ p = "removing" => f \in Rdwrs
  /\ h # <<>> => p = "received"

CallsOK == \A t \in Threads : CallOK(pc[t], file[t], hand[t])

\* Who waits for a frame of a reader has its mutex and found no rest of a frame.
WaitsLocked ==
  \A t \in Threads :
     pc[t] = "receiving" /\ file[t] \in Readers
        => holder[file[t]] = t /\ buf[file[t]] = <<>>

\* While Reads of a rdwr have never overlapped, one goroutine at most reads it,
\* and there is no rest of a frame between its wait and its return.
ReadsAlone ==
  \A f \in Rdwrs : solo[f] =>
     /\ \A t, u \in Threads :
           file[t] = f /\ file[u] = f /\ pc[t] \in InRead /\ pc[u] \in InRead => t = u
     /\ \A t \in Threads : file[t] = f /\ pc[t] \in {"receiving", "received"} => buf[f] = <<>>

\* There are only so many files at any time.
FewSubscribed == IsFiniteSet(subscribed)

IInv == TypeOK /\ FewSubscribed /\ CallsOK /\ WaitsLocked /\ ReadsAlone /\ StreamsIntact

\* What has left the channel of f.
ReadOf(f) == got[f] \o buf[f] \o InHand(f)

LEMMA StreamIsFlat ==
  ASSUME NEW f
  PROVE  Stream(f) <=> Flat(ReadOf(f), sent[f], chan[f])
BY DEF Stream, StreamByte, Flat, ReadOf

\* The files whose stream is promised.
Kept(f) == f \in Readers \/ (f \in Rdwrs /\ solo[f] /\ ~closed[f])

LEMMA StreamsOfKept == StreamsIntact <=> \A f \in Subscribers : Kept(f) => Stream(f)
BY SignalAssumption DEF StreamsIntact, ReaderStream, SoloRdwrStream, Kept, Subscribers

LEMMA StreamsOfKeptNext == StreamsIntact' <=> \A f \in Subscribers : Kept(f)' => Stream(f)'
<1>1. (StreamsIntact <=> \A f \in Subscribers : Kept(f) => Stream(f))'
  BY StreamsOfKept, PTL
<1>2. QED
  BY <1>1

LEMMA NothingInHand ==
  ASSUME NEW f, \A t \in Threads : file[t] = f => hand[t] = <<>>
  PROVE  InHand(f) = <<>>
BY DEF InHand

LEMMA FrameInHand ==
  ASSUME NEW f, NEW t \in Threads, file[t] = f, hand[t] # <<>>,
         \A u \in Threads : file[u] = f /\ hand[u] # <<>> => u = t
  PROVE  InHand(f) = BytesOf(Head(hand[t]))
<1>1. {u \in Threads : file[u] = f /\ hand[u] # <<>>} = {t}
  OBVIOUS
<1>2. (CHOOSE u \in {t} : TRUE) = t
  OBVIOUS
<1>3. QED
  BY <1>1, <1>2 DEF InHand

LEMMA FrameInHandNext ==
  ASSUME NEW f, NEW t \in Threads, file'[t] = f, hand'[t] # <<>>,
         \A u \in Threads : file'[u] = f /\ hand'[u] # <<>> => u = t
  PROVE  InHand(f)' = BytesOf(Head(hand'[t]))
<1>1. {u \in Threads : file'[u] = f /\ hand'[u] # <<>>} = {t}
  OBVIOUS
<1>2. (CHOOSE u \in {t} : TRUE) = t
  OBVIOUS
<1>3. QED
  BY <1>1, <1>2 DEF InHand, BytesOf

\* What is in hands is a sequence of bytes.
LEMMA InHandType ==
  ASSUME TypeOK, NEW f
  PROVE  InHand(f) \in Seq(Bytes)
<1> DEFINE S == {t \in Threads : file[t] = f /\ hand[t] # <<>>}
<1>1. CASE S = {}
  BY <1>1 DEF InHand
<1>2. CASE S # {}
  <2>1. PICK t \in S : t = CHOOSE u \in S : TRUE
    BY <1>2
  <2>2. hand[t] \in Seq(Nat) /\ hand[t] # <<>>
    BY DEF TypeOK, ThreadsType
  <2>3. Head(hand[t]) \in Nat
    BY <2>2, HeadTailProperties
  <2>4. InHand(f) = BytesOf(Head(hand[t]))
    BY <1>2, <2>1 DEF InHand
  <2>5. QED
    BY <2>3, <2>4, FrameBytes
<1>3. QED
  BY <1>1, <1>2

LEMMA ReadType ==
  ASSUME TypeOK, NEW f \in Subscribers
  PROVE  ReadOf(f) \in Seq(Bytes) /\ sent[f] \in Seq(Nat) /\ chan[f] \in Seq(Nat)
<1>1. got[f] \in Seq(Bytes) /\ buf[f] \in Seq(Bytes) /\ InHand(f) \in Seq(Bytes)
  BY InHandType DEF TypeOK, FilesType
<1>2. got[f] \o buf[f] \in Seq(Bytes)
  BY <1>1, ConcatProperties
<1>3. ReadOf(f) \in Seq(Bytes)
  BY <1>1, <1>2, ConcatProperties DEF ReadOf
<1>4. QED
  BY <1>3 DEF TypeOK, FilesType

\* What is in the hands of the Reads of f stays when no such Read moves.
LEMMA HandsStay ==
  ASSUME NEW f,
         \A t \in Threads : (file[t] = f /\ hand[t] # <<>>) <=> (file'[t] = f /\ hand'[t] # <<>>),
         \A t \in Threads : file[t] = f /\ hand[t] # <<>> => hand'[t] = hand[t]
  PROVE  InHand(f)' = InHand(f)
<1> DEFINE S == {t \in Threads : file[t] = f /\ hand[t] # <<>>}
           R == {t \in Threads : file'[t] = f /\ hand'[t] # <<>>}
<1>1. R = S
  OBVIOUS
<1>2. CASE S = {}
  BY <1>1, <1>2 DEF InHand
<1>3. CASE S # {}
  <2>1. PICK t \in S : t = CHOOSE u \in S : TRUE
    BY <1>3
  <2>2. hand'[t] = hand[t]
    OBVIOUS
  <2>3. InHand(f) = BytesOf(Head(hand[t]))
    BY <1>3, <2>1 DEF InHand
  <2>4. InHand(f)' = BytesOf(Head(hand'[t]))
    BY <1>1, <1>3, <2>1 DEF InHand, BytesOf
  <2>5. QED
    BY <2>2, <2>3, <2>4
<1>4. QED
  BY <1>2, <1>3

\* A stream stays when nothing that it is made of moves.
LEMMA StreamStays ==
  ASSUME NEW f, Stream(f), InHand(f)' = InHand(f),
         got'[f] = got[f], buf'[f] = buf[f], sent'[f] = sent[f], chan'[f] = chan[f]
  PROVE  Stream(f)'
<1>1. ReadOf(f)' = ReadOf(f)
  BY DEF ReadOf
<1>2. Flat(ReadOf(f), sent[f], chan[f])
  BY StreamIsFlat
<1>3. Flat(ReadOf(f), sent[f], chan[f])'
  BY <1>1, <1>2 DEF Flat
<1>4. QED
  BY <1>3 DEF Stream, StreamByte, Flat, ReadOf

\* A step that moves no bytes keeps the streams.
LEMMA QuietStep ==
  ASSUME StreamsIntact, UNCHANGED <<got, buf, sent, chan, hand>>,
         \A t \in Threads : hand[t] # <<>> => file'[t] = file[t],
         \A f \in Rdwrs : (solo'[f] => solo[f]) /\ (closed[f] => closed'[f])
  PROVE  StreamsIntact'
<1>1. ASSUME NEW f \in Subscribers, Kept(f)'
      PROVE  Stream(f)'
  <2>1. Kept(f)
    BY <1>1 DEF Kept
  <2>2. Stream(f)
    BY <2>1, StreamsOfKept
  <2>3. \A t \in Threads : (file[t] = f /\ hand[t] # <<>>) <=> (file'[t] = f /\ hand'[t] # <<>>)
    OBVIOUS
  <2>4. InHand(f)' = InHand(f)
    BY <2>3, HandsStay
  <2>5. QED
    BY <2>2, <2>4, StreamStays
<1>2. QED
  BY <1>1, StreamsOfKeptNext

-----------------------------------------------------------------------------
(* The actions that move no bytes.                                         *)

LEMMA NoneIsNoFile == None \notin Files /\ None \notin Threads /\ Subscribers \subseteq Files
BY SignalAssumption DEF Files, Subscribers

\* A goroutine moves, to p and g, with nothing in its hands and not into a wait.
LEMMA MoveKeeps ==
  ASSUME IInv, NEW t \in Threads, NEW p, NEW g,
         pc' = [pc EXCEPT ![t] = p], file' = [file EXCEPT ![t] = g], hand' = hand,
         hand[t] = <<>>, CallOK(p, g, <<>>), p \notin {"receiving", "received"},
         p = "reading" /\ solo'[g] => \A u \in Threads \ {t} : file[u] = g => pc[u] \notin InRead,
         UNCHANGED <<got, buf, sent, chan>>,
         \A f \in Rdwrs : (solo'[f] => solo[f]) /\ (closed[f] => closed'[f]),
         \A u \in Threads \ {t} : pc[u] = "receiving" /\ file[u] \in Readers
            => holder'[file[u]] = holder[file[u]]
  PROVE  CallsOK' /\ WaitsLocked' /\ ReadsAlone' /\ StreamsIntact'
<1>1. /\ pc'[t] = p /\ file'[t] = g
      /\ \A u \in Threads \ {t} : pc'[u] = pc[u] /\ file'[u] = file[u]
  BY DEF IInv, TypeOK, ThreadsType
<1>2. CallsOK'
  BY <1>1 DEF IInv, CallsOK
<1>3. WaitsLocked'
  BY <1>1 DEF IInv, WaitsLocked
<1>4. ReadsAlone'
  <2>1. ASSUME NEW f \in Rdwrs, solo'[f], NEW u \in Threads, NEW v \in Threads,
               file'[u] = f, file'[v] = f, pc'[u] \in InRead, pc'[v] \in InRead
        PROVE  u = v
    <3>1. solo[f]
      BY <2>1
    <3>2. CASE u # t /\ v # t
      BY <3>1, <3>2, <2>1, <1>1 DEF IInv, ReadsAlone
    <3>3. CASE u = t /\ v # t
      BY <3>3, <2>1, <1>1 DEF InRead
    <3>4. CASE u # t /\ v = t
      BY <3>4, <2>1, <1>1 DEF InRead
    <3>5. QED
      BY <3>2, <3>3, <3>4
  <2>2. ASSUME NEW f \in Rdwrs, solo'[f], NEW u \in Threads, file'[u] = f, pc'[u] \in {"receiving", "received"}
        PROVE  buf'[f] = <<>>
    <3>1. u # t /\ solo[f] /\ pc[u] = pc'[u] /\ file[u] = f
      BY <2>2, <1>1
    <3>2. QED
      BY <3>1, <2>2 DEF IInv, ReadsAlone
  <2>3. QED
    BY <2>1, <2>2 DEF ReadsAlone
<1>5. StreamsIntact'
  <2>1. \A u \in Threads : hand[u] # <<>> => file'[u] = file[u]
    BY <1>1
  <2>2. QED
    BY <2>1, QuietStep DEF IInv
<1>6. QED
  BY <1>2, <1>3, <1>4, <1>5

\* No goroutine moves.
LEMMA StillKeeps ==
  ASSUME IInv, UNCHANGED <<pc, file, hand, holder, buf, solo>>
  PROVE  CallsOK' /\ WaitsLocked' /\ ReadsAlone'
BY DEF IInv, CallsOK, WaitsLocked, ReadsAlone

LEMMA SubscribeType ==
  ASSUME IInv, NEW f \in Subscribers, Subscribe(f)
  PROVE  subscribed' \subseteq Subscribers /\ everSub' \subseteq Subscribers /\ FewSubscribed'
<1>1. subscribed' \in {subscribed, subscribed \cup {f}} /\ everSub' \in {everSub, everSub \cup {f}}
  BY DEF Subscribe, AddReader
<1>2. subscribed' \subseteq Subscribers /\ everSub' \subseteq Subscribers
  BY <1>1 DEF IInv, TypeOK, FilesType
<1>3. IsFiniteSet(subscribed) /\ IsFiniteSet(subscribed \cup {f})
  BY FS_AddElement DEF IInv, FewSubscribed
<1>4. FewSubscribed'
  BY <1>1, <1>3 DEF FewSubscribed
<1>5. QED
  BY <1>2, <1>4

LEMMA RemoveReaderType ==
  ASSUME IInv, NEW f \in Subscribers, RemoveReader(f)
  PROVE  subscribed' \subseteq Subscribers /\ chClosed' \in [Subscribers -> BOOLEAN] /\ FewSubscribed'
<1>1. subscribed' \subseteq Subscribers /\ FewSubscribed'
  BY FS_RemoveElement DEF IInv, TypeOK, FilesType, FewSubscribed, RemoveReader
<1>2. PICK c \in BOOLEAN : c = (chClosed[f] \/ f \in subscribed)
  BY DEF IInv, TypeOK, FilesType
<1>3. chClosed' = [chClosed EXCEPT ![f] = c]
  BY <1>2 DEF RemoveReader
<1>4. QED
  BY <1>1, <1>3 DEF IInv, TypeOK, FilesType

LEMMA BroadcasterCloseKeeps ==
  ASSUME IInv, BroadcasterClose
  PROVE  IInv'
<1>1. /\ subscribed' = {} /\ chClosed' \in [Subscribers -> BOOLEAN]
      /\ UNCHANGED <<everSub, chan, buf, closed, holder, threadVars, history>>
  BY DEF BroadcasterClose
<1>2. TypeOK'
  BY <1>1 DEF IInv, TypeOK, FilesType, ThreadsType, threadVars, history
<1>3. CallsOK' /\ WaitsLocked' /\ ReadsAlone'
  BY <1>1, StillKeeps DEF threadVars, history
<1>4. StreamsIntact'
  BY <1>1, QuietStep DEF IInv, threadVars, history
<1>5. FewSubscribed'
  BY <1>1, FS_EmptySet DEF FewSubscribed
<1>6. QED
  BY <1>2, <1>3, <1>4, <1>5 DEF IInv

\* A Send that panics, and a stutter.
LEMMA NothingMovesKeeps ==
  ASSUME IInv, UNCHANGED <<fileVars, threadVars, history>>
  PROVE  IInv'
<1>1. UNCHANGED <<subscribed, everSub, chan, chClosed, buf, closed, holder>>
  BY DEF fileVars
<1>2. TypeOK'
  BY <1>1 DEF IInv, TypeOK, FilesType, ThreadsType, threadVars, history
<1>3. CallsOK' /\ WaitsLocked' /\ ReadsAlone'
  BY <1>1, StillKeeps DEF threadVars, history
<1>4. StreamsIntact'
  BY <1>1, QuietStep DEF IInv, threadVars, history
<1>5. FewSubscribed'
  BY <1>1 DEF IInv, FewSubscribed
<1>6. QED
  BY <1>2, <1>3, <1>4, <1>5 DEF IInv

LEMMA ReadCallKeeps ==
  ASSUME IInv, NEW t \in Threads, NEW f \in Subscribers, NEW n \in ReadSizes, ReadCall(t, f, n)
  PROVE  IInv'
<1>1. /\ pc[t] = "idle" /\ pc' = [pc EXCEPT ![t] = "reading"] /\ file' = [file EXCEPT ![t] = f]
      /\ UNCHANGED <<chan, chClosed, buf, closed, holder, author, sent, got>>
  BY DEF ReadCall, Enter
<1>2. hand[t] = <<>>
  BY <1>1 DEF IInv, CallsOK, CallOK
<1>3. ThreadsType' /\ hand' = hand
  BY <1>1, NoneIsNoFile, SignalAssumption DEF IInv, TypeOK, ThreadsType, Labels, ReadCall
<1>4. FilesType'
  <2>1. PICK s \in BOOLEAN : s = (solo[f] /\ ~OtherReads(t, f))
    BY DEF IInv, TypeOK, FilesType, OtherReads
  <2>2. solo' = [solo EXCEPT ![f] = s] /\ Subscribe(f)
    BY <2>1 DEF ReadCall
  <2>3. QED
    BY <1>1, <2>2, SubscribeType DEF IInv, TypeOK, FilesType
<1>5. FewSubscribed'
  BY SubscribeType DEF ReadCall
<1>6. CallOK("reading", f, <<>>)
  BY DEF CallOK, InRead, Subscribers
<1>7. /\ \A g \in Rdwrs : solo'[g] => solo[g]
      /\ solo'[f] => \A u \in Threads \ {t} : file[u] = f => pc[u] \notin InRead
  BY DEF IInv, TypeOK, FilesType, ReadCall, OtherReads, InRead, Subscribers
<1>8. CallsOK' /\ WaitsLocked' /\ ReadsAlone' /\ StreamsIntact'
  BY <1>1, <1>2, <1>3, <1>6, <1>7, MoveKeeps
<1>9. QED
  BY <1>3, <1>4, <1>5, <1>8 DEF IInv, TypeOK

LEMMA ReadClosedKeeps ==
  ASSUME IInv, NEW t \in Threads, ReadClosed(t)
  PROVE  IInv'
<1>1. /\ pc[t] = "reading" /\ pc' = [pc EXCEPT ![t] = "idle"] /\ file' = [file EXCEPT ![t] = None]
      /\ UNCHANGED <<subscribed, everSub, chan, chClosed, buf, closed, holder, author, sent, got, solo>>
  BY DEF ReadClosed, Return, fileVars, history
<1>2. hand[t] = <<>>
  BY <1>1 DEF IInv, CallsOK, CallOK
<1>3. ThreadsType' /\ hand' = hand
  BY <1>1, <1>2, NoneIsNoFile DEF IInv, TypeOK, ThreadsType, Labels, ReadClosed, Return, fileVars, history
<1>4. FilesType'
  BY <1>1 DEF IInv, TypeOK, FilesType
<1>5. FewSubscribed'
  BY <1>1 DEF IInv, FewSubscribed
<1>6. CallOK("idle", None, <<>>)
  BY NoneIsNoFile DEF CallOK, InRead
<1>7. CallsOK' /\ WaitsLocked' /\ ReadsAlone' /\ StreamsIntact'
  BY <1>1, <1>2, <1>3, <1>6, MoveKeeps
<1>8. QED
  BY <1>3, <1>4, <1>5, <1>7 DEF IInv, TypeOK

LEMMA ReceivesClosedKeeps ==
  ASSUME IInv, NEW t \in Threads, ReceivesClosed(t)
  PROVE  IInv'
<1>1. /\ pc[t] = "receiving" /\ pc' = [pc EXCEPT ![t] = "idle"] /\ file' = [file EXCEPT ![t] = None]
      /\ UNCHANGED <<subscribed, everSub, chan, chClosed, buf, closed, author, sent, got, solo>>
  BY DEF ReceivesClosed, Return, history
<1>2. hand[t] = <<>>
  BY <1>1 DEF IInv, CallsOK, CallOK
<1>3. ThreadsType' /\ hand' = hand
  BY <1>1, <1>2, NoneIsNoFile DEF IInv, TypeOK, ThreadsType, Labels, ReceivesClosed, Return, history
<1>4. FilesType'
  BY <1>1 DEF IInv, TypeOK, FilesType, ReceivesClosed
<1>5. FewSubscribed'
  BY <1>1 DEF IInv, FewSubscribed
<1>6. CallOK("idle", None, <<>>)
  BY NoneIsNoFile DEF CallOK, InRead
<1>7. \A u \in Threads \ {t} : pc[u] = "receiving" /\ file[u] \in Readers
         => holder'[file[u]] = holder[file[u]]
  BY <1>1 DEF IInv, TypeOK, FilesType, WaitsLocked, ReceivesClosed
<1>8. CallsOK' /\ WaitsLocked' /\ ReadsAlone' /\ StreamsIntact'
  BY <1>1, <1>2, <1>3, <1>6, <1>7, MoveKeeps
<1>9. QED
  BY <1>3, <1>4, <1>5, <1>8 DEF IInv, TypeOK

LEMMA WriteCallKeeps ==
  ASSUME IInv, NEW t \in Threads, NEW f \in Writers \cup Rdwrs, WriteCall(t, f)
  PROVE  IInv'
<1>1. /\ pc[t] = "idle" /\ pc' = [pc EXCEPT ![t] = "writing"] /\ file' = [file EXCEPT ![t] = f]
      /\ UNCHANGED <<chan, chClosed, buf, closed, holder, author, sent, got, solo>>
  BY DEF WriteCall, Enter, history
<1>2. hand[t] = <<>>
  BY <1>1 DEF IInv, CallsOK, CallOK
<1>3. ThreadsType' /\ hand' = hand
  BY <1>1 DEF IInv, TypeOK, ThreadsType, Labels, Files, WriteCall
<1>4. FilesType'
  <2>1. subscribed' \subseteq Subscribers /\ everSub' \subseteq Subscribers
    BY SubscribeType DEF IInv, TypeOK, FilesType, WriteCall, Subscribers
  <2>2. QED
    BY <1>1, <2>1 DEF IInv, TypeOK, FilesType
<1>5. FewSubscribed'
  BY SubscribeType DEF IInv, FewSubscribed, WriteCall, Subscribers
<1>6. CallOK("writing", f, <<>>)
  BY DEF CallOK, InRead
<1>7. CallsOK' /\ WaitsLocked' /\ ReadsAlone' /\ StreamsIntact'
  BY <1>1, <1>2, <1>3, <1>6, MoveKeeps
<1>8. QED
  BY <1>3, <1>4, <1>5, <1>7 DEF IInv, TypeOK

LEMMA WriteReturnsKeeps ==
  ASSUME IInv, NEW t \in Threads, WriteReturns(t)
  PROVE  IInv'
<1>1. /\ pc[t] = "sending" /\ pc' = [pc EXCEPT ![t] = "idle"] /\ file' = [file EXCEPT ![t] = None]
      /\ UNCHANGED <<subscribed, everSub, chan, chClosed, buf, closed, holder, author, sent, got, solo>>
  BY DEF WriteReturns, fileVars, history
<1>2. hand[t] = <<>>
  BY <1>1 DEF IInv, CallsOK, CallOK
<1>3. ThreadsType' /\ hand' = hand
  BY <1>1, <1>2, NoneIsNoFile DEF IInv, TypeOK, ThreadsType, Labels, WriteReturns, fileVars, history
<1>4. FilesType'
  BY <1>1 DEF IInv, TypeOK, FilesType
<1>5. FewSubscribed'
  BY <1>1 DEF IInv, FewSubscribed
<1>6. CallOK("idle", None, <<>>)
  BY NoneIsNoFile DEF CallOK, InRead
<1>7. CallsOK' /\ WaitsLocked' /\ ReadsAlone' /\ StreamsIntact'
  BY <1>1, <1>2, <1>3, <1>6, MoveKeeps
<1>8. QED
  BY <1>3, <1>4, <1>5, <1>7 DEF IInv, TypeOK

LEMMA SnapshotKeeps ==
  ASSUME IInv, NEW t \in Threads, Snapshot(t)
  PROVE  IInv'
<1>1. /\ pc[t] = "writing" /\ pc' = [pc EXCEPT ![t] = "sending"] /\ file' = [file EXCEPT ![t] = file[t]]
      /\ UNCHANGED <<subscribed, everSub, chan, chClosed, buf, closed, holder, sent, got, solo>>
  BY DEF IInv, TypeOK, ThreadsType, Snapshot, fileVars
<1>2. hand[t] = <<>>
  BY <1>1 DEF IInv, CallsOK, CallOK
<1>3. ThreadsType' /\ hand' = hand
  <2>1. PICK s \in Orders(Audience(file[t])) : targets' = [targets EXCEPT ![t] = s]
    BY DEF Snapshot
  <2>2. Audience(file[t]) \subseteq Subscribers
    BY DEF IInv, TypeOK, FilesType, Audience
  <2>3. IsFiniteSet(Audience(file[t]))
    BY FS_RemoveElement DEF IInv, FewSubscribed, Audience
  <2>4. Cardinality(Audience(file[t])) \in Nat
    BY <2>3, FS_CardinalityType
  <2>5. s \in Seq(Subscribers)
    BY <2>2, <2>4 DEF Orders
  <2>6. Len(author) + 1 \in Nat
    BY LenProperties DEF IInv, TypeOK, FilesType
  <2>7. QED
    BY <1>1, <2>1, <2>5, <2>6 DEF IInv, TypeOK, ThreadsType, Labels, Snapshot
<1>4. FilesType'
  <2>1. file[t] \in Files
    BY <1>1 DEF IInv, CallsOK, CallOK, Files
  <2>2. author' \in Seq(Files)
    BY <2>1, AppendProperties DEF IInv, TypeOK, FilesType, Snapshot
  <2>3. QED
    BY <1>1, <2>2 DEF IInv, TypeOK, FilesType
<1>5. FewSubscribed'
  BY <1>1 DEF IInv, FewSubscribed
<1>6. CallOK("sending", file[t], <<>>)
  BY <1>1 DEF IInv, CallsOK, CallOK, InRead
<1>7. CallsOK' /\ WaitsLocked' /\ ReadsAlone' /\ StreamsIntact'
  BY <1>1, <1>2, <1>3, <1>6, MoveKeeps
<1>8. QED
  BY <1>3, <1>4, <1>5, <1>7 DEF IInv, TypeOK

LEMMA CloseCallKeeps ==
  ASSUME IInv, NEW t \in Threads, NEW f \in Subscribers, CloseCall(t, f)
  PROVE  IInv'
<1>1. /\ pc[t] = "idle" /\ pc' = [pc EXCEPT ![t] = "closing"] /\ file' = [file EXCEPT ![t] = f]
      /\ UNCHANGED <<subscribed, everSub, chan, chClosed, buf, closed, holder, author, sent, got, solo>>
  BY DEF CloseCall, Enter, fileVars, history
<1>2. hand[t] = <<>>
  BY <1>1 DEF IInv, CallsOK, CallOK
<1>3. ThreadsType' /\ hand' = hand
  BY <1>1, <1>2, NoneIsNoFile DEF IInv, TypeOK, ThreadsType, Labels, CloseCall, Enter, fileVars, history
<1>4. FilesType'
  BY <1>1 DEF IInv, TypeOK, FilesType
<1>5. FewSubscribed'
  BY <1>1 DEF IInv, FewSubscribed
<1>6. CallOK("closing", f, <<>>)
  BY DEF CallOK, InRead
<1>7. CallsOK' /\ WaitsLocked' /\ ReadsAlone' /\ StreamsIntact'
  BY <1>1, <1>2, <1>3, <1>6, MoveKeeps
<1>8. QED
  BY <1>3, <1>4, <1>5, <1>7 DEF IInv, TypeOK

LEMMA ReaderClosesKeeps ==
  ASSUME IInv, NEW t \in Threads, ReaderCloses(t)
  PROVE  IInv'
<1>1. /\ pc[t] = "closing" /\ pc' = [pc EXCEPT ![t] = "idle"] /\ file' = [file EXCEPT ![t] = None]
      /\ UNCHANGED <<everSub, chan, buf, holder, author, sent, got, solo>>
  BY DEF ReaderCloses, Return, history
<1>2. hand[t] = <<>>
  BY <1>1 DEF IInv, CallsOK, CallOK
<1>3. ThreadsType' /\ hand' = hand
  BY <1>1, <1>2, NoneIsNoFile DEF IInv, TypeOK, ThreadsType, Labels, ReaderCloses, Return, history
<1>4. FilesType'
  <2>1. file[t] \in Subscribers
    BY DEF ReaderCloses, Subscribers
  <2>2. subscribed' \subseteq Subscribers /\ chClosed' \in [Subscribers -> BOOLEAN]
    BY <2>1, RemoveReaderType DEF IInv, TypeOK, FilesType, ReaderCloses
  <2>3. closed' \in [Subscribers -> BOOLEAN]
    BY DEF IInv, TypeOK, FilesType, ReaderCloses
  <2>4. QED
    BY <1>1, <2>2, <2>3 DEF IInv, TypeOK, FilesType
<1>5. FewSubscribed'
  BY RemoveReaderType DEF IInv, FewSubscribed, ReaderCloses, Subscribers
<1>6. CallOK("idle", None, <<>>)
  BY NoneIsNoFile DEF CallOK, InRead
<1>7. \A f \in Rdwrs : closed[f] => closed'[f]
  BY DEF IInv, TypeOK, FilesType, ReaderCloses, Subscribers
<1>8. CallsOK' /\ WaitsLocked' /\ ReadsAlone' /\ StreamsIntact'
  BY <1>1, <1>2, <1>3, <1>6, <1>7, MoveKeeps
<1>9. QED
  BY <1>3, <1>4, <1>5, <1>8 DEF IInv, TypeOK

LEMMA RdwrRemovesKeeps ==
  ASSUME IInv, NEW t \in Threads, RdwrRemoves(t)
  PROVE  IInv'
<1>1. /\ pc[t] = "removing" /\ pc' = [pc EXCEPT ![t] = "idle"] /\ file' = [file EXCEPT ![t] = None]
      /\ UNCHANGED <<everSub, chan, buf, closed, holder, author, sent, got, solo>>
  BY DEF RdwrRemoves, Return, history
<1>2. hand[t] = <<>>
  BY <1>1 DEF IInv, CallsOK, CallOK
<1>3. ThreadsType' /\ hand' = hand
  BY <1>1, <1>2, NoneIsNoFile DEF IInv, TypeOK, ThreadsType, Labels, RdwrRemoves, Return, history
<1>4. FilesType'
  <2>1. file[t] \in Subscribers /\ RemoveReader(file[t])
    BY <1>1 DEF IInv, CallsOK, CallOK, RdwrRemoves, Subscribers
  <2>2. QED
    BY <1>1, <2>1, RemoveReaderType DEF IInv, TypeOK, FilesType
<1>5. FewSubscribed'
  BY <1>1, RemoveReaderType DEF IInv, CallsOK, CallOK, RdwrRemoves, Subscribers
<1>6. CallOK("idle", None, <<>>)
  BY NoneIsNoFile DEF CallOK, InRead
<1>7. CallsOK' /\ WaitsLocked' /\ ReadsAlone' /\ StreamsIntact'
  BY <1>1, <1>2, <1>3, <1>6, MoveKeeps
<1>8. QED
  BY <1>3, <1>4, <1>5, <1>7 DEF IInv, TypeOK

\* The Close of a rdwr returns, or leaves its mutex to remove a subscription.
LEMMA RdwrClosesKeeps ==
  ASSUME IInv, NEW t \in Threads, RdwrCloses(t)
  PROVE  IInv'
<1>1. PICK f \in Rdwrs : f = file[t]
  BY DEF RdwrCloses
<1>2. /\ pc[t] = "closing" /\ closed' = [closed EXCEPT ![f] = TRUE]
      /\ UNCHANGED <<subscribed, everSub, chan, chClosed, buf, holder, author, sent, got, solo>>
  BY <1>1 DEF RdwrCloses, history
<1>3. hand[t] = <<>>
  BY <1>2 DEF IInv, CallsOK, CallOK
<1>4. PICK p \in {"removing", "idle"} : p = IF ~closed[f] /\ f \in everSub THEN "removing" ELSE "idle"
  OBVIOUS
<1>5. PICK g \in Files \cup {None} : g = IF ~closed[f] /\ f \in everSub THEN f ELSE None
  BY DEF Files
<1>6. pc' = [pc EXCEPT ![t] = p] /\ file' = [file EXCEPT ![t] = g] /\ ThreadsType' /\ hand' = hand
  <2>1. CASE ~closed[f] /\ f \in everSub
    <3>1. GoesTo(t, "removing") /\ hand' = hand
      BY <1>1, <2>1 DEF RdwrCloses
    <3>2. QED
      BY <3>1, <2>1, <1>1, <1>4, <1>5 DEF GoesTo, IInv, TypeOK, ThreadsType, Labels
  <2>2. CASE ~(~closed[f] /\ f \in everSub)
    <3>1. Return(t)
      BY <1>1, <2>2 DEF RdwrCloses
    <3>2. QED
      BY <3>1, <2>2, <1>3, <1>4, <1>5 DEF Return, IInv, TypeOK, ThreadsType, Labels
  <2>3. QED
    BY <2>1, <2>2
<1>7. FilesType'
  BY <1>2 DEF IInv, TypeOK, FilesType
<1>8. FewSubscribed'
  BY <1>2 DEF IInv, FewSubscribed
<1>9. CallOK(p, g, <<>>)
  BY <1>4, <1>5 DEF CallOK, InRead
<1>10. \A h \in Rdwrs : closed[h] => closed'[h]
  BY <1>2 DEF IInv, TypeOK, FilesType, Subscribers
<1>11. p # "reading" /\ p \notin {"receiving", "received"}
  BY <1>4
<1>12. CallsOK' /\ WaitsLocked' /\ ReadsAlone' /\ StreamsIntact'
  BY <1>2, <1>3, <1>6, <1>9, <1>10, <1>11, MoveKeeps
<1>13. QED
  BY <1>6, <1>7, <1>8, <1>12 DEF IInv, TypeOK

\* A Read that found no rest of a frame waits, a reader's with its mutex.
LEMMA ReadWaitsKeeps ==
  ASSUME IInv, NEW t \in Threads, ReadWaits(t)
  PROVE  IInv'
<1>1. PICK f \in Subscribers : f = file[t]
  BY DEF IInv, CallsOK, CallOK, InRead, ReadWaits
<1>2. /\ pc[t] = "reading" /\ pc' = [pc EXCEPT ![t] = "receiving"] /\ buf[f] = <<>> /\ CanLock(f)
      /\ holder' = IF f \in Readers THEN [holder EXCEPT ![f] = t] ELSE holder
      /\ UNCHANGED <<file, size, hand, targets, payload>>
      /\ UNCHANGED <<subscribed, everSub, chan, chClosed, buf, closed, author, sent, got, solo>>
  BY <1>1 DEF ReadWaits, GoesTo, history
<1>3. TypeOK'
  <2>1. FilesType'
    BY <1>2 DEF IInv, TypeOK, FilesType
  <2>2. ThreadsType'
    BY <1>2 DEF IInv, TypeOK, ThreadsType, Labels
  <2>3. QED
    BY <2>1, <2>2 DEF TypeOK
<1>4. pc'[t] = "receiving" /\ \A u \in Threads \ {t} : pc'[u] = pc[u]
  BY <1>2 DEF IInv, TypeOK, ThreadsType
<1>5. CallsOK'
  <2>1. ASSUME NEW u \in Threads PROVE CallOK(pc'[u], file[u], hand[u])
    <3>1. CallOK(pc[u], file[u], hand[u])
      BY DEF IInv, CallsOK
    <3>2. QED
      BY <3>1, <1>2, <1>4 DEF CallOK, InRead
  <2>2. QED
    BY <2>1, <1>2 DEF CallsOK
<1>6. WaitsLocked'
  <2>1. ASSUME NEW u \in Threads, pc'[u] = "receiving", file[u] \in Readers
        PROVE  holder'[file[u]] = u /\ buf[file[u]] = <<>>
    <3>1. CASE u = t
      BY <3>1, <2>1, <1>1, <1>2 DEF IInv, TypeOK, FilesType
    <3>2. CASE u # t
      <4>1. holder[file[u]] = u /\ buf[file[u]] = <<>>
        BY <3>2, <2>1, <1>4 DEF IInv, WaitsLocked
      <4>2. file[u] = f => f \notin Readers \/ holder[f] = None
        BY <1>2 DEF CanLock
      <4>3. u # None
        BY NoneIsNoFile
      <4>4. holder'[file[u]] = holder[file[u]]
        BY <4>1, <4>2, <4>3, <2>1, <1>2 DEF IInv, TypeOK, FilesType
      <4>5. QED
        BY <4>1, <4>4
    <3>3. QED
      BY <3>1, <3>2
  <2>2. QED
    BY <2>1, <1>2 DEF WaitsLocked
<1>7. ReadsAlone'
  <2>1. ASSUME NEW g \in Rdwrs, solo[g], NEW u \in Threads, NEW v \in Threads,
               file[u] = g, file[v] = g, pc'[u] \in InRead, pc'[v] \in InRead
        PROVE  u = v
    <3>1. pc[u] \in InRead /\ pc[v] \in InRead
      BY <1>2, <1>4, <2>1 DEF InRead
    <3>2. QED
      BY <2>1, <3>1 DEF IInv, ReadsAlone
  <2>2. ASSUME NEW g \in Rdwrs, solo[g], NEW u \in Threads, file[u] = g, pc'[u] \in {"receiving", "received"}
        PROVE  buf[g] = <<>>
    BY <1>1, <1>2, <1>4, <2>2 DEF IInv, ReadsAlone
  <2>3. QED
    BY <1>2, <2>1, <2>2 DEF ReadsAlone
<1>8. StreamsIntact'
  BY <1>2, QuietStep DEF IInv
<1>9. FewSubscribed'
  BY <1>2 DEF IInv, FewSubscribed
<1>10. QED
  BY <1>3, <1>5, <1>6, <1>7, <1>8, <1>9 DEF IInv

-----------------------------------------------------------------------------
(* The actions that move bytes.                                            *)

LEMMA LeastBound ==
  ASSUME NEW m \in Nat, NEW n \in Nat
  PROVE  Least(m, n) \in 0 .. n
BY DEF Least

\* Only the bytes of f move.
LEMMA OtherStreamsStay ==
  ASSUME StreamsIntact, NEW f \in Subscribers, Kept(f) => Stream(f)',
         \A g \in Subscribers \ {f} :
            /\ got'[g] = got[g] /\ buf'[g] = buf[g] /\ sent'[g] = sent[g] /\ chan'[g] = chan[g]
            /\ InHand(g)' = InHand(g),
         UNCHANGED <<solo, closed>>
  PROVE  StreamsIntact'
<1>1. ASSUME NEW g \in Subscribers, Kept(g)'
      PROVE  Stream(g)'
  <2>1. Kept(g)
    BY <1>1 DEF Kept
  <2>2. CASE g = f
    BY <2>1, <2>2
  <2>3. CASE g # f
    <3>1. Stream(g)
      BY <2>1, StreamsOfKept
    <3>2. QED
      BY <2>3, <3>1, StreamStays
  <2>4. QED
    BY <2>2, <2>3
<1>2. QED
  BY <1>1, StreamsOfKeptNext

LEMMA FlatIsStream ==
  ASSUME NEW f, Flat(ReadOf(f)', sent'[f], chan'[f])
  PROVE  Stream(f)'
BY DEF Stream, StreamByte, Flat, ReadOf

\* A copy puts all of a frame behind what was read, as far as the slice goes,
\* and into the empty buffer.
LEMMA FrameIsCopied ==
  ASSUME TypeOK, NEW t \in Threads, NEW f \in Subscribers, NEW n \in Nat, CopyFrame(t, f, n)
  PROVE  /\ got' \in [Subscribers -> Seq(Bytes)] /\ buf' \in [Subscribers -> Seq(Bytes)]
         /\ \A g \in Subscribers \ {f} : got'[g] = got[g] /\ buf'[g] = buf[g]
         /\ buf[f] = <<>> => got'[f] \o buf'[f] = got[f] \o BytesOf(n)
<1>1. PICK b \in Seq(Bytes) : b = BytesOf(n) /\ Len(b) = FrameLen
  BY FrameBytes
<1>2. PICK k \in 0 .. FrameLen : k = Least(size[t], FrameLen)
  BY LeastBound, SignalAssumption DEF TypeOK, ThreadsType
<1>3. PICK x \in Seq(Bytes) : x = SubSeq(b, 1, k)
  BY <1>1, CutSequence
<1>4. PICK y \in Seq(Bytes) : y = SubSeq(b, k + 1, FrameLen)
  BY <1>1, CutSequence
<1>5. x \o y = b
  BY <1>1, <1>3, <1>4, CutSequence
<1>6. PICK z \in Seq(Bytes) : z = got[f] \o x
  BY ConcatProperties DEF TypeOK, FilesType
<1>7. got' = [got EXCEPT ![f] = z] /\ buf' = IF k < FrameLen THEN [buf EXCEPT ![f] = y] ELSE buf
  BY <1>1, <1>2, <1>3, <1>4, <1>6 DEF CopyFrame
<1>8. /\ got' \in [Subscribers -> Seq(Bytes)] /\ buf' \in [Subscribers -> Seq(Bytes)]
      /\ \A g \in Subscribers \ {f} : got'[g] = got[g] /\ buf'[g] = buf[g]
  BY <1>7 DEF TypeOK, FilesType
<1>9. ASSUME buf[f] = <<>>
      PROVE  got'[f] \o buf'[f] = got[f] \o b
  <2>1. buf'[f] = y
    <3>1. CASE k < FrameLen
      BY <1>7, <3>1 DEF TypeOK, FilesType
    <3>2. CASE k = FrameLen
      <4>1. Len(y) = 0
        BY <1>1, <1>4, <3>2, SignalAssumption, SubSeqProperties
      <4>2. y = <<>>
        BY <4>1, EmptySeq
      <4>3. QED
        BY <1>7, <1>9, <3>2, <4>2, SignalAssumption
    <3>3. QED
      BY <3>1, <3>2, SignalAssumption
  <2>2. got'[f] = got[f] \o x
    BY <1>6, <1>7 DEF TypeOK, FilesType
  <2>3. (got[f] \o x) \o y = got[f] \o (x \o y)
    <3>1. got[f] \in Seq(Bytes)
      BY DEF TypeOK, FilesType
    <3>2. QED
      BY <3>1, BytesRegroup
  <2>4. QED
    BY <2>1, <2>2, <2>3, <1>5
<1>10. QED
  BY <1>1, <1>8, <1>9

LEMMA SendKeeps ==
  ASSUME IInv, NEW t \in Threads, Send(t)
  PROVE  IInv'
<1>1. PICK f \in Subscribers : f = Head(targets[t])
  BY HeadTailProperties DEF IInv, TypeOK, ThreadsType, Send
<1>2. PICK n \in Nat : n = payload[t]
  BY DEF IInv, TypeOK, ThreadsType
<1>3. /\ chan' = [chan EXCEPT ![f] = Append(chan[f], n)]
      /\ sent' = [sent EXCEPT ![f] = Append(sent[f], n)]
      /\ UNCHANGED <<got, buf, pc, file, hand, solo, closed, subscribed, holder>>
  BY <1>1, <1>2 DEF Send
<1>4. Tail(targets[t]) \in Seq(Subscribers)
  BY HeadTailProperties DEF IInv, TypeOK, ThreadsType, Send
<1>5. Append(chan[f], n) \in Seq(Nat) /\ Append(sent[f], n) \in Seq(Nat)
  BY AppendProperties DEF IInv, TypeOK, FilesType
<1>6. TypeOK'
  <2>1. chan' \in [Subscribers -> Seq(Nat)] /\ sent' \in [Subscribers -> Seq(Nat)]
    BY <1>3, <1>5 DEF IInv, TypeOK, FilesType
  <2>2. targets' \in [Threads -> Seq(Subscribers)]
    BY <1>4 DEF IInv, TypeOK, ThreadsType, Send
  <2>3. QED
    BY <2>1, <2>2 DEF IInv, TypeOK, FilesType, ThreadsType, Send
<1>7. CallsOK' /\ WaitsLocked' /\ ReadsAlone' /\ FewSubscribed'
  BY <1>3 DEF IInv, CallsOK, WaitsLocked, ReadsAlone, FewSubscribed
<1>8. \A g : InHand(g)' = InHand(g)
  BY <1>3, HandsStay
<1>9. \A g \in Subscribers \ {f} : sent'[g] = sent[g] /\ chan'[g] = chan[g]
  BY <1>3 DEF IInv, TypeOK, FilesType
<1>10. ASSUME Kept(f)
       PROVE  Stream(f)'
  <2>1. Flat(ReadOf(f), sent[f], chan[f])
    BY <1>10, StreamsOfKept, StreamIsFlat DEF IInv
  <2>2. Flat(ReadOf(f), Append(sent[f], n), Append(chan[f], n))
    BY <2>1, FlatSend, ReadType DEF IInv
  <2>3. ReadOf(f)' = ReadOf(f)
    BY <1>3, <1>8 DEF ReadOf
  <2>4. sent'[f] = Append(sent[f], n) /\ chan'[f] = Append(chan[f], n)
    BY <1>3 DEF IInv, TypeOK, FilesType
  <2>5. QED
    BY <2>2, <2>3, <2>4, FlatIsStream
<1>11. StreamsIntact'
  BY <1>3, <1>8, <1>9, <1>10, OtherStreamsStay DEF IInv
<1>12. QED
  BY <1>6, <1>7, <1>11 DEF IInv

\* A Read of f gives out bytes that were in the buffer.
LEMMA ReadBufferedKeeps ==
  ASSUME IInv, NEW t \in Threads, ReadBuffered(t)
  PROVE  IInv'
<1>1. PICK f \in Subscribers : f = file[t]
  BY DEF IInv, CallsOK, CallOK, InRead, ReadBuffered
<1>2. PICK b \in Seq(Bytes) : b = buf[f]
  BY DEF IInv, TypeOK, FilesType
<1>3. PICK k \in 0 .. Len(b) : k = Least(size[t], Len(b))
  BY LeastBound, LenProperties DEF IInv, TypeOK, ThreadsType
<1>4. PICK x \in Seq(Bytes) : x = SubSeq(b, 1, k)
  BY CutSequence
<1>5. PICK y \in Seq(Bytes) : y = SubSeq(b, k + 1, Len(b))
  BY CutSequence
<1>6. x \o y = b
  BY <1>4, <1>5, CutSequence
<1>7. /\ got' = [got EXCEPT ![f] = got[f] \o x] /\ buf' = [buf EXCEPT ![f] = y]
      /\ UNCHANGED <<subscribed, everSub, chan, chClosed, closed, holder, author, sent, solo>>
      /\ Return(t) /\ pc[t] = "reading" /\ CanLock(f) /\ buf[f] # <<>>
  BY <1>1, <1>2, <1>3, <1>4, <1>5 DEF ReadBuffered
<1>8. hand[t] = <<>>
  BY <1>7 DEF IInv, CallsOK, CallOK
<1>9. /\ pc' = [pc EXCEPT ![t] = "idle"] /\ file' = [file EXCEPT ![t] = None] /\ hand' = hand
  BY <1>7, <1>8 DEF Return, IInv, TypeOK, ThreadsType
<1>10. got[f] \o x \in Seq(Bytes)
  BY ConcatProperties DEF IInv, TypeOK, FilesType
<1>11. TypeOK'
  <2>1. FilesType'
    BY <1>7, <1>10 DEF IInv, TypeOK, FilesType
  <2>2. ThreadsType'
    BY <1>7, NoneIsNoFile DEF IInv, TypeOK, ThreadsType, Labels, Return
  <2>3. QED
    BY <2>1, <2>2 DEF TypeOK
<1>12. CallsOK'
  BY <1>8, <1>9 DEF IInv, TypeOK, ThreadsType, CallsOK, CallOK, InRead
<1>13. WaitsLocked'
  <2>1. ASSUME NEW u \in Threads, pc'[u] = "receiving", file'[u] \in Readers
        PROVE  holder[file'[u]] = u /\ buf'[file'[u]] = <<>>
    <3>1. u # t /\ pc[u] = "receiving" /\ file'[u] = file[u]
      BY <1>9, <2>1 DEF IInv, TypeOK, ThreadsType
    <3>2. holder[file[u]] = u /\ buf[file[u]] = <<>>
      BY <3>1, <2>1 DEF IInv, WaitsLocked
    <3>3. file[u] # f
      BY <3>2, <1>7
    <3>4. QED
      BY <3>1, <3>2, <3>3, <1>7, <2>1 DEF IInv, TypeOK, FilesType, Subscribers
  <2>2. QED
    BY <2>1, <1>7 DEF WaitsLocked
<1>14. ReadsAlone'
  <2>1. ASSUME NEW u \in Threads, pc'[u] \in InRead
        PROVE  u # t /\ pc'[u] = pc[u] /\ file'[u] = file[u]
    BY <1>9, <2>1 DEF IInv, TypeOK, ThreadsType, InRead
  <2>2. ASSUME NEW g \in Rdwrs, solo[g], NEW u \in Threads, file'[u] = g, pc'[u] \in {"receiving", "received"}
        PROVE  buf'[g] = <<>>
    <3>1. u # t /\ pc[u] = pc'[u] /\ file[u] = g
      BY <2>1, <2>2 DEF InRead
    <3>2. buf[g] = <<>>
      BY <3>1, <2>2 DEF IInv, ReadsAlone
    <3>3. QED
      BY <3>2, <1>7, <2>2 DEF IInv, TypeOK, FilesType, Subscribers
  <2>3. QED
    BY <2>1, <2>2, <1>7 DEF IInv, ReadsAlone
<1>15. \A g : InHand(g)' = InHand(g)
  <2>1. \A u \in Threads : hand[u] # <<>> => file'[u] = file[u]
    BY <1>8, <1>9 DEF IInv, TypeOK, ThreadsType
  <2>2. QED
    BY <2>1, <1>9, HandsStay
<1>16. ASSUME Kept(f)
       PROVE  Stream(f)'
  <2>1. Flat(ReadOf(f), sent[f], chan[f])
    BY <1>16, StreamsOfKept, StreamIsFlat DEF IInv
  <2>2. got'[f] = got[f] \o x /\ buf'[f] = y
    BY <1>7 DEF IInv, TypeOK, FilesType
  <2>3. (got[f] \o x) \o y = got[f] \o (x \o y)
    <3>1. got[f] \in Seq(Bytes)
      BY DEF IInv, TypeOK, FilesType
    <3>2. QED
      BY <3>1, BytesRegroup
  <2>4. ReadOf(f)' = ReadOf(f)
    BY <2>2, <2>3, <1>2, <1>6, <1>15 DEF ReadOf
  <2>5. QED
    BY <2>1, <2>4, <1>7, FlatIsStream
<1>17. \A g \in Subscribers \ {f} : got'[g] = got[g] /\ buf'[g] = buf[g]
  BY <1>7 DEF IInv, TypeOK, FilesType
<1>18. StreamsIntact'
  BY <1>7, <1>15, <1>16, <1>17, OtherStreamsStay DEF IInv
<1>19. FewSubscribed'
  BY <1>7 DEF IInv, FewSubscribed
<1>20. QED
  BY <1>11, <1>12, <1>13, <1>14, <1>18, <1>19 DEF IInv

\* A reader takes a frame with its mutex in its hands.
LEMMA ReaderReceivesKeeps ==
  ASSUME IInv, NEW t \in Threads, ReaderReceives(t)
  PROVE  IInv'
<1>1. PICK f \in Readers : f = file[t]
  BY DEF ReaderReceives
<1>2. f \in Subscribers /\ f \notin Rdwrs
  BY SignalAssumption DEF Subscribers
<1>3. PICK c \in Seq(Nat) : c = chan[f] /\ c # <<>>
  BY <1>1, <1>2 DEF IInv, TypeOK, FilesType, ReaderReceives
<1>4. PICK n \in Nat : n = Head(c)
  BY <1>3, HeadTailProperties
<1>5. Tail(c) \in Seq(Nat)
  BY <1>3, HeadTailProperties
<1>6. /\ chan' = [chan EXCEPT ![f] = Tail(c)] /\ CopyFrame(t, f, n) /\ Return(t)
      /\ holder' = [holder EXCEPT ![f] = None] /\ pc[t] = "receiving"
      /\ UNCHANGED <<subscribed, everSub, chClosed, closed, author, sent, solo>>
  BY <1>1, <1>3, <1>4 DEF ReaderReceives
<1>7. holder[f] = t /\ buf[f] = <<>>
  BY <1>1, <1>6 DEF IInv, WaitsLocked
<1>8. hand[t] = <<>>
  BY <1>6 DEF IInv, CallsOK, CallOK
<1>9. /\ pc' = [pc EXCEPT ![t] = "idle"] /\ file' = [file EXCEPT ![t] = None] /\ hand' = hand
  BY <1>6, <1>8 DEF Return, IInv, TypeOK, ThreadsType
<1>10. /\ got' \in [Subscribers -> Seq(Bytes)] /\ buf' \in [Subscribers -> Seq(Bytes)]
       /\ \A g \in Subscribers \ {f} : got'[g] = got[g] /\ buf'[g] = buf[g]
       /\ got'[f] \o buf'[f] = got[f] \o BytesOf(n)
  BY <1>2, <1>6, <1>7, FrameIsCopied DEF IInv
<1>11. TypeOK'
  <2>1. FilesType'
    BY <1>5, <1>6, <1>10 DEF IInv, TypeOK, FilesType
  <2>2. ThreadsType'
    BY <1>6, NoneIsNoFile DEF IInv, TypeOK, ThreadsType, Labels, Return
  <2>3. QED
    BY <2>1, <2>2 DEF TypeOK
<1>12. CallsOK'
  BY <1>8, <1>9 DEF IInv, TypeOK, ThreadsType, CallsOK, CallOK, InRead
<1>13. WaitsLocked'
  <2>1. ASSUME NEW u \in Threads, pc'[u] = "receiving", file'[u] \in Readers
        PROVE  holder'[file'[u]] = u /\ buf'[file'[u]] = <<>>
    <3>1. u # t /\ pc[u] = "receiving" /\ file'[u] = file[u]
      BY <1>9, <2>1 DEF IInv, TypeOK, ThreadsType
    <3>2. holder[file[u]] = u /\ buf[file[u]] = <<>>
      BY <3>1, <2>1 DEF IInv, WaitsLocked
    <3>3. file[u] # f /\ file[u] \in Subscribers
      BY <3>1, <3>2, <1>7, <2>1 DEF Subscribers
    <3>4. holder'[file[u]] = holder[file[u]]
      BY <3>1, <3>3, <1>6, <2>1 DEF IInv, TypeOK, FilesType
    <3>5. QED
      BY <3>1, <3>2, <3>3, <3>4, <1>10
  <2>2. QED
    BY <2>1 DEF WaitsLocked
<1>14. ReadsAlone'
  <2>1. ASSUME NEW u \in Threads, pc'[u] \in InRead
        PROVE  u # t /\ pc'[u] = pc[u] /\ file'[u] = file[u]
    BY <1>9, <2>1 DEF IInv, TypeOK, ThreadsType, InRead
  <2>2. \A g \in Rdwrs : buf'[g] = buf[g]
    BY <1>2, <1>10 DEF Subscribers
  <2>3. ASSUME NEW g \in Rdwrs, solo[g], NEW u \in Threads, file'[u] = g, pc'[u] \in {"receiving", "received"}
        PROVE  buf'[g] = <<>>
    <3>1. pc[u] = pc'[u] /\ file[u] = g
      BY <2>1, <2>3 DEF InRead
    <3>2. buf[g] = <<>>
      BY <3>1, <2>3 DEF IInv, ReadsAlone
    <3>3. QED
      BY <3>2, <2>2, <2>3
  <2>4. QED
    BY <2>1, <2>3, <1>6 DEF IInv, ReadsAlone
<1>15. \A g : InHand(g)' = InHand(g)
  <2>1. \A u \in Threads : hand[u] # <<>> => file'[u] = file[u]
    BY <1>8, <1>9 DEF IInv, TypeOK, ThreadsType
  <2>2. QED
    BY <2>1, <1>9, HandsStay
<1>16. Stream(f)'
  <2>1. Flat(ReadOf(f), sent[f], c)
    BY <1>2, <1>3, StreamsOfKept, StreamIsFlat DEF IInv, Kept
  <2>2. Flat(ReadOf(f) \o BytesOf(n), sent[f], Tail(c))
    BY <2>1, <1>2, <1>3, <1>4, FlatTake, ReadType DEF IInv
  <2>3. InHand(f) = <<>>
    <3>1. \A u \in Threads : file[u] = f => hand[u] = <<>>
      BY <1>2 DEF IInv, CallsOK, CallOK
    <3>2. QED
      BY <3>1, NothingInHand
  <2>4. got[f] \in Seq(Bytes) /\ got'[f] \in Seq(Bytes) /\ buf'[f] \in Seq(Bytes) /\ BytesOf(n) \in Seq(Bytes)
    BY <1>2, <1>10, FrameBytes DEF IInv, TypeOK, FilesType
  <2>5. ReadOf(f) = got[f]
    BY <2>3, <2>4, <1>7, NothingAdded DEF ReadOf
  <2>6. ReadOf(f)' = got'[f] \o buf'[f]
    <3>1. got'[f] \o buf'[f] \in Seq(Bytes)
      BY <2>4, ConcatProperties
    <3>2. QED
      BY <2>3, <3>1, <1>15, NothingAdded DEF ReadOf
  <2>7. ReadOf(f)' = ReadOf(f) \o BytesOf(n)
    BY <2>5, <2>6, <1>10
  <2>8. sent'[f] = sent[f] /\ chan'[f] = Tail(c)
    BY <1>2, <1>6 DEF IInv, TypeOK, FilesType
  <2>9. QED
    BY <2>2, <2>7, <2>8, FlatIsStream
<1>17. \A g \in Subscribers \ {f} : chan'[g] = chan[g]
  BY <1>6 DEF IInv, TypeOK, FilesType
<1>18. StreamsIntact'
  BY <1>2, <1>6, <1>10, <1>15, <1>16, <1>17, OtherStreamsStay DEF IInv
<1>19. FewSubscribed'
  BY <1>6 DEF IInv, FewSubscribed
<1>20. QED
  BY <1>11, <1>12, <1>13, <1>14, <1>18, <1>19 DEF IInv

\* A rdwr takes a frame and still has to get its mutex again.
LEMMA RdwrReceivesKeeps ==
  ASSUME IInv, NEW t \in Threads, RdwrReceives(t)
  PROVE  IInv'
<1>1. PICK f \in Rdwrs : f = file[t]
  BY DEF RdwrReceives
<1>2. f \in Subscribers /\ f \notin Readers
  BY SignalAssumption DEF Subscribers
<1>3. PICK c \in Seq(Nat) : c = chan[f] /\ c # <<>>
  BY <1>1, <1>2 DEF IInv, TypeOK, FilesType, RdwrReceives
<1>4. PICK n \in Nat : n = Head(c)
  BY <1>3, HeadTailProperties
<1>5. Tail(c) \in Seq(Nat) /\ <<n>> \in Seq(Nat) /\ <<n>> # <<>> /\ Head(<<n>>) = n
  BY <1>3, HeadTailProperties
<1>6. /\ chan' = [chan EXCEPT ![f] = Tail(c)] /\ hand' = [hand EXCEPT ![t] = <<n>>]
      /\ pc' = [pc EXCEPT ![t] = "received"] /\ pc[t] = "receiving"
      /\ UNCHANGED <<file, size, targets, payload>>
      /\ UNCHANGED <<subscribed, everSub, chClosed, buf, closed, holder, author, sent, got, solo>>
  BY <1>1, <1>3, <1>4 DEF RdwrReceives, GoesTo, history
<1>7. TypeOK'
  <2>1. FilesType'
    BY <1>5, <1>6 DEF IInv, TypeOK, FilesType
  <2>2. ThreadsType'
    BY <1>5, <1>6 DEF IInv, TypeOK, ThreadsType, Labels
  <2>3. QED
    BY <2>1, <2>2 DEF TypeOK
<1>8. \A u \in Threads \ {t} : pc'[u] = pc[u] /\ hand'[u] = hand[u]
  BY <1>6 DEF IInv, TypeOK, ThreadsType
<1>9. pc'[t] = "received" /\ hand'[t] = <<n>>
  BY <1>6 DEF IInv, TypeOK, ThreadsType
<1>10. CallsOK'
  <2>1. ASSUME NEW u \in Threads
        PROVE  CallOK(pc'[u], file'[u], hand'[u])
    <3>1. CASE u = t
      BY <3>1, <1>1, <1>2, <1>5, <1>6, <1>9 DEF CallOK, InRead
    <3>2. CASE u # t
      BY <3>2, <1>6, <1>8 DEF IInv, CallsOK
    <3>3. QED
      BY <3>1, <3>2
  <2>2. QED
    BY <2>1 DEF CallsOK
<1>11. WaitsLocked'
  <2>1. \A u \in Threads : pc'[u] = "receiving" => pc[u] = "receiving"
    BY <1>8, <1>9
  <2>2. QED
    BY <2>1, <1>6 DEF IInv, WaitsLocked
<1>12. ReadsAlone'
  <2>1. \A u \in Threads : /\ pc'[u] \in InRead => pc[u] \in InRead
                           /\ pc'[u] \in {"receiving", "received"} => pc[u] \in {"receiving", "received"}
    BY <1>6, <1>8, <1>9 DEF InRead
  <2>2. QED
    BY <2>1, <1>6 DEF IInv, ReadsAlone
<1>13. \A g \in Subscribers \ {f} : InHand(g)' = InHand(g)
  <2>1. ASSUME NEW g \in Subscribers \ {f} PROVE InHand(g)' = InHand(g)
    <3>1. \A u \in Threads : file[u] = g => hand'[u] = hand[u] /\ file'[u] = file[u]
      BY <1>1, <1>6, <1>8
    <3>2. \A u \in Threads : file'[u] = file[u]
      BY <1>6
    <3>3. QED
      BY <3>1, <3>2, HandsStay
  <2>2. QED
    BY <2>1
<1>14. ASSUME Kept(f)
       PROVE  Stream(f)'
  <2>1. solo[f]
    BY <1>2, <1>14 DEF Kept
  <2>2. \A u \in Threads : file[u] = f /\ pc[u] \in InRead => u = t
    BY <2>1, <1>1, <1>6 DEF IInv, ReadsAlone, InRead
  <2>3. \A u \in Threads : file[u] = f => hand[u] = <<>>
    BY <2>2, <1>6 DEF IInv, CallsOK, CallOK, InRead
  <2>4. InHand(f) = <<>>
    BY <2>3, NothingInHand
  <2>5. InHand(f)' = BytesOf(n)
    <3>1. /\ file'[t] = f /\ hand'[t] # <<>> /\ Head(hand'[t]) = n
          /\ \A u \in Threads : file'[u] = f /\ hand'[u] # <<>> => u = t
      BY <2>3, <1>1, <1>5, <1>6, <1>8, <1>9
    <3>2. QED
      BY <3>1, FrameInHandNext
  <2>6. buf[f] = <<>>
    BY <2>1, <1>1, <1>6 DEF IInv, ReadsAlone
  <2>7. got[f] \in Seq(Bytes) /\ BytesOf(n) \in Seq(Bytes)
    BY <1>2, FrameBytes DEF IInv, TypeOK, FilesType
  <2>8. ReadOf(f) = got[f] /\ ReadOf(f)' = got[f] \o BytesOf(n)
    BY <2>4, <2>5, <2>6, <2>7, <1>6, NothingAdded DEF ReadOf
  <2>9. Flat(ReadOf(f), sent[f], c)
    BY <1>2, <1>3, <1>14, StreamsOfKept, StreamIsFlat DEF IInv
  <2>10. Flat(ReadOf(f) \o BytesOf(n), sent[f], Tail(c))
    BY <2>9, <1>2, <1>3, <1>4, FlatTake, ReadType DEF IInv
  <2>11. sent'[f] = sent[f] /\ chan'[f] = Tail(c)
    BY <1>2, <1>6 DEF IInv, TypeOK, FilesType
  <2>12. QED
    BY <2>8, <2>10, <2>11, FlatIsStream
<1>15. \A g \in Subscribers \ {f} : chan'[g] = chan[g]
  BY <1>6 DEF IInv, TypeOK, FilesType
<1>16. StreamsIntact'
  BY <1>2, <1>6, <1>13, <1>14, <1>15, OtherStreamsStay DEF IInv
<1>17. FewSubscribed'
  BY <1>6 DEF IInv, FewSubscribed
<1>18. QED
  BY <1>7, <1>10, <1>11, <1>12, <1>16, <1>17 DEF IInv

\* A rdwr that has its mutex again gives out its frame, or drops it.
LEMMA RdwrReturnsKeeps ==
  ASSUME IInv, NEW t \in Threads, RdwrReturns(t)
  PROVE  IInv'
<1>1. PICK f \in Rdwrs : f = file[t]
  BY DEF IInv, CallsOK, CallOK, RdwrReturns
<1>2. f \in Subscribers /\ f \notin Readers
  BY SignalAssumption DEF Subscribers
<1>3. hand[t] \in Seq(Nat) /\ hand[t] # <<>>
  BY DEF IInv, TypeOK, ThreadsType, CallsOK, CallOK, RdwrReturns
<1>4. PICK n \in Nat : n = Head(hand[t])
  BY <1>3, HeadTailProperties
<1>5. /\ IF closed[f] THEN UNCHANGED <<got, buf>> ELSE CopyFrame(t, f, n)
      /\ Return(t) /\ pc[t] = "received"
      /\ UNCHANGED <<subscribed, everSub, chan, chClosed, closed, holder, author, sent, solo>>
  BY <1>1, <1>4 DEF RdwrReturns
<1>6. pc' = [pc EXCEPT ![t] = "idle"] /\ file' = [file EXCEPT ![t] = None] /\ hand' = [hand EXCEPT ![t] = <<>>]
  BY <1>5 DEF Return
<1>7. /\ got' \in [Subscribers -> Seq(Bytes)] /\ buf' \in [Subscribers -> Seq(Bytes)]
      /\ \A g \in Subscribers \ {f} : got'[g] = got[g] /\ buf'[g] = buf[g]
  <2>1. CASE closed[f]
    BY <2>1, <1>5 DEF IInv, TypeOK, FilesType
  <2>2. CASE ~closed[f]
    BY <2>2, <1>2, <1>5, FrameIsCopied DEF IInv
  <2>3. QED
    BY <2>1, <2>2
<1>8. TypeOK'
  <2>1. FilesType'
    BY <1>5, <1>7 DEF IInv, TypeOK, FilesType
  <2>2. ThreadsType'
    BY <1>5, NoneIsNoFile DEF IInv, TypeOK, ThreadsType, Labels, Return
  <2>3. QED
    BY <2>1, <2>2 DEF TypeOK
<1>9. /\ \A u \in Threads \ {t} : pc'[u] = pc[u] /\ hand'[u] = hand[u] /\ file'[u] = file[u]
      /\ pc'[t] = "idle" /\ hand'[t] = <<>> /\ file'[t] = None
  BY <1>6 DEF IInv, TypeOK, ThreadsType
<1>10. CallsOK'
  BY <1>9 DEF IInv, CallsOK, CallOK, InRead
<1>11. WaitsLocked'
  <2>1. ASSUME NEW u \in Threads, pc'[u] = "receiving", file'[u] \in Readers
        PROVE  holder[file'[u]] = u /\ buf'[file'[u]] = <<>>
    <3>1. pc[u] = "receiving" /\ file'[u] = file[u]
      BY <1>9, <2>1
    <3>2. holder[file[u]] = u /\ buf[file[u]] = <<>>
      BY <3>1, <2>1 DEF IInv, WaitsLocked
    <3>3. file[u] \in Subscribers \ {f}
      BY <3>1, <2>1, <1>2 DEF Subscribers
    <3>4. QED
      BY <3>1, <3>2, <3>3, <1>7
  <2>2. QED
    BY <2>1, <1>5 DEF WaitsLocked
<1>12. ReadsAlone'
  <2>1. ASSUME NEW u \in Threads, pc'[u] \in InRead
        PROVE  u # t /\ pc'[u] = pc[u] /\ file'[u] = file[u]
    BY <1>9, <2>1 DEF InRead
  <2>2. ASSUME NEW g \in Rdwrs, solo[g], NEW u \in Threads, file'[u] = g, pc'[u] \in {"receiving", "received"}
        PROVE  buf'[g] = <<>>
    <3>1. u # t /\ pc[u] = pc'[u] /\ file[u] = g
      BY <2>1, <2>2 DEF InRead
    <3>2. buf[g] = <<>>
      BY <3>1, <2>2 DEF IInv, ReadsAlone
    <3>3. g # f
      BY <3>1, <2>2, <1>1, <1>5 DEF IInv, ReadsAlone, InRead
    <3>4. QED
      BY <3>2, <3>3, <1>7, <2>2 DEF Subscribers
  <2>3. QED
    BY <2>1, <2>2, <1>5 DEF IInv, ReadsAlone
<1>13. \A g \in Subscribers \ {f} : InHand(g)' = InHand(g)
  <2>1. ASSUME NEW g \in Subscribers \ {f} PROVE InHand(g)' = InHand(g)
    <3>1. \A u \in Threads : (file[u] = g /\ hand[u] # <<>>) <=> (file'[u] = g /\ hand'[u] # <<>>)
      BY <1>1, <1>9
    <3>2. \A u \in Threads : file[u] = g /\ hand[u] # <<>> => hand'[u] = hand[u]
      BY <1>1, <1>9
    <3>3. QED
      BY <3>1, <3>2, HandsStay
  <2>2. QED
    BY <2>1
<1>14. ASSUME Kept(f)
       PROVE  Stream(f)'
  <2>1. solo[f] /\ ~closed[f]
    BY <1>2, <1>14 DEF Kept
  <2>2. \A u \in Threads : file[u] = f /\ hand[u] # <<>> => u = t
    BY <2>1, <1>1, <1>5 DEF IInv, ReadsAlone, CallsOK, CallOK, InRead
  <2>3. InHand(f) = BytesOf(n)
    BY <2>2, <1>1, <1>3, <1>4, FrameInHand
  <2>4. InHand(f)' = <<>>
    <3>1. \A u \in Threads : file'[u] = f => hand'[u] = <<>>
      BY <2>2, <1>9
    <3>2. QED
      BY <3>1 DEF InHand
  <2>5. buf[f] = <<>>
    BY <2>1, <1>1, <1>5 DEF IInv, ReadsAlone
  <2>6. got'[f] \o buf'[f] = got[f] \o BytesOf(n)
    BY <2>1, <2>5, <1>2, <1>5, FrameIsCopied DEF IInv
  <2>7. got[f] \in Seq(Bytes) /\ got'[f] \in Seq(Bytes) /\ buf'[f] \in Seq(Bytes)
    BY <1>2, <1>7 DEF IInv, TypeOK, FilesType
  <2>8. ReadOf(f) = got[f] \o BytesOf(n)
    BY <2>3, <2>5, <2>7, NothingAdded DEF ReadOf
  <2>9. ReadOf(f)' = got'[f] \o buf'[f]
    <3>1. got'[f] \o buf'[f] \in Seq(Bytes)
      BY <2>7, ConcatProperties
    <3>2. QED
      BY <2>4, <3>1, NothingAdded DEF ReadOf
  <2>10. Flat(ReadOf(f), sent[f], chan[f])
    BY <1>2, <1>14, StreamsOfKept, StreamIsFlat DEF IInv
  <2>11. QED
    BY <2>6, <2>8, <2>9, <2>10, <1>5, FlatIsStream
<1>15. StreamsIntact'
  BY <1>2, <1>5, <1>7, <1>13, <1>14, OtherStreamsStay DEF IInv
<1>16. FewSubscribed'
  BY <1>5 DEF IInv, FewSubscribed
<1>17. QED
  BY <1>8, <1>10, <1>11, <1>12, <1>15, <1>16 DEF IInv

-----------------------------------------------------------------------------
(* The theorem.                                                            *)

LEMMA InitHolds == Init => IInv
<1> SUFFICES ASSUME Init PROVE IInv
  OBVIOUS
<1>1. <<>> \in Seq(Nat) /\ <<>> \in Seq(Bytes) /\ <<>> \in Seq(Files) /\ <<>> \in Seq(Subscribers)
  OBVIOUS
<1>2. TypeOK
  BY <1>1 DEF Init, TypeOK, FilesType, ThreadsType, Labels
<1>3. CallsOK /\ WaitsLocked /\ ReadsAlone
  BY DEF Init, CallsOK, CallOK, WaitsLocked, ReadsAlone, InRead
<1>4. FewSubscribed
  BY FS_EmptySet DEF Init, FewSubscribed
<1>5. ASSUME NEW f \in Subscribers PROVE Stream(f)
  <2>1. got[f] = <<>> /\ buf[f] = <<>> /\ sent[f] = <<>> /\ chan[f] = <<>>
    BY DEF Init
  <2>2. InHand(f) = <<>>
    BY NothingInHand DEF Init
  <2>3. ReadOf(f) = <<>>
    BY <2>1, <2>2, NothingAdded, <1>1 DEF ReadOf
  <2>4. Flat(<<>>, <<>>, <<>>)
    BY SignalAssumption DEF Flat
  <2>5. QED
    BY <2>1, <2>3, <2>4, StreamIsFlat
<1>6. QED
  BY <1>2, <1>3, <1>4, <1>5, StreamsOfKept DEF IInv

LEMMA StepHolds == IInv /\ [Next]_vars => IInv'
<1> SUFFICES ASSUME IInv, [Next]_vars PROVE IInv'
  OBVIOUS
<1>1. CASE BroadcasterClose
  BY <1>1, BroadcasterCloseKeeps
<1>2. ASSUME NEW t \in Threads, NEW f \in Subscribers, NEW n \in ReadSizes, ReadCall(t, f, n)
      PROVE  IInv'
  BY <1>2, ReadCallKeeps
<1>3. ASSUME NEW t \in Threads, NEW f \in Writers \cup Rdwrs, WriteCall(t, f)
      PROVE  IInv'
  BY <1>3, WriteCallKeeps
<1>4. ASSUME NEW t \in Threads, NEW f \in Subscribers, CloseCall(t, f)
      PROVE  IInv'
  BY <1>4, CloseCallKeeps
<1>5. ASSUME NEW t \in Threads, ReadStep(t)
      PROVE  IInv'
  BY <1>5, ReadClosedKeeps, ReadBufferedKeeps, ReadWaitsKeeps, ReaderReceivesKeeps,
     RdwrReceivesKeeps, ReceivesClosedKeeps, RdwrReturnsKeeps DEF ReadStep
<1>6. ASSUME NEW t \in Threads, WriteStep(t)
      PROVE  IInv'
  BY <1>6, SnapshotKeeps, SendKeeps, NothingMovesKeeps, WriteReturnsKeeps DEF WriteStep, SendPanics
<1>7. ASSUME NEW t \in Threads, CloseStep(t)
      PROVE  IInv'
  BY <1>7, ReaderClosesKeeps, RdwrClosesKeeps, RdwrRemovesKeeps DEF CloseStep
<1>8. CASE UNCHANGED vars
  BY <1>8, NothingMovesKeeps DEF vars
<1>9. QED
  BY <1>1, <1>2, <1>3, <1>4, <1>5, <1>6, <1>7, <1>8 DEF Next

\* The invariant holds in every behaviour of the code: Broadcasts, Reads,
\* Writes and Closes of any number of goroutines, in any order.
THEOREM SignalInvariance == Spec => []IInv
<1>1. Init => IInv
  BY InitHolds
<1>2. IInv /\ [Next]_vars => IInv'
  BY StepHolds
<1>3. QED
  BY <1>1, <1>2, PTL DEF Spec

\* No file loses, repeats or moves a byte of what Broadcasts put into its
\* channel: a reader however many goroutines read and close it, a rdwr as long
\* as its Reads do not overlap and it is not closed.
THEOREM StreamsStayIntact == Spec => []StreamsIntact
<1>1. IInv => StreamsIntact
  BY DEF IInv
<1>2. QED
  BY <1>1, SignalInvariance, PTL

-----------------------------------------------------------------------------
(* The metadata of fsa.                                                    *)

\* What a call does to the metadata: nothing, or it sets the timer; and it
\* leaves to the goroutines what they are saving.
Unsaved == (UNCHANGED unsaved \/ ScheduleWrite) /\ UNCHANGED savers

\* The goroutines that wait for the lock.
Queued == \E S : flushers \in Seq(S)

\* The flag is set exactly when there is something to save, and then one
\* timer is; and who writes now has had the timer set again.
SaveInv ==
    /\ dirty = pending /\ pending \in BOOLEAN
    /\ timers = IF pending THEN 1 ELSE 0
    /\ writing # <<>> => pending \/ flushers # <<>>
    /\ Queued
    /\ SaveIsDue

LEMMA SetsTimer ==
  ASSUME NEW n, NEW attr, SetMetadata(n, attr)
  PROVE  ScheduleWrite
BY DEF SetMetadata

LEMMA TimesSetTimer ==
  ASSUME NEW n, SetTimes(n)
  PROVE  ScheduleWrite
BY DEF SetTimes, SetMetadata

LEMMA DeleteSetsTimer ==
  ASSUME NEW ns, DeleteMetadata(ns)
  PROVE  ScheduleWrite
BY DEF DeleteMetadata

\* What no call does is to save.
LEMMA CallsLeaveSaving ==
  ASSUME NEW p \in Tasks, FsaStep(p)
  PROVE  Unsaved
<1>1. CASE StatLooks(p)
  BY <1>1 DEF StatLooks, Quietly, Idle, Unsaved
<1>2. CASE StatSizes(p)
  BY <1>2 DEF StatSizes, Quietly, Idle, Unsaved
<1>3. CASE BuildFileInfo(p)
  BY <1>3, SetsTimer DEF BuildFileInfo, Idle, Unsaved
<1>4. CASE Chmod(p)
  BY <1>4, SetsTimer DEF Chmod, Idle, Unsaved
<1>5. CASE Chtimes(p)
  BY <1>5, TimesSetTimer DEF Chtimes, Idle, Unsaved
<1>6. CASE Open(p)
  BY <1>6 DEF Open, Unsaved
<1>7. CASE Create(p)
  BY <1>7 DEF Create, Idle, Unsaved
<1>8. CASE Symlink(p)
  BY <1>8, SetsTimer, TimesSetTimer DEF Symlink, Idle, Unsaved
<1>9. CASE Mkdir(p)
  BY <1>9, SetsTimer DEF Mkdir, Quietly, Idle, Unsaved
<1>10. CASE RemoveChecked(p)
  BY <1>10, DeleteSetsTimer DEF RemoveChecked, Quietly, Idle, Unsaved
<1>11. CASE Truncate(p)
  BY <1>11 DEF Truncate, Idle, Unsaved
<1>12. CASE RenameStarts(p)
  BY <1>12 DEF RenameStarts, Quietly, Idle, Unsaved
<1>13. CASE CopiesEntry(p)
  BY <1>13, SetsTimer DEF CopiesEntry, Idle, Unsaved
<1>14. CASE CopiesCells(p)
  BY <1>14, SetsTimer DEF CopiesCells, Idle, Unsaved
<1>15. CASE RenameRemoves(p)
  BY <1>15 DEF RenameRemoves, Idle, Unsaved
<1>16. CASE Write(p)
  BY <1>16, TimesSetTimer DEF Write, Idle, Unsaved
<1>17. CASE Read(p)
  BY <1>17 DEF Read, Idle, Unsaved
<1>18. CASE Seek(p)
  BY <1>18 DEF Seek, Idle, Unsaved
<1>19. CASE Close(p)
  BY <1>19 DEF Close, Idle, Unsaved
<1> QED
  BY <1>1, <1>2, <1>3, <1>4, <1>5, <1>6, <1>7, <1>8, <1>9, <1>10, <1>11, <1>12, <1>13, <1>14, <1>15,
     <1>16, <1>17, <1>18, <1>19 DEF FsaStep

LEMMA UnsavedKeeps ==
  ASSUME SaveInv, Unsaved
  PROVE  SaveInv'
<1>1. flushers' = flushers /\ writing' = writing /\ disk' = disk /\ lost' = lost
  BY DEF Unsaved, savers
<1>2. Queued'
  BY <1>1 DEF SaveInv, Queued
<1>3. CASE UNCHANGED unsaved
  BY <1>1, <1>2, <1>3 DEF SaveInv, SaveIsDue, unsaved
<1>4. CASE ScheduleWrite
  <2>1. dirty' = TRUE /\ pending' = TRUE /\ timers' = 1
    BY <1>4 DEF ScheduleWrite, SaveInv
  <2>2. QED
    BY <2>1, <1>1, <1>2 DEF SaveInv, SaveIsDue
<1> QED
  BY <1>3, <1>4 DEF Unsaved

\* A timer that fires leaves a copy of what there is to save.
LEMMA TimerKeeps ==
  ASSUME SaveInv, FlushToDisk
  PROVE  SaveInv'
<1>1. dirty' = FALSE /\ pending' = FALSE /\ writing' = writing /\ timers' = timers - 1
  BY DEF FlushToDisk
<1>2. pending /\ dirty /\ timers' = 0
  BY <1>1 DEF FlushToDisk, SaveInv
<1>3. flushers' = Append(flushers, meta)
  BY <1>2 DEF FlushToDisk
<1>4. PICK S : flushers \in Seq(S)
  BY DEF SaveInv, Queued
<1>5. flushers \in Seq(S \cup {meta}) /\ meta \in S \cup {meta}
  BY <1>4
<1>6. flushers' \in Seq(S \cup {meta}) /\ flushers' # <<>>
  BY <1>3, <1>5
<1>7. Queued'
  BY <1>6 DEF Queued
<1> QED
  BY <1>1, <1>2, <1>6, <1>7 DEF SaveInv, SaveIsDue

\* Who takes the lock sets the times of the file, which sets the timer.
LEMMA TakingKeeps ==
  ASSUME SaveInv, FlushWrites
  PROVE  SaveInv'
<1>1. ScheduleWrite
  BY TimesSetTimer DEF FlushWrites
<1>2. dirty' = TRUE /\ pending' = TRUE /\ timers' = 1
  BY <1>1 DEF ScheduleWrite, SaveInv
<1>3. PICK k \in DOMAIN flushers : flushers' = RemoveAt(flushers, k)
  BY DEF FlushWrites
<1>4. PICK S : flushers \in Seq(S)
  BY DEF SaveInv, Queued
<1>5. k \in 1..Len(flushers) /\ Len(flushers) \in Nat
  BY <1>3, <1>4
<1>6. SubSeq(flushers, 1, k - 1) \in Seq(S) /\ SubSeq(flushers, k + 1, Len(flushers)) \in Seq(S)
  BY <1>4, <1>5
<1>7. flushers' \in Seq(S)
  BY <1>3, <1>6 DEF RemoveAt
<1>8. Queued'
  BY <1>7 DEF Queued
<1> QED
  BY <1>2, <1>8 DEF SaveInv, SaveIsDue

LEMMA WrittenKeeps ==
  ASSUME SaveInv, FlushDone
  PROVE  SaveInv'
<1>1. UNCHANGED <<flushers, unsaved>> /\ writing # <<>> /\ writing' = <<>>
  BY DEF FlushDone
<1>2. Queued'
  BY <1>1 DEF SaveInv, Queued
<1> QED
  BY <1>1, <1>2 DEF SaveInv, SaveIsDue, unsaved

LEMMA ReloadKeeps ==
  ASSUME FsaReload
  PROVE  SaveInv'
<1>1. Queued'
  <2>1. flushers' = <<>> /\ <<>> \in Seq({})
    BY DEF FsaReload
  <2>2. QED
    BY <2>1 DEF Queued
<1> QED
  BY <1>1 DEF FsaReload, SaveInv, SaveIsDue

LEMMA SaveInvNext ==
  ASSUME SaveInv, [FsaNext]_<<fsavars, asyncvars>>
  PROVE  SaveInv'
<1>1. ASSUME NEW p \in Tasks, FsaStep(p) PROVE SaveInv'
  BY <1>1, CallsLeaveSaving, UnsavedKeeps
<1>2. CASE UNCHANGED fsavars
  BY <1>2, UnsavedKeeps DEF Unsaved, fsavars
<1>3. CASE ExpireStat
  BY <1>3, UnsavedKeeps DEF Unsaved, ExpireStat
<1>4. QED
  BY <1>1, <1>2, <1>3, TimerKeeps, TakingKeeps, WrittenKeeps, ReloadKeeps DEF FsaNext, FsaElse

LEMMA SaveInvInit ==
  ASSUME FsaInit
  PROVE  SaveInv
<1>1. Queued
  <2>1. flushers = <<>> /\ <<>> \in Seq({})
    BY DEF FsaInit
  <2>2. QED
    BY <2>1 DEF Queued
<1> QED
  BY <1>1 DEF FsaInit, SaveInv, SaveIsDue

(* Whatever tasks do with the private files, and whenever the timer fires, *)
(* a page is loaded again or a goroutine gets the lock, no change of the   *)
(* metadata waits for another one to be saved.  (scheduleWrite and         *)
(* flushToDisk, metadata.go.)                                              *)
THEOREM SaveStaysDue == FsaSpec => []SaveIsDue
<1>1. SaveInv => SaveIsDue
  BY DEF SaveInv
<1>2. FsaInit => SaveInv
  BY SaveInvInit
<1>3. SaveInv /\ [FsaNext]_<<fsavars, asyncvars>> => SaveInv'
  BY SaveInvNext
<1> QED
  BY <1>1, <1>2, <1>3, PTL DEF FsaSpec

-----------------------------------------------------------------------------
(* Names and URLs of caches.                                               *)

\* The URLs that a name had at first, and those that it may have.
First(c, path) == {u \in FirstNames(c) : UrlToPath(u) = path}
Allowed(c, path) == IF First(c, path) = {} THEN {PathToUrl(path)} ELSE First(c, path)

\* Two histories of a name: something of it was removed or missed, or not and it has the
\* URLs it had at first, or the one that the device makes.
Gone(c, path) == <<c>> \o path \in loose
NamesAllowed ==
    \A c \in DOMAIN caches : \A u \in Names(c) : Gone(c, UrlToPath(u)) \/ u \in Allowed(c, UrlToPath(u))
FirstStay ==
    \A c \in DOMAIN CachesThere : \A u \in FirstNames(c) : Gone(c, UrlToPath(u)) \/ u \in Names(c)

\* A call is a frame, on a name or on a file that has been opened.
IsFrame(f) ==
    f = [op |-> f.op, pc |-> f.pc, n |-> f.n, m |-> f.m, h |-> f.h, o |-> f.o, x |-> f.x, b |-> f.b, size |-> f.size,
         cells |-> f.cells, flags |-> f.flags, seen |-> f.seen, moves |-> f.moves]
OnWhat(f) == (\E S : f.n \in Seq(S)) /\ f.n # <<>> /\ (f.op \in FileCalls => f.h \in DOMAIN wfile)

\* What a call that opens has found is still so, or the name is gone.
FoundNone(f) == f.pc = 1 /\ f.m = <<>> /\ First(f.n[1], Tail(f.n)) \subseteq {PathToUrl(Tail(f.n))}
FoundOne(f) == f.pc \in {1, 2} /\ f.m # <<>> /\ Url(f.m[1], Tail(f.n)) \in Allowed(f.n[1], Tail(f.n))
FrameAllowed(f) == f.op = "copenfile" => f.pc = 0 \/ f.n \in loose \/ FoundNone(f) \/ FoundOne(f)
IsCall(f) == IsFrame(f) /\ OnWhat(f) /\ FrameAllowed(f)
CallsAllowed == stack = [p \in Tasks |-> stack[p]] /\ \A p \in Tasks : stack[p] = <<>> \/ (\E f : stack[p] = <<f>> /\ IsCall(f))

\* What an open file is going to write to is what its name may have.
FileAllowed(w) ==
    /\ w = [cache |-> w.cache, url |-> w.url, data |-> w.data, off |-> w.off, dirty |-> w.dirty, append |-> w.append]
    /\ Gone(w.cache, UrlToPath(w.url)) \/ w.url \in Allowed(w.cache, UrlToPath(w.url))
FilesAllowed == (\E S : wfile \in Seq(S)) /\ \A h \in DOMAIN wfile : FileAllowed(wfile[h])

UrlInv == NamesAllowed /\ FirstStay /\ CallsAllowed /\ FilesAllowed

-----------------------------------------------------------------------------
(* Frames.                                                                 *)

\* What the changes of a frame leave of it.
LEMMA FrameChanges ==
  ASSUME NEW f, IsFrame(f), NEW k, NEW s, NEW c
  PROVE  /\ IsFrame([f EXCEPT !.pc = k]) /\ IsFrame([f EXCEPT !.m = s, !.pc = k])
         /\ IsFrame([f EXCEPT !.pc = k, !.m = s]) /\ IsFrame([f EXCEPT !.pc = k, !.cells = c])
<1>1. ASSUME NEW v, IsFrame(v), NEW w PROVE IsFrame([v EXCEPT !.pc = w])
  BY <1>1, SMTT(60) DEF IsFrame
<1>2. ASSUME NEW v, IsFrame(v), NEW w PROVE IsFrame([v EXCEPT !.m = w])
  BY <1>2, SMTT(60) DEF IsFrame
<1>3. ASSUME NEW v, IsFrame(v), NEW w PROVE IsFrame([v EXCEPT !.cells = w])
  BY <1>3, SMTT(60) DEF IsFrame
<1>4. QED
  BY <1>1, <1>2, <1>3

\* The name of a call is that of the cache before that of the file.
LEMMA NameParts ==
  ASSUME NEW n, \E S : n \in Seq(S), n # <<>>
  PROVE  n = <<n[1]>> \o Tail(n)
OBVIOUS

LEMMA FrontOfOne ==
  ASSUME NEW f
  PROVE  Front(<<f>>) = <<>> /\ (\A g : Front(<<f>>) \o <<g>> = <<g>>)
<1>1. <<f>> \in Seq({f}) /\ Len(<<f>>) = 1
  OBVIOUS
<1>2. Front(<<f>>) = <<>>
  BY <1>1 DEF Front
<1>3. ASSUME NEW g PROVE <<>> \o <<g>> = <<g>>
  <2>1. <<g>> \in Seq({g})
    OBVIOUS
  <2>2. QED
    BY <2>1, ConcatEmptySeq
<1>4. QED
  BY <1>2, <1>3

\* What a step makes of the stack of its call.
LEMMA CallSteps ==
  ASSUME CallsAllowed, NEW p \in Tasks, stack[p] # <<>>
  PROVE  /\ IsCall(Top(p)) /\ Len(stack[p]) = 1
         /\ \A g : Becomes(p, g) => stack' = [stack EXCEPT ![p] = <<g>>] /\ UNCHANGED back
         /\ \A r : Returns(p, r) => stack' = [stack EXCEPT ![p] = <<>>]
<1>1. PICK f : stack[p] = <<f>> /\ IsCall(f)
  BY DEF CallsAllowed
<1>2. Top(p) = f /\ Len(stack[p]) = 1
  BY <1>1 DEF Top
<1>3. ASSUME NEW g, Becomes(p, g) PROVE stack' = [stack EXCEPT ![p] = <<g>>] /\ UNCHANGED back
  <2>1. stack' = [stack EXCEPT ![p] = Front(stack[p]) \o <<g>>]
    BY <1>3 DEF Becomes
  <2>2. Front(stack[p]) \o <<g>> = <<g>>
    BY <1>1, FrontOfOne
  <2>3. QED
    BY <2>1, <2>2, <1>3 DEF Becomes
<1>4. ASSUME NEW r, Returns(p, r) PROVE stack' = [stack EXCEPT ![p] = <<>>]
  <2>1. stack' = [stack EXCEPT ![p] = Front(stack[p])]
    BY <1>4 DEF Returns
  <2>2. QED
    BY <2>1, <1>1, FrontOfOne
<1>5. QED
  BY <1>1, <1>2, <1>3, <1>4

LEMMA CallStays ==
  ASSUME NEW f, IsCall(f), loose \subseteq loose', DOMAIN wfile \subseteq DOMAIN wfile'
  PROVE  IsCall(f)'
BY DEF IsCall, OnWhat, FrameAllowed, IsFrame, FoundNone, FoundOne

\* A step of a call leaves the others; the call ends, or it goes on as g.
LEMMA CallEnds ==
  ASSUME CallsAllowed, NEW p \in Tasks, stack' = [stack EXCEPT ![p] = <<>>],
         loose \subseteq loose', DOMAIN wfile \subseteq DOMAIN wfile'
  PROVE  CallsAllowed'
<1>1. ASSUME NEW f, IsCall(f) PROVE IsCall(f)'
  BY <1>1, CallStays
<1>2. stack' = [q \in Tasks |-> stack'[q]]
  BY DEF CallsAllowed
<1>3. ASSUME NEW q \in Tasks PROVE stack'[q] = <<>> \/ (\E f : stack'[q] = <<f>> /\ IsCall(f)')
  <2>1. CASE q = p
    BY <2>1 DEF CallsAllowed
  <2>2. CASE q # p
    <3>1. stack'[q] = stack[q]
      BY <2>2 DEF CallsAllowed
    <3>2. QED
      BY <3>1, <1>1 DEF CallsAllowed
  <2>3. QED
    BY <2>1, <2>2
<1>4. QED
  BY <1>2, <1>3 DEF CallsAllowed

LEMMA CallGoesOn ==
  ASSUME CallsAllowed, NEW p \in Tasks, NEW g, stack' = [stack EXCEPT ![p] = <<g>>], IsCall(g)',
         loose \subseteq loose', DOMAIN wfile \subseteq DOMAIN wfile'
  PROVE  CallsAllowed'
<1>1. ASSUME NEW f, IsCall(f) PROVE IsCall(f)'
  BY <1>1, CallStays
<1>2. stack' = [q \in Tasks |-> stack'[q]]
  BY DEF CallsAllowed
<1>3. ASSUME NEW q \in Tasks PROVE stack'[q] = <<>> \/ (\E f : stack'[q] = <<f>> /\ IsCall(f)')
  <2>1. CASE q = p
    BY <2>1 DEF CallsAllowed
  <2>2. CASE q # p
    <3>1. stack'[q] = stack[q]
      BY <2>2 DEF CallsAllowed
    <3>2. QED
      BY <3>1, <1>1 DEF CallsAllowed
  <2>3. QED
    BY <2>1, <2>2
<1>4. QED
  BY <1>2, <1>3 DEF CallsAllowed

-----------------------------------------------------------------------------
(* Entries.                                                                *)

\* The names of a step that adds only what is allowed and takes only what is
\* gone.
LEMMA NamesStep ==
  ASSUME NamesAllowed, FirstStay, loose \subseteq loose',
         \A c : \A u \in Names(c)' : u \in Names(c) \/ Gone(c, UrlToPath(u))' \/ u \in Allowed(c, UrlToPath(u)),
         \A c : \A u \in Names(c) : u \in Names(c)' \/ Gone(c, UrlToPath(u))'
  PROVE  NamesAllowed' /\ FirstStay'
<1>1. ASSUME NEW c, NEW path, Gone(c, path) PROVE Gone(c, path)'
  BY <1>1 DEF Gone
<1>2. ASSUME NEW c, NEW u \in Names(c) PROVE c \in DOMAIN caches
  BY DEF Names
<1>3. ASSUME NEW c, NEW u \in Names(c)' PROVE Gone(c, UrlToPath(u))' \/ u \in Allowed(c, UrlToPath(u))
  BY <1>1, <1>2 DEF NamesAllowed
<1>4. ASSUME NEW c \in DOMAIN CachesThere, NEW u \in FirstNames(c) PROVE Gone(c, UrlToPath(u))' \/ u \in Names(c)'
  BY <1>1 DEF FirstStay
<1>5. NamesAllowed'
  BY <1>3 DEF NamesAllowed, Allowed, First, FirstNames, PathToUrl, UrlToPath
<1>6. FirstStay'
  BY <1>4 DEF FirstStay, FirstNames
<1>7. QED
  BY <1>5, <1>6

\* Opening a cache changes no names.
LEMMA OpenedKeepsNames ==
  ASSUME NEW c, CacheOpened(c)
  PROVE  \A d : Names(d)' = Names(d)
BY DEF CacheOpened, PutIn, Entries, Names

LEMMA PutAddsName ==
  ASSUME NEW c, NEW u, NEW cells, Put(c, u, cells)
  PROVE  \A d : Names(d)' = IF d = c THEN Names(c) \cup {u} ELSE Names(d)
BY DEF Put, PutIn, Names

\* A URL of a name that is there has its path, and a scheme.
LEMMA AllowedIsUrl ==
  ASSUME NEW c, NEW path, NEW u \in Allowed(c, path)
  PROVE  u = Url(u.scheme, path) /\ UrlToPath(u) = path
<1>1. CASE First(c, path) = {}
  <2>1. PICK x : u = Url(x, path)
    BY <1>1 DEF Allowed, PathToUrl
  <2>2. u.scheme = x /\ u.path = path
    BY <2>1 DEF Url
  <2>3. QED
    BY <2>1, <2>2 DEF UrlToPath
<1>2. CASE First(c, path) # {}
  <2>1. c \in DOMAIN CachesThere /\ u \in DOMAIN CachesThere[c] /\ u.path = path
    BY <1>2 DEF Allowed, First, FirstNames, UrlToPath
  <2>2. u = [scheme |-> u.scheme, path |-> u.path]
    BY <2>1, CachesAssumption
  <2>3. QED
    BY <2>1, <2>2 DEF UrlToPath, Url
<1>3. QED
  BY <1>1, <1>2

LEMMA FilesStay ==
  ASSUME FilesAllowed, wfile' = wfile, loose \subseteq loose'
  PROVE  FilesAllowed'
<1>1. ASSUME NEW w, FileAllowed(w) PROVE FileAllowed(w)'
  BY <1>1 DEF FileAllowed, Gone, Allowed, First, FirstNames, PathToUrl, UrlToPath, Url
<1>2. QED
  BY <1>1 DEF FilesAllowed

LEMMA NamesKept ==
  ASSUME NamesAllowed, FirstStay, \A d : Names(d)' = Names(d), loose' = loose
  PROVE  NamesAllowed' /\ FirstStay'
BY NamesStep

\* A step that ends a call and changes no names.
LEMMA EndsQuietly ==
  ASSUME UrlInv, NEW p \in Tasks, stack[p] # <<>>, NEW r, Returns(p, r),
         \A d : Names(d)' = Names(d), UNCHANGED <<wfile, loose>>
  PROVE  UrlInv'
<1>1. stack' = [stack EXCEPT ![p] = <<>>]
  BY CallSteps DEF UrlInv
<1>2. CallsAllowed'
  BY <1>1, CallEnds DEF UrlInv
<1>3. QED
  BY <1>2, FilesStay, NamesKept DEF UrlInv

LEMMA GoesOnQuietly ==
  ASSUME UrlInv, NEW p \in Tasks, stack[p] # <<>>, NEW g, Becomes(p, g), IsCall(g)',
         \A d : Names(d)' = Names(d), UNCHANGED <<wfile, loose>>
  PROVE  UrlInv'
<1>1. stack' = [stack EXCEPT ![p] = <<g>>]
  BY CallSteps DEF UrlInv
<1>2. CallsAllowed'
  BY <1>1, CallGoesOn DEF UrlInv
<1>3. QED
  BY <1>2, FilesStay, NamesKept DEF UrlInv

\* The URL that is found is one that the name may have; and where none is,
\* none was at first.
LEMMA FoundIsAllowed ==
  ASSUME UrlInv, NEW p \in Tasks, stack[p] # <<>>
  PROVE  \/ Top(p).n \in loose
         \/ /\ Found(p) = {} => First(Top(p).n[1], Tail(Top(p).n)) = {}
            /\ \A u \in Found(p) : Url(u.scheme, Path(p)) \in Allowed(Top(p).n[1], Tail(Top(p).n))
<1> DEFINE n == Top(p).n
<1>1. n = <<n[1]>> \o Tail(n)
  BY CallSteps, NameParts DEF UrlInv, IsCall, OnWhat
<1>2. SUFFICES ASSUME n \notin loose
               PROVE  /\ Found(p) = {} => First(n[1], Tail(n)) = {}
                      /\ \A u \in Found(p) : Url(u.scheme, Tail(n)) \in Allowed(n[1], Tail(n))
  BY DEF Path
<1> HIDE DEF n
<1>3. ~Gone(n[1], Tail(n))
  BY <1>1, <1>2 DEF Gone
<1>4. Found(p) = {u \in Names(n[1]) : UrlToPath(u) = Tail(n)}
  BY DEF Found, Cache, Path, n
<1>5. ASSUME NEW u \in First(n[1], Tail(n)) PROVE u \in Found(p)
  <2>1. n[1] \in DOMAIN CachesThere /\ u \in FirstNames(n[1]) /\ UrlToPath(u) = Tail(n)
    BY <1>5 DEF First, FirstNames
  <2>2. QED
    BY <2>1, <1>3, <1>4 DEF UrlInv, FirstStay
<1>6. ASSUME NEW u \in Found(p) PROVE Url(u.scheme, Tail(n)) \in Allowed(n[1], Tail(n))
  <2>1. u \in Names(n[1]) /\ UrlToPath(u) = Tail(n)
    BY <1>4, <1>6
  <2>2. n[1] \in DOMAIN caches
    BY <2>1 DEF Names
  <2>3. u \in Allowed(n[1], Tail(n))
    BY <2>1, <2>2, <1>3 DEF UrlInv, NamesAllowed
  <2>4. QED
    BY <2>3, AllowedIsUrl
<1>7. QED
  BY <1>5, <1>6

LEMMA LooksUp ==
  ASSUME UrlInv, NEW p \in Tasks, stack[p] # <<>>, NEW k, FindURLForPath(p, k),
         Top(p).op = "copenfile" => k = 1, UNCHANGED <<wfile, loose>>
  PROVE  UrlInv'
<1>0. PICK f : f = Top(p)
  OBVIOUS
<1>1. IsCall(f)
  BY <1>0, CallSteps DEF UrlInv
<1>2. PICK s \in IF Found(p) = {} THEN {<<>>} ELSE {<<u.scheme>> : u \in Found(p)} : Becomes(p, [f EXCEPT !.m = s, !.pc = k])
  BY <1>0 DEF FindURLForPath
<1>g. PICK g : g = [f EXCEPT !.m = s, !.pc = k]
  OBVIOUS
<1>3. \A d : Names(d)' = Names(d)
  BY OpenedKeepsNames DEF FindURLForPath
<1>4. IsFrame(g) /\ g.op = f.op /\ g.n = f.n /\ g.h = f.h /\ g.pc = k /\ g.m = s
  <2>1. IsFrame(f)
    BY <1>1 DEF IsCall
  <2>2. IsFrame(g)
    BY <2>1, <1>g, FrameChanges
  <2>3. QED
    BY <2>1, <2>2, <1>g DEF IsFrame
<1>5. ASSUME f.op = "copenfile" PROVE f.n \in loose \/ FoundNone(g) \/ FoundOne(g)
  <2>1. k = 1 /\ f.n = g.n
    BY <1>0, <1>4, <1>5
  <2>2. CASE Found(p) = {}
    <3>1. s = <<>>
      BY <2>2
    <3>2. QED
      BY <3>1, <2>1, <2>2, <1>4, <1>0, FoundIsAllowed DEF FoundNone
  <2>3. CASE Found(p) # {}
    <3>1. PICK u \in Found(p) : s = <<u.scheme>>
      BY <2>3
    <3>2. s # <<>> /\ s[1] = u.scheme
      BY <3>1
    <3>3. f.n \in loose \/ Url(u.scheme, Path(p)) \in Allowed(f.n[1], Tail(f.n))
      BY <1>0, FoundIsAllowed
    <3>4. Path(p) = Tail(f.n)
      BY <1>0 DEF Path
    <3>5. QED
      BY <3>2, <3>3, <3>4, <2>1, <1>4 DEF FoundOne
  <2>4. QED
    BY <2>2, <2>3
<1>6. IsCall(g)'
  <2>1. IsCall(g)
    BY <1>1, <1>4, <1>5 DEF IsCall, OnWhat, FrameAllowed
  <2>2. QED
    BY <2>1, CallStays
<1>7. Becomes(p, g)
  BY <1>2, <1>g
<1>8. QED
  BY <1>3, <1>6, <1>7, GoesOnQuietly

-----------------------------------------------------------------------------
(* The calls.                                                              *)

LEMMA AtCall ==
  ASSUME UrlInv, NEW p \in Tasks, NEW op, NEW k, At(p, op, k)
  PROVE  stack[p] # <<>> /\ Top(p).op = op /\ Top(p).pc = k /\ IsCall(Top(p))
BY CallSteps DEF UrlInv, At

\* A call that does not open goes on.
LEMMA OthersGoOn ==
  ASSUME UrlInv, NEW p \in Tasks, stack[p] # <<>>, Top(p).op # "copenfile", NEW k, Goto(p, k),
         \A d : Names(d)' = Names(d), UNCHANGED <<wfile, loose>>
  PROVE  UrlInv'
<1>1. PICK f : f = Top(p) /\ IsCall(f)
  BY CallSteps DEF UrlInv
<1>2. PICK g : g = [f EXCEPT !.pc = k]
  OBVIOUS
<1>3. Becomes(p, g)
  BY <1>1, <1>2 DEF Goto
<1>4. IsFrame(f)
  BY <1>1 DEF IsCall
<1>5. IsFrame(g)
  BY <1>4, <1>2, FrameChanges
<1>6. g.op = f.op /\ g.n = f.n /\ g.h = f.h
  BY <1>2, <1>4 DEF IsFrame
<1>7. IsCall(g)
  BY <1>1, <1>5, <1>6 DEF IsCall, OnWhat, FrameAllowed
<1>8. IsCall(g)'
  BY <1>7, CallStays
<1>9. QED
  BY <1>3, <1>8, GoesOnQuietly

LEMMA SameNames ==
  ASSUME caches' = caches
  PROVE  \A d : Names(d)' = Names(d)
BY DEF Names

LEMMA ExistsKeeps ==
  ASSUME UrlInv, NEW p \in Tasks, NEW op, op # "copenfile", CacheExists(p, op)
  PROVE  UrlInv'
<1>1. stack[p] # <<>> /\ Top(p).op = op
  BY AtCall DEF CacheExists
<1>2. (\A d : Names(d)' = Names(d)) /\ UNCHANGED <<wfile, loose>>
  BY SameNames DEF CacheExists, Rests, StaysAs
<1>3. CASE Goto(p, 1)
  BY <1>1, <1>2, <1>3, OthersGoOn
<1>4. CASE \E r : Returns(p, r)
  BY <1>1, <1>2, <1>4, EndsQuietly
<1>5. QED
  BY <1>3, <1>4 DEF CacheExists, Throws

LEMMA PathKeeps ==
  ASSUME UrlInv, NEW p \in Tasks, NEW op, op # "copenfile", OpenPath(p, op)
  PROVE  UrlInv'
<1>1. CASE CacheExists(p, op)
  BY <1>1, ExistsKeeps
<1>2. CASE At(p, op, 1) /\ FindURLForPath(p, 2) /\ Rests
  <2>1. stack[p] # <<>> /\ Top(p).op = op
    BY <1>2, AtCall
  <2>2. QED
    BY <1>2, <2>1, LooksUp DEF Rests, StaysAs
<1>3. CASE At(p, op, 2) /\ CacheOpened(Cache(p)) /\ Rests /\ \E r : Returns(p, r)
  <2>1. stack[p] # <<>>
    BY <1>3, AtCall
  <2>2. \A d : Names(d)' = Names(d)
    BY <1>3, OpenedKeepsNames
  <2>3. UNCHANGED <<wfile, loose>>
    BY <1>3 DEF Rests, StaysAs
  <2>4. QED
    BY <1>3, <2>1, <2>2, <2>3, EndsQuietly
<1>4. QED
  BY <1>1, <1>2, <1>3 DEF OpenPath, ListEntriesAt

LEMMA ReadDirKeeps ==
  ASSUME UrlInv, NEW p \in Tasks, ReadDir(p)
  PROVE  UrlInv'
<1>1. CASE CacheExists(p, "creaddir")
  BY <1>1, ExistsKeeps
<1>2. CASE At(p, "creaddir", 1) /\ CacheOpened(Cache(p)) /\ Returns(p, Ok) /\ Rests
  <2>1. stack[p] # <<>>
    BY <1>2, AtCall
  <2>2. \A d : Names(d)' = Names(d)
    BY <1>2, OpenedKeepsNames
  <2>3. UNCHANGED <<wfile, loose>>
    BY <1>2 DEF Rests, StaysAs
  <2>4. QED
    BY <1>2, <2>1, <2>2, <2>3, EndsQuietly
<1>3. QED
  BY <1>1, <1>2 DEF ReadDir

LEMMA OpenFindKeeps ==
  ASSUME UrlInv, NEW p \in Tasks, OpenFind(p)
  PROVE  UrlInv'
<1>1. stack[p] # <<>> /\ UNCHANGED <<wfile, loose>>
  BY AtCall DEF OpenFind, Rests, StaysAs
<1>2. CASE FindURLForPath(p, 1)
  BY <1>1, <1>2, LooksUp
<1>3. CASE Throws(p, "invalid") /\ UNCHANGED caches
  BY <1>1, <1>3, SameNames, EndsQuietly DEF Throws
<1>4. QED
  BY <1>2, <1>3 DEF OpenFind

LEMMA MayOpenKeepsNames ==
  ASSUME NEW p, MayOpen(p)
  PROVE  \A d : Names(d)' = Names(d)
BY SameNames, OpenedKeepsNames DEF MayOpen

\* A look-up that fails finds nothing.  If that misses what the name had at
\* first, and the device would not make that itself, the name is loose.
LEMMA OpenMissesKeeps ==
  ASSUME UrlInv, NEW p \in Tasks, OpenMisses(p)
  PROVE  UrlInv'
<1>1. PICK f : f = Top(p) /\ IsCall(f) /\ stack[p] # <<>> /\ f.op = "copenfile" /\ f.pc = 0
  BY AtCall DEF OpenMisses
<1>2. PICK g : g = [f EXCEPT !.m = <<>>, !.pc = 1]
  OBVIOUS
<1>3. IsFrame(f)
  BY <1>1 DEF IsCall
<1>4. IsFrame(g)
  BY <1>2, <1>3, FrameChanges
<1>5. g.op = f.op /\ g.n = f.n /\ g.h = f.h /\ g.pc = 1 /\ g.m = <<>>
  BY <1>2, <1>3 DEF IsFrame
<1>6. loose \subseteq loose' /\ wfile' = wfile /\ \A d : Names(d)' = Names(d)
  BY MayOpenKeepsNames DEF OpenMisses, StaysAs
<1>7. f.n \in loose' \/ First(f.n[1], Tail(f.n)) \subseteq {PathToUrl(Tail(f.n))}
  <2>1. CASE Found(p) \subseteq {PathToUrl(Path(p))}
    <3>1. SUFFICES ASSUME f.n \notin loose, NEW u \in First(f.n[1], Tail(f.n)) PROVE u = PathToUrl(Tail(f.n))
      BY <1>6
    <3>2. u \in FirstNames(f.n[1]) /\ UrlToPath(u) = Tail(f.n)
      BY DEF First
    <3>3. f.n[1] \in DOMAIN CachesThere
      BY <3>2 DEF FirstNames
    <3>4. f.n = <<f.n[1]>> \o Tail(f.n)
      BY <1>1, NameParts DEF IsCall, OnWhat
    <3>5. ~Gone(f.n[1], UrlToPath(u))
      BY <3>1, <3>2, <3>4 DEF Gone
    <3>6. u \in Names(f.n[1])
      BY <3>2, <3>3, <3>5 DEF UrlInv, FirstStay
    <3>7. u \in Found(p) /\ Path(p) = Tail(f.n)
      BY <1>1, <3>2, <3>6 DEF Found, Cache, Path
    <3>8. QED
      BY <2>1, <3>7
  <2>2. CASE ~(Found(p) \subseteq {PathToUrl(Path(p))})
    BY <2>2, <1>1 DEF OpenMisses
  <2>3. QED
    BY <2>1, <2>2
<1>8. IsCall(g)'
  <2>1. OnWhat(g)'
    BY <1>1, <1>5, <1>6 DEF IsCall, OnWhat
  <2>2. FrameAllowed(g)'
    <3>1. g.n \in loose' \/ First(g.n[1], Tail(g.n)) \subseteq {PathToUrl(Tail(g.n))}
      BY <1>5, <1>7
    <3>2. QED
      BY <1>5, <3>1 DEF FrameAllowed, FoundNone
  <2>3. QED
    BY <1>4, <2>1, <2>2 DEF IsCall, IsFrame
<1>9. Becomes(p, g)
  BY <1>1, <1>2 DEF OpenMisses
<1>10. stack' = [stack EXCEPT ![p] = <<g>>]
  BY <1>1, <1>9, CallSteps DEF UrlInv
<1>11. CallsAllowed'
  BY <1>6, <1>8, <1>10, CallGoesOn DEF UrlInv
<1>12. NamesAllowed' /\ FirstStay'
  BY <1>6, NamesStep DEF UrlInv
<1>13. QED
  BY <1>6, <1>11, <1>12, FilesStay DEF UrlInv

\* What is loaded does not matter: the URL that was found stays, and a name
\* that has none gets the one that the device makes.
LEMMA OpenLoadKeeps ==
  ASSUME UrlInv, NEW p \in Tasks, OpenLoad(p)
  PROVE  UrlInv'
<1>1. PICK f : f = Top(p) /\ IsCall(f) /\ stack[p] # <<>> /\ f.op = "copenfile" /\ f.pc = 1
  BY AtCall DEF OpenLoad
<1>2. UNCHANGED <<wfile, loose>>
  BY DEF OpenLoad, Rests, StaysAs
<1>3. IsFrame(f)
  BY <1>1 DEF IsCall
<1>4. CASE Throws(p, "exist") /\ UNCHANGED caches
  BY <1>1, <1>2, <1>4, SameNames, EndsQuietly DEF Throws
<1>5. CASE f.m = <<>> /\ Becomes(p, [f EXCEPT !.pc = 2, !.m = <<PathToUrl(Path(p)).scheme>>]) /\ UNCHANGED caches
  <2>1. PICK s : s = PathToUrl(Path(p)).scheme
    OBVIOUS
  <2>2. PICK g : g = [f EXCEPT !.pc = 2, !.m = <<s>>]
    OBVIOUS
  <2>3. Becomes(p, g)
    BY <1>5, <2>1, <2>2
  <2>4. IsFrame(g)
    BY <1>3, <2>2, FrameChanges
  <2>5. g.op = f.op /\ g.n = f.n /\ g.h = f.h /\ g.pc = 2 /\ g.m = <<s>>
    BY <1>3, <2>2 DEF IsFrame
  <2>6. f.n \in loose \/ First(f.n[1], Tail(f.n)) \subseteq {PathToUrl(Tail(f.n))}
    BY <1>1, <1>5 DEF IsCall, FrameAllowed, FoundNone, FoundOne
  <2>7. Url(s, Tail(f.n)) = PathToUrl(Tail(f.n))
    BY <2>1, <1>1 DEF Path, PathToUrl, Url
  <2>8. f.n \in loose \/ FoundOne(g)
    <3>1. <<s>> # <<>> /\ <<s>>[1] = s
      OBVIOUS
    <3>2. First(f.n[1], Tail(f.n)) \subseteq {PathToUrl(Tail(f.n))} => Url(s, Tail(f.n)) \in Allowed(f.n[1], Tail(f.n))
      BY <2>7 DEF Allowed
    <3>3. QED
      BY <2>5, <2>6, <3>1, <3>2 DEF FoundOne
  <2>9. IsCall(g)
    BY <1>1, <2>4, <2>5, <2>8 DEF IsCall, OnWhat, FrameAllowed
  <2>10. IsCall(g)'
    BY <2>9, <1>2, CallStays
  <2>11. QED
    BY <2>3, <2>10, <1>1, <1>2, <1>5, SameNames, GoesOnQuietly
<1>6. ASSUME NEW g, Becomes(p, g), IsFrame(g), g.op = f.op, g.n = f.n, g.h = f.h, g.m = f.m, g.pc = 2, f.m # <<>>,
             \A d : Names(d)' = Names(d)
      PROVE  UrlInv'
  <2>1. f.n \in loose \/ FoundOne(g)
    BY <1>1, <1>6 DEF IsCall, FrameAllowed, FoundNone, FoundOne
  <2>2. IsCall(g)
    BY <1>1, <1>6, <2>1 DEF IsCall, OnWhat, FrameAllowed
  <2>3. IsCall(g)'
    BY <2>2, <1>2, CallStays
  <2>4. QED
    BY <2>3, <1>1, <1>2, <1>6, GoesOnQuietly
<1>7. CASE f.m # <<>> /\ Goto(p, 2) /\ UNCHANGED caches
  <2>1. PICK g : g = [f EXCEPT !.pc = 2]
    OBVIOUS
  <2>2. IsFrame(g)
    BY <1>3, <2>1, FrameChanges
  <2>3. g.op = f.op /\ g.n = f.n /\ g.h = f.h /\ g.pc = 2 /\ g.m = f.m
    BY <1>3, <2>1 DEF IsFrame
  <2>4. Becomes(p, g)
    BY <1>1, <1>7, <2>1 DEF Goto
  <2>5. QED
    BY <2>2, <2>3, <2>4, <1>6, <1>7, SameNames
<1>8. ASSUME f.m # <<>>, CacheOpened(Cache(p)), NEW cells, Becomes(p, [f EXCEPT !.pc = 2, !.cells = cells])
      PROVE  UrlInv'
  <2>1. PICK g : g = [f EXCEPT !.pc = 2, !.cells = cells]
    OBVIOUS
  <2>2. IsFrame(g)
    BY <1>3, <2>1, FrameChanges
  <2>3. g.op = f.op /\ g.n = f.n /\ g.h = f.h /\ g.pc = 2 /\ g.m = f.m
    BY <1>3, <2>1 DEF IsFrame
  <2>4. Becomes(p, g)
    BY <1>8, <2>1
  <2>5. QED
    BY <2>2, <2>3, <2>4, <1>6, <1>8, OpenedKeepsNames
<1>9. QED
  <2>1. CASE "excl" \in f.flags /\ f.m # <<>>
    BY <2>1, <1>1, <1>4 DEF OpenLoad
  <2>2. CASE f.m = <<>>
    BY <2>2, <1>1, <1>5 DEF OpenLoad
  <2>3. CASE ~("excl" \in f.flags /\ f.m # <<>>) /\ f.m # <<>> /\ "trunc" \in f.flags
    BY <2>3, <1>1, <1>7 DEF OpenLoad
  <2>4. CASE ~("excl" \in f.flags /\ f.m # <<>>) /\ f.m # <<>> /\ "trunc" \notin f.flags
    BY <2>4, <1>1, <1>8 DEF OpenLoad
  <2>5. QED
    BY <2>1, <2>2, <2>3, <2>4

LEMMA LoadFailsKeeps ==
  ASSUME UrlInv, NEW p \in Tasks, LoadFails(p)
  PROVE  UrlInv'
<1>1. PICK f : f = Top(p) /\ IsCall(f) /\ stack[p] # <<>> /\ f.op = "copenfile" /\ f.pc = 1 /\ f.m # <<>>
  BY AtCall DEF LoadFails
<1>2. UNCHANGED <<wfile, loose>> /\ \A d : Names(d)' = Names(d)
  BY MayOpenKeepsNames DEF LoadFails, StaysAs
<1>3. PICK g : g = [f EXCEPT !.pc = 2]
  OBVIOUS
<1>4. IsFrame(f)
  BY <1>1 DEF IsCall
<1>5. IsFrame(g)
  BY <1>3, <1>4, FrameChanges
<1>6. g.op = f.op /\ g.n = f.n /\ g.h = f.h /\ g.pc = 2 /\ g.m = f.m
  BY <1>3, <1>4 DEF IsFrame
<1>7. Becomes(p, g)
  BY <1>1, <1>3 DEF LoadFails, Goto
<1>8. f.n \in loose \/ FoundOne(g)
  BY <1>1, <1>6 DEF IsCall, FrameAllowed, FoundNone, FoundOne
<1>9. IsCall(g)
  BY <1>1, <1>5, <1>6, <1>8 DEF IsCall, OnWhat, FrameAllowed
<1>10. IsCall(g)'
  BY <1>2, <1>9, CallStays
<1>11. QED
  BY <1>1, <1>2, <1>7, <1>10, GoesOnQuietly

\* A call that says that it has failed changes nothing but that it may have
\* made the cache.
LEMMA CallFailsKeeps ==
  ASSUME UrlInv, NEW p \in Tasks, CallFails(p)
  PROVE  UrlInv'
<1>1. stack[p] # <<>> /\ UNCHANGED <<wfile, loose>>
  BY DEF CallFails, StaysAs
<1>2. \A d : Names(d)' = Names(d)
  BY MayOpenKeepsNames, SameNames DEF CallFails
<1>3. \E r : Returns(p, r)
  BY DEF CallFails, Throws
<1>4. QED
  BY <1>1, <1>2, <1>3, EndsQuietly

LEMMA AppendParts ==
  ASSUME NEW S, NEW w \in Seq(S), NEW x
  PROVE  /\ Append(w, x) \in Seq(S \cup {x})
         /\ DOMAIN w \subseteq DOMAIN Append(w, x)
         /\ \A k \in DOMAIN Append(w, x) : (k \in DOMAIN w /\ Append(w, x)[k] = w[k]) \/ Append(w, x)[k] = x
<1>1. w \in Seq(S \cup {x}) /\ x \in S \cup {x}
  OBVIOUS
<1>2. QED
  BY <1>1

\* An entry that is put is one that its name may have.
LEMMA PutKeepsNames ==
  ASSUME UrlInv, NEW c, NEW u, NEW cells, Put(c, u, cells), loose' = loose,
         Gone(c, UrlToPath(u)) \/ u \in Allowed(c, UrlToPath(u))
  PROVE  NamesAllowed' /\ FirstStay'
<1>1. \A d : Names(d)' = IF d = c THEN Names(c) \cup {u} ELSE Names(d)
  BY PutAddsName
<1>2. ASSUME NEW d, NEW v \in Names(d)'
      PROVE  v \in Names(d) \/ Gone(d, UrlToPath(v))' \/ v \in Allowed(d, UrlToPath(v))
  <2>1. v \in Names(d) \/ (d = c /\ v = u)
    BY <1>1, <1>2
  <2>2. QED
    BY <2>1 DEF Gone
<1>3. \A d : \A v \in Names(d) : v \in Names(d)' \/ Gone(d, UrlToPath(v))'
  BY <1>1
<1>4. QED
  BY <1>2, <1>3, NamesStep DEF UrlInv

LEMMA OpenPutKeeps ==
  ASSUME UrlInv, NEW p \in Tasks, OpenPut(p)
  PROVE  UrlInv'
<1>1. PICK f : f = Top(p) /\ IsCall(f) /\ stack[p] # <<>> /\ f.op = "copenfile" /\ f.pc = 2
  BY AtCall DEF OpenPut
<1>2. CASE Throws(p, "other") /\ MayOpen(p) /\ UNCHANGED <<wfile, loose>>
  BY <1>1, <1>2, MayOpenKeepsNames, EndsQuietly DEF Throws
<1>3. ASSUME Put(Cache(p), UrlOf(p), f.cells), NEW data, NEW ap,
             wfile' = Append(wfile, [cache |-> Cache(p), url |-> UrlOf(p), data |-> data, off |-> 0, dirty |-> FALSE, append |-> ap]),
             NEW r, Returns(p, r), loose' = loose
      PROVE  UrlInv'
  <2>1. PICK c : c = f.n[1]
    OBVIOUS
  <2>2. PICK u : u = UrlOf(p)
    OBVIOUS
  <2>3. c = Cache(p) /\ u = Url(f.m[1], Tail(f.n))
    BY <1>1, <2>1, <2>2 DEF Cache, UrlOf, Path
  <2>4. UrlToPath(u) = Tail(f.n)
    BY <2>3 DEF UrlToPath, Url
  <2>5. f.n = <<c>> \o Tail(f.n)
    BY <1>1, <2>1, NameParts DEF IsCall, OnWhat
  <2>6. f.n \in loose \/ u \in Allowed(c, Tail(f.n))
    BY <1>1, <2>1, <2>3 DEF IsCall, FrameAllowed, FoundNone, FoundOne
  <2>7. Gone(c, UrlToPath(u)) \/ u \in Allowed(c, UrlToPath(u))
    BY <2>4, <2>5, <2>6 DEF Gone
  <2>8. NamesAllowed' /\ FirstStay'
    BY <1>3, <2>2, <2>3, <2>7, PutKeepsNames
  <2>9. PICK w : w = [cache |-> c, url |-> u, data |-> data, off |-> 0, dirty |-> FALSE, append |-> ap]
    OBVIOUS
  <2>10. wfile' = Append(wfile, w)
    BY <1>3, <2>2, <2>3, <2>9
  <2>11. FileAllowed(w)
    BY <2>7, <2>9 DEF FileAllowed
  <2>12. ASSUME NEW v, FileAllowed(v) PROVE FileAllowed(v)'
    BY <2>12, <1>3 DEF FileAllowed, Gone, Allowed, First, FirstNames, PathToUrl, UrlToPath, Url
  <2>13. PICK S : wfile \in Seq(S)
    BY DEF UrlInv, FilesAllowed
  <2>14. /\ wfile' \in Seq(S \cup {w})
         /\ DOMAIN wfile \subseteq DOMAIN wfile'
         /\ \A k \in DOMAIN wfile' : (k \in DOMAIN wfile /\ wfile'[k] = wfile[k]) \/ wfile'[k] = w
    BY <2>10, <2>13, AppendParts
  <2>15. FilesAllowed'
    <3>1. \E T : wfile' \in Seq(T)
      BY <2>14
    <3>2. ASSUME NEW k \in DOMAIN wfile' PROVE FileAllowed(wfile[k])'
      <4>1. PICK v : v = wfile'[k]
        OBVIOUS
      <4>2. FileAllowed(v)
        BY <4>1, <2>11, <2>14 DEF UrlInv, FilesAllowed
      <4>3. FileAllowed(v)'
        BY <4>2, <2>12
      <4>4. QED
        BY <4>1, <4>3 DEF FileAllowed
    <3>3. QED
      BY <3>1, <3>2 DEF FilesAllowed
  <2>16. CallsAllowed'
    <3>1. stack' = [stack EXCEPT ![p] = <<>>]
      BY <1>1, <1>3, CallSteps DEF UrlInv
    <3>2. QED
      BY <3>1, <1>3, <2>14, CallEnds DEF UrlInv
  <2>17. QED
    BY <2>8, <2>15, <2>16 DEF UrlInv
<1>4. QED
  BY <1>1, <1>2, <1>3 DEF OpenPut, Opens

\* Removing takes names, and says so.
LEMMA RemoveKeeps ==
  ASSUME UrlInv, NEW p \in Tasks, RemoveEntry(p)
  PROVE  UrlInv'
<1>1. PICK f : f = Top(p) /\ IsCall(f) /\ stack[p] # <<>> /\ f.op = "cremove"
  BY AtCall DEF RemoveEntry
<1>2. CASE FindURLForPath(p, 1) /\ Rests
  BY <1>1, <1>2, LooksUp DEF Rests, StaysAs
<1>3. ASSUME loose \subseteq loose', NamesAllowed', FirstStay', wfile' = wfile, NEW r, Returns(p, r)
      PROVE  UrlInv'
  <2>1. stack' = [stack EXCEPT ![p] = <<>>]
    BY <1>1, <1>3, CallSteps DEF UrlInv
  <2>2. CallsAllowed'
    BY <2>1, <1>3, CallEnds DEF UrlInv
  <2>3. QED
    BY <2>2, <1>3, FilesStay DEF UrlInv
<1>4. PICK c : c = Cache(p) /\ c = f.n[1]
  BY <1>1 DEF Cache
<1>5. CASE /\ caches' = [d \in DOMAIN caches \ {c} |-> caches[d]]
           /\ loose' = loose \cup {<<c>> \o UrlToPath(u) : u \in Names(c)}
           /\ wfile' = wfile
           /\ \E r : Returns(p, r)
  <2>1. loose \subseteq loose'
    BY <1>5
  <2>2. ASSUME NEW d, NEW u \in Names(d)' PROVE u \in Names(d)
    BY <2>2, <1>5 DEF Names
  <2>3. ASSUME NEW d, NEW u \in Names(d) PROVE u \in Names(d)' \/ Gone(d, UrlToPath(u))'
    <3>1. CASE d = c
      BY <3>1, <1>5, <2>3 DEF Gone
    <3>2. CASE d # c
      BY <3>2, <1>5, <2>3 DEF Names
    <3>3. QED
      BY <3>1, <3>2
  <2>4. NamesAllowed' /\ FirstStay'
    BY <2>1, <2>2, <2>3, NamesStep DEF UrlInv
  <2>5. QED
    BY <2>1, <2>4, <1>3, <1>5
<1>6. CASE UNCHANGED <<caches, loose, wfile>> /\ \E r : Returns(p, r)
  BY <1>1, <1>6, SameNames, EndsQuietly
<1>7. CASE /\ caches' = PutIn(c, [u \in Names(c) \ {UrlOf(p)} |-> caches[c][u]])
           /\ loose' = loose \cup {f.n}
           /\ wfile' = wfile
           /\ \E r : Returns(p, r)
  <2>1. loose \subseteq loose'
    BY <1>7
  <2>2. PICK v : v = UrlOf(p)
    OBVIOUS
  <2>a. UrlToPath(v) = Tail(f.n)
    BY <1>1, <2>2 DEF UrlOf, Url, UrlToPath, Path
  <2>3. \A d : Names(d)' = IF d = c THEN Names(c) \ {v} ELSE Names(d)
    BY <1>7, <2>2 DEF Names, PutIn
  <2>4. f.n = <<c>> \o Tail(f.n)
    BY <1>1, <1>4, NameParts DEF IsCall, OnWhat
  <2>5. Gone(c, UrlToPath(v))'
    BY <1>7, <2>a, <2>4 DEF Gone
  <2>6. ASSUME NEW d, NEW u \in Names(d) PROVE u \in Names(d)' \/ Gone(d, UrlToPath(u))'
    BY <2>6, <2>3, <2>5
  <2>7. \A d : \A u \in Names(d)' : u \in Names(d)
    BY <2>3
  <2>8. NamesAllowed' /\ FirstStay'
    BY <2>1, <2>6, <2>7, NamesStep DEF UrlInv
  <2>9. QED
    BY <2>1, <2>8, <1>3, <1>7
<1>8. QED
  BY <1>1, <1>2, <1>4, <1>5, <1>6, <1>7 DEF RemoveEntry, Throws

-----------------------------------------------------------------------------
(* Open files.                                                             *)

\* A file that is read, written or sought in keeps its URL.
LEMMA FileKeeps ==
  ASSUME UrlInv, NEW p \in Tasks, stack[p] # <<>>, NEW r, Returns(p, r), NEW h, NEW w,
         wfile' = [wfile EXCEPT ![h] = w], h \in DOMAIN wfile, FileAllowed(w), UNCHANGED <<caches, loose>>
  PROVE  UrlInv'
<1>1. PICK S : wfile \in Seq(S)
  BY DEF UrlInv, FilesAllowed
<1>2. DOMAIN wfile' = DOMAIN wfile /\ wfile' \in Seq(S \cup {w})
  <2>1. wfile \in Seq(S \cup {w}) /\ w \in S \cup {w}
    BY <1>1
  <2>2. h \in 1..Len(wfile)
    BY <1>1
  <2>3. wfile' \in Seq(S \cup {w}) /\ Len(wfile') = Len(wfile)
    BY <2>1, <2>2, ExceptSeq
  <2>4. QED
    BY <2>1, <2>3
<1>3. ASSUME NEW v, FileAllowed(v) PROVE FileAllowed(v)'
  BY <1>3 DEF FileAllowed, Gone, Allowed, First, FirstNames, PathToUrl, UrlToPath, Url
<1>4. ASSUME NEW k \in DOMAIN wfile' PROVE FileAllowed(wfile[k])'
  <2>1. PICK v : v = wfile'[k]
    OBVIOUS
  <2>2. v = IF k = h THEN w ELSE wfile[k]
    BY <1>1, <1>2, <2>1
  <2>3. FileAllowed(v)
    BY <1>2, <2>2 DEF UrlInv, FilesAllowed
  <2>4. FileAllowed(v)'
    BY <2>3, <1>3
  <2>5. QED
    BY <2>1, <2>4 DEF FileAllowed
<1>5. FilesAllowed'
  <2>1. \E T : wfile' \in Seq(T)
    BY <1>2
  <2>2. QED
    BY <2>1, <1>4 DEF FilesAllowed
<1>6. stack' = [stack EXCEPT ![p] = <<>>]
  BY CallSteps DEF UrlInv
<1>7. CallsAllowed'
  BY <1>2, <1>6, CallEnds DEF UrlInv
<1>8. NamesAllowed' /\ FirstStay'
  BY SameNames, NamesKept DEF UrlInv
<1>9. QED
  BY <1>5, <1>7, <1>8 DEF UrlInv

\* What is changed of a file is not its URL.
LEMMA FileChanges ==
  ASSUME NEW w, FileAllowed(w), NEW data, NEW off, NEW dt
  PROVE  /\ FileAllowed([w EXCEPT !.off = off])
         /\ FileAllowed([w EXCEPT !.data = data, !.off = off, !.dirty = dt])
<1>1. ASSUME NEW v, FileAllowed(v), NEW x PROVE FileAllowed([v EXCEPT !.off = x])
  <2>1. PICK g : g = [v EXCEPT !.off = x]
    OBVIOUS
  <2>2. g = [cache |-> g.cache, url |-> g.url, data |-> g.data, off |-> g.off, dirty |-> g.dirty, append |-> g.append]
    BY <1>1, <2>1, SMTT(60) DEF FileAllowed
  <2>3. g.cache = v.cache /\ g.url = v.url
    BY <1>1, <2>1 DEF FileAllowed
  <2>4. QED
    BY <1>1, <2>1, <2>2, <2>3 DEF FileAllowed
<1>2. ASSUME NEW v, FileAllowed(v), NEW x PROVE FileAllowed([v EXCEPT !.data = x])
  <2>1. PICK g : g = [v EXCEPT !.data = x]
    OBVIOUS
  <2>2. g = [cache |-> g.cache, url |-> g.url, data |-> g.data, off |-> g.off, dirty |-> g.dirty, append |-> g.append]
    BY <1>2, <2>1, SMTT(60) DEF FileAllowed
  <2>3. g.cache = v.cache /\ g.url = v.url
    BY <1>2, <2>1 DEF FileAllowed
  <2>4. QED
    BY <1>2, <2>1, <2>2, <2>3 DEF FileAllowed
<1>3. ASSUME NEW v, FileAllowed(v), NEW x PROVE FileAllowed([v EXCEPT !.dirty = x])
  <2>1. PICK g : g = [v EXCEPT !.dirty = x]
    OBVIOUS
  <2>2. g = [cache |-> g.cache, url |-> g.url, data |-> g.data, off |-> g.off, dirty |-> g.dirty, append |-> g.append]
    BY <1>3, <2>1, SMTT(60) DEF FileAllowed
  <2>3. g.cache = v.cache /\ g.url = v.url
    BY <1>3, <2>1 DEF FileAllowed
  <2>4. QED
    BY <1>3, <2>1, <2>2, <2>3 DEF FileAllowed
<1>4. QED
  BY <1>1, <1>2, <1>3

LEMMA FileCallParts ==
  ASSUME UrlInv, NEW p \in Tasks, NEW op \in FileCalls, At(p, op, 0)
  PROVE  stack[p] # <<>> /\ Top(p).h \in DOMAIN wfile /\ FileAllowed(wfile[Top(p).h])
<1>1. stack[p] # <<>> /\ IsCall(Top(p)) /\ Top(p).op = op
  BY AtCall
<1>2. Top(p).h \in DOMAIN wfile
  BY <1>1 DEF IsCall, OnWhat
<1>3. QED
  BY <1>1, <1>2 DEF UrlInv, FilesAllowed

LEMMA WReadKeeps ==
  ASSUME UrlInv, NEW p \in Tasks, WRead(p)
  PROVE  UrlInv'
<1>1. stack[p] # <<>> /\ Top(p).h \in DOMAIN wfile /\ FileAllowed(wfile[Top(p).h])
  <2>1. At(p, "cread", 0) /\ "cread" \in FileCalls
    BY DEF WRead, FileCalls
  <2>2. QED
    BY <2>1, FileCallParts
<1>2. UNCHANGED <<caches, loose>>
  BY DEF WRead, NamesStay
<1>3. CASE Throws(p, "closed") /\ UNCHANGED wfile
  BY <1>1, <1>2, <1>3, SameNames, EndsQuietly DEF Throws
<1>4. CASE wfile' = [wfile EXCEPT ![Top(p).h].off = Len(wfile[Top(p).h].data)] /\ Returns(p, Ok)
  <2>1. PICK h : h = Top(p).h
    OBVIOUS
  <2>2. PICK v : v = wfile[h]
    OBVIOUS
  <2>3. PICK w : w = [v EXCEPT !.off = Len(v.data)]
    OBVIOUS
  <2>4. wfile' = [wfile EXCEPT ![h] = w]
    BY <1>4, <2>1, <2>2, <2>3
  <2>5. FileAllowed(w)
    BY <1>1, <2>1, <2>2, <2>3, FileChanges
  <2>6. QED
    BY <1>1, <1>2, <1>4, <2>1, <2>4, <2>5, FileKeeps
<1>5. QED
  BY <1>3, <1>4 DEF WRead

LEMMA WSeekKeeps ==
  ASSUME UrlInv, NEW p \in Tasks, WSeek(p)
  PROVE  UrlInv'
<1>1. stack[p] # <<>> /\ Top(p).h \in DOMAIN wfile /\ FileAllowed(wfile[Top(p).h])
  <2>1. At(p, "cseek", 0) /\ "cseek" \in FileCalls
    BY DEF WSeek, FileCalls
  <2>2. QED
    BY <2>1, FileCallParts
<1>2. UNCHANGED <<caches, loose>>
  BY DEF WSeek, NamesStay
<1>3. wfile' = [wfile EXCEPT ![Top(p).h].off = Top(p).size] /\ Returns(p, Ok)
  BY DEF WSeek
<1>4. PICK h : h = Top(p).h
  OBVIOUS
<1>5. PICK v : v = wfile[h]
  OBVIOUS
<1>6. PICK w : w = [v EXCEPT !.off = Top(p).size]
  OBVIOUS
<1>7. wfile' = [wfile EXCEPT ![h] = w]
  BY <1>3, <1>4, <1>5, <1>6
<1>8. FileAllowed(w)
  BY <1>1, <1>4, <1>5, <1>6, FileChanges
<1>9. QED
  BY <1>1, <1>2, <1>3, <1>4, <1>7, <1>8, FileKeeps

LEMMA WWriteKeeps ==
  ASSUME UrlInv, NEW p \in Tasks, WWrite(p)
  PROVE  UrlInv'
<1>1. stack[p] # <<>> /\ Top(p).h \in DOMAIN wfile /\ FileAllowed(wfile[Top(p).h])
  <2>1. At(p, "cwrite", 0) /\ "cwrite" \in FileCalls
    BY DEF WWrite, FileCalls
  <2>2. QED
    BY <2>1, FileCallParts
<1>2. UNCHANGED <<caches, loose>> /\ Returns(p, Ok)
  BY DEF WWrite, NamesStay
<1>3. PICK h : h = Top(p).h
  OBVIOUS
<1>4. \E data, off : wfile' = [wfile EXCEPT ![h].data = data, ![h].off = off, ![h].dirty = TRUE]
  BY <1>3 DEF WWrite
<1>5. PICK data, off : wfile' = [wfile EXCEPT ![h].data = data, ![h].off = off, ![h].dirty = TRUE]
  BY <1>4
<1>6. PICK v : v = wfile[h]
  OBVIOUS
<1>7. PICK w : w = [v EXCEPT !.data = data, !.off = off, !.dirty = TRUE]
  OBVIOUS
<1>8. wfile' = [wfile EXCEPT ![h] = w]
  BY <1>5, <1>6, <1>7
<1>9. FileAllowed(w)
  BY <1>1, <1>3, <1>6, <1>7, FileChanges
<1>10. QED
  BY <1>1, <1>2, <1>3, <1>8, <1>9, FileKeeps

\* What is written to is where the file was opened, so it may be put there.
LEMMA WCloseKeeps ==
  ASSUME UrlInv, NEW p \in Tasks, WClose(p)
  PROVE  UrlInv'
<1>1. stack[p] # <<>> /\ Top(p).h \in DOMAIN wfile /\ FileAllowed(wfile[Top(p).h])
  <2>1. At(p, "cclose", 0) /\ "cclose" \in FileCalls
    BY DEF WClose, FileCalls
  <2>2. QED
    BY <2>1, FileCallParts
<1>2. UNCHANGED <<wfile, loose>>
  BY DEF WClose
<1>3. ASSUME NEW r, Returns(p, r), UNCHANGED caches \/ CacheOpened(wfile[Top(p).h].cache) PROVE UrlInv'
  BY <1>1, <1>2, <1>3, SameNames, OpenedKeepsNames, EndsQuietly
<1>4. ASSUME NEW r, Returns(p, r), Put(wfile[Top(p).h].cache, wfile[Top(p).h].url, wfile[Top(p).h].data) PROVE UrlInv'
  <2>1. PICK w : w = wfile[Top(p).h]
    OBVIOUS
  <2>2. FileAllowed(w) /\ Put(w.cache, w.url, w.data)
    BY <1>1, <1>4, <2>1
  <2>3. Gone(w.cache, UrlToPath(w.url)) \/ w.url \in Allowed(w.cache, UrlToPath(w.url))
    BY <2>2 DEF FileAllowed
  <2>4. NamesAllowed' /\ FirstStay'
    BY <1>2, <2>2, <2>3, PutKeepsNames
  <2>5. stack' = [stack EXCEPT ![p] = <<>>]
    BY <1>1, <1>4, CallSteps DEF UrlInv
  <2>6. CallsAllowed'
    BY <1>2, <2>5, CallEnds DEF UrlInv
  <2>7. FilesAllowed'
    BY <1>2, FilesStay DEF UrlInv
  <2>8. QED
    BY <2>4, <2>6, <2>7 DEF UrlInv
<1>5. QED
  BY <1>3, <1>4 DEF WClose, Throws

-----------------------------------------------------------------------------
(* New calls, a page that is loaded again, and the theorem.                *)

LEMMA CalledKeeps ==
  ASSUME UrlInv, NEW p \in Tasks, CacheCalled(p)
  PROVE  UrlInv'
<1>1. UNCHANGED <<caches, wfile, loose>>
  BY DEF CacheCalled, cachevars
<1>2. ASSUME NEW g, stack' = [stack EXCEPT ![p] = <<g>>], IsCall(g) PROVE UrlInv'
  <2>1. IsCall(g)'
    BY <1>1, <1>2, CallStays
  <2>2. CallsAllowed'
    BY <1>1, <1>2, <2>1, CallGoesOn DEF UrlInv
  <2>3. QED
    BY <1>1, <2>2, SameNames, NamesKept, FilesStay DEF UrlInv
<1>3. CASE \E op \in NameCalls, n \in Seq(STRING) \ {<<>>}, flags \in SUBSET STRING :
              stack' = [stack EXCEPT ![p] = <<[Frame(op, n, <<>>) EXCEPT !.flags = flags]>>]
  <2>0. PICK op \in NameCalls, n \in Seq(STRING) \ {<<>>}, flags \in SUBSET STRING :
             stack' = [stack EXCEPT ![p] = <<[Frame(op, n, <<>>) EXCEPT !.flags = flags]>>]
    BY <1>3
  <2>1. PICK g : g = [Frame(op, n, <<>>) EXCEPT !.flags = flags]
    OBVIOUS
  <2>2. IsFrame(g) /\ g.op = op /\ g.n = n /\ g.pc = 0
    BY <2>1 DEF Frame, IsFrame
  <2>3. op \notin FileCalls
    BY <2>0 DEF NameCalls, FileCalls
  <2>4. IsCall(g)
    BY <2>2, <2>3 DEF IsCall, OnWhat, FrameAllowed
  <2>5. QED
    BY <1>2, <2>0, <2>1, <2>4
<1>4. CASE \E op \in FileCalls, h \in DOMAIN wfile, cells \in Seq(Nat), to \in Nat :
              stack' = [stack EXCEPT ![p] = <<[Frame(op, <<"file">>, <<>>) EXCEPT !.h = h, !.cells = cells, !.size = to]>>]
  <2>0. PICK op \in FileCalls, h \in DOMAIN wfile, cells \in Seq(Nat), to \in Nat :
             stack' = [stack EXCEPT ![p] = <<[Frame(op, <<"file">>, <<>>) EXCEPT !.h = h, !.cells = cells, !.size = to]>>]
    BY <1>4
  <2>1. PICK g : g = [Frame(op, <<"file">>, <<>>) EXCEPT !.h = h, !.cells = cells, !.size = to]
    OBVIOUS
  <2>2. IsFrame(g) /\ g.op = op /\ g.n = <<"file">> /\ g.pc = 0 /\ g.h = h
    BY <2>1 DEF Frame, IsFrame
  <2>3. <<"file">> \in Seq({"file"}) /\ <<"file">> # <<>>
    OBVIOUS
  <2>4. IsCall(g)
    BY <2>2, <2>3 DEF IsCall, OnWhat, FrameAllowed
  <2>5. QED
    BY <1>2, <2>0, <2>1, <2>4
<1>5. QED
  BY <1>3, <1>4 DEF CacheCalled

LEMMA CacheReloadKeeps ==
  ASSUME UrlInv, CacheReload
  PROVE  UrlInv'
<1>1. UNCHANGED <<caches, loose>> /\ wfile' = <<>> /\ stack' = [q \in Tasks |-> <<>>]
  BY DEF CacheReload, Restarts
<1>2. NamesAllowed' /\ FirstStay'
  BY <1>1, SameNames, NamesKept DEF UrlInv
<1>3. CallsAllowed'
  BY <1>1 DEF CallsAllowed
<1>4. FilesAllowed'
  <2>1. <<>> \in Seq({}) /\ DOMAIN <<>> = {}
    OBVIOUS
  <2>2. QED
    BY <1>1, <2>1 DEF FilesAllowed
<1>5. QED
  BY <1>2, <1>3, <1>4 DEF UrlInv

LEMMA UrlInvNext ==
  ASSUME UrlInv, [CacheNext]_<<cachevars, asyncvars>>
  PROVE  UrlInv'
<1>1. CASE UNCHANGED <<cachevars, asyncvars>>
  <2>1. UNCHANGED <<caches, wfile, loose, stack>>
    BY <1>1 DEF cachevars, asyncvars
  <2>2. NamesAllowed' /\ FirstStay' /\ FilesAllowed'
    BY <2>1, SameNames, NamesKept, FilesStay DEF UrlInv
  <2>3. ASSUME NEW f, IsCall(f) PROVE IsCall(f)'
    BY <2>1, <2>3, CallStays
  <2>4. CallsAllowed'
    BY <2>1, <2>3 DEF UrlInv, CallsAllowed
  <2>5. QED
    BY <2>2, <2>4 DEF UrlInv
<1>2. ASSUME NEW p \in Tasks, CacheStep(p) PROVE UrlInv'
  <2>1. CASE OpenRead(p) \/ StatPath(p)
    BY <2>1, PathKeeps DEF OpenRead, StatPath
  <2>2. QED
    BY <1>2, <2>1, ReadDirKeeps, OpenFindKeeps, OpenMissesKeeps, OpenLoadKeeps, LoadFailsKeeps, OpenPutKeeps, RemoveKeeps, CallFailsKeeps,
       WReadKeeps, WWriteKeeps, WSeekKeeps, WCloseKeeps DEF CacheStep
<1>3. QED
  BY <1>1, <1>2, CalledKeeps, CacheReloadKeeps DEF CacheNext

LEMMA UrlInvInit ==
  ASSUME AsyncInit, CacheInit
  PROVE  UrlInv
<1>1. caches = CachesThere /\ wfile = <<>> /\ stack = [q \in Tasks |-> <<>>]
  BY DEF AsyncInit, CacheInit
<1>2. \A c : Names(c) = FirstNames(c)
  BY <1>1 DEF Names, FirstNames
<1>3. FirstStay
  BY <1>2 DEF FirstStay
<1>4. NamesAllowed
  <2>1. ASSUME NEW c, NEW u \in Names(c) PROVE u \in Allowed(c, UrlToPath(u))
    BY <1>2, <2>1 DEF Allowed, First
  <2>2. QED
    BY <2>1 DEF NamesAllowed
<1>5. CallsAllowed
  BY <1>1 DEF CallsAllowed
<1>6. FilesAllowed
  <2>1. <<>> \in Seq({}) /\ DOMAIN <<>> = {}
    OBVIOUS
  <2>2. QED
    BY <1>1, <2>1 DEF FilesAllowed
<1>7. QED
  BY <1>3, <1>4, <1>5, <1>6 DEF UrlInv

LEMMA UrlInvOneURL ==
  ASSUME UrlInv
  PROVE  OnePathOneURL
<1>1. SUFFICES ASSUME NEW c \in DOMAIN caches, NEW u \in DOMAIN caches[c], NEW v \in DOMAIN caches[c],
                      u # v, UrlToPath(u) = UrlToPath(v), ~Gone(c, UrlToPath(u))
               PROVE  {u, v} \subseteq FirstNames(c)
  BY DEF OnePathOneURL, Gone
<1>2. u \in Names(c) /\ v \in Names(c)
  BY DEF Names
<1>3. PICK path : path = UrlToPath(u)
  OBVIOUS
<1>4. u \in Allowed(c, path) /\ v \in Allowed(c, path)
  BY <1>1, <1>2, <1>3 DEF UrlInv, NamesAllowed
<1>5. First(c, path) # {}
  BY <1>1, <1>4 DEF Allowed
<1>6. QED
  BY <1>4, <1>5 DEF Allowed, First

(* Any number of tasks that look for names, write, close and remove at the *)
(* same time in any caches leave each name one URL, until it is removed or *)
(* OpenFile misses what is there because its look-up failed.               *)
(* (findURLForPath, OpenFile and Remove, caches.go.)                       *)
THEOREM OneURLStays == CacheSpec => []OnePathOneURL
<1>1. AsyncInit /\ CacheInit => UrlInv
  BY UrlInvInit
<1>2. UrlInv /\ [CacheNext]_<<cachevars, asyncvars>> => UrlInv'
  BY UrlInvNext
<1>3. UrlInv => OnePathOneURL
  BY UrlInvOneURL
<1>4. QED
  BY <1>1, <1>2, <1>3, PTL DEF CacheSpec
=============================================================================
