---------------------------- MODULE DeviceProofs ----------------------------
(***************************************************************************)
(* Theorems about the devices: for any addresses, goroutines and bounds, a *)
(* network resource says of itself what is so, and every open socket is    *)
(* in one pair of hands; a vm shows the guest set last; for any data and   *)
(* both values of Block, a pipe is a pair of byte streams; and a terminal  *)
(* shows lines as lines, wherever the writes of its programs are cut.      *)
(***************************************************************************)
EXTENDS Net, VM, Pipe, Term, SequenceTheorems, FiniteSetTheorems, WellFoundedInduction, TLAPS

-----------------------------------------------------------------------------
(* Types.                                                                  *)

Conns(S) ==
  [state : {"idle", "bound", "connected", "listening", "closed"}, bindAddr : Local \cup {None},
   ln : S \cup {None}, conn : S \cup {None}, lastErr : BOOLEAN]

Sockets(S) == [addr : Local \cup {None}, open : BOOLEAN, queue : Seq(S)]

CallRecords(R, S) ==
  [op : {"none"}]
    \cup [op : {"dial"}, rid : R, addr : Local \cup {Far}]
    \cup [op : {"announce", "cleared"}, rid : R, addr : Local]
    \cup [op : {"dialled", "accepted"}, rid : R, conn : S]
    \cup [op : {"announced"}, rid : R, ln : S]
    \cup [op : {"hangup"}, takes : SUBSET S]
    \cup [op : {"listen"}, rid : R]
    \cup [op : {"accept", "ending"}, ln : S, got : S \cup {ErrClosed, None}, done : BOOLEAN]

NetTypeOK ==
  /\ NextID \in Nat /\ DOMAIN resources = 1 .. NextID
  /\ NextSid \in Nat \ {0} /\ DOMAIN sock = 1 .. NextSid - 1 /\ NextSid - 1 <= MaxSock
  /\ resources \in [DOMAIN resources -> Conns(DOMAIN sock)]
  /\ sock \in [DOMAIN sock -> Sockets(DOMAIN sock)]
  /\ at \in [Local -> DOMAIN sock \cup {None}]
  /\ call \in [Calls -> CallRecords(DOMAIN resources, DOMAIN sock)]
  /\ made \in Nat /\ dropped \subseteq DOMAIN sock

-----------------------------------------------------------------------------
\* A dial to an address reaches a listener of that address; only listeners
\* have a backlog, of connections, each once.
SockInv ==
  /\ \A a \in Local : at[a] # None => sock[at[a]].addr = a
  /\ \A s \in DOMAIN sock :
       /\ sock[s].addr = None => sock[s].queue = <<>>
       /\ \A i \in DOMAIN sock[s].queue : sock[sock[s].queue[i]].addr = None
       /\ \A i, j \in DOMAIN sock[s].queue : sock[s].queue[i] = sock[s].queue[j] => i = j

\* The sockets in the hands of a call
Hands(c) ==
  CASE c.op \in {"dialled", "accepted"} -> {c.conn}
    [] c.op = "announced" -> {c.ln}
    [] c.op = "hangup" -> c.takes
    [] c.op \in {"accept", "ending"} -> {c.got} \ {ErrClosed, None}
    [] OTHER -> {}

InRes(r, s) == r \in DOMAIN resources /\ s \in Held(resources[r])
InCall(g, s) == g \in Calls /\ s \in Hands(call[g])
InLog(l, s) == l \in DOMAIN sock /\ \E i \in DOMAIN sock[l].queue : sock[l].queue[i] = s

OneHolder(s) ==
  /\ (\E r : InRes(r, s)) \/ (\E g : InCall(g, s)) \/ (\E l : InLog(l, s))
  /\ \A r, q : InRes(r, s) /\ InRes(q, s) => r = q
  /\ \A g, h : InCall(g, s) /\ InCall(h, s) => g = h
  /\ \A l, m : InLog(l, s) /\ InLog(m, s) => l = m
  /\ \A r, g : ~(InRes(r, s) /\ InCall(g, s))
  /\ \A r, l : ~(InRes(r, s) /\ InLog(l, s))
  /\ \A g, l : ~(InCall(g, s) /\ InLog(l, s))

OwnInv == \A s \in DOMAIN sock : sock[s].open /\ s \notin dropped => OneHolder(s)

\* What StateTells says of one resource
Tells(c) ==
  /\ (c.state = "connected") = DataOpens(c)
  /\ (c.state = "listening") = ListenShown(c)
  /\ c.conn = None \/ c.ln = None

NetInv == NetTypeOK /\ SockInv /\ StateTells /\ OwnInv

-----------------------------------------------------------------------------
(* Calls.                                                                  *)

LEMMA CallFields ==
  ASSUME NEW R, NEW S, S \subseteq Nat \ {0}, NEW c \in CallRecords(R, S)
  PROVE  /\ c.op = "dial" => c.rid \in R /\ c.addr \in Local \cup {Far}
         /\ c.op \in {"announce", "cleared"} => c.rid \in R /\ c.addr \in Local
         /\ c.op \in {"dialled", "accepted"} => c.rid \in R /\ c.conn \in S
         /\ c.op = "announced" => c.rid \in R /\ c.ln \in S
         /\ c.op = "hangup" => c.takes \in SUBSET S
         /\ c.op = "listen" => c.rid \in R
         /\ c.op \in {"accept", "ending"} =>
              /\ c.ln \in S /\ c.got \in S \cup {ErrClosed, None} /\ c.done \in BOOLEAN
              /\ c = [op |-> c.op, ln |-> c.ln, got |-> c.got, done |-> c.done]
BY DEF CallRecords

LEMMA CallIs ==
  ASSUME NEW R, NEW S
  PROVE  /\ NoCall \in CallRecords(R, S)
         /\ \A r \in R :
              /\ \A a \in Local \cup {Far} : [op |-> "dial", rid |-> r, addr |-> a] \in CallRecords(R, S)
              /\ \A a \in Local, o \in {"announce", "cleared"} : [op |-> o, rid |-> r, addr |-> a] \in CallRecords(R, S)
              /\ \A s \in S, o \in {"dialled", "accepted"} : [op |-> o, rid |-> r, conn |-> s] \in CallRecords(R, S)
              /\ \A s \in S : [op |-> "announced", rid |-> r, ln |-> s] \in CallRecords(R, S)
              /\ [op |-> "listen", rid |-> r] \in CallRecords(R, S)
         /\ \A T \in SUBSET S : [op |-> "hangup", takes |-> T] \in CallRecords(R, S)
         /\ \A s \in S, x \in S \cup {ErrClosed, None}, d \in BOOLEAN, o \in {"accept", "ending"} :
              [op |-> o, ln |-> s, got |-> x, done |-> d] \in CallRecords(R, S)
BY DEF CallRecords, NoCall

LEMMA CallsGrow ==
  ASSUME NEW R, NEW S, NEW Q, NEW T, R \subseteq Q, S \subseteq T
  PROVE  CallRecords(R, S) \subseteq CallRecords(Q, T)
BY DEF CallRecords

LEMMA HandsAre ==
  ASSUME NEW R, NEW S, S \subseteq Nat \ {0}, NEW c \in CallRecords(R, S)
  PROVE  Hands(c) \subseteq S
BY CallFields DEF Hands

\* None is no socket, no address and no rid.
LEMMA NoneIsNothing == None \notin Nat /\ None \notin Local /\ Far \notin Local
BY NetAssumption DEF Local

-----------------------------------------------------------------------------
(* New resources and new sockets.                                          *)

LEMMA AddedIs ==
  ASSUME NEW f, NEW x, NEW n \in Nat, DOMAIN f = 1 .. n
  PROVE  /\ DOMAIN Added(f, x) = 1 .. n + 1 /\ Added(f, x)[n + 1] = x
         /\ \A i \in 1 .. n : Added(f, x)[i] = f[i]
         /\ Added(f, x) = [i \in 1 .. n + 1 |-> Added(f, x)[i]]
         /\ Cardinality(1 .. n) = n /\ Cardinality(1 .. n + 1) = n + 1
<1>1. Cardinality(1 .. n) = n /\ Cardinality(1 .. n + 1) = n + 1
  BY FS_Interval
<1>2. QED
  BY <1>1 DEF Added

LEMMA SocketsGrow ==
  ASSUME NEW S, NEW T, S \subseteq T
  PROVE  Sockets(S) \subseteq Sockets(T) /\ Conns(S) \subseteq Conns(T)
<1>1. Seq(S) \subseteq Seq(T)
  BY SeqMonotonic
<1>2. QED
  BY <1>1 DEF Sockets, Conns

-----------------------------------------------------------------------------
(* Steps that open no socket.                                              *)

HeldAt(r) == IF r \in DOMAIN resources THEN Held(resources[r]) ELSE {}

\* Sockets go between one resource and one call, or are closed or dropped.
LEMMA Moves ==
  ASSUME OwnInv, NEW g \in Calls, NEW r,
         \A q : q # r => HeldAt(q)' = HeldAt(q),
         \A h \in Calls \ {g} : call'[h] = call[h],
         DOMAIN sock' = DOMAIN sock, \A s \in DOMAIN sock : sock'[s].open => sock[s].open,
         \A s \in DOMAIN sock : sock'[s].open => \A l : InLog(l, s)' <=> InLog(l, s),
         dropped \subseteq dropped',
         \A s \in DOMAIN sock : sock'[s].open /\ s \notin dropped' =>
           /\ s \in HeldAt(r)' \cup Hands(call'[g]) <=> s \in HeldAt(r) \cup Hands(call[g])
           /\ s \notin HeldAt(r)' \cap Hands(call'[g])
  PROVE  OwnInv'
<1>1. \A s, q : (InRes(q, s) <=> s \in HeldAt(q)) /\ (InRes(q, s)' <=> s \in HeldAt(q)')
  BY DEF InRes, HeldAt
<1>2. \A s, h : h # g => (InCall(h, s)' <=> InCall(h, s))
  BY DEF InCall
<1>3. \A s : (InCall(g, s) <=> s \in Hands(call[g])) /\ (InCall(g, s)' <=> s \in Hands(call'[g]))
  BY DEF InCall
<1>4. ASSUME NEW s \in DOMAIN sock, sock'[s].open, s \notin dropped'
      PROVE  OneHolder(s)'
  <2>1. OneHolder(s)
    BY <1>4 DEF OwnInv
  <2>2. \A l : InLog(l, s)' <=> InLog(l, s)
    BY <1>4
  <2>3. \A q : q # r => (InRes(q, s)' <=> InRes(q, s))
    BY <1>1
  <2>4. /\ InRes(r, s)' \/ InCall(g, s)' <=> InRes(r, s) \/ InCall(g, s)
        /\ ~(InRes(r, s)' /\ InCall(g, s)')
    BY <1>1, <1>3, <1>4
  <2>5. QED
    BY <1>2, <2>1, <2>2, <2>3, <2>4 DEF OneHolder
<1>5. QED
  BY <1>4 DEF OwnInv

LEMMA TellsStep ==
  ASSUME StateTells, NEW r,
         \A q \in DOMAIN resources' : q # r => q \in DOMAIN resources /\ resources'[q] = resources[q],
         r \in DOMAIN resources' => Tells(resources'[r])
  PROVE  StateTells'
<1>1. \A q \in DOMAIN resources : Tells(resources[q])
  BY DEF StateTells, Tells
<1>2. \A q \in DOMAIN resources' : Tells(resources'[q])
  BY <1>1
<1>3. QED
  BY <1>2 DEF StateTells, Tells

\* A step of one call on one resource.
LEMMA CtlKeeps ==
  ASSUME NetInv, NEW g \in Calls, NEW r \in DOMAIN resources, NEW x \in Conns(DOMAIN sock),
         NEW c \in CallRecords(DOMAIN resources, DOMAIN sock), Tells(x),
         resources' = [resources EXCEPT ![r] = x], call' = [call EXCEPT ![g] = c],
         sock' = sock, at' \in [Local -> DOMAIN sock \cup {None}], \A a \in Local : at'[a] \in {at[a], None},
         made' \in Nat, dropped' \in SUBSET DOMAIN sock, dropped \subseteq dropped',
         \A s \in DOMAIN sock \ dropped' :
           /\ s \in Held(x) \cup Hands(c) <=> s \in Held(resources[r]) \cup Hands(call[g])
           /\ s \notin Held(x) \cap Hands(c)
  PROVE  NetInv'
<1>1. /\ resources \in [DOMAIN resources -> Conns(DOMAIN sock)]
      /\ call \in [Calls -> CallRecords(DOMAIN resources, DOMAIN sock)]
  BY DEF NetInv, NetTypeOK
<1>2. /\ DOMAIN resources' = DOMAIN resources /\ resources'[r] = x
      /\ \A q \in DOMAIN resources : q # r => resources'[q] = resources[q]
      /\ call'[g] = c /\ \A h \in Calls \ {g} : call'[h] = call[h]
  BY <1>1
<1>3. NetTypeOK'
  BY <1>1, <1>2 DEF NetInv, NetTypeOK, NextID, NextSid
<1>4. SockInv'
  BY DEF NetInv, SockInv
<1>5. StateTells'
  BY <1>2, TellsStep DEF NetInv
<1>6. OwnInv'
  <2>1. HeldAt(r) = Held(resources[r]) /\ HeldAt(r)' = Held(x)
    BY <1>2 DEF HeldAt
  <2>2. \A q : q # r => HeldAt(q)' = HeldAt(q)
    BY <1>2 DEF HeldAt
  <2>3. \A s, l : InLog(l, s)' <=> InLog(l, s)
    BY DEF InLog
  <2>4. QED
    BY <1>2, <2>1, <2>2, <2>3, Moves DEF NetInv
<1>7. QED
  BY <1>3, <1>4, <1>5, <1>6 DEF NetInv

\* A step of one call that leaves the resources alone.
LEMMA CallKeeps ==
  ASSUME NetInv, NEW g \in Calls, NEW c \in CallRecords(DOMAIN resources, DOMAIN sock),
         UNCHANGED <<resources, sock, dropped>>, call' = [call EXCEPT ![g] = c],
         at' \in [Local -> DOMAIN sock \cup {None}], \A a \in Local : at'[a] \in {at[a], None},
         made' \in Nat, Hands(c) \ dropped = Hands(call[g]) \ dropped
  PROVE  NetInv'
<1>1. call \in [Calls -> CallRecords(DOMAIN resources, DOMAIN sock)]
  BY DEF NetInv, NetTypeOK
<1>2. call'[g] = c /\ \A h \in Calls \ {g} : call'[h] = call[h]
  BY <1>1
<1>3. NetTypeOK'
  BY <1>1, <1>2 DEF NetInv, NetTypeOK, NextID, NextSid
<1>4. SockInv' /\ StateTells'
  BY DEF NetInv, SockInv, StateTells
<1>5. OwnInv'
  <2>1. \A q : HeldAt(q)' = HeldAt(q)
    BY DEF HeldAt
  <2>2. \A s, l : InLog(l, s)' <=> InLog(l, s)
    BY DEF InLog
  <2>3. HeldAt(None) = {}
    BY NoneIsNothing DEF NetInv, NetTypeOK, HeldAt
  <2>4. QED
    BY <1>2, <2>1, <2>2, <2>3, Moves DEF NetInv
<1>6. QED
  BY <1>3, <1>4, <1>5 DEF NetInv

-----------------------------------------------------------------------------
(* ctl: bind, dial, announce and hangup.                                   *)

\* What the state is like, for the steps of call g
LEMMA Facts ==
  ASSUME NetInv, NEW g \in Calls
  PROVE  /\ DOMAIN sock \subseteq Nat \ {0} /\ DOMAIN sock \subseteq Sid /\ made \in Nat /\ made + 1 \in Nat
         /\ call[g] \in CallRecords(DOMAIN resources, DOMAIN sock)
         /\ Hands(call[g]) \subseteq DOMAIN sock
         /\ dropped \in SUBSET DOMAIN sock /\ at \in [Local -> DOMAIN sock \cup {None}]
         /\ \A r \in DOMAIN resources :
              /\ resources[r] \in Conns(DOMAIN sock) /\ Tells(resources[r])
              /\ Held(resources[r]) \subseteq DOMAIN sock
<1>1. DOMAIN sock \subseteq Nat \ {0} /\ DOMAIN sock \subseteq Sid
  BY NetAssumption DEF NetInv, NetTypeOK, Sid
<1>2. call[g] \in CallRecords(DOMAIN resources, DOMAIN sock)
  BY DEF NetInv, NetTypeOK
<1>3. Hands(call[g]) \subseteq DOMAIN sock
  BY <1>1, <1>2, HandsAre
<1>4. \A r \in DOMAIN resources :
        /\ resources[r] \in Conns(DOMAIN sock) /\ Tells(resources[r])
        /\ Held(resources[r]) \subseteq DOMAIN sock
  BY DEF NetInv, NetTypeOK, StateTells, Tells, Held, Conns
<1>5. QED
  BY <1>1, <1>2, <1>3, <1>4 DEF NetInv, NetTypeOK

LEMMA NoHands ==
  ASSUME NEW c, c.op \in {"none", "dial", "announce", "cleared", "listen"}
  PROVE  Hands(c) = {}
BY DEF Hands

LEMMA Idle == NoCall.op = "none" /\ Hands(NoCall) = {}
BY NoHands DEF NoCall

\* Steps that leave the resources alone, all of one call
LEMMA QuietKeeps ==
  ASSUME NetInv, NEW g \in Calls, NEW r, NEW a \in Local \cup {Far},
         \/ DialChecks(g, r, a) \/ (AnnounceChecks(g, r, a) /\ a \in Local) \/ AnnounceRemoves(g)
         \/ OpenListen(g, r) \/ AcceptChecks(g) \/ Cancel(g) \/ AcceptFails(g)
  PROVE  NetInv'
<1> DEFINE Cs == CallRecords(DOMAIN resources, DOMAIN sock)
           Becomes(c) == /\ UNCHANGED <<resources, sock, dropped>> /\ call' = [call EXCEPT ![g] = c]
                         /\ made' \in {made, made + 1}
<1>0. ASSUME NEW c \in Cs, Becomes(c), Hands(c) = Hands(call[g]),
             at' \in [Local -> DOMAIN sock \cup {None}], \A b \in Local : at'[b] \in {at[b], None}
      PROVE  NetInv'
  BY <1>0, Facts, CallKeeps
<1>f. /\ call[g] \in Cs /\ DOMAIN sock \subseteq Nat \ {0}
      /\ at \in [Local -> DOMAIN sock \cup {None}]
  BY Facts
<1>n. NoCall \in Cs /\ Hands(NoCall) = {}
  BY CallIs, Idle
<1>q. ASSUME NEW c \in Cs, Becomes(c), at' = at, Hands(c) = Hands(call[g])
      PROVE  NetInv'
  BY <1>0, <1>f, <1>q
<1>1. CASE DialChecks(g, r, a)
  <2> DEFINE c == [op |-> "dial", rid |-> r, addr |-> a]
  <2>1. Becomes(c) /\ at' = at /\ call[g].op = "none" /\ r \in DOMAIN resources
    BY <1>1 DEF DialChecks, Begins, Get
  <2>2. c \in Cs
    BY <2>1, CallIs
  <2>3. Hands(c) = {} /\ Hands(call[g]) = {}
    BY <2>1, NoHands
  <2> HIDE DEF c, Cs, Becomes
  <2>4. QED
    BY <2>1, <2>2, <2>3, <1>q
<1>2. CASE AnnounceChecks(g, r, a) /\ a \in Local
  <2>0. PICK o \in {"announce", "cleared"} : o = IF a \in Paths THEN "announce" ELSE "cleared"
    OBVIOUS
  <2> DEFINE c == [op |-> o, rid |-> r, addr |-> a]
  <2>1. Becomes(c) /\ at' = at /\ call[g].op = "none" /\ r \in DOMAIN resources
    BY <1>2, <2>0 DEF AnnounceChecks, Begins, Get
  <2>2. c \in Cs
    BY <1>2, <2>1, CallIs
  <2>3. Hands(c) = {} /\ Hands(call[g]) = {}
    BY <2>1, NoHands
  <2> HIDE DEF c, Cs, Becomes
  <2>4. QED
    BY <2>1, <2>2, <2>3, <1>q
<1>3. CASE AnnounceRemoves(g)
  <2>1. call[g].op = "announce"
    BY <1>3 DEF AnnounceRemoves
  <2>2. PICK q \in DOMAIN resources, b \in Local : call[g] = [op |-> "announce", rid |-> q, addr |-> b]
    BY <2>1, <1>f DEF CallRecords
  <2> DEFINE c == [op |-> "cleared", rid |-> q, addr |-> b]
  <2>3. Becomes(c) /\ at' = [at EXCEPT ![b] = None]
    <3>1. [call[g] EXCEPT !.op = "cleared"] = c /\ call[g].addr = b
      BY <2>2
    <3>2. QED
      BY <1>3, <3>1 DEF AnnounceRemoves, Goes
  <2>4. c \in Cs
    BY CallIs
  <2>5. Hands(c) = {} /\ Hands(call[g]) = {}
    BY <2>1, NoHands
  <2>6. at' \in [Local -> DOMAIN sock \cup {None}] /\ \A d \in Local : at'[d] \in {at[d], None}
    BY <1>f, <2>3
  <2> HIDE DEF c, Cs, Becomes
  <2>7. QED
    BY <2>3, <2>4, <2>5, <2>6, <1>0
<1>4. CASE OpenListen(g, r)
  <2> DEFINE c == [op |-> "listen", rid |-> r]
  <2>1. Becomes(c) /\ at' = at /\ call[g].op = "none" /\ r \in DOMAIN resources
    BY <1>4 DEF OpenListen, Begins, Get
  <2>2. c \in Cs
    BY <2>1, CallIs
  <2>3. Hands(c) = {} /\ Hands(call[g]) = {}
    BY <2>1, NoHands
  <2> HIDE DEF c, Cs, Becomes
  <2>4. QED
    BY <2>1, <2>2, <2>3, <1>q
<1>5. CASE AcceptChecks(g)
  <2> DEFINE q == call[g].rid
             c == [op |-> "accept", ln |-> resources[q].ln, got |-> None, done |-> FALSE]
  <2>1. /\ at' = at /\ call[g].op = "listen"
        /\ Becomes(NoCall) \/ (resources[q].ln # None /\ Becomes(c))
    BY <1>5 DEF AcceptChecks, Return, Goes, ListenShown
  <2>2. q \in DOMAIN resources
    BY <2>1, <1>f, CallFields
  <2>3. Hands(call[g]) = {} /\ Hands(c) = {}
    BY <2>1, NoHands DEF Hands
  <2>4. resources[q].ln # None => c \in Cs
    <3>1. resources[q].ln \in DOMAIN sock \cup {None}
      BY <2>2, Facts DEF Conns
    <3>2. QED
      BY <3>1, CallIs
  <2> HIDE DEF c, q, Cs, Becomes
  <2>5. QED
    BY <2>1, <2>3, <2>4, <1>n, <1>q
<1>6. CASE Cancel(g)
  <2>1. call[g].op = "accept"
    BY <1>6 DEF Cancel
  <2>2. PICK o, l, x, d :
          /\ o = call[g].op /\ l \in DOMAIN sock /\ x \in DOMAIN sock \cup {ErrClosed, None}
          /\ d \in BOOLEAN /\ call[g] = [op |-> o, ln |-> l, got |-> x, done |-> d]
    <3>1. /\ call[g].ln \in DOMAIN sock /\ call[g].got \in DOMAIN sock \cup {ErrClosed, None}
          /\ call[g].done \in BOOLEAN
          /\ call[g] = [op |-> call[g].op, ln |-> call[g].ln, got |-> call[g].got, done |-> call[g].done]
      BY <2>1, <1>f, CallFields
    <3>2. QED
      BY <3>1
  <2>3. PICK e : e = TRUE
    OBVIOUS
  <2> DEFINE c == [op |-> o, ln |-> l, got |-> x, done |-> e]
  <2>4. Becomes(c) /\ at' = at
    <3>1. [call[g] EXCEPT !.done = e] = c
      BY <2>2
    <3>2. QED
      BY <1>6, <2>3, <3>1 DEF Cancel, Goes
  <2>5. c \in Cs
    BY <2>1, <2>2, <2>3, CallIs
  <2>6. Hands(c) = Hands(call[g])
    <3>1. call[g].op = o /\ call[g].got = x /\ c.op = o /\ c.got = x
      BY <2>2
    <3>2. QED
      BY <3>1, <2>1 DEF Hands
  <2> HIDE DEF c, Cs, Becomes
  <2>7. QED
    BY <2>4, <2>5, <2>6, <1>q
<1>7. CASE AcceptFails(g)
  <2>1. /\ Becomes(NoCall) /\ at' = at /\ call[g].op = "accept" /\ call[g].got = ErrClosed
    BY <1>7 DEF AcceptFails, Return
  <2>2. Hands(call[g]) = {}
    BY <2>1 DEF Hands
  <2> HIDE DEF Cs, Becomes
  <2>3. QED
    BY <2>1, <2>2, <1>n, <1>q
<1>8. QED
  BY <1>1, <1>2, <1>3, <1>4, <1>5, <1>6, <1>7

\* Resource r is replaced: the fields that tell what it is are these.
Puts(rs, r, ln, conn, state) ==
  \E x \in Conns(DOMAIN sock) :
     rs = [resources EXCEPT ![r] = x] /\ x.ln = ln /\ x.conn = conn /\ x.state = state

LEMMA Stored ==
  ASSUME NetInv, NEW r \in DOMAIN resources
  PROVE  /\ \A a \in Local : Puts([resources EXCEPT ![r].bindAddr = a, ![r].state = "bound"],
                                  r, resources[r].ln, resources[r].conn, "bound")
         /\ Puts([resources EXCEPT ![r].lastErr = TRUE],
                 r, resources[r].ln, resources[r].conn, resources[r].state)
         /\ \A s \in DOMAIN sock :
              /\ Puts(Connected(resources, r, s), r, None, s, "connected")
              /\ Puts([Connected(resources, r, s) EXCEPT ![r].bindAddr = None], r, None, s, "connected")
              /\ Puts([resources EXCEPT ![r].ln = s, ![r].conn = None, ![r].state = "listening",
                                        ![r].lastErr = FALSE], r, s, None, "listening")
         /\ Puts([resources EXCEPT ![r].ln = None, ![r].conn = None, ![r].bindAddr = None,
                                   ![r].lastErr = FALSE, ![r].state = "closed"], r, None, None, "closed")
<1>1. resources \in [DOMAIN resources -> Conns(DOMAIN sock)] /\ resources[r] \in Conns(DOMAIN sock)
  BY DEF NetInv, NetTypeOK
<1>2. ASSUME NEW a \in Local
      PROVE  Puts([resources EXCEPT ![r].bindAddr = a, ![r].state = "bound"],
                  r, resources[r].ln, resources[r].conn, "bound")
  <2> DEFINE x == [resources[r] EXCEPT !.bindAddr = a, !.state = "bound"]
  <2>1. /\ x \in Conns(DOMAIN sock) /\ x.ln = resources[r].ln /\ x.conn = resources[r].conn
        /\ x.state = "bound"
    BY <1>1 DEF Conns
  <2>2. [resources EXCEPT ![r].bindAddr = a, ![r].state = "bound"] = [resources EXCEPT ![r] = x]
    BY <1>1
  <2> HIDE DEF x
  <2>3. QED
    BY <2>1, <2>2 DEF Puts
<1>3. Puts([resources EXCEPT ![r].lastErr = TRUE],
           r, resources[r].ln, resources[r].conn, resources[r].state)
  <2> DEFINE x == [resources[r] EXCEPT !.lastErr = TRUE]
  <2>1. /\ x \in Conns(DOMAIN sock) /\ x.ln = resources[r].ln /\ x.conn = resources[r].conn
        /\ x.state = resources[r].state
    BY <1>1 DEF Conns
  <2>2. [resources EXCEPT ![r].lastErr = TRUE] = [resources EXCEPT ![r] = x]
    BY <1>1
  <2> HIDE DEF x
  <2>3. QED
    BY <2>1, <2>2 DEF Puts
<1>4. ASSUME NEW s \in DOMAIN sock
      PROVE  Puts(Connected(resources, r, s), r, None, s, "connected")
  <2> DEFINE x == [resources[r] EXCEPT !.conn = s, !.ln = None, !.state = "connected", !.lastErr = FALSE]
  <2>1. x \in Conns(DOMAIN sock) /\ x.ln = None /\ x.conn = s /\ x.state = "connected"
    BY <1>1 DEF Conns
  <2>2. Connected(resources, r, s) = [resources EXCEPT ![r] = x]
    BY <1>1 DEF Connected
  <2> HIDE DEF x
  <2>3. QED
    BY <2>1, <2>2 DEF Puts
<1>5. ASSUME NEW s \in DOMAIN sock
      PROVE  Puts([Connected(resources, r, s) EXCEPT ![r].bindAddr = None], r, None, s, "connected")
  <2> DEFINE x == [resources[r] EXCEPT !.conn = s, !.ln = None, !.state = "connected", !.lastErr = FALSE,
                                       !.bindAddr = None]
  <2>1. x \in Conns(DOMAIN sock) /\ x.ln = None /\ x.conn = s /\ x.state = "connected"
    BY <1>1 DEF Conns
  <2>2. [Connected(resources, r, s) EXCEPT ![r].bindAddr = None] = [resources EXCEPT ![r] = x]
    BY <1>1 DEF Connected
  <2> HIDE DEF x
  <2>3. QED
    BY <2>1, <2>2 DEF Puts
<1>6. ASSUME NEW s \in DOMAIN sock
      PROVE  Puts([resources EXCEPT ![r].ln = s, ![r].conn = None, ![r].state = "listening",
                                    ![r].lastErr = FALSE], r, s, None, "listening")
  <2> DEFINE x == [resources[r] EXCEPT !.ln = s, !.conn = None, !.state = "listening", !.lastErr = FALSE]
  <2>1. x \in Conns(DOMAIN sock) /\ x.ln = s /\ x.conn = None /\ x.state = "listening"
    BY <1>1 DEF Conns
  <2>2. [resources EXCEPT ![r].ln = s, ![r].conn = None, ![r].state = "listening",
                          ![r].lastErr = FALSE] = [resources EXCEPT ![r] = x]
    BY <1>1
  <2> HIDE DEF x
  <2>3. QED
    BY <2>1, <2>2 DEF Puts
<1>7. Puts([resources EXCEPT ![r].ln = None, ![r].conn = None, ![r].bindAddr = None,
                             ![r].lastErr = FALSE, ![r].state = "closed"], r, None, None, "closed")
  <2> DEFINE x == [resources[r] EXCEPT !.ln = None, !.conn = None, !.bindAddr = None,
                                       !.lastErr = FALSE, !.state = "closed"]
  <2>1. x \in Conns(DOMAIN sock) /\ x.ln = None /\ x.conn = None /\ x.state = "closed"
    BY <1>1 DEF Conns
  <2>2. [resources EXCEPT ![r].ln = None, ![r].conn = None, ![r].bindAddr = None,
                          ![r].lastErr = FALSE, ![r].state = "closed"] = [resources EXCEPT ![r] = x]
    BY <1>1
  <2> HIDE DEF x
  <2>3. QED
    BY <2>1, <2>2 DEF Puts
<1>8. QED
  BY <1>2, <1>3, <1>4, <1>5, <1>6, <1>7

\* Steps of one call on one resource
LEMMA CtlSteps ==
  ASSUME NetInv, NEW g \in Calls, NEW r, NEW a,
         \/ (Bind(g, r, a) /\ a \in Local) \/ DialFails(g) \/ DialStores(g) \/ AnnounceFails(g)
         \/ AnnounceStores(g) \/ HangupTakes(g, r) \/ AcceptStores(g)
  PROVE  NetInv'
<1> DEFINE Rs == DOMAIN resources
           Ss == DOMAIN sock
           Cs == CallRecords(Rs, Ss)
           Becomes(c) == /\ UNCHANGED <<sock, at>> /\ call' = [call EXCEPT ![g] = c]
                         /\ made' \in {made, made + 1}
           TellsOf(ln, conn, state) ==
             /\ state = "connected" => conn # None
             /\ state = "listening" => ln # None
             /\ conn = None \/ ln = None
<1>f. /\ call[g] \in Cs /\ Ss \subseteq Nat \ {0} /\ dropped \in SUBSET Ss /\ Hands(call[g]) \subseteq Ss
      /\ \A q \in Rs : /\ Held(resources[q]) \subseteq Ss
                       /\ TellsOf(resources[q].ln, resources[q].conn, resources[q].state)
  BY Facts DEF Tells, DataOpens, ListenShown
<1>0. ASSUME NEW q \in Rs, NEW c \in Cs, NEW ln, NEW conn, NEW state,
             Becomes(c), Puts(resources', q, ln, conn, state), TellsOf(ln, conn, state),
             dropped' \in SUBSET Ss, dropped \subseteq dropped',
             \A s \in Ss \ dropped' :
               /\ s \in Held([ln |-> ln, conn |-> conn]) \cup Hands(c)
                    <=> s \in Held(resources[q]) \cup Hands(call[g])
               /\ s \notin Held([ln |-> ln, conn |-> conn]) \cap Hands(c)
      PROVE  NetInv'
  <2>1. PICK x \in Conns(Ss) :
          resources' = [resources EXCEPT ![q] = x] /\ x.ln = ln /\ x.conn = conn /\ x.state = state
    BY <1>0 DEF Puts
  <2>2. Tells(x) /\ Held(x) = Held([ln |-> ln, conn |-> conn])
    BY <1>0, <2>1 DEF Tells, DataOpens, ListenShown, Held
  <2>3. at' \in [Local -> Ss \cup {None}] /\ (\A b \in Local : at'[b] \in {at[b], None}) /\ made' \in Nat
    BY <1>0, Facts
  <2> HIDE DEF Cs
  <2>4. QED
    BY <1>0, <2>1, <2>2, <2>3, CtlKeeps DEF Cs
<1>n. NoCall \in Cs /\ Hands(NoCall) = {} /\ None \notin Ss
  BY <1>f, CallIs, Idle, NoneIsNothing
<1>h. \A q : Held([ln |-> resources[q].ln, conn |-> resources[q].conn]) = Held(resources[q])
  BY DEF Held
<1>1. CASE Bind(g, r, a) /\ a \in Local
  <2>1. /\ Becomes(NoCall) /\ call[g].op = "none" /\ r \in Rs /\ dropped' = dropped /\ ~Busy(r)
        /\ resources' = [resources EXCEPT ![r].bindAddr = a, ![r].state = "bound"]
    BY <1>1 DEF Bind, Begins, Get
  <2>2. Puts(resources', r, resources[r].ln, resources[r].conn, "bound")
    BY <1>1, <2>1, Stored
  <2>3. Hands(call[g]) = {}
    BY <2>1, NoHands
  <2>4. TellsOf(resources[r].ln, resources[r].conn, "bound")
    BY <2>1, <1>f
  <2> HIDE DEF Rs, Ss, Cs, Becomes, TellsOf
  <2>5. QED
    BY <1>0, <1>f, <1>n, <1>h, <2>1, <2>2, <2>3, <2>4
<1>2. CASE DialFails(g)
  <2>1. /\ Becomes(NoCall) /\ call[g].op = "dial" /\ dropped' = dropped
        /\ \/ resources' = [resources EXCEPT ![call[g].rid].lastErr = TRUE]
           \/ resources' = resources
    BY <1>2 DEF DialFails, Return
  <2>2. Hands(call[g]) = {} /\ call[g].rid \in Rs
    BY <2>1, <1>f, NoHands, CallFields
  <2>3. CASE resources' = resources
    <3>1. made' \in Nat /\ at' \in [Local -> Ss \cup {None}] /\ \A b \in Local : at'[b] \in {at[b], None}
      BY <2>1, Facts
    <3>2. QED
      BY <2>1, <2>2, <2>3, <3>1, <1>n, CallKeeps
  <2>4. CASE resources' = [resources EXCEPT ![call[g].rid].lastErr = TRUE]
    <3> DEFINE q == call[g].rid
    <3>1. Puts(resources', q, resources[q].ln, resources[q].conn, resources[q].state)
      BY <2>2, <2>4, Stored
    <3>2. TellsOf(resources[q].ln, resources[q].conn, resources[q].state)
      BY <2>2, <1>f
    <3> HIDE DEF Rs, Ss, Cs, Becomes, TellsOf, q
    <3>3. q \in Rs
      BY <2>2 DEF q
    <3>4. QED
      BY <1>0, <1>f, <1>n, <1>h, <2>1, <2>2, <3>1, <3>2, <3>3, ZenonT(40)
  <2>5. QED
    BY <2>1, <2>3, <2>4
<1>3. CASE DialStores(g) \/ AcceptStores(g)
  <2> DEFINE q == call[g].rid
             s == call[g].conn
  <2>1. /\ Becomes(NoCall) /\ call[g].op \in {"dialled", "accepted"} /\ dropped' = dropped \cup Held(resources[q])
        /\ \/ resources' = Connected(resources, q, s)
           \/ resources' = [Connected(resources, q, s) EXCEPT ![q].bindAddr = None]
    BY <1>3 DEF DialStores, AcceptStores, Return
  <2>2. q \in Rs /\ s \in Ss /\ Hands(call[g]) = {s}
    BY <2>1, <1>f, CallFields DEF Hands
  <2>3. Puts(resources', q, None, s, "connected")
    BY <2>1, <2>2, Stored, ZenonT(60)
  <2>4. TellsOf(None, s, "connected") /\ Held([ln |-> None, conn |-> s]) = {s}
    BY <2>2, <1>n DEF Held
  <2> HIDE DEF Rs, Ss, Cs, Becomes, TellsOf, q, s
  <2>5. dropped' \in SUBSET Ss
    BY <2>1, <2>2, <1>f
  <2>6. QED
    BY <1>0, <1>n, <2>1, <2>2, <2>3, <2>4, <2>5
<1>4. CASE AnnounceFails(g)
  <2> DEFINE q == call[g].rid
  <2>1. /\ Becomes(NoCall) /\ call[g].op = "cleared" /\ dropped' = dropped
        /\ resources' = [resources EXCEPT ![q].lastErr = TRUE]
    BY <1>4 DEF AnnounceFails, Return
  <2>2. Hands(call[g]) = {} /\ q \in Rs
    BY <2>1, <1>f, NoHands, CallFields
  <2>3. Puts(resources', q, resources[q].ln, resources[q].conn, resources[q].state)
    BY <2>1, <2>2, Stored
  <2>4. TellsOf(resources[q].ln, resources[q].conn, resources[q].state)
    BY <2>2, <1>f
  <2> HIDE DEF Rs, Ss, Cs, Becomes, TellsOf, q
  <2>5. QED
    BY <1>0, <1>f, <1>n, <1>h, <2>1, <2>2, <2>3, <2>4
<1>5. CASE AnnounceStores(g)
  <2> DEFINE q == call[g].rid
             s == call[g].ln
  <2>1. /\ Becomes(NoCall) /\ call[g].op = "announced" /\ dropped' = dropped \cup Held(resources[q])
        /\ resources' = [resources EXCEPT ![q].ln = s, ![q].conn = None, ![q].state = "listening",
                                          ![q].lastErr = FALSE]
    BY <1>5 DEF AnnounceStores, Return
  <2>2. q \in Rs /\ s \in Ss /\ Hands(call[g]) = {s}
    BY <2>1, <1>f, CallFields DEF Hands
  <2>3. Puts(resources', q, s, None, "listening")
    BY <2>1, <2>2, Stored
  <2>4. TellsOf(s, None, "listening") /\ Held([ln |-> s, conn |-> None]) = {s}
    BY <2>2, <1>n DEF Held
  <2> HIDE DEF Rs, Ss, Cs, Becomes, TellsOf, q, s
  <2>5. dropped' \in SUBSET Ss
    BY <2>1, <2>2, <1>f
  <2>6. QED
    BY <1>0, <1>n, <2>1, <2>2, <2>3, <2>4, <2>5
<1>6. CASE HangupTakes(g, r)
  <2> DEFINE c == [op |-> "hangup", takes |-> Held(resources[r])]
  <2>1. /\ Becomes(c) /\ call[g].op = "none" /\ r \in Rs /\ dropped' = dropped
        /\ resources' = [resources EXCEPT ![r].ln = None, ![r].conn = None, ![r].bindAddr = None,
                                          ![r].lastErr = FALSE, ![r].state = "closed"]
    BY <1>6 DEF HangupTakes, Begins, Get
  <2>2. Puts(resources', r, None, None, "closed")
    BY <2>1, Stored
  <2>3. c \in Cs
    BY <2>1, <1>f, CallIs
  <2>4. Hands(call[g]) = {} /\ Hands(c) = Held(resources[r])
    BY <2>1, NoHands DEF Hands
  <2>5. TellsOf(None, None, "closed") /\ Held([ln |-> None, conn |-> None]) = {}
    BY DEF Held
  <2> HIDE DEF Rs, Ss, Cs, Becomes, TellsOf, c
  <2>6. QED
    BY <1>0, <1>f, <2>1, <2>2, <2>3, <2>4, <2>5
<1>7. QED
  BY <1>1, <1>2, <1>3, <1>4, <1>5, <1>6

-----------------------------------------------------------------------------
(* New resources.                                                          *)

LEMMA AllocSteps ==
  ASSUME NetInv, NEW g \in Calls, Alloc(g) \/ AcceptAllocs(g)
  PROVE  NetInv'
<1>0. PICK n \in Nat : n = NextID
  BY DEF NetInv, NetTypeOK
<1> DEFINE Ss == DOMAIN sock
           Cs == CallRecords(DOMAIN resources, Ss)
           New == CallRecords(1 .. n + 1, Ss)
<1>1. /\ DOMAIN resources = 1 .. n /\ resources \in [1 .. n -> Conns(Ss)]
      /\ call \in [Calls -> Cs] /\ Ss \subseteq Nat \ {0} /\ call[g] \in Cs
  BY <1>0, Facts DEF NetInv, NetTypeOK
<1>2. Cs \subseteq New
  BY <1>1, CallsGrow
<1>3. UNCHANGED <<sock, at, made, dropped>> /\ resources' = Added(resources, newConn)
  BY DEF Alloc, AcceptAllocs, Alloced, Goes
<1>4. PICK c \in New : call' = [call EXCEPT ![g] = c] /\ Hands(c) = Hands(call[g])
  <2>1. CASE Alloc(g)
    <3>1. call' = [call EXCEPT ![g] = call[g]]
      BY <1>1, <2>1 DEF Alloc
    <3>2. QED
      BY <1>1, <1>2, <3>1
  <2>2. CASE AcceptAllocs(g)
    <3> DEFINE s == call[g].got
               c == [op |-> "accepted", rid |-> n + 1, conn |-> s]
    <3>1. call[g].op = "accept" /\ s \in Sid /\ call' = [call EXCEPT ![g] = c]
      BY <1>0, <2>2 DEF AcceptAllocs, Goes
    <3>2. s \in Ss /\ s \notin {ErrClosed, None}
      BY <1>1, <3>1, CallFields, NetAssumption DEF Sid, ErrClosed
    <3>3. c \in New
      <4>1. n + 1 \in 1 .. n + 1
        OBVIOUS
      <4>2. QED
        BY <3>2, <4>1, CallIs
    <3>4. Hands(c) = {s} /\ Hands(call[g]) = {s}
      BY <3>1, <3>2 DEF Hands
    <3> HIDE DEF c, New
    <3>5. QED
      BY <3>1, <3>3, <3>4
  <2>3. QED
    BY <2>1, <2>2
<1> HIDE DEF New, Cs, Ss
<1>5. /\ DOMAIN resources' = 1 .. n + 1 /\ resources'[n + 1] = newConn
      /\ \A i \in 1 .. n : resources'[i] = resources[i]
      /\ NextID' = n + 1
  <2>1. /\ DOMAIN Added(resources, newConn) = 1 .. n + 1 /\ Added(resources, newConn)[n + 1] = newConn
        /\ \A i \in 1 .. n : Added(resources, newConn)[i] = resources[i]
        /\ Cardinality(1 .. n + 1) = n + 1
    BY <1>1, AddedIs
  <2>2. QED
    BY <1>3, <2>1 DEF NextID
<1>6. newConn \in Conns(Ss) /\ Held(newConn) = {} /\ Tells(newConn)
  BY DEF newConn, Conns, Held, Tells, DataOpens, ListenShown
<1>7. NetTypeOK'
  <2>1. resources' \in [1 .. n + 1 -> Conns(Ss)]
    <3>1. Cardinality(DOMAIN resources) = n
      BY <1>0 DEF NextID
    <3>2. QED
      BY <1>1, <1>3, <1>6, <3>1 DEF Added
  <2>2. call' \in [Calls -> New]
    BY <1>1, <1>2, <1>4
  <2>3. QED
    BY <1>1, <1>3, <1>5, <2>1, <2>2 DEF NetInv, NetTypeOK, New, NextSid, Ss
<1>8. SockInv'
  BY <1>3 DEF NetInv, SockInv
<1>9. StateTells'
  BY <1>1, <1>5, <1>6, TellsStep DEF NetInv
<1>10. OwnInv'
  <2>1. n + 1 \notin 1 .. n /\ n + 1 \in 1 .. n + 1
    OBVIOUS
  <2>2. HeldAt(n + 1) = {} /\ HeldAt(n + 1)' = {}
    BY <1>1, <1>5, <1>6, <2>1 DEF HeldAt
  <2>3. \A q : q # n + 1 => HeldAt(q)' = HeldAt(q)
    BY <1>1, <1>5 DEF HeldAt
  <2>4. \A s, l : InLog(l, s)' <=> InLog(l, s)
    BY <1>3 DEF InLog
  <2>5. call'[g] = c /\ \A h \in Calls \ {g} : call'[h] = call[h]
    BY <1>1, <1>4
  <2> HIDE DEF OwnInv
  <2>6. OwnInv /\ DOMAIN sock' = DOMAIN sock /\ dropped' = dropped /\ sock' = sock
    BY <1>3 DEF NetInv
  <2>7. QED
    BY <1>4, <2>2, <2>3, <2>4, <2>5, <2>6, Moves
<1>11. QED
  BY <1>7, <1>8, <1>9, <1>10 DEF NetInv

-----------------------------------------------------------------------------
(* Closing sockets.                                                        *)

\* What waits in the backlog of a closed listener is closed with it; nothing
\* waits there itself.
LEMMA ShutIs ==
  ASSUME NetInv, NEW S \in SUBSET DOMAIN sock, sock' = Shut(sock, S)
  PROVE  /\ DOMAIN sock' = DOMAIN sock /\ sock' \in [DOMAIN sock -> Sockets(DOMAIN sock)]
         /\ \A s \in DOMAIN sock :
              /\ sock'[s].addr = sock[s].addr
              /\ sock'[s] = sock[s] \/ sock'[s].queue = <<>>
              /\ sock'[s].open => sock[s].open /\ s \notin S
         /\ \A s \in DOMAIN sock : sock'[s].open => \A l : InLog(l, s)' <=> InLog(l, s)
<1> DEFINE Ss == DOMAIN sock
<1>1. PICK W : W = UNION {{sock[s].queue[i] : i \in DOMAIN sock[s].queue} : s \in S}
  OBVIOUS
<1>2. \A s, i : s \in S /\ i \in DOMAIN sock[s].queue => sock[s].queue[i] \in W
  BY <1>1
<1>3. \A w \in W : \E s \in S : \E i \in DOMAIN sock[s].queue : w = sock[s].queue[i]
  BY <1>1
<1>4. sock' = [s \in Ss |-> IF s \in S \cup W THEN [sock[s] EXCEPT !.open = FALSE, !.queue = <<>>]
                            ELSE sock[s]]
  BY <1>1 DEF Shut
<1>5. sock \in [Ss -> Sockets(Ss)]
  BY DEF NetInv, NetTypeOK
<1>6. ASSUME NEW s \in Ss, NEW x, x = [sock[s] EXCEPT !.open = FALSE, !.queue = <<>>]
      PROVE  x \in Sockets(Ss) /\ x.addr = sock[s].addr /\ x.queue = <<>> /\ ~x.open
  <2>1. /\ sock[s] \in [addr : Local \cup {None}, open : BOOLEAN, queue : Seq(Ss)]
        /\ <<>> \in Seq(Ss)
    BY <1>5 DEF Sockets
  <2>2. x.addr = sock[s].addr /\ x.queue = <<>> /\ ~x.open
    BY <1>6, <2>1
  <2>3. x \in [addr : Local \cup {None}, open : BOOLEAN, queue : Seq(Ss)]
    BY <1>6, <2>1
  <2>4. QED
    BY <2>2, <2>3 DEF Sockets
<1>7. DOMAIN sock' = Ss /\ sock' \in [Ss -> Sockets(Ss)]
  BY <1>4, <1>5, <1>6
<1>8. \A s \in Ss : /\ s \notin S \cup W => sock'[s] = sock[s]
                    /\ s \in S \cup W => /\ sock'[s].queue = <<>> /\ ~sock'[s].open
                                         /\ sock'[s].addr = sock[s].addr
  BY <1>4, <1>6
<1>9. \A w \in W : w \in Ss => sock[w].queue = <<>>
  BY <1>3 DEF NetInv, SockInv
<1>10. ASSUME NEW s \in Ss, sock'[s].open, NEW l
       PROVE  InLog(l, s)' <=> InLog(l, s)
  <2>1. s \notin S \cup W
    BY <1>8, <1>10
  <2>2. CASE l \in S \cup W /\ l \in Ss
    <3>1. ~InLog(l, s)'
      BY <1>8, <2>2 DEF InLog
    <3>2. ~InLog(l, s)
      BY <1>2, <1>9, <2>1, <2>2 DEF InLog
    <3>3. QED
      BY <3>1, <3>2
  <2>3. CASE ~(l \in S \cup W /\ l \in Ss)
    BY <1>7, <1>8, <2>3 DEF InLog
  <2>4. QED
    BY <2>2, <2>3
<1>11. QED
  BY <1>7, <1>8, <1>10

LEMMA CloseKeeps ==
  ASSUME NetInv, NEW g \in Calls, NEW S \in SUBSET DOMAIN sock, CloseAll(S),
         NEW c \in CallRecords(DOMAIN resources, DOMAIN sock), call' = [call EXCEPT ![g] = c],
         UNCHANGED <<resources, made, dropped>>, Hands(c) \ S = Hands(call[g]) \ S
  PROVE  NetInv'
<1> DEFINE Ss == DOMAIN sock
<1>1. /\ call \in [Calls -> CallRecords(DOMAIN resources, DOMAIN sock)]
      /\ at \in [Local -> Ss \cup {None}]
  BY DEF NetInv, NetTypeOK
<1>2. /\ DOMAIN sock' = Ss /\ sock' \in [Ss -> Sockets(Ss)]
      /\ \A s \in Ss :
           /\ sock'[s].addr = sock[s].addr
           /\ sock'[s] = sock[s] \/ sock'[s].queue = <<>>
           /\ sock'[s].open => sock[s].open /\ s \notin S
      /\ \A s \in Ss : sock'[s].open => \A l : InLog(l, s)' <=> InLog(l, s)
  BY ShutIs DEF CloseAll
<1>3. at' \in [Local -> Ss \cup {None}] /\ \A a \in Local : at'[a] \in {at[a], None}
  BY <1>1 DEF CloseAll, Freed
<1>4. call'[g] = c /\ \A h \in Calls \ {g} : call'[h] = call[h]
  BY <1>1
<1>5. NetTypeOK'
  BY <1>1, <1>2, <1>3 DEF NetInv, NetTypeOK, NextID, NextSid
<1>6. SockInv'
  <2>1. \A a \in Local : at'[a] # None => sock'[at'[a]].addr = a
    BY <1>1, <1>2, <1>3 DEF NetInv, SockInv
  <2>2. ASSUME NEW s \in Ss
        PROVE  /\ sock'[s].addr = None => sock'[s].queue = <<>>
               /\ \A i \in DOMAIN sock'[s].queue : sock'[sock'[s].queue[i]].addr = None
               /\ \A i, j \in DOMAIN sock'[s].queue : sock'[s].queue[i] = sock'[s].queue[j] => i = j
    <3>1. /\ sock[s].addr = None => sock[s].queue = <<>>
          /\ \A i \in DOMAIN sock[s].queue : sock[sock[s].queue[i]].addr = None /\ sock[s].queue[i] \in Ss
          /\ \A i, j \in DOMAIN sock[s].queue : sock[s].queue[i] = sock[s].queue[j] => i = j
      BY DEF NetInv, NetTypeOK, SockInv, Sockets
    <3>2. QED
      BY <1>2, <3>1
  <2>3. QED
    BY <1>2, <2>1, <2>2 DEF SockInv
<1>7. StateTells'
  BY DEF NetInv, StateTells
<1>8. OwnInv'
  <2>1. \A q : HeldAt(q)' = HeldAt(q)
    BY DEF HeldAt
  <2>2. HeldAt(None) = {}
    BY NoneIsNothing DEF NetInv, NetTypeOK, HeldAt
  <2>3. \A s \in Ss : sock'[s].open /\ s \notin dropped' =>
           /\ s \in HeldAt(None)' \cup Hands(call'[g]) <=> s \in HeldAt(None) \cup Hands(call[g])
           /\ s \notin HeldAt(None)' \cap Hands(call'[g])
    BY <1>2, <1>4, <2>1, <2>2
  <2>4. OwnInv /\ dropped \subseteq dropped'
    BY DEF NetInv
  <2>5. QED
    BY <1>2, <1>4, <2>1, <2>3, <2>4, Moves
<1>9. QED
  BY <1>5, <1>6, <1>7, <1>8 DEF NetInv

\* Steps of one call that close sockets
LEMMA CloseSteps ==
  ASSUME NetInv, NEW g \in Calls, HangupCloses(g) \/ AcceptCancelled(g) \/ AcceptEnds(g)
  PROVE  NetInv'
<1> DEFINE Cs == CallRecords(DOMAIN resources, DOMAIN sock)
<1>1. call[g] \in Cs /\ DOMAIN sock \subseteq Nat \ {0} /\ DOMAIN sock \subseteq Sid
  BY Facts
<1>2. NoCall \in Cs /\ Hands(NoCall) = {}
  BY CallIs, Idle
<1>3. CASE HangupCloses(g)
  <2>1. call[g].takes \in SUBSET DOMAIN sock /\ Hands(call[g]) = call[g].takes
    BY <1>1, <1>3, CallFields DEF HangupCloses, Hands
  <2>2. /\ CloseAll(call[g].takes) /\ call' = [call EXCEPT ![g] = NoCall]
        /\ UNCHANGED <<resources, made, dropped>>
    BY <1>3 DEF HangupCloses, Return
  <2> HIDE DEF Cs
  <2>3. QED
    BY <1>2, <2>1, <2>2, CloseKeeps DEF Cs
<1>4. CASE AcceptCancelled(g)
  <2>1. call[g].op = "accept"
    BY <1>4 DEF AcceptCancelled
  <2>2. PICK o, l, x, d :
          /\ o = call[g].op /\ l \in DOMAIN sock /\ x \in DOMAIN sock \cup {ErrClosed, None}
          /\ d \in BOOLEAN /\ call[g] = [op |-> o, ln |-> l, got |-> x, done |-> d]
    <3>1. /\ call[g].ln \in DOMAIN sock /\ call[g].got \in DOMAIN sock \cup {ErrClosed, None}
          /\ call[g].done \in BOOLEAN
          /\ call[g] = [op |-> call[g].op, ln |-> call[g].ln, got |-> call[g].got, done |-> call[g].done]
      BY <2>1, <1>1, CallFields
    <3>2. QED
      BY <3>1
  <2> DEFINE c == [op |-> "ending", ln |-> l, got |-> x, done |-> d]
  <2>3. [call[g] EXCEPT !.op = "ending"] = c /\ call[g].ln = l
    BY <2>2
  <2>4. /\ CloseAll({l}) /\ call' = [call EXCEPT ![g] = c] /\ {l} \in SUBSET DOMAIN sock
        /\ UNCHANGED <<resources, made, dropped>>
    BY <1>4, <2>2, <2>3 DEF AcceptCancelled, Goes
  <2>5. c \in Cs
    BY <2>2, CallIs
  <2>6. Hands(c) = Hands(call[g])
    <3>1. call[g].op = o /\ call[g].got = x /\ c.op = "ending" /\ c.got = x
      BY <2>2
    <3>2. QED
      BY <3>1, <2>1 DEF Hands
  <2> HIDE DEF c, Cs
  <2>7. QED
    BY <2>4, <2>5, <2>6, CloseKeeps DEF Cs
<1>5. CASE AcceptEnds(g)
  <2> DEFINE S == {call[g].got} \cap Sid
  <2>1. /\ call[g].op = "ending" /\ CloseAll(S) /\ call' = [call EXCEPT ![g] = NoCall]
        /\ UNCHANGED <<resources, made, dropped>>
    BY <1>5 DEF AcceptEnds, Return
  <2>2. call[g].got \in DOMAIN sock \cup {ErrClosed, None}
    BY <1>1, <2>1, CallFields
  <2>3. S \in SUBSET DOMAIN sock
    BY <2>2, NoneIsNothing DEF Sid, ErrClosed
  <2>4. Hands(call[g]) \subseteq S
    BY <1>1, <2>1, <2>2 DEF Hands
  <2> HIDE DEF S, Cs
  <2>5. QED
    BY <1>2, <2>1, <2>3, <2>4, CloseKeeps DEF Cs
<1>6. QED
  BY <1>3, <1>4, <1>5

-----------------------------------------------------------------------------
(* Accept: the connection that waits longest is handed to the reader.      *)

LEMMA AcceptsKeeps ==
  ASSUME NetInv, NEW g \in Calls, Accepts(g)
  PROVE  NetInv'
<1> DEFINE Ss == DOMAIN sock
           Cs == CallRecords(DOMAIN resources, Ss)
<1>1. /\ call[g] \in Cs /\ Ss \subseteq Nat \ {0} /\ None \notin Ss
      /\ sock \in [Ss -> Sockets(Ss)] /\ call \in [Calls -> Cs]
      /\ at \in [Local -> Ss \cup {None}] /\ made \in Nat
  BY Facts, NoneIsNothing DEF NetInv, NetTypeOK
<1>2. /\ call[g].op \in {"accept", "ending"} /\ call[g].got = None
      /\ UNCHANGED <<resources, at, dropped, made>>
  BY DEF Accepts, Goes
<1>3. PICK o, l, d :
        /\ o = call[g].op /\ l \in Ss /\ d \in BOOLEAN
        /\ call[g] = [op |-> o, ln |-> l, got |-> None, done |-> d]
  <2>1. /\ call[g].ln \in Ss /\ call[g].done \in BOOLEAN
        /\ call[g] = [op |-> call[g].op, ln |-> call[g].ln, got |-> call[g].got, done |-> call[g].done]
    BY <1>1, <1>2, CallFields
  <2>2. QED
    BY <1>2, <2>1
<1> DEFINE Got(x) == [op |-> o, ln |-> l, got |-> x, done |-> d]
<1>4. call[g].ln = l /\ \A x : [call[g] EXCEPT !.got = x] = Got(x)
  BY <1>3
<1>5. \A x : Hands(Got(x)) = {x} \ {ErrClosed, None}
  <2>1. \A x : Got(x).op \in {"accept", "ending"} /\ Got(x).got = x
    BY <1>2, <1>3
  <2>2. QED
    BY <2>1 DEF Hands
<1>6. \A x \in Ss \cup {ErrClosed} : Got(x) \in Cs
  BY <1>2, <1>3, CallIs
<1>7. Hands(call[g]) = {}
  BY <1>3, <1>5
<1>8. \/ sock' = sock /\ call' = [call EXCEPT ![g] = Got(ErrClosed)]
      \/ /\ sock[l].queue # <<>> /\ sock' = [sock EXCEPT ![l].queue = Tail(sock[l].queue)]
         /\ call' = [call EXCEPT ![g] = Got(Head(sock[l].queue))]
  BY <1>4 DEF Accepts, Goes
<1> HIDE DEF Got
<1>9. CASE sock' = sock /\ call' = [call EXCEPT ![g] = Got(ErrClosed)]
  <2>1. Hands(Got(ErrClosed)) = Hands(call[g]) /\ Got(ErrClosed) \in Cs
    BY <1>5, <1>6, <1>7
  <2>2. QED
    BY <1>1, <1>2, <1>9, <2>1, CallKeeps
<1>10. CASE /\ sock[l].queue # <<>> /\ sock' = [sock EXCEPT ![l].queue = Tail(sock[l].queue)]
            /\ call' = [call EXCEPT ![g] = Got(Head(sock[l].queue))]
  <2>1. PICK q : q = sock[l].queue
    OBVIOUS
  <2>2. /\ q \in Seq(Ss) /\ q # <<>> /\ Len(q) \in Nat /\ Len(q) > 0 /\ DOMAIN q = 1 .. Len(q)
        /\ \A i, j \in DOMAIN q : q[i] = q[j] => i = j
    BY <1>1, <1>3, <1>10, <2>1, EmptySeq DEF Sockets, NetInv, SockInv
  <2>3. /\ Head(q) = q[1] /\ 1 \in DOMAIN q /\ Head(q) \in Ss /\ Tail(q) \in Seq(Ss)
        /\ DOMAIN Tail(q) = 1 .. Len(q) - 1 /\ \A i \in 1 .. Len(q) - 1 : Tail(q)[i] = q[i + 1]
    BY <2>2, HeadTailProperties
  <2>4. PICK s \in Ss : s = Head(q)
    BY <2>3
  <2>5. /\ DOMAIN sock' = Ss /\ sock'[l].queue = Tail(q) /\ sock'[l].open = sock[l].open
        /\ sock'[l].addr = sock[l].addr /\ sock'[l] \in Sockets(Ss)
        /\ \A x \in Ss : x # l => sock'[x] = sock[x]
    BY <1>1, <1>3, <1>10, <2>1, <2>3 DEF Sockets
  <2>6. call'[g] = Got(s) /\ \A h \in Calls \ {g} : call'[h] = call[h]
    BY <1>1, <1>10, <2>1, <2>4
  <2>7. Got(s) \in Cs /\ Hands(Got(s)) = {s}
    BY <1>1, <1>5, <1>6 DEF ErrClosed
  <2>8. NetTypeOK'
    <3>1. sock' \in [Ss -> Sockets(Ss)] /\ call' \in [Calls -> Cs]
      BY <1>1, <1>10, <2>1, <2>4, <2>5, <2>7
    <3>2. QED
      BY <1>1, <1>2, <2>5, <3>1 DEF NetInv, NetTypeOK, NextID, NextSid
  <2>9. SockInv'
    <3>1. \A a \in Local : at'[a] # None => sock'[at'[a]].addr = a
      BY <1>1, <1>2, <2>5 DEF NetInv, SockInv
    <3>2. \A x \in Ss : sock'[x].addr = sock[x].addr
      BY <2>5
    <3>3. ASSUME NEW x \in Ss
          PROVE  /\ sock'[x].addr = None => sock'[x].queue = <<>>
                 /\ \A i \in DOMAIN sock'[x].queue : sock'[sock'[x].queue[i]].addr = None
                 /\ \A i, j \in DOMAIN sock'[x].queue : sock'[x].queue[i] = sock'[x].queue[j] => i = j
      <4>1. /\ sock[x].addr = None => sock[x].queue = <<>>
            /\ \A i \in DOMAIN sock[x].queue : sock[sock[x].queue[i]].addr = None /\ sock[x].queue[i] \in Ss
            /\ \A i, j \in DOMAIN sock[x].queue : sock[x].queue[i] = sock[x].queue[j] => i = j
        BY <1>1 DEF NetInv, SockInv, Sockets
      <4>2. CASE x # l
        BY <2>5, <3>2, <4>1, <4>2
      <4>3. CASE x = l
        <5>1. sock[l].addr # None
          BY <2>1, <2>2, <4>1, <4>3
        <5>2. \A i \in DOMAIN Tail(q) : i + 1 \in DOMAIN q /\ Tail(q)[i] = q[i + 1] /\ q[i + 1] \in Ss
          BY <2>2, <2>3
        <5>3. \A i \in DOMAIN Tail(q) : sock'[Tail(q)[i]].addr = None
          BY <2>1, <3>2, <4>1, <4>3, <5>2
        <5>4. \A i, j \in DOMAIN Tail(q) : Tail(q)[i] = Tail(q)[j] => i = j
          BY <2>2, <2>3, <5>2
        <5>5. QED
          BY <2>5, <4>3, <5>1, <5>3, <5>4, ZenonT(60)
      <4>4. QED
        BY <4>2, <4>3
    <3>4. QED
      BY <2>5, <3>1, <3>3 DEF SockInv
  <2>10. StateTells'
    BY <1>2 DEF NetInv, StateTells
  <2>11. OwnInv'
    <3>1. \A r, t : InRes(r, t)' <=> InRes(r, t)
      BY <1>2 DEF InRes
    <3>2. \A h, t : h # g => (InCall(h, t)' <=> InCall(h, t))
      BY <2>6 DEF InCall
    <3>3. \A t : ~InCall(g, t) /\ (InCall(g, t)' <=> t = s)
      BY <1>7, <2>6, <2>7 DEF InCall
    <3>4. InLog(l, s) /\ ~InLog(l, s)'
      <4>1. ~\E i \in DOMAIN Tail(q) : Tail(q)[i] = s
        BY <2>2, <2>3, <2>4
      <4>2. QED
        BY <1>3, <2>1, <2>3, <2>4, <2>5, <4>1 DEF InLog
    <3>5. \A t : t # s => (InLog(l, t)' <=> InLog(l, t))
      <4>1. ASSUME NEW t, t # s
            PROVE  (\E i \in DOMAIN Tail(q) : Tail(q)[i] = t) <=> \E i \in DOMAIN q : q[i] = t
        <5>1. ASSUME NEW i \in DOMAIN q, q[i] = t
              PROVE  \E j \in DOMAIN Tail(q) : Tail(q)[j] = t
          <6>1. i # 1
            BY <2>3, <2>4, <4>1, <5>1
          <6>2. PICK j \in Nat : j = i - 1
            BY <2>2, <6>1
          <6>3. j \in 1 .. Len(q) - 1 /\ q[j + 1] = t
            BY <2>2, <5>1, <6>1, <6>2
          <6>4. QED
            BY <2>3, <6>3
        <5>2. QED
          BY <2>2, <2>3, <5>1
      <4>2. \A t : InLog(l, t) <=> \E i \in DOMAIN q : q[i] = t
        BY <1>3, <2>1 DEF InLog
      <4>3. \A t : InLog(l, t)' <=> \E i \in DOMAIN Tail(q) : Tail(q)[i] = t
        BY <1>3, <2>5 DEF InLog
      <4>4. QED
        BY <4>1, <4>2, <4>3
    <3>6. \A x, t : x # l => (InLog(x, t)' <=> InLog(x, t))
      BY <2>5 DEF InLog
    <3>7. ASSUME NEW t \in Ss, sock'[t].open, t \notin dropped'
          PROVE  OneHolder(t)'
      <4>1. OneHolder(t)
        BY <1>2, <2>5, <3>7 DEF NetInv, OwnInv
      <4>2. CASE t = s
        BY <3>1, <3>2, <3>3, <3>4, <3>6, <4>1, <4>2 DEF OneHolder
      <4>3. CASE t # s
        BY <3>1, <3>2, <3>3, <3>5, <3>6, <4>1, <4>3 DEF OneHolder
      <4>4. QED
        BY <4>2, <4>3
    <3>8. QED
      BY <2>5, <3>7 DEF OwnInv
  <2>12. QED
    BY <2>8, <2>9, <2>10, <2>11 DEF NetInv
<1>11. QED
  BY <1>8, <1>9, <1>10

-----------------------------------------------------------------------------
(* New sockets.                                                            *)

\* The sockets of Fresh are new; call g gets those of H, the backlog of listener
\* l gets connection k, each of the new ones is in one of these two.
Grown(Fresh, g, H, l, k) ==
  /\ Fresh \cap DOMAIN sock = {} /\ DOMAIN sock' = DOMAIN sock \cup Fresh
  /\ NextSid' \in Nat \ {0} /\ DOMAIN sock' = 1 .. NextSid' - 1 /\ NextSid' - 1 <= MaxSock
  /\ H \in SUBSET Fresh /\ l \in DOMAIN sock \cup {None}
  /\ UNCHANGED <<resources, dropped>> /\ made' \in Nat
  /\ call' \in [Calls -> CallRecords(DOMAIN resources, DOMAIN sock')] /\ (H = {} \/ g \in Calls)
  /\ \A h \in Calls : Hands(call'[h]) = Hands(call[h]) \cup IF h = g THEN H ELSE {}
  /\ \E T : sock' \in [DOMAIN sock' -> T]
  /\ \A s \in DOMAIN sock : s # l => sock'[s] = sock[s]
  /\ l # None => /\ sock'[l] = [sock[l] EXCEPT !.queue = Append(sock[l].queue, k)]
                 /\ k \in Fresh /\ sock'[k].addr = None /\ sock[l].addr # None
  /\ \A s \in Fresh : /\ sock'[s].queue = <<>> /\ sock'[s] \in Sockets({})
                      /\ s \in H <=> ~(l # None /\ s = k)
  /\ at' \in [Local -> DOMAIN sock' \cup {None}]
  /\ \A a \in Local : at'[a] = at[a] \/ (at'[a] \in Fresh /\ sock'[at'[a]].addr = a)

LEMMA GrowKeeps ==
  ASSUME NetInv, NEW Fresh, NEW g, NEW H, NEW l, NEW k, Grown(Fresh, g, H, l, k)
  PROVE  NetInv'
<1> USE DEF Grown
<1> DEFINE Ss == DOMAIN sock
           Ts == DOMAIN sock'
<1>1. /\ Ts = Ss \cup Fresh /\ Ss \subseteq Ts /\ Fresh \cap Ss = {} /\ Ts \subseteq Nat \ {0} /\ None \notin Ts
      /\ sock \in [Ss -> Sockets(Ss)] /\ at \in [Local -> Ss \cup {None}]
      /\ resources \in [DOMAIN resources -> Conns(Ss)] /\ dropped \subseteq Ss
  <2>1. Ts \subseteq Nat \ {0} /\ None \notin Ts
    BY NoneIsNothing
  <2>2. QED
    BY <2>1 DEF NetInv, NetTypeOK
<1>2. Sockets(Ss) \subseteq Sockets(Ts) /\ Conns(Ss) \subseteq Conns(Ts) /\ Sockets({}) \subseteq Sockets(Ts)
  BY <1>1, SocketsGrow
<1>4. ASSUME l # None
      PROVE  \E q \in Seq(Ss) :
               /\ q = sock[l].queue /\ sock'[l].queue = Append(q, k) /\ Append(q, k) \in Seq(Ts)
               /\ Len(q) \in Nat /\ DOMAIN q = 1 .. Len(q) /\ DOMAIN Append(q, k) = 1 .. Len(q) + 1
               /\ Append(q, k)[Len(q) + 1] = k /\ \A i \in 1 .. Len(q) : Append(q, k)[i] = q[i] /\ q[i] \in Ss
  <2>1. PICK q : q = sock[l].queue
    OBVIOUS
  <2>2. q \in Seq(Ss) /\ sock'[l].queue = Append(q, k)
    <3>1. l \in Ss /\ sock[l] \in [addr : Local \cup {None}, open : BOOLEAN, queue : Seq(Ss)]
      BY <1>1, <1>4 DEF Sockets
    <3>2. sock'[l] = [sock[l] EXCEPT !.queue = Append(q, k)]
      BY <1>4, <2>1
    <3>3. QED
      BY <2>1, <3>1, <3>2
  <2>3. q \in Seq(Ts) /\ k \in Ts
    BY <1>1, <1>4, <2>2, SeqMonotonic
  <2>4. Len(q) \in Nat /\ DOMAIN q = 1 .. Len(q) /\ \A i \in 1 .. Len(q) : q[i] \in Ss
    BY <2>2
  <2>5. /\ Append(q, k) \in Seq(Ts) /\ DOMAIN Append(q, k) = 1 .. Len(q) + 1
        /\ Append(q, k)[Len(q) + 1] = k /\ \A i \in 1 .. Len(q) : Append(q, k)[i] = q[i]
    BY <2>3, AppendProperties
  <2>6. QED
    BY <2>1, <2>2, <2>4, <2>5, SMTT(30)
<1>5. \A s \in Ss : sock'[s].addr = sock[s].addr /\ sock'[s].open = sock[s].open /\ sock'[s] \in Sockets(Ts)
  <2>1. ASSUME l # None
        PROVE  sock'[l].addr = sock[l].addr /\ sock'[l].open = sock[l].open /\ sock'[l] \in Sockets(Ts)
    <3>1. PICK y : y = Append(sock[l].queue, k)
      OBVIOUS
    <3>2. l \in Ss /\ sock[l] \in [addr : Local \cup {None}, open : BOOLEAN, queue : Seq(Ss)]
      BY <1>1, <2>1 DEF Sockets
    <3>3. sock'[l] = [sock[l] EXCEPT !.queue = y] /\ y \in Seq(Ts)
      BY <1>4, <2>1, <3>1
    <3>4. QED
      BY <3>2, <3>3 DEF Sockets
  <2>2. \A s \in Ss : s # l => sock'[s] = sock[s] /\ sock[s] \in Sockets(Ts)
    BY <1>1, <1>2
  <2> HIDE DEF Ss, Ts
  <2>3. ASSUME NEW s \in Ss
        PROVE  sock'[s].addr = sock[s].addr /\ sock'[s].open = sock[s].open /\ sock'[s] \in Sockets(Ts)
    <3>1. CASE s # l
      BY <2>2, <3>1
    <3>2. CASE s = l
      BY <1>1, <2>1, <3>2
    <3>3. QED
      BY <3>1, <3>2
  <2>4. QED
    BY <2>3
<1> HIDE DEF Ss, Ts
<1>6. NetTypeOK'
  <2>1. \A s \in Ts : sock'[s] \in Sockets(Ts)
    BY <1>1, <1>2, <1>5
  <2>2. sock' \in [Ts -> Sockets(Ts)] /\ call' \in [Calls -> CallRecords(DOMAIN resources, Ts)]
    BY <2>1 DEF Ts
  <2>3. at' \in [Local -> Ts \cup {None}] /\ DOMAIN sock' = Ts
    BY DEF Ts
  <2>5. resources' \in [DOMAIN resources' -> Conns(Ts)]
    BY <1>1, <1>2
  <2>6. /\ NextID' \in Nat /\ DOMAIN resources' = 1 .. NextID' /\ DOMAIN resources' = DOMAIN resources
        /\ dropped' \subseteq Ts
    BY <1>1 DEF NetInv, NetTypeOK, NextID
  <2>7. QED
    BY <2>2, <2>3, <2>5, <2>6 DEF NetTypeOK, Ts
<1>7. SockInv'
  <2>1. \A a \in Local : at'[a] # None => sock'[at'[a]].addr = a
    <3>1. \A a \in Local : at[a] # None => at[a] \in Ss /\ sock[at[a]].addr = a
      BY <1>1 DEF NetInv, SockInv
    <3>2. QED
      BY <1>1, <1>5, <3>1
  <2>2. ASSUME NEW s \in Ts
        PROVE  /\ sock'[s].addr = None => sock'[s].queue = <<>>
               /\ \A i \in DOMAIN sock'[s].queue : sock'[sock'[s].queue[i]].addr = None
               /\ \A i, j \in DOMAIN sock'[s].queue : sock'[s].queue[i] = sock'[s].queue[j] => i = j
    <3>1. CASE s \notin Ss
      BY <1>1, <2>2, <3>1
    <3>2. ASSUME s \in Ss
          PROVE  /\ sock[s].addr = None => sock[s].queue = <<>>
                 /\ \A i \in DOMAIN sock[s].queue : sock'[sock[s].queue[i]].addr = None /\ sock[s].queue[i] \in Ss
                 /\ \A i, j \in DOMAIN sock[s].queue : sock[s].queue[i] = sock[s].queue[j] => i = j
      <4>1. \A i \in DOMAIN sock[s].queue : sock[sock[s].queue[i]].addr = None /\ sock[s].queue[i] \in Ss
        BY <1>1, <3>2 DEF NetInv, SockInv, Sockets, Ss
      <4>2. QED
        BY <1>5, <3>2, <4>1 DEF NetInv, SockInv, Ss
    <3>3. CASE s \in Ss /\ s # l
      BY <1>1, <3>2, <3>3
    <3>4. CASE s \in Ss /\ s = l
      <4>1. l # None
        BY <1>1, <3>4
      <4>2. PICK q \in Seq(Ss) :
               /\ q = sock[l].queue /\ sock'[l].queue = Append(q, k) /\ Append(q, k) \in Seq(Ts)
               /\ Len(q) \in Nat /\ DOMAIN q = 1 .. Len(q) /\ DOMAIN Append(q, k) = 1 .. Len(q) + 1
               /\ Append(q, k)[Len(q) + 1] = k /\ \A i \in 1 .. Len(q) : Append(q, k)[i] = q[i] /\ q[i] \in Ss
        BY <1>4, <4>1
      <4>3. sock'[l].addr # None /\ sock'[k].addr = None /\ k \notin Ss
        BY <1>1, <1>5, <3>4, <4>1
      <4>4. /\ \A i \in DOMAIN q : sock'[q[i]].addr = None
            /\ \A i, j \in DOMAIN q : q[i] = q[j] => i = j
        BY <3>2, <3>4, <4>2
      <4>5. \A i \in 1 .. Len(q) + 1 : i \in 1 .. Len(q) \/ i = Len(q) + 1
        BY <4>2
      <4>6. \A i \in 1 .. Len(q) + 1 : sock'[Append(q, k)[i]].addr = None
        BY <4>2, <4>3, <4>4, <4>5
      <4>7. \A i, j \in 1 .. Len(q) + 1 : Append(q, k)[i] = Append(q, k)[j] => i = j
        BY <4>2, <4>3, <4>4, <4>5
      <4>8. PICK w : w = sock'[s].queue
        OBVIOUS
      <4>9. w = Append(q, k) /\ DOMAIN w = 1 .. Len(q) + 1
        BY <3>4, <4>2, <4>8
      <4>10. sock'[s].addr # None
        BY <3>4, <4>3
      <4>11. QED
        BY <4>6, <4>7, <4>8, <4>9, <4>10
    <3>5. QED
      BY <3>1, <3>3, <3>4
  <2>3. QED
    BY <2>1, <2>2 DEF SockInv, Ts
<1>8. StateTells'
  BY DEF NetInv, StateTells
<1>9. OwnInv'
  <2>1. \A r, s : (InRes(r, s)' <=> InRes(r, s)) /\ (InRes(r, s) => s \in Ss)
    BY Facts DEF InRes, NetInv, NetTypeOK, Conns, Held, Ss
  <2>2. \A h, s : InCall(h, s)' <=> InCall(h, s) \/ (h = g /\ s \in H)
    BY DEF InCall
  <2>3. \A h, s : InCall(h, s) => s \in Ss
    BY Facts DEF InCall, Ss
  <2>4. \A x, s : InLog(x, s) => s \in Ss
    BY <1>1 DEF InLog, Sockets, Ss
  <2>5. \A x, s : InLog(x, s)' <=> InLog(x, s) \/ (l # None /\ x = l /\ s = k)
    <3>1. ASSUME NEW x, x # l, NEW s
          PROVE  InLog(x, s)' <=> InLog(x, s)
      BY <1>1, <3>1 DEF InLog, Ss, Ts
    <3>2. ASSUME l # None, NEW s
          PROVE  InLog(l, s)' <=> InLog(l, s) \/ s = k
      <4>1. PICK q \in Seq(Ss) :
               /\ q = sock[l].queue /\ sock'[l].queue = Append(q, k) /\ Append(q, k) \in Seq(Ts)
               /\ Len(q) \in Nat /\ DOMAIN q = 1 .. Len(q) /\ DOMAIN Append(q, k) = 1 .. Len(q) + 1
               /\ Append(q, k)[Len(q) + 1] = k /\ \A i \in 1 .. Len(q) : Append(q, k)[i] = q[i] /\ q[i] \in Ss
        BY <1>4, <3>2
      <4>2. (\E i \in 1 .. Len(q) + 1 : Append(q, k)[i] = s) <=> (\E i \in 1 .. Len(q) : q[i] = s) \/ s = k
        <5>1. \A i \in 1 .. Len(q) + 1 : i \in 1 .. Len(q) \/ i = Len(q) + 1
          BY <4>1
        <5>2. Len(q) + 1 \in 1 .. Len(q) + 1 /\ 1 .. Len(q) \subseteq 1 .. Len(q) + 1
          BY <4>1
        <5>3. QED
          BY <4>1, <5>1, <5>2
      <4>3. l \in DOMAIN sock /\ l \in DOMAIN sock'
        BY <1>1, <3>2 DEF Ss, Ts
      <4>4. InLog(l, s) <=> \E i \in 1 .. Len(q) : q[i] = s
        BY <4>1, <4>3 DEF InLog
      <4>5. InLog(l, s)' <=> \E i \in 1 .. Len(q) + 1 : Append(q, k)[i] = s
        BY <4>1, <4>3 DEF InLog
      <4>6. QED
        BY <4>2, <4>4, <4>5
    <3>3. \A s : ~InLog(None, s) /\ ~InLog(None, s)'
      BY <1>1 DEF InLog, Ss, Ts
    <3>4. QED
      BY <3>1, <3>2, <3>3
  <2>6. ASSUME NEW s \in Ss, sock'[s].open, s \notin dropped'
        PROVE  OneHolder(s)'
    <3>1. OneHolder(s)
      BY <1>5, <2>6 DEF NetInv, OwnInv, Ss
    <3>2. s \notin H /\ (l # None => s # k)
      BY <1>1
    <3>3. QED
      BY <2>1, <2>2, <2>5, <3>1, <3>2 DEF OneHolder
  <2>7. ASSUME NEW s \in Ts \ Ss
        PROVE  OneHolder(s)'
    <3>1. \A r : ~InRes(r, s)'
      BY <2>1, <2>7
    <3>2. \A h : InCall(h, s)' <=> h = g /\ s \in H
      BY <2>2, <2>3, <2>7
    <3>3. \A x : InLog(x, s)' <=> l # None /\ x = l /\ s = k
      BY <2>4, <2>5, <2>7
    <3>4. s \in H <=> ~(l # None /\ s = k)
      BY <1>1, <2>7
    <3>5. CASE s \in H
      <4>1. InCall(g, s)'
        BY <3>2, <3>5
      <4>2. QED
        BY <3>1, <3>2, <3>3, <3>4, <3>5, <4>1 DEF OneHolder
    <3>6. CASE l # None /\ s = k
      <4>1. InLog(l, s)'
        BY <3>3, <3>6
      <4>2. QED
        BY <3>1, <3>2, <3>3, <3>4, <3>6, <4>1 DEF OneHolder
    <3>7. QED
      BY <3>4, <3>5, <3>6
  <2>8. QED
    BY <1>1, <2>6, <2>7 DEF OwnInv, Ss, Ts
<1>10. QED
  BY <1>6, <1>7, <1>8, <1>9 DEF NetInv

\* What a numbered table of sockets is with one more
OneMore(F, f, k, b) ==
  /\ DOMAIN F = 1 .. k /\ DOMAIN F = DOMAIN f \cup {k} /\ k \notin DOMAIN f
  /\ (\E T : F \in [DOMAIN F -> T]) /\ Cardinality(DOMAIN F) + 1 = k + 1
  /\ \A s \in DOMAIN f : F[s] = f[s]
  /\ F[k].queue = <<>> /\ F[k].addr = b /\ F[k] \in Sockets({})

LEMMA NewSocket ==
  ASSUME NEW n \in Nat, NEW f, DOMAIN f = 1 .. n, NEW b, b \in Local \cup {None}, NEW k, k = n + 1
  PROVE  OneMore(Added(f, Listener(b)), f, k, b)
<1> DEFINE F == Added(f, Listener(b))
<1>1. /\ DOMAIN F = 1 .. k /\ F[k] = Listener(b) /\ \A s \in 1 .. n : F[s] = f[s]
      /\ F = [s \in 1 .. k |-> F[s]] /\ Cardinality(1 .. k) = k
  BY AddedIs
<1>2. 1 .. k = (1 .. n) \cup {k} /\ k \notin 1 .. n /\ k \in Nat
  OBVIOUS
<1>3. Listener(b).queue = <<>> /\ Listener(b).addr = b /\ Listener(b) \in Sockets({})
  <2>1. <<>> \in Seq({})
    OBVIOUS
  <2>2. QED
    BY <2>1 DEF Listener, Sockets
<1>4. PICK T : T = {F[s] : s \in 1 .. k}
  OBVIOUS
<1>5. F \in [1 .. k -> T]
  <2>1. \A s \in 1 .. k : F[s] \in T
    BY <1>4
  <2>2. QED
    BY <1>1, <2>1
<1>6. QED
  BY <1>1, <1>2, <1>3, <1>5 DEF OneMore

\* What a table of sockets is with a connection that waits for a listener
OneWaits(q, l, k) ==
  /\ l \in DOMAIN sock /\ l # None /\ sock[l].addr # None
  /\ DOMAIN q = DOMAIN sock
  /\ q[l] = [sock[l] EXCEPT !.queue = Append(sock[l].queue, k)]
  /\ \A s \in DOMAIN sock : s # l => q[s] = sock[s]

LEMMA QueuedIs ==
  ASSUME NetInv, NEW a, Reaches(a), NEW k
  PROVE  OneWaits(Queued(a, k), at[a], k)
<1>1. a \in Local /\ at[a] # None /\ at \in [Local -> DOMAIN sock \cup {None}]
  BY DEF Reaches, NetInv, NetTypeOK
<1>2. at[a] \in DOMAIN sock /\ sock[at[a]].addr = a /\ a # None
  BY <1>1, NoneIsNothing DEF NetInv, SockInv
<1>3. sock \in [DOMAIN sock -> Sockets(DOMAIN sock)]
  BY DEF NetInv, NetTypeOK
<1>4. QED
  BY <1>1, <1>2, <1>3 DEF Queued, OneWaits

\* What one call becomes, when sockets are new
LEMMA CallGrows ==
  ASSUME NetInv, NEW g \in Calls, NEW T, DOMAIN sock \subseteq T,
         NEW c \in CallRecords(DOMAIN resources, T), call' = [call EXCEPT ![g] = c],
         Hands(call[g]) = {}, NEW H, Hands(c) = H
  PROVE  /\ call' \in [Calls -> CallRecords(DOMAIN resources, T)]
         /\ \A h \in Calls : Hands(call'[h]) = Hands(call[h]) \cup IF h = g THEN H ELSE {}
<1>1. CallRecords(DOMAIN resources, DOMAIN sock) \subseteq CallRecords(DOMAIN resources, T)
  BY CallsGrow
<1>2. call \in [Calls -> CallRecords(DOMAIN resources, DOMAIN sock)]
  BY DEF NetInv, NetTypeOK
<1>3. QED
  BY <1>1, <1>2

\* A dial, a listen, and a connection from outside
LEMMA GrowSteps ==
  ASSUME NetInv, NEW g, \/ g \in Calls /\ (DialConnects(g) \/ AnnounceListens(g))
                        \/ \E a \in Local : PeerConnects(a)
  PROVE  NetInv'
<1> DEFINE Rs == DOMAIN resources
           Ss == DOMAIN sock
           Cs == CallRecords(Rs, Ss)
<1>0. PICK n \in Nat, k \in Nat : NextSid = k /\ k = n + 1 /\ Ss = 1 .. n
  <2>1. NextSid \in Nat \ {0} /\ Ss = 1 .. NextSid - 1
    BY DEF NetInv, NetTypeOK
  <2>2. PICK n \in Nat : n = NextSid - 1
    BY <2>1
  <2>3. QED
    BY <2>1, <2>2
<1>1. /\ call \in [Calls -> Cs] /\ Ss \subseteq Nat \ {0} /\ None \notin Ss
      /\ at \in [Local -> Ss \cup {None}] /\ made \in Nat /\ Far \notin Local
  BY NoneIsNothing, <1>0 DEF NetInv, NetTypeOK
<1>2. ASSUME g \in Calls, UNCHANGED <<resources, dropped, made>>, k <= MaxSock,
             NEW b \in Local \cup {None}, sock' = Added(sock, Listener(b)),
             NEW c \in CallRecords(Rs, 1 .. k), call' = [call EXCEPT ![g] = c],
             Hands(call[g]) = {}, Hands(c) = {k},
             at' = at \/ (b \in Local /\ at' = [at EXCEPT ![b] = k])
      PROVE  NetInv'
  <2>1. /\ DOMAIN sock' = 1 .. k /\ DOMAIN sock' = Ss \cup {k} /\ k \notin Ss
        /\ (\E T : sock' \in [DOMAIN sock' -> T]) /\ NextSid' = k + 1
        /\ \A s \in Ss : sock'[s] = sock[s]
        /\ sock'[k].queue = <<>> /\ sock'[k].addr = b /\ sock'[k] \in Sockets({})
    <3>1. PICK F : F = Added(sock, Listener(b))
      OBVIOUS
    <3>2. OneMore(F, sock, k, b)
      BY <1>0, <3>1, NewSocket
    <3>3. sock' = F
      BY <1>2, <3>1
    <3>4. QED
      BY <3>2, <3>3 DEF NextSid, OneMore
  <2>2. Ss \subseteq DOMAIN sock' /\ CallRecords(Rs, 1 .. k) = CallRecords(Rs, DOMAIN sock')
    BY <2>1
  <2>3. /\ call' \in [Calls -> CallRecords(Rs, DOMAIN sock')]
        /\ \A h \in Calls : Hands(call'[h]) = Hands(call[h]) \cup IF h = g THEN {k} ELSE {}
    BY <1>2, <2>2, CallGrows
  <2>4. /\ at' \in [Local -> DOMAIN sock' \cup {None}]
        /\ \A a \in Local : at'[a] = at[a] \/ (at'[a] \in {k} /\ sock'[at'[a]].addr = a)
    BY <1>1, <1>2, <2>1, ZenonT(60)
  <2>5. NextSid' \in Nat \ {0} /\ DOMAIN sock' = 1 .. NextSid' - 1 /\ NextSid' - 1 <= MaxSock
    BY <1>0, <1>2, <2>1
  <2> HIDE DEF Rs, Cs
  <2>6. \A s \in {k} : /\ sock'[s].queue = <<>> /\ sock'[s] \in Sockets({})
                       /\ s \in {k} <=> ~(None # None /\ s = k)
    BY <2>1
  <2>7. /\ {k} \cap Ss = {} /\ DOMAIN sock' = Ss \cup {k} /\ {k} \in SUBSET {k} /\ None \in Ss \cup {None}
        /\ made' \in Nat /\ UNCHANGED <<resources, dropped>> /\ g \in Calls
    BY <1>1, <1>2, <2>1
  <2>8. \A s \in Ss : s # None => sock'[s] = sock[s]
    BY <2>1
  <2>9. QED
    <3>1. Grown({k}, g, {k}, None, k)
      BY <2>1, <2>3, <2>4, <2>5, <2>6, <2>7, <2>8 DEF Rs, Grown
    <3>2. QED
      BY <3>1, GrowKeeps
<1>3. ASSUME g \in Calls, UNCHANGED <<resources, dropped, made, at>>, k + 1 <= MaxSock, NEW a, Reaches(a),
             sock' = Added(Added(Queued(a, k + 1), Connection), Connection),
             NEW c \in CallRecords(Rs, 1 .. k + 1), call' = [call EXCEPT ![g] = c],
             Hands(call[g]) = {}, Hands(c) = {k}
      PROVE  NetInv'
  <2>1. PICK l, j, q : l = at[a] /\ j = k + 1 /\ j \in Nat /\ q = Queued(a, j)
    BY <1>0
  <2>2. PICK F, E : F = Added(q, Connection) /\ E = Added(F, Connection)
    OBVIOUS
  <2>3. OneWaits(q, l, j)
    BY <1>3, <2>1, QueuedIs
  <2>4. OneMore(F, q, k, None)
    <3>1. DOMAIN q = 1 .. n
      BY <1>0, <2>3 DEF OneWaits
    <3>2. QED
      BY <1>0, <2>2, <3>1, NewSocket DEF Connection
  <2>5. OneMore(E, F, j, None)
    <3>1. DOMAIN F = 1 .. k
      BY <2>4 DEF OneMore
    <3>2. QED
      BY <1>0, <2>1, <2>2, <3>1, NewSocket DEF Connection
  <2>6. sock' = E /\ NextSid' = j + 1
    BY <1>3, <2>1, <2>2, <2>5 DEF NextSid, OneMore
  <2>s. /\ DOMAIN E = 1 .. j /\ DOMAIN E = Ss \cup {k, j} /\ k \notin Ss /\ j \notin Ss /\ j # k
        /\ \A s \in Ss : E[s] = q[s]
        /\ E[k].queue = <<>> /\ E[k].addr = None /\ E[k] \in Sockets({})
        /\ E[j].queue = <<>> /\ E[j].addr = None /\ E[j] \in Sockets({})
        /\ \E T : E \in [DOMAIN E -> T]
    BY <2>3, <2>4, <2>5 DEF OneMore, OneWaits
  <2>w. /\ l \in Ss /\ l # None /\ sock[l].addr # None
        /\ q[l] = [sock[l] EXCEPT !.queue = Append(sock[l].queue, j)]
        /\ \A s \in Ss : s # l => q[s] = sock[s]
    BY <2>3 DEF OneWaits
  <2>7. CallRecords(Rs, 1 .. k + 1) = CallRecords(Rs, DOMAIN sock')
    BY <2>1, <2>s, <2>6
  <2>8. /\ call' \in [Calls -> CallRecords(Rs, DOMAIN sock')]
        /\ \A h \in Calls : Hands(call'[h]) = Hands(call[h]) \cup IF h = g THEN {k} ELSE {}
    <3>1. Ss \subseteq DOMAIN sock' /\ c \in CallRecords(Rs, DOMAIN sock')
      BY <1>3, <2>s, <2>6, <2>7
    <3>2. QED
      BY <1>3, <3>1, CallGrows, ZenonT(60)
  <2>9. /\ at' \in [Local -> DOMAIN sock' \cup {None}] /\ \A b \in Local : at'[b] = at[b]
    BY <1>1, <1>3, <2>s, <2>6
  <2>10. NextSid' \in Nat \ {0} /\ DOMAIN sock' = 1 .. NextSid' - 1 /\ NextSid' - 1 <= MaxSock
    BY <1>0, <1>3, <2>1, <2>s, <2>6
  <2> HIDE DEF Rs, Cs
  <2>11. /\ \A s \in {k, j} : /\ sock'[s].queue = <<>> /\ sock'[s] \in Sockets({})
                              /\ s \in {k} <=> ~(l # None /\ s = j)
         /\ sock'[j].addr = None
    BY <2>s, <2>w, <2>6
  <2>12. /\ {k, j} \cap Ss = {} /\ DOMAIN sock' = Ss \cup {k, j} /\ {k} \in SUBSET {k, j} /\ l \in Ss \cup {None}
         /\ made' \in Nat /\ UNCHANGED <<resources, dropped>> /\ g \in Calls /\ \E T : sock' \in [DOMAIN sock' -> T]
    BY <1>1, <1>3, <2>s, <2>w, <2>6
  <2>13. /\ \A s \in Ss : s # l => sock'[s] = sock[s]
         /\ sock'[l] = [sock[l] EXCEPT !.queue = Append(sock[l].queue, j)]
    BY <2>s, <2>w, <2>6
  <2>14. Grown({k, j}, g, {k}, l, j)
    BY <2>w, <2>8, <2>9, <2>10, <2>11, <2>12, <2>13 DEF Rs, Grown
  <2>15. QED
    BY <2>14, GrowKeeps
<1>4. CASE g \in Calls /\ DialConnects(g)
  <2> DEFINE c == [op |-> "dialled", rid |-> call[g].rid, conn |-> k]
  <2>1. PICK a : a = call[g].addr
    OBVIOUS
  <2>2. /\ call[g].op = "dial" /\ UNCHANGED <<resources, at, dropped, made>>
        /\ call' = [call EXCEPT ![g] = c]
        /\ \/ a = Far /\ k <= MaxSock /\ sock' = Added(sock, Connection)
           \/ /\ Reaches(a) /\ k + 1 <= MaxSock
              /\ sock' = Added(Added(Queued(a, k + 1), Connection), Connection)
    BY <1>0, <1>4, <2>1 DEF DialConnects, Goes
  <2>3. call[g].rid \in Rs /\ Hands(call[g]) = {} /\ Hands(c) = {k}
    <3>1. call[g] \in Cs
      BY <1>1, <1>4
    <3>2. call[g].rid \in Rs
      BY <1>1, <2>2, <3>1, CallFields
    <3>3. QED
      BY <2>2, <3>2, NoHands DEF Hands
  <2>4. c \in CallRecords(Rs, 1 .. k) /\ c \in CallRecords(Rs, 1 .. k + 1)
    <3>1. k \in 1 .. k /\ k \in 1 .. k + 1
      BY <1>0
    <3>2. QED
      BY <2>3, <3>1, CallIs
  <2> HIDE DEF c
  <2>5. CASE k <= MaxSock /\ sock' = Added(sock, Connection)
    BY <1>2, <1>4, <2>2, <2>3, <2>4, <2>5 DEF Connection
  <2>6. CASE /\ Reaches(a) /\ k + 1 <= MaxSock
             /\ sock' = Added(Added(Queued(a, k + 1), Connection), Connection)
    BY <1>3, <1>4, <2>2, <2>3, <2>4, <2>6
  <2>7. QED
    BY <2>2, <2>5, <2>6
<1>5. CASE g \in Calls /\ AnnounceListens(g)
  <2> DEFINE c == [op |-> "announced", rid |-> call[g].rid, ln |-> k]
  <2>1. PICK a : a = call[g].addr
    OBVIOUS
  <2>2. /\ call[g].op = "cleared" /\ UNCHANGED <<resources, dropped, made>> /\ k <= MaxSock
        /\ call' = [call EXCEPT ![g] = c] /\ sock' = Added(sock, Listener(a)) /\ at' = [at EXCEPT ![a] = k]
    BY <1>0, <1>5, <2>1 DEF AnnounceListens, Goes
  <2>3. call[g].rid \in Rs /\ a \in Local /\ Hands(call[g]) = {} /\ Hands(c) = {k}
    <3>1. call[g] \in Cs
      BY <1>1, <1>5
    <3>2. call[g].rid \in Rs /\ call[g].addr \in Local
      BY <1>1, <2>2, <3>1, CallFields
    <3>3. QED
      BY <2>1, <2>2, <3>2, NoHands DEF Hands
  <2>4. c \in CallRecords(Rs, 1 .. k)
    <3>1. k \in 1 .. k
      BY <1>0
    <3>2. QED
      BY <2>3, <3>1, CallIs
  <2> HIDE DEF c
  <2>5. QED
    BY <1>2, <1>5, <2>2, <2>3, <2>4
<1>6. ASSUME NEW a \in Local, PeerConnects(a)
      PROVE  NetInv'
  <2>1. PICK l, q, F : l = at[a] /\ q = Queued(a, k) /\ F = Added(q, Connection)
    OBVIOUS
  <2>2. /\ Reaches(a) /\ k <= MaxSock /\ sock' = F /\ UNCHANGED <<resources, at, call, made, dropped>>
    BY <1>0, <1>6, <2>1 DEF PeerConnects
  <2>3. OneWaits(q, l, k)
    BY <2>1, <2>2, QueuedIs
  <2>4. OneMore(F, q, k, None)
    <3>1. DOMAIN q = 1 .. n
      BY <1>0, <2>3 DEF OneWaits
    <3>2. QED
      BY <1>0, <2>1, <3>1, NewSocket DEF Connection
  <2>s. /\ DOMAIN F = 1 .. k /\ DOMAIN F = Ss \cup {k} /\ k \notin Ss
        /\ \A s \in Ss : F[s] = q[s]
        /\ F[k].queue = <<>> /\ F[k].addr = None /\ F[k] \in Sockets({})
        /\ \E T : F \in [DOMAIN F -> T]
    BY <2>3, <2>4 DEF OneMore, OneWaits
  <2>w. /\ l \in Ss /\ l # None /\ sock[l].addr # None
        /\ q[l] = [sock[l] EXCEPT !.queue = Append(sock[l].queue, k)]
        /\ \A s \in Ss : s # l => q[s] = sock[s]
    BY <2>3 DEF OneWaits
  <2>5. NextSid' = k + 1 /\ NextSid' \in Nat \ {0} /\ DOMAIN sock' = 1 .. NextSid' - 1 /\ NextSid' - 1 <= MaxSock
    BY <1>0, <2>2, <2>4, <2>s DEF NextSid, OneMore
  <2>6. /\ call' \in [Calls -> CallRecords(Rs, DOMAIN sock')]
        /\ \A h \in Calls : Hands(call'[h]) = Hands(call[h]) \cup IF h = g THEN {} ELSE {}
    <3>1. Cs \subseteq CallRecords(Rs, DOMAIN sock')
      BY <2>2, <2>s, CallsGrow
    <3>2. QED
      BY <1>1, <2>2, <3>1
  <2>7. /\ at' \in [Local -> DOMAIN sock' \cup {None}] /\ \A b \in Local : at'[b] = at[b]
    BY <1>1, <2>2, <2>s
  <2> HIDE DEF Rs, Cs
  <2>8. \A s \in {k} : /\ sock'[s].queue = <<>> /\ sock'[s] \in Sockets({})
                       /\ s \in {} <=> ~(l # None /\ s = k)
    BY <2>2, <2>s, <2>w
  <2>9. /\ {k} \cap Ss = {} /\ DOMAIN sock' = Ss \cup {k} /\ {} \in SUBSET {k} /\ l \in Ss \cup {None}
        /\ made' \in Nat /\ UNCHANGED <<resources, dropped>> /\ sock'[k].addr = None /\ k \in {k}
        /\ \E T : sock' \in [DOMAIN sock' -> T]
    BY <1>1, <2>2, <2>s, <2>w
  <2>10. /\ \A s \in Ss : s # l => sock'[s] = sock[s]
         /\ sock'[l] = [sock[l] EXCEPT !.queue = Append(sock[l].queue, k)]
    BY <2>2, <2>s, <2>w
  <2>11. Grown({k}, g, {}, l, k)
    BY <2>w, <2>5, <2>6, <2>7, <2>8, <2>9, <2>10 DEF Rs, Grown
  <2>12. QED
    BY <2>11, GrowKeeps
<1>7. QED
  BY <1>4, <1>5, <1>6

-----------------------------------------------------------------------------
(* The theorems.                                                           *)

LEMMA NetStarts == NetInit => NetInv
<1> SUFFICES ASSUME NetInit PROVE NetInv
  OBVIOUS
<1>1. /\ DOMAIN resources = {} /\ DOMAIN sock = {} /\ 1 .. 0 = {} /\ Cardinality({}) = 0
      /\ at = [a \in Local |-> None] /\ call = [g \in Calls |-> NoCall] /\ made = 0 /\ dropped = {}
  BY FS_EmptySet DEF NetInit
<1>2. NextID = 0 /\ NextSid = 1
  BY <1>1 DEF NextID, NextSid
<1>3. NoCall \in CallRecords({}, {})
  BY CallIs
<1>4. resources \in [{} -> Conns({})] /\ sock \in [{} -> Sockets({})]
  BY <1>1 DEF NetInit
<1>5. NetTypeOK
  BY <1>1, <1>2, <1>3, <1>4, NetAssumption DEF NetTypeOK
<1>6. SockInv /\ StateTells /\ OwnInv
  BY <1>1 DEF SockInv, StateTells, OwnInv
<1>7. QED
  BY <1>5, <1>6 DEF NetInv

LEMMA NetStepsKeep == NetInv /\ [NetNext]_netVars => NetInv'
<1> SUFFICES ASSUME NetInv, [NetNext]_netVars PROVE NetInv'
  OBVIOUS
<1>1. CASE UNCHANGED netVars
  BY <1>1 DEF netVars, NetInv, NetTypeOK, SockInv, StateTells, OwnInv, NextID, NextSid,
              OneHolder, InRes, InCall, InLog
<1>2. ASSUME NEW a \in Local, PeerConnects(a)
      PROVE  NetInv'
  BY <1>2, GrowSteps
<1>3. ASSUME NEW g \in Calls, NEW r, HangupTakes(g, r) \/ OpenListen(g, r)
      PROVE  NetInv'
  <2>1. Far \in Local \cup {Far}
    OBVIOUS
  <2>2. QED
    BY <1>3, <2>1, CtlSteps, QuietKeeps
<1>4. ASSUME NEW g \in Calls, NEW r, NEW a \in Local, Bind(g, r, a) \/ AnnounceChecks(g, r, a)
      PROVE  NetInv'
  BY <1>4, CtlSteps, QuietKeeps
<1>5. ASSUME NEW g \in Calls, NEW r, NEW a \in Local \cup {Far}, DialChecks(g, r, a)
      PROVE  NetInv'
  BY <1>5, QuietKeeps
<1>6. ASSUME NEW g \in Calls, Alloc(g)
      PROVE  NetInv'
  BY <1>6, AllocSteps
<1>7. ASSUME NEW g \in Calls, Cancel(g)
      PROVE  NetInv'
  <2>1. Far \in Local \cup {Far}
    OBVIOUS
  <2>2. QED
    BY <1>7, <2>1, QuietKeeps
<1>8. ASSUME NEW g \in Calls, NetSteps(g)
      PROVE  NetInv'
  <2>1. Far \in Local \cup {Far}
    OBVIOUS
  <2>2. CASE DialFails(g) \/ DialStores(g) \/ AnnounceFails(g) \/ AnnounceStores(g) \/ AcceptStores(g)
    BY <2>2, CtlSteps
  <2>3. CASE AnnounceRemoves(g) \/ AcceptChecks(g) \/ AcceptFails(g)
    BY <2>1, <2>3, QuietKeeps
  <2>4. CASE DialConnects(g) \/ AnnounceListens(g)
    BY <2>4, GrowSteps
  <2>5. CASE HangupCloses(g) \/ AcceptCancelled(g) \/ AcceptEnds(g)
    BY <2>5, CloseSteps
  <2>6. CASE Accepts(g)
    BY <2>6, AcceptsKeeps
  <2>7. CASE AcceptAllocs(g)
    BY <2>7, AllocSteps
  <2>8. QED
    BY <1>8, <2>2, <2>3, <2>4, <2>5, <2>6, <2>7 DEF NetSteps
<1>9. QED
  BY <1>1, <1>2, <1>3, <1>4, <1>5, <1>6, <1>7, <1>8 DEF NetNext

\* The connections, the resources and the calls stay consistent, for any
\* addresses, goroutines and bounds, whichever ctl calls, dials, accepts and
\* hangups overlap: the invariant that the two theorems below follow from.
THEOREM NetInvariance == NetSpec => []NetInv
<1>1. NetInit => NetInv
  BY NetStarts
<1>2. NetInv /\ [NetNext]_netVars => NetInv'
  BY NetStepsKeep
<1>3. QED
  BY <1>1, <1>2, PTL DEF NetSpec

\* A resource says of itself what is so, whichever ctl calls overlapped: its
\* data file opens exactly while it is connected, its listen file is there
\* exactly while it listens (fs/net/tcp, the state and the sockets of a conn).
THEOREM StateIsTold == NetSpec => []StateTells
<1>1. NetInv => StateTells
  BY DEF NetInv
<1>2. QED
  BY <1>1, NetInvariance, PTL

\* The holders that HoldersOf lists are those of OneHolder.
LEMMA HoldersAre ==
  ASSUME NetInv, NEW s \in DOMAIN sock
  PROVE  HoldersOf(s) = {<<"resource", r>> : r \in {x \in DOMAIN resources : InRes(x, s)}}
                          \cup {<<"call", g>> : g \in {x \in Calls : InCall(x, s)}}
                          \cup {<<"backlog", l>> : l \in {x \in DOMAIN sock : InLog(x, s)}}
<1>1. \A r \in DOMAIN resources : s \in Held(resources[r]) <=> InRes(r, s)
  BY DEF InRes
<1>2. \A l \in DOMAIN sock : (\E i \in DOMAIN sock[l].queue : sock[l].queue[i] = s) <=> InLog(l, s)
  BY DEF InLog
<1>3. ASSUME NEW g \in Calls
      PROVE  InCall(g, s) <=> \/ call[g].op = "dialled" /\ call[g].conn = s
                              \/ call[g].op = "announced" /\ call[g].ln = s
                              \/ call[g].op = "hangup" /\ s \in call[g].takes
                              \/ call[g].op \in {"accept", "ending"} /\ call[g].got = s
                              \/ call[g].op = "accepted" /\ call[g].conn = s
  <2>1. s \notin {ErrClosed, None}
    BY Facts, NoneIsNothing DEF ErrClosed
  <2>2. QED
    BY <2>1 DEF InCall, Hands
<1>4. QED
  BY <1>1, <1>2, <1>3 DEF HoldersOf

\* No open socket is leaked or shared, for any addresses, goroutines and bounds:
\* one resource, one running call or one backlog has it, so a hangup or the
\* close of a listener reaches it.
THEOREM SocketsHaveOneHolder == NetSpec => []NoneLost
<1>1. ASSUME NetInv
      PROVE  NoneLost
  <2>1. SUFFICES ASSUME NEW s \in DOMAIN sock, sock[s].open, s \notin dropped
                 PROVE  Cardinality(HoldersOf(s)) = 1
    BY DEF NoneLost
  <2>2. OneHolder(s)
    BY <1>1, <2>1 DEF NetInv, OwnInv
  <2>3. \E h : HoldersOf(s) = {h}
    <3>0. HoldersOf(s) = {<<"resource", r>> : r \in {x \in DOMAIN resources : InRes(x, s)}}
                          \cup {<<"call", g>> : g \in {x \in Calls : InCall(x, s)}}
                          \cup {<<"backlog", l>> : l \in {x \in DOMAIN sock : InLog(x, s)}}
      BY <1>1, HoldersAre
    <3>1. ASSUME NEW r, InRes(r, s)
          PROVE  HoldersOf(s) = {<<"resource", r>>}
      <4>1. /\ r \in DOMAIN resources /\ \A x : InRes(x, s) => x = r
            /\ \A x : ~InCall(x, s) /\ ~InLog(x, s)
        BY <2>2, <3>1 DEF OneHolder, InRes
      <4>2. QED
        BY <3>0, <3>1, <4>1
    <3>2. ASSUME NEW g, InCall(g, s)
          PROVE  HoldersOf(s) = {<<"call", g>>}
      <4>1. /\ g \in Calls /\ \A x : InCall(x, s) => x = g
            /\ \A x : ~InRes(x, s) /\ ~InLog(x, s)
        BY <2>2, <3>2 DEF OneHolder, InCall
      <4>2. QED
        BY <3>0, <3>2, <4>1
    <3>3. ASSUME NEW l, InLog(l, s)
          PROVE  HoldersOf(s) = {<<"backlog", l>>}
      <4>1. /\ l \in DOMAIN sock /\ \A x : InLog(x, s) => x = l
            /\ \A x : ~InRes(x, s) /\ ~InCall(x, s)
        BY <2>2, <3>3 DEF OneHolder, InLog
      <4>2. QED
        BY <3>0, <3>3, <4>1
    <3>4. QED
      BY <2>2, <3>1, <3>2, <3>3 DEF OneHolder
  <2>4. QED
    BY <2>3, FS_Singleton
<1>2. QED
  BY <1>1, NetInvariance, PTL
-----------------------------------------------------------------------------
(* The guest of a vm.                                                      *)

Machines == [kind : Kinds, alias : Aliases \cup {Nobody}, guest : Guests \cup {Nobody}, vfs : BOOLEAN,
             shows : Seq(Guests \cup {Nobody})]

VMTypeOK ==
  /\ Cardinality(Rids) \in Nat /\ Rids = 1 .. Cardinality(Rids)
  /\ vms \in [Rids -> Machines]
  /\ binds \in Seq([rid : Rids, guest : Guests \cup {Nobody}])
  /\ exports \subseteq [rid : Rids, guest : Guests]

\* For a vm whose guest was never set while another was being bound, a goroutine
\* that has read the guest has read the one set last; and once no goroutine of
\* it is left, and none has failed since then, what it shows first is that guest.
Newest(r) ==
  /\ \A i \in DOMAIN binds : binds[i].rid = r /\ binds[i].guest # Nobody => binds[i].guest = vms[r].guest
  /\ r \notin unbound /\ vms[r].guest # Nobody /\ (\A i \in DOMAIN binds : binds[i].rid # r)
       => vms[r].shows # <<>> /\ vms[r].shows[1] = vms[r].guest

VMInv == VMTypeOK /\ \A r \in Rids \ late : Newest(r)

LEMMA Removed ==
  ASSUME NEW S, NEW s \in Seq(S), NEW i \in 1 .. Len(s)
  PROVE  /\ RemoveAt(s, i) \in Seq(S)
         /\ Len(RemoveAt(s, i)) = Len(s) - 1
         /\ \A j \in 1 .. Len(s) - 1 : RemoveAt(s, i)[j] = IF j < i THEN s[j] ELSE s[j + 1]
<1> DEFINE a == SubSeq(s, 1, i - 1)
           b == SubSeq(s, i + 1, Len(s))
<1>1. a \in Seq(S) /\ Len(a) = i - 1 /\ \A j \in 1 .. i - 1 : a[j] = s[j]
  <2>1. \A j \in 1 .. i - 1 : s[j] \in S
    OBVIOUS
  <2> QED BY <2>1, SubSeqProperties, 1 + (i - 1) - 1 = i - 1
<1>2. b \in Seq(S) /\ Len(b) = Len(s) - i /\ \A j \in 1 .. Len(s) - i : b[j] = s[i + j]
  BY SubSeqProperties
<1>3. RemoveAt(s, i) = a \o b
  BY DEF RemoveAt
<1> HIDE DEF a, b
<1>4. PICK n \in Nat : n = Len(s)
  BY LenProperties
<1>5. i \in Nat /\ i <= n /\ i >= 1
  BY <1>4
<1>6. Len(a) + Len(b) = n - 1
  BY <1>1, <1>2, <1>4, <1>5
<1>7. /\ a \o b \in Seq(S) /\ Len(a \o b) = n - 1
      /\ \A j \in 1 .. n - 1 : (a \o b)[j] = IF j <= i - 1 THEN a[j] ELSE b[j - (i - 1)]
  <2>1. a \in Seq(S) /\ b \in Seq(S) /\ Len(a) = i - 1
    BY <1>1, <1>2
  <2>2. /\ a \o b \in Seq(S) /\ Len(a \o b) = Len(a) + Len(b)
        /\ \A j \in 1 .. Len(a) + Len(b) : (a \o b)[j] = IF j <= Len(a) THEN a[j] ELSE b[j - Len(a)]
    BY <2>1, ConcatProperties, Zenon
  <2> QED BY <2>1, <2>2, <1>6
<1>8. ASSUME NEW j \in 1 .. n - 1  PROVE (a \o b)[j] = IF j < i THEN s[j] ELSE s[j + 1]
  <2>1. CASE j < i
    BY <2>1, <1>1, <1>5, <1>7
  <2>2. CASE ~(j < i)
    <3>1. PICK k \in 1 .. n - i : k = j - (i - 1)
      BY <1>5, <2>2
    <3>2. b[k] = s[i + k] /\ i + k = j + 1
      BY <1>2, <1>4, <1>5, <3>1
    <3>3. ~(j <= i - 1)
      BY <1>5, <2>2
    <3>4. (a \o b)[j] = b[k]
      BY <3>1, <3>3, <1>7
    <3> QED BY <3>2, <3>4, <2>2
  <2> QED BY <2>1, <2>2
<1> QED BY <1>3, <1>4, <1>7, <1>8

\* One guest less to bind: those that are left are those that were there
LEMMA OneBoundLess ==
  ASSUME VMTypeOK, NEW i \in DOMAIN binds, binds' = RemoveAt(binds, i), Rids' = Rids
  PROVE  /\ binds' \in Seq([rid : Rids', guest : Guests \cup {Nobody}])
         /\ \A j \in DOMAIN binds' : \E l \in DOMAIN binds \ {i} : binds'[j] = binds[l]
         /\ \A l \in DOMAIN binds \ {i} : \E j \in DOMAIN binds' : binds'[j] = binds[l]
<1> DEFINE B == [rid : Rids, guest : Guests \cup {Nobody}]
<1>1. binds \in Seq(B) /\ i \in 1 .. Len(binds) /\ DOMAIN binds = 1 .. Len(binds)
  BY DEF VMTypeOK
<1>2. PICK n \in Nat : n = Len(binds)
  BY <1>1, LenProperties
<1> HIDE DEF B
<1>3. /\ binds' \in Seq(B) /\ Len(binds') = n - 1
      /\ \A j \in 1 .. n - 1 : binds'[j] = IF j < i THEN binds[j] ELSE binds[j + 1]
  BY <1>1, <1>2, Removed
<1>4. DOMAIN binds' = 1 .. n - 1
  BY <1>3
<1>5. binds' \in Seq([rid : Rids', guest : Guests \cup {Nobody}])
  BY <1>3 DEF B
<1>6. ASSUME NEW j \in 1 .. n - 1  PROVE \E l \in 1 .. n : l # i /\ binds'[j] = binds[l]
  <2>1. CASE j < i  BY <2>1, <1>1, <1>2, <1>3
  <2>2. CASE ~(j < i)
    <3>1. PICK l \in 1 .. n : l = j + 1
      BY <1>2
    <3> QED BY <3>1, <2>2, <1>1, <1>2, <1>3
  <2> QED BY <2>1, <2>2
<1>7. ASSUME NEW l \in 1 .. n, l # i  PROVE \E j \in 1 .. n - 1 : binds'[j] = binds[l]
  <2>1. CASE l < i  BY <2>1, <1>1, <1>2, <1>3
  <2>2. CASE ~(l < i)
    <3>1. PICK j \in 1 .. n - 1 : j = l - 1
      BY <1>1, <1>2, <1>7, <2>2
    <3>2. ~(j < i) /\ j + 1 = l
      BY <1>1, <1>2, <1>7, <2>2, <3>1
    <3> QED BY <3>1, <3>2, <1>3
  <2> QED BY <2>1, <2>2
<1>8. \A j \in DOMAIN binds' : \E l \in DOMAIN binds \ {i} : binds'[j] = binds[l]
  <2>1. DOMAIN binds = 1 .. n
    BY <1>1, <1>2
  <2> QED BY <2>1, <1>4, <1>6
<1>9. \A l \in DOMAIN binds \ {i} : \E j \in DOMAIN binds' : binds'[j] = binds[l]
  <2>1. DOMAIN binds = 1 .. n
    BY <1>1, <1>2
  <2> QED BY <2>1, <1>4, <1>7
<1> QED BY <1>5, <1>8, <1>9

LEMMA BoundRecords ==
  ASSUME VMTypeOK, NEW i \in DOMAIN binds
  PROVE  /\ binds[i] \in [rid : Rids, guest : Guests \cup {Nobody}]
         /\ binds[i] = [rid |-> binds[i].rid, guest |-> binds[i].guest]
<1> DEFINE B == [rid : Rids, guest : Guests \cup {Nobody}]
<1>1. binds \in Seq(B) /\ i \in 1 .. Len(binds)
  BY DEF VMTypeOK
<1> HIDE DEF B
<1>2. binds[i] \in B
  BY <1>1, ElementOfSeq
<1> QED BY <1>2 DEF B

LEMMA VMStart == VMInit => VMInv
<1> SUFFICES ASSUME VMInit PROVE VMInv
  OBVIOUS
<1>1. Rids = {} /\ Cardinality(Rids) = 0
  BY FS_EmptySet DEF VMInit, Rids
<1>2. Rids = 1 .. Cardinality(Rids) /\ vms \in [Rids -> Machines]
  BY <1>1 DEF VMInit, Rids
<1>3. VMTypeOK
  BY <1>1, <1>2 DEF VMInit, VMTypeOK
<1> QED BY <1>1, <1>3 DEF VMInv

\* A step that changes of the vms neither guests nor what they show
LEMMA SameNewest ==
  ASSUME VMInv, Rids' = Rids, vms' \in [Rids -> Machines], binds' = binds, exports' = exports, late' = late, unbound' = unbound,
         \A q \in Rids : vms'[q].guest = vms[q].guest /\ vms'[q].shows = vms[q].shows
  PROVE  VMInv'
<1>1. VMTypeOK'
  BY DEF VMInv, VMTypeOK
<1>2. ASSUME NEW q \in Rids, q \notin late  PROVE Newest(q)'
  BY <1>2 DEF VMInv, Newest
<1> QED BY <1>1, <1>2 DEF VMInv

LEMMA VMStep == VMInv /\ [VMNext]_vmVars => VMInv'
<1> SUFFICES ASSUME VMInv, [VMNext]_vmVars PROVE VMInv'
  OBVIOUS
<1> USE DEF VMInv
<1>0. VMAssumption /\ Nobody \notin Guests
  BY VMAssumption DEF VMAssumption
<1>1. ASSUME NEW k \in Kinds, VmAlloc(k)  PROVE VMInv'
  <2>1. PICK n \in Nat : n = Cardinality(Rids)
    BY DEF VMTypeOK
  <2>2. /\ vms' = [r \in 1 .. n + 1 |-> IF r \in Rids THEN vms[r] ELSE newVM(k)]
        /\ binds' = binds /\ exports' = exports /\ late' = late /\ unbound' = unbound
    BY <1>1, <2>1 DEF VmAlloc
  <2>3. Rids = 1 .. n /\ Rids' = 1 .. n + 1 /\ \A r \in Rids : r \in Rids' /\ vms'[r] = vms[r]
    BY <2>1, <2>2 DEF VMTypeOK, Rids
  <2>4. Cardinality(Rids') = n + 1
    <3>1. Cardinality(1 .. n + 1) = (n + 1) - 1 + 1
      BY FS_Interval, 1 \in Int, n + 1 \in Int, ~(1 > n + 1)
    <3> QED BY <2>3, <3>1
  <2>5. newVM(k) \in Machines
    BY EmptySeq DEF newVM, Machines
  <2>6. vms' \in [Rids' -> Machines]
    BY <2>2, <2>3, <2>5 DEF VMTypeOK
  <2>7. binds \in Seq([rid : Rids', guest : Guests \cup {Nobody}])
    <3>1. [rid : Rids, guest : Guests \cup {Nobody}] \subseteq [rid : Rids', guest : Guests \cup {Nobody}]
      BY <2>3
    <3> QED BY <3>1, SeqMonotonic DEF VMTypeOK
  <2>8. VMTypeOK'
    BY <2>2, <2>3, <2>4, <2>6, <2>7 DEF VMTypeOK
  <2>9. ASSUME NEW r \in Rids', r \notin late'  PROVE Newest(r)'
    <3>1. CASE r \in Rids
      BY <3>1, <2>2, <2>3, <2>9 DEF Newest
    <3>2. CASE r \notin Rids
      <4>1. vms'[r].guest = Nobody
        BY <3>2, <2>2, <2>3, <2>9 DEF newVM
      <4>2. \A i \in DOMAIN binds : binds[i].rid # r
        <5>1. \A i \in DOMAIN binds : binds[i] \in [rid : Rids, guest : Guests \cup {Nobody}]
          BY BoundRecords
        <5> QED BY <5>1, <3>2
      <4> QED BY <4>1, <4>2, <2>2 DEF Newest
    <3> QED BY <3>1, <3>2
  <2> QED BY <2>8, <2>9
<1>2. ASSUME NEW r \in 1 .. MaxVm, VmOpen(r)  PROVE VMInv'
  <2>1. /\ r \in Rids /\ Rids' = Rids /\ vms' \in [Rids -> Machines]
        /\ binds' = binds /\ exports' = exports /\ late' = late /\ unbound' = unbound
        /\ \A q \in Rids : vms'[q].guest = vms[q].guest /\ vms'[q].shows = vms[q].shows
    BY <1>2 DEF VmOpen, VMTypeOK, Machines, Rids
  <2> QED BY <2>1, SameNewest
<1>3. ASSUME NEW r \in 1 .. MaxVm, NEW a \in Aliases, SetAlias(r, a)  PROVE VMInv'
  <2>1. /\ r \in Rids /\ Rids' = Rids /\ vms' \in [Rids -> Machines]
        /\ binds' = binds /\ exports' = exports /\ late' = late /\ unbound' = unbound
        /\ \A q \in Rids : vms'[q].guest = vms[q].guest /\ vms'[q].shows = vms[q].shows
    BY <1>3 DEF SetAlias, VMTypeOK, Machines, Rids
  <2> QED BY <2>1, SameNewest
<1>4. ASSUME NEW w \in Workers, NEW r \in 1 .. MaxVm, NEW g \in Guests, GuestMessage(w, r, g)
      PROVE  VMInv'
  <2>1. vms' = vms /\ binds' = binds /\ late' = late /\ unbound' = unbound /\ exports' \subseteq [rid : Rids, guest : Guests]
    BY <1>4 DEF GuestMessage, VMTypeOK, Lookup
  <2> QED BY <2>1 DEF VMTypeOK, Newest, Rids
<1>5. ASSUME NEW w \in Workers, WorkerStart(w) \/ WorkerTerminate(w)  PROVE VMInv'
  BY <1>5, ZenonT(60) DEF WorkerStart, WorkerTerminate, VMTypeOK, Newest, Rids
<1>6. ASSUME NEW e \in exports, GuestConnects(e)  PROVE VMInv'
  <2>1. PICK r \in Rids, g \in Guests : e = [rid |-> r, guest |-> g] /\ e.rid = r /\ e.guest = g
    BY DEF VMTypeOK
  <2>2. exports' \subseteq exports /\ SetGuest(r, g)
    BY <1>6, <2>1 DEF GuestConnects
  <2>3. CASE ~vms[r].vfs
    BY <2>2, <2>3 DEF SetGuest, VMTypeOK, Newest, Rids
  <2>4. CASE vms[r].vfs
    <3> DEFINE b == [rid |-> r, guest |-> Nobody]
    <3>1. /\ vms' = [vms EXCEPT ![r].guest = g]
          /\ binds' = Append(binds, b)
          /\ late \subseteq late' /\ unbound' = unbound \ {r}
          /\ (\E i \in DOMAIN binds : binds[i].rid = r /\ binds[i].guest # Nobody) => r \in late'
      BY <2>2, <2>4 DEF SetGuest
    <3>2. /\ Rids' = Rids /\ vms' \in [Rids -> Machines]
          /\ vms'[r].guest = g
          /\ \A q \in Rids \ {r} : vms'[q] = vms[q]
      BY <3>1, <2>1, ZenonT(60) DEF VMTypeOK, Machines, Rids
    <3>3. b \in [rid : Rids, guest : Guests \cup {Nobody}]
      OBVIOUS
    <3>4. PICK n \in Nat : n = Len(binds)
      BY LenProperties DEF VMTypeOK
    <3>5. /\ binds' \in Seq([rid : Rids, guest : Guests \cup {Nobody}])
          /\ DOMAIN binds = 1 .. n /\ DOMAIN binds' = 1 .. n + 1
          /\ \A i \in 1 .. n : binds'[i] = binds[i]
          /\ binds'[n + 1] = b
      BY <3>1, <3>3, <3>4, AppendProperties DEF VMTypeOK
    <3>6. VMTypeOK'
      BY <3>2, <3>5, <2>2 DEF VMTypeOK
    <3>7. ASSUME NEW q \in Rids', q \notin late'  PROVE Newest(q)'
      <4>1. CASE q = r
        <5>1. \A i \in DOMAIN binds' : binds'[i].rid = r => binds'[i].guest = Nobody
          BY <4>1, <3>7, <3>1, <3>5
        <5>2. n + 1 \in DOMAIN binds' /\ binds'[n + 1].rid = r
          BY <3>5
        <5> QED BY <4>1, <5>1, <5>2 DEF Newest
      <4>2. CASE q # r
        <5>1. Newest(q) /\ vms'[q] = vms[q]
          BY <4>2, <3>7, <3>1, <3>2
        <5>2. \A i \in DOMAIN binds' : binds'[i].rid = q => i \in DOMAIN binds /\ binds'[i] = binds[i]
          BY <4>2, <3>5
        <5>3. \A i \in DOMAIN binds : i \in DOMAIN binds' /\ binds'[i] = binds[i]
          BY <3>5
        <5>4. q \in unbound => q \in unbound'
          BY <4>2, <3>1
        <5> QED BY <5>1, <5>2, <5>3, <5>4 DEF Newest
      <4> QED BY <4>1, <4>2
    <3> QED BY <3>6, <3>7
  <2> QED BY <2>3, <2>4
<1>7. ASSUME NEW i \in 1 .. MaxOffers, BindReads(i)  PROVE VMInv'
  <2>1. PICK r \in Rids : binds[i].rid = r /\ binds[i] = [rid |-> r, guest |-> Nobody]
    BY <1>7, BoundRecords DEF BindReads
  <2>2. /\ i \in DOMAIN binds /\ vms' = vms /\ exports' = exports /\ late' = late /\ unbound' = unbound /\ Rids' = Rids
        /\ binds' = [binds EXCEPT ![i] = [rid |-> r, guest |-> vms[r].guest]]
    <3>1. [binds[i] EXCEPT !.guest = vms[r].guest] = [rid |-> r, guest |-> vms[r].guest]
      BY <2>1
    <3>2. binds' = [binds EXCEPT ![i] = [binds[i] EXCEPT !.guest = vms[binds[i].rid].guest]]
      BY <1>7 DEF BindReads
    <3> QED BY <1>7, <2>1, <3>1, <3>2 DEF BindReads, Rids
  <2>3. vms[r].guest \in Guests \cup {Nobody}
    BY DEF VMTypeOK, Machines
  <2>4. VMTypeOK'
    BY <2>2, <2>3 DEF VMTypeOK
  <2>5. /\ DOMAIN binds' = DOMAIN binds
        /\ \A j \in DOMAIN binds : binds'[j].rid = binds[j].rid
                                 /\ (j # i => binds'[j] = binds[j])
        /\ binds'[i].guest = vms[r].guest /\ binds'[i].rid = r
    BY <2>1, <2>2 DEF VMTypeOK
  <2>6. ASSUME NEW q \in Rids, q \notin late  PROVE Newest(q)'
    BY <2>2, <2>5, <2>6 DEF Newest
  <2> QED BY <2>2, <2>4, <2>6
<1>8. ASSUME NEW i \in 1 .. MaxOffers, BindShows(i)  PROVE VMInv'
  <2>1. PICK r \in Rids, g \in Guests : binds[i].rid = r /\ binds[i].guest = g
    BY <1>8, BoundRecords DEF BindShows
  <2>2. /\ i \in DOMAIN binds /\ exports' = exports /\ late' = late /\ unbound' = unbound
        /\ vms' = [vms EXCEPT ![r].shows = <<g>> \o @]
        /\ binds' = RemoveAt(binds, i)
    BY <1>8, <2>1 DEF BindShows
  <2>3. vms[r].shows \in Seq(Guests \cup {Nobody})
    BY DEF VMTypeOK, Machines
  <2>4. PICK shown \in Seq(Guests \cup {Nobody}) : shown = <<g>> \o vms[r].shows /\ shown # <<>> /\ shown[1] = g
    <3> DEFINE shown == <<g>> \o vms[r].shows
    <3>1. <<g>> \in Seq(Guests \cup {Nobody}) /\ Len(<<g>>) = 1 /\ <<g>>[1] = g
      OBVIOUS
    <3>2. /\ shown \in Seq(Guests \cup {Nobody}) /\ Len(shown) = Len(<<g>>) + Len(vms[r].shows)
          /\ \A j \in 1 .. Len(<<g>>) + Len(vms[r].shows) :
                shown[j] = IF j <= Len(<<g>>) THEN <<g>>[j] ELSE vms[r].shows[j - Len(<<g>>)]
      BY <2>3, <3>1, ConcatProperties, Zenon
    <3>3. Len(vms[r].shows) \in Nat
      BY <2>3, LenProperties
    <3>4. Len(shown) >= 1 /\ shown[1] = g
      BY <3>1, <3>2, <3>3
    <3>5. shown # <<>>
      BY <3>4, EmptySeq
    <3> QED BY <3>2, <3>4, <3>5
  <2>5. /\ Rids' = Rids /\ vms' \in [Rids -> Machines]
        /\ \A q \in Rids : vms'[q].guest = vms[q].guest
        /\ vms'[r].shows = shown
        /\ \A q \in Rids \ {r} : vms'[q] = vms[q]
    BY <2>2, <2>4 DEF VMTypeOK, Machines, Rids
  <2>6. /\ binds' \in Seq([rid : Rids', guest : Guests \cup {Nobody}])
        /\ \A j \in DOMAIN binds' : \E l \in DOMAIN binds \ {i} : binds'[j] = binds[l]
        /\ \A l \in DOMAIN binds \ {i} : \E j \in DOMAIN binds' : binds'[j] = binds[l]
    BY <2>2, <2>5, OneBoundLess
  <2>7. VMTypeOK'
    BY <2>2, <2>5, <2>6 DEF VMTypeOK
  <2>8. ASSUME NEW q \in Rids, q \notin late  PROVE Newest(q)'
    <3>1. Newest(q) /\ vms'[q].guest = vms[q].guest
      BY <2>5, <2>8
    <3>2. \A j \in DOMAIN binds' : binds'[j].rid = q /\ binds'[j].guest # Nobody => binds'[j].guest = vms'[q].guest
      BY <3>1, <2>6 DEF Newest
    <3>3. CASE q = r
      <4>1. vms[r].guest = g
        BY <3>1, <3>3, <2>1, <2>2, <1>0 DEF Newest
      <4> QED BY <4>1, <3>1, <3>2, <3>3, <2>4, <2>5 DEF Newest
    <3>4. CASE q # r
      <4>1. (\A j \in DOMAIN binds' : binds'[j].rid # q) => \A l \in DOMAIN binds : binds[l].rid # q
        BY <3>4, <2>1, <2>6
      <4>2. vms'[q] = vms[q] /\ unbound' = unbound
        BY <3>4, <2>2, <2>5
      <4>3. q \notin unbound /\ vms[q].guest # Nobody /\ (\A l \in DOMAIN binds : binds[l].rid # q)
               => vms[q].shows # <<>> /\ vms[q].shows[1] = vms[q].guest
        BY <3>1 DEF Newest
      <4>4. q \notin unbound' /\ vms'[q].guest # Nobody /\ (\A j \in DOMAIN binds' : binds'[j].rid # q)
               => vms'[q].shows # <<>> /\ vms'[q].shows[1] = vms'[q].guest
        BY <4>1, <4>2, <4>3
      <4> QED BY <4>4, <3>2 DEF Newest
    <3> QED BY <3>3, <3>4
  <2> QED BY <2>2, <2>5, <2>7, <2>8
<1>9. ASSUME NEW i \in 1 .. MaxOffers, BindFails(i)  PROVE VMInv'
  <2>1. PICK r \in Rids : binds[i].rid = r
    BY <1>9, BoundRecords DEF BindFails
  <2>2. /\ i \in DOMAIN binds /\ exports' = exports /\ late' = late /\ vms' = vms /\ Rids' = Rids
        /\ unbound' = unbound \cup {r} /\ binds' = RemoveAt(binds, i)
    BY <1>9, <2>1 DEF BindFails, Rids
  <2>3. /\ binds' \in Seq([rid : Rids', guest : Guests \cup {Nobody}])
        /\ \A j \in DOMAIN binds' : \E l \in DOMAIN binds \ {i} : binds'[j] = binds[l]
        /\ \A l \in DOMAIN binds \ {i} : \E j \in DOMAIN binds' : binds'[j] = binds[l]
    BY <2>2, OneBoundLess
  <2>4. VMTypeOK'
    BY <2>2, <2>3 DEF VMTypeOK
  <2>5. ASSUME NEW q \in Rids, q \notin late  PROVE Newest(q)'
    <3>1. Newest(q)
      BY <2>5
    <3>2. \A j \in DOMAIN binds' : binds'[j].rid = q /\ binds'[j].guest # Nobody => binds'[j].guest = vms'[q].guest
      BY <3>1, <2>2, <2>3 DEF Newest
    <3>3. CASE q = r
      BY <3>2, <3>3, <2>2 DEF Newest
    <3>4. CASE q # r
      <4>1. (\A j \in DOMAIN binds' : binds'[j].rid # q) => \A l \in DOMAIN binds : binds[l].rid # q
        BY <3>4, <2>1, <2>3
      <4> QED BY <4>1, <3>1, <3>2, <3>4, <2>2 DEF Newest
    <3> QED BY <3>3, <3>4
  <2> QED BY <2>2, <2>4, <2>5
<1>10. CASE UNCHANGED vmVars
  BY <1>10 DEF vmVars, VMTypeOK, Newest, Rids
<1> QED BY <1>1, <1>2, <1>3, <1>4, <1>5, <1>6, <1>7, <1>8, <1>9, <1>10 DEF VMNext, VMSteps

\* However the goroutines that bind guests are scheduled (vm.go:51), once they
\* are done a vm shows the guest set last, for any number of vms, workers and
\* offers; the exceptions are a guest set while an earlier one was being bound,
\* and a guest that could not be bound and was not set again.
THEOREM GuestsAreNewest == VMSpec => []GuestIsNewest
<1>1. VMInv => GuestIsNewest
  BY DEF VMInv, Newest, GuestIsNewest
<1> QED BY <1>1, VMStart, VMStep, PTL DEF VMSpec

-----------------------------------------------------------------------------
(* Pipes: data and ports.                                                  *)

\* The two pieces that Take cuts a buffer into are byte sequences, and put
\* together again they are the buffer.
LEMMA CutSequence ==
    ASSUME NEW S, NEW s \in Seq(S), NEW k \in 0..Len(s)
    PROVE  /\ SubSeq(s, 1, k) \in Seq(S)
           /\ SubSeq(s, k + 1, Len(s)) \in Seq(S)
           /\ s = SubSeq(s, 1, k) \o SubSeq(s, k + 1, Len(s))
<1>1. Len(s) \in Nat /\ \A i \in 1..Len(s) : s[i] \in S
  BY LenProperties, ElementOfSeq
<1>2. SubSeq(s, 1, k) \in Seq(S)
  BY <1>1, SubSeqProperties
<1>3. SubSeq(s, k + 1, Len(s)) \in Seq(S)
  BY <1>1, SubSeqProperties
<1>4. SubSeq(s, 1, k) \o SubSeq(s, k + 1, Len(s)) = SubSeq(s, 1, Len(s))
  <2>1. /\ 1 \in 1..Len(s) + 1
        /\ k \in 1 - 1..Len(s)
        /\ Len(s) \in k..Len(s)
    BY <1>1
  <2>2. QED
    BY <2>1, ConcatAdjacentSubSeq
<1>5. QED
  BY <1>2, <1>3, <1>4, SubSeqFull

\* The first part of a concatenation is its prefix of that length.
LEMMA PrefixOfConcat ==
    ASSUME NEW S, NEW r \in Seq(S), NEW s \in Seq(S)
    PROVE  SubSeq(r \o s, 1, Len(r)) = r
<1>1. CASE r = <<>>
  BY <1>1, SubSeqEmpty
<1>2. CASE r # <<>>
  <2>1. Len(r) \in Nat /\ 1 \in 1..Len(r) /\ Len(r) \in 1..Len(r)
    BY <1>2, LenProperties, EmptySeq
  <2>2. SubSeq(r \o s, 1, Len(r)) = SubSeq(r, 1, Len(r))
    BY <2>1, SubSeqOfConcat1
  <2>3. QED
    BY <2>2, SubSeqFull
<1>3. QED
  BY <1>1, <1>2

LEMMA ConcatIsLonger ==
    ASSUME NEW S, NEW r \in Seq(S), NEW s \in Seq(S), NEW u, u = r \o s
    PROVE  Len(r) <= Len(u)
<1>1. Len(r) \in Nat /\ Len(s) \in Nat /\ Len(u) = Len(r) + Len(s)
  BY LenProperties, ConcatProperties
<1>2. QED
  BY <1>1

\* The second part of a concatenation is the rest of it.
LEMMA SuffixOfConcat ==
    ASSUME NEW S, NEW r \in Seq(S), NEW s \in Seq(S)
    PROVE  SubSeq(r \o s, Len(r) + 1, Len(r \o s)) = s
<1>1. /\ Len(r) \in Nat /\ Len(s) \in Nat
      /\ r \o s \in Seq(S) /\ Len(r \o s) = Len(r) + Len(s)
      /\ \A i \in 1..Len(r) + Len(s) :
            (r \o s)[i] = IF i <= Len(r) THEN r[i] ELSE s[i - Len(r)]
  BY LenProperties, ConcatProperties
<1>2. CASE s = <<>>
  <2>1. Len(s) = 0
    BY <1>2
  <2>2. Len(r \o s) < Len(r) + 1
    BY <1>1, <2>1
  <2>3. QED
    BY <1>1, <1>2, <2>2, SubSeqEmpty
<1>3. CASE s # <<>>
  <2>1. Len(s) > 0
    BY <1>1, <1>3, EmptySeq
  <2>2. /\ Len(r) + 1 \in Len(r) + 1..Len(r) + Len(s)
        /\ Len(r) + Len(s) \in Len(r) + 1..Len(r) + Len(s)
    BY <1>1, <2>1
  <2>3. SubSeq(r \o s, Len(r) + 1, Len(r) + Len(s))
          = SubSeq(s, Len(r) + 1 - Len(r), Len(r) + Len(s) - Len(r))
    BY <2>2, SubSeqOfConcat2
  <2>4. Len(r) + 1 - Len(r) = 1 /\ Len(r) + Len(s) - Len(r) = Len(s)
    BY <1>1
  <2>5. QED
    BY <1>1, <2>3, <2>4, SubSeqFull
<1>4. QED
  BY <1>2, <1>3

LEMMA ConcatBytes ==
    \A r, s, u \in Seq(Bytes) : (r \o s) \o u = r \o (s \o u)
BY ConcatAssociative

\* What Take calls k is a length within the buffer.
LEMMA LeastInRange ==
    ASSUME NEW mm \in Nat, NEW nn \in Nat
    PROVE  Least(mm, nn) \in 0..nn
BY DEF Least

LEMMA PortsAreBuffers ==
    \A p \in Ports : Reader(p) \in Ports /\ Writer(p) \in Ports
BY DEF Ports, Reader, Writer

-----------------------------------------------------------------------------
(* Type correctness.                                                       *)

LEMMA InitTypeOK == Init => TypeOK
BY DEF Init, TypeOK, Ports

\* The parts of an action keep the types of what they change.
LEMMA SignalType ==
    ASSUME TypeOK, NEW b \in Ports, Signal(b)
    PROVE  /\ waiters' \in [Ports -> Seq(Threads)]
           /\ pc' \in [Threads -> {"idle", "waiting", "woken", "closing"}]
<1>1. CASE waiters[b] = <<>>
  BY <1>1 DEF TypeOK, Signal
<1>2. CASE waiters[b] # <<>>
  <2>1. waiters[b] \in Seq(Threads)
    BY DEF TypeOK
  <2>2. Head(waiters[b]) \in Threads /\ Tail(waiters[b]) \in Seq(Threads)
    BY <1>2, <2>1, HeadTailProperties
  <2>3. QED
    BY <1>2, <2>2 DEF TypeOK, Signal
<1>3. QED
  BY <1>1, <1>2

LEMMA WaitType ==
    ASSUME TypeOK, NEW t \in Threads, NEW b \in Ports, Wait(t, b)
    PROVE  /\ waiters' \in [Ports -> Seq(Threads)]
           /\ pc' \in [Threads -> {"idle", "waiting", "woken", "closing"}]
BY DEF TypeOK, Wait

LEMMA BroadcastType ==
    ASSUME TypeOK, NEW t \in Threads, NEW b \in Ports,
           NEW next \in {"idle", "closing"}, Broadcast(b, t, next)
    PROVE  /\ waiters' \in [Ports -> Seq(Threads)]
           /\ pc' \in [Threads -> {"idle", "waiting", "woken", "closing"}]
<1>1. waiters' \in [Ports -> Seq(Threads)]
  BY DEF TypeOK, Broadcast
<1>2. \A u \in Threads : pc'[u] \in {"idle", "waiting", "woken", "closing"}
  BY DEF TypeOK, Broadcast
<1>3. QED
  BY <1>1, <1>2 DEF Broadcast

LEMMA LocalsType ==
    ASSUME TypeOK, NEW t \in Threads, NEW p \in Ports, NEW n \in Nat,
           Locals(t, p, n)
    PROVE  /\ port' \in [Threads -> Ports]
           /\ size' \in [Threads -> Nat]
BY DEF TypeOK, Locals

LEMMA TakeType ==
    ASSUME TypeOK, NEW b \in Ports, NEW n \in Nat, Take(b, n)
    PROVE  /\ buffer' \in [Ports -> Seq(Bytes)]
           /\ delivered' \in [Ports -> Seq(Bytes)]
           /\ sawEOF' \in [Ports -> BOOLEAN]
<1> DEFINE k == Least(n, Len(buffer[b]))
<1>1. buffer[b] \in Seq(Bytes) /\ Len(buffer[b]) \in Nat
  BY LenProperties DEF TypeOK
<1>2. k \in 0..Len(buffer[b])
  BY <1>1, LeastInRange
<1>3. /\ SubSeq(buffer[b], 1, k) \in Seq(Bytes)
      /\ SubSeq(buffer[b], k + 1, Len(buffer[b])) \in Seq(Bytes)
  BY <1>1, <1>2, CutSequence
<1>4. delivered[b] \o SubSeq(buffer[b], 1, k) \in Seq(Bytes)
  BY <1>3, ConcatProperties DEF TypeOK
<1>5. buffer' = [buffer EXCEPT ![b] = SubSeq(@, k + 1, Len(@))]
  BY DEF Take
<1>6. delivered' = [delivered EXCEPT ![b] = @ \o SubSeq(buffer[b], 1, k)]
  BY DEF Take
<1>7. sawEOF' \in [Ports -> BOOLEAN]
  BY DEF Take, TypeOK, AnswersEOF
<1>8. QED
  BY <1>3, <1>4, <1>5, <1>6, <1>7 DEF TypeOK

LEMMA NextTypeOK == TypeOK /\ [Next]_vars => TypeOK'
<1> SUFFICES ASSUME TypeOK, [Next]_vars
             PROVE  TypeOK'
  OBVIOUS
<1> USE PipeAssumption, PortsAreBuffers
<1>1. ASSUME NEW t \in Threads, NEW p \in Ports, WriteRefused(t, p)
      PROVE  TypeOK'
  BY <1>1 DEF WriteRefused, vars, TypeOK
<1>2. ASSUME NEW t \in Threads, NEW p \in Ports, NEW bytes \in Writes, Write(t, p, bytes)
      PROVE  TypeOK'
  <2>1. /\ buffer[Writer(p)] \o bytes \in Seq(Bytes)
        /\ accepted[Writer(p)] \o bytes \in Seq(Bytes)
    BY ConcatProperties DEF TypeOK
  <2>2. /\ waiters' \in [Ports -> Seq(Threads)]
        /\ pc' \in [Threads -> {"idle", "waiting", "woken", "closing"}]
    BY <1>2, SignalType DEF Write
  <2>3. QED
    BY <1>2, <2>1, <2>2 DEF Write, TypeOK
<1>3. ASSUME NEW t \in Threads, NEW p \in Ports, NEW n \in ReadSizes,
             ReadWaits(t, p, n)
      PROVE  TypeOK'
  BY <1>3, WaitType, LocalsType DEF ReadWaits, TypeOK
<1>4. ASSUME NEW t \in Threads, NEW p \in Ports, NEW n \in ReadSizes,
             Read(t, p, n)
      PROVE  TypeOK'
  <2>1. UNCHANGED <<closed, waiters, accepted, pc, port, size>>
    BY <1>4 DEF Read, Take
  <2>2. QED
    BY <1>4, <2>1, TakeType DEF Read, TypeOK
<1>5. ASSUME NEW t \in Threads, SleepAgain(t)
      PROVE  TypeOK'
  BY <1>5, WaitType DEF SleepAgain, TypeOK
<1>6. ASSUME NEW t \in Threads, Resume(t)
      PROVE  TypeOK'
  <2>1. port[t] \in Ports /\ size[t] \in Nat /\ 1 \in Ports /\ 0 \in Nat
    BY DEF TypeOK, Ports
  <2>2. UNCHANGED <<closed, waiters, accepted>>
    BY <1>6 DEF Resume, Take
  <2>3. /\ port' \in [Threads -> Ports]
        /\ size' \in [Threads -> Nat]
    BY <1>6, <2>1, LocalsType DEF Resume, NoLocals
  <2>4. pc' \in [Threads -> {"idle", "waiting", "woken", "closing"}]
    BY <1>6 DEF Resume, TypeOK
  <2>5. QED
    BY <1>6, <2>1, <2>2, <2>3, <2>4, TakeType DEF Resume, TypeOK
<1>7. ASSUME NEW t \in Threads, NEW p \in Ports, CloseReader(t, p)
      PROVE  TypeOK'
  BY <1>7, BroadcastType, LocalsType DEF CloseReader, CloseBuffer, TypeOK
<1>8. ASSUME NEW t \in Threads, CloseWriter(t)
      PROVE  TypeOK'
  <2>1. port[t] \in Ports /\ 1 \in Ports
    BY DEF TypeOK, Ports
  <2>2. QED
    BY <1>8, <2>1, BroadcastType, LocalsType DEF CloseWriter, CloseBuffer, NoLocals, TypeOK
<1>9. CASE UNCHANGED vars
  BY <1>9 DEF vars, TypeOK
<1>10. QED
  BY <1>1, <1>2, <1>3, <1>4, <1>5, <1>6, <1>7, <1>8, <1>9 DEF Next

\* Every variable keeps its type, whatever the goroutines do.
THEOREM TypeCorrect == Spec => []TypeOK
BY InitTypeOK, NextTypeOK, PTL DEF Spec

-----------------------------------------------------------------------------
(* The byte streams.                                                       *)

\* Take moves a beginning of the buffer to the end of what was delivered.
LEMMA TakeKeepsStream ==
    ASSUME TypeOK, StreamIntact, NEW b \in Ports, NEW n \in Nat,
           Take(b, n)
    PROVE  StreamIntact'
<1> DEFINE k == Least(n, Len(buffer[b]))
           front == SubSeq(buffer[b], 1, k)
           back == SubSeq(buffer[b], k + 1, Len(buffer[b]))
<1>1. /\ buffer[b] \in Seq(Bytes) /\ Len(buffer[b]) \in Nat
      /\ delivered[b] \in Seq(Bytes)
  BY LenProperties DEF TypeOK
<1>2. k \in 0..Len(buffer[b])
  BY <1>1, LeastInRange
<1>3. front \in Seq(Bytes) /\ back \in Seq(Bytes) /\ buffer[b] = front \o back
  BY <1>1, <1>2, CutSequence
<1>4. delivered[b] \o buffer[b] = (delivered[b] \o front) \o back
  <2> HIDE DEF front, back
  <2>1. (delivered[b] \o front) \o back = delivered[b] \o (front \o back)
    BY <1>1, <1>3, ConcatBytes
  <2>2. QED
    BY <1>3, <2>1
<1>5. /\ buffer' = [buffer EXCEPT ![b] = back]
      /\ delivered' = [delivered EXCEPT ![b] = @ \o front]
      /\ accepted' = accepted
  BY DEF Take
<1> HIDE DEF front, back
<1>6. QED
  BY <1>4, <1>5 DEF StreamIntact, TypeOK

LEMMA NextStreamIntact == TypeOK /\ StreamIntact /\ [Next]_vars => StreamIntact'
<1> SUFFICES ASSUME TypeOK, StreamIntact, [Next]_vars
             PROVE  StreamIntact'
  OBVIOUS
<1> USE PipeAssumption, PortsAreBuffers
<1>1. ASSUME NEW t \in Threads, NEW p \in Ports, NEW bytes \in Writes, Write(t, p, bytes)
      PROVE  StreamIntact'
  <2>1. \A b \in Ports : delivered[b] \in Seq(Bytes) /\ buffer[b] \in Seq(Bytes)
    BY DEF TypeOK
  <2>2. bytes \in Seq(Bytes)
    OBVIOUS
  <2>3. ASSUME NEW b \in Ports
        PROVE  (delivered[b] \o buffer[b]) \o bytes = delivered[b] \o (buffer[b] \o bytes)
    <3>1. delivered[b] \in Seq(Bytes) /\ buffer[b] \in Seq(Bytes)
      BY <2>1
    <3>2. QED
      BY <2>2, <3>1, ConcatBytes, ZenonT(30)
  <2>4. QED
    BY <1>1, <2>3 DEF Write, StreamIntact, TypeOK
<1>2. ASSUME NEW t \in Threads, NEW p \in Ports, NEW n \in ReadSizes,
             Read(t, p, n)
      PROVE  StreamIntact'
  BY <1>2, TakeKeepsStream DEF Read
<1>3. ASSUME NEW t \in Threads, Resume(t)
      PROVE  StreamIntact'
  <2>1. port[t] \in Ports /\ size[t] \in Nat
    BY DEF TypeOK
  <2>2. QED
    BY <1>3, <2>1, TakeKeepsStream DEF Resume
<1>4. ASSUME UNCHANGED <<buffer, accepted, delivered>>
      PROVE  StreamIntact'
  BY <1>4 DEF StreamIntact
<1>5. QED
  BY <1>1, <1>2, <1>3, <1>4
     DEF Next, WriteRefused, ReadWaits, SleepAgain, CloseReader, CloseWriter, CloseBuffer, vars

\* No byte is lost, duplicated or reordered, for any number of concurrent
\* readers, writers and closers of both ports.
THEOREM StreamsStayIntact == Spec => []StreamIntact
<1>1. Init => StreamIntact
  BY DEF Init, StreamIntact, Ports
<1>2. QED
  BY <1>1, NextStreamIntact, TypeCorrect, PTL DEF Spec

-----------------------------------------------------------------------------
(* Sleeping and closing.                                                   *)

\* Take leaves the sleepers alone.
LEMMA NextNoSleeperOnClosed ==
    TypeOK /\ NoSleeperOnClosed /\ [Next]_vars => NoSleeperOnClosed'
<1> SUFFICES ASSUME TypeOK, NoSleeperOnClosed, [Next]_vars
             PROVE  NoSleeperOnClosed'
  OBVIOUS
<1> USE PipeAssumption, PortsAreBuffers
<1>1. ASSUME NEW t \in Threads, NEW p \in Ports, NEW bytes \in Writes, Write(t, p, bytes)
      PROVE  NoSleeperOnClosed'
  <2>1. closed' = closed /\ port' = port
    BY <1>1 DEF Write
  <2>2. \A u \in Threads : pc'[u] = "waiting" => pc[u] = "waiting"
    BY <1>1 DEF Write, Signal, TypeOK
  <2>3. QED
    BY <2>1, <2>2 DEF NoSleeperOnClosed
<1>2. ASSUME NEW t \in Threads, NEW p \in Ports, NEW n \in ReadSizes,
             ReadWaits(t, p, n)
      PROVE  NoSleeperOnClosed'
  BY <1>2 DEF ReadWaits, Wait, Locals, MustWait, NoSleeperOnClosed, TypeOK
<1>3. ASSUME NEW t \in Threads, NEW p \in Ports, NEW n \in ReadSizes,
             Read(t, p, n)
      PROVE  NoSleeperOnClosed'
  BY <1>3 DEF Read, Take, NoSleeperOnClosed
<1>4. ASSUME NEW t \in Threads, SleepAgain(t)
      PROVE  NoSleeperOnClosed'
  BY <1>4 DEF SleepAgain, Wait, MustWait, NoSleeperOnClosed, TypeOK
<1>5. ASSUME NEW t \in Threads, Resume(t)
      PROVE  NoSleeperOnClosed'
  BY <1>5 DEF Resume, Take, NoLocals, Locals, NoSleeperOnClosed, TypeOK
<1>6. ASSUME NEW t \in Threads, NEW b \in Ports, NEW p \in Ports,
             NEW next \in {"idle", "closing"}, NEW q,
             CloseBuffer(t, b, next), Locals(t, q, 0)
      PROVE  NoSleeperOnClosed'
  <2>1. ASSUME NEW u \in Threads, pc'[u] = "waiting"
        PROVE  /\ u # t /\ pc[u] = "waiting"
               /\ Reader(port[u]) # b /\ port'[u] = port[u]
    BY <1>6, <2>1 DEF CloseBuffer, Broadcast, Locals, TypeOK
  <2>2. \A c \in Ports : c # b => closed'[c] = closed[c]
    BY <1>6 DEF CloseBuffer, TypeOK
  <2>3. QED
    BY <2>1, <2>2 DEF NoSleeperOnClosed, TypeOK
<1>7. ASSUME NEW t \in Threads, NEW p \in Ports, CloseReader(t, p)
      PROVE  NoSleeperOnClosed'
  BY <1>6, <1>7 DEF CloseReader
<1>8. ASSUME NEW t \in Threads, CloseWriter(t)
      PROVE  NoSleeperOnClosed'
  <2>1. port[t] \in Ports
    BY DEF TypeOK
  <2>2. QED
    BY <1>6, <1>8, <2>1 DEF CloseWriter, NoLocals
<1>9. ASSUME UNCHANGED vars
      PROVE  NoSleeperOnClosed'
  BY <1>9 DEF vars, NoSleeperOnClosed
<1>10. QED
  BY <1>1, <1>2, <1>3, <1>4, <1>5, <1>7, <1>8, <1>9 DEF Next, WriteRefused

\* Port.Close leaves no reader behind: none sleeps on a closed buffer.
THEOREM ClosedHasNoSleeper == Spec => []NoSleeperOnClosed
<1>1. Init => NoSleeperOnClosed
  BY DEF Init, NoSleeperOnClosed
<1>2. QED
  BY <1>1, NextNoSleeperOnClosed, TypeCorrect, PTL DEF Spec

-----------------------------------------------------------------------------
(* End of file.                                                            *)

\* A blocking read that answers EOF leaves a closed and empty buffer.
LEMMA TakeKeepsEOF ==
    ASSUME TypeOK, EOFIsFinal, NEW b \in Ports, NEW n \in Nat,
           ~MustWait(b), Take(b, n)
    PROVE  EOFIsFinal'
<1>1. ASSUME NEW c \in Ports, c # b, Block, sawEOF'[c]
      PROVE  closed'[c] /\ buffer'[c] = <<>>
  BY <1>1 DEF Take, EOFIsFinal, TypeOK
<1>2. ASSUME Block, sawEOF'[b]
      PROVE  closed'[b] /\ buffer'[b] = <<>>
  <2>1. sawEOF[b] \/ AnswersEOF(b, n)
    BY <1>2 DEF Take, TypeOK
  <2>2. closed[b] /\ buffer[b] = <<>>
    BY <1>2, <2>1 DEF EOFIsFinal, AnswersEOF, MustWait
  <2>3. Least(n, Len(buffer[b])) \in Nat /\ Len(buffer[b]) = 0
    BY <2>2 DEF Least
  <2>4. SubSeq(buffer[b], Least(n, Len(buffer[b])) + 1, Len(buffer[b])) = <<>>
    BY <2>3, SubSeqEmpty
  <2>5. QED
    BY <2>2, <2>4 DEF Take, TypeOK
<1>3. QED
  BY <1>1, <1>2 DEF EOFIsFinal

LEMMA NextEOFIsFinal == TypeOK /\ EOFIsFinal /\ [Next]_vars => EOFIsFinal'
<1> SUFFICES ASSUME TypeOK, EOFIsFinal, [Next]_vars
             PROVE  EOFIsFinal'
  OBVIOUS
<1> USE PipeAssumption, PortsAreBuffers
<1>1. ASSUME NEW t \in Threads, NEW p \in Ports, NEW bytes \in Writes, Write(t, p, bytes)
      PROVE  EOFIsFinal'
  BY <1>1 DEF Write, EOFIsFinal, TypeOK
<1>2. ASSUME NEW t \in Threads, NEW p \in Ports, NEW n \in ReadSizes,
             Read(t, p, n)
      PROVE  EOFIsFinal'
  BY <1>2, TakeKeepsEOF DEF Read
<1>3. ASSUME NEW t \in Threads, Resume(t)
      PROVE  EOFIsFinal'
  <2>1. Reader(port[t]) \in Ports /\ size[t] \in Nat
    BY DEF TypeOK
  <2>2. QED
    BY <1>3, <2>1, TakeKeepsEOF DEF Resume
<1>4. ASSUME NEW b \in Ports, NEW t, NEW next, CloseBuffer(t, b, next)
      PROVE  EOFIsFinal'
  BY <1>4 DEF CloseBuffer, EOFIsFinal, TypeOK
<1>5. ASSUME NEW t \in Threads, CloseWriter(t)
      PROVE  EOFIsFinal'
  <2>1. port[t] \in Ports
    BY DEF TypeOK
  <2>2. QED
    BY <1>4, <1>5, <2>1 DEF CloseWriter
<1>6. ASSUME UNCHANGED <<buffer, closed, sawEOF>>
      PROVE  EOFIsFinal'
  BY <1>6 DEF EOFIsFinal
<1>7. QED
  BY <1>1, <1>2, <1>3, <1>4, <1>5, <1>6
     DEF Next, WriteRefused, ReadWaits, SleepAgain, CloseReader, vars

\* In a blocking pipe no reader of a direction gets a byte after some reader
\* of it was told EOF.
THEOREM EOFStaysFinal == Spec => []EOFIsFinal
<1>1. Init => EOFIsFinal
  BY DEF Init, EOFIsFinal
<1>2. QED
  BY <1>1, NextEOFIsFinal, TypeCorrect, PTL DEF Spec

-----------------------------------------------------------------------------
(* Refinement.                                                             *)

\* What Take delivers extends what was delivered, within what was accepted.
LEMMA TakeIsDeliver ==
    ASSUME TypeOK, TypeOK', StreamIntact, StreamIntact',
           NEW b \in Ports, NEW n \in Nat, Take(b, n)
    PROVE  Streams!Deliver(b, Len(delivered'[b]))
<1> DEFINE front == SubSeq(buffer[b], 1, Least(n, Len(buffer[b])))
<1>1. /\ buffer[b] \in Seq(Bytes) /\ buffer'[b] \in Seq(Bytes)
      /\ delivered[b] \in Seq(Bytes) /\ delivered'[b] \in Seq(Bytes)
      /\ Len(buffer[b]) \in Nat
  BY LenProperties DEF TypeOK
<1>2. accepted'[b] = delivered'[b] \o buffer'[b] /\ accepted' = accepted
  BY DEF StreamIntact, Take
<1>3. SubSeq(accepted[b], 1, Len(delivered'[b])) = delivered'[b]
  BY <1>1, <1>2, PrefixOfConcat
<1>4. delivered' = [delivered EXCEPT ![b] = @ \o front]
  BY DEF Take
<1>5. front \in Seq(Bytes)
  BY <1>1, LeastInRange, CutSequence
<1>6. Len(delivered[b]) <= Len(delivered'[b])
  <2>1. delivered'[b] = delivered[b] \o front
    BY <1>4 DEF TypeOK
  <2>2. QED
    BY <1>1, <1>5, <2>1, ConcatIsLonger
<1> HIDE DEF front
<1>7. Len(delivered'[b]) <= Len(accepted[b])
  BY <1>1, <1>2, ConcatIsLonger
<1>8. delivered' = [delivered EXCEPT ![b] = SubSeq(accepted[b], 1, Len(delivered'[b]))]
  <2>1. delivered'[b] = delivered[b] \o front
    BY <1>4 DEF TypeOK
  <2>2. QED
    BY <1>3, <1>4, <2>1
<1>9. UNCHANGED <<accepted, closed>>
  BY DEF Take
<1>10. QED
  BY <1>6, <1>7, <1>8, <1>9 DEF Streams!Deliver

\* An accepted Write sends its data.
LEMMA WriteIsSend ==
    ASSUME TypeOK, NEW t \in Threads, NEW p \in Ports, NEW bytes \in Writes,
           Write(t, p, bytes)
    PROVE  Streams!StreamStep
<1> DEFINE b == Writer(p)
<1>1. b \in Ports /\ accepted[b] \in Seq(Bytes) /\ bytes \in Seq(Bytes)
  BY PortsAreBuffers, PipeAssumption DEF TypeOK
<1> HIDE DEF b
<1>2. accepted' = [accepted EXCEPT ![b] = @ \o bytes] /\ ~closed[b]
      /\ UNCHANGED <<closed, delivered>>
  BY DEF Write, b
<1>3. accepted'[b] = accepted[b] \o bytes
  BY <1>1, <1>2 DEF TypeOK
<1>4. /\ Len(accepted[b]) \in Nat /\ Len(bytes) \in Nat
      /\ Len(accepted[b] \o bytes) = Len(accepted[b]) + Len(bytes)
  BY <1>1, LenProperties, ConcatProperties
<1> DEFINE rest == SubSeq(accepted'[b], Len(accepted[b]) + 1, Len(accepted'[b]))
<1>5. rest = bytes
  BY <1>1, <1>3, SuffixOfConcat
<1>6. Streams!Send(b, rest)
  <2> HIDE DEF rest
  <2>1. QED
    BY <1>2, <1>5 DEF Streams!Send
<1>7. Len(accepted[b]) <= Len(accepted'[b])
  BY <1>3, <1>4
<1>8. QED
  BY <1>1, <1>6, <1>7 DEF Streams!StreamStep

LEMMA NextImplementsStream ==
    TypeOK /\ TypeOK' /\ StreamIntact /\ StreamIntact' /\ [Next]_vars
        => [Streams!StreamStep]_<<accepted, delivered, closed>>
<1> SUFFICES ASSUME TypeOK, TypeOK', StreamIntact, StreamIntact', [Next]_vars
             PROVE  Streams!StreamStep \/ UNCHANGED <<accepted, delivered, closed>>
  OBVIOUS
<1> USE PipeAssumption, PortsAreBuffers
<1>1. ASSUME NEW t \in Threads, NEW p \in Ports, NEW bytes \in Writes, Write(t, p, bytes)
      PROVE  Streams!StreamStep
  BY <1>1, WriteIsSend
<1>2. ASSUME NEW b \in Ports, NEW n \in Nat, Take(b, n)
      PROVE  Streams!StreamStep
  BY <1>2, TakeIsDeliver DEF Streams!StreamStep
<1>3. ASSUME NEW t \in Threads, NEW p \in Ports, NEW n \in ReadSizes,
             Read(t, p, n)
      PROVE  Streams!StreamStep
  BY <1>2, <1>3 DEF Read
<1>4. ASSUME NEW t \in Threads, Resume(t)
      PROVE  Streams!StreamStep
  <2>1. Reader(port[t]) \in Ports /\ size[t] \in Nat
    BY DEF TypeOK
  <2>2. QED
    BY <1>2, <1>4, <2>1 DEF Resume
<1>5. ASSUME NEW b \in Ports, NEW t, NEW next, CloseBuffer(t, b, next)
      PROVE  Streams!StreamStep
  BY <1>5 DEF CloseBuffer, Streams!StreamStep, Streams!Shut
<1>6. ASSUME NEW t \in Threads, CloseWriter(t)
      PROVE  Streams!StreamStep
  <2>1. port[t] \in Ports
    BY DEF TypeOK
  <2>2. QED
    BY <1>5, <1>6, <2>1 DEF CloseWriter
<1>7. QED
  BY <1>1, <1>3, <1>4, <1>5, <1>6 DEF Next, WriteRefused, ReadWaits, SleepAgain, CloseReader, vars

\* The pipe is a pair of byte streams.
THEOREM PipeImplementsDuplex == Spec => ImplementsDuplex
<1>1. Init => Streams!StreamInit
  BY DEF Init, Streams!StreamInit
<1>2. QED
  BY <1>1, NextImplementsStream, TypeCorrect, StreamsStayIntact, PTL
     DEF Spec, ImplementsDuplex, Streams!StreamSteps, Streams!streams

-----------------------------------------------------------------------------
(* Terminals: sums over sequences of pieces, first.                        *)

\* A set of naturals has a least one.
LEMMA LeastOfNaturals ==
  ASSUME NEW T, T \subseteq Nat, T # {}
  PROVE  \E x \in T : \A y \in T : x <= y
<1>1. IsWellFoundedOn(OpToRel(<, Nat), Nat)
  BY NatLessThanWellFounded
<1>2. PICK x \in T : \A y \in T : ~ (<<y, x>> \in OpToRel(<, Nat))
  BY <1>1, WFMin
<1>3. ASSUME NEW y \in T
      PROVE  x <= y
  <2>1. <<y, x>> \in Nat \X Nat
    OBVIOUS
  <2>2. ~ (y < x)
    BY <1>2, <1>3, <2>1 DEF OpToRel
  <2> QED BY <2>2
<1> QED BY <1>3

\* Induction on a set of naturals.
LEMMA InductionOnSets ==
  ASSUME NEW T, 0 \in T, \A n \in Nat : n \in T => n + 1 \in T
  PROVE  \A n \in Nat : n \in T
<1>1. SUFFICES ASSUME NEW m \in Nat, m \notin T PROVE FALSE
  OBVIOUS
<1> DEFINE out == {n \in Nat : n \notin T}
<1>2. PICK x \in out : \A y \in out : x <= y
  <2>1. out \subseteq Nat /\ out # {}
    BY <1>1
  <2> HIDE DEF out
  <2> QED BY <2>1, LeastOfNaturals
<1>3. x \in Nat /\ x # 0 /\ x \notin T
  OBVIOUS
<1>4. x - 1 \in Nat /\ x - 1 < x /\ (x - 1) + 1 = x
  BY <1>3
<1>5. x - 1 \notin out
  BY <1>2, <1>4
<1> QED BY <1>3, <1>4, <1>5

-----------------------------------------------------------------------------
(* Sequences put together from pieces.                                     *)

\* f[i] is the first i pieces of s, put together
SumsTo(S, s, k, f) ==
  /\ f \in [0 .. k -> Seq(S)]
  /\ f[0] = <<>>
  /\ \A i \in 1 .. k : f[i] = f[i - 1] \o s[i]
Sums(S, s, f) == SumsTo(S, s, Len(s), f)

\* One more piece.
LEMMA OneMorePiece ==
  ASSUME NEW S, NEW s \in Seq(Seq(S)), NEW k \in Nat, k + 1 <= Len(s), NEW f, SumsTo(S, s, k, f)
  PROVE  \E g : SumsTo(S, s, k + 1, g)
<1>1. s[k + 1] \in Seq(S) /\ f[k] \in Seq(S)
  <2>1. k + 1 \in 1 .. Len(s)
    BY LenProperties
  <2> QED BY <2>1, ElementOfSeq DEF SumsTo
<1> DEFINE new == f[k] \o s[k + 1]
           g == [i \in 0 .. k + 1 |-> IF i <= k THEN f[i] ELSE new]
<1>2. new \in Seq(S)
  BY <1>1, ConcatProperties
<1>3. g \in [0 .. k + 1 -> Seq(S)]
  <2> HIDE DEF new
  <2> QED BY <1>2 DEF SumsTo
<1>4. \A i \in 0 .. k : g[i] = f[i]
  OBVIOUS
<1>5. g[k + 1] = f[k] \o s[k + 1]
  <2> HIDE DEF new
  <2>1. g[k + 1] = new
    OBVIOUS
  <2> QED BY <2>1 DEF new
<1> HIDE DEF g
<1>6. ASSUME NEW i \in 1 .. k + 1
      PROVE  g[i] = g[i - 1] \o s[i]
  <2>1. PICK j \in 0 .. k : j = i - 1
    OBVIOUS
  <2>2. g[j] = f[j]
    BY <1>4, <2>1
  <2>3. g[i] = f[j] \o s[i]
    <3>1. CASE i \in 1 .. k
      <4>0. i \in 0 .. k
        BY <3>1
      <4>1. g[i] = f[i] /\ f[i] = f[i - 1] \o s[i]
        BY <1>4, <3>1, <4>0, Zenon DEF SumsTo
      <4>2. f[i - 1] = f[j]
        BY <2>1
      <4> QED BY <4>1, <4>2, Zenon
    <3>2. CASE i = k + 1
      <4>1. j = k
        BY <3>2, <2>1
      <4>2. f[j] = f[k]
        BY <4>1, Zenon
      <4>3. g[i] = g[k + 1] /\ s[i] = s[k + 1]
        BY <3>2, Zenon
      <4> QED BY <4>2, <4>3, <1>5, Zenon
    <3>3. i \in 1 .. k \/ i = k + 1
      OBVIOUS
    <3> QED BY <3>1, <3>2, <3>3, Zenon
  <2> QED BY <2>1, <2>2, <2>3, Zenon
<1>7. g[0] = <<>>
  BY <1>4 DEF SumsTo
<1> QED BY <1>3, <1>6, <1>7 DEF SumsTo

LEMMA SumsExist ==
  ASSUME NEW S, NEW s \in Seq(Seq(S))
  PROVE  \E f : Sums(S, s, f)
<1> DEFINE ks == {k \in Nat : k <= Len(s) => \E f : SumsTo(S, s, k, f)}
<1>0. Len(s) \in Nat
  BY LenProperties
<1>1. 0 \in ks
  <2>1. SumsTo(S, s, 0, [i \in 0 .. 0 |-> <<>>])
    BY DEF SumsTo
  <2> QED BY <2>1
<1>2. ASSUME NEW k \in Nat, k \in ks
      PROVE  k + 1 \in ks
  <2>1. ASSUME k + 1 <= Len(s)
        PROVE  \E f : SumsTo(S, s, k + 1, f)
    <3>1. PICK f : SumsTo(S, s, k, f)
      BY <1>0, <1>2, <2>1
    <3> QED BY <2>1, <3>1, OneMorePiece
  <2> QED BY <2>1
<1>3. Len(s) \in ks
  <2> HIDE DEF ks
  <2> QED BY <1>0, <1>1, <1>2, InductionOnSets
<1> QED BY <1>0, <1>3 DEF Sums

\* Whatever goes on from piece to piece in that way is the same.
LEMMA SumsUnique ==
  ASSUME NEW S, NEW s \in Seq(Seq(S)), NEW f, Sums(S, s, f),
         NEW g, NEW b \in {0, 1}, b <= Len(s), g[b] = f[b],
         \A i \in 1 .. Len(s) : i > b => g[i] = g[i - 1] \o s[i]
  PROVE  g[Len(s)] = f[Len(s)]
<1> DEFINE ks == {k \in Nat : b + k <= Len(s) => g[b + k] = f[b + k]}
<1>0. Len(s) \in Nat
  BY LenProperties
<1>1. 0 \in ks
  OBVIOUS
<1>2. ASSUME NEW k \in Nat, k \in ks
      PROVE  k + 1 \in ks
  <2>1. SUFFICES ASSUME b + (k + 1) <= Len(s) PROVE g[b + (k + 1)] = f[b + (k + 1)]
    OBVIOUS
  <2>2. g[b + k] = f[b + k]
    BY <1>0, <1>2, <2>1
  <2>3. PICK i \in 1 .. Len(s) : i = b + (k + 1) /\ i > b /\ i - 1 = b + k
    BY <1>0, <2>1
  <2>4. g[i] = g[i - 1] \o s[i] /\ f[i] = f[i - 1] \o s[i]
    BY <2>3 DEF Sums, SumsTo
  <2> QED BY <2>2, <2>3, <2>4
<1>3. PICK k \in Nat : b + k = Len(s)
  <2>1. Len(s) - b \in Nat /\ b + (Len(s) - b) = Len(s)
    BY <1>0
  <2> QED BY <2>1
<1>4. k \in ks
  <2> HIDE DEF ks
  <2> QED BY <1>1, <1>2, InductionOnSets
<1> QED BY <1>3, <1>4

LEMMA FlattenIsSum ==
  ASSUME NEW S, NEW s \in Seq(Seq(S)), NEW f, Sums(S, s, f)
  PROVE  FlattenSeq(s) = f[Len(s)]
<1>0. Len(s) \in Nat
  BY LenProperties
<1>1. CASE s = <<>>
  BY <1>1 DEF FlattenSeq, Sums, SumsTo
<1>2. CASE s # <<>>
  <2>1. Len(s) # 0 /\ 1 \in 1 .. Len(s)
    BY <1>0, <1>2, EmptySeq
  <2> DEFINE Builds(h) == h = [i \in 1 .. Len(s) |-> IF i = 1 THEN s[i] ELSE h[i - 1] \o s[i]]
             h0 == [i \in 1 .. Len(s) |-> f[i]]
             h1 == CHOOSE h : Builds(h)
  <2>2. f[1] = s[1]
    <3>1. s[1] \in Seq(S) /\ f[1] = f[1 - 1] \o s[1] /\ f[0] = <<>>
      BY <2>1, ElementOfSeq DEF Sums, SumsTo
    <3>0. 1 - 1 = 0
      OBVIOUS
    <3>2. f[1] = <<>> \o s[1]
      BY <3>0, <3>1, Zenon
    <3>3. <<>> \o s[1] = s[1]
      BY <3>1, ConcatEmptySeq
    <3> QED BY <3>2, <3>3, Zenon
  <2>3. Builds(h0)
    <3>1. ASSUME NEW i \in 1 .. Len(s)
          PROVE  f[i] = IF i = 1 THEN s[i] ELSE h0[i - 1] \o s[i]
      <4>1. CASE i = 1
        BY <4>1, <2>2
      <4>2. CASE i # 1
        <5>1. i - 1 \in 1 .. Len(s)
          BY <1>0, <4>2
        <5>2. h0[i - 1] = f[i - 1]
          BY <5>1
        <5>3. f[i] = f[i - 1] \o s[i]
          BY DEF Sums, SumsTo
        <5> QED BY <4>2, <5>2, <5>3
      <4> QED BY <4>1, <4>2
    <3> DEFINE v(i) == IF i = 1 THEN s[i] ELSE h0[i - 1] \o s[i]
    <3>2. \A i \in 1 .. Len(s) : f[i] = v(i)
      BY <3>1
    <3>3. [i \in 1 .. Len(s) |-> f[i]] = [i \in 1 .. Len(s) |-> v(i)]
      <4> HIDE DEF v
      <4> QED BY <3>2
    <3> QED BY <3>3
  <2>4. Builds(h1)
    <3> HIDE DEF Builds, h0
    <3> QED BY <2>3
  <2>5. FlattenSeq(s) = h1[Len(s)]
    BY <2>1 DEF FlattenSeq
  <2> HIDE DEF h1
  <2>6. h1[1] = f[1]
    BY <2>4, <2>2, <2>1
  <2>7. \A i \in 1 .. Len(s) : i > 1 => h1[i] = h1[i - 1] \o s[i]
    <3>1. ASSUME NEW i \in 1 .. Len(s), i > 1
          PROVE  h1[i] = h1[i - 1] \o s[i]
      <4>1. h1[i] = IF i = 1 THEN s[i] ELSE h1[i - 1] \o s[i]
        <5> DEFINE v(j) == IF j = 1 THEN s[j] ELSE h1[j - 1] \o s[j]
        <5>1. h1 = [j \in 1 .. Len(s) |-> v(j)]
          BY <2>4, Zenon
        <5>2. h1[i] = v(i)
          <6> HIDE DEF v
          <6> QED BY <5>1
        <5> QED BY <5>2
      <4>2. i # 1
        BY <3>1
      <4> QED BY <4>2, <4>1, Zenon
    <3> QED BY <3>1
  <2>8. h1[Len(s)] = f[Len(s)]
    <3> HIDE DEF Builds
    <3>1. 1 <= Len(s) /\ 1 \in {0, 1}
      BY <2>1, <1>0
    <3> QED BY <2>6, <2>7, <3>1, SumsUnique
  <2> QED BY <2>5, <2>8
<1> QED BY <1>1, <1>2

\* The piece at i of two lists of pieces, one after the other.
LEMMA PieceOfBoth ==
  ASSUME NEW S, NEW s \in Seq(S), NEW t \in Seq(S)
  PROVE  /\ s \o t \in Seq(S) /\ Len(s \o t) = Len(s) + Len(t)
         /\ Len(s) \in Nat /\ Len(t) \in Nat
         /\ \A i \in 1 .. Len(s) : (s \o t)[i] = s[i]
         /\ \A i \in 1 .. Len(t) : (s \o t)[Len(s) + i] = t[i]
<1>1. Len(s) \in Nat /\ Len(t) \in Nat
  BY LenProperties
<1>2. /\ s \o t \in Seq(S) /\ Len(s \o t) = Len(s) + Len(t)
      /\ \A i \in 1 .. Len(s) + Len(t) : (s \o t)[i] = IF i <= Len(s) THEN s[i] ELSE t[i - Len(s)]
  BY ConcatProperties
<1>3. ASSUME NEW i \in 1 .. Len(t)
      PROVE  (s \o t)[Len(s) + i] = t[i]
  <2>1. PICK j \in 1 .. Len(s) + Len(t) : j = Len(s) + i /\ ~ (j <= Len(s)) /\ j - Len(s) = i
    BY <1>1
  <2>2. (s \o t)[j] = t[j - Len(s)]
    BY <1>2, <2>1
  <2> QED BY <2>1, <2>2
<1> QED BY <1>1, <1>2, <1>3

LEMMA OnePieceLater ==
  ASSUME NEW S, NEW a \in Seq(S), NEW x \in Seq(S), NEW y \in Seq(S)
  PROVE  (a \o x) \o y = a \o (x \o y)
BY ConcatAssociative, SMTT(30)

LEMMA FlattenConcat ==
  ASSUME NEW S, NEW s \in Seq(Seq(S)), NEW t \in Seq(Seq(S))
  PROVE  /\ FlattenSeq(s) \in Seq(S)
         /\ FlattenSeq(s \o t) = FlattenSeq(s) \o FlattenSeq(t)
<1>1. PICK f : Sums(S, s, f)
  BY SumsExist
<1>2. PICK g : Sums(S, t, g)
  BY SumsExist
<1>3. PICK n \in Nat : n = Len(s)
  BY LenProperties
<1>4. PICK m \in Nat : m = Len(t)
  BY LenProperties
<1>5. PICK st \in Seq(Seq(S)) :
        /\ st = s \o t /\ Len(st) = n + m
        /\ \A i \in 1 .. n : st[i] = s[i]
        /\ \A i \in 1 .. m : st[n + i] = t[i]
  <2>1. /\ s \o t \in Seq(Seq(S)) /\ Len(s \o t) = Len(s) + Len(t)
        /\ \A i \in 1 .. Len(s) : (s \o t)[i] = s[i]
        /\ \A i \in 1 .. Len(t) : (s \o t)[Len(s) + i] = t[i]
    BY PieceOfBoth
  <2> QED BY <2>1, <1>3, <1>4, Zenon
<1>6. /\ f \in [0 .. n -> Seq(S)] /\ f[0] = <<>> /\ \A i \in 1 .. n : f[i] = f[i - 1] \o s[i]
      /\ g \in [0 .. m -> Seq(S)] /\ g[0] = <<>> /\ \A i \in 1 .. m : g[i] = g[i - 1] \o t[i]
  BY <1>1, <1>2, <1>3, <1>4 DEF Sums, SumsTo
<1>7. PICK a \in Seq(S) : a = f[n]
  BY <1>6
<1>8. \A i \in 1 .. m : t[i] \in Seq(S)
  BY <1>4, ElementOfSeq
<1> DEFINE later(i) == a \o g[i - n]
           h == [i \in 0 .. n + m |-> IF i <= n THEN f[i] ELSE later(i)]
<1>9. \A i \in 0 .. n : h[i] = f[i]
  <2> HIDE DEF later
  <2> QED OBVIOUS
<1>10. ASSUME NEW j \in 0 .. m
       PROVE  h[n + j] = a \o g[j]
  <2>1. CASE j = 0
    <3>1. h[n + j] = a /\ g[j] = <<>>
      BY <1>6, <1>7, <1>9, <2>1
    <3>2. a \o <<>> = a
      BY ConcatEmptySeq
    <3> QED BY <3>1, <3>2, Zenon
  <2>2. CASE j # 0
    <3>1. h[n + j] = later(n + j)
      <4> HIDE DEF later
      <4> QED BY <2>2
    <3>2. g[(n + j) - n] = g[j]
      <4>1. (n + j) - n = j
        OBVIOUS
      <4> QED BY <4>1, Zenon
    <3>3. later(n + j) = a \o g[j]
      BY <3>2, Zenon
    <3> QED BY <3>1, <3>3, Zenon
  <2>3. j = 0 \/ j # 0
    OBVIOUS
  <2> QED BY <2>1, <2>2, <2>3, Zenon
<1>11. h \in [0 .. n + m -> Seq(S)]
  <2>1. ASSUME NEW i \in 0 .. n + m PROVE h[i] \in Seq(S)
    <3>1. CASE i <= n
      <4>1. i \in 0 .. n
        BY <3>1
      <4> HIDE DEF h
      <4> QED BY <4>1, <1>9, <1>6
    <3>2. CASE ~ (i <= n)
      <4>1. PICK j \in 0 .. m : i = n + j
        <5>1. i - n \in 0 .. m /\ i = n + (i - n)
          BY <3>2
        <5> QED BY <5>1
      <4> HIDE DEF h
      <4>2. h[n + j] = a \o g[j] /\ g[j] \in Seq(S)
        BY <1>10, <1>6
      <4>3. a \o g[j] \in Seq(S)
        BY <4>2, ConcatProperties
      <4>4. h[i] = a \o g[j]
        BY <4>1, <4>2, Zenon
      <4> QED BY <4>3, <4>4, Zenon
    <3> QED BY <3>1, <3>2, Zenon
  <2>2. DOMAIN h = 0 .. n + m /\ h = [i \in 0 .. n + m |-> h[i]]
    <3> HIDE DEF later
    <3> QED OBVIOUS
  <2> HIDE DEF h
  <2> QED BY <2>1, <2>2
<1> HIDE DEF h, later
<1>12. ASSUME NEW i \in 1 .. n + m
       PROVE  h[i] = h[i - 1] \o st[i]
  <2>1. CASE i \in 1 .. n
    <3>1. i \in 0 .. n /\ i - 1 \in 0 .. n
      BY <2>1
    <3>2. h[i] = f[i] /\ h[i - 1] = f[i - 1]
      BY <3>1, <1>9
    <3>3. f[i] = f[i - 1] \o s[i] /\ st[i] = s[i]
      BY <2>1, <1>5, <1>6, Zenon
    <3> QED BY <3>2, <3>3, Zenon
  <2>2. CASE i \notin 1 .. n
    <3>1. PICK j \in 1 .. m : i = n + j
      <4>1. i - n \in 1 .. m /\ i = n + (i - n)
        BY <2>2
      <4> QED BY <4>1
    <3>2. j \in 0 .. m /\ j - 1 \in 0 .. m /\ i - 1 = n + (j - 1)
      BY <3>1
    <3>3. h[n + j] = a \o g[j] /\ h[n + (j - 1)] = a \o g[j - 1]
      BY <3>2, <1>10
    <3>4. h[i] = a \o g[j] /\ h[i - 1] = a \o g[j - 1]
      BY <3>1, <3>2, <3>3, Zenon
    <3>5. g[j] = g[j - 1] \o t[j] /\ st[n + j] = t[j]
      BY <1>5, <1>6, Zenon
    <3>6. st[i] = t[j]
      BY <3>1, <3>5, Zenon
    <3>7. g[j - 1] \in Seq(S) /\ t[j] \in Seq(S)
      BY <3>2, <1>6, <1>8
    <3>8. (a \o g[j - 1]) \o t[j] = a \o (g[j - 1] \o t[j])
      <4>1. PICK x \in Seq(S), y \in Seq(S) : x = g[j - 1] /\ y = t[j]
        BY <3>7
      <4>2. (a \o x) \o y = a \o (x \o y)
        BY OnePieceLater, SMTT(60)
      <4> QED BY <4>1, <4>2, Zenon
    <3>9. a \o g[j] = a \o (g[j - 1] \o t[j])
      BY <3>5, Zenon
    <3>10. h[i - 1] \o st[i] = (a \o g[j - 1]) \o t[j]
      BY <3>4, <3>6, Zenon
    <3> QED BY <3>4, <3>8, <3>9, <3>10, Zenon
  <2> QED BY <2>1, <2>2, Zenon
<1>13. Sums(S, st, h)
  <2>1. h[0] = <<>>
    <3>1. 0 \in 0 .. n
      OBVIOUS
    <3> QED BY <1>6, <1>9, <3>1, Zenon
  <2>2. SumsTo(S, st, n + m, h)
    BY <1>11, <1>12, <2>1, Zenon DEF SumsTo
  <2> QED BY <1>5, <2>2, Zenon DEF Sums
<1>14. FlattenSeq(st) = h[n + m] /\ FlattenSeq(s) = f[n] /\ FlattenSeq(t) = g[m]
  <2>1. FlattenSeq(st) = h[Len(st)] /\ FlattenSeq(s) = f[Len(s)] /\ FlattenSeq(t) = g[Len(t)]
    BY <1>1, <1>2, <1>13, FlattenIsSum
  <2> QED BY <2>1, <1>3, <1>4, <1>5, Zenon
<1>15. h[n + m] = a \o g[m]
  <2>1. m \in 0 .. m
    OBVIOUS
  <2> QED BY <2>1, <1>10
<1>16. FlattenSeq(s) = a
  BY <1>14, <1>7, Zenon
<1>17. FlattenSeq(s \o t) = FlattenSeq(s) \o FlattenSeq(t)
  BY <1>5, <1>14, <1>15, <1>16, Zenon
<1> QED BY <1>16, <1>17, Zenon

LEMMA FlattenOne ==
  ASSUME NEW S
  PROVE  FlattenSeq(<<>>) = <<>>
<1>1. Len(<<>>) = 0
  BY EmptySeq
<1> QED BY <1>1 DEF FlattenSeq

-----------------------------------------------------------------------------
(* Terminals.                                                              *)

\* What a byte becomes, by the one before it
Piece(b, last) == IF b = NL /\ last # CR THEN <<CR, NL>> ELSE <<b>>
Before(p, i, before) == IF i = 1 THEN before ELSE p[i - 1]
Pieces(p, before) == [i \in 1 .. Len(p) |-> Piece(p[i], Before(p, i, before))]

LEMMA PiecesType ==
  ASSUME NEW p \in Seq(TermBytes), NEW before
  PROVE  /\ Pieces(p, before) \in Seq(Seq(TermBytes))
         /\ Len(Pieces(p, before)) = Len(p) /\ Len(p) \in Nat
         /\ \A i \in 1 .. Len(p) : Pieces(p, before)[i] = Piece(p[i], Before(p, i, before))
<1>1. Len(p) \in Nat
  BY LenProperties
<1>2. \A b \in TermBytes : \A last : Piece(b, last) \in Seq(TermBytes)
  <2>1. NL \in TermBytes /\ CR \in TermBytes
    BY TermAssumption
  <2>2. ASSUME NEW b \in TermBytes
        PROVE  <<b>> \in Seq(TermBytes)
    OBVIOUS
  <2>3. ASSUME NEW b \in TermBytes, NEW c \in TermBytes
        PROVE  <<b, c>> \in Seq(TermBytes)
    OBVIOUS
  <2> QED BY <2>1, <2>2, <2>3 DEF Piece
<1>3. \A i \in 1 .. Len(p) : p[i] \in TermBytes
  BY ElementOfSeq
<1>4. Pieces(p, before) \in [1 .. Len(p) -> Seq(TermBytes)]
  BY <1>2, <1>3 DEF Pieces
<1>5. \A i \in 1 .. Len(p) : Pieces(p, before)[i] = Piece(p[i], Before(p, i, before))
  BY DEF Pieces
<1>6. Pieces(p, before) \in Seq(Seq(TermBytes)) /\ Len(Pieces(p, before)) = Len(p)
  BY <1>1, <1>4
<1> QED BY <1>1, <1>5, <1>6

\* The loop of programFile.Write puts the pieces together.
LEMMA TranslateFlattens ==
  ASSUME NEW p \in Seq(TermBytes), NEW before
  PROVE  Translate(p, before) = FlattenSeq(Pieces(p, before))
<1>1. PICK n \in Nat : n = Len(p)
  BY LenProperties
<1>2. PICK s \in Seq(Seq(TermBytes)) :
        /\ s = Pieces(p, before) /\ Len(s) = n
        /\ \A i \in 1 .. n : s[i] = Piece(p[i], Before(p, i, before))
  BY <1>1, PiecesType
<1>3. PICK f : Sums(TermBytes, s, f)
  BY SumsExist
<1> DEFINE v(h, i) == IF i = 0 THEN <<>> ELSE h[i - 1] \o Piece(p[i], Before(p, i, before))
           Builds(h) == h = [i \in 0 .. n |-> v(h, i)]
           h1 == CHOOSE h : Builds(h)
<1>4. /\ f[0] = <<>> /\ DOMAIN f = 0 .. n /\ f = [i \in 0 .. n |-> f[i]]
      /\ \A i \in 1 .. n : f[i] = f[i - 1] \o s[i]
  <2>1. f \in [0 .. n -> Seq(TermBytes)] /\ f[0] = <<>> /\ \A i \in 1 .. n : f[i] = f[i - 1] \o s[i]
    BY <1>2, <1>3, Zenon DEF Sums, SumsTo
  <2> QED BY <2>1
<1>5. Builds(f)
  <2>1. ASSUME NEW i \in 0 .. n
        PROVE  f[i] = v(f, i)
    <3>1. CASE i = 0
      BY <3>1, <1>4
    <3>2. CASE i # 0
      <4>1. i \in 1 .. n
        BY <3>2
      <4>2. f[i] = f[i - 1] \o s[i] /\ s[i] = Piece(p[i], Before(p, i, before))
        BY <1>2, <1>4, <4>1, Zenon
      <4> QED BY <3>2, <4>2, Zenon
    <3> QED BY <3>1, <3>2, Zenon
  <2>2. [i \in 0 .. n |-> f[i]] = [i \in 0 .. n |-> v(f, i)]
    <3> HIDE DEF v
    <3> QED BY <2>1
  <2> QED BY <1>4, <2>2, Zenon
<1>6. Builds(h1)
  <2> HIDE DEF Builds
  <2> QED BY <1>5
<1>7. Translate(p, before) = h1[n]
  BY <1>1, Zenon DEF Translate, Piece, Before
<1> HIDE DEF h1
<1>8. \A i \in 0 .. n : h1[i] = v(h1, i)
  <2> HIDE DEF v
  <2> QED BY <1>6
<1>9. h1[0] = f[0]
  <2>1. 0 \in 0 .. n
    OBVIOUS
  <2>2. h1[0] = v(h1, 0)
    BY <2>1, <1>8, Zenon
  <2> QED BY <2>2, <1>4, Zenon
<1>10. \A i \in 1 .. n : i > 0 => h1[i] = h1[i - 1] \o s[i]
  <2>1. ASSUME NEW i \in 1 .. n
        PROVE  h1[i] = h1[i - 1] \o s[i]
    <3>1. i \in 0 .. n /\ i # 0
      OBVIOUS
    <3>2. h1[i] = v(h1, i)
      BY <3>1, <1>8, Zenon
    <3>3. s[i] = Piece(p[i], Before(p, i, before))
      BY <1>2, Zenon
    <3> QED BY <3>1, <3>2, <3>3, Zenon
  <2> QED BY <2>1
<1>11. h1[n] = f[n]
  <2> HIDE DEF Builds, v
  <2>1. 0 \in {0, 1} /\ 0 <= n
    OBVIOUS
  <2>2. h1[Len(s)] = f[Len(s)]
    BY <1>2, <1>3, <1>9, <1>10, <2>1, SumsUnique
  <2> QED BY <1>2, <2>2, Zenon
<1>12. FlattenSeq(s) = f[n]
  <2>1. FlattenSeq(s) = f[Len(s)]
    BY <1>3, FlattenIsSum
  <2> QED BY <1>2, <2>1, Zenon
<1> QED BY <1>2, <1>7, <1>11, <1>12, Zenon

LEMMA ShownFlattens ==
  ASSUME NEW w \in Seq(TermBytes)
  PROVE  Shown(w) = FlattenSeq(Pieces(w, Zero))
<1>1. DOMAIN w = 1 .. Len(w)
  BY LenProperties
<1> DEFINE v(i) == IF w[i] = NL /\ (IF i = 1 THEN TRUE ELSE w[i - 1] # CR) THEN <<CR, NL>> ELSE <<w[i]>>
           u(i) == Piece(w[i], Before(w, i, Zero))
<1>2. Zero # CR
  BY DEF Zero, CR
<1>3. \A i \in 1 .. Len(w) : v(i) = u(i)
  BY <1>2, Zenon DEF Piece, Before
<1>4. [i \in 1 .. Len(w) |-> v(i)] = [i \in 1 .. Len(w) |-> u(i)]
  <2> HIDE DEF v, u
  <2> QED BY <1>3
<1>5. Shown(w) = FlattenSeq([i \in 1 .. Len(w) |-> v(i)])
  BY <1>1, Zenon DEF Shown
<1> QED BY <1>4, <1>5, Zenon DEF Pieces

LastOf(w) == IF w = <<>> THEN Zero ELSE w[Len(w)]

LEMMA PiecesConcat ==
  ASSUME NEW w \in Seq(TermBytes), NEW p \in Seq(TermBytes)
  PROVE  Pieces(w \o p, Zero) = Pieces(w, Zero) \o Pieces(p, LastOf(w))
<1>1. PICK n \in Nat, m \in Nat : n = Len(w) /\ m = Len(p)
  BY LenProperties
<1>2. PICK wp \in Seq(TermBytes) :
        /\ wp = w \o p /\ Len(wp) = n + m
        /\ \A i \in 1 .. n : wp[i] = w[i]
        /\ \A i \in 1 .. m : wp[n + i] = p[i]
  <2>1. /\ w \o p \in Seq(TermBytes) /\ Len(w \o p) = Len(w) + Len(p)
        /\ \A i \in 1 .. Len(w) : (w \o p)[i] = w[i]
        /\ \A i \in 1 .. Len(p) : (w \o p)[Len(w) + i] = p[i]
    BY PieceOfBoth
  <2> QED BY <2>1, <1>1, Zenon
<1>3. PICK a \in Seq(Seq(TermBytes)) :
        /\ a = Pieces(w, Zero) /\ Len(a) = n
        /\ \A i \in 1 .. n : a[i] = Piece(w[i], Before(w, i, Zero))
  BY <1>1, PiecesType
<1>4. PICK b \in Seq(Seq(TermBytes)) :
        /\ b = Pieces(p, LastOf(w)) /\ Len(b) = m
        /\ \A i \in 1 .. m : b[i] = Piece(p[i], Before(p, i, LastOf(w)))
  BY <1>1, PiecesType
<1>5. PICK c \in Seq(Seq(TermBytes)) :
        /\ c = Pieces(wp, Zero) /\ Len(c) = n + m
        /\ \A i \in 1 .. n + m : c[i] = Piece(wp[i], Before(wp, i, Zero))
  <2>1. /\ Pieces(wp, Zero) \in Seq(Seq(TermBytes)) /\ Len(Pieces(wp, Zero)) = Len(wp)
        /\ \A i \in 1 .. Len(wp) : Pieces(wp, Zero)[i] = Piece(wp[i], Before(wp, i, Zero))
    BY PiecesType
  <2> QED BY <1>2, <2>1, Zenon
<1>6. PICK ab \in Seq(Seq(TermBytes)) :
        /\ ab = a \o b /\ Len(ab) = n + m
        /\ \A i \in 1 .. n : ab[i] = a[i]
        /\ \A i \in 1 .. m : ab[n + i] = b[i]
  <2>1. /\ a \o b \in Seq(Seq(TermBytes)) /\ Len(a \o b) = Len(a) + Len(b)
        /\ \A i \in 1 .. Len(a) : (a \o b)[i] = a[i]
        /\ \A i \in 1 .. Len(b) : (a \o b)[Len(a) + i] = b[i]
    BY PieceOfBoth
  <2> QED BY <2>1, <1>3, <1>4, ZenonT(30)
<1>7. ASSUME NEW i \in 1 .. n
      PROVE  c[i] = ab[i]
  <2>1. wp[i] = w[i]
    BY <1>2
  <2>2. Before(wp, i, Zero) = Before(w, i, Zero)
    <3>1. CASE i = 1
      BY <3>1 DEF Before
    <3>2. CASE i # 1
      <4>1. i - 1 \in 1 .. n
        BY <3>2
      <4>2. wp[i - 1] = w[i - 1]
        BY <4>1, <1>2
      <4> QED BY <3>2, <4>2, Zenon DEF Before
    <3> QED BY <3>1, <3>2, Zenon
  <2>3. i \in 1 .. n + m
    OBVIOUS
  <2>4. c[i] = Piece(wp[i], Before(wp, i, Zero)) /\ ab[i] = a[i] /\ a[i] = Piece(w[i], Before(w, i, Zero))
    BY <1>3, <1>5, <1>6, <2>3, Zenon
  <2> QED BY <2>1, <2>2, <2>4, Zenon
<1>8. ASSUME NEW i \in 1 .. m
      PROVE  c[n + i] = ab[n + i]
  <2>1. wp[n + i] = p[i]
    BY <1>2
  <2>2. Before(wp, n + i, Zero) = Before(p, i, LastOf(w))
    <3>1. CASE i = 1 /\ n = 0
      <4>1. w = <<>> /\ n + i = 1 /\ i = 1
        <5>1. w = <<>>
          BY <1>1, <3>1, EmptySeq
        <5>2. n + i = 1 /\ i = 1
          BY <3>1
        <5> QED BY <5>1, <5>2
      <4>2. Before(wp, n + i, Zero) = Zero
        BY <4>1, Zenon DEF Before
      <4>3. Before(p, i, LastOf(w)) = LastOf(w)
        BY <4>1, Zenon DEF Before
      <4>4. LastOf(w) = Zero
        BY <4>1, Zenon DEF LastOf
      <4> QED BY <4>2, <4>3, <4>4, Zenon
    <3>2. CASE i = 1 /\ n # 0
      <4>1. n + i # 1 /\ (n + i) - 1 = n /\ n \in 1 .. n /\ w # <<>>
        BY <1>1, <3>2
      <4>2. wp[n] = w[n]
        BY <4>1, <1>2
      <4>3. Before(p, i, LastOf(w)) = w[n]
        BY <1>1, <3>2, <4>1, Zenon DEF Before, LastOf
      <4>4. Before(wp, n + i, Zero) = wp[n]
        BY <4>1, Zenon DEF Before
      <4> QED BY <4>2, <4>3, <4>4, Zenon
    <3>3. CASE i # 1
      <4>1. n + i # 1 /\ (n + i) - 1 = n + (i - 1) /\ i - 1 \in 1 .. m
        BY <3>3
      <4>2. wp[n + (i - 1)] = p[i - 1]
        BY <4>1, <1>2, Zenon
      <4> QED BY <3>3, <4>1, <4>2, Zenon DEF Before
    <3> QED BY <3>1, <3>2, <3>3, Zenon
  <2>3. n + i \in 1 .. n + m
    OBVIOUS
  <2>4. c[n + i] = Piece(wp[n + i], Before(wp, n + i, Zero))
    BY <1>5, <2>3, Zenon
  <2>5. ab[n + i] = b[i] /\ b[i] = Piece(p[i], Before(p, i, LastOf(w)))
    BY <1>4, <1>6, Zenon
  <2> QED BY <2>1, <2>2, <2>4, <2>5, Zenon
<1>9. \A i \in 1 .. n + m : c[i] = ab[i]
  <2>1. ASSUME NEW i \in 1 .. n + m PROVE c[i] = ab[i]
    <3>1. CASE i <= n
      <4>1. i \in 1 .. n
        BY <3>1
      <4> QED BY <4>1, <1>7
    <3>2. CASE ~ (i <= n)
      <4>1. PICK j \in 1 .. m : i = n + j
        <5>1. i - n \in 1 .. m /\ i = n + (i - n)
          BY <3>2
        <5> QED BY <5>1
      <4> QED BY <4>1, <1>8, Zenon
    <3> QED BY <3>1, <3>2, Zenon
  <2> QED BY <2>1
<1>10. c = ab
  <2>1. Len(c) = n + m /\ Len(ab) = n + m
    BY <1>5, <1>6
  <2> QED BY <2>1, <1>9, SeqEqual
<1> QED BY <1>2, <1>3, <1>4, <1>5, <1>6, <1>10, Zenon

\* A terminal shows more by what a write makes of its data.
LEMMA ShownGrows ==
  ASSUME NEW w \in Seq(TermBytes), NEW p \in Seq(TermBytes)
  PROVE  Shown(w \o p) = Shown(w) \o Translate(p, LastOf(w))
<1>1. w \o p \in Seq(TermBytes)
  BY ConcatProperties
<1>2. Shown(w \o p) = FlattenSeq(Pieces(w \o p, Zero)) /\ Shown(w) = FlattenSeq(Pieces(w, Zero))
  BY <1>1, ShownFlattens
<1>3. Translate(p, LastOf(w)) = FlattenSeq(Pieces(p, LastOf(w)))
  BY TranslateFlattens
<1>4. Pieces(w, Zero) \in Seq(Seq(TermBytes)) /\ Pieces(p, LastOf(w)) \in Seq(Seq(TermBytes))
  BY PiecesType
<1>5. FlattenSeq(Pieces(w, Zero) \o Pieces(p, LastOf(w))) = FlattenSeq(Pieces(w, Zero)) \o FlattenSeq(Pieces(p, LastOf(w)))
  BY <1>4, FlattenConcat
<1> QED BY <1>2, <1>3, <1>5, PiecesConcat, Zenon

LEMMA LastOfBoth ==
  ASSUME NEW w \in Seq(TermBytes), NEW p \in Seq(TermBytes), p # <<>>
  PROVE  LastOf(w \o p) = p[Len(p)]
<1>1. PICK n \in Nat, m \in Nat : n = Len(w) /\ m = Len(p)
  BY LenProperties
<1>2. m # 0 /\ m \in 1 .. m
  BY <1>1, EmptySeq
<1>3. /\ w \o p \in Seq(TermBytes) /\ Len(w \o p) = n + m
      /\ \A i \in 1 .. m : (w \o p)[n + i] = p[i]
  BY <1>1, PieceOfBoth
<1>4. w \o p # <<>>
  <2>1. n + m # 0
    BY <1>2
  <2> QED BY <1>3, <2>1, EmptySeq
<1>5. (w \o p)[n + m] = p[m]
  BY <1>2, <1>3, Zenon
<1> QED BY <1>1, <1>3, <1>4, <1>5, Zenon DEF LastOf

\* Besides what is shown: programFile.prev is the last byte a program wrote, and
\* a terminal that is not allocated was not written to.
TermInv == /\ nextID \in Nat
           /\ typed \in [Terms -> Seq(TermBytes)]
           /\ prev = [t \in Terms |-> prev[t]]
           /\ data = [t \in Terms |-> data[t]]
           /\ \A t \in Terms : t > nextID => typed[t] = <<>>
           /\ \A t \in Terms \ raw : prev[t] = LastOf(typed[t]) /\ data[t] = Shown(typed[t])

LEMMA TermStarts ==
  TermInit => TermInv
<1>1. Shown(<<>>) = <<>> /\ LastOf(<<>>) = Zero
  <2>1. Shown(<<>>) = FlattenSeq(<<>>)
    BY DEF Shown
  <2> QED BY <2>1, FlattenOne, Zenon DEF LastOf
<1> QED BY <1>1 DEF TermInit, TermInv

LEMMA AllocKeeps ==
  ASSUME TermInv, TermAlloc
  PROVE  TermInv'
<1>1. /\ nextID + 1 \in Terms /\ nextID' = nextID + 1 /\ nextID \in Nat
      /\ prev' = [prev EXCEPT ![nextID + 1] = Zero]
      /\ data' = data /\ typed' = typed /\ raw' = raw
  BY DEF TermInv, TermAlloc
<1>2. typed[nextID + 1] = <<>>
  BY <1>1 DEF TermInv
<1>3. ASSUME NEW t \in Terms \ raw
      PROVE  prev'[t] = LastOf(typed[t])
  <2>1. CASE t = nextID + 1
    <3>1. prev'[t] = Zero
      BY <1>1, <2>1 DEF TermInv
    <3> QED BY <1>2, <2>1, <3>1, Zenon DEF LastOf
  <2>2. CASE t # nextID + 1
    <3>1. prev'[t] = prev[t]
      BY <1>1, <2>2 DEF TermInv
    <3> QED BY <3>1, Zenon DEF TermInv
  <2> QED BY <2>1, <2>2, Zenon
<1>4. prev' = [t \in Terms |-> prev'[t]]
  BY <1>1 DEF TermInv
<1>5. \A t \in Terms : t > nextID' => typed[t] = <<>>
  BY <1>1, TermAssumption DEF TermInv
<1> QED BY <1>1, <1>3, <1>4, <1>5 DEF TermInv

LEMMA WriteKeeps ==
  ASSUME TermInv, NEW u \in Terms, NEW p \in Chunks, ProgramWrite(u, p)
  PROVE  TermInv'
<1>1. p \in Seq(TermBytes) /\ p # <<>> /\ u \in Nat
  BY TermAssumption
<1>2. /\ u \in 1 .. nextID /\ nextID \in Nat /\ nextID' = nextID /\ raw' = raw
      /\ typed[u] \in Seq(TermBytes)
  BY DEF TermInv, ProgramWrite
<1> DEFINE more == typed[u] \o p
           out == data[u] \o Translate(p, prev[u])
           end == p[Len(p)]
<1>3. /\ typed' = [typed EXCEPT ![u] = more]
      /\ data' = [data EXCEPT ![u] = out]
      /\ prev' = [prev EXCEPT ![u] = end]
  BY DEF ProgramWrite
<1>4. more \in Seq(TermBytes)
  BY <1>1, <1>2, ConcatProperties
<1>5. ASSUME u \notin raw
      PROVE  end = LastOf(more) /\ out = Shown(more)
  <2>1. prev[u] = LastOf(typed[u]) /\ data[u] = Shown(typed[u])
    BY <1>5 DEF TermInv
  <2>2. Shown(more) = Shown(typed[u]) \o Translate(p, LastOf(typed[u]))
    BY <1>1, <1>2, ShownGrows
  <2>3. LastOf(more) = end
    BY <1>1, <1>2, LastOfBoth
  <2> QED BY <2>1, <2>2, <2>3, Zenon
<1> HIDE DEF more, out, end
<1>6. /\ typed' \in [Terms -> Seq(TermBytes)]
      /\ prev' = [t \in Terms |-> prev'[t]] /\ data' = [t \in Terms |-> data'[t]]
      /\ typed'[u] = more /\ data'[u] = out /\ prev'[u] = end
      /\ \A t \in Terms : t # u => typed'[t] = typed[t] /\ data'[t] = data[t] /\ prev'[t] = prev[t]
  BY <1>3, <1>4 DEF TermInv
<1>7. ASSUME NEW t \in Terms, t > nextID
      PROVE  typed'[t] = <<>>
  <2>1. t # u
    BY <1>2, <1>7
  <2> QED BY <1>6, <1>7, <2>1, Zenon DEF TermInv
<1>8. ASSUME NEW t \in Terms \ raw
      PROVE  prev'[t] = LastOf(typed'[t]) /\ data'[t] = Shown(typed'[t])
  <2>1. CASE t = u
    BY <1>5, <1>6, <2>1, Zenon
  <2>2. CASE t # u
    <3>1. typed'[t] = typed[t] /\ data'[t] = data[t] /\ prev'[t] = prev[t]
      BY <1>6, <2>2, Zenon
    <3>2. prev[t] = LastOf(typed[t]) /\ data[t] = Shown(typed[t])
      BY DEF TermInv
    <3> QED BY <3>1, <3>2, Zenon
  <2> QED BY <2>1, <2>2, Zenon
<1> QED BY <1>2, <1>6, <1>7, <1>8 DEF TermInv

LEMMA WriteAtKeeps ==
  ASSUME TermInv, NEW u \in Terms, NEW p \in Chunks, ProgramWriteAt(u, p)
  PROVE  TermInv'
<1>1. p \in Seq(TermBytes)
  BY TermAssumption
<1>2. /\ u \in 1 .. nextID /\ nextID \in Nat /\ nextID' = nextID /\ raw' = raw \cup {u}
      /\ typed[u] \in Seq(TermBytes) /\ prev' = prev
  BY DEF TermInv, ProgramWriteAt
<1> DEFINE more == typed[u] \o p
           out == data[u] \o p
<1>3. typed' = [typed EXCEPT ![u] = more] /\ data' = [data EXCEPT ![u] = out]
  BY DEF ProgramWriteAt
<1>4. more \in Seq(TermBytes)
  BY <1>1, <1>2, ConcatProperties
<1> HIDE DEF more, out
<1>5. /\ typed' \in [Terms -> Seq(TermBytes)] /\ data' = [t \in Terms |-> data'[t]]
      /\ \A t \in Terms : t # u => typed'[t] = typed[t] /\ data'[t] = data[t]
  BY <1>3, <1>4 DEF TermInv
<1>6. ASSUME NEW t \in Terms, t > nextID
      PROVE  typed'[t] = <<>>
  <2>1. t # u
    BY <1>2, <1>6
  <2> QED BY <1>5, <1>6, <2>1, Zenon DEF TermInv
<1>7. ASSUME NEW t \in Terms \ raw'
      PROVE  prev'[t] = LastOf(typed'[t]) /\ data'[t] = Shown(typed'[t])
  <2>1. t # u /\ t \in Terms \ raw
    BY <1>2
  <2>2. typed'[t] = typed[t] /\ data'[t] = data[t] /\ prev'[t] = prev[t]
    BY <1>2, <1>5, <2>1, Zenon
  <2>3. prev[t] = LastOf(typed[t]) /\ data[t] = Shown(typed[t])
    BY <2>1 DEF TermInv
  <2> QED BY <2>2, <2>3, Zenon
<1> QED BY <1>2, <1>5, <1>6, <1>7 DEF TermInv

\* A terminal shows the lines of its programs as lines, however many terminals
\* there are, whatever is written and wherever the writes are cut: each byte is
\* translated by the last one of the write before, since the one programFile of
\* the terminal remembers it (resource.go:38-51).
THEOREM LinesStay ==
  TermSpec => []LinesStayLines
<1>1. TermInit => TermInv
  BY TermStarts
<1>2. TermInv /\ [TermNext]_termVars => TermInv'
  <2>1. ASSUME TermInv, UNCHANGED termVars
        PROVE  TermInv'
    BY <2>1 DEF TermInv, termVars
  <2>2. ASSUME TermInv, TermNext
        PROVE  TermInv'
    <3>1. CASE TermAlloc
      BY <2>2, <3>1, AllocKeeps
    <3>2. CASE \E t \in Terms, p \in Chunks : ProgramWrite(t, p) \/ ProgramWriteAt(t, p)
      BY <2>2, <3>2, WriteKeeps, WriteAtKeeps
    <3> QED BY <2>2, <3>1, <3>2, Zenon DEF TermNext
  <2> QED BY <2>1, <2>2, Zenon
<1>3. TermInv => LinesStayLines
  BY DEF TermInv, LinesStayLines
<1> QED BY <1>1, <1>2, <1>3, PTL DEF TermSpec

=============================================================================
