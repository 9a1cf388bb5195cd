------------------------------- MODULE Net -------------------------------
(***************************************************************************)
(* Connections and listeners as files (fs/net/tcp): the service that       *)
(* allocates numbered resources, the ctl file of a resource (bind, dial,   *)
(* announce, hangup), its data file, and its listen file, which accepts    *)
(* one connection into a resource of its own.  A goroutine runs one call   *)
(* at a time; what it does under one hold of a mutex is one step, and a    *)
(* dial, a listen, a close and an accept happen between two holds.         *)
(* The sockets themselves are external: an address is reached through the  *)
(* socket file or port of the listener that took it last.                  *)
(***************************************************************************)
EXTENDS Integers, Sequences, FiniteSets

CONSTANTS Calls,      \* the goroutines that use the files
          TcpAddrs,   \* tcp addresses of this host
          Paths,      \* unix socket paths
          Far,        \* an address of another host
          MaxRid,     \* how many resources are allocated
          MaxSock,    \* how many sockets are opened
          MaxCalls,   \* how many calls are made, those of the service apart
          None

ASSUME NetAssumption == /\ TcpAddrs \cap Paths = {} /\ Far \notin TcpAddrs \cup Paths
                        /\ {MaxRid, MaxSock, MaxCalls} \subseteq Nat
                        /\ None \notin Nat \cup TcpAddrs \cup Paths \cup {Far}

Local == TcpAddrs \cup Paths
Sid == 1 .. MaxSock

VARIABLES resources,  \* rid -> Conn, for the rids allocated
          sock,       \* sid -> its listening address, whether it is open, its backlog
          at,         \* address -> the listener a dial to it reaches
          call,       \* goroutine -> the call it runs
          made,       \* how many calls were made
          dropped     \* the sockets a store put aside without closing them

netVars == <<resources, sock, at, call, made, dropped>>

\* One more, with the next number
Added(f, x) == [i \in 1 .. Cardinality(DOMAIN f) + 1 |-> IF i \in DOMAIN f THEN f[i] ELSE x]

NextID == Cardinality(DOMAIN resources)
NextSid == Cardinality(DOMAIN sock) + 1
ErrClosed == 0
NoCall == [op |-> "none"]

newConn == [state |-> "idle", bindAddr |-> None, ln |-> None, conn |-> None, lastErr |-> FALSE]

(***************************************************************************)
(* External: the sockets of the operating system.                          *)
(***************************************************************************)
Listener(a) == [addr |-> a, open |-> TRUE, queue |-> <<>>]
Connection == Listener(None)

\* close: what waits in the backlog of a listener is closed with it
Shut(socks, S) == LET waiting == UNION {{socks[s].queue[i] : i \in DOMAIN socks[s].queue} : s \in S}
                  IN  [s \in DOMAIN socks |->
                         IF s \in S \cup waiting THEN [socks[s] EXCEPT !.open = FALSE, !.queue = <<>>]
                         ELSE socks[s]]

\* a unix listener that closes unlinks its path, whoever listens there by now
Freed(S) == [a \in Local |-> IF \E s \in S : /\ sock[s].open /\ sock[s].addr = a
                                            /\ (a \in Paths \/ at[a] = s)
                             THEN None ELSE at[a]]

CloseAll(S) == /\ sock' = Shut(sock, S)
               /\ at' = Freed(S)

\* the connection s waits in the backlog of the listener of a
Queued(a, s) == [sock EXCEPT ![at[a]].queue = Append(@, s)]

Reaches(a) == a \in Local /\ at[a] # None

(***************************************************************************)
(* The service: new, Alloc and Get.                                        *)
(***************************************************************************)
Alloced(rs) == Added(rs, newConn)

Alloc(g) ==
    /\ call[g].op = "none" /\ NextID < MaxRid
    /\ resources' = Alloced(resources)
    /\ UNCHANGED <<sock, at, call, made, dropped>>

Get(r) == r \in DOMAIN resources

Busy(r) == resources[r].state \in {"connected", "listening"}

Return(g) == call' = [call EXCEPT ![g] = NoCall] /\ made' = made
Goes(g, c) == call' = [call EXCEPT ![g] = c] /\ made' = made
Begins(g, c) == /\ call[g].op = "none" /\ made < MaxCalls
                /\ call' = [call EXCEPT ![g] = c] /\ made' = made + 1

(***************************************************************************)
(* ctl: bind, dial, announce and hangup.                                   *)
(***************************************************************************)
Bind(g, r, a) ==
    /\ Begins(g, NoCall) /\ Get(r) /\ ~Busy(r)
    /\ resources' = [resources EXCEPT ![r].bindAddr = a, ![r].state = "bound"]
    /\ UNCHANGED <<sock, at, dropped>>

DialChecks(g, r, a) ==
    /\ Get(r) /\ ~Busy(r)
    /\ Begins(g, [op |-> "dial", rid |-> r, addr |-> a])
    /\ UNCHANGED <<resources, sock, at, dropped>>

\* an unusable bind address, or a dial that fails; only the second is kept in lastErr
DialFails(g) ==
    /\ call[g].op = "dial" /\ Return(g)
    /\ \/ resources' = [resources EXCEPT ![call[g].rid].lastErr = TRUE]
       \/ resources' = resources
    /\ UNCHANGED <<sock, at, dropped>>

DialConnects(g) ==
    LET a == call[g].addr
    IN  /\ call[g].op = "dial"
        /\ \/ /\ a = Far /\ NextSid <= MaxSock
              /\ sock' = Added(sock, Connection)
           \/ /\ Reaches(a) /\ NextSid + 1 <= MaxSock
              /\ sock' = Added(Added(Queued(a, NextSid + 1), Connection), Connection)
        /\ Goes(g, [op |-> "dialled", rid |-> call[g].rid, conn |-> NextSid])
        /\ UNCHANGED <<resources, at, dropped>>

\* the fields a store overwrites, whatever was put there since the check
\* a listener put there meanwhile stays, as it would if only the connection were set
ConnectedOnly(rs, r, c) == [rs EXCEPT ![r].conn = c, ![r].state = "connected", ![r].lastErr = FALSE]

Connected(rs, r, c) == [rs EXCEPT ![r].conn = c, ![r].ln = None, ![r].state = "connected", ![r].lastErr = FALSE]
Held(c) == {c.ln, c.conn} \ {None}

DialStores(g) ==
    LET r == call[g].rid
    IN  /\ call[g].op = "dialled"
        /\ dropped' = dropped \cup Held(resources[r])
        /\ resources' = Connected(resources, r, call[g].conn)
        /\ Return(g)
        /\ UNCHANGED <<sock, at>>

AnnounceChecks(g, r, a) ==
    /\ Get(r) /\ ~Busy(r)
    /\ Begins(g, [op |-> IF a \in Paths THEN "announce" ELSE "cleared", rid |-> r, addr |-> a])
    /\ UNCHANGED <<resources, sock, at, dropped>>

\* os.Remove(addr): who listens on that path is not reached any more
AnnounceRemoves(g) ==
    /\ call[g].op = "announce"
    /\ at' = [at EXCEPT ![call[g].addr] = None]
    /\ Goes(g, [call[g] EXCEPT !.op = "cleared"])
    /\ UNCHANGED <<resources, sock, dropped>>

AnnounceListens(g) ==
    LET a == call[g].addr
    IN  /\ call[g].op = "cleared" /\ ~Reaches(a) /\ NextSid <= MaxSock
        /\ sock' = Added(sock, Listener(a))
        /\ at' = [at EXCEPT ![a] = NextSid]
        /\ Goes(g, [op |-> "announced", rid |-> call[g].rid, ln |-> NextSid])
        /\ UNCHANGED <<resources, dropped>>

AnnounceFails(g) ==
    /\ call[g].op = "cleared" /\ (Reaches(call[g].addr) \/ NextSid > MaxSock)
    /\ resources' = [resources EXCEPT ![call[g].rid].lastErr = TRUE]
    /\ Return(g)
    /\ UNCHANGED <<sock, at, dropped>>

AnnounceStores(g) ==
    LET r == call[g].rid
    IN  /\ call[g].op = "announced"
        /\ dropped' = dropped \cup Held(resources[r])
        /\ resources' = [resources EXCEPT ![r].ln = call[g].ln, ![r].conn = None,
                                          ![r].state = "listening", ![r].lastErr = FALSE]
        /\ Return(g)
        /\ UNCHANGED <<sock, at>>

HangupTakes(g, r) ==
    /\ Get(r)
    /\ Begins(g, [op |-> "hangup", takes |-> Held(resources[r])])
    /\ resources' = [resources EXCEPT ![r].ln = None, ![r].conn = None, ![r].bindAddr = None,
                                      ![r].lastErr = FALSE, ![r].state = "closed"]
    /\ UNCHANGED <<sock, at, dropped>>

HangupCloses(g) ==
    /\ call[g].op = "hangup"
    /\ CloseAll(call[g].takes)
    /\ Return(g)
    /\ UNCHANGED <<resources, dropped>>

(***************************************************************************)
(* The listen file: acceptOne.  A goroutine of its own waits in Accept and *)
(* leaves what it got in a channel; the reader waits for that or for the   *)
(* end of its context.                                                     *)
(***************************************************************************)
ListenShown(c) == c.state = "listening" /\ c.ln # None
DataOpens(c) == c.state = "connected" /\ c.conn # None

OpenListen(g, r) ==
    /\ Get(r) /\ ListenShown(resources[r])
    /\ Begins(g, [op |-> "listen", rid |-> r])
    /\ UNCHANGED <<resources, sock, at, dropped>>

AcceptChecks(g) ==
    LET c == resources[call[g].rid]
    IN  /\ call[g].op = "listen"
        /\ IF ListenShown(c) THEN Goes(g, [op |-> "accept", ln |-> c.ln, got |-> None, done |-> FALSE])
           ELSE Return(g)
        /\ UNCHANGED <<resources, sock, at, dropped>>

\* the goroutine's Accept: a connection, or the error of a closed listener
Accepts(g) ==
    LET ln == call[g].ln
    IN  /\ call[g].op \in {"accept", "ending"} /\ call[g].got = None
        /\ \/ /\ ~sock[ln].open /\ sock' = sock
              /\ Goes(g, [call[g] EXCEPT !.got = ErrClosed])
           \/ /\ sock[ln].queue # <<>>
              /\ sock' = [sock EXCEPT ![ln].queue = Tail(@)]
              /\ Goes(g, [call[g] EXCEPT !.got = Head(sock[ln].queue)])
        /\ UNCHANGED <<resources, at, dropped>>

\* the reader's context ends
Cancel(g) ==
    /\ call[g].op = "accept" /\ ~call[g].done
    /\ Goes(g, [call[g] EXCEPT !.done = TRUE])
    /\ UNCHANGED <<resources, sock, at, dropped>>

\* the listener is not closed, so Accept goes on
AcceptAbandoned(g) ==
    /\ call[g].op = "accept" /\ call[g].done
    /\ UNCHANGED <<netVars>>

AcceptCancelled(g) ==
    /\ call[g].op = "accept" /\ call[g].done
    /\ CloseAll({call[g].ln})
    /\ Goes(g, [call[g] EXCEPT !.op = "ending"])
    /\ UNCHANGED <<resources, dropped>>

\* what Accept returned after the context had ended is left as it is
AcceptEndsLeaving(g) ==
    /\ call[g].op = "ending" /\ call[g].got # None
    /\ Return(g)
    /\ UNCHANGED <<resources, sock, at, dropped>>

AcceptEnds(g) ==
    /\ call[g].op = "ending" /\ call[g].got # None
    /\ CloseAll({call[g].got} \cap Sid)
    /\ Return(g)
    /\ UNCHANGED <<resources, dropped>>

AcceptFails(g) ==
    /\ call[g].op = "accept" /\ call[g].got = ErrClosed
    /\ Return(g)
    /\ UNCHANGED <<resources, sock, at, dropped>>

\* Alloc and Get: until it is stored into, the new resource is there for everyone
AcceptAllocs(g) ==
    /\ call[g].op = "accept" /\ call[g].got \in Sid /\ NextID < MaxRid
    /\ resources' = Alloced(resources)
    /\ Goes(g, [op |-> "accepted", rid |-> NextID + 1, conn |-> call[g].got])
    /\ UNCHANGED <<sock, at, dropped>>

AcceptStores(g) ==
    LET r == call[g].rid
    IN  /\ call[g].op = "accepted"
        /\ dropped' = dropped \cup Held(resources[r])
        /\ resources' = [Connected(resources, r, call[g].conn) EXCEPT ![r].bindAddr = None]
        /\ Return(g)
        /\ UNCHANGED <<sock, at>>

\* external: a process outside connects to a listener of this host
PeerConnects(a) ==
    /\ Reaches(a) /\ NextSid <= MaxSock
    /\ sock' = Added(Queued(a, NextSid), Connection)
    /\ UNCHANGED <<resources, at, call, made, dropped>>

NetInit == /\ resources = [r \in 1 .. 0 |-> newConn]
           /\ sock = [s \in 1 .. 0 |-> Connection]
           /\ at = [a \in Local |-> None]
           /\ call = [g \in Calls |-> NoCall]
           /\ made = 0 /\ dropped = {}

NetSteps(g) == \/ DialFails(g) \/ DialConnects(g) \/ DialStores(g)
               \/ AnnounceRemoves(g) \/ AnnounceListens(g) \/ AnnounceFails(g) \/ AnnounceStores(g)
               \/ HangupCloses(g)
               \/ AcceptChecks(g) \/ Accepts(g) \/ AcceptCancelled(g) \/ AcceptEnds(g) \/ AcceptFails(g)
               \/ AcceptAllocs(g) \/ AcceptStores(g)

NetNext == \/ \E g \in Calls :
                \/ Alloc(g)
                \/ \E r \in 1 .. MaxRid :
                     \/ HangupTakes(g, r) \/ OpenListen(g, r)
                     \/ \E a \in Local : Bind(g, r, a) \/ AnnounceChecks(g, r, a)
                     \/ \E a \in Local \cup {Far} : DialChecks(g, r, a)
                \/ Cancel(g)
                \/ NetSteps(g)
           \/ \E a \in Local : PeerConnects(a)

NetSpec == NetInit /\ [][NetNext]_netVars

-----------------------------------------------------------------------------
\* What a resource says of itself is so: the data file opens exactly while the
\* status is connected, the listen file is there exactly while it is listening,
\* and a resource never has both a connection and a listener, whichever ctl
\* calls overlapped.
StateTells ==
    \A r \in DOMAIN resources :
       LET c == resources[r]
       IN  /\ (c.state = "connected") = DataOpens(c)
           /\ (c.state = "listening") = ListenShown(c)
           /\ c.conn = None \/ c.ln = None

\* who has a socket to close or to hand on
HoldersOf(s) ==
    {<<"resource", r>> : r \in {x \in DOMAIN resources : s \in Held(resources[x])}}
    \cup {<<"call", g>> : g \in {x \in Calls :
              \/ call[x].op = "dialled" /\ call[x].conn = s
              \/ call[x].op = "announced" /\ call[x].ln = s
              \/ call[x].op = "hangup" /\ s \in call[x].takes
              \/ call[x].op \in {"accept", "ending"} /\ call[x].got = s
              \/ call[x].op = "accepted" /\ call[x].conn = s}}
    \cup {<<"backlog", l>> : l \in {x \in DOMAIN sock : \E i \in DOMAIN sock[x].queue : sock[x].queue[i] = s}}

\* No socket is leaked or shared: an open socket is in the hands of exactly one
\* resource, running call or backlog, so a hangup reaches it; the exception is
\* one that an overlapping ctl call put aside (conn_unix.go:225, 258, 431).
NoneLost ==
    \A s \in DOMAIN sock :
       sock[s].open /\ s \notin dropped => Cardinality(HoldersOf(s)) = 1

\* Waits for a connection in acceptOne
Waiting(g) == call[g].op = "accept" /\ call[g].got = None

\* A reader of the listen file does not wait for ever: once the listener it
\* waits on is hung up or its context ends, its wait ends.
AcceptReturns ==
    \A g \in Calls :
       /\ Waiting(g)
       /\ \/ call[g].done
          \/ /\ call[g].ln \notin dropped
             /\ \A r \in DOMAIN resources : call[g].ln # resources[r].ln
       ~> ~Waiting(g)
=============================================================================
