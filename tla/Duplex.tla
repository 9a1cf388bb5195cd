------------------------------- MODULE Duplex -------------------------------
(***************************************************************************)
(* What a pipe promises to its two ends: each direction is a byte stream.  *)
(* What has been read is always the beginning of what has been written,    *)
(* and a direction that has been shut accepts nothing more.                *)
(***************************************************************************)
EXTENDS Naturals, Sequences

CONSTANTS Directions, Bytes

VARIABLES log,   \* log[d]: every byte accepted in direction d, in order
          out,   \* out[d]: every byte handed to a reader of d, in order
          shut   \* shut[d]: no more bytes are accepted

streams == <<log, out, shut>>

StreamInit ==
    /\ log = [d \in Directions |-> <<>>]
    /\ out = [d \in Directions |-> <<>>]
    /\ shut = [d \in Directions |-> FALSE]

Send(d, data) ==
    /\ ~shut[d]
    /\ log' = [log EXCEPT ![d] = @ \o data]
    /\ UNCHANGED <<out, shut>>

Deliver(d, n) ==
    /\ Len(out[d]) <= n
    /\ n <= Len(log[d])
    /\ out' = [out EXCEPT ![d] = SubSeq(log[d], 1, n)]
    /\ UNCHANGED <<log, shut>>

Shut(d) ==
    /\ shut' = [shut EXCEPT ![d] = TRUE]
    /\ UNCHANGED <<log, out>>

\* TLC cannot enumerate Seq(Bytes) or Nat: what was sent, and how much was
\* delivered, are read off the next state.
StreamStep ==
    \E d \in Directions :
        \/ /\ Len(log[d]) <= Len(log'[d])
           /\ Send(d, SubSeq(log'[d], Len(log[d]) + 1, Len(log'[d])))
        \/ Deliver(d, Len(out'[d]))
        \/ Shut(d)

StreamSteps == StreamInit /\ [][StreamStep]_streams
=============================================================================
