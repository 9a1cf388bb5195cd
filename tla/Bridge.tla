------------------------------ MODULE Bridge ------------------------------
(***************************************************************************)
(* 9P over message ports (wasm/9pchan.go).  A worker posts one request per *)
(* message; the page's callback registers where its answer goes and writes *)
(* it into the pipe the 9P server reads, holding up the event loop of the  *)
(* page until the server has taken it.  The server writes its answers as a *)
(* stream, in pieces of its own making, and the bridge posts each as one   *)
(* message when it is complete.  P9PortReadWriter frames what a guest's    *)
(* client sends in the same way.                                           *)
(* A request or an answer is a sequence of cells <<size, tag, ...>>.  The  *)
(* server, the ports and the event loop are external.                      *)
(***************************************************************************)
EXTENDS Integers, Sequences, FiniteSets, SequencesExt, TLC

CONSTANTS Tags,         \* tags in use at a time
          AnswerSizes,  \* sizes of answers, in cells, at least 2
          MaxRequests

ASSUME BridgeAssumption == AnswerSizes \subseteq Nat \ {0, 1} /\ MaxRequests \in Nat

VARIABLES port,      \* requests posted by the worker and not delivered to the page
          open,      \* tags the worker waits on, each with how many requests used it
          handler,   \* the request the callback of the page is handling, or none
          pending,   \* tags with a registered callback
          reqs,      \* requests the server has taken and not answered
          out,       \* what the server has still to write of the answers it began
          respBuf,   \* what has come of an answer that is not complete
          answered,  \* what the server answered, in order
          received,  \* what the worker received, in order
          posted     \* how many requests were posted

bridgeVars == <<port, open, handler, pending, reqs, out, respBuf, answered, received, posted>>

\* the worker's client: a tag is used again once its answer has come
Post(t) == /\ posted < MaxRequests /\ t \notin open
           /\ open' = open \cup {t} /\ port' = Append(port, t) /\ posted' = posted + 1
           /\ UNCHANGED <<handler, pending, reqs, out, respBuf, answered, received>>

\* handle: the callback is registered before the request is written
HandleRegisters ==
    /\ handler = <<>> /\ port # <<>>
    /\ handler' = <<Head(port)>> /\ port' = Tail(port)
    /\ pending' = pending \cup {Head(port)}
    /\ UNCHANGED <<open, reqs, out, respBuf, answered, received, posted>>

\* reqW.Write returns when the server has read the request
HandleWrites ==
    /\ handler # <<>>
    /\ reqs' = reqs \cup {Head(handler)} /\ handler' = <<>>
    /\ UNCHANGED <<port, open, pending, out, respBuf, answered, received, posted>>

\* external: the server finishes requests in any order, one answer after the other
Answer(t, n) ==
    LET a == [i \in 1 .. n |-> IF i = 1 THEN n ELSE t]
    IN  /\ t \in reqs
        /\ reqs' = reqs \ {t}
        /\ out' = out \o a /\ answered' = Append(answered, a)
        /\ UNCHANGED <<port, open, handler, pending, respBuf, received, posted>>

\* the messages complete in a buffer, and what is left of it
RECURSIVE Complete(_)
Complete(buf) == IF Len(buf) < 2 \/ Len(buf) < buf[1] THEN <<>>
                 ELSE <<SubSeq(buf, 1, buf[1])>> \o Complete(SubSeq(buf, buf[1] + 1, Len(buf)))

\* a mutant: what follows the last complete message in a write is lost
RestDropped(buf) == IF Complete(buf) = <<>> THEN buf ELSE <<>>
Rest(buf) == SubSeq(buf, Len(FlattenSeq(Complete(buf))) + 1, Len(buf))

TagOf(msg) == msg[2]
Known(msgs) == SelectSeq(msgs, LAMBDA x : TagOf(x) \in pending)

\* respWriter.Write of the next n cells: what is complete goes to the callback of its
\* tag, once; an answer nobody registered for is dropped
RespWrite(n) ==
    LET buf == respBuf \o SubSeq(out, 1, n)
        msgs == Complete(buf)
    IN  /\ n \in 1 .. Len(out)
        /\ out' = SubSeq(out, n + 1, Len(out))
        /\ respBuf' = Rest(buf)
        /\ pending' = pending \ {TagOf(msgs[i]) : i \in DOMAIN msgs}
        /\ received' = received \o Known(msgs)
        /\ open' = open \ {TagOf(Known(msgs)[i]) : i \in DOMAIN Known(msgs)}
        /\ UNCHANGED <<port, handler, reqs, answered, posted>>

BridgeInit == /\ port = <<>> /\ open = {} /\ handler = <<>> /\ pending = {} /\ reqs = {}
              /\ out = <<>> /\ respBuf = <<>> /\ answered = <<>> /\ received = <<>> /\ posted = 0

BridgeSteps == \/ HandleRegisters \/ HandleWrites
               \/ \E t \in Tags, n \in AnswerSizes : Answer(t, n)
               \/ \E n \in 1 .. Len(out) : RespWrite(n)

BridgeNext == (\E t \in Tags : Post(t)) \/ BridgeSteps

-----------------------------------------------------------------------------
\* Each request gets its answer once and whole: the worker receives what the
\* server answered, in that order, wherever the server's writes are cut and
\* however early it answers; what has not been received is on its way.
AnsweredOnceWhole == IsPrefix(received, answered) /\ (out = <<>> => received = answered)
=============================================================================
