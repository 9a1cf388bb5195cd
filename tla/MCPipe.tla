------------------------------- MODULE MCPipe -------------------------------
(***************************************************************************)
(* Pipe for TLC, in two sizes, one of them in a behaviour: single bytes    *)
(* and reads that take all there is, or longer data read in parts.         *)
(***************************************************************************)
EXTENDS Pipe

CONSTANTS x, y, t1, t2, t3

VARIABLE whole   \* every read is as long as the data there may be

MCThreads == {t1, t2, t3}
MCBytes == {x, y}
\* An empty write still signals: a wake-up with nothing to read.
OneByteWrites == {<<>>, <<x>>}
PartWrites == {<<>>, <<x>>, <<x, y>>}

Parts == INSTANCE Pipe WITH Writes <- PartWrites, ReadSizes <- {0, 1, 2}, MaxBytes <- 3

MCInit == Init /\ whole \in BOOLEAN

InWhole == whole /\ Next /\ UNCHANGED whole
\* In parts t3 only makes calls that neither wait nor close.
InParts == ~whole /\ Parts!Next /\ pc'[t3] = "idle" /\ UNCHANGED whole

MCSpec ==
    /\ MCInit
    /\ [][InWhole \/ InParts]_<<vars, whole>>
    /\ \A t \in Threads : WF_<<vars, whole>>((Resume(t) \/ SleepAgain(t) \/ CloseWriter(t)) /\ UNCHANGED whole)

\* A reader for which there is data does not sleep for ever, as long as every
\* read is as long as the data there may be: Write wakes one reader only.
WholeReadsEnd == whole => DataEndsRead
=============================================================================
