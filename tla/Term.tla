------------------------------- MODULE Term -------------------------------
(***************************************************************************)
(* Terminals (term): what a program writes goes to the data file with      *)
(* every bare newline turned into return and newline, also when the return *)
(* came with an earlier write.  Every open of the program file is the same *)
(* programFile, so is what it remembers.  The pipe between the two files   *)
(* is Pipe, the winch file is Signal; here the pipe is the bytes in it.    *)
(***************************************************************************)
EXTENDS Integers, Sequences, FiniteSets, SequencesExt

CONSTANTS Terms,       \* terminals that may be allocated, 1 .. n
          TermBytes,   \* bytes
          Chunks,      \* what a program writes at a time: sequences of bytes
          MaxTyped     \* how much is written to a terminal

NL == "n"
CR == "r"
Zero == "0"

\* An empty write returns before it does anything (resource.go:35).
ASSUME TermAssumption == /\ Terms \subseteq Nat \ {0} /\ MaxTyped \in Nat
                         /\ {NL, CR} \subseteq TermBytes /\ Chunks \subseteq Seq(TermBytes) \ {<<>>}

VARIABLES nextID,      \* terminals allocated
          prev,        \* terminal -> programFile.prev
          data,        \* terminal -> what came out of the data file, read and unread
          typed,       \* terminal -> what programs wrote
          raw          \* terminals a program wrote to at an offset

termVars == <<nextID, prev, data, typed, raw>>

\* the loop of programFile.Write
Translate(p, before) ==
    LET f[i \in 0 .. Len(p)] ==
          IF i = 0 THEN <<>>
          ELSE LET last == IF i = 1 THEN before ELSE p[i - 1]
               IN  f[i - 1] \o (IF p[i] = NL /\ last # CR THEN <<CR, NL>> ELSE <<p[i]>>)
    IN  f[Len(p)]

TermAlloc == /\ nextID + 1 \in Terms
             /\ nextID' = nextID + 1
             /\ prev' = [prev EXCEPT ![nextID + 1] = Zero]
             /\ UNCHANGED <<data, typed, raw>>

ProgramWrite(t, p) ==
    /\ t \in 1 .. nextID /\ Len(typed[t]) + Len(p) <= MaxTyped
    /\ data' = [data EXCEPT ![t] = @ \o Translate(p, prev[t])]
    /\ prev' = [prev EXCEPT ![t] = p[Len(p)]]
    /\ typed' = [typed EXCEPT ![t] = @ \o p]
    /\ UNCHANGED <<nextID, raw>>

\* WriteAt is that of the pipe's file: what 9P clients write goes through as it is
ProgramWriteAt(t, p) ==
    /\ t \in 1 .. nextID /\ Len(typed[t]) + Len(p) <= MaxTyped
    /\ data' = [data EXCEPT ![t] = @ \o p]
    /\ typed' = [typed EXCEPT ![t] = @ \o p]
    /\ raw' = raw \cup {t}
    /\ UNCHANGED <<nextID, prev>>

TermInit == /\ nextID = 0
            /\ prev = [t \in Terms |-> Zero]
            /\ data = [t \in Terms |-> <<>>] /\ typed = data
            /\ raw = {}

TermNext == \/ TermAlloc
            \/ \E t \in Terms, p \in Chunks : ProgramWrite(t, p) \/ ProgramWriteAt(t, p)

TermSpec == TermInit /\ [][TermNext]_termVars

-----------------------------------------------------------------------------
\* every newline that no return came before has one put before it
Shown(p) == FlattenSeq([i \in DOMAIN p |->
               IF p[i] = NL /\ (IF i = 1 THEN TRUE ELSE p[i - 1] # CR) THEN <<CR, NL>> ELSE <<p[i]>>])

\* The terminal shows the lines of its programs as lines, however many programs
\* write and wherever their writes are cut, also between a return and its
\* newline; writes at an offset pass the translation by (resource.go:40).
LinesStayLines == \A t \in Terms \ raw : data[t] = Shown(typed[t])

=============================================================================
