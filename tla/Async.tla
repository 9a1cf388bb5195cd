-------------------------------- MODULE Async --------------------------------
(***************************************************************************)
(* Calls that wait.  The file systems of the browser are made of functions *)
(* that wait for one another and for the browser: between two waits a      *)
(* function runs by itself, and whatever waited for something else may run *)
(* before it goes on.  A task makes one call after another (from Go: a     *)
(* goroutine in AwaitErr), so each has a stack of frames, and the result   *)
(* of the call that came back last.                                        *)
(*                                                                         *)
(* Bounds: a plan says which calls each task makes; MaxFaults requests to  *)
(* the browser fail, or reloads of the page, happen.                       *)
(***************************************************************************)
EXTENDS Integers, FiniteSets, Sequences, SequencesExt, TLC

CONSTANTS
    Tasks,
    MaxFaults

VARIABLES
    stack,  \* stack[p]: the calls that p is in
    back,   \* back[p]: the result of the call that came back last
    plan,   \* plan[p]: the calls p has still to make
    last,   \* last[p]: the file that p opened last
    faults, \* how many requests have failed
    trip    \* history: the rename begun last, and what was there to move

asyncvars == <<stack, back, plan, last, faults, trip>>

(***************************************************************************)
(* A call has names n and m, an open file h, an object o and one that it   *)
(* found, x, an array b, a size, cells, flags, names it has seen and moves *)
(* it is going to make.                                                    *)
(***************************************************************************)
Frame(op, n, m) ==
    [op |-> op, pc |-> 0, n |-> n, m |-> m, h |-> 0, o |-> 0, x |-> 0, b |-> 0, size |-> 0,
     cells |-> <<>>, flags |-> {}, seen |-> {}, moves |-> <<>>]
Result(err, o) == [err |-> err, o |-> o]
Ok == Result("ok", 0)

Top(p) == stack[p][Len(stack[p])]
At(p, op, pc) == stack[p] # <<>> /\ Top(p).op = op /\ Top(p).pc = pc
Quiet == \A p \in Tasks : stack[p] = <<>>

Becomes(p, f) == stack' = [stack EXCEPT ![p] = Front(@) \o <<f>>] /\ UNCHANGED back
Goto(p, pc) == Becomes(p, [Top(p) EXCEPT !.pc = pc])
Suspends(p, g, f) == stack' = [stack EXCEPT ![p] = Front(@) \o <<g, f>>] /\ UNCHANGED back
Calls(p, pc, f) == Suspends(p, [Top(p) EXCEPT !.pc = pc], f)
Returns(p, r) == stack' = [stack EXCEPT ![p] = Front(@)] /\ back' = [back EXCEPT ![p] = r]
Throws(p, err) == Returns(p, Result(err, 0))

(* The next call of a task: on the file it opened last, if it has no name. *)
(* held is what is in files, for the history.                              *)
Under(n, d) == IsPrefix(d, n)
Moved(n, d, e) == e \o SubSeq(n, Len(d) + 1, Len(n))
NoTrip == [n |-> <<>>, m |-> <<>>, was |-> <<>>]
OnFile(f) == f.n = <<"file">>
Begins(p, held) ==
    /\ stack[p] = <<>> /\ plan[p] # <<>>
    /\ \E f \in plan[p][1] :
        /\ OnFile(f) => last[p] # 0
        /\ stack' = [stack EXCEPT ![p] = <<IF OnFile(f) THEN [f EXCEPT !.h = last[p]] ELSE f>>]
        /\ trip' = IF f.op = "rename" /\ Quiet
                   THEN [n |-> f.n, m |-> f.m, was |-> [k \in {k \in DOMAIN held : Under(k, f.n)} |-> held[k]]]
                   ELSE NoTrip
    /\ plan' = [plan EXCEPT ![p] = Tail(@)]
    /\ back' = [back EXCEPT ![p] = Ok]
    /\ UNCHANGED <<last, faults>>

Opens(p, h) == Returns(p, Ok) /\ last' = [last EXCEPT ![p] = h]

(* The page is loaded again: what was running is gone.                     *)
Faulty == faults < MaxFaults /\ faults' = faults + 1
Restarts ==
    /\ Faulty
    /\ stack' = [p \in Tasks |-> <<>>] /\ back' = [p \in Tasks |-> Ok] /\ last' = [p \in Tasks |-> 0]
    /\ UNCHANGED <<plan, trip>>

(* What was there to move is still under its old name or under its new     *)
(* one, where held says what is in files.                                  *)
StillHeld(k, held) ==
    \E j \in {k, Moved(k, trip.n, trip.m)} : j \in DOMAIN held /\ held[j] = trip.was[k]

AsyncInit ==
    /\ stack = [p \in Tasks |-> <<>>] /\ back = [p \in Tasks |-> Ok] /\ last = [p \in Tasks |-> 0]
    /\ faults = 0 /\ trip = NoTrip
=============================================================================
