-------------------------------- MODULE VM --------------------------------
(***************************************************************************)
(* Virtual machines and the web workers that run them (vm, web/worker).    *)
(* A worker tells the page that a vm has a guest file system to show; the  *)
(* page makes a 9P client for it and sets it as the guest of the vm, which *)
(* binds it over what the vm showed before from a goroutine of its own:    *)
(* the goroutine reads the guest when it starts and changes the bindings   *)
(* when the guest has answered.  The page is not preempted; a goroutine    *)
(* stops where it waits for another.                                       *)
(***************************************************************************)
EXTENDS Integers, Sequences, FiniteSets, SequencesExt

CONSTANTS MaxVm, Kinds, Aliases, Guests, Workers, MaxOffers, Nobody

ASSUME VMAssumption == MaxVm \in Nat /\ MaxOffers \in Nat /\ Nobody \notin Guests \cup Aliases

VARIABLES vms,      \* rid -> VM
          aliases,  \* Device.aliases
          binds,    \* the goroutines that bind a guest: [rid, guest], guest Nobody until it is read
          worker,   \* web worker -> [state, runs, old]: its state, whether it runs, how many it left
          exports,  \* [rid, guest] messages of workers the page has taken
          offers, \* how many there were
          crashed,  \* the page's program panicked, which ends all of it
          late,     \* vms whose guest was set while an earlier guest was being bound
          unbound   \* vms of which a guest could not be bound since the last was set

vmVars == <<vms, aliases, binds, worker, exports, offers, crashed, late, unbound>>

newVM(k) == [kind |-> k, alias |-> Nobody, guest |-> Nobody, vfs |-> FALSE, shows |-> <<>>]

(***************************************************************************)
(* The device: new/<kind>, the alias file, and the first open of a vm.     *)
(***************************************************************************)
Rids == DOMAIN vms

VmAlloc(k) ==
    LET n == Cardinality(Rids)
    IN  /\ n < MaxVm
        /\ vms' = [r \in 1 .. n + 1 |-> IF r \in Rids THEN vms[r] ELSE newVM(k)]
        /\ UNCHANGED <<aliases, binds, worker, exports, offers, crashed, late, unbound>>

\* an open of any file of the vm makes its namespace
VmOpen(r) ==
    /\ r \in Rids /\ ~vms[r].vfs
    /\ vms' = [vms EXCEPT ![r].vfs = TRUE]
    /\ UNCHANGED <<aliases, binds, worker, exports, offers, crashed, late, unbound>>

\* the old alias is taken out of the device first, whoever it leads to by now
Renamed(al, old, new, r) ==
    [x \in (DOMAIN al \ {old}) \cup {new} |-> IF x = new THEN r ELSE al[x]]

SetAlias(r, a) ==
    /\ r \in Rids /\ vms[r].vfs
    /\ vms' = [vms EXCEPT ![r].alias = a]
    /\ aliases' = Renamed(aliases, vms[r].alias, a, r)
    /\ UNCHANGED <<binds, worker, exports, offers, crashed, late, unbound>>

Lookup(r) == r \in Rids

(***************************************************************************)
(* Workers: ctl start and terminate, and the message that offers a guest.  *)
(***************************************************************************)
WorkerStart(w) ==
    /\ worker[w].old < 1
    /\ worker' = [worker EXCEPT ![w] = [state |-> "running", runs |-> TRUE,
                                        old |-> IF @.runs THEN @.old + 1 ELSE @.old]]
    /\ UNCHANGED <<vms, aliases, binds, exports, offers, crashed, late, unbound>>

WorkerTerminate(w) ==
    /\ worker' = [worker EXCEPT ![w].state = "terminated", ![w].runs = FALSE]
    /\ UNCHANGED <<vms, aliases, binds, exports, offers, crashed, late, unbound>>

\* a worker that runs posts {vm, guest}; the page looks the vm up and listens on the port
GuestMessage(w, r, g) ==
    /\ worker[w].runs \/ worker[w].old > 0
    /\ offers < MaxOffers /\ offers' = offers + 1
    /\ exports' = IF Lookup(r) THEN exports \cup {[rid |-> r, guest |-> g]} ELSE exports
    /\ UNCHANGED <<vms, aliases, binds, worker, crashed, late, unbound>>

\* Mutant of SetGuest: the goroutine takes the guest with it instead of reading it when it starts
SetGuestCaptured(r, g) ==
    IF ~vms[r].vfs THEN /\ crashed' = TRUE /\ UNCHANGED <<vms, binds, late, unbound>>
    ELSE /\ vms' = [vms EXCEPT ![r].guest = g]
         /\ binds' = Append(binds, [rid |-> r, guest |-> g])
         /\ UNCHANGED <<late, unbound, crashed>>

\* SetGuest, once the client on the port has its answers
SetGuest(r, g) ==
    IF ~vms[r].vfs THEN /\ crashed' = TRUE /\ UNCHANGED <<vms, binds, late, unbound>>
    ELSE /\ vms' = [vms EXCEPT ![r].guest = g]
         /\ binds' = Append(binds, [rid |-> r, guest |-> Nobody])
         /\ unbound' = unbound \ {r}
         /\ late' = IF \E i \in DOMAIN binds : binds[i].rid = r /\ binds[i].guest # Nobody THEN late \cup {r} ELSE late
         /\ crashed' = crashed

GuestConnects(e) ==
    /\ e \in exports /\ exports' = exports \ {e}
    /\ SetGuest(e.rid, e.guest)
    /\ UNCHANGED <<aliases, worker, offers>>

BindReads(i) ==
    /\ i \in DOMAIN binds /\ binds[i].guest = Nobody
    /\ binds' = [binds EXCEPT ![i].guest = vms[binds[i].rid].guest]
    /\ UNCHANGED <<vms, aliases, worker, exports, offers, crashed, late, unbound>>

\* vfs.Bind: the newest target comes first
BindShows(i) ==
    /\ i \in DOMAIN binds /\ binds[i].guest # Nobody
    /\ vms' = [vms EXCEPT ![binds[i].rid].shows = <<binds[i].guest>> \o @]
    /\ binds' = RemoveAt(binds, i)
    /\ UNCHANGED <<aliases, worker, exports, offers, crashed, late, unbound>>

\* it opens and stats the root of the guest first: what fails there is only logged
BindFails(i) ==
    /\ i \in DOMAIN binds /\ binds[i].guest # Nobody
    /\ unbound' = unbound \cup {binds[i].rid}
    /\ binds' = RemoveAt(binds, i)
    /\ UNCHANGED <<vms, aliases, worker, exports, offers, crashed, late>>

VMInit == /\ vms = [r \in 1 .. 0 |-> newVM(Nobody)]
          /\ aliases = [a \in {} |-> 0]
          /\ binds = <<>> /\ exports = {} /\ offers = 0 /\ crashed = FALSE
          /\ worker = [w \in Workers |-> [state |-> "allocated", runs |-> FALSE, old |-> 0]]
          /\ late = {} /\ unbound = {}

VMSteps == \/ \E k \in Kinds : VmAlloc(k)
           \/ \E r \in 1 .. MaxVm :
                \/ VmOpen(r)
                \/ \E a \in Aliases : SetAlias(r, a)
                \/ \E w \in Workers, g \in Guests : GuestMessage(w, r, g)
           \/ \E w \in Workers : WorkerStart(w) \/ WorkerTerminate(w)
           \/ \E e \in exports : GuestConnects(e)
           \/ \E i \in 1 .. MaxOffers : BindReads(i) \/ BindShows(i) \/ BindFails(i)

VMNext == ~crashed /\ VMSteps

VMSpec == VMInit /\ [][VMNext]_vmVars

-----------------------------------------------------------------------------
\* What a vm shows as its guest is the guest set last, however the goroutines
\* that bind guests are scheduled, once they are done.  Two exceptions: a guest
\* set while an earlier one was being bound (vm.go:51), which may end below it,
\* and a guest whose root cannot be opened, of which the caller hears nothing
\* (vm.go:52-54) while the vm shows the one before it, or none.
GuestIsNewest ==
    \A r \in Rids \ (late \cup unbound) :
       vms[r].guest # Nobody /\ (\A i \in DOMAIN binds : binds[i].rid # r)
         => vms[r].shows # <<>> /\ vms[r].shows[1] = vms[r].guest

=============================================================================
