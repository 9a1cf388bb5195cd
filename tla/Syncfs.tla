------------------------------- MODULE Syncfs -------------------------------
(***************************************************************************)
(* syncfs.SyncFS: a local file system, where every call is carried out,    *)
(* kept in step with a remote one by Sync.  A change is made locally and   *)
(* then recorded in changes (path -> exists); Sync takes an index of the   *)
(* remote, pulls what is newer there, and pushes a patch of what was       *)
(* recorded.  Calls wait for a Sync that runs when they begin, but files   *)
(* that are open are written without waiting, and calls that have begun go *)
(* on while a Sync begins.                                                 *)
(*                                                                         *)
(* An entry is a version (every change makes a new one; 0: there is none), *)
(* whether it is a directory, and a time in seconds.  The remote is        *)
(* modelled from its use: Index gives a snapshot, Patch is carried out     *)
(* whole or not, or fails after it was, and others write files there too.  *)
(* Every step of a Sync may fail.  What is in a directory, and links, are  *)
(* left out.                                                               *)
(*                                                                         *)
(* truth is the newest version of a path on either side.  A path is loose  *)
(* when the code is known to lose track of it: its change was recorded     *)
(* while a patch was under way, or when it was no longer what is there (a  *)
(* Create that failed, calls that overlap), or when a Sync would replace   *)
(* it (a file with an older time was renamed to it); a Sync that did not   *)
(* know of its change pulled it, or gave it an old time; its copy from the *)
(* remote was cut off; it was removed, or renamed to itself, when its      *)
(* change had not been pushed; its file was truncated when it was opened,  *)
(* or a Write of it failed half done; the first Sync failed before it had  *)
(* scanned it; both sides changed it; the remote                           *)
(* changed it within two seconds of the local time; the halves of the      *)
(* rename of a directory did not come to the same; or what the remote had  *)
(* at first was not newer by two seconds than what the local side had, nor *)
(* older, or was newer and one of the two is a directory.                  *)
(*                                                                         *)
(* Bounds: MaxOps local changes, MaxRemote remote ones, SyncFaults         *)
(* failures of Create, Write and the steps of a Sync.                      *)
(***************************************************************************)
EXTENDS Integers, Functions

CONSTANTS
    Threads,     \* goroutines that call the SyncFS
    SyncPaths,   \* numbers, for the order in which a directory is walked
    SyncStored,  \* what the two sides may have at first
    SyncStart,   \* the time at first, and the first version that is made
    SyncOps,     \* SyncOps[t]: the operations that t calls
    MaxOps, MaxRemote, SyncFaults

Entry(ver, dir, time) == [ver |-> ver, dir |-> dir, time |-> time]
Absent == Entry(0, FALSE, 0)

ASSUME SyncThreadsAssumption == "timer" \notin Threads
ASSUME SyncPathsAssumption == SyncPaths \subseteq Nat
ASSUME SyncBoundsAssumption == {MaxOps, MaxRemote, SyncFaults} \subseteq Nat
ASSUME SyncOpsAssumption ==
    SyncOps \in [Threads -> SUBSET {"create", "write", "mkdir", "chmod", "remove", "rename", "renamedir"}]

ASSUME SyncStartAssumption == SyncStart \in Nat \ {0}

\* What is there at first was made before, and a version is that of one entry.
Before == 0 .. SyncStart - 1
Contents == [SyncPaths -> [ver : Before \ {0}, dir : BOOLEAN, time : Before] \cup {Absent}]
ASSUME SyncStoredAssumption ==
    /\ SyncStored \subseteq [local : Contents, remote : Contents]
    /\ \A s \in SyncStored : \A p, q \in SyncPaths : \A a, b \in {s.local, s.remote} :
          a[p].ver = b[q].ver => a[p] = b[q]

VARIABLES
    local, remote,
    recorded,  \* changes is a map, no longer nil
    changes,   \* path -> exists
    armed,     \* the debounce timer is set
    sync,      \* the Sync that runs
    doing,     \* doing[t]: what t is doing
    clock,
    nextVer, ops, others, broken,  \* versions made, local and remote changes, failures
    failed,    \* a Sync has failed since the timer was last set
    truth, loose, fresh

world == <<local, remote>>
record == <<recorded, changes, armed>>
counts == <<clock, nextVer, ops, others, broken>>
marks == <<failed, truth, loose, fresh>>
syncVars == <<local, remote, recorded, changes, armed, sync, doing, clock, nextVer, ops, others, broken,
              failed, truth, loose, fresh>>

There(e) == e.ver # 0
NoChange == [p \in {} |-> TRUE]

Quiet == [on |-> FALSE, by |-> "timer", index |-> [p \in SyncPaths |-> Absent], pulled |-> {}, walked |-> {},
          scan |-> FALSE, pull |-> {}, stamp |-> {}, missed |-> {}, push |-> "no", must |-> {}, visited |-> {}, tar |-> {}, err |-> FALSE,
          touched |-> {}, pc |-> "off"]
Idle == [op |-> "", pc |-> "idle", p |-> 0, q |-> 0, waits |-> FALSE]

\* t has changed p and will record it
OnItsWay(p) == \E t \in Threads : doing[t].pc \in {"record", "record2"} /\ p \in {doing[t].p, doing[t].q}

-----------------------------------------------------------------------------
(* Changes on either side *)

\* The local half of its rename is to come
Moving(p) == \E t \in Threads : doing[t].pc = "rename" /\ p = doing[t].p

\* The remote is to change p, which has changed on the local side too
Overlaps(p) == truth[p] # remote[p].ver \/ p \in DOMAIN changes \/ OnItsWay(p)

\* The paths in ps were changed on the side that is now so; those in astray are lost track of
Changed(ps, now, astray) ==
    /\ truth' = [p \in SyncPaths |-> IF p \in ps THEN now[p].ver ELSE truth[p]]
    /\ loose' = loose \cup astray
    /\ fresh' = fresh \ ps
    /\ UNCHANGED failed

Touches(ps) == sync' = [sync EXCEPT !.touched = IF sync.on THEN @ \cup ps ELSE @]

\* wait: a Sync that runs when a call begins is waited for, not one that begins later
Passes(t) == ~doing[t].waits

CallBegins(t, op, p, q) ==
    /\ doing[t] = Idle /\ ops < MaxOps
    /\ recorded
    /\ ops' = ops + 1
    /\ doing' = [doing EXCEPT ![t] = [op |-> op, pc |-> "local", p |-> p, q |-> q,
                                      waits |-> sync.on /\ op # "write"]]
    /\ UNCHANGED <<world, record, sync, marks, clock, nextVer, others, broken>>

\* What a call makes of the local side, when it can
LocalCan(c) ==
    CASE c.op = "create" -> ~local[c.p].dir
      [] c.op = "write"  -> There(local[c.p]) /\ ~local[c.p].dir
      [] c.op = "mkdir"  -> ~There(local[c.p])
      [] c.op = "rename" -> There(local[c.p]) /\ ~local[c.p].dir /\ ~local[c.q].dir
      [] OTHER           -> There(local[c.p])

LocalMade(c) ==
    CASE c.op \in {"create", "write"} -> [local EXCEPT ![c.p] = Entry(nextVer, FALSE, clock)]
      [] c.op = "mkdir"  -> [local EXCEPT ![c.p] = Entry(nextVer, TRUE, clock)]
      [] c.op = "chmod"  -> [local EXCEPT ![c.p].ver = nextVer]
      [] c.op = "remove" -> [local EXCEPT ![c.p] = Absent]
      [] c.op = "rename" -> [local EXCEPT ![c.p] = Absent, ![c.q] = [local[c.p] EXCEPT !.ver = nextVer]]

Local(t) ==
    LET c == doing[t]
        ps == IF c.op = "rename" THEN {c.p, c.q} ELSE {c.p}
    IN  /\ c.pc = "local" /\ c.op # "renamedir"
        /\ Passes(t)
        /\ LocalCan(c)
        /\ local' = LocalMade(c)
        /\ nextVer' = nextVer + 1
        /\ Changed(ps, local', {p \in ps : truth[p] # local[p].ver})
        /\ Touches(ps)
        /\ doing' = [doing EXCEPT ![t].pc = "record"]
        /\ UNCHANGED <<remote, record, clock, ops, others, broken>>

\* A file that is changed and not marked as modified: OpenFile truncates it and does not
\* create it, or a Write fails when some of it is written
Unmarked(t) ==
    LET c == doing[t]
    IN  /\ c.pc = "local" /\ c.op = "write" /\ LocalCan(c)
        /\ broken < SyncFaults /\ broken' = broken + 1
        /\ local' = LocalMade(c)
        /\ nextVer' = nextVer + 1
        /\ Changed({c.p}, local', {c.p})
        /\ Touches({c.p})
        /\ doing' = [doing EXCEPT ![t] = Idle]
        /\ UNCHANGED <<remote, record, clock, ops, others>>

\* The call is refused; Create records the path in any case (defer)
Refused(t) ==
    LET c == doing[t]
    IN  /\ c.pc = "local" /\ c.op # "renamedir"
        /\ Passes(t)
        /\ \/ ~LocalCan(c) /\ UNCHANGED broken
           \/ c.op = "create" /\ ~There(local[c.p]) /\ broken < SyncFaults /\ broken' = broken + 1
        /\ doing' = [doing EXCEPT ![t] = IF c.op = "create" THEN [c EXCEPT !.pc = "record"] ELSE Idle]
        /\ UNCHANGED <<world, record, sync, marks, clock, nextVer, ops, others>>

-----------------------------------------------------------------------------
(* changed *)

Pushing == sync.push \in {"tar", "patch", "reset"}

\* A removal takes back the record of a change that was not pushed
TakesBack(p, exists) == p \in DOMAIN changes /\ changes[p] /\ ~exists

Recorded(p, exists) ==
    IF TakesBack(p, exists) THEN Restrict(changes, DOMAIN changes \ {p})
    ELSE [x \in DOMAIN changes \cup {p} |-> IF x = p THEN exists ELSE changes[x]]

\* What is recorded is not what Sync will push
Misrecords(p, exists) ==
    \/ Pushing
    \/ TakesBack(p, exists) /\ There(remote[p])
    \/ exists # There(local[p]) \/ truth[p] # local[p].ver
    \/ There(local[p]) /\ remote[p].time - local[p].time >= 2

\* Mutant: the timer is set for the first change only
RecordsUntimed(p, exists) ==
    /\ changes' = Recorded(p, exists)
    /\ armed' = (armed \/ changes = NoChange)
    /\ loose' = IF Misrecords(p, exists) THEN loose \cup {p} ELSE loose
    /\ failed' = (failed /\ TakesBack(p, exists))
    /\ UNCHANGED <<recorded, truth, fresh>>

Records(p, exists) ==
    /\ changes' = Recorded(p, exists)
    /\ armed' = (armed \/ ~TakesBack(p, exists))
    /\ loose' = IF Misrecords(p, exists) THEN loose \cup {p} ELSE loose
    /\ failed' = (failed /\ TakesBack(p, exists))
    /\ UNCHANGED <<recorded, truth, fresh>>

\* Rename records the new name first
Record(t) ==
    LET c == doing[t]
    IN  /\ c.pc \in {"record", "record2"}
        /\ IF c.op = "rename" /\ c.pc = "record"
           THEN Records(c.q, TRUE) /\ doing' = [doing EXCEPT ![t].pc = "record2"]
           ELSE Records(c.p, c.op \notin {"remove", "rename"}) /\ doing' = [doing EXCEPT ![t] = Idle]
        /\ Touches({c.p, c.q})
        /\ UNCHANGED <<world, counts>>

-----------------------------------------------------------------------------
(* Sync *)

\* The locks are taken, the index is got, and a nil changes made: the local side is then scanned too
Starts(by) ==
    /\ ~sync.on
    /\ sync' = [Quiet EXCEPT !.on = TRUE, !.by = by, !.pc = "scan", !.index = remote, !.scan = ~recorded]
    /\ recorded' = TRUE
    /\ UNCHANGED <<world, changes, counts, marks>>

\* Index fails: the record is left as it is, and no timer is set
StartFails ==
    /\ ~sync.on /\ broken < SyncFaults
    /\ broken' = broken + 1
    /\ failed' = TRUE
    /\ UNCHANGED <<world, recorded, changes, sync, clock, nextVer, ops, others, truth, loose, fresh>>

\* The timer fires, or Sync is called for the first time
Fires ==
    /\ armed \/ ~recorded
    /\ armed' = FALSE
    /\ Starts("timer") \/ StartFails
    /\ UNCHANGED doing

SyncOnly == UNCHANGED <<local, remote, recorded, changes, armed, doing, counts, marks>>

Tombstone(p) == p \in DOMAIN changes /\ ~changes[p]

Newer(p) == ~There(local[p]) \/ sync.index[p].time - local[p].time >= 2

\* WalkDir meets the names in their order
Walks(p, met) == p \notin met /\ \A q \in SyncPaths : q < p => q \in met

PullScan(p) ==
    /\ sync.pc = "scan" /\ Walks(p, sync.pulled)
    /\ sync' = [sync EXCEPT !.pulled = @ \cup {p},
                            !.pull = IF There(sync.index[p]) /\ ~Tombstone(p) /\ Newer(p) THEN @ \cup {p} ELSE @]
    /\ SyncOnly

\* The first scan is to record p
IsNews(p) == There(local[p]) /\ (~There(sync.index[p]) \/ sync.index[p].time < local[p].time)

PushScan(p) ==
    /\ sync.pc = "scan" /\ sync.scan /\ Walks(p, sync.walked)
    /\ sync' = [sync EXCEPT !.walked = @ \cup {p}]
    /\ changes' = IF IsNews(p)
                  THEN [x \in DOMAIN changes \cup {p} |-> IF x = p THEN TRUE ELSE changes[x]] ELSE changes
    /\ UNCHANGED <<world, recorded, armed, doing, counts, marks>>

Scanned ==
    /\ sync.pc = "scan"
    /\ sync.pulled = SyncPaths
    /\ sync.scan => sync.walked = SyncPaths
    /\ sync' = [sync EXCEPT !.pc = "sync", !.must = DOMAIN changes,
                            !.push = IF DOMAIN changes = {} THEN "no" ELSE "tar"]
    /\ SyncOnly

\* Either scan fails, when the other is over: the next Sync will not scan the local side
ScanFails ==
    /\ sync.pc = "scan" /\ broken < SyncFaults
    /\ broken' = broken + 1
    /\ sync' = [sync EXCEPT !.pc = "sync", !.pull = {}, !.missed = SyncPaths, !.push = "failed"]
    /\ loose' = loose \cup {p \in SyncPaths \ sync.walked : sync.scan /\ IsNews(p)}
    /\ UNCHANGED <<world, record, doing, clock, nextVer, ops, others, failed, truth, fresh>>

\* The patch: what changes has, one path after another, each read from the local side
Tar(p) ==
    /\ sync.push = "tar" /\ p \in DOMAIN changes \ sync.visited
    /\ sync' = IF changes[p] /\ ~There(local[p]) THEN [sync EXCEPT !.push = "failed"]
               ELSE [sync EXCEPT !.visited = @ \cup {p},
                                 !.tar = @ \cup {<<p, IF changes[p] THEN local[p] ELSE Absent>>}]
    /\ SyncOnly

\* The loop is over; paths recorded since it began may have been met or not
TarDone ==
    /\ sync.push = "tar"
    /\ sync.must \cap DOMAIN changes \subseteq sync.visited
    /\ sync' = [sync EXCEPT !.push = "patch"]
    /\ SyncOnly

Patched == [p \in SyncPaths |-> IF p \in sync.visited THEN (CHOOSE x \in sync.tar : x[1] = p)[2] ELSE remote[p]]

\* What was pushed is newer than the file renamed to the path since
Outdates == loose' = loose \cup {p \in SyncPaths : There(local[p]) /\ remote'[p].time - local[p].time >= 2}

Patch ==
    /\ sync.push = "patch"
    /\ remote' = Patched
    /\ sync' = [sync EXCEPT !.push = "reset"]
    /\ Outdates
    /\ UNCHANGED <<local, record, doing, counts, failed, truth, fresh>>

\* Mutant: the record is reset whatever came of the patch
PatchFailsUnseen ==
    /\ sync.push = "patch"
    /\ broken < SyncFaults
    /\ broken' = broken + 1
    /\ remote' \in {remote, Patched}
    /\ sync' = [sync EXCEPT !.push = "reset"]
    /\ Outdates
    /\ UNCHANGED <<local, record, doing, clock, nextVer, ops, others, failed, truth, fresh>>

PatchFails ==
    /\ sync.push = "patch"
    /\ broken < SyncFaults
    /\ broken' = broken + 1
    /\ remote' \in {remote, Patched}
    /\ sync' = [sync EXCEPT !.push = "failed"]
    /\ Outdates
    /\ UNCHANGED <<local, record, doing, clock, nextVer, ops, others, failed, truth, fresh>>

Reset ==
    /\ sync.push = "reset"
    /\ changes' = NoChange
    /\ sync' = [sync EXCEPT !.push = "no"]
    /\ UNCHANGED <<world, recorded, armed, doing, counts, marks>>

\* A directory is made as the index has it, a file is copied from the remote as it is now
Pulled(p) == IF sync.index[p].dir THEN sync.index[p] ELSE remote[p]

\* Nothing is made where a directory is, nor a directory where a file is
Copies(p) == There(Pulled(p)) /\ (There(local[p]) => ~local[p].dir /\ ~Pulled(p).dir)

\* What was copied, or made, or was a directory before, is to be given the time of the index
Stamps(p) == There(Pulled(p)) /\ (local[p].dir => Pulled(p).dir)

\* Directories are made before files are copied
MayPull(p) == /\ sync.pc = "sync" /\ p \in sync.pull
              /\ sync.index[p].dir \/ \A q \in sync.pull : ~sync.index[q].dir

Copied(p) == IF Copies(p) THEN [local EXCEPT ![p] = [Pulled(p) EXCEPT !.time = clock]] ELSE local

\* p was changed on the local side, and is pulled
Overwrites(p) == loose' = IF /\ local[p].ver = truth[p] \/ sync.index[p].dir
                             /\ p \in sync.touched \/ OnItsWay(p)
                          THEN loose \cup {p} ELSE loose

Pull(p) ==
    /\ MayPull(p)
    /\ local' = Copied(p)
    /\ sync' = [sync EXCEPT !.pull = @ \ {p}, !.stamp = IF Stamps(p) THEN @ \cup {p} ELSE @]
    /\ Overwrites(p)
    /\ UNCHANGED <<remote, record, doing, counts, failed, truth, fresh>>

Fault == broken < SyncFaults /\ broken' = broken + 1 /\ UNCHANGED <<clock, ops, others>>
Files(ps) == {q \in ps : ~sync.index[q].dir}

\* A copy that fails is logged, and the next file is copied; the Sync does not fail.
\* It has changed nothing, or all was copied and only closing or Chmod failed.
PullFails(p) ==
    /\ MayPull(p) /\ ~sync.index[p].dir
    /\ Fault
    /\ local' \in {local, Copied(p)}
    /\ sync' = [sync EXCEPT !.pull = @ \ {p}, !.missed = @ \cup {p}]
    /\ Overwrites(p)
    /\ UNCHANGED <<remote, record, doing, nextVer, failed, truth, fresh>>

\* A copy that is cut off is not told from a whole one: copyFile tests another error
PullCut(p) ==
    /\ MayPull(p) /\ ~sync.index[p].dir /\ Copies(p)
    /\ Fault /\ nextVer' = nextVer + 1
    /\ local' = [local EXCEPT ![p] = Entry(nextVer, Pulled(p).dir, clock)]
    /\ sync' = [sync EXCEPT !.pull = @ \ {p}, !.stamp = @ \cup {p}]
    /\ loose' = loose \cup {p}
    /\ UNCHANGED <<remote, record, doing, failed, truth, fresh>>

\* A directory cannot be made: nothing more is pulled
MkdirFails(p) ==
    /\ MayPull(p) /\ sync.index[p].dir
    /\ Fault
    /\ sync' = [sync EXCEPT !.pull = {}, !.stamp = Files(@), !.missed = @ \cup sync.pull, !.err = TRUE]
    /\ UNCHANGED <<world, record, doing, nextVer, marks>>

Stamp(p) ==
    /\ sync.pc = "sync" /\ p \in sync.stamp
    /\ There(local[p])
    /\ sync' = [sync EXCEPT !.stamp = @ \ {p}]
    /\ local' = [local EXCEPT ![p].time = sync.index[p].time]
    /\ loose' = IF p \in sync.touched THEN loose \cup {p} ELSE loose
    /\ UNCHANGED <<remote, record, doing, counts, failed, truth, fresh>>

\* Chtimes fails: the directories that are left are not stamped
StampFails(p) ==
    /\ sync.pc = "sync" /\ p \in sync.stamp
    /\ (~There(local[p]) /\ UNCHANGED <<clock, ops, others, broken>>) \/ Fault
    /\ sync' = [sync EXCEPT !.stamp = IF sync.index[p].dir THEN Files(@) ELSE @ \ {p}, !.err = TRUE]
    /\ UNCHANGED <<world, record, doing, nextVer, marks>>

\* Mutant: the error of the push is not looked at
PullFailed == sync.err

\* The error of either half is returned
SyncFailed == sync.err \/ sync.push = "failed"

\* The end: the calls that wait go on, and so does the Rename that called Sync
End ==
    LET err == SyncFailed
    IN  /\ sync.pc = "sync"
        /\ sync.push \in {"no", "failed"} /\ sync.pull = {} /\ sync.stamp = {}
        /\ sync' = Quiet
        /\ doing' = [t \in Threads |->
                      IF sync.by # t THEN [doing[t] EXCEPT !.waits = FALSE]
                      ELSE IF err \/ doing[t].pc = "sync2" THEN Idle ELSE [doing[t] EXCEPT !.pc = "remote"]]
        /\ failed' = (failed \/ err)
        /\ fresh' = IF err THEN fresh ELSE {p \in SyncPaths \ (sync.touched \cup sync.missed) : ~OnItsWay(p) /\ ~Moving(p)}
        /\ UNCHANGED <<world, record, counts, truth, loose>>

-----------------------------------------------------------------------------
(* Rename of a directory: Sync, the remote, the local side, Sync *)

RenameDir(t) ==
    LET c == doing[t]
    IN  /\ c.pc = "local" /\ c.op = "renamedir" /\ Passes(t)
        /\ IF local[c.p].dir /\ ~There(local[c.q]) THEN doing' = [doing EXCEPT ![t].pc = "sync"]
           ELSE doing' = [doing EXCEPT ![t] = Idle]
        /\ UNCHANGED <<world, record, sync, counts, marks>>

CallsSync(t) ==
    /\ doing[t].pc \in {"sync", "sync2"}
    /\ UNCHANGED armed
    /\ (Starts(t) /\ UNCHANGED doing) \/ (StartFails /\ doing' = [doing EXCEPT ![t] = Idle])

Moved(side, c) == [side EXCEPT ![c.q] = side[c.p], ![c.p] = Absent]

RenameRemote(t) ==
    LET c == doing[t]
        ok == remote[c.p].dir /\ ~There(remote[c.q])
    IN  /\ c.pc = "remote"
        /\ remote' = IF ok THEN Moved(remote, c) ELSE remote
        /\ doing' = [doing EXCEPT ![t] = IF ok THEN [c EXCEPT !.pc = "rename"] ELSE Idle]
        /\ IF ok THEN Changed({c.p, c.q}, remote', {p \in {c.p, c.q} : Overlaps(p)}) /\ Touches({c.p, c.q})
           ELSE UNCHANGED <<marks, sync>>
        /\ UNCHANGED <<local, record, counts>>

RenameLocal(t) ==
    LET c == doing[t]
        ok == local[c.p].dir /\ ~There(local[c.q])
    IN  /\ c.pc = "rename"
        /\ local' = IF ok THEN Moved(local, c) ELSE local
        /\ doing' = [doing EXCEPT ![t] = IF ok THEN [c EXCEPT !.pc = "sync2"] ELSE Idle]
        /\ Touches({c.p, c.q})
        /\ fresh' = fresh \ {c.p, c.q}
        /\ loose' = loose \cup {p \in {c.p, c.q} : Overlaps(p) \/ truth[p] # local'[p].ver}
        /\ UNCHANGED <<remote, record, counts, failed, truth>>

-----------------------------------------------------------------------------
(* The rest of the world *)

\* Someone else writes a file of the remote, now (when else time passes makes no difference)
RemoteWrite(p, now) ==
    /\ others < MaxRemote
    /\ others' = others + 1
    /\ ~remote[p].dir
    /\ remote' = [remote EXCEPT ![p] = Entry(nextVer, FALSE, now)]
    /\ clock' = now
    /\ nextVer' = nextVer + 1
    /\ Changed({p}, remote', IF Overlaps(p) \/ (There(local[p]) /\ now - local[p].time < 2) THEN {p} ELSE {})
    /\ Touches({p})
    /\ UNCHANGED <<local, record, doing, ops, broken>>

\* At first, the remote has what it has of p as new as the local side, or newer
RemoteFirst(p) == There(remote[p]) /\ (There(local[p]) => remote[p].time >= local[p].time)

SyncInit ==
    /\ \E s \in SyncStored : local = s.local /\ remote = s.remote
    /\ recorded = FALSE /\ changes = NoChange /\ armed = FALSE
    /\ sync = Quiet
    /\ doing = [t \in Threads |-> Idle]
    /\ clock = SyncStart /\ nextVer = SyncStart
    /\ ops = 0 /\ others = 0 /\ broken = 0
    /\ failed = FALSE
    /\ truth = [p \in SyncPaths |-> IF RemoteFirst(p) THEN remote[p].ver ELSE local[p].ver]
    /\ loose = {p \in SyncPaths : /\ There(local[p]) /\ local[p] # remote[p] /\ RemoteFirst(p)
                                  /\ remote[p].time - local[p].time < 2 \/ local[p].dir \/ remote[p].dir}
    /\ fresh = {}

SyncStep ==
    \/ Scanned \/ TarDone \/ Patch \/ Reset \/ End
    \/ \E p \in SyncPaths : PullScan(p) \/ PushScan(p) \/ Tar(p) \/ Pull(p) \/ Stamp(p)

SyncFault ==
    \/ ScanFails \/ PatchFails
    \/ \E p \in SyncPaths : PullFails(p) \/ PullCut(p) \/ MkdirFails(p) \/ StampFails(p)

CallStep(t) ==
    \/ Local(t) \/ Unmarked(t) \/ Refused(t) \/ Record(t)
    \/ RenameDir(t) \/ CallsSync(t) \/ RenameRemote(t) \/ RenameLocal(t)

SyncNext ==
    \/ \E t \in Threads : \E op \in SyncOps[t], p, q \in SyncPaths :
        (op \notin {"rename", "renamedir"} => q = p) /\ CallBegins(t, op, p, q)
    \/ \E t \in Threads : CallStep(t)
    \/ Fires \/ SyncStep \/ SyncFault
    \/ \E p \in SyncPaths, now \in {clock, clock + 2} : RemoteWrite(p, now)

SyncSpec == SyncInit /\ [][SyncNext]_syncVars

-----------------------------------------------------------------------------
(* Properties *)

(***************************************************************************)
(* The newest version of a path is on one of the two sides, and when it is *)
(* on the local side alone it is recorded, or about to be: a Sync that     *)
(* fails, at any point, loses no change, and what is pulled does not       *)
(* replace what was not pushed; except of the loose paths (see above),     *)
(* which the code loses.                                                   *)
(***************************************************************************)
NothingLost ==
    \A p \in SyncPaths \ loose :
        /\ truth[p] \in {local[p].ver, remote[p].ver}
        /\ truth[p] # remote[p].ver =>
             \/ p \in DOMAIN changes /\ changes[p] = There(local[p])
             \/ OnItsWay(p)
             \/ ~recorded \/ sync.pc = "scan"

(***************************************************************************)
(* When a Sync has ended without an error, the two sides have the same     *)
(* version, the newest, of what no one has changed since it began and it   *)
(* did not fail to copy: of a copy that fails, Sync does not tell, and the *)
(* next Sync is to make up for it.                                         *)
(***************************************************************************)
InStep ==
    \A p \in fresh \ loose : truth[p] = remote[p].ver /\ (p \notin DOMAIN changes => truth[p] = local[p].ver)

(***************************************************************************)
(* What is recorded waits for no further change: the timer is set, or the  *)
(* Sync that runs has yet to push it, unless a Sync has failed since.      *)
(***************************************************************************)
PushIsDue == changes # NoChange => armed \/ failed \/ sync.on
=============================================================================
