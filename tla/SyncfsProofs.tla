---------------------------- MODULE SyncfsProofs ----------------------------
(***************************************************************************)
(* Theorems about the synchronised file system, for any number of paths,   *)
(* goroutines, changes on either side and failures: no change is lost,     *)
(* a Sync that succeeds leaves both sides alike, and what is recorded is   *)
(* due to be pushed.                                                       *)
(***************************************************************************)
EXTENDS Syncfs, TLAPS

-----------------------------------------------------------------------------
(* Types.                                                                  *)

Entries == {e \in [ver : Nat, dir : BOOLEAN, time : Nat] : e.ver = 0 => ~e.dir /\ e.time = 0}
Sides == [SyncPaths -> Entries]
PathSets == SUBSET SyncPaths
Kinds == {"create", "write", "mkdir", "chmod", "remove", "rename", "renamedir"}
Syncs ==
  [on : BOOLEAN, by : {"timer"} \cup Threads, index : Sides, pulled : PathSets, walked : PathSets,
   scan : BOOLEAN, pull : PathSets, stamp : PathSets, missed : PathSets, push : {"no", "tar", "patch", "reset", "failed"},
   must : PathSets, visited : PathSets, tar : SUBSET (SyncPaths \X Entries), err : BOOLEAN,
   touched : PathSets, pc : {"off", "scan", "sync"}]
CallRecords ==
  [op : Kinds \cup {""}, pc : {"idle", "local", "record", "record2", "sync", "remote", "rename", "sync2"},
   p : SyncPaths \cup {0}, q : SyncPaths \cup {0}, waits : BOOLEAN]

TypeOK ==
  /\ local \in Sides /\ remote \in Sides
  /\ recorded \in BOOLEAN /\ armed \in BOOLEAN /\ failed \in BOOLEAN
  /\ DOMAIN changes \subseteq SyncPaths /\ changes \in [DOMAIN changes -> BOOLEAN]
  /\ sync \in Syncs
  /\ doing \in [Threads -> CallRecords]
  /\ clock \in Nat /\ nextVer \in Nat
  /\ truth \in [SyncPaths -> Nat] /\ loose \in PathSets /\ fresh \in PathSets

-----------------------------------------------------------------------------
(* Calls and the Sync that runs.                                           *)

\* Where the call c of t can be, with its operation, beside the Sync s, and once changes are recorded
CallOK(t, c, s, rec) ==
  /\ c.pc # "idle" => c.op \in Kinds /\ c.p \in SyncPaths /\ c.q \in SyncPaths
  /\ c.pc # "idle" /\ c.op \notin {"rename", "renamedir"} => c.q = c.p
  /\ c.pc \in {"record", "record2"} => c.op # "renamedir"
  /\ c.pc = "record2" => c.op = "rename"
  /\ c.op = "write" => c.pc \in {"local", "record"}
  /\ s.by = t => c.pc \in {"sync", "sync2"}
  /\ ~rec => c.pc = "idle"
  /\ s.on /\ s.scan => c.pc = "idle" \/ c.op = "write" \/ (c.pc = "local" /\ c.waits)

CallsOK == \A t \in Threads : CallOK(t, doing[t], sync, recorded)

PhaseOK ==
  /\ sync.on <=> sync.pc # "off"
  /\ sync.on => recorded
  /\ ~sync.on => sync.by = "timer"
  /\ sync.push # "no" => sync.pc = "sync"
  /\ sync.pc = "scan" => sync.tar = {} /\ sync.visited = {} /\ sync.stamp = {}
  /\ ~recorded => changes = NoChange

\* The patch has one entry of every path that was visited
TarOK ==
  /\ \A x \in sync.tar : x[1] \in sync.visited
  /\ \A x, y \in sync.tar : x[1] = y[1] => x = y
  /\ \A p \in sync.visited : \E x \in sync.tar : x[1] = p

\* A version is known: of an entry on either side, in the index, or in the patch
Known(v, d) ==
  \/ v = 0 /\ d = FALSE
  \/ \E p \in SyncPaths : \/ v = local[p].ver /\ d = local[p].dir
                          \/ v = remote[p].ver /\ d = remote[p].dir
                          \/ v = sync.index[p].ver /\ d = sync.index[p].dir
  \/ \E x \in sync.tar : v = x[2].ver /\ d = x[2].dir

VersionsOK ==
  /\ \A v \in Nat, d \in BOOLEAN : Known(v, d) => v < nextVer
  /\ \A v \in Nat, d, e \in BOOLEAN : Known(v, d) /\ Known(v, e) => d = e
  /\ \A p \in SyncPaths : truth[p] < nextVer

-----------------------------------------------------------------------------
(* One path that is not loose.                                             *)

\* t has changed p and has yet to record it, whatever of a Rename is recorded
Announces(t, p) == \/ doing[t].pc = "record" /\ p \in {doing[t].p, doing[t].q}
                   \/ doing[t].pc = "record2" /\ p = doing[t].p
Announced(p) == \E t \in Threads : Announces(t, p)

Ch(p) == p \in DOMAIN changes
Untouched(p) == sync.on /\ p \notin sync.touched

Newest(p) == truth[p] \in {local[p].ver, remote[p].ver}

\* The change that the remote does not have is recorded, or will be
Noted(p) ==
  truth[p] # remote[p].ver =>
    \/ Ch(p) /\ changes[p] = There(local[p])
    \/ Announced(p) \/ ~recorded
    \/ sync.pc = "scan" /\ sync.scan /\ p \notin sync.walked /\ IsNews(p)

\* What is recorded is the newest, is not to be pulled over, and is there as recorded
NoteOK(p) ==
  Ch(p) => /\ truth[p] = local[p].ver
           /\ There(local[p]) => Announced(p) \/ remote[p].time - local[p].time < 2
           /\ changes[p] # There(local[p]) => Announced(p) /\ p \notin fresh

\* What is in the patch is the newest, or was changed again
Patches(p) ==
  sync.push \in {"tar", "patch"} =>
    \A x \in sync.tar : x[1] = p => truth[p] = x[2].ver \/ (Announced(p) /\ truth[p] = local[p].ver /\ p \notin fresh)

\* What is recorded is in the patch, but what is announced
PushOK(p) ==
  /\ sync.push \in {"tar", "patch"} /\ p \in sync.visited => Ch(p)
  /\ Pushing /\ Ch(p) => p \in sync.must
  /\ sync.push = "patch" /\ Ch(p) => p \in sync.visited
  /\ sync.push = "reset" /\ truth[p] # remote[p].ver => Announced(p)
  /\ sync.pc = "sync" /\ sync.push = "no" /\ Ch(p) => p \in sync.touched

\* What is pulled, or was and is to be stamped, has no change on the local side
PullOK(p) ==
  /\ p \in sync.pull /\ Untouched(p) /\ ~OnItsWay(p) =>
       /\ truth[p] = remote[p].ver /\ ~Ch(p) /\ remote[p] = sync.index[p]
       /\ sync.pc = "scan" => There(sync.index[p]) /\ Newer(p)
  /\ p \in sync.stamp /\ Untouched(p) => ~Ch(p) /\ (truth[p] = local[p].ver \/ Moving(p))

\* The index is that of the remote, and the first scan sees what the remote has not
ScanOK(p) ==
  /\ sync.pc = "scan" /\ Untouched(p) => remote[p] = sync.index[p]
  /\ sync.pc = "scan" /\ sync.scan =>
       /\ IsNews(p) => truth[p] = local[p].ver /\ truth[p] # remote[p].ver
       /\ remote[p] = sync.index[p] \/ truth[p] # local[p].ver
  /\ ~recorded => IF RemoteFirst(p) THEN truth[p] = remote[p].ver
                  ELSE truth[p] = local[p].ver /\ (There(local[p]) => truth[p] # remote[p].ver)

\* What only the remote has can be pulled, and is, but where a rename is half done
RemoteOnly(p) == truth[p] = remote[p].ver /\ remote[p].ver # local[p].ver
CanPull(p) ==
  RemoteOnly(p) =>
    /\ ~There(remote[p]) \/ local[p].dir \/ (There(local[p]) /\ remote[p].dir) => Moving(p)
    /\ There(local[p]) /\ ~Moving(p) => remote[p].time - local[p].time >= 2
    /\ (sync.pc = "sync" \/ p \in sync.pulled) /\ Untouched(p) /\ ~OnItsWay(p) /\ ~Moving(p) => p \in sync.pull \cup sync.missed

FreshOK(p) == p \in fresh => truth[p] = remote[p].ver /\ (~Ch(p) => truth[p] = local[p].ver)

PathOK(p) ==
  /\ Newest(p) /\ Noted(p) /\ NoteOK(p) /\ Patches(p) /\ PushOK(p)
  /\ PullOK(p) /\ ScanOK(p) /\ CanPull(p) /\ FreshOK(p)

PathsOK == \A p \in SyncPaths : p \notin loose => PathOK(p)

\* What was recorded since the record was reset has set the timer
DueOK ==
  /\ PushIsDue
  /\ sync.pc = "sync" /\ sync.push = "no" /\ changes # NoChange => armed \/ failed

IInv == TypeOK /\ CallsOK /\ PhaseOK /\ TarOK /\ VersionsOK /\ PathsOK /\ DueOK

-----------------------------------------------------------------------------
(* Entries and the fields of the Sync.                                     *)

LEMMA EntryFacts ==
  ASSUME NEW e \in Entries
  PROVE  e.ver \in Nat /\ e.dir \in BOOLEAN /\ e.time \in Nat /\ (e.ver = 0 => ~e.dir /\ e.time = 0)
BY DEF Entries

LEMMA AbsentFacts == Absent \in Entries /\ Absent.ver = 0 /\ Absent.dir = FALSE /\ Absent.time = 0
BY DEF Entries, Absent, Entry

LEMMA EntryMade ==
  ASSUME NEW v \in Nat, v # 0, NEW d \in BOOLEAN, NEW m \in Nat
  PROVE  /\ Entry(v, d, m) \in Entries
         /\ Entry(v, d, m).ver = v /\ Entry(v, d, m).dir = d /\ Entry(v, d, m).time = m
BY DEF Entries, Entry

LEMMA EntryRenewed ==
  ASSUME NEW e \in Entries, NEW v \in Nat, v # 0
  PROVE  /\ [e EXCEPT !.ver = v] \in Entries
         /\ [e EXCEPT !.ver = v].ver = v /\ [e EXCEPT !.ver = v].dir = e.dir /\ [e EXCEPT !.ver = v].time = e.time
BY DEF Entries

LEMMA EntryTimed ==
  ASSUME NEW e \in Entries, e.ver # 0, NEW m \in Nat
  PROVE  /\ [e EXCEPT !.time = m] \in Entries
         /\ [e EXCEPT !.time = m].ver = e.ver /\ [e EXCEPT !.time = m].dir = e.dir /\ [e EXCEPT !.time = m].time = m
BY DEF Entries

LEMMA SideFacts ==
  ASSUME NEW s \in Sides, NEW p \in SyncPaths
  PROVE  /\ s[p] \in Entries /\ s[p].ver \in Nat /\ s[p].dir \in BOOLEAN /\ s[p].time \in Nat
         /\ s[p].ver = 0 => ~s[p].dir /\ s[p].time = 0
<1>1. s[p] \in Entries
  BY DEF Sides
<1>2. QED
  BY <1>1, EntryFacts

SamePhase == sync'.on = sync.on /\ sync'.by = sync.by /\ sync'.pc = sync.pc /\ sync'.scan = sync.scan
SameScan == sync'.index = sync.index /\ sync'.pulled = sync.pulled /\ sync'.walked = sync.walked
SamePull == sync'.pull = sync.pull /\ sync'.stamp = sync.stamp /\ sync'.missed = sync.missed
SamePatch == sync'.must = sync.must /\ sync'.visited = sync.visited /\ sync'.tar = sync.tar
SamePush == sync'.push = sync.push /\ SamePatch

LEMMA TouchesFields ==
  ASSUME sync \in Syncs, NEW ps \in PathSets, Touches(ps)
  PROVE  /\ sync' \in Syncs
         /\ SamePhase /\ SameScan /\ SamePull /\ SamePush
         /\ sync'.touched = IF sync.on THEN sync.touched \cup ps ELSE sync.touched
<1>1. (IF sync.on THEN sync.touched \cup ps ELSE sync.touched) \in PathSets
  BY DEF Syncs, PathSets
<1>2. QED
  BY <1>1 DEF Touches, Syncs, SamePhase, SameScan, SamePull, SamePush, SamePatch

LEMMA PullScanFields ==
  ASSUME sync \in Syncs, NEW p \in SyncPaths, PullScan(p)
  PROVE  /\ sync' \in Syncs
         /\ SamePhase /\ SamePush /\ sync'.stamp = sync.stamp /\ sync'.missed = sync.missed /\ sync'.touched = sync.touched
         /\ sync'.index = sync.index /\ sync'.walked = sync.walked
         /\ sync'.pulled = sync.pulled \cup {p}
         /\ sync'.pull = IF There(sync.index[p]) /\ ~Tombstone(p) /\ Newer(p) THEN sync.pull \cup {p} ELSE sync.pull
<1> DEFINE new == IF There(sync.index[p]) /\ ~Tombstone(p) /\ Newer(p) THEN sync.pull \cup {p} ELSE sync.pull
           met == sync.pulled \cup {p}
<1>1. new \in PathSets /\ met \in PathSets
  BY DEF Syncs, PathSets
<1>2. sync' = [sync EXCEPT !.pulled = met, !.pull = new]
  BY DEF PullScan
<1> HIDE DEF new, met
<1>3. /\ sync' \in Syncs /\ SamePhase /\ SamePush /\ sync'.stamp = sync.stamp /\ sync'.missed = sync.missed
      /\ sync'.touched = sync.touched
      /\ sync'.index = sync.index /\ sync'.walked = sync.walked /\ sync'.pulled = met /\ sync'.pull = new
  BY <1>1, <1>2 DEF Syncs, SamePhase, SamePush, SamePatch
<1>4. QED
  BY <1>3 DEF new, met

LEMMA PushScanFields ==
  ASSUME sync \in Syncs, NEW p \in SyncPaths, PushScan(p)
  PROVE  /\ sync' \in Syncs
         /\ SamePhase /\ SamePush /\ SamePull /\ sync'.touched = sync.touched
         /\ sync'.index = sync.index /\ sync'.pulled = sync.pulled
         /\ sync'.walked = sync.walked \cup {p}
<1>1. sync.walked \cup {p} \in PathSets
  BY DEF Syncs, PathSets
<1>2. QED
  BY <1>1 DEF PushScan, Syncs, SamePhase, SamePush, SamePatch, SamePull

LEMMA ScannedFields ==
  ASSUME TypeOK, Scanned
  PROVE  /\ sync' \in Syncs
         /\ SameScan /\ SamePull /\ sync'.touched = sync.touched
         /\ sync'.on = sync.on /\ sync'.by = sync.by /\ sync'.scan = sync.scan
         /\ sync'.visited = sync.visited /\ sync'.tar = sync.tar
         /\ sync'.pc = "sync" /\ sync'.must = DOMAIN changes
         /\ sync'.push = IF DOMAIN changes = {} THEN "no" ELSE "tar"
<1>1. DOMAIN changes \in PathSets
  BY DEF TypeOK, PathSets
<1>2. sync \in Syncs
  BY DEF TypeOK
<1>3. QED
  BY <1>1, <1>2 DEF Scanned, Syncs, SameScan, SamePull

LEMMA PushFields ==
  ASSUME sync \in Syncs, NEW s \in {"no", "tar", "patch", "reset", "failed"}, sync' = [sync EXCEPT !.push = s]
  PROVE  /\ sync' \in Syncs
         /\ SamePhase /\ SameScan /\ SamePull /\ SamePatch /\ sync'.touched = sync.touched
         /\ sync'.push = s
BY DEF Syncs, SamePhase, SameScan, SamePull, SamePatch

LEMMA TarFields ==
  ASSUME TypeOK, NEW p \in SyncPaths, NEW e \in Entries,
         sync' = [sync EXCEPT !.visited = @ \cup {p}, !.tar = @ \cup {<<p, e>>}]
  PROVE  /\ sync' \in Syncs
         /\ SamePhase /\ SameScan /\ SamePull /\ sync'.touched = sync.touched
         /\ sync'.push = sync.push /\ sync'.must = sync.must
         /\ sync'.visited = sync.visited \cup {p}
         /\ sync'.tar = sync.tar \cup {<<p, e>>}
<1>1. sync \in Syncs
  BY DEF TypeOK
<1> DEFINE v == sync.visited \cup {p}
           x == sync.tar \cup {<<p, e>>}
<1>2. v \in PathSets /\ x \in SUBSET (SyncPaths \X Entries)
  BY <1>1 DEF Syncs, PathSets
<1>3. sync' = [sync EXCEPT !.visited = v, !.tar = x]
  OBVIOUS
<1> HIDE DEF v, x
<1>4. /\ sync' \in Syncs /\ SamePhase /\ SameScan /\ SamePull /\ sync'.touched = sync.touched
      /\ sync'.push = sync.push /\ sync'.must = sync.must /\ sync'.visited = v /\ sync'.tar = x
  BY <1>1, <1>2, <1>3, ZenonT(60) DEF Syncs, SamePhase, SameScan, SamePull
<1>5. QED
  BY <1>4 DEF v, x

LEMMA PullFields ==
  ASSUME sync \in Syncs, NEW p \in SyncPaths, Pull(p)
  PROVE  /\ sync' \in Syncs
         /\ SamePhase /\ SameScan /\ SamePush /\ sync'.touched = sync.touched
         /\ sync'.pull = sync.pull \ {p} /\ sync'.missed = sync.missed
         /\ sync'.stamp = IF Stamps(p) THEN sync.stamp \cup {p} ELSE sync.stamp
<1> DEFINE new == IF Stamps(p) THEN sync.stamp \cup {p} ELSE sync.stamp
           rest == sync.pull \ {p}
<1>1. new \in PathSets /\ rest \in PathSets
  BY DEF Syncs, PathSets
<1>2. sync' = [sync EXCEPT !.pull = rest, !.stamp = new]
  BY DEF Pull
<1> HIDE DEF new, rest
<1>3. /\ sync' \in Syncs /\ SamePhase /\ SameScan /\ SamePush /\ sync'.touched = sync.touched
      /\ sync'.pull = rest /\ sync'.stamp = new /\ sync'.missed = sync.missed
  BY <1>1, <1>2 DEF Syncs, SamePhase, SameScan, SamePush, SamePatch
<1>4. QED
  BY <1>3 DEF new, rest

LEMMA StampFields ==
  ASSUME sync \in Syncs, NEW p \in SyncPaths, Stamp(p)
  PROVE  /\ sync' \in Syncs
         /\ SamePhase /\ SameScan /\ SamePush /\ sync'.touched = sync.touched
         /\ sync'.pull = sync.pull /\ sync'.missed = sync.missed
         /\ sync'.stamp = sync.stamp \ {p}
<1>1. sync.stamp \ {p} \in PathSets
  BY DEF Syncs, PathSets
<1>2. QED
  BY <1>1 DEF Stamp, Syncs, SamePhase, SameScan, SamePush, SamePatch

\* What a fault of the Sync leaves of its other parts
FaultKeeps == SamePhase /\ SameScan /\ SamePush /\ sync'.touched = sync.touched

LEMMA PullFailsFields ==
  ASSUME sync \in Syncs, NEW p \in SyncPaths, PullFails(p)
  PROVE  /\ sync' \in Syncs /\ FaultKeeps
         /\ sync'.pull = sync.pull \ {p} /\ sync'.stamp = sync.stamp /\ sync'.missed = sync.missed \cup {p}
<1> DEFINE rest == sync.pull \ {p}
           more == sync.missed \cup {p}
<1>1. rest \in PathSets /\ more \in PathSets
  BY DEF Syncs, PathSets
<1>2. sync' = [sync EXCEPT !.pull = rest, !.missed = more]
  BY DEF PullFails
<1> HIDE DEF rest, more
<1>3. /\ sync' \in Syncs /\ FaultKeeps
      /\ sync'.pull = rest /\ sync'.stamp = sync.stamp /\ sync'.missed = more
  BY <1>1, <1>2 DEF Syncs, FaultKeeps, SamePhase, SameScan, SamePush, SamePatch
<1>4. QED
  BY <1>3 DEF rest, more

LEMMA PullCutFields ==
  ASSUME sync \in Syncs, NEW p \in SyncPaths, PullCut(p)
  PROVE  /\ sync' \in Syncs /\ FaultKeeps
         /\ sync'.pull = sync.pull \ {p} /\ sync'.stamp = sync.stamp \cup {p} /\ sync'.missed = sync.missed
<1> DEFINE rest == sync.pull \ {p}
           new == sync.stamp \cup {p}
<1>1. rest \in PathSets /\ new \in PathSets
  BY DEF Syncs, PathSets
<1>2. sync' = [sync EXCEPT !.pull = rest, !.stamp = new]
  BY DEF PullCut
<1> HIDE DEF rest, new
<1>3. /\ sync' \in Syncs /\ FaultKeeps
      /\ sync'.pull = rest /\ sync'.stamp = new /\ sync'.missed = sync.missed
  BY <1>1, <1>2 DEF Syncs, FaultKeeps, SamePhase, SameScan, SamePush, SamePatch
<1>4. QED
  BY <1>3 DEF rest, new

LEMMA MkdirFailsFields ==
  ASSUME sync \in Syncs, NEW p \in SyncPaths, MkdirFails(p)
  PROVE  /\ sync' \in Syncs /\ FaultKeeps
         /\ sync'.pull = {} /\ sync'.stamp \subseteq sync.stamp /\ sync'.missed = sync.missed \cup sync.pull
<1> DEFINE rest == Files(sync.stamp)
           more == sync.missed \cup sync.pull
<1>1. rest \in PathSets /\ more \in PathSets /\ rest \subseteq sync.stamp /\ {} \in PathSets
  BY DEF Syncs, PathSets, Files
<1>2. sync' = [sync EXCEPT !.pull = {}, !.stamp = rest, !.missed = more, !.err = TRUE]
  BY DEF MkdirFails
<1> HIDE DEF rest, more
<1>3. /\ sync' \in Syncs /\ FaultKeeps
      /\ sync'.pull = {} /\ sync'.stamp = rest /\ sync'.missed = more
  BY <1>1, <1>2 DEF Syncs, FaultKeeps, SamePhase, SameScan, SamePush, SamePatch
<1>4. QED
  BY <1>1, <1>3 DEF more

LEMMA StampFailsFields ==
  ASSUME sync \in Syncs, NEW p \in SyncPaths, StampFails(p)
  PROVE  /\ sync' \in Syncs /\ FaultKeeps
         /\ sync'.pull = sync.pull /\ sync'.stamp \subseteq sync.stamp /\ sync'.missed = sync.missed
<1> DEFINE rest == IF sync.index[p].dir THEN Files(sync.stamp) ELSE sync.stamp \ {p}
<1>1. rest \in PathSets /\ rest \subseteq sync.stamp
  BY DEF Syncs, PathSets, Files
<1>2. sync' = [sync EXCEPT !.stamp = rest, !.err = TRUE]
  BY DEF StampFails
<1> HIDE DEF rest
<1>3. /\ sync' \in Syncs /\ FaultKeeps
      /\ sync'.pull = sync.pull /\ sync'.stamp = rest /\ sync'.missed = sync.missed
  BY <1>1, <1>2 DEF Syncs, FaultKeeps, SamePhase, SameScan, SamePush, SamePatch
<1>4. QED
  BY <1>1, <1>3

LEMMA ScanFailsFields ==
  ASSUME sync \in Syncs, ScanFails
  PROVE  /\ sync' \in Syncs /\ SameScan /\ SamePatch /\ sync'.touched = sync.touched
         /\ sync'.on = sync.on /\ sync'.by = sync.by /\ sync'.scan = sync.scan
         /\ sync'.pc = "sync" /\ sync'.push = "failed"
         /\ sync'.pull = {} /\ sync'.stamp = sync.stamp /\ sync'.missed = SyncPaths
<1>1. {} \in PathSets /\ SyncPaths \in PathSets
  BY DEF PathSets
<1>2. sync' = [sync EXCEPT !.pc = "sync", !.pull = {}, !.missed = SyncPaths, !.push = "failed"]
  BY DEF ScanFails
<1>3. QED
  BY <1>1, <1>2 DEF Syncs, SameScan, SamePatch

LEMMA QuietFields ==
  /\ Quiet \in Syncs
  /\ Quiet.on = FALSE /\ Quiet.by = "timer" /\ Quiet.pc = "off" /\ Quiet.scan = FALSE /\ Quiet.push = "no"
  /\ Quiet.pulled = {} /\ Quiet.pull = {} /\ Quiet.stamp = {} /\ Quiet.visited = {} /\ Quiet.tar = {}
  /\ Quiet.index = [p \in SyncPaths |-> Absent]
<1>1. [p \in SyncPaths |-> Absent] \in Sides
  BY AbsentFacts DEF Sides
<1>2. QED
  BY <1>1 DEF Quiet, Syncs, PathSets

LEMMA StartsFields ==
  ASSUME TypeOK, NEW by \in {"timer"} \cup Threads, Starts(by)
  PROVE  /\ sync' \in Syncs
         /\ sync'.on = TRUE /\ sync'.by = by /\ sync'.pc = "scan" /\ sync'.scan = ~recorded
         /\ sync'.index = remote /\ sync'.pulled = {} /\ sync'.walked = {} /\ sync'.pull = {} /\ sync'.stamp = {}
         /\ sync'.push = "no" /\ sync'.visited = {} /\ sync'.tar = {} /\ sync'.touched = {}
<1>1. Quiet \in Syncs
  BY QuietFields
<1>2. remote \in Sides /\ (~recorded) \in BOOLEAN
  BY DEF TypeOK
<1> DEFINE first == ~recorded
<1>3. sync' = [Quiet EXCEPT !.on = TRUE, !.by = by, !.pc = "scan", !.index = remote, !.scan = first]
  BY DEF Starts
<1>4. first \in BOOLEAN
  BY <1>2
<1>5. /\ Quiet.pulled = {} /\ Quiet.walked = {} /\ Quiet.pull = {} /\ Quiet.stamp = {}
      /\ Quiet.push = "no" /\ Quiet.visited = {} /\ Quiet.tar = {} /\ Quiet.touched = {}
  BY DEF Quiet
<1> HIDE DEF first
<1>6. /\ sync' \in Syncs
      /\ sync'.on = TRUE /\ sync'.by = by /\ sync'.pc = "scan" /\ sync'.scan = first
      /\ sync'.index = remote /\ sync'.pulled = Quiet.pulled /\ sync'.walked = Quiet.walked
      /\ sync'.pull = Quiet.pull /\ sync'.stamp = Quiet.stamp
      /\ sync'.push = Quiet.push /\ sync'.visited = Quiet.visited /\ sync'.tar = Quiet.tar
      /\ sync'.touched = Quiet.touched
  BY <1>1, <1>2, <1>3, <1>4 DEF Syncs
<1>7. QED
  BY <1>5, <1>6 DEF first

-----------------------------------------------------------------------------
(* What a step of one call says of a path.                                 *)

OnWayAt(t, p) == doing[t].pc \in {"record", "record2"} /\ p \in {doing[t].p, doing[t].q}
MovesAt(t, p) == doing[t].pc = "rename" /\ p = doing[t].p

KeepsCalls(p) ==
  /\ Announced(p) => Announced(p)'
  /\ OnItsWay(p) => OnItsWay(p)' \/ ~Untouched(p)'
  /\ Moving(p) => Moving(p)'

LEMMA CallEffect ==
  ASSUME NEW t \in Threads, \A u \in Threads : u # t => doing'[u] = doing[u], NEW p
  PROVE  /\ (Announces(t, p)' <=> Announces(t, p)) => (Announced(p)' <=> Announced(p))
         /\ (OnWayAt(t, p)' <=> OnWayAt(t, p)) => (OnItsWay(p)' <=> OnItsWay(p))
         /\ (MovesAt(t, p)' <=> MovesAt(t, p)) => (Moving(p)' <=> Moving(p))
         /\ Announces(t, p)' => Announced(p)'
         /\ OnWayAt(t, p)' => OnItsWay(p)'
         /\ MovesAt(t, p)' => Moving(p)'
         /\ Announces(t, p) => Announced(p)
         /\ OnWayAt(t, p) => OnItsWay(p)
         /\ MovesAt(t, p) => Moving(p)
         /\ ~Announces(t, p)' /\ Announced(p)' => Announced(p)
<1>1. \A u \in Threads : u # t => /\ Announces(u, p)' <=> Announces(u, p)
                                  /\ OnWayAt(u, p)' <=> OnWayAt(u, p)
                                  /\ MovesAt(u, p)' <=> MovesAt(u, p)
  BY DEF Announces, OnWayAt, MovesAt
<1>2. Announced(p) <=> \E u \in Threads : Announces(u, p)
  BY DEF Announced
<1>3. Announced(p)' <=> \E u \in Threads : Announces(u, p)'
  BY DEF Announced
<1>4. OnItsWay(p) <=> \E u \in Threads : OnWayAt(u, p)
  BY DEF OnItsWay, OnWayAt
<1>5. OnItsWay(p)' <=> \E u \in Threads : OnWayAt(u, p)'
  BY DEF OnItsWay, OnWayAt
<1>6. Moving(p) <=> \E u \in Threads : MovesAt(u, p)
  BY DEF Moving, MovesAt
<1>7. Moving(p)' <=> \E u \in Threads : MovesAt(u, p)'
  BY DEF Moving, MovesAt
<1>8. QED
  BY <1>1, <1>2, <1>3, <1>4, <1>5, <1>6, <1>7

LEMMA AnnouncedOnWay ==
  ASSUME NEW p, Announced(p)
  PROVE  OnItsWay(p)
BY DEF Announced, Announces, OnItsWay

LEMMA CallsSame ==
  ASSUME doing' = doing, NEW p
  PROVE  KeepsCalls(p)
BY DEF KeepsCalls, Announced, Announces, OnItsWay, Moving

LEMMA QuietCall ==
  ASSUME NEW t \in Threads, \A u \in Threads : u # t => doing'[u] = doing[u],
         doing[t].pc \notin {"record", "record2", "rename"},
         doing'[t].pc \notin {"record", "record2", "rename"}, NEW p
  PROVE  KeepsCalls(p)
<1>1. /\ ~Announces(t, p) /\ ~Announces(t, p)' /\ ~OnWayAt(t, p) /\ ~OnWayAt(t, p)'
      /\ ~MovesAt(t, p) /\ ~MovesAt(t, p)'
  BY DEF Announces, OnWayAt, MovesAt
<1>2. QED
  BY <1>1, CallEffect DEF KeepsCalls

LEMMA OneCall ==
  ASSUME TypeOK, NEW t \in Threads, NEW c, doing' = [doing EXCEPT ![t] = c]
  PROVE  doing'[t] = c /\ \A u \in Threads : u # t => doing'[u] = doing[u]
BY DEF TypeOK

LEMMA PcOnly ==
  ASSUME NEW c \in CallRecords,
         NEW s \in {"idle", "local", "record", "record2", "sync", "remote", "rename", "sync2"}
  PROVE  /\ [c EXCEPT !.pc = s] \in CallRecords
         /\ [c EXCEPT !.pc = s].pc = s /\ [c EXCEPT !.pc = s].op = c.op /\ [c EXCEPT !.pc = s].p = c.p
         /\ [c EXCEPT !.pc = s].q = c.q /\ [c EXCEPT !.pc = s].waits = c.waits
BY DEF CallRecords

LEMMA IdleFacts ==
  Idle \in CallRecords /\ Idle.pc = "idle" /\ Idle.op = "" /\ Idle.waits = FALSE
BY DEF Idle, CallRecords

\* The step leaves what the sides, the record and the Sync have of p
KeepsPath(p) ==
  /\ local'[p] = local[p] /\ remote'[p] = remote[p] /\ truth'[p] = truth[p]
  /\ p \in fresh' => p \in fresh
KeepsNote(p) ==
  recorded' = recorded /\ (Ch(p)' <=> Ch(p)) /\ (Ch(p) => changes'[p] = changes[p])
KeepsPatch(p) ==
  /\ p \in sync'.must <=> p \in sync.must
  /\ p \in sync'.visited <=> p \in sync.visited
  /\ \A x \in sync'.tar : x[1] = p => x \in sync.tar
KeepsScan(p) ==
  /\ sync'.index[p] = sync.index[p]
  /\ p \in sync'.pulled <=> p \in sync.pulled
  /\ p \in sync'.walked <=> p \in sync.walked
KeepsPull(p) ==
  /\ p \in sync'.pull => p \in sync.pull
  /\ p \in sync.pull => p \in sync'.pull \cup sync'.missed
  /\ p \in sync'.stamp => p \in sync.stamp
  /\ p \in sync.missed => p \in sync'.missed
  /\ p \in sync.touched => p \in sync'.touched
KeepsSync(p) == SamePhase /\ sync'.push = sync.push /\ KeepsPatch(p) /\ KeepsScan(p) /\ KeepsPull(p)

LEMMA TouchesKeeps ==
  ASSUME sync \in Syncs, NEW ps \in PathSets, Touches(ps), NEW p
  PROVE  KeepsSync(p)
<1>1. /\ SamePhase /\ SameScan /\ SamePull /\ SamePush
      /\ sync'.touched = IF sync.on THEN sync.touched \cup ps ELSE sync.touched
  BY TouchesFields
<1>2. QED
  BY <1>1 DEF KeepsSync, KeepsPatch, KeepsScan, KeepsPull, SameScan, SamePull, SamePush, SamePatch

LEMMA SyncKept ==
  ASSUME sync' = sync, NEW p
  PROVE  KeepsSync(p)
BY DEF KeepsSync, SamePhase, KeepsPatch, KeepsScan, KeepsPull

\* A path of which the step leaves everything but more of it touched
LEMMA Frame ==
  ASSUME NEW p \in SyncPaths, PathOK(p), KeepsPath(p), KeepsNote(p), KeepsCalls(p), KeepsSync(p)
  PROVE  PathOK(p)'
<1>1. Newest(p)'
  BY DEF PathOK, Newest, KeepsPath
<1>2. Noted(p)'
  BY DEF PathOK, Noted, IsNews, KeepsPath, KeepsNote, KeepsCalls, KeepsSync, SamePhase, KeepsScan, There
<1>3. NoteOK(p)'
  BY DEF PathOK, NoteOK, KeepsPath, KeepsNote, KeepsCalls, There
<1>4. Patches(p)'
  BY DEF PathOK, Patches, KeepsPath, KeepsCalls, KeepsSync, KeepsPatch
<1>5. PushOK(p)'
  BY DEF PathOK, PushOK, Pushing, KeepsPath, KeepsNote, KeepsCalls, KeepsSync, SamePhase, KeepsPatch, KeepsPull
<1>6. PullOK(p)'
  BY DEF PathOK, PullOK, KeepsPath, KeepsNote, KeepsCalls, KeepsSync, SamePhase, KeepsScan, KeepsPull,
         Untouched, Newer, There
<1>7. ScanOK(p)'
  BY DEF PathOK, ScanOK, IsNews, RemoteFirst, KeepsPath, KeepsNote, KeepsSync, SamePhase, KeepsScan, KeepsPull, Untouched, There
<1>8. CanPull(p)'
  BY DEF PathOK, CanPull, RemoteOnly, KeepsPath, KeepsCalls, KeepsSync, SamePhase, KeepsScan, KeepsPull,
         Untouched, There
<1>9. FreshOK(p)'
  BY DEF PathOK, FreshOK, KeepsPath, KeepsNote
<1>10. QED
  BY <1>1, <1>2, <1>3, <1>4, <1>5, <1>6, <1>7, <1>8, <1>9 DEF PathOK

-----------------------------------------------------------------------------
(* What a call makes of the local side, and of the record.                 *)

PathsOf(c) == IF c.op = "rename" THEN {c.p, c.q} ELSE {c.p}

LEMMA MadeFacts ==
  ASSUME TypeOK, 0 < nextVer, NEW c \in CallRecords, c.op \in Kinds, c.op # "renamedir",
         c.p \in SyncPaths, c.q \in SyncPaths, LocalCan(c)
  PROVE  /\ LocalMade(c) \in Sides
         /\ \A p \in SyncPaths : p \notin PathsOf(c) => LocalMade(c)[p] = local[p]
         /\ \A p \in SyncPaths : p \in PathsOf(c) => LocalMade(c)[p].ver \in {0, nextVer}
<1>1. local \in Sides /\ nextVer \in Nat /\ nextVer # 0 /\ clock \in Nat
  BY DEF TypeOK
<1>2. \A p \in SyncPaths : local[p] \in Entries
  BY <1>1 DEF Sides
<1>3. CASE c.op \in {"create", "write", "mkdir"}
  <2> DEFINE d == c.op = "mkdir"
  <2>1. Entry(nextVer, d, clock) \in Entries /\ Entry(nextVer, d, clock).ver = nextVer
    BY <1>1, EntryMade, ZenonT(60)
  <2>2. LocalMade(c) = [local EXCEPT ![c.p] = Entry(nextVer, d, clock)]
    BY <1>3 DEF LocalMade
  <2>3. PathsOf(c) = {c.p}
    BY <1>3 DEF PathsOf
  <2> DEFINE e == Entry(nextVer, d, clock)
  <2> HIDE DEF e, d
  <2>4. QED
    BY <1>1, <1>3, <2>1, <2>2, <2>3 DEF Sides, e
<1>4. CASE c.op = "chmod"
  <2> DEFINE e == [local[c.p] EXCEPT !.ver = nextVer]
  <2>1. e \in Entries /\ e.ver = nextVer
    BY <1>1, <1>2, EntryRenewed
  <2>2. LocalMade(c) = [local EXCEPT ![c.p] = e]
    BY <1>4 DEF LocalMade
  <2>3. PathsOf(c) = {c.p}
    BY <1>4 DEF PathsOf
  <2> HIDE DEF e
  <2>4. QED
    BY <1>1, <1>4, <2>1, <2>2, <2>3 DEF Sides
<1>5. CASE c.op = "remove"
  <2>2. LocalMade(c) = [local EXCEPT ![c.p] = Absent]
    BY <1>5 DEF LocalMade
  <2>3. PathsOf(c) = {c.p}
    BY <1>5 DEF PathsOf
  <2>4. QED
    BY <1>1, <1>5, <2>2, <2>3, AbsentFacts DEF Sides
<1>6. CASE c.op = "rename"
  <2> DEFINE e == [local[c.p] EXCEPT !.ver = nextVer]
  <2>1. e \in Entries /\ e.ver = nextVer
    BY <1>1, <1>2, EntryRenewed
  <2>2. LocalMade(c) = [local EXCEPT ![c.p] = Absent, ![c.q] = e]
    BY <1>6 DEF LocalMade
  <2>3. PathsOf(c) = {c.p, c.q}
    BY <1>6 DEF PathsOf
  <2> HIDE DEF e
  <2>4. QED
    BY <1>1, <1>6, <2>1, <2>2, <2>3, AbsentFacts DEF Sides
<1>7. QED
  BY <1>3, <1>4, <1>5, <1>6 DEF Kinds

LEMMA MovedFacts ==
  ASSUME NEW s \in Sides, NEW c, c.p \in SyncPaths, c.q \in SyncPaths, c.p # c.q
  PROVE  /\ Moved(s, c) \in Sides
         /\ Moved(s, c)[c.p] = Absent
         /\ Moved(s, c)[c.q] = s[c.p]
         /\ \A p \in SyncPaths : p \notin {c.p, c.q} => Moved(s, c)[p] = s[p]
<1>1. s[c.p] \in Entries
  BY DEF Sides
<1>2. QED
  BY <1>1, AbsentFacts DEF Moved, Sides

LEMMA RecordedFacts ==
  ASSUME TypeOK, NEW p \in SyncPaths, NEW ex \in BOOLEAN, changes' = Recorded(p, ex)
  PROVE  /\ DOMAIN changes' \subseteq SyncPaths /\ changes' \in [DOMAIN changes' -> BOOLEAN]
         /\ \A x : x # p => (Ch(x)' <=> Ch(x)) /\ (Ch(x) => changes'[x] = changes[x])
         /\ TakesBack(p, ex) => ~Ch(p)'
         /\ ~TakesBack(p, ex) => Ch(p)' /\ changes'[p] = ex
<1>1. DOMAIN changes \subseteq SyncPaths /\ changes \in [DOMAIN changes -> BOOLEAN]
  BY DEF TypeOK
<1>2. CASE TakesBack(p, ex)
  <2>1. changes' = [x \in DOMAIN changes \ {p} |-> changes[x]]
    BY <1>2 DEF Recorded, Restrict
  <2>2. QED
    BY <1>1, <1>2, <2>1 DEF Ch
<1>3. CASE ~TakesBack(p, ex)
  <2>1. changes' = [x \in DOMAIN changes \cup {p} |-> IF x = p THEN ex ELSE changes[x]]
    BY <1>3 DEF Recorded
  <2>2. DOMAIN changes' = DOMAIN changes \cup {p}
    BY <2>1
  <2>3. \A x \in DOMAIN changes' : changes'[x] = IF x = p THEN ex ELSE changes[x]
    BY <2>1, <2>2
  <2>4. changes' \in [DOMAIN changes' -> BOOLEAN]
    BY <1>1, <2>1, <2>2
  <2>5. QED
    BY <1>1, <1>3, <2>2, <2>3, <2>4 DEF Ch
<1>4. QED
  BY <1>2, <1>3

-----------------------------------------------------------------------------
(* Types, the places of calls, and the phases of the Sync: calls.          *)

Basics == TypeOK /\ CallsOK /\ PhaseOK /\ TarOK /\ 0 < nextVer

LEMMA CallsStep ==
  ASSUME TypeOK, CallsOK, NEW t \in Threads, NEW c \in CallRecords, doing' = [doing EXCEPT ![t] = c],
         recorded' = recorded, SamePhase, CallOK(t, c, sync, recorded)
  PROVE  doing' \in [Threads -> CallRecords] /\ CallsOK'
<1>1. doing' \in [Threads -> CallRecords]
  BY DEF TypeOK
<1>2. doing'[t] = c /\ \A u \in Threads : u # t => doing'[u] = doing[u]
  BY OneCall
<1>3. ASSUME NEW u \in Threads
      PROVE  CallOK(u, doing'[u], sync', recorded')
  <2>1. CallOK(u, doing'[u], sync, recorded)
    BY <1>2 DEF CallsOK
  <2>2. QED
    BY <2>1 DEF CallOK, SamePhase
<1>4. QED
  BY <1>1, <1>3 DEF CallsOK

LEMMA ThreadFacts ==
  ASSUME Basics, NEW t \in Threads
  PROVE  /\ doing[t] \in CallRecords /\ CallOK(t, doing[t], sync, recorded)
         /\ doing[t].op \in Kinds \cup {""} /\ doing[t].waits \in BOOLEAN
         /\ doing[t].pc # "idle" => doing[t].op \in Kinds /\ doing[t].p \in SyncPaths /\ doing[t].q \in SyncPaths
<1>1. doing[t] \in CallRecords
  BY DEF Basics, TypeOK
<1>2. CallOK(t, doing[t], sync, recorded)
  BY DEF Basics, CallsOK
<1>3. QED
  BY <1>1, <1>2 DEF CallOK, CallRecords

LEMMA IdleOK ==
  ASSUME Basics, NEW t \in Threads, sync.by # t
  PROVE  CallOK(t, Idle, sync, recorded)
BY IdleFacts DEF CallOK

LEMMA CallBeginsBasics ==
  ASSUME Basics, NEW t \in Threads, NEW op \in SyncOps[t], NEW p \in SyncPaths, NEW q \in SyncPaths,
         op \notin {"rename", "renamedir"} => q = p, CallBegins(t, op, p, q)
  PROVE  (TypeOK /\ CallsOK /\ PhaseOK /\ TarOK)'
<1> DEFINE c == [op |-> op, pc |-> "local", p |-> p, q |-> q, waits |-> sync.on /\ op # "write"]
<1>1. op \in Kinds
  BY SyncOpsAssumption DEF Kinds
<1>2. sync \in Syncs
  BY DEF Basics, TypeOK
<1>3. c \in CallRecords
  BY <1>1, <1>2 DEF CallRecords, Syncs
<1>4. doing[t] = Idle /\ recorded
  BY DEF CallBegins
<1>5. sync.by # t
  BY <1>4, ThreadFacts, IdleFacts DEF CallOK
<1>6. CallOK(t, c, sync, recorded)
  BY <1>1, <1>4, <1>5 DEF CallOK
<1>7. doing' = [doing EXCEPT ![t] = c]
  BY DEF CallBegins
<1> HIDE DEF c
<1>8. /\ local' = local /\ remote' = remote /\ recorded' = recorded /\ changes' = changes /\ armed' = armed
      /\ sync' = sync /\ failed' = failed /\ truth' = truth /\ loose' = loose /\ fresh' = fresh
      /\ clock' = clock /\ nextVer' = nextVer
  BY DEF CallBegins, world, record, marks
<1>9. SamePhase
  BY <1>8 DEF SamePhase
<1>10. doing' \in [Threads -> CallRecords] /\ CallsOK'
  BY <1>3, <1>6, <1>7, <1>8, <1>9, CallsStep DEF Basics
<1>11. QED
  BY <1>8, <1>10 DEF Basics, TypeOK, PhaseOK, TarOK

\* What Local makes of each part of the state
LEMMA LocalFacts ==
  ASSUME Basics, NEW t \in Threads, Local(t)
  PROVE  /\ doing[t].pc = "local" /\ doing[t].op # "renamedir" /\ ~doing[t].waits
         /\ PathsOf(doing[t]) \in PathSets
         /\ local' \in Sides
         /\ \A p \in SyncPaths : p \notin PathsOf(doing[t]) => local'[p] = local[p] /\ truth'[p] = truth[p]
         /\ \A p \in SyncPaths : p \in PathsOf(doing[t]) => local'[p].ver \in {0, nextVer} /\ truth'[p] = local'[p].ver
         /\ \A p \in PathsOf(doing[t]) : p \notin loose' => truth[p] = local[p].ver
         /\ loose \subseteq loose' /\ loose' \in PathSets
         /\ fresh' = fresh \ PathsOf(doing[t]) /\ truth' \in [SyncPaths -> Nat]
         /\ nextVer' = nextVer + 1
         /\ doing' = [doing EXCEPT ![t] = [doing[t] EXCEPT !.pc = "record"]]
         /\ Touches(PathsOf(doing[t]))
         /\ remote' = remote /\ recorded' = recorded /\ changes' = changes /\ armed' = armed /\ clock' = clock
         /\ failed' = failed
<1> DEFINE c == doing[t]
           ps == PathsOf(c)
<1>1. c.pc = "local" /\ c.op # "renamedir" /\ ~c.waits
  BY DEF Local, Passes
<1>2. c \in CallRecords /\ c.op \in Kinds /\ c.p \in SyncPaths /\ c.q \in SyncPaths
  BY <1>1, ThreadFacts
<1>3. /\ LocalCan(c) /\ local' = LocalMade(c) /\ nextVer' = nextVer + 1
      /\ Changed(ps, local', {p \in ps : truth[p] # local[p].ver})
      /\ Touches(ps)
      /\ doing' = [doing EXCEPT ![t] = [doing[t] EXCEPT !.pc = "record"]]
      /\ remote' = remote /\ recorded' = recorded /\ changes' = changes /\ armed' = armed /\ clock' = clock
  BY DEF Local, PathsOf, record
<1>4. ps \in PathSets
  BY <1>2 DEF PathsOf, PathSets
<1>5. /\ local' \in Sides
      /\ \A p \in SyncPaths : p \notin ps => local'[p] = local[p]
      /\ \A p \in SyncPaths : p \in ps => local'[p].ver \in {0, nextVer}
  BY <1>1, <1>2, <1>3, MadeFacts DEF Basics
<1>6. /\ truth' = [p \in SyncPaths |-> IF p \in ps THEN local'[p].ver ELSE truth[p]]
      /\ loose' = loose \cup {p \in ps : truth[p] # local[p].ver}
      /\ fresh' = fresh \ ps /\ failed' = failed
  BY <1>3 DEF Changed
<1> HIDE DEF c, ps
<1>7. \A p \in SyncPaths : local'[p].ver \in Nat /\ truth[p] \in Nat
  BY <1>5, SideFacts DEF Basics, TypeOK
<1>8. truth' \in [SyncPaths -> Nat]
  BY <1>6, <1>7
<1>9. loose' \in PathSets
  BY <1>4, <1>6 DEF PathSets, Basics, TypeOK
<1>10. QED
  BY <1>1, <1>3, <1>4, <1>5, <1>6, <1>8, <1>9 DEF c, ps

LEMMA LocalBasics ==
  ASSUME Basics, NEW t \in Threads, Local(t)
  PROVE  (TypeOK /\ CallsOK /\ PhaseOK /\ TarOK)'
<1> DEFINE c == doing[t]
           ps == PathsOf(c)
           d == [c EXCEPT !.pc = "record"]
<1>1. /\ c.pc = "local" /\ c.op # "renamedir" /\ ~c.waits /\ ps \in PathSets /\ local' \in Sides
      /\ loose' \in PathSets /\ fresh' = fresh \ ps /\ truth' \in [SyncPaths -> Nat] /\ nextVer' = nextVer + 1
      /\ doing' = [doing EXCEPT ![t] = d] /\ Touches(ps)
      /\ remote' = remote /\ recorded' = recorded /\ changes' = changes /\ armed' = armed /\ clock' = clock
      /\ failed' = failed
  BY LocalFacts
<1>2. sync \in Syncs
  BY DEF Basics, TypeOK
<1>3. sync' \in Syncs /\ SamePhase /\ SamePush
  BY <1>1, <1>2, TouchesFields
<1>4. c \in CallRecords /\ CallOK(t, c, sync, recorded)
  BY ThreadFacts
<1>5. d \in CallRecords /\ d.pc = "record" /\ d.op = c.op /\ d.p = c.p /\ d.q = c.q
  BY <1>4, PcOnly
<1> HIDE DEF d
<1>6. CallOK(t, d, sync, recorded)
  BY <1>1, <1>4, <1>5 DEF CallOK
<1>7. doing' \in [Threads -> CallRecords] /\ CallsOK'
  BY <1>1, <1>3, <1>5, <1>6, CallsStep DEF Basics
<1>8. recorded
  BY <1>1, <1>4 DEF CallOK
<1> HIDE DEF c, ps
<1>9. nextVer' \in Nat /\ fresh' \in PathSets
  BY <1>1 DEF Basics, TypeOK, PathSets
<1>10. TypeOK'
  BY <1>1, <1>3, <1>7, <1>9 DEF Basics, TypeOK
<1>11. sync'.stamp = sync.stamp
  BY <1>1, <1>2, TouchesFields DEF SamePull
<1>12. PhaseOK'
  BY <1>1, <1>3, <1>8, <1>11 DEF Basics, PhaseOK, SamePhase, SamePush, SamePatch
<1>13. TarOK'
  BY <1>3 DEF Basics, TarOK, SamePush, SamePatch
<1>14. QED
  BY <1>7, <1>10, <1>12, <1>13

\* What Unmarked makes of each part of the state
LEMMA UnmarkedFacts ==
  ASSUME Basics, NEW t \in Threads, Unmarked(t)
  PROVE  /\ doing[t].pc = "local" /\ doing[t].op = "write" /\ doing[t].p \in SyncPaths
         /\ local' \in Sides
         /\ \A p \in SyncPaths : p # doing[t].p => local'[p] = local[p] /\ truth'[p] = truth[p]
         /\ local'[doing[t].p].ver \in {0, nextVer} /\ truth'[doing[t].p] = local'[doing[t].p].ver
         /\ loose' = loose \cup {doing[t].p} /\ fresh' = fresh \ {doing[t].p}
         /\ truth' \in [SyncPaths -> Nat]
         /\ nextVer' = nextVer + 1
         /\ doing' = [doing EXCEPT ![t] = Idle]
         /\ Touches({doing[t].p})
         /\ remote' = remote /\ recorded' = recorded /\ changes' = changes /\ armed' = armed /\ clock' = clock
         /\ failed' = failed
<1> DEFINE c == doing[t]
<1>1. c.pc = "local" /\ c.op = "write"
  BY DEF Unmarked
<1>2. c \in CallRecords /\ c.op \in Kinds /\ c.p \in SyncPaths /\ c.q \in SyncPaths
  BY <1>1, ThreadFacts
<1>3. /\ LocalCan(c) /\ local' = LocalMade(c) /\ nextVer' = nextVer + 1
      /\ Changed({c.p}, local', {c.p})
      /\ Touches({c.p})
      /\ doing' = [doing EXCEPT ![t] = Idle]
      /\ remote' = remote /\ recorded' = recorded /\ changes' = changes /\ armed' = armed /\ clock' = clock
  BY DEF Unmarked, record
<1>4. PathsOf(c) = {c.p}
  BY <1>1 DEF PathsOf
<1>5. /\ local' \in Sides
      /\ \A p \in SyncPaths : p \notin PathsOf(c) => local'[p] = local[p]
      /\ \A p \in SyncPaths : p \in PathsOf(c) => local'[p].ver \in {0, nextVer}
  BY <1>1, <1>2, <1>3, MadeFacts DEF Basics
<1>6. /\ truth' = [p \in SyncPaths |-> IF p \in {c.p} THEN local'[p].ver ELSE truth[p]]
      /\ loose' = loose \cup {c.p}
      /\ fresh' = fresh \ {c.p} /\ failed' = failed
  BY <1>3 DEF Changed
<1> HIDE DEF c
<1>7. \A p \in SyncPaths : local'[p].ver \in Nat /\ truth[p] \in Nat
  BY <1>5, SideFacts DEF Basics, TypeOK
<1>8. truth' \in [SyncPaths -> Nat]
  BY <1>6, <1>7
<1>9. QED
  BY <1>1, <1>2, <1>3, <1>4, <1>5, <1>6, <1>8 DEF c

LEMMA UnmarkedBasics ==
  ASSUME Basics, NEW t \in Threads, Unmarked(t)
  PROVE  (TypeOK /\ CallsOK /\ PhaseOK /\ TarOK)'
<1> DEFINE p == doing[t].p
<1>1. /\ doing[t].pc = "local" /\ p \in SyncPaths /\ local' \in Sides
      /\ loose' = loose \cup {p} /\ fresh' = fresh \ {p}
      /\ truth' \in [SyncPaths -> Nat] /\ nextVer' = nextVer + 1
      /\ doing' = [doing EXCEPT ![t] = Idle] /\ Touches({p})
      /\ remote' = remote /\ recorded' = recorded /\ changes' = changes /\ armed' = armed /\ clock' = clock
      /\ failed' = failed
  BY UnmarkedFacts
<1>2. sync \in Syncs
  BY DEF Basics, TypeOK
<1>3. {p} \in PathSets
  BY <1>1 DEF PathSets
<1>4. sync' \in Syncs /\ SamePhase /\ SamePush /\ SamePull
  BY <1>1, <1>2, <1>3, TouchesFields
<1>5. CallOK(t, doing[t], sync, recorded)
  BY ThreadFacts
<1>6. sync.by # t
  BY <1>1, <1>5 DEF CallOK
<1>7. doing' \in [Threads -> CallRecords] /\ CallsOK'
  BY <1>1, <1>4, <1>6, IdleOK, IdleFacts, CallsStep DEF Basics
<1> HIDE DEF p
<1>8. nextVer' \in Nat /\ fresh' \in PathSets /\ loose' \in PathSets
  BY <1>1 DEF Basics, TypeOK, PathSets
<1>9. TypeOK'
  BY <1>1, <1>4, <1>7, <1>8 DEF Basics, TypeOK
<1>10. PhaseOK'
  BY <1>1, <1>4 DEF Basics, PhaseOK, SamePhase, SamePush, SamePatch, SamePull
<1>11. TarOK'
  BY <1>4 DEF Basics, TarOK, SamePush, SamePatch
<1>12. QED
  BY <1>7, <1>9, <1>10, <1>11

\* What Refused makes of each part of the state
LEMMA RefusedFacts ==
  ASSUME Basics, NEW t \in Threads, Refused(t)
  PROVE  /\ doing[t].pc = "local" /\ ~doing[t].waits
         /\ doing' = [doing EXCEPT ![t] = IF doing[t].op = "create" THEN [doing[t] EXCEPT !.pc = "record"] ELSE Idle]
         /\ local' = local /\ remote' = remote /\ recorded' = recorded /\ changes' = changes /\ armed' = armed
         /\ sync' = sync /\ failed' = failed /\ truth' = truth /\ loose' = loose /\ fresh' = fresh
         /\ clock' = clock /\ nextVer' = nextVer
BY DEF Refused, Passes, world, record, marks

LEMMA RefusedBasics ==
  ASSUME Basics, NEW t \in Threads, Refused(t)
  PROVE  (TypeOK /\ CallsOK /\ PhaseOK /\ TarOK)'
<1> DEFINE c == doing[t]
           r == [c EXCEPT !.pc = "record"]
           d == IF c.op = "create" THEN r ELSE Idle
<1>1. /\ c.pc = "local" /\ ~c.waits /\ doing' = [doing EXCEPT ![t] = d]
      /\ local' = local /\ remote' = remote /\ recorded' = recorded /\ changes' = changes /\ armed' = armed
      /\ sync' = sync /\ failed' = failed /\ truth' = truth /\ loose' = loose /\ fresh' = fresh
      /\ clock' = clock /\ nextVer' = nextVer
  BY RefusedFacts
<1>2. c \in CallRecords /\ CallOK(t, c, sync, recorded)
  BY ThreadFacts
<1>3. r \in CallRecords /\ r.pc = "record" /\ r.op = c.op /\ r.p = c.p /\ r.q = c.q
  BY <1>2, PcOnly
<1>4. sync.by # t
  BY <1>1, <1>2 DEF CallOK
<1>5. CallOK(t, Idle, sync, recorded)
  BY <1>4, IdleOK
<1>6. c.op = "create" => CallOK(t, r, sync, recorded)
  <2> HIDE DEF r
  <2>1. QED
    BY <1>1, <1>2, <1>3 DEF CallOK
<1>7. d \in CallRecords /\ CallOK(t, d, sync, recorded)
  BY <1>3, <1>5, <1>6, IdleFacts
<1> HIDE DEF d
<1>8. SamePhase
  BY <1>1 DEF SamePhase
<1>9. doing' \in [Threads -> CallRecords] /\ CallsOK'
  BY <1>1, <1>7, <1>8, CallsStep DEF Basics
<1>10. QED
  BY <1>1, <1>9 DEF Basics, TypeOK, PhaseOK, TarOK

\* Which path a Record records, and how
RecPath(c) == IF c.op = "rename" /\ c.pc = "record" THEN c.q ELSE c.p
RecEx(c) == IF c.op = "rename" /\ c.pc = "record" THEN TRUE ELSE c.op \notin {"remove", "rename"}
RecCall(c) == IF c.op = "rename" /\ c.pc = "record" THEN [c EXCEPT !.pc = "record2"] ELSE Idle

LEMMA RecordFacts ==
  ASSUME Basics, NEW t \in Threads, Record(t)
  PROVE  /\ doing[t].pc \in {"record", "record2"}
         /\ doing[t].p \in SyncPaths /\ doing[t].q \in SyncPaths
         /\ RecPath(doing[t]) \in SyncPaths /\ RecEx(doing[t]) \in BOOLEAN
         /\ {doing[t].p, doing[t].q} \in PathSets
         /\ changes' = Recorded(RecPath(doing[t]), RecEx(doing[t]))
         /\ armed' = (armed \/ ~TakesBack(RecPath(doing[t]), RecEx(doing[t])))
         /\ loose' = IF Misrecords(RecPath(doing[t]), RecEx(doing[t])) THEN loose \cup {RecPath(doing[t])} ELSE loose
         /\ failed' = (failed /\ TakesBack(RecPath(doing[t]), RecEx(doing[t])))
         /\ doing' = [doing EXCEPT ![t] = RecCall(doing[t])]
         /\ Touches({doing[t].p, doing[t].q})
         /\ recorded' = recorded /\ truth' = truth /\ fresh' = fresh
         /\ local' = local /\ remote' = remote /\ clock' = clock /\ nextVer' = nextVer
<1> DEFINE c == doing[t]
<1>1. c.pc \in {"record", "record2"}
  BY DEF Record
<1>2. c.p \in SyncPaths /\ c.q \in SyncPaths
  BY <1>1, ThreadFacts
<1>3. RecPath(c) \in SyncPaths /\ RecEx(c) \in BOOLEAN /\ {c.p, c.q} \in PathSets
  BY <1>2 DEF RecPath, RecEx, PathSets
<1>4. Records(RecPath(c), RecEx(c)) /\ doing' = [doing EXCEPT ![t] = RecCall(c)]
  BY DEF Record, RecPath, RecEx, RecCall
<1>5. /\ Touches({c.p, c.q})
      /\ local' = local /\ remote' = remote /\ clock' = clock /\ nextVer' = nextVer
  BY DEF Record, world, counts
<1>6. QED
  BY <1>1, <1>2, <1>3, <1>4, <1>5 DEF Records

LEMMA RecordBasics ==
  ASSUME Basics, NEW t \in Threads, Record(t)
  PROVE  (TypeOK /\ CallsOK /\ PhaseOK /\ TarOK)'
<1> DEFINE c == doing[t]
           d == RecCall(c)
<1>1. /\ c.pc \in {"record", "record2"} /\ c.p \in SyncPaths /\ c.q \in SyncPaths
      /\ RecPath(c) \in SyncPaths /\ RecEx(c) \in BOOLEAN /\ {c.p, c.q} \in PathSets
      /\ changes' = Recorded(RecPath(c), RecEx(c))
      /\ armed' = (armed \/ ~TakesBack(RecPath(c), RecEx(c)))
      /\ loose' = IF Misrecords(RecPath(c), RecEx(c)) THEN loose \cup {RecPath(c)} ELSE loose
      /\ failed' = (failed /\ TakesBack(RecPath(c), RecEx(c)))
      /\ doing' = [doing EXCEPT ![t] = d]
      /\ Touches({c.p, c.q})
      /\ recorded' = recorded /\ truth' = truth /\ fresh' = fresh
      /\ local' = local /\ remote' = remote /\ clock' = clock /\ nextVer' = nextVer
  BY RecordFacts
<1>2. sync \in Syncs
  BY DEF Basics, TypeOK
<1>3. sync' \in Syncs /\ SamePhase /\ SamePush /\ sync'.stamp = sync.stamp
  BY <1>1, <1>2, TouchesFields DEF SamePull
<1>4. c \in CallRecords /\ CallOK(t, c, sync, recorded)
  BY ThreadFacts
<1>5. ASSUME c.op = "rename" /\ c.pc = "record"
      PROVE  d \in CallRecords /\ CallOK(t, d, sync, recorded)
  <2> DEFINE r == [c EXCEPT !.pc = "record2"]
  <2>0. r \in CallRecords /\ r.pc = "record2" /\ r.op = c.op /\ r.p = c.p /\ r.q = c.q
    BY <1>4, PcOnly
  <2>1. d = r
    BY <1>5 DEF RecCall
  <2> HIDE DEF d, r
  <2>2. d \in CallRecords /\ d.pc = "record2" /\ d.op = c.op /\ d.p = c.p /\ d.q = c.q
    BY <2>0, <2>1
  <2>3. CallOK(t, d, sync, recorded)
    BY <1>4, <1>5, <2>2 DEF CallOK
  <2>4. QED
    BY <2>2, <2>3
<1>6. ASSUME ~(c.op = "rename" /\ c.pc = "record")
      PROVE  d \in CallRecords /\ CallOK(t, d, sync, recorded)
  <2>1. d = Idle
    BY <1>6 DEF RecCall
  <2>2. sync.by # t
    BY <1>1, <1>4 DEF CallOK
  <2>3. QED
    BY <2>1, <2>2, IdleOK, IdleFacts
<1>7. d \in CallRecords /\ CallOK(t, d, sync, recorded)
  BY <1>5, <1>6
<1> HIDE DEF d
<1>8. doing' \in [Threads -> CallRecords] /\ CallsOK'
  BY <1>1, <1>3, <1>7, CallsStep DEF Basics
<1>9. recorded
  BY <1>1, <1>4 DEF CallOK
<1>10. DOMAIN changes' \subseteq SyncPaths /\ changes' \in [DOMAIN changes' -> BOOLEAN]
  BY <1>1, RecordedFacts DEF Basics
<1> HIDE DEF c
<1>11. armed' \in BOOLEAN /\ failed' \in BOOLEAN
  BY <1>1 DEF Basics, TypeOK, TakesBack
<1>12. loose' \in PathSets
  BY <1>1 DEF Basics, TypeOK, PathSets
<1>13. TypeOK'
  BY <1>1, <1>3, <1>8, <1>10, <1>11, <1>12 DEF Basics, TypeOK
<1>14. PhaseOK'
  BY <1>1, <1>3, <1>9 DEF Basics, PhaseOK, SamePhase, SamePush, SamePatch
<1>15. TarOK'
  BY <1>3 DEF Basics, TarOK, SamePush, SamePatch
<1>16. QED
  BY <1>8, <1>13, <1>14, <1>15

LEMMA RenameDirBasics ==
  ASSUME Basics, NEW t \in Threads, RenameDir(t)
  PROVE  (TypeOK /\ CallsOK /\ PhaseOK /\ TarOK)'
<1> DEFINE c == doing[t]
           s == [c EXCEPT !.pc = "sync"]
           d == IF local[c.p].dir /\ ~There(local[c.q]) THEN s ELSE Idle
<1>1. /\ c.pc = "local" /\ c.op = "renamedir" /\ ~c.waits /\ doing' = [doing EXCEPT ![t] = d]
      /\ local' = local /\ remote' = remote /\ recorded' = recorded /\ changes' = changes /\ armed' = armed
      /\ sync' = sync /\ failed' = failed /\ truth' = truth /\ loose' = loose /\ fresh' = fresh
      /\ clock' = clock /\ nextVer' = nextVer
  BY DEF RenameDir, Passes, world, record, marks, counts
<1>2. c \in CallRecords /\ CallOK(t, c, sync, recorded)
  BY ThreadFacts
<1>3. s \in CallRecords /\ s.pc = "sync" /\ s.op = c.op /\ s.p = c.p /\ s.q = c.q
  BY <1>2, PcOnly
<1>4. sync.by # t
  BY <1>1, <1>2 DEF CallOK
<1>5. CallOK(t, Idle, sync, recorded)
  BY <1>4, IdleOK
<1>6. CallOK(t, s, sync, recorded)
  <2> HIDE DEF s
  <2>1. QED
    BY <1>1, <1>2, <1>3 DEF CallOK
<1>7. d \in CallRecords /\ CallOK(t, d, sync, recorded)
  BY <1>3, <1>5, <1>6, IdleFacts
<1> HIDE DEF d
<1>8. SamePhase
  BY <1>1 DEF SamePhase
<1>9. doing' \in [Threads -> CallRecords] /\ CallsOK'
  BY <1>1, <1>7, <1>8, CallsStep DEF Basics
<1>10. QED
  BY <1>1, <1>9 DEF Basics, TypeOK, PhaseOK, TarOK

\* Of a step of a Rename, the parts that both halves have in common
LEMMA RenameCall ==
  ASSUME Basics, NEW t \in Threads, NEW s \in {"rename", "sync2"}, NEW ok \in BOOLEAN,
         doing[t].pc \in {"remote", "rename"}, SamePhase, recorded' = recorded,
         doing' = [doing EXCEPT ![t] = IF ok THEN [doing[t] EXCEPT !.pc = s] ELSE Idle]
  PROVE  /\ doing' \in [Threads -> CallRecords] /\ CallsOK'
         /\ recorded /\ ~(sync.on /\ sync.scan)
<1> DEFINE c == doing[t]
           r == [c EXCEPT !.pc = s]
           d == IF ok THEN r ELSE Idle
<1>1. c \in CallRecords /\ CallOK(t, c, sync, recorded)
  BY ThreadFacts
<1>2. r \in CallRecords /\ r.pc = s /\ r.op = c.op /\ r.p = c.p /\ r.q = c.q
  <2> HIDE DEF c
  <2>1. QED
    BY <1>1 DEF CallRecords
<1>3. sync.by # t /\ c.op # "write" /\ recorded /\ ~(sync.on /\ sync.scan)
  BY <1>1 DEF CallOK
<1>4. CallOK(t, Idle, sync, recorded)
  BY <1>3, IdleOK
<1>5. CallOK(t, r, sync, recorded)
  <2> HIDE DEF r
  <2>1. QED
    BY <1>1, <1>2, <1>3 DEF CallOK
<1>6. d \in CallRecords /\ CallOK(t, d, sync, recorded)
  BY <1>2, <1>4, <1>5, IdleFacts
<1>7. doing' = [doing EXCEPT ![t] = d]
  OBVIOUS
<1> HIDE DEF d
<1>8. doing' \in [Threads -> CallRecords] /\ CallsOK'
  BY <1>6, <1>7, CallsStep DEF Basics
<1>9. QED
  BY <1>3, <1>8

LEMMA RenameRemoteFacts ==
  ASSUME Basics, NEW t \in Threads, RenameRemote(t)
  PROVE  LET c == doing[t]
             ps == {c.p, c.q}
             ok == remote[c.p].dir /\ ~There(remote[c.q])
         IN  /\ c.pc = "remote" /\ c.p \in SyncPaths /\ c.q \in SyncPaths /\ ps \in PathSets
             /\ doing' = [doing EXCEPT ![t] = IF ok THEN [doing[t] EXCEPT !.pc = "rename"] ELSE Idle]
             /\ local' = local /\ recorded' = recorded /\ changes' = changes /\ armed' = armed
             /\ clock' = clock /\ nextVer' = nextVer /\ failed' = failed
             /\ ok => /\ c.p # c.q /\ remote' = Moved(remote, c)
                      /\ truth' = [p \in SyncPaths |-> IF p \in ps THEN remote'[p].ver ELSE truth[p]]
                      /\ loose' = loose \cup {p \in ps : Overlaps(p)}
                      /\ fresh' = fresh \ ps /\ Touches(ps)
             /\ ~ok => /\ remote' = remote /\ truth' = truth /\ loose' = loose /\ fresh' = fresh
                       /\ sync' = sync
<1> DEFINE c == doing[t]
           ps == {c.p, c.q}
           ok == remote[c.p].dir /\ ~There(remote[c.q])
<1>1. c.pc = "remote"
  BY DEF RenameRemote
<1>2. c.p \in SyncPaths /\ c.q \in SyncPaths
  BY <1>1, ThreadFacts
<1>3. ps \in PathSets
  BY <1>2 DEF PathSets
<1>4. ok => c.p # c.q
  <2>1. remote[c.p].ver = 0 => ~remote[c.p].dir
    BY <1>2, SideFacts DEF Basics, TypeOK
  <2>2. QED
    BY <2>1 DEF There
<1>5. QED
  BY <1>1, <1>2, <1>3, <1>4 DEF RenameRemote, Changed, marks, record, counts

LEMMA RenameRemoteBasics ==
  ASSUME Basics, NEW t \in Threads, RenameRemote(t)
  PROVE  (TypeOK /\ CallsOK /\ PhaseOK /\ TarOK)' /\ recorded /\ ~(sync.on /\ sync.scan)
<1> DEFINE c == doing[t]
           ps == {c.p, c.q}
           ok == remote[c.p].dir /\ ~There(remote[c.q])
<1>1. /\ c.pc = "remote" /\ c.p \in SyncPaths /\ c.q \in SyncPaths /\ ps \in PathSets
      /\ doing' = [doing EXCEPT ![t] = IF ok THEN [doing[t] EXCEPT !.pc = "rename"] ELSE Idle]
      /\ local' = local /\ recorded' = recorded /\ changes' = changes /\ armed' = armed
      /\ clock' = clock /\ nextVer' = nextVer /\ failed' = failed
      /\ ok => /\ c.p # c.q /\ remote' = Moved(remote, c)
               /\ truth' = [p \in SyncPaths |-> IF p \in ps THEN remote'[p].ver ELSE truth[p]]
               /\ loose' = loose \cup {p \in ps : Overlaps(p)}
               /\ fresh' = fresh \ ps /\ Touches(ps)
      /\ ~ok => /\ remote' = remote /\ truth' = truth /\ loose' = loose /\ fresh' = fresh
                /\ sync' = sync
  BY RenameRemoteFacts
<1> HIDE DEF ok
<1>2. sync \in Syncs /\ remote \in Sides /\ truth \in [SyncPaths -> Nat] /\ loose \in PathSets /\ fresh \in PathSets
  BY DEF Basics, TypeOK
<1>3. sync' \in Syncs /\ SamePhase /\ SamePush /\ sync'.stamp = sync.stamp
  <2>1. CASE ok
    <3>1. Touches(ps) /\ ps \in PathSets
      BY <1>1, <2>1
    <3> HIDE DEF ps
    <3>2. QED
      BY <1>2, <3>1, TouchesFields DEF SamePull
  <2>2. CASE ~ok
    BY <1>1, <1>2, <2>2 DEF SamePhase, SamePush, SamePatch
  <2>3. QED
    BY <2>1, <2>2
<1>4. remote' \in Sides
  <2>1. CASE ok
    BY <1>1, <1>2, <2>1, MovedFacts
  <2>2. QED
    BY <1>1, <1>2, <2>1
<1>5. truth' \in [SyncPaths -> Nat] /\ loose' \in PathSets /\ fresh' \in PathSets
  <2>1. CASE ok
    <3>1. \A p \in SyncPaths : remote'[p].ver \in Nat /\ truth[p] \in Nat
      BY <1>2, <1>4, SideFacts
    <3>2. /\ truth' = [p \in SyncPaths |-> IF p \in ps THEN remote'[p].ver ELSE truth[p]]
          /\ loose' = loose \cup {p \in ps : Overlaps(p)} /\ fresh' = fresh \ ps /\ ps \in PathSets
      BY <1>1, <2>1
    <3> HIDE DEF ps
    <3>3. truth' \in [SyncPaths -> Nat]
      BY <3>1, <3>2
    <3>4. QED
      BY <1>2, <3>2, <3>3 DEF PathSets
  <2>2. CASE ~ok
    BY <1>1, <1>2, <2>2
  <2>3. QED
    BY <2>1, <2>2
<1>6. ok \in BOOLEAN
  BY <1>1, <1>2, SideFacts DEF ok
<1>7. doing' \in [Threads -> CallRecords] /\ CallsOK' /\ recorded /\ ~(sync.on /\ sync.scan)
  BY <1>1, <1>3, <1>6, RenameCall
<1>8. TypeOK'
  <2> HIDE DEF ps, c
  <2>1. QED
    BY <1>1, <1>3, <1>4, <1>5, <1>7 DEF Basics, TypeOK
<1>9. PhaseOK'
  <2> HIDE DEF ps, c
  <2>1. QED
    BY <1>1, <1>3, <1>7 DEF Basics, PhaseOK, SamePhase, SamePush, SamePatch
<1>10. TarOK'
  BY <1>3 DEF Basics, TarOK, SamePush, SamePatch
<1>11. QED
  BY <1>7, <1>8, <1>9, <1>10

LEMMA RenameLocalFacts ==
  ASSUME Basics, NEW t \in Threads, RenameLocal(t)
  PROVE  LET c == doing[t]
             ps == {c.p, c.q}
             ok == local[c.p].dir /\ ~There(local[c.q])
         IN  /\ c.pc = "rename" /\ c.p \in SyncPaths /\ c.q \in SyncPaths /\ ps \in PathSets
             /\ doing' = [doing EXCEPT ![t] = IF ok THEN [doing[t] EXCEPT !.pc = "sync2"] ELSE Idle]
             /\ remote' = remote /\ recorded' = recorded /\ changes' = changes /\ armed' = armed
             /\ clock' = clock /\ nextVer' = nextVer /\ failed' = failed /\ truth' = truth
             /\ Touches(ps)
             /\ fresh' = fresh \ ps
             /\ loose' = loose \cup {p \in ps : Overlaps(p) \/ truth[p] # local'[p].ver}
             /\ ok => c.p # c.q /\ local' = Moved(local, c)
             /\ ~ok => local' = local
<1> DEFINE c == doing[t]
           ps == {c.p, c.q}
           ok == local[c.p].dir /\ ~There(local[c.q])
<1>1. c.pc = "rename"
  BY DEF RenameLocal
<1>2. c.p \in SyncPaths /\ c.q \in SyncPaths
  BY <1>1, ThreadFacts
<1>3. ps \in PathSets
  BY <1>2 DEF PathSets
<1>4. ok => c.p # c.q
  <2>1. local[c.p].ver = 0 => ~local[c.p].dir
    BY <1>2, SideFacts DEF Basics, TypeOK
  <2>2. QED
    BY <2>1 DEF There
<1>5. QED
  BY <1>1, <1>2, <1>3, <1>4 DEF RenameLocal, record, counts

LEMMA RenameLocalBasics ==
  ASSUME Basics, NEW t \in Threads, RenameLocal(t)
  PROVE  (TypeOK /\ CallsOK /\ PhaseOK /\ TarOK)' /\ recorded /\ ~(sync.on /\ sync.scan)
<1> DEFINE c == doing[t]
           ps == {c.p, c.q}
           ok == local[c.p].dir /\ ~There(local[c.q])
<1>1. /\ c.pc = "rename" /\ c.p \in SyncPaths /\ c.q \in SyncPaths /\ ps \in PathSets
      /\ doing' = [doing EXCEPT ![t] = IF ok THEN [doing[t] EXCEPT !.pc = "sync2"] ELSE Idle]
      /\ remote' = remote /\ recorded' = recorded /\ changes' = changes /\ armed' = armed
      /\ clock' = clock /\ nextVer' = nextVer /\ failed' = failed /\ truth' = truth
      /\ Touches(ps)
      /\ fresh' = fresh \ ps
      /\ loose' = loose \cup {p \in ps : Overlaps(p) \/ truth[p] # local'[p].ver}
      /\ ok => c.p # c.q /\ local' = Moved(local, c)
      /\ ~ok => local' = local
  BY RenameLocalFacts
<1> HIDE DEF ok
<1>2. sync \in Syncs /\ local \in Sides /\ loose \in PathSets /\ fresh \in PathSets
  BY DEF Basics, TypeOK
<1>3. sync' \in Syncs /\ SamePhase /\ SamePush /\ sync'.stamp = sync.stamp
  <2> HIDE DEF ps
  <2>1. QED
    BY <1>1, <1>2, TouchesFields DEF SamePull
<1>4. local' \in Sides
  <2>1. CASE ok
    BY <1>1, <1>2, <2>1, MovedFacts
  <2>2. QED
    BY <1>1, <1>2, <2>1
<1>5. loose' \in PathSets /\ fresh' \in PathSets
  <2> HIDE DEF ps
  <2>1. QED
    BY <1>1, <1>2 DEF PathSets
<1>6. ok \in BOOLEAN
  BY <1>1, <1>2, SideFacts DEF ok
<1>7. doing' \in [Threads -> CallRecords] /\ CallsOK' /\ recorded /\ ~(sync.on /\ sync.scan)
  BY <1>1, <1>3, <1>6, RenameCall
<1>8. TypeOK'
  <2> HIDE DEF ps, c
  <2>1. QED
    BY <1>1, <1>3, <1>4, <1>5, <1>7 DEF Basics, TypeOK
<1>9. PhaseOK'
  <2> HIDE DEF ps, c
  <2>1. QED
    BY <1>1, <1>3, <1>7 DEF Basics, PhaseOK, SamePhase, SamePush, SamePatch
<1>10. TarOK'
  BY <1>3 DEF Basics, TarOK, SamePush, SamePatch
<1>11. QED
  BY <1>7, <1>8, <1>9, <1>10

LEMMA RemoteWriteFacts ==
  ASSUME Basics, NEW p \in SyncPaths, NEW now \in {clock, clock + 2}, RemoteWrite(p, now)
  PROVE  /\ ~remote[p].dir /\ now \in Nat
         /\ {p} \in PathSets
         /\ remote' \in Sides
         /\ \A x \in SyncPaths : x # p => remote'[x] = remote[x] /\ truth'[x] = truth[x]
         /\ remote'[p].ver = nextVer /\ remote'[p].dir = FALSE /\ remote'[p].time = now /\ truth'[p] = nextVer
         /\ truth' \in [SyncPaths -> Nat]
         /\ clock' = now /\ nextVer' = nextVer + 1
         /\ loose' = loose \cup (IF Overlaps(p) \/ (There(local[p]) /\ now - local[p].time < 2) THEN {p} ELSE {})
         /\ fresh' = fresh \ {p}
         /\ Touches({p})
         /\ local' = local /\ recorded' = recorded /\ changes' = changes /\ armed' = armed /\ doing' = doing
         /\ failed' = failed
<1> DEFINE e == Entry(nextVer, FALSE, now)
<1>1. clock \in Nat /\ nextVer \in Nat /\ nextVer # 0 /\ remote \in Sides /\ truth \in [SyncPaths -> Nat]
  BY DEF Basics, TypeOK
<1>2. now \in Nat
  BY <1>1
<1>3. e \in Entries /\ e.ver = nextVer /\ e.dir = FALSE /\ e.time = now
  BY <1>1, <1>2 DEF Entries, Entry
<1>4. remote' = [remote EXCEPT ![p] = e]
  BY DEF RemoteWrite
<1> HIDE DEF e
<1>5. remote' \in Sides /\ remote'[p] = e /\ \A x \in SyncPaths : x # p => remote'[x] = remote[x]
  BY <1>1, <1>3, <1>4 DEF Sides
<1>6. truth' = [x \in SyncPaths |-> IF x \in {p} THEN remote'[x].ver ELSE truth[x]]
  BY DEF RemoteWrite, Changed
<1>7. \A x \in SyncPaths : remote'[x].ver \in Nat /\ truth[x] \in Nat
  BY <1>1, <1>5, SideFacts
<1>8. truth' \in [SyncPaths -> Nat] /\ truth'[p] = nextVer /\ \A x \in SyncPaths : x # p => truth'[x] = truth[x]
  BY <1>3, <1>5, <1>6, <1>7
<1>9. QED
  BY <1>2, <1>3, <1>5, <1>8 DEF RemoteWrite, Changed, record, PathSets

\* A step that makes no call go on
LEMMA CallsKept ==
  ASSUME CallsOK, doing' = doing, recorded' = recorded, sync'.on = sync.on, sync'.by = sync.by, sync'.scan = sync.scan
  PROVE  CallsOK'
<1>1. ASSUME NEW u \in Threads
      PROVE  CallOK(u, doing'[u], sync', recorded')
  <2>1. CallOK(u, doing[u], sync, recorded)
    BY DEF CallsOK
  <2>2. QED
    BY <2>1 DEF CallOK
<1>2. QED
  BY <1>1 DEF CallsOK

LEMMA RemoteWriteBasics ==
  ASSUME Basics, NEW p \in SyncPaths, NEW now \in {clock, clock + 2}, RemoteWrite(p, now)
  PROVE  (TypeOK /\ CallsOK /\ PhaseOK /\ TarOK)'
<1>1. /\ now \in Nat /\ {p} \in PathSets /\ remote' \in Sides /\ truth' \in [SyncPaths -> Nat]
      /\ clock' = now /\ nextVer' = nextVer + 1
      /\ loose' = loose \cup (IF Overlaps(p) \/ (There(local[p]) /\ now - local[p].time < 2) THEN {p} ELSE {})
      /\ fresh' = fresh \ {p}
      /\ Touches({p})
      /\ local' = local /\ recorded' = recorded /\ changes' = changes /\ armed' = armed /\ doing' = doing
      /\ failed' = failed
  BY RemoteWriteFacts
<1>2. sync \in Syncs
  BY DEF Basics, TypeOK
<1>3. sync' \in Syncs /\ SamePhase /\ SamePush /\ sync'.stamp = sync.stamp
  BY <1>1, <1>2, TouchesFields DEF SamePull
<1>4. CallsOK'
  BY <1>1, <1>3, CallsKept DEF Basics, SamePhase
<1>5. loose' \in PathSets /\ fresh' \in PathSets /\ nextVer' \in Nat
  BY <1>1 DEF Basics, TypeOK, PathSets
<1>6. TypeOK'
  BY <1>1, <1>3, <1>5 DEF Basics, TypeOK
<1>7. PhaseOK'
  BY <1>1, <1>3 DEF Basics, PhaseOK, SamePhase, SamePush, SamePatch
<1>8. TarOK'
  BY <1>3 DEF Basics, TarOK, SamePush, SamePatch
<1>9. QED
  BY <1>4, <1>6, <1>7, <1>8

\* A step of the Sync that leaves both sides, what is recorded but for changes, and the calls
SyncFrame ==
  /\ remote' = remote /\ recorded' = recorded /\ armed' = armed /\ doing' = doing /\ clock' = clock
  /\ nextVer' = nextVer /\ failed' = failed /\ truth' = truth /\ fresh' = fresh

LEMMA SyncBasics ==
  ASSUME Basics, SyncFrame, local' \in Sides, loose' \in PathSets,
         DOMAIN changes' \subseteq SyncPaths, changes' \in [DOMAIN changes' -> BOOLEAN],
         sync' \in Syncs, sync'.on = sync.on, sync'.by = sync.by, sync'.scan = sync.scan
  PROVE  TypeOK' /\ CallsOK'
<1>1. CallsOK'
  BY CallsKept DEF Basics, SyncFrame
<1>2. TypeOK'
  BY DEF Basics, TypeOK, SyncFrame
<1>3. QED
  BY <1>1, <1>2

\* In a scan, and in the rest of a Sync, that a step leaves
LEMMA PhaseKept ==
  ASSUME Basics, SyncFrame, sync.on, sync'.on = sync.on, sync'.by = sync.by,
         sync'.pc \in {"scan", "sync"}, sync'.push # "no" => sync'.pc = "sync",
         sync'.pc = "scan" => sync'.tar = {} /\ sync'.visited = {} /\ sync'.stamp = {}
  PROVE  PhaseOK'
BY DEF Basics, PhaseOK, SyncFrame

LEMMA OnlyFacts ==
  ASSUME TypeOK, SyncOnly
  PROVE  /\ SyncFrame /\ local' = local /\ changes' = changes /\ loose' = loose
         /\ local' \in Sides /\ loose' \in PathSets
         /\ DOMAIN changes' \subseteq SyncPaths /\ changes' \in [DOMAIN changes' -> BOOLEAN]
BY DEF TypeOK, SyncOnly, SyncFrame, counts, marks

LEMMA OnFacts ==
  ASSUME Basics
  PROVE  /\ sync \in Syncs
         /\ sync.pc \in {"scan", "sync"} => sync.on
         /\ sync.push # "no" => sync.pc = "sync" /\ sync.on
         /\ sync.on => recorded
         /\ sync.pc = "scan" => sync.tar = {} /\ sync.visited = {} /\ sync.stamp = {} /\ sync.push = "no"
BY DEF Basics, TypeOK, PhaseOK, Syncs

LEMMA PullScanBasics ==
  ASSUME Basics, NEW p \in SyncPaths, PullScan(p)
  PROVE  (TypeOK /\ CallsOK /\ PhaseOK /\ TarOK)'
<1>1. sync.pc = "scan" /\ SyncOnly
  BY DEF PullScan
<1>2. sync \in Syncs /\ sync.on /\ sync.tar = {} /\ sync.visited = {} /\ sync.stamp = {} /\ sync.push = "no"
  BY <1>1, OnFacts
<1>3. sync' \in Syncs /\ SamePhase /\ SamePush /\ sync'.stamp = sync.stamp
  BY <1>2, PullScanFields
<1>4. TypeOK' /\ CallsOK'
  BY <1>1, <1>3, OnlyFacts, SyncBasics DEF Basics, SamePhase
<1>5. PhaseOK'
  BY <1>1, <1>2, <1>3, OnlyFacts, PhaseKept DEF Basics, SamePhase, SamePush, SamePatch
<1>6. TarOK'
  BY <1>3 DEF Basics, TarOK, SamePush, SamePatch
<1>7. QED
  BY <1>4, <1>5, <1>6

LEMMA PushScanFacts ==
  ASSUME Basics, NEW p \in SyncPaths, PushScan(p)
  PROVE  LET new == There(local[p]) /\ (~There(sync.index[p]) \/ sync.index[p].time < local[p].time)
         IN  /\ sync.pc = "scan" /\ sync.scan
             /\ SyncFrame /\ local' = local /\ loose' = loose
             /\ DOMAIN changes' \subseteq SyncPaths /\ changes' \in [DOMAIN changes' -> BOOLEAN]
             /\ \A x : x # p => (Ch(x)' <=> Ch(x)) /\ (Ch(x) => changes'[x] = changes[x])
             /\ new => Ch(p)' /\ changes'[p] = TRUE
             /\ ~new => changes' = changes
<1> DEFINE new == There(local[p]) /\ (~There(sync.index[p]) \/ sync.index[p].time < local[p].time)
<1>1. DOMAIN changes \subseteq SyncPaths /\ changes \in [DOMAIN changes -> BOOLEAN]
  BY DEF Basics, TypeOK
<1>2. changes' = IF new THEN [x \in DOMAIN changes \cup {p} |-> IF x = p THEN TRUE ELSE changes[x]] ELSE changes
  BY DEF PushScan, IsNews
<1>3. sync.pc = "scan" /\ sync.scan /\ SyncFrame /\ local' = local /\ loose' = loose
  BY DEF PushScan, SyncFrame, world, counts, marks
<1> HIDE DEF new
<1>4. /\ DOMAIN changes' \subseteq SyncPaths /\ changes' \in [DOMAIN changes' -> BOOLEAN]
      /\ \A x : x # p => (Ch(x)' <=> Ch(x)) /\ (Ch(x) => changes'[x] = changes[x])
      /\ new => Ch(p)' /\ changes'[p] = TRUE
  <2>1. CASE new
    <3>1. changes' = [x \in DOMAIN changes \cup {p} |-> IF x = p THEN TRUE ELSE changes[x]]
      BY <1>2, <2>1
    <3>2. DOMAIN changes' = DOMAIN changes \cup {p}
      BY <3>1
    <3>3. \A x \in DOMAIN changes' : changes'[x] = IF x = p THEN TRUE ELSE changes[x]
      BY <3>1, <3>2
    <3>4. changes' \in [DOMAIN changes' -> BOOLEAN]
      BY <1>1, <3>1, <3>2
    <3>5. QED
      BY <1>1, <2>1, <3>2, <3>3, <3>4 DEF Ch
  <2>2. CASE ~new
    <3>1. changes' = changes
      BY <1>2, <2>2
    <3>2. QED
      BY <1>1, <2>2, <3>1 DEF Ch
  <2>3. QED
    BY <2>1, <2>2
<1>5. QED
  BY <1>2, <1>3, <1>4 DEF new

LEMMA PushScanBasics ==
  ASSUME Basics, NEW p \in SyncPaths, PushScan(p)
  PROVE  (TypeOK /\ CallsOK /\ PhaseOK /\ TarOK)'
<1>1. /\ sync.pc = "scan" /\ SyncFrame /\ local' = local /\ loose' = loose
      /\ DOMAIN changes' \subseteq SyncPaths /\ changes' \in [DOMAIN changes' -> BOOLEAN]
  BY PushScanFacts
<1>2. sync \in Syncs /\ sync.on /\ sync.tar = {} /\ sync.visited = {} /\ sync.stamp = {} /\ sync.push = "no"
  BY <1>1, OnFacts
<1>3. sync' \in Syncs /\ SamePhase /\ SamePush /\ sync'.stamp = sync.stamp
  BY <1>2, PushScanFields DEF SamePull
<1>4. local' \in Sides /\ loose' \in PathSets
  BY <1>1 DEF Basics, TypeOK
<1>5. TypeOK' /\ CallsOK'
  BY <1>1, <1>3, <1>4, SyncBasics DEF SamePhase
<1>6. PhaseOK'
  BY <1>1, <1>2, <1>3, PhaseKept DEF SamePhase, SamePush, SamePatch
<1>7. TarOK'
  BY <1>3 DEF Basics, TarOK, SamePush, SamePatch
<1>8. QED
  BY <1>5, <1>6, <1>7

LEMMA ScannedBasics ==
  ASSUME Basics, Scanned
  PROVE  (TypeOK /\ CallsOK /\ PhaseOK /\ TarOK)'
<1>1. sync.pc = "scan" /\ SyncOnly
  BY DEF Scanned
<1>2. sync.on
  BY <1>1, OnFacts
<1>3. /\ sync' \in Syncs /\ sync'.on = sync.on /\ sync'.by = sync.by /\ sync'.scan = sync.scan
      /\ sync'.pc = "sync" /\ sync'.tar = sync.tar /\ sync'.visited = sync.visited
  BY ScannedFields DEF Basics
<1>4. TypeOK' /\ CallsOK'
  BY <1>1, <1>3, OnlyFacts, SyncBasics DEF Basics
<1>5. PhaseOK'
  BY <1>1, <1>2, <1>3, OnlyFacts, PhaseKept DEF Basics
<1>6. TarOK'
  BY <1>3 DEF Basics, TarOK
<1>7. QED
  BY <1>4, <1>5, <1>6

LEMMA TarFacts ==
  ASSUME Basics, NEW p \in SyncPaths, Tar(p)
  PROVE  /\ sync.push = "tar" /\ p \in DOMAIN changes /\ p \notin sync.visited /\ SyncOnly
         /\ changes[p] /\ ~There(local[p]) => sync' = [sync EXCEPT !.push = "failed"]
         /\ ~(changes[p] /\ ~There(local[p])) =>
              \E e \in Entries : /\ e = IF changes[p] THEN local[p] ELSE Absent
                                 /\ sync' = [sync EXCEPT !.visited = @ \cup {p}, !.tar = @ \cup {<<p, e>>}]
<1> DEFINE e == IF changes[p] THEN local[p] ELSE Absent
<1>1. local[p] \in Entries
  BY SideFacts DEF Basics, TypeOK
<1>2. e \in Entries
  BY <1>1, AbsentFacts
<1>3. /\ changes[p] /\ ~There(local[p]) => sync' = [sync EXCEPT !.push = "failed"]
      /\ ~(changes[p] /\ ~There(local[p])) => sync' = [sync EXCEPT !.visited = @ \cup {p}, !.tar = @ \cup {<<p, e>>}]
  BY DEF Tar
<1>4. sync.push = "tar" /\ p \in DOMAIN changes /\ p \notin sync.visited /\ SyncOnly
  BY DEF Tar
<1> HIDE DEF e
<1>5. ~(changes[p] /\ ~There(local[p])) =>
         \E x \in Entries : /\ x = e
                            /\ sync' = [sync EXCEPT !.visited = @ \cup {p}, !.tar = @ \cup {<<p, x>>}]
  BY <1>2, <1>3
<1>6. QED
  BY <1>3, <1>4, <1>5 DEF e

LEMMA TarBasics ==
  ASSUME Basics, NEW p \in SyncPaths, Tar(p)
  PROVE  (TypeOK /\ CallsOK /\ PhaseOK /\ TarOK)'
<1>1. sync.push = "tar" /\ p \notin sync.visited /\ SyncOnly
  BY TarFacts
<1>2. sync \in Syncs /\ sync.on /\ sync.pc = "sync"
  BY <1>1, OnFacts
<1>3. CASE changes[p] /\ ~There(local[p])
  <2>1. sync' = [sync EXCEPT !.push = "failed"]
    BY <1>3, TarFacts
  <2>2. sync' \in Syncs /\ SamePhase /\ SamePatch /\ sync'.stamp = sync.stamp
    BY <1>2, <2>1, PushFields DEF SamePull
  <2>3. TypeOK' /\ CallsOK'
    BY <1>1, <2>2, OnlyFacts, SyncBasics DEF Basics, SamePhase
  <2>4. PhaseOK'
    BY <1>1, <1>2, <2>2, OnlyFacts, PhaseKept DEF Basics, SamePhase
  <2>5. TarOK'
    BY <2>2 DEF Basics, TarOK, SamePatch
  <2>6. QED
    BY <2>3, <2>4, <2>5
<1>4. CASE ~(changes[p] /\ ~There(local[p]))
  <2>1. PICK e \in Entries : sync' = [sync EXCEPT !.visited = @ \cup {p}, !.tar = @ \cup {<<p, e>>}]
    BY <1>4, TarFacts
  <2>2. sync' \in Syncs /\ SamePhase /\ sync'.visited = sync.visited \cup {p} /\ sync'.tar = sync.tar \cup {<<p, e>>}
    BY <2>1, TarFields DEF Basics
  <2>3. TypeOK' /\ CallsOK'
    BY <1>1, <2>2, OnlyFacts, SyncBasics DEF Basics, SamePhase
  <2>4. PhaseOK'
    BY <1>1, <1>2, <2>2, OnlyFacts, PhaseKept DEF Basics, SamePhase
  <2>5. TarOK'
    <3>1. TarOK
      BY DEF Basics
    <3>2. \A x \in sync'.tar : x[1] \in sync'.visited
      BY <2>2, <3>1 DEF TarOK
    <3>3. \A x, y \in sync'.tar : x[1] = y[1] => x = y
      BY <1>1, <2>2, <3>1 DEF TarOK
    <3>4. \A z \in sync'.visited : \E x \in sync'.tar : x[1] = z
      <4> DEFINE y == <<p, e>>
      <4>1. y \in sync'.tar /\ y[1] = p /\ sync.tar \subseteq sync'.tar
        BY <2>2
      <4>2. \A z \in sync.visited : \E x \in sync.tar : x[1] = z
        BY <3>1 DEF TarOK
      <4>3. \A z \in sync'.visited : z = p \/ z \in sync.visited
        BY <2>2
      <4> HIDE DEF y
      <4>4. QED
        BY <4>1, <4>2, <4>3
    <3>5. QED
      BY <3>2, <3>3, <3>4 DEF TarOK
  <2>6. QED
    BY <2>3, <2>4, <2>5
<1>5. QED
  BY <1>3, <1>4

\* The steps of the push that leave the record
LEMMA PushStepBasics ==
  ASSUME Basics, NEW s \in {"no", "patch", "reset", "failed"}, sync.push # "no", sync' = [sync EXCEPT !.push = s],
         remote' \in Sides, recorded' = recorded, armed' = armed, doing' = doing, clock' = clock,
         nextVer' = nextVer, failed' = failed, truth' = truth, fresh' = fresh, local' = local,
         loose' \in PathSets, DOMAIN changes' \subseteq SyncPaths, changes' \in [DOMAIN changes' -> BOOLEAN]
  PROVE  (TypeOK /\ CallsOK /\ PhaseOK /\ TarOK)'
<1>1. sync \in Syncs /\ sync.on /\ sync.pc = "sync"
  BY OnFacts
<1>2. sync' \in Syncs /\ SamePhase /\ SamePatch /\ sync'.stamp = sync.stamp
  BY <1>1, PushFields DEF SamePull
<1>3. TypeOK'
  BY <1>2 DEF Basics, TypeOK
<1>4. CallsOK'
  BY <1>2, CallsKept DEF Basics, SamePhase
<1>5. PhaseOK'
  BY <1>1, <1>2 DEF Basics, PhaseOK, SamePhase
<1>6. TarOK'
  BY <1>2 DEF Basics, TarOK, SamePatch
<1>7. QED
  BY <1>3, <1>4, <1>5, <1>6

\* The patch has the entry of each path that was visited
LEMMA PatchedFacts ==
  ASSUME Basics
  PROVE  /\ Patched \in Sides
         /\ \A p \in SyncPaths : p \notin sync.visited => Patched[p] = remote[p]
         /\ \A p \in SyncPaths : p \in sync.visited => \E x \in sync.tar : x[1] = p /\ x[2] \in Entries /\ Patched[p] = x[2]
<1>1. sync.tar \subseteq SyncPaths \X Entries /\ remote \in Sides
  BY DEF Basics, TypeOK, Syncs
<1>2. ASSUME NEW p \in SyncPaths, p \in sync.visited
      PROVE  \E x \in sync.tar : x[1] = p /\ x[2] \in Entries /\ Patched[p] = x[2]
  <2> DEFINE y == CHOOSE x \in sync.tar : x[1] = p
  <2>1. \E x \in sync.tar : x[1] = p
    BY <1>2 DEF Basics, TarOK
  <2>2. y \in sync.tar /\ y[1] = p
    BY <2>1
  <2>3. Patched[p] = y[2]
    BY <1>2 DEF Patched
  <2> HIDE DEF y
  <2>4. y[2] \in Entries
    BY <1>1, <2>2
  <2>5. QED
    BY <2>2, <2>3, <2>4
<1>3. ASSUME NEW p \in SyncPaths, p \notin sync.visited
      PROVE  Patched[p] = remote[p]
  BY <1>3 DEF Patched
<1>4. \A p \in SyncPaths : Patched[p] \in Entries
  BY <1>1, <1>2, <1>3, SideFacts
<1>5. Patched \in Sides
  <2>1. Patched = [p \in SyncPaths |-> Patched[p]]
    BY DEF Patched
  <2>2. QED
    BY <1>4, <2>1 DEF Sides
<1>6. QED
  BY <1>2, <1>3, <1>5

LEMMA PatchFacts ==
  ASSUME Basics, Patch \/ PatchFails
  PROVE  /\ sync.push = "patch"
         /\ remote' = Patched \/ (PatchFails /\ remote' = remote)
         /\ remote' \in Sides
         /\ \E s \in {"reset", "failed"} : sync' = [sync EXCEPT !.push = s] /\ (s = "reset" => remote' = Patched)
         /\ Outdates /\ loose' \in PathSets /\ loose \subseteq loose'
         /\ local' = local /\ recorded' = recorded /\ changes' = changes /\ armed' = armed /\ doing' = doing
         /\ clock' = clock /\ nextVer' = nextVer /\ failed' = failed /\ truth' = truth /\ fresh' = fresh
<1>1. Patched \in Sides /\ remote \in Sides /\ loose \in PathSets
  BY PatchedFacts DEF Basics, TypeOK
<1>2. Outdates
  BY DEF Patch, PatchFails
<1>3. loose' \in PathSets /\ loose \subseteq loose'
  BY <1>1, <1>2 DEF Outdates, PathSets
<1>4. CASE Patch
  <2>1. sync' = [sync EXCEPT !.push = "reset"] /\ remote' = Patched
    BY <1>4 DEF Patch
  <2>2. QED
    BY <1>1, <1>2, <1>3, <1>4, <2>1 DEF Patch, record, counts
<1>5. CASE PatchFails
  <2>1. sync' = [sync EXCEPT !.push = "failed"]
    BY <1>5 DEF PatchFails
  <2>2. QED
    BY <1>1, <1>2, <1>3, <1>5, <2>1 DEF PatchFails, record
<1>6. QED
  BY <1>4, <1>5

LEMMA PushBasics ==
  ASSUME Basics, TarDone \/ Patch \/ PatchFails \/ Reset
  PROVE  (TypeOK /\ CallsOK /\ PhaseOK /\ TarOK)'
<1>1. CASE TarDone
  <2>1. sync.push = "tar" /\ sync' = [sync EXCEPT !.push = "patch"] /\ SyncOnly
    BY <1>1 DEF TarDone
  <2>2. remote' \in Sides
    BY <2>1 DEF SyncOnly, Basics, TypeOK
  <2>3. QED
    BY <2>1, <2>2, OnlyFacts, PushStepBasics DEF Basics, SyncFrame
<1>2. CASE Patch \/ PatchFails
  <2>1. PICK s \in {"reset", "failed"} : sync' = [sync EXCEPT !.push = s]
    BY <1>2, PatchFacts
  <2>2. DOMAIN changes \subseteq SyncPaths /\ changes \in [DOMAIN changes -> BOOLEAN]
    BY DEF Basics, TypeOK
  <2>3. CASE s = "reset"
    BY <1>2, <2>1, <2>2, <2>3, PatchFacts, PushStepBasics
  <2>4. CASE s = "failed"
    BY <1>2, <2>1, <2>2, <2>4, PatchFacts, PushStepBasics
  <2>5. QED
    BY <2>3, <2>4
<1>3. CASE Reset
  <2>1. /\ sync.push = "reset" /\ sync' = [sync EXCEPT !.push = "no"] /\ changes' = NoChange
        /\ local' = local /\ remote' = remote /\ recorded' = recorded /\ armed' = armed /\ doing' = doing
        /\ clock' = clock /\ nextVer' = nextVer /\ failed' = failed /\ truth' = truth /\ fresh' = fresh /\ loose' = loose
    BY <1>3 DEF Reset, world, counts, marks
  <2>2. DOMAIN changes' \subseteq SyncPaths /\ changes' \in [DOMAIN changes' -> BOOLEAN]
    BY <2>1 DEF NoChange
  <2>3. remote' \in Sides /\ loose' \in PathSets
    BY <2>1 DEF Basics, TypeOK
  <2>4. QED
    BY <2>1, <2>2, <2>3, PushStepBasics
<1>4. QED
  BY <1>1, <1>2, <1>3

\* The side that a pulled path, or its time, is written to
\* The local side once p is copied
LEMMA CopiedFacts ==
  ASSUME Basics, NEW p \in SyncPaths
  PROVE  /\ Copied(p) \in Sides
         /\ \A x \in SyncPaths : x # p => Copied(p)[x] = local[x]
         /\ Copies(p) =>
              Copied(p)[p].ver = Pulled(p).ver /\ Copied(p)[p].dir = Pulled(p).dir /\ Copied(p)[p].time = clock
         /\ ~Copies(p) => Copied(p) = local
<1> DEFINE e == [Pulled(p) EXCEPT !.time = clock]
           now == Copied(p)
<1>1. local \in Sides /\ remote \in Sides /\ sync.index \in Sides /\ clock \in Nat
  BY DEF Basics, TypeOK, Syncs
<1>2. Pulled(p) \in Entries
  BY <1>1, SideFacts DEF Pulled
<1>3. Copies(p) => e \in Entries /\ e.ver = Pulled(p).ver /\ e.dir = Pulled(p).dir /\ e.time = clock
  BY <1>1, <1>2, EntryTimed DEF Copies, There
<1>4. now = IF Copies(p) THEN [local EXCEPT ![p] = e] ELSE local
  BY DEF Copied
<1> HIDE DEF e, now
<1>5. now \in Sides /\ (\A x \in SyncPaths : x # p => now[x] = local[x])
      /\ (Copies(p) => now[p] = e) /\ (~Copies(p) => now = local)
  BY <1>1, <1>3, <1>4 DEF Sides
<1>6. Copies(p) => now[p].ver = Pulled(p).ver /\ now[p].dir = Pulled(p).dir /\ now[p].time = clock
  BY <1>3, <1>5
<1>7. QED
  BY <1>5, <1>6 DEF now

LEMMA PullFacts ==
  ASSUME Basics, NEW p \in SyncPaths, Pull(p)
  PROVE  /\ sync.pc = "sync" /\ p \in sync.pull
         /\ SyncFrame /\ changes' = changes
         /\ local' \in Sides
         /\ \A x \in SyncPaths : x # p => local'[x] = local[x]
         /\ Copies(p) =>
              local'[p].ver = Pulled(p).ver /\ local'[p].dir = Pulled(p).dir /\ local'[p].time = clock
         /\ ~Copies(p) => local'[p] = local[p]
         /\ loose' = IF /\ local[p].ver = truth[p] \/ sync.index[p].dir
                        /\ p \in sync.touched \/ OnItsWay(p)
                     THEN loose \cup {p} ELSE loose
<1>1. local' = Copied(p)
  BY DEF Pull
<1>2. QED
  BY <1>1, CopiedFacts DEF Pull, MayPull, Overwrites, SyncFrame, record, counts

LEMMA PullFailsFacts ==
  ASSUME Basics, NEW p \in SyncPaths, PullFails(p)
  PROVE  /\ sync.pc = "sync" /\ p \in sync.pull /\ ~sync.index[p].dir
         /\ SyncFrame /\ changes' = changes
         /\ local' \in Sides
         /\ \A x \in SyncPaths : x # p => local'[x] = local[x]
         /\ \/ local'[p] = local[p]
            \/ /\ Copies(p)
               /\ local'[p].ver = Pulled(p).ver /\ local'[p].dir = Pulled(p).dir /\ local'[p].time = clock
         /\ loose' = IF /\ local[p].ver = truth[p] \/ sync.index[p].dir
                        /\ p \in sync.touched \/ OnItsWay(p)
                     THEN loose \cup {p} ELSE loose
<1>1. local' \in {local, Copied(p)} /\ local \in Sides
  BY DEF PullFails, Basics, TypeOK
<1>2. QED
  BY <1>1, CopiedFacts DEF PullFails, Fault, MayPull, Overwrites, SyncFrame, record

LEMMA PullCutFacts ==
  ASSUME Basics, NEW p \in SyncPaths, PullCut(p)
  PROVE  /\ sync.pc = "sync" /\ p \in sync.pull /\ ~sync.index[p].dir /\ Copies(p)
         /\ local' \in Sides
         /\ \A x \in SyncPaths : x # p => local'[x] = local[x]
         /\ local'[p].ver = nextVer /\ local'[p].dir = Pulled(p).dir
         /\ loose' = loose \cup {p} /\ nextVer' = nextVer + 1
         /\ remote' = remote /\ recorded' = recorded /\ armed' = armed /\ doing' = doing /\ clock' = clock
         /\ failed' = failed /\ truth' = truth /\ fresh' = fresh /\ changes' = changes
<1> DEFINE e == Entry(nextVer, Pulled(p).dir, clock)
<1>1. local \in Sides /\ remote \in Sides /\ sync.index \in Sides /\ clock \in Nat /\ nextVer \in Nat /\ nextVer # 0
  BY DEF Basics, TypeOK, Syncs
<1>2. Pulled(p).dir \in BOOLEAN
  BY <1>1, SideFacts DEF Pulled
<1>3. e \in Entries /\ e.ver = nextVer /\ e.dir = Pulled(p).dir
  BY <1>1, <1>2, EntryMade
<1>4. local' = [local EXCEPT ![p] = e]
  BY DEF PullCut
<1> HIDE DEF e
<1>5. local' \in Sides /\ (\A x \in SyncPaths : x # p => local'[x] = local[x]) /\ local'[p] = e
  BY <1>1, <1>3, <1>4 DEF Sides
<1>6. QED
  BY <1>3, <1>5 DEF PullCut, MayPull, Fault, record

\* A failure that leaves both sides as they are
LEMMA StillFacts ==
  ASSUME Basics, NEW p \in SyncPaths, MkdirFails(p) \/ StampFails(p)
  PROVE  /\ sync.pc = "sync"
         /\ SyncFrame /\ changes' = changes /\ local' = local /\ loose' = loose
<1>1. CASE MkdirFails(p)
  BY <1>1 DEF MkdirFails, MayPull, Fault, SyncFrame, world, record, marks
<1>2. CASE StampFails(p)
  BY <1>2 DEF StampFails, Fault, SyncFrame, world, record, marks
<1>3. QED
  BY <1>1, <1>2

LEMMA ScanFailsFacts ==
  ASSUME Basics, ScanFails
  PROVE  /\ sync.pc = "scan"
         /\ SyncFrame /\ changes' = changes /\ local' = local
         /\ loose' = loose \cup {p \in SyncPaths \ sync.walked : sync.scan /\ IsNews(p)}
BY DEF ScanFails, SyncFrame, world, record

LEMMA StampFacts ==
  ASSUME Basics, NEW p \in SyncPaths, Stamp(p)
  PROVE  /\ sync.pc = "sync" /\ p \in sync.stamp
         /\ SyncFrame /\ changes' = changes
         /\ local' \in Sides
         /\ \A x \in SyncPaths : x # p => local'[x] = local[x]
         /\ local'[p].ver = local[p].ver /\ local'[p].dir = local[p].dir
         /\ There(local[p]) => local'[p].time = sync.index[p].time
         /\ loose' = IF p \in sync.touched THEN loose \cup {p} ELSE loose
<1> DEFINE e == [local[p] EXCEPT !.time = sync.index[p].time]
<1>1. local \in Sides /\ sync.index \in Sides
  BY DEF Basics, TypeOK, Syncs
<1>2. local[p] \in Entries /\ sync.index[p].time \in Nat
  BY <1>1, SideFacts
<1>3. e \in Entries /\ e.ver = local[p].ver /\ e.dir = local[p].dir /\ e.time = sync.index[p].time
  BY <1>2, EntryTimed DEF There, Stamp
<1>4. local' = [local EXCEPT ![p] = e]
  BY DEF Stamp
<1> HIDE DEF e
<1>5. local' \in Sides /\ (\A x \in SyncPaths : x # p => local'[x] = local[x]) /\ local'[p] = e
  BY <1>1, <1>3, <1>4 DEF Sides
<1>6. /\ local'[p].ver = local[p].ver /\ local'[p].dir = local[p].dir
      /\ local'[p].time = sync.index[p].time
  BY <1>3, <1>5
<1>7. QED
  BY <1>5, <1>6 DEF Stamp, SyncFrame, record, counts

LEMMA PullBasics ==
  ASSUME Basics, NEW p \in SyncPaths, Pull(p)
  PROVE  (TypeOK /\ CallsOK /\ PhaseOK /\ TarOK)'
<1>1. /\ sync.pc = "sync" /\ SyncFrame /\ changes' = changes /\ local' \in Sides
      /\ loose' \in {loose, loose \cup {p}}
  BY PullFacts
<1>2. sync \in Syncs /\ sync.on
  BY <1>1, OnFacts
<1>3. sync' \in Syncs /\ SamePhase /\ SamePush
  BY <1>2, PullFields
<1>4. loose' \in PathSets /\ DOMAIN changes' \subseteq SyncPaths /\ changes' \in [DOMAIN changes' -> BOOLEAN]
  BY <1>1 DEF Basics, TypeOK, PathSets
<1>5. TypeOK' /\ CallsOK'
  BY <1>1, <1>3, <1>4, SyncBasics DEF SamePhase
<1>6. PhaseOK'
  BY <1>1, <1>2, <1>3, PhaseKept DEF SamePhase, SamePush, SamePatch
<1>7. TarOK'
  BY <1>3 DEF Basics, TarOK, SamePush, SamePatch
<1>8. QED
  BY <1>5, <1>6, <1>7

LEMMA StampBasics ==
  ASSUME Basics, NEW p \in SyncPaths, Stamp(p)
  PROVE  (TypeOK /\ CallsOK /\ PhaseOK /\ TarOK)'
<1>1. /\ sync.pc = "sync" /\ SyncFrame /\ changes' = changes /\ local' \in Sides
      /\ loose' = IF p \in sync.touched THEN loose \cup {p} ELSE loose
  BY StampFacts
<1>2. sync \in Syncs /\ sync.on
  BY <1>1, OnFacts
<1>3. sync' \in Syncs /\ SamePhase /\ SamePush
  BY <1>2, StampFields
<1>4. loose' \in PathSets /\ DOMAIN changes' \subseteq SyncPaths /\ changes' \in [DOMAIN changes' -> BOOLEAN]
  BY <1>1 DEF Basics, TypeOK, PathSets
<1>5. TypeOK' /\ CallsOK'
  BY <1>1, <1>3, <1>4, SyncBasics DEF SamePhase
<1>6. PhaseOK'
  BY <1>1, <1>2, <1>3, PhaseKept DEF SamePhase, SamePush, SamePatch
<1>7. TarOK'
  BY <1>3 DEF Basics, TarOK, SamePush, SamePatch
<1>8. QED
  BY <1>5, <1>6, <1>7

LEMMA FaultBasics ==
  ASSUME Basics, NEW p \in SyncPaths, PullFails(p) \/ MkdirFails(p) \/ StampFails(p)
  PROVE  (TypeOK /\ CallsOK /\ PhaseOK /\ TarOK)'
<1>1. /\ sync.pc = "sync" /\ SyncFrame /\ changes' = changes /\ local' \in Sides
      /\ loose' \in {loose, loose \cup {p}}
  <2>1. CASE PullFails(p)
    BY <2>1, PullFailsFacts
  <2>2. CASE MkdirFails(p) \/ StampFails(p)
    BY <2>2, StillFacts DEF Basics, TypeOK
  <2>3. QED
    BY <2>1, <2>2
<1>2. sync \in Syncs /\ sync.on
  BY <1>1, OnFacts
<1>3. sync' \in Syncs /\ FaultKeeps
  BY <1>2, PullFailsFields, MkdirFailsFields, StampFailsFields
<1>4. loose' \in PathSets /\ DOMAIN changes' \subseteq SyncPaths /\ changes' \in [DOMAIN changes' -> BOOLEAN]
  BY <1>1 DEF Basics, TypeOK, PathSets
<1>5. TypeOK' /\ CallsOK'
  BY <1>1, <1>3, <1>4, SyncBasics DEF SamePhase, FaultKeeps
<1>6. PhaseOK'
  BY <1>1, <1>2, <1>3, PhaseKept DEF SamePhase, SamePush, SamePatch, FaultKeeps
<1>7. TarOK'
  BY <1>3 DEF Basics, TarOK, SamePush, SamePatch, FaultKeeps
<1>8. QED
  BY <1>5, <1>6, <1>7

LEMMA PullCutBasics ==
  ASSUME Basics, NEW p \in SyncPaths, PullCut(p)
  PROVE  (TypeOK /\ CallsOK /\ PhaseOK /\ TarOK)'
<1>1. /\ sync.pc = "sync" /\ local' \in Sides
      /\ loose' = loose \cup {p} /\ nextVer' = nextVer + 1
      /\ remote' = remote /\ recorded' = recorded /\ armed' = armed /\ doing' = doing /\ clock' = clock
      /\ failed' = failed /\ truth' = truth /\ fresh' = fresh /\ changes' = changes
  BY PullCutFacts
<1>2. sync \in Syncs /\ sync.on
  BY <1>1, OnFacts
<1>3. sync' \in Syncs /\ FaultKeeps
  BY <1>2, PullCutFields
<1>4. loose' \in PathSets /\ nextVer' \in Nat
  BY <1>1 DEF Basics, TypeOK, PathSets
<1>5. TypeOK'
  BY <1>1, <1>3, <1>4 DEF Basics, TypeOK
<1>6. CallsOK'
  BY <1>1, <1>3, CallsKept DEF Basics, FaultKeeps, SamePhase
<1>7. PhaseOK'
  BY <1>1, <1>3 DEF Basics, PhaseOK, FaultKeeps, SamePhase, SamePush, SamePatch
<1>8. TarOK'
  BY <1>3 DEF Basics, TarOK, SamePush, SamePatch, FaultKeeps
<1>9. QED
  BY <1>5, <1>6, <1>7, <1>8

LEMMA ScanFailsBasics ==
  ASSUME Basics, ScanFails
  PROVE  (TypeOK /\ CallsOK /\ PhaseOK /\ TarOK)'
<1>1. /\ sync.pc = "scan" /\ SyncFrame /\ changes' = changes /\ local' = local
      /\ loose' = loose \cup {p \in SyncPaths \ sync.walked : sync.scan /\ IsNews(p)}
  BY ScanFailsFacts
<1>2. sync \in Syncs /\ sync.on
  BY <1>1, OnFacts
<1>3. /\ sync' \in Syncs /\ SamePatch /\ sync'.on = sync.on /\ sync'.by = sync.by /\ sync'.scan = sync.scan
      /\ sync'.pc = "sync"
  BY <1>2, ScanFailsFields
<1>4. /\ local' \in Sides /\ loose' \in PathSets
      /\ DOMAIN changes' \subseteq SyncPaths /\ changes' \in [DOMAIN changes' -> BOOLEAN]
  BY <1>1 DEF Basics, TypeOK, PathSets
<1>5. TypeOK' /\ CallsOK'
  BY <1>1, <1>3, <1>4, SyncBasics
<1>6. PhaseOK'
  BY <1>1, <1>2, <1>3, PhaseKept
<1>7. TarOK'
  BY <1>3 DEF Basics, TarOK, SamePatch
<1>8. QED
  BY <1>5, <1>6, <1>7

\* The step that begins a Sync, or does not get an index
LEMMA StartsBasics ==
  ASSUME Basics, NEW by \in {"timer"} \cup Threads, Starts(by), armed' \in BOOLEAN, doing' = doing,
         by = "timer" \/ doing[by].pc \in {"sync", "sync2"}
  PROVE  (TypeOK /\ CallsOK /\ PhaseOK /\ TarOK)'
<1>1. /\ recorded' = TRUE /\ local' = local /\ remote' = remote /\ changes' = changes /\ clock' = clock
      /\ nextVer' = nextVer /\ failed' = failed /\ truth' = truth /\ loose' = loose /\ fresh' = fresh
  BY DEF Starts, world, counts, marks
<1>2. /\ sync' \in Syncs /\ sync'.on = TRUE /\ sync'.by = by /\ sync'.pc = "scan" /\ sync'.scan = ~recorded
      /\ sync'.push = "no" /\ sync'.visited = {} /\ sync'.tar = {} /\ sync'.stamp = {}
  BY StartsFields DEF Basics
<1>3. TypeOK'
  BY <1>1, <1>2 DEF Basics, TypeOK
<1>4. ASSUME NEW u \in Threads
      PROVE  CallOK(u, doing'[u], sync', recorded')
  <2>1. CallOK(u, doing[u], sync, recorded)
    BY DEF Basics, CallsOK
  <2>2. by = u => doing[u].pc \in {"sync", "sync2"}
    BY SyncThreadsAssumption
  <2>3. QED
    BY <1>1, <1>2, <2>1, <2>2 DEF CallOK
<1>5. PhaseOK'
  BY <1>1, <1>2 DEF PhaseOK
<1>6. TarOK'
  BY <1>2 DEF TarOK
<1>7. QED
  BY <1>3, <1>4, <1>5, <1>6 DEF CallsOK

LEMMA FiresBasics ==
  ASSUME Basics, Fires
  PROVE  (TypeOK /\ CallsOK /\ PhaseOK /\ TarOK)'
<1>1. armed' = FALSE /\ doing' = doing
  BY DEF Fires
<1>2. CASE Starts("timer")
  BY <1>1, <1>2, StartsBasics
<1>3. CASE StartFails
  <2>1. /\ local' = local /\ remote' = remote /\ recorded' = recorded /\ changes' = changes /\ clock' = clock
        /\ nextVer' = nextVer /\ failed' = TRUE /\ truth' = truth /\ loose' = loose /\ fresh' = fresh /\ sync' = sync
    BY <1>3 DEF StartFails, world
  <2>2. CallsOK'
    BY <1>1, <2>1, CallsKept DEF Basics
  <2>3. TypeOK'
    BY <1>1, <2>1 DEF Basics, TypeOK
  <2>4. QED
    BY <2>1, <2>2, <2>3 DEF Basics, PhaseOK, TarOK
<1>4. QED
  BY <1>2, <1>3 DEF Fires

LEMMA CallsSyncBasics ==
  ASSUME Basics, NEW t \in Threads, CallsSync(t)
  PROVE  (TypeOK /\ CallsOK /\ PhaseOK /\ TarOK)'
<1>1. armed' = armed /\ doing[t].pc \in {"sync", "sync2"}
  BY DEF CallsSync
<1>2. CASE Starts(t) /\ doing' = doing
  BY <1>1, <1>2, StartsBasics DEF Basics, TypeOK
<1>3. CASE StartFails /\ doing' = [doing EXCEPT ![t] = Idle]
  <2>1. /\ local' = local /\ remote' = remote /\ recorded' = recorded /\ changes' = changes /\ clock' = clock
        /\ nextVer' = nextVer /\ failed' = TRUE /\ truth' = truth /\ loose' = loose /\ fresh' = fresh /\ sync' = sync
        /\ ~sync.on
    BY <1>3 DEF StartFails, world
  <2>2. sync.by # t
    BY <2>1, SyncThreadsAssumption DEF Basics, PhaseOK
  <2>3. doing' \in [Threads -> CallRecords] /\ CallsOK'
    BY <1>3, <2>1, <2>2, IdleOK, IdleFacts, CallsStep DEF Basics, SamePhase
  <2>4. TypeOK'
    BY <1>1, <2>1, <2>3 DEF Basics, TypeOK
  <2>5. QED
    BY <2>1, <2>3, <2>4 DEF Basics, PhaseOK, TarOK
<1>4. QED
  BY <1>2, <1>3 DEF CallsSync

LEMMA WaitsOnly ==
  ASSUME NEW c \in CallRecords
  PROVE  /\ [c EXCEPT !.waits = FALSE] \in CallRecords
         /\ [c EXCEPT !.waits = FALSE].pc = c.pc /\ [c EXCEPT !.waits = FALSE].op = c.op
         /\ [c EXCEPT !.waits = FALSE].p = c.p /\ [c EXCEPT !.waits = FALSE].q = c.q
BY DEF CallRecords

\* Where the end of the Sync leaves a call
LEMMA EndFacts ==
  ASSUME Basics, End
  PROVE  /\ sync.pc = "sync" /\ sync.push \in {"no", "failed"} /\ sync.pull = {} /\ sync.stamp = {}
         /\ sync' = Quiet
         /\ doing' \in [Threads -> CallRecords]
         /\ \A t \in Threads : /\ doing'[t].pc \in {doing[t].pc, "idle", "remote"}
                               /\ doing'[t].pc # doing[t].pc => doing[t].pc \in {"sync", "sync2"}
                               /\ doing'[t].pc # "idle" =>
                                    doing'[t].op = doing[t].op /\ doing'[t].p = doing[t].p /\ doing'[t].q = doing[t].q
                               /\ doing'[t].pc = "remote" => doing[t].pc # "idle"
                               /\ doing'[t].op \in {doing[t].op, ""}
         /\ fresh' = IF sync.err \/ sync.push = "failed" THEN fresh
                     ELSE {p \in SyncPaths \ (sync.touched \cup sync.missed) : ~OnItsWay(p) /\ ~Moving(p)}
         /\ failed' = (failed \/ sync.err \/ sync.push = "failed")
         /\ local' = local /\ remote' = remote /\ recorded' = recorded /\ changes' = changes /\ armed' = armed
         /\ clock' = clock /\ nextVer' = nextVer /\ truth' = truth /\ loose' = loose
<1> DEFINE err == sync.err \/ sync.push = "failed"
           R(t) == IF sync.by # t THEN [doing[t] EXCEPT !.waits = FALSE]
                   ELSE IF err \/ doing[t].pc = "sync2" THEN Idle ELSE [doing[t] EXCEPT !.pc = "remote"]
<1>1. doing' = [t \in Threads |-> R(t)]
  BY DEF End, SyncFailed
<1>2. ASSUME NEW t \in Threads
      PROVE  /\ R(t) \in CallRecords
             /\ R(t).pc \in {doing[t].pc, "idle", "remote"}
             /\ R(t).pc # doing[t].pc => doing[t].pc \in {"sync", "sync2"}
             /\ R(t).pc # "idle" =>
                  R(t).op = doing[t].op /\ R(t).p = doing[t].p /\ R(t).q = doing[t].q
             /\ R(t).pc = "remote" => doing[t].pc # "idle"
             /\ R(t).op \in {doing[t].op, ""}
  <2>1. doing[t] \in CallRecords /\ CallOK(t, doing[t], sync, recorded)
    BY ThreadFacts
  <2>2. CASE sync.by # t
    <3> DEFINE c == doing[t]
               w == [c EXCEPT !.waits = FALSE]
    <3>1. R(t) = w
      BY <2>2
    <3>2. w \in CallRecords /\ w.pc = c.pc /\ w.op = c.op /\ w.p = c.p /\ w.q = c.q
      BY <2>1, WaitsOnly
    <3> HIDE DEF w, R
    <3>3. QED
      BY <3>1, <3>2
  <2>3. CASE sync.by = t
    <3> DEFINE c == doing[t]
               w == [c EXCEPT !.pc = "remote"]
    <3>1. R(t) \in {Idle, w}
      BY <2>3
    <3>2. w \in CallRecords /\ w.pc = "remote" /\ w.op = c.op /\ w.p = c.p /\ w.q = c.q
      BY <2>1, PcOnly
    <3>3. c.pc \in {"sync", "sync2"}
      BY <2>1, <2>3 DEF CallOK
    <3> HIDE DEF w, R
    <3>4. QED
      BY <3>1, <3>2, <3>3, IdleFacts
  <2>4. QED
    BY <2>2, <2>3
<1> HIDE DEF R
<1>3. \A t \in Threads : doing'[t] = R(t)
  BY <1>1
<1>4. doing' \in [Threads -> CallRecords]
  BY <1>1, <1>2
<1>5. /\ sync.pc = "sync" /\ sync.push \in {"no", "failed"} /\ sync.pull = {} /\ sync.stamp = {}
      /\ sync' = Quiet
      /\ fresh' = IF err THEN fresh ELSE {p \in SyncPaths \ (sync.touched \cup sync.missed) : ~OnItsWay(p) /\ ~Moving(p)}
      /\ failed' = (failed \/ err)
      /\ UNCHANGED <<world, record, counts, truth, loose>>
  BY DEF End, SyncFailed
<1>6. /\ local' = local /\ remote' = remote /\ recorded' = recorded /\ changes' = changes /\ armed' = armed
      /\ clock' = clock /\ nextVer' = nextVer /\ truth' = truth /\ loose' = loose
  BY <1>5 DEF world, record, counts
<1>7. \A t \in Threads : /\ doing'[t].pc \in {doing[t].pc, "idle", "remote"}
                         /\ doing'[t].pc # doing[t].pc => doing[t].pc \in {"sync", "sync2"}
                         /\ doing'[t].pc # "idle" =>
                              doing'[t].op = doing[t].op /\ doing'[t].p = doing[t].p /\ doing'[t].q = doing[t].q
                         /\ doing'[t].pc = "remote" => doing[t].pc # "idle"
                         /\ doing'[t].op \in {doing[t].op, ""}
  BY <1>2, <1>3
<1>8. QED
  BY <1>4, <1>5, <1>6, <1>7

LEMMA EndBasics ==
  ASSUME Basics, End
  PROVE  (TypeOK /\ CallsOK /\ PhaseOK /\ TarOK)'
<1>1. /\ sync.pc = "sync" /\ sync' = Quiet /\ doing' \in [Threads -> CallRecords]
      /\ fresh' = IF sync.err \/ sync.push = "failed" THEN fresh
                  ELSE {p \in SyncPaths \ (sync.touched \cup sync.missed) : ~OnItsWay(p) /\ ~Moving(p)}
      /\ failed' = (failed \/ sync.err \/ sync.push = "failed")
      /\ local' = local /\ remote' = remote /\ recorded' = recorded /\ changes' = changes /\ armed' = armed
      /\ clock' = clock /\ nextVer' = nextVer /\ truth' = truth /\ loose' = loose
  BY EndFacts
<1>2. recorded /\ sync \in Syncs
  BY <1>1, OnFacts
<1>3. fresh' \in PathSets /\ failed' \in BOOLEAN
  BY <1>1, <1>2 DEF Basics, TypeOK, PathSets, Syncs
<1>4. TypeOK'
  BY <1>1, <1>3, QuietFields DEF Basics, TypeOK
<1>5. ASSUME NEW u \in Threads
      PROVE  CallOK(u, doing'[u], sync', recorded')
  <2>1. CallOK(u, doing[u], sync, recorded)
    BY DEF Basics, CallsOK
  <2>2. /\ doing'[u].pc \in {doing[u].pc, "idle", "remote"}
        /\ doing'[u].pc # doing[u].pc => doing[u].pc \in {"sync", "sync2"}
        /\ doing'[u].pc # "idle" =>
             doing'[u].op = doing[u].op /\ doing'[u].p = doing[u].p /\ doing'[u].q = doing[u].q
        /\ doing'[u].pc = "remote" => doing[u].pc # "idle"
        /\ doing'[u].op \in {doing[u].op, ""}
    BY EndFacts
  <2>3. sync'.on = FALSE /\ sync'.by # u
    BY <1>1, QuietFields, SyncThreadsAssumption
  <2>4. recorded' = TRUE
    BY <1>1, <1>2 DEF Basics, TypeOK
  <2> DEFINE d == doing'[u]
             c == doing[u]
  <2>5. CallOK(u, c, sync, recorded) /\ d.pc \in {c.pc, "idle", "remote"}
        /\ (d.pc # c.pc => c.pc \in {"sync", "sync2"})
        /\ (d.pc # "idle" => d.op = c.op /\ d.p = c.p /\ d.q = c.q)
        /\ (d.pc = "remote" => c.pc # "idle") /\ d.op \in {c.op, ""}
    BY <2>1, <2>2
  <2> HIDE DEF c, d
  <2>6. CallOK(u, d, sync', recorded')
    BY <2>3, <2>4, <2>5 DEF CallOK
  <2>7. QED
    BY <2>6 DEF d
<1>6. PhaseOK'
  BY <1>1, <1>2, QuietFields DEF PhaseOK
<1>7. TarOK'
  BY <1>1, QuietFields DEF TarOK
<1>8. QED
  BY <1>4, <1>5, <1>6, <1>7 DEF CallsOK

\* Every step of the specification
LEMMA BasicsStep ==
  ASSUME Basics, SyncNext
  PROVE  (TypeOK /\ CallsOK /\ PhaseOK /\ TarOK)'
<1>1. ASSUME NEW t \in Threads, NEW op \in SyncOps[t], NEW p \in SyncPaths, NEW q \in SyncPaths,
             op \notin {"rename", "renamedir"} => q = p, CallBegins(t, op, p, q)
      PROVE  (TypeOK /\ CallsOK /\ PhaseOK /\ TarOK)'
  BY <1>1, CallBeginsBasics
<1>2. ASSUME NEW t \in Threads, CallStep(t)
      PROVE  (TypeOK /\ CallsOK /\ PhaseOK /\ TarOK)'
  <2>1. CASE Local(t)
    BY <2>1, LocalBasics
  <2>2. CASE Refused(t)
    BY <2>2, RefusedBasics
  <2>3. CASE Record(t)
    BY <2>3, RecordBasics
  <2>4. CASE RenameDir(t)
    BY <2>4, RenameDirBasics
  <2>5. CASE CallsSync(t)
    BY <2>5, CallsSyncBasics
  <2>6. CASE RenameRemote(t)
    BY <2>6, RenameRemoteBasics
  <2>7. CASE RenameLocal(t)
    BY <2>7, RenameLocalBasics
  <2>8. CASE Unmarked(t)
    BY <2>8, UnmarkedBasics
  <2>9. QED
    BY <1>2, <2>1, <2>2, <2>3, <2>4, <2>5, <2>6, <2>7, <2>8 DEF CallStep
<1>3. CASE Fires
  BY <1>3, FiresBasics
<1>4. CASE Scanned
  BY <1>4, ScannedBasics
<1>5. CASE End
  BY <1>5, EndBasics
<1>6. CASE TarDone \/ Patch \/ PatchFails \/ Reset
  BY <1>6, PushBasics
<1>7. ASSUME NEW p \in SyncPaths, PullScan(p) \/ PushScan(p) \/ Tar(p) \/ Pull(p) \/ Stamp(p)
      PROVE  (TypeOK /\ CallsOK /\ PhaseOK /\ TarOK)'
  BY <1>7, PullScanBasics, PushScanBasics, TarBasics, PullBasics, StampBasics
<1>8. ASSUME NEW p \in SyncPaths, NEW now \in {clock, clock + 2}, RemoteWrite(p, now)
      PROVE  (TypeOK /\ CallsOK /\ PhaseOK /\ TarOK)'
  BY <1>8, RemoteWriteBasics
<1>9. CASE ScanFails
  BY <1>9, ScanFailsBasics
<1>10. ASSUME NEW p \in SyncPaths, PullFails(p) \/ PullCut(p) \/ MkdirFails(p) \/ StampFails(p)
       PROVE  (TypeOK /\ CallsOK /\ PhaseOK /\ TarOK)'
  BY <1>10, FaultBasics, PullCutBasics
<1>11. QED
  BY <1>1, <1>2, <1>3, <1>4, <1>5, <1>6, <1>7, <1>8, <1>9, <1>10 DEF SyncNext, SyncStep, SyncFault

-----------------------------------------------------------------------------
(* Versions.                                                               *)

\* An entry of the next state has a known version, or the new one
KnownOrNew(e, new, dir) == Known(e.ver, e.dir) \/ (new /\ e.ver = nextVer /\ e.dir = dir)

LEMMA KnownFacts ==
  ASSUME TypeOK
  PROVE  /\ Known(0, FALSE)
         /\ \A p \in SyncPaths : Known(local[p].ver, local[p].dir) /\ Known(remote[p].ver, remote[p].dir)
         /\ \A p \in SyncPaths : Known(sync.index[p].ver, sync.index[p].dir)
         /\ \A x \in sync.tar : Known(x[2].ver, x[2].dir)
BY DEF Known

\* The index is the one that was, or a new one
IndexKept == \A p \in SyncPaths : sync'.index[p] \in {sync.index[p], remote[p], Absent}

LEMMA IndexSame ==
  ASSUME sync'.index \in {sync.index, remote, [p \in SyncPaths |-> Absent]}
  PROVE  IndexKept
BY DEF IndexKept

LEMMA VersionsKept ==
  ASSUME TypeOK, TypeOK', VersionsOK, NEW new \in BOOLEAN, NEW dir \in BOOLEAN,
         nextVer' = IF new THEN nextVer + 1 ELSE nextVer,
         \A p \in SyncPaths : KnownOrNew(local'[p], new, dir) /\ KnownOrNew(remote'[p], new, dir),
         IndexKept,
         \A x \in sync'.tar : KnownOrNew(x[2], new, dir),
         \A p \in SyncPaths : truth'[p] \in {truth[p], local'[p].ver, remote'[p].ver}
  PROVE  VersionsOK'
<1>1. nextVer \in Nat /\ nextVer' \in Nat
  BY DEF TypeOK
<1>2. ASSUME NEW v \in Nat, NEW d \in BOOLEAN, Known(v, d)'
      PROVE  Known(v, d) \/ (new /\ v = nextVer /\ d = dir)
  <2>1. Known(v, d)' <=> \/ v = 0 /\ d = FALSE
                         \/ \E p \in SyncPaths : \/ v = local'[p].ver /\ d = local'[p].dir
                                                 \/ v = remote'[p].ver /\ d = remote'[p].dir
                                                 \/ v = sync'.index[p].ver /\ d = sync'.index[p].dir
                         \/ \E x \in sync'.tar : v = x[2].ver /\ d = x[2].dir
    BY DEF Known
  <2>2. CASE v = 0 /\ d = FALSE
    BY <2>2, KnownFacts
  <2>3. ASSUME NEW p \in SyncPaths, v = local'[p].ver, d = local'[p].dir
        PROVE  Known(v, d) \/ (new /\ v = nextVer /\ d = dir)
    <3>1. KnownOrNew(local'[p], new, dir)
      OBVIOUS
    <3>2. QED
      BY <2>3, <3>1 DEF KnownOrNew
  <2>4. ASSUME NEW p \in SyncPaths, v = remote'[p].ver, d = remote'[p].dir
        PROVE  Known(v, d) \/ (new /\ v = nextVer /\ d = dir)
    <3>1. KnownOrNew(remote'[p], new, dir)
      OBVIOUS
    <3>2. QED
      BY <2>4, <3>1 DEF KnownOrNew
  <2>5. ASSUME NEW x \in sync'.tar, v = x[2].ver, d = x[2].dir
        PROVE  Known(v, d) \/ (new /\ v = nextVer /\ d = dir)
    <3>1. KnownOrNew(x[2], new, dir)
      OBVIOUS
    <3>2. QED
      BY <2>5, <3>1 DEF KnownOrNew
  <2>6. ASSUME NEW p \in SyncPaths, v = sync'.index[p].ver, d = sync'.index[p].dir
        PROVE  Known(v, d)
    <3>1. sync'.index[p] \in {sync.index[p], remote[p], Absent}
      BY DEF IndexKept
    <3>2. \A e \in {sync.index[p], remote[p], Absent} : Known(e.ver, e.dir)
      BY KnownFacts, AbsentFacts
    <3>3. QED
      BY <2>6, <3>1, <3>2
  <2>7. QED
    BY <1>2, <2>1, <2>2, <2>3, <2>4, <2>5, <2>6
<1>3. ASSUME NEW v \in Nat, NEW d \in BOOLEAN, Known(v, d)
      PROVE  v < nextVer
  BY <1>3 DEF VersionsOK
<1>4. \A v \in Nat, d, e \in BOOLEAN : Known(v, d) /\ Known(v, e) => d = e
  BY DEF VersionsOK
<1>5. ASSUME NEW v \in Nat, NEW d \in BOOLEAN, Known(v, d)'
      PROVE  v < nextVer'
  <2>1. Known(v, d) \/ (new /\ v = nextVer)
    BY <1>2, <1>5
  <2>2. v < nextVer \/ (new /\ v = nextVer)
    BY <1>3, <2>1
  <2>3. QED
    BY <1>1, <2>2
<1>6. ASSUME NEW v \in Nat, NEW d \in BOOLEAN, NEW e \in BOOLEAN, Known(v, d)', Known(v, e)'
      PROVE  d = e
  <2>1. Known(v, d) \/ (new /\ v = nextVer /\ d = dir)
    BY <1>2, <1>6
  <2>2. Known(v, e) \/ (new /\ v = nextVer /\ e = dir)
    BY <1>2, <1>6
  <2>3. Known(v, d) \/ Known(v, e) => v # nextVer
    BY <1>1, <1>3
  <2>4. QED
    BY <1>4, <2>1, <2>2, <2>3
<1>7. ASSUME NEW p \in SyncPaths
      PROVE  truth'[p] < nextVer'
  <2>1. local'[p].ver < nextVer'
    <3>1. PICK v \in Nat, d \in BOOLEAN : v = local'[p].ver /\ d = local'[p].dir
      BY SideFacts DEF TypeOK
    <3>2. Known(v, d)'
      BY <3>1 DEF Known
    <3>3. QED
      BY <1>5, <3>1, <3>2
  <2>2. remote'[p].ver < nextVer'
    <3>1. PICK v \in Nat, d \in BOOLEAN : v = remote'[p].ver /\ d = remote'[p].dir
      BY SideFacts DEF TypeOK
    <3>2. Known(v, d)'
      BY <3>1 DEF Known
    <3>3. QED
      BY <1>5, <3>1, <3>2
  <2>3. truth[p] < nextVer /\ truth[p] \in Nat
    BY DEF VersionsOK, TypeOK
  <2>4. truth[p] < nextVer'
    BY <1>1, <2>3
  <2>5. QED
    BY <2>1, <2>2, <2>4
<1>8. QED
  BY <1>5, <1>6, <1>7 DEF VersionsOK

LEMMA VersionsPositive ==
  ASSUME TypeOK, VersionsOK
  PROVE  0 < nextVer
BY KnownFacts DEF VersionsOK

\* A step that writes no side, nor an entry to the patch
LEMMA VersionsSame ==
  ASSUME TypeOK, TypeOK', VersionsOK, nextVer' = nextVer, truth' = truth, local' = local, remote' = remote,
         sync'.tar \subseteq sync.tar, IndexKept
  PROVE  VersionsOK'
<1>1. \A p \in SyncPaths : KnownOrNew(local'[p], FALSE, FALSE) /\ KnownOrNew(remote'[p], FALSE, FALSE)
  BY KnownFacts DEF KnownOrNew
<1>2. \A x \in sync'.tar : KnownOrNew(x[2], FALSE, FALSE)
  BY KnownFacts DEF KnownOrNew
<1>3. QED
  BY <1>1, <1>2, VersionsKept

\* The version that a call makes is that of one entry
LEMMA MadeVersions ==
  ASSUME TypeOK, 0 < nextVer, NEW c \in CallRecords, c.op \in Kinds, c.op # "renamedir",
         c.p \in SyncPaths, c.q \in SyncPaths, LocalCan(c)
  PROVE  \E dir \in BOOLEAN : \A p \in SyncPaths : KnownOrNew(LocalMade(c)[p], TRUE, dir)
<1>1. local \in Sides /\ nextVer \in Nat /\ nextVer # 0 /\ clock \in Nat
  BY DEF TypeOK
<1>2. \A p \in SyncPaths : local[p] \in Entries /\ local[p].dir \in BOOLEAN /\ Known(local[p].ver, local[p].dir)
  BY <1>1, KnownFacts, SideFacts
<1>3. Known(Absent.ver, Absent.dir)
  BY AbsentFacts, KnownFacts
<1>4. CASE c.op \in {"create", "write", "mkdir"}
  <2> DEFINE d == c.op = "mkdir"
             e == Entry(nextVer, d, clock)
  <2>1. e.ver = nextVer /\ e.dir = d /\ d \in BOOLEAN
    BY DEF Entry
  <2>2. LocalMade(c) = [local EXCEPT ![c.p] = e]
    BY <1>4 DEF LocalMade
  <2> HIDE DEF e, d
  <2>3. \A p \in SyncPaths : KnownOrNew(LocalMade(c)[p], TRUE, d)
    BY <1>1, <1>2, <2>1, <2>2 DEF Sides, KnownOrNew
  <2>4. QED
    BY <2>1, <2>3
<1>5. CASE c.op = "chmod"
  <2> DEFINE e == [local[c.p] EXCEPT !.ver = nextVer]
             d == local[c.p].dir
  <2>1. e.ver = nextVer /\ e.dir = d /\ d \in BOOLEAN
    BY <1>1, <1>2, EntryRenewed
  <2>2. LocalMade(c) = [local EXCEPT ![c.p] = e]
    BY <1>5 DEF LocalMade
  <2> HIDE DEF e, d
  <2>3. \A p \in SyncPaths : KnownOrNew(LocalMade(c)[p], TRUE, d)
    BY <1>1, <1>2, <2>1, <2>2 DEF Sides, KnownOrNew
  <2>4. QED
    BY <2>1, <2>3
<1>6. CASE c.op = "remove"
  <2>1. LocalMade(c) = [local EXCEPT ![c.p] = Absent]
    BY <1>6 DEF LocalMade
  <2>2. \A p \in SyncPaths : KnownOrNew(LocalMade(c)[p], TRUE, FALSE)
    BY <1>1, <1>2, <1>3, <2>1 DEF Sides, KnownOrNew
  <2>3. QED
    BY <2>2
<1>7. CASE c.op = "rename"
  <2> DEFINE e == [local[c.p] EXCEPT !.ver = nextVer]
             d == local[c.p].dir
  <2>1. e.ver = nextVer /\ e.dir = d /\ d \in BOOLEAN
    BY <1>1, <1>2, EntryRenewed
  <2>2. LocalMade(c) = [local EXCEPT ![c.p] = Absent, ![c.q] = e]
    BY <1>7 DEF LocalMade
  <2> HIDE DEF e, d
  <2>3. \A p \in SyncPaths : KnownOrNew(LocalMade(c)[p], TRUE, d)
    BY <1>1, <1>2, <1>3, <2>1, <2>2 DEF Sides, KnownOrNew
  <2>4. QED
    BY <2>1, <2>3
<1>8. QED
  BY <1>4, <1>5, <1>6, <1>7 DEF Kinds

LEMMA LocalVersions ==
  ASSUME Basics, TypeOK', VersionsOK, NEW t \in Threads, Local(t)
  PROVE  VersionsOK'
<1>1. doing[t].pc = "local" /\ doing[t].op # "renamedir"
  BY DEF Local
<1>2. doing[t] \in CallRecords /\ doing[t].op \in Kinds /\ doing[t].p \in SyncPaths /\ doing[t].q \in SyncPaths
  BY <1>1, ThreadFacts
<1>3. LocalCan(doing[t]) /\ local' = LocalMade(doing[t])
  BY DEF Local
<1>4. PICK dir \in BOOLEAN : \A p \in SyncPaths : KnownOrNew(LocalMade(doing[t])[p], TRUE, dir)
  BY <1>1, <1>2, <1>3, MadeVersions DEF Basics
<1>5. /\ nextVer' = nextVer + 1 /\ Touches(PathsOf(doing[t])) /\ PathsOf(doing[t]) \in PathSets
      /\ remote' = remote
      /\ \A p \in SyncPaths : p \notin PathsOf(doing[t]) => truth'[p] = truth[p]
      /\ \A p \in SyncPaths : p \in PathsOf(doing[t]) => truth'[p] = local'[p].ver
  BY LocalFacts
<1>6. sync'.tar = sync.tar /\ IndexKept
  BY <1>5, TouchesFields, IndexSame DEF Basics, TypeOK, SamePush, SamePatch, SameScan
<1>7. \A p \in SyncPaths : KnownOrNew(local'[p], TRUE, dir) /\ KnownOrNew(remote'[p], TRUE, dir)
  BY <1>3, <1>4, <1>5, KnownFacts DEF Basics, KnownOrNew
<1>8. \A x \in sync'.tar : KnownOrNew(x[2], TRUE, dir)
  BY <1>6, KnownFacts DEF Basics, KnownOrNew
<1>9. \A p \in SyncPaths : truth'[p] \in {truth[p], local'[p].ver, remote'[p].ver}
  BY <1>5
<1>10. QED
  BY <1>5, <1>6, <1>7, <1>8, <1>9, VersionsKept DEF Basics

LEMMA UnmarkedVersions ==
  ASSUME Basics, TypeOK', VersionsOK, NEW t \in Threads, Unmarked(t)
  PROVE  VersionsOK'
<1>1. /\ doing[t].pc = "local" /\ doing[t].op = "write" /\ doing[t].p \in SyncPaths
      /\ nextVer' = nextVer + 1 /\ Touches({doing[t].p}) /\ remote' = remote
      /\ \A p \in SyncPaths : p # doing[t].p => truth'[p] = truth[p]
      /\ truth'[doing[t].p] = local'[doing[t].p].ver
  BY UnmarkedFacts
<1>2. doing[t] \in CallRecords /\ doing[t].op \in Kinds /\ doing[t].q \in SyncPaths
  BY <1>1, ThreadFacts
<1>3. LocalCan(doing[t]) /\ local' = LocalMade(doing[t])
  BY DEF Unmarked
<1>4. PICK dir \in BOOLEAN : \A p \in SyncPaths : KnownOrNew(LocalMade(doing[t])[p], TRUE, dir)
  BY <1>1, <1>2, <1>3, MadeVersions DEF Basics
<1>5. {doing[t].p} \in PathSets
  BY <1>1 DEF PathSets
<1>6. sync'.tar = sync.tar /\ IndexKept
  BY <1>1, <1>5, TouchesFields, IndexSame DEF Basics, TypeOK, SamePush, SamePatch, SameScan
<1>7. \A p \in SyncPaths : KnownOrNew(local'[p], TRUE, dir) /\ KnownOrNew(remote'[p], TRUE, dir)
  BY <1>1, <1>3, <1>4, KnownFacts DEF Basics, KnownOrNew
<1>8. \A x \in sync'.tar : KnownOrNew(x[2], TRUE, dir)
  BY <1>6, KnownFacts DEF Basics, KnownOrNew
<1>9. \A p \in SyncPaths : truth'[p] \in {truth[p], local'[p].ver, remote'[p].ver}
  BY <1>1
<1>10. QED
  BY <1>1, <1>6, <1>7, <1>8, <1>9, VersionsKept DEF Basics

LEMMA RemoteWriteVersions ==
  ASSUME Basics, TypeOK', VersionsOK, NEW p \in SyncPaths, NEW now \in {clock, clock + 2}, RemoteWrite(p, now)
  PROVE  VersionsOK'
<1>1. /\ \A x \in SyncPaths : x # p => remote'[x] = remote[x] /\ truth'[x] = truth[x]
      /\ remote'[p].ver = nextVer /\ remote'[p].dir = FALSE /\ truth'[p] = nextVer
      /\ nextVer' = nextVer + 1 /\ Touches({p}) /\ {p} \in PathSets /\ local' = local
  BY RemoteWriteFacts
<1>2. sync'.tar = sync.tar /\ IndexKept
  BY <1>1, TouchesFields, IndexSame DEF Basics, TypeOK, SamePush, SamePatch, SameScan
<1>3. \A x \in SyncPaths : KnownOrNew(local'[x], TRUE, FALSE) /\ KnownOrNew(remote'[x], TRUE, FALSE)
  BY <1>1, KnownFacts DEF Basics, KnownOrNew
<1>4. \A x \in sync'.tar : KnownOrNew(x[2], TRUE, FALSE)
  BY <1>2, KnownFacts DEF Basics, KnownOrNew
<1>5. \A x \in SyncPaths : truth'[x] \in {truth[x], local'[x].ver, remote'[x].ver}
  BY <1>1
<1>6. QED
  BY <1>1, <1>2, <1>3, <1>4, <1>5, VersionsKept DEF Basics

LEMMA MovedVersions ==
  ASSUME Basics, NEW s \in {local, remote}, NEW c, c.p \in SyncPaths, c.q \in SyncPaths, c.p # c.q
  PROVE  \A p \in SyncPaths : KnownOrNew(Moved(s, c)[p], FALSE, FALSE)
<1>1. s \in Sides /\ \A p \in SyncPaths : Known(s[p].ver, s[p].dir)
  BY KnownFacts DEF Basics, TypeOK
<1>2. Known(Absent.ver, Absent.dir)
  BY KnownFacts, AbsentFacts DEF Basics
<1>3. \A p \in SyncPaths : Moved(s, c)[p] \in {Absent, s[c.p], s[p]}
  BY <1>1, MovedFacts
<1>4. QED
  BY <1>1, <1>2, <1>3 DEF KnownOrNew

LEMMA RenameVersions ==
  ASSUME Basics, TypeOK', VersionsOK, NEW t \in Threads, RenameRemote(t) \/ RenameLocal(t)
  PROVE  VersionsOK'
<1> DEFINE c == doing[t]
           ps == {c.p, c.q}
<1>1. /\ nextVer' = nextVer /\ c.p \in SyncPaths /\ c.q \in SyncPaths /\ ps \in PathSets
      /\ Touches(ps) \/ sync' = sync
      /\ remote' = remote \/ (c.p # c.q /\ remote' = Moved(remote, c))
      /\ local' = local \/ (c.p # c.q /\ local' = Moved(local, c))
      /\ truth' = truth \/ truth' = [p \in SyncPaths |-> IF p \in ps THEN remote'[p].ver ELSE truth[p]]
  <2>1. CASE RenameRemote(t)
    BY <2>1, RenameRemoteFacts
  <2>2. CASE RenameLocal(t)
    BY <2>2, RenameLocalFacts
  <2>3. QED
    BY <2>1, <2>2
<1>2. sync'.tar = sync.tar /\ IndexKept
  <2> HIDE DEF ps
  <2>1. QED
    BY <1>1, TouchesFields, IndexSame DEF Basics, TypeOK, SamePush, SamePatch, SameScan
<1>3. \A p \in SyncPaths : KnownOrNew(local[p], FALSE, FALSE) /\ KnownOrNew(remote[p], FALSE, FALSE)
  BY KnownFacts DEF Basics, KnownOrNew
<1>4. \A p \in SyncPaths : KnownOrNew(local'[p], FALSE, FALSE)
  BY <1>1, <1>3, MovedVersions
<1>5. \A p \in SyncPaths : KnownOrNew(remote'[p], FALSE, FALSE)
  BY <1>1, <1>3, MovedVersions
<1>6. \A x \in sync'.tar : KnownOrNew(x[2], FALSE, FALSE)
  BY <1>2, KnownFacts DEF Basics, KnownOrNew
<1>7. \A p \in SyncPaths : truth'[p] \in {truth[p], local'[p].ver, remote'[p].ver}
  <2> HIDE DEF ps, c
  <2>1. QED
    BY <1>1
<1>8. QED
  BY <1>1, <1>2, <1>4, <1>5, <1>6, <1>7, VersionsKept DEF Basics

LEMMA TarVersions ==
  ASSUME Basics, TypeOK', VersionsOK, NEW p \in SyncPaths, Tar(p)
  PROVE  VersionsOK'
<1>1. SyncOnly
  BY TarFacts
<1>2. nextVer' = nextVer /\ truth' = truth /\ local' = local /\ remote' = remote
  BY <1>1, OnlyFacts DEF Basics, SyncFrame
<1>3. CASE changes[p] /\ ~There(local[p])
  <2>1. sync' = [sync EXCEPT !.push = "failed"]
    BY <1>3, TarFacts
  <2>2. sync'.tar = sync.tar /\ IndexKept
    BY <2>1, PushFields, IndexSame DEF Basics, TypeOK, SamePatch, SameScan
  <2>3. QED
    BY <1>2, <2>2, VersionsSame DEF Basics
<1>4. CASE ~(changes[p] /\ ~There(local[p]))
  <2>1. PICK e \in Entries : /\ e = IF changes[p] THEN local[p] ELSE Absent
                             /\ sync' = [sync EXCEPT !.visited = @ \cup {p}, !.tar = @ \cup {<<p, e>>}]
    BY <1>4, TarFacts
  <2>2. sync'.tar = sync.tar \cup {<<p, e>>} /\ IndexKept
    BY <2>1, TarFields, IndexSame DEF Basics, SameScan
  <2>3. Known(e.ver, e.dir)
    BY <2>1, KnownFacts, AbsentFacts DEF Basics
  <2>4. \A x \in SyncPaths : KnownOrNew(local'[x], FALSE, FALSE) /\ KnownOrNew(remote'[x], FALSE, FALSE)
    BY <1>2, KnownFacts DEF Basics, KnownOrNew
  <2>5. \A x \in sync'.tar : KnownOrNew(x[2], FALSE, FALSE)
    BY <2>2, <2>3, KnownFacts DEF Basics, KnownOrNew
  <2>6. QED
    BY <1>2, <2>2, <2>4, <2>5, VersionsKept DEF Basics
<1>5. QED
  BY <1>3, <1>4

LEMMA PatchVersions ==
  ASSUME Basics, TypeOK', VersionsOK, Patch \/ PatchFails
  PROVE  VersionsOK'
<1>1. /\ remote' \in {remote, Patched}
      /\ \E s \in {"reset", "failed"} : sync' = [sync EXCEPT !.push = s]
      /\ local' = local /\ nextVer' = nextVer /\ truth' = truth
  BY PatchFacts
<1>2. sync'.tar = sync.tar /\ IndexKept
  <2>1. CASE sync' = [sync EXCEPT !.push = "reset"]
    BY <2>1, PushFields, IndexSame DEF Basics, TypeOK, SamePatch, SameScan
  <2>2. CASE sync' = [sync EXCEPT !.push = "failed"]
    BY <2>2, PushFields, IndexSame DEF Basics, TypeOK, SamePatch, SameScan
  <2>3. QED
    BY <1>1, <2>1, <2>2
<1>3. \A p \in SyncPaths : KnownOrNew(Patched[p], FALSE, FALSE)
  BY PatchedFacts, KnownFacts DEF Basics, KnownOrNew
<1>4. \A p \in SyncPaths : KnownOrNew(local'[p], FALSE, FALSE) /\ KnownOrNew(remote'[p], FALSE, FALSE)
  BY <1>1, <1>3, KnownFacts DEF Basics, KnownOrNew
<1>5. \A x \in sync'.tar : KnownOrNew(x[2], FALSE, FALSE)
  BY <1>2, KnownFacts DEF Basics, KnownOrNew
<1>6. QED
  BY <1>1, <1>2, <1>4, <1>5, VersionsKept DEF Basics

LEMMA CopyVersions ==
  ASSUME Basics, TypeOK', VersionsOK, NEW p \in SyncPaths, Pull(p) \/ PullFails(p) \/ Stamp(p)
  PROVE  VersionsOK'
<1>1. /\ SyncFrame /\ sync'.tar = sync.tar /\ IndexKept
      /\ \A x \in SyncPaths : x # p => local'[x] = local[x]
      /\ \/ local'[p].ver = remote[p].ver /\ local'[p].dir = remote[p].dir
         \/ local'[p].ver = sync.index[p].ver /\ local'[p].dir = sync.index[p].dir
         \/ local'[p].ver = local[p].ver /\ local'[p].dir = local[p].dir
  <2>1. CASE Pull(p)
    BY <2>1, PullFacts, PullFields, IndexSame DEF Basics, TypeOK, SamePush, SamePatch, SameScan, Pulled
  <2>2. CASE Stamp(p)
    BY <2>2, StampFacts, StampFields, IndexSame DEF Basics, TypeOK, SamePush, SamePatch, SameScan
  <2>3. CASE PullFails(p)
    BY <2>3, PullFailsFacts, PullFailsFields, IndexSame DEF Basics, TypeOK, FaultKeeps, SamePush, SamePatch, SameScan, Pulled
  <2>4. QED
    BY <2>1, <2>2, <2>3
<1>2. remote' = remote /\ nextVer' = nextVer /\ truth' = truth
  BY <1>1 DEF SyncFrame
<1>3. \A x \in SyncPaths : KnownOrNew(local'[x], FALSE, FALSE) /\ KnownOrNew(remote'[x], FALSE, FALSE)
  BY <1>1, <1>2, KnownFacts DEF Basics, KnownOrNew
<1>4. \A x \in sync'.tar : KnownOrNew(x[2], FALSE, FALSE)
  BY <1>1, KnownFacts DEF Basics, KnownOrNew
<1>5. QED
  BY <1>1, <1>2, <1>3, <1>4, VersionsKept DEF Basics

LEMMA CutVersions ==
  ASSUME Basics, TypeOK', VersionsOK, NEW p \in SyncPaths, PullCut(p)
  PROVE  VersionsOK'
<1> DEFINE d == Pulled(p).dir
<1>1. /\ \A x \in SyncPaths : x # p => local'[x] = local[x]
      /\ local'[p].ver = nextVer /\ local'[p].dir = d
      /\ nextVer' = nextVer + 1 /\ remote' = remote /\ truth' = truth
  BY PullCutFacts
<1>2. sync'.tar = sync.tar /\ IndexKept
  BY PullCutFields, IndexSame DEF Basics, TypeOK, FaultKeeps, SamePush, SamePatch, SameScan
<1>3. d \in BOOLEAN
  BY SideFacts DEF Basics, TypeOK, Syncs, Pulled
<1> HIDE DEF d
<1>4. \A x \in SyncPaths : KnownOrNew(local'[x], TRUE, d) /\ KnownOrNew(remote'[x], TRUE, d)
  BY <1>1, KnownFacts DEF Basics, KnownOrNew
<1>5. \A x \in sync'.tar : KnownOrNew(x[2], TRUE, d)
  BY <1>2, KnownFacts DEF Basics, KnownOrNew
<1>6. QED
  BY <1>1, <1>2, <1>3, <1>4, <1>5, VersionsKept DEF Basics

\* The steps that write neither side
LEMMA OtherVersions ==
  ASSUME Basics, TypeOK', VersionsOK,
         \/ \E t \in Threads : \/ \E op \in SyncOps[t], p, q \in SyncPaths : CallBegins(t, op, p, q)
                               \/ Refused(t) \/ Record(t) \/ RenameDir(t) \/ CallsSync(t)
         \/ Fires \/ Scanned \/ ScanFails \/ End \/ TarDone \/ Reset
         \/ \E p \in SyncPaths : PullScan(p) \/ PushScan(p) \/ MkdirFails(p) \/ StampFails(p)
  PROVE  VersionsOK'
<1>1. ASSUME sync' = sync \/ (\E by \in {"timer"} \cup Threads : Starts(by)) \/ StartFails \/ End,
             nextVer' = nextVer, truth' = truth, local' = local, remote' = remote
      PROVE  VersionsOK'
  <2>1. sync'.tar \subseteq sync.tar /\ IndexKept
    BY <1>1, StartsFields, EndFacts, QuietFields, IndexSame DEF StartFails, Basics
  <2>2. QED
    BY <1>1, <2>1, VersionsSame DEF Basics
<1>2. ASSUME NEW t \in Threads, NEW op \in SyncOps[t], NEW p \in SyncPaths, NEW q \in SyncPaths, CallBegins(t, op, p, q)
      PROVE  VersionsOK'
  BY <1>1, <1>2 DEF CallBegins, world, marks
<1>3. ASSUME NEW t \in Threads, Refused(t)
      PROVE  VersionsOK'
  BY <1>1, <1>3, RefusedFacts
<1>4. ASSUME NEW t \in Threads, Record(t)
      PROVE  VersionsOK'
  <2>1. /\ nextVer' = nextVer /\ truth' = truth /\ local' = local /\ remote' = remote
        /\ Touches({doing[t].p, doing[t].q}) /\ {doing[t].p, doing[t].q} \in PathSets
    BY <1>4, RecordFacts
  <2>2. sync'.tar = sync.tar /\ IndexKept
    BY <2>1, TouchesFields, IndexSame DEF SameScan, Basics, TypeOK, SamePush, SamePatch
  <2>3. QED
    BY <2>1, <2>2, VersionsSame DEF Basics
<1>5. ASSUME NEW t \in Threads, RenameDir(t)
      PROVE  VersionsOK'
  BY <1>1, <1>5 DEF RenameDir, world, marks, counts
<1>6. ASSUME NEW t \in Threads, CallsSync(t)
      PROVE  VersionsOK'
  BY <1>1, <1>6 DEF CallsSync, Starts, StartFails, world, marks, counts
<1>7. CASE Fires
  BY <1>1, <1>7 DEF Fires, Starts, StartFails, world, marks, counts
<1>8. CASE End
  BY <1>1, <1>8, EndFacts
<1>9. CASE Scanned
  <2>1. sync'.tar = sync.tar /\ IndexKept /\ SyncOnly
    BY <1>9, ScannedFields, IndexSame DEF SameScan, Basics, Scanned
  <2>2. QED
    BY <2>1, OnlyFacts, VersionsSame DEF Basics, SyncFrame
<1>10. CASE TarDone
  <2>1. sync' = [sync EXCEPT !.push = "patch"] /\ SyncOnly
    BY <1>10 DEF TarDone
  <2>2. sync'.tar = sync.tar /\ IndexKept
    BY <2>1, PushFields, IndexSame DEF SameScan, Basics, TypeOK, SamePatch
  <2>3. QED
    BY <2>1, <2>2, OnlyFacts, VersionsSame DEF Basics, SyncFrame
<1>11. CASE Reset
  <2>1. /\ sync' = [sync EXCEPT !.push = "no"]
        /\ nextVer' = nextVer /\ truth' = truth /\ local' = local /\ remote' = remote
    BY <1>11 DEF Reset, world, marks, counts
  <2>2. sync'.tar = sync.tar /\ IndexKept
    BY <2>1, PushFields, IndexSame DEF SameScan, Basics, TypeOK, SamePatch
  <2>3. QED
    BY <2>1, <2>2, VersionsSame DEF Basics
<1>12. ASSUME NEW p \in SyncPaths, PullScan(p)
      PROVE  VersionsOK'
  <2>1. sync'.tar = sync.tar /\ IndexKept /\ SyncOnly
    BY <1>12, PullScanFields, IndexSame DEF SameScan, Basics, TypeOK, PullScan, SamePush, SamePatch
  <2>2. QED
    BY <2>1, OnlyFacts, VersionsSame DEF Basics, SyncFrame
<1>13. ASSUME NEW p \in SyncPaths, PushScan(p)
      PROVE  VersionsOK'
  <2>1. sync'.tar = sync.tar /\ IndexKept
    BY <1>13, PushScanFields, IndexSame DEF SameScan, Basics, TypeOK, SamePush, SamePatch
  <2>2. SyncFrame /\ local' = local
    BY <1>13, PushScanFacts
  <2>3. QED
    BY <2>1, <2>2, VersionsSame DEF Basics, SyncFrame
<1>14. CASE ScanFails
  <2>1. sync'.tar = sync.tar /\ IndexKept
    BY <1>14, ScanFailsFields, IndexSame DEF SameScan, Basics, TypeOK, SamePatch
  <2>2. SyncFrame /\ local' = local
    BY <1>14, ScanFailsFacts
  <2>3. QED
    BY <2>1, <2>2, VersionsSame DEF Basics, SyncFrame
<1>15. ASSUME NEW p \in SyncPaths, MkdirFails(p) \/ StampFails(p)
      PROVE  VersionsOK'
  <2>1. sync'.tar = sync.tar /\ IndexKept
    BY <1>15, MkdirFailsFields, StampFailsFields, IndexSame DEF FaultKeeps, SameScan, Basics, TypeOK, SamePush, SamePatch
  <2>2. SyncFrame /\ local' = local
    BY <1>15, StillFacts
  <2>3. QED
    BY <2>1, <2>2, VersionsSame DEF Basics, SyncFrame
<1>16. QED
  BY <1>2, <1>3, <1>4, <1>5, <1>6, <1>7, <1>8, <1>9, <1>10, <1>11, <1>12, <1>13, <1>14, <1>15

LEMMA VersionsStep ==
  ASSUME Basics, VersionsOK, SyncNext
  PROVE  VersionsOK'
<1>1. TypeOK'
  BY BasicsStep
<1>2. CASE \E t \in Threads : Local(t)
  BY <1>1, <1>2, LocalVersions
<1>3. CASE \E t \in Threads : RenameRemote(t) \/ RenameLocal(t)
  BY <1>1, <1>3, RenameVersions
<1>4. CASE \E p \in SyncPaths : Tar(p)
  BY <1>1, <1>4, TarVersions
<1>5. CASE Patch \/ PatchFails
  BY <1>1, <1>5, PatchVersions
<1>6. CASE \E p \in SyncPaths : Pull(p) \/ PullFails(p) \/ Stamp(p)
  BY <1>1, <1>6, CopyVersions
<1>7. CASE \E p \in SyncPaths, now \in {clock, clock + 2} : RemoteWrite(p, now)
  BY <1>1, <1>7, RemoteWriteVersions
<1>8. CASE \/ \E t \in Threads : \/ \E op \in SyncOps[t], p, q \in SyncPaths : CallBegins(t, op, p, q)
                                 \/ Refused(t) \/ Record(t) \/ RenameDir(t) \/ CallsSync(t)
           \/ Fires \/ Scanned \/ ScanFails \/ End \/ TarDone \/ Reset
           \/ \E p \in SyncPaths : PullScan(p) \/ PushScan(p) \/ MkdirFails(p) \/ StampFails(p)
  BY <1>1, <1>8, OtherVersions
<1>9. CASE (\E t \in Threads : Unmarked(t)) \/ \E p \in SyncPaths : PullCut(p)
  BY <1>1, <1>9, UnmarkedVersions, CutVersions
<1>10. QED
  BY <1>2, <1>3, <1>4, <1>5, <1>6, <1>7, <1>8, <1>9 DEF SyncNext, SyncStep, SyncFault, CallStep

-----------------------------------------------------------------------------
(* What is recorded is due to be pushed.                                   *)

LEMMA DueKept ==
  ASSUME DueOK, changes' = changes, armed' = armed, failed' = failed, SamePhase, sync'.push = sync.push
  PROVE  DueOK'
BY DEF DueOK, PushIsDue, SamePhase

\* A Sync that runs, and is not past the push
LEMMA DueOfSync ==
  ASSUME sync'.on, ~(sync'.pc = "sync" /\ sync'.push = "no")
  PROVE  DueOK'
BY DEF DueOK, PushIsDue

LEMMA RecordDue ==
  ASSUME Basics, DueOK, NEW t \in Threads, Record(t)
  PROVE  DueOK'
<1> DEFINE p == RecPath(doing[t])
           ex == RecEx(doing[t])
<1>1. /\ armed' = (armed \/ ~TakesBack(p, ex)) /\ failed' = (failed /\ TakesBack(p, ex))
      /\ Touches({doing[t].p, doing[t].q}) /\ {doing[t].p, doing[t].q} \in PathSets
  BY RecordFacts
<1>2. SamePhase /\ sync'.push = sync.push
  BY <1>1, TouchesFields DEF Basics, TypeOK, SamePush
<1> HIDE DEF p, ex
<1>3. CASE ~TakesBack(p, ex)
  BY <1>1, <1>3 DEF DueOK, PushIsDue
<1>4. CASE TakesBack(p, ex)
  <2>1. changes # NoChange
    BY <1>4 DEF TakesBack, NoChange
  <2>2. armed' = armed /\ failed' = failed
    BY <1>1, <1>4 DEF Basics, TypeOK
  <2>3. QED
    BY <1>2, <2>1, <2>2 DEF DueOK, PushIsDue, SamePhase
<1>5. QED
  BY <1>3, <1>4

LEMMA StartsDue ==
  ASSUME TypeOK, NEW by \in {"timer"} \cup Threads, Starts(by) \/ StartFails
  PROVE  DueOK'
<1>1. CASE Starts(by)
  <2>1. sync'.on /\ sync'.pc = "scan"
    BY <1>1, StartsFields
  <2>2. QED
    BY <2>1, DueOfSync
<1>2. CASE StartFails
  BY <1>2 DEF StartFails, DueOK, PushIsDue
<1>3. QED
  BY <1>1, <1>2

LEMMA ScannedDue ==
  ASSUME Basics, Scanned
  PROVE  DueOK'
<1>1. /\ sync.pc = "scan" /\ changes' = changes
      /\ sync'.on = sync.on /\ sync'.push = IF DOMAIN changes = {} THEN "no" ELSE "tar"
  BY ScannedFields, OnlyFacts DEF Scanned, Basics
<1>2. sync.on
  BY <1>1, OnFacts
<1>3. CASE DOMAIN changes = {}
  <2>1. changes = NoChange
    BY <1>3 DEF NoChange, Basics, TypeOK
  <2>2. QED
    BY <1>1, <2>1 DEF DueOK, PushIsDue
<1>4. CASE DOMAIN changes # {}
  BY <1>1, <1>2, <1>4, DueOfSync
<1>5. QED
  BY <1>3, <1>4

LEMMA PushDue ==
  ASSUME Basics, NEW s \in {"patch", "reset", "failed"}, sync.push # "no", sync' = [sync EXCEPT !.push = s]
  PROVE  DueOK'
<1>1. sync.on /\ sync \in Syncs
  BY OnFacts
<1>2. sync'.on = sync.on /\ sync'.push = s
  BY <1>1, PushFields DEF SamePhase
<1>3. QED
  BY <1>1, <1>2, DueOfSync

LEMMA TarDue ==
  ASSUME Basics, NEW p \in SyncPaths, Tar(p)
  PROVE  DueOK'
<1>1. sync.push = "tar"
  BY TarFacts
<1>2. CASE changes[p] /\ ~There(local[p])
  BY <1>1, <1>2, TarFacts, PushDue
<1>3. CASE ~(changes[p] /\ ~There(local[p]))
  <2>1. PICK e \in Entries : sync' = [sync EXCEPT !.visited = @ \cup {p}, !.tar = @ \cup {<<p, e>>}]
    BY <1>3, TarFacts
  <2>2. SamePhase /\ sync'.push = sync.push
    BY <2>1, TarFields DEF Basics
  <2>3. QED
    BY <1>1, <2>2, OnFacts, DueOfSync DEF SamePhase
<1>4. QED
  BY <1>2, <1>3

LEMMA EndDue ==
  ASSUME Basics, DueOK, End
  PROVE  DueOK'
<1>1. /\ sync.pc = "sync" /\ sync.push \in {"no", "failed"} /\ sync' = Quiet
      /\ failed' = (failed \/ sync.err \/ sync.push = "failed") /\ changes' = changes /\ armed' = armed
  BY EndFacts
<1>2. QED
  BY <1>1, QuietFields DEF DueOK, PushIsDue

\* The steps that leave the record and the timer
LEMMA QuietDue ==
  ASSUME Basics, DueOK,
         \/ \E t \in Threads : \/ \E op \in SyncOps[t], p, q \in SyncPaths : CallBegins(t, op, p, q)
                               \/ Local(t) \/ Unmarked(t) \/ Refused(t)
                               \/ RenameDir(t) \/ RenameRemote(t) \/ RenameLocal(t)
         \/ \E p \in SyncPaths : \/ PullScan(p) \/ Pull(p) \/ Stamp(p)
                                \/ PullFails(p) \/ PullCut(p) \/ MkdirFails(p) \/ StampFails(p)
         \/ \E p \in SyncPaths, now \in {clock, clock + 2} : RemoteWrite(p, now)
  PROVE  DueOK'
<1>1. ASSUME changes' = changes, armed' = armed, failed' = failed,
             sync' = sync \/ \E ps \in PathSets : Touches(ps)
      PROVE  DueOK'
  <2>1. SamePhase /\ sync'.push = sync.push
    BY <1>1, TouchesFields DEF Basics, TypeOK, SamePhase, SamePush
  <2>2. QED
    BY <1>1, <2>1, DueKept
<1>2. ASSUME NEW t \in Threads, NEW op \in SyncOps[t], NEW p \in SyncPaths, NEW q \in SyncPaths, CallBegins(t, op, p, q)
      PROVE  DueOK'
  BY <1>1, <1>2 DEF CallBegins, record, marks
<1>3. ASSUME NEW t \in Threads, Local(t)
      PROVE  DueOK'
  BY <1>1, <1>3, LocalFacts
<1>4. ASSUME NEW t \in Threads, Refused(t) \/ RenameDir(t)
      PROVE  DueOK'
  BY <1>1, <1>4 DEF Refused, RenameDir, record, marks
<1>5. ASSUME NEW t \in Threads, RenameRemote(t)
      PROVE  DueOK'
  BY <1>1, <1>5, RenameRemoteFacts
<1>6. ASSUME NEW t \in Threads, RenameLocal(t)
      PROVE  DueOK'
  BY <1>1, <1>6, RenameLocalFacts
<1>7. ASSUME NEW p \in SyncPaths, NEW now \in {clock, clock + 2}, RemoteWrite(p, now)
      PROVE  DueOK'
  BY <1>1, <1>7, RemoteWriteFacts
<1>8. ASSUME NEW p \in SyncPaths, PullScan(p)
      PROVE  DueOK'
  BY <1>8, PullScanFields, OnlyFacts, DueKept DEF Basics, TypeOK, PullScan, SyncFrame, SamePush
<1>9. ASSUME NEW p \in SyncPaths, Pull(p)
      PROVE  DueOK'
  BY <1>9, PullFields, PullFacts, DueKept DEF Basics, TypeOK, SyncFrame, SamePush
<1>10. ASSUME NEW p \in SyncPaths, Stamp(p)
      PROVE  DueOK'
  BY <1>10, StampFields, StampFacts, DueKept DEF Basics, TypeOK, SyncFrame, SamePush
<1>11. ASSUME NEW t \in Threads, Unmarked(t)
      PROVE  DueOK'
  <2>1. /\ changes' = changes /\ armed' = armed /\ failed' = failed
        /\ doing[t].p \in SyncPaths /\ Touches({doing[t].p})
    BY <1>11, UnmarkedFacts
  <2>2. {doing[t].p} \in PathSets
    BY <2>1 DEF PathSets
  <2>3. QED
    BY <1>1, <2>1, <2>2
<1>12. ASSUME NEW p \in SyncPaths, PullFails(p)
      PROVE  DueOK'
  BY <1>12, PullFailsFields, PullFailsFacts, DueKept DEF Basics, TypeOK, SyncFrame, FaultKeeps, SamePush
<1>13. ASSUME NEW p \in SyncPaths, PullCut(p)
      PROVE  DueOK'
  BY <1>13, PullCutFields, PullCutFacts, DueKept DEF Basics, TypeOK, FaultKeeps, SamePush
<1>14. ASSUME NEW p \in SyncPaths, MkdirFails(p) \/ StampFails(p)
      PROVE  DueOK'
  BY <1>14, MkdirFailsFields, StampFailsFields, StillFacts, DueKept DEF Basics, TypeOK, SyncFrame, FaultKeeps, SamePush
<1>15. QED
  BY <1>2, <1>3, <1>4, <1>5, <1>6, <1>7, <1>8, <1>9, <1>10, <1>11, <1>12, <1>13, <1>14

LEMMA DueStep ==
  ASSUME Basics, DueOK, SyncNext
  PROVE  DueOK'
<1>1. TypeOK
  BY DEF Basics
<1>2. CASE \E t \in Threads : Record(t)
  BY <1>2, RecordDue
<1>3. CASE Fires \/ \E t \in Threads : CallsSync(t)
  BY <1>1, <1>3, StartsDue DEF Fires, CallsSync
<1>4. CASE Scanned
  BY <1>4, ScannedDue
<1>5. CASE \E p \in SyncPaths : Tar(p)
  BY <1>5, TarDue
<1>6. CASE TarDone \/ Patch \/ PatchFails
  BY <1>6, PushDue DEF TarDone, Patch, PatchFails
<1>7. CASE Reset
  BY <1>7 DEF Reset, DueOK, PushIsDue
<1>8. CASE End
  BY <1>8, EndDue
<1>9. CASE \E p \in SyncPaths : PushScan(p)
  <2>1. PICK p \in SyncPaths : PushScan(p)
    BY <1>9
  <2>2. sync.pc = "scan" /\ sync.on /\ SamePhase
    BY <1>1, <2>1, PushScanFields, OnFacts DEF PushScan, TypeOK
  <2>3. QED
    BY <2>2, DueOfSync DEF SamePhase
<1>10. CASE \/ \E t \in Threads : \/ \E op \in SyncOps[t], p, q \in SyncPaths : CallBegins(t, op, p, q)
                                  \/ Local(t) \/ Unmarked(t) \/ Refused(t)
                                  \/ RenameDir(t) \/ RenameRemote(t) \/ RenameLocal(t)
            \/ \E p \in SyncPaths : \/ PullScan(p) \/ Pull(p) \/ Stamp(p)
                                   \/ PullFails(p) \/ PullCut(p) \/ MkdirFails(p) \/ StampFails(p)
            \/ \E p \in SyncPaths, now \in {clock, clock + 2} : RemoteWrite(p, now)
  BY <1>10, QuietDue
<1>11. CASE ScanFails
  BY <1>11, ScanFailsFields, ScanFailsFacts, OnFacts, DueOfSync
<1>12. QED
  BY <1>2, <1>3, <1>4, <1>5, <1>6, <1>7, <1>8, <1>9, <1>10, <1>11 DEF SyncNext, SyncStep, SyncFault, CallStep

-----------------------------------------------------------------------------
(* The paths: the steps of calls.                                          *)

Rest == TypeOK /\ CallsOK /\ PhaseOK /\ TarOK /\ VersionsOK

LEMMA RestFacts ==
  ASSUME Rest
  PROVE  Basics
BY VersionsPositive DEF Rest, Basics

\* A call that does not change a path leaves what is said of it, or only says more
LEMMA CallGoesOn ==
  ASSUME NEW t \in Threads, NEW c, TypeOK, doing' = [doing EXCEPT ![t] = c], NEW p,
         Announces(t, p) => c.pc \in {"record", "record2"} /\ p = c.p,
         OnWayAt(t, p) => (c.pc \in {"record", "record2"} /\ p \in {c.p, c.q}) \/ ~Untouched(p)',
         ~MovesAt(t, p)
  PROVE  KeepsCalls(p)
<1>1. doing'[t] = c /\ \A u \in Threads : u # t => doing'[u] = doing[u]
  BY OneCall
<1>2. Announces(t, p) => Announces(t, p)'
  BY <1>1 DEF Announces
<1>3. OnWayAt(t, p) => OnWayAt(t, p)' \/ ~Untouched(p)'
  BY <1>1 DEF OnWayAt
<1>4. \A u \in Threads : u # t => /\ Announces(u, p)' <=> Announces(u, p)
                                  /\ OnWayAt(u, p)' <=> OnWayAt(u, p)
                                  /\ MovesAt(u, p)' <=> MovesAt(u, p)
  BY <1>1 DEF Announces, OnWayAt, MovesAt
<1>5. Announced(p) => Announced(p)'
  BY <1>2, <1>4 DEF Announced
<1>6. OnItsWay(p) => OnItsWay(p)' \/ ~Untouched(p)'
  <2>1. (OnItsWay(p) <=> \E u \in Threads : OnWayAt(u, p)) /\ (OnItsWay(p)' <=> \E u \in Threads : OnWayAt(u, p)')
    BY DEF OnItsWay, OnWayAt
  <2>2. QED
    BY <1>3, <1>4, <2>1
<1>7. Moving(p) => Moving(p)'
  <2>1. (Moving(p) <=> \E u \in Threads : MovesAt(u, p)) /\ (Moving(p)' <=> \E u \in Threads : MovesAt(u, p)')
    BY DEF Moving, MovesAt
  <2>2. QED
    BY <1>4, <2>1
<1>8. QED
  BY <1>5, <1>6, <1>7 DEF KeepsCalls

\* A step that leaves the sides, the record, and the Sync
LEMMA PathsSame ==
  ASSUME PathsOK, local' = local, remote' = remote, recorded' = recorded, changes' = changes, sync' = sync,
         truth' = truth, loose' = loose, fresh' = fresh, \A p \in SyncPaths : KeepsCalls(p)
  PROVE  PathsOK'
<1>1. ASSUME NEW p \in SyncPaths, p \notin loose'
      PROVE  PathOK(p)'
  <2>1. PathOK(p)
    BY <1>1 DEF PathsOK
  <2>2. KeepsPath(p) /\ KeepsNote(p)
    BY DEF KeepsPath, KeepsNote, Ch
  <2>3. QED
    BY <2>1, <2>2, SyncKept, Frame
<1>2. QED
  BY <1>1 DEF PathsOK

LEMMA QuietPaths ==
  ASSUME Basics, PathsOK, NEW t \in Threads,
         \/ \E op \in SyncOps[t], p, q \in SyncPaths : CallBegins(t, op, p, q)
         \/ Refused(t) \/ RenameDir(t)
         \/ StartFails /\ doing' = [doing EXCEPT ![t] = Idle] /\ doing[t].pc \in {"sync", "sync2"}
  PROVE  PathsOK'
<1> DEFINE Leaves == /\ local' = local /\ remote' = remote /\ recorded' = recorded /\ changes' = changes
                     /\ sync' = sync /\ truth' = truth /\ loose' = loose /\ fresh' = fresh
                     /\ doing[t].pc \in {"idle", "local", "sync", "sync2"}
                     /\ \E c : doing' = [doing EXCEPT ![t] = c]
<1>1. Leaves
  <2>1. ASSUME NEW op \in SyncOps[t], NEW p \in SyncPaths, NEW q \in SyncPaths, CallBegins(t, op, p, q)
        PROVE  Leaves
    BY <2>1, IdleFacts DEF CallBegins, world, record, marks
  <2>2. CASE Refused(t)
    BY <2>2, RefusedFacts
  <2>3. CASE RenameDir(t)
    <3>1. \E c : doing' = [doing EXCEPT ![t] = c]
      BY <2>3 DEF RenameDir
    <3>2. QED
      BY <2>3, <3>1 DEF RenameDir, world, record, marks
  <2>4. CASE StartFails /\ doing' = [doing EXCEPT ![t] = Idle] /\ doing[t].pc \in {"sync", "sync2"}
    BY <2>4 DEF StartFails, world
  <2>5. QED
    BY <2>1, <2>2, <2>3, <2>4
<1>2. PICK c : doing' = [doing EXCEPT ![t] = c]
  BY <1>1
<1>3. ASSUME NEW p \in SyncPaths
      PROVE  KeepsCalls(p)
  <2>1. ~Announces(t, p) /\ ~OnWayAt(t, p) /\ ~MovesAt(t, p)
    BY <1>1 DEF Announces, OnWayAt, MovesAt
  <2>2. QED
    BY <1>2, <2>1, CallGoesOn DEF Basics
<1>4. QED
  BY <1>1, <1>3, PathsSame

\* A path that a call has changed on the local side, and has yet to record
LEMMA ChangedPath ==
  ASSUME Rest, NEW p \in SyncPaths, PathOK(p), truth[p] = local[p].ver,
         truth'[p] = local'[p].ver, remote'[p] = remote[p], p \notin fresh', KeepsNote(p), KeepsSync(p),
         Announced(p)', ~Untouched(p)', recorded,
         There(local'[p]) => truth'[p] # remote[p].ver
  PROVE  PathOK(p)'
<1>1. /\ sync'.on = sync.on /\ sync'.pc = sync.pc /\ sync'.scan = sync.scan /\ sync'.push = sync.push
      /\ recorded' = recorded /\ (Ch(p)' <=> Ch(p))
  BY DEF KeepsSync, SamePhase, KeepsNote
<1>2. sync.pc = "sync" => sync.on
  BY OnFacts, RestFacts
<1>3. Newest(p)' /\ Noted(p)' /\ NoteOK(p)'
  BY DEF Newest, Noted, NoteOK
<1>4. Patches(p)'
  BY DEF Patches
<1>5. PushOK(p)'
  <2>1. sync'.pc = "sync" => p \in sync'.touched
    BY <1>1, <1>2 DEF Untouched
  <2>2. QED
    BY <1>1, <2>1 DEF PathOK, PushOK, Pushing, KeepsSync, KeepsPatch
<1>6. PullOK(p)'
  BY DEF PullOK
<1>7. ScanOK(p)'
  <2>1. sync'.index[p] = sync.index[p]
    BY DEF KeepsSync, KeepsScan
  <2>2. QED
    BY <1>1, <2>1 DEF PathOK, ScanOK, IsNews, RemoteFirst
<1>8. CanPull(p)' /\ FreshOK(p)'
  BY DEF CanPull, RemoteOnly, FreshOK
<1>9. QED
  BY <1>3, <1>4, <1>5, <1>6, <1>7, <1>8 DEF PathOK

LEMMA LocalPaths ==
  ASSUME Rest, PathsOK, NEW t \in Threads, Local(t)
  PROVE  PathsOK'
<1> DEFINE c == doing[t]
           ps == PathsOf(c)
           d == [c EXCEPT !.pc = "record"]
<1>0. Basics
  BY RestFacts
<1>1. /\ c.pc = "local" /\ ps \in PathSets
      /\ \A p \in SyncPaths : p \notin ps => local'[p] = local[p] /\ truth'[p] = truth[p]
      /\ \A p \in SyncPaths : p \in ps => local'[p].ver \in {0, nextVer} /\ truth'[p] = local'[p].ver
      /\ \A p \in ps : p \notin loose' => truth[p] = local[p].ver
      /\ loose \subseteq loose' /\ fresh' = fresh \ ps
      /\ doing' = [doing EXCEPT ![t] = d] /\ Touches(ps)
      /\ remote' = remote /\ recorded' = recorded /\ changes' = changes
  BY <1>0, LocalFacts
<1>2. c \in CallRecords /\ CallOK(t, c, sync, recorded)
  BY <1>0, ThreadFacts
<1>3. d \in CallRecords /\ d.pc = "record" /\ d.op = c.op /\ d.p = c.p /\ d.q = c.q
  BY <1>2, PcOnly
<1>4. recorded
  BY <1>1, <1>2 DEF CallOK
<1>5. doing'[t] = d
  BY <1>0, <1>1, OneCall DEF Basics
<1>6. sync \in Syncs
  BY <1>0 DEF Basics, TypeOK
<1>7. ps \subseteq {d.p, d.q}
  <2> HIDE DEF d
  <2>1. QED
    BY <1>3 DEF PathsOf
<1> HIDE DEF d, ps
<1>8. sync'.on = sync.on /\ sync'.touched = IF sync.on THEN sync.touched \cup ps ELSE sync.touched
  BY <1>1, <1>6, TouchesFields DEF SamePhase
<1>9. ASSUME NEW p \in SyncPaths, p \notin loose'
      PROVE  PathOK(p)'
  <2>1. PathOK(p)
    BY <1>1, <1>9 DEF PathsOK
  <2>2. KeepsSync(p)
    BY <1>1, <1>6, TouchesKeeps
  <2>3. KeepsNote(p)
    BY <1>1 DEF KeepsNote, Ch
  <2>4. CASE p \notin ps
    <3>1. KeepsPath(p)
      BY <1>1, <2>4 DEF KeepsPath
    <3>2. ~Announces(t, p) /\ ~OnWayAt(t, p) /\ ~MovesAt(t, p)
      BY <1>1 DEF Announces, OnWayAt, MovesAt
    <3>3. KeepsCalls(p)
      BY <1>0, <1>1, <3>2, CallGoesOn DEF Basics
    <3>4. QED
      BY <2>1, <2>2, <2>3, <3>1, <3>3, Frame
  <2>5. CASE p \in ps
    <3>1. truth[p] = local[p].ver /\ truth'[p] = local'[p].ver /\ p \notin fresh' /\ remote'[p] = remote[p]
      BY <1>1, <1>9, <2>5
    <3>2. Announced(p)'
      BY <1>3, <1>5, <1>7, <2>5 DEF Announced, Announces
    <3>3. ~Untouched(p)'
      BY <1>8, <2>5 DEF Untouched
    <3>4. There(local'[p]) => truth'[p] # remote[p].ver
      <4>1. remote[p].ver < nextVer
        BY <1>0, KnownFacts, SideFacts DEF Basics, TypeOK, Rest, VersionsOK
      <4>2. local'[p].ver \in {0, nextVer} /\ nextVer \in Nat /\ remote[p].ver \in Nat
        BY <1>0, <1>1, <2>5, SideFacts DEF Basics, TypeOK
      <4>3. QED
        BY <3>1, <4>1, <4>2 DEF There
    <3>5. QED
      BY <1>4, <2>1, <2>2, <2>3, <3>1, <3>2, <3>3, <3>4, ChangedPath
  <2>6. QED
    BY <2>4, <2>5
<1>10. QED
  BY <1>9 DEF PathsOK

LEMMA UnmarkedPaths ==
  ASSUME Rest, PathsOK, NEW t \in Threads, Unmarked(t)
  PROVE  PathsOK'
<1> DEFINE w == doing[t].p
<1>0. Basics
  BY RestFacts
<1>1. /\ doing[t].pc = "local" /\ w \in SyncPaths
      /\ \A p \in SyncPaths : p # w => local'[p] = local[p] /\ truth'[p] = truth[p]
      /\ loose' = loose \cup {w} /\ fresh' = fresh \ {w}
      /\ doing' = [doing EXCEPT ![t] = Idle] /\ Touches({w})
      /\ remote' = remote /\ recorded' = recorded /\ changes' = changes
  BY <1>0, UnmarkedFacts
<1>2. sync \in Syncs /\ {w} \in PathSets
  BY <1>0, <1>1 DEF Basics, TypeOK, PathSets
<1> HIDE DEF w
<1>3. ASSUME NEW p \in SyncPaths, p \notin loose'
      PROVE  PathOK(p)'
  <2>1. PathOK(p) /\ p # w
    BY <1>1, <1>3 DEF PathsOK
  <2>2. KeepsSync(p)
    BY <1>1, <1>2, TouchesKeeps
  <2>3. KeepsNote(p) /\ KeepsPath(p)
    BY <1>1, <2>1 DEF KeepsNote, KeepsPath, Ch
  <2>4. ~Announces(t, p) /\ ~OnWayAt(t, p) /\ ~MovesAt(t, p)
    BY <1>1 DEF Announces, OnWayAt, MovesAt
  <2>5. KeepsCalls(p)
    BY <1>0, <1>1, <2>4, CallGoesOn DEF Basics
  <2>6. QED
    BY <2>1, <2>2, <2>3, <2>5, Frame
<1>4. QED
  BY <1>3 DEF PathsOK

\* A path that is recorded as it is
LEMMA RecordedPath ==
  ASSUME Rest, NEW p \in SyncPaths, NEW ex \in BOOLEAN, PathOK(p), KeepsPath(p), KeepsSync(p), ~Untouched(p)',
         recorded, recorded' = recorded, ~Misrecords(p, ex), TakesBack(p, ex) => ~Ch(p)',
         ~TakesBack(p, ex) => Ch(p)' /\ changes'[p] = ex
  PROVE  PathOK(p)'
<1>1. /\ sync'.on = sync.on /\ sync'.pc = sync.pc /\ sync'.scan = sync.scan /\ sync'.push = sync.push
      /\ sync'.index[p] = sync.index[p]
  BY DEF KeepsSync, SamePhase, KeepsScan
<1>2. sync.pc = "sync" => sync.on
  BY OnFacts, RestFacts
<1>3. /\ ~Pushing /\ (TakesBack(p, ex) => ~There(remote[p])) /\ ex = There(local[p]) /\ truth[p] = local[p].ver
      /\ There(local[p]) => ~(remote[p].time - local[p].time >= 2)
  BY DEF Misrecords, There
<1>4. local'[p] = local[p] /\ remote'[p] = remote[p] /\ truth'[p] = truth[p] /\ (p \in fresh' => p \in fresh)
  BY DEF KeepsPath
<1>5. There(local[p]) => remote[p].time - local[p].time < 2
  <2>1. local[p].time \in Nat /\ remote[p].time \in Nat
    BY SideFacts DEF Rest, TypeOK
  <2>2. QED
    BY <1>3, <2>1
<1>6. sync'.push \notin {"tar", "patch", "reset"}
  BY <1>1, <1>3 DEF Pushing
<1>7. TakesBack(p, ex) => truth[p] = remote[p].ver
  BY <1>3 DEF TakesBack, There
<1>8. Newest(p)' /\ Noted(p)'
  BY <1>3, <1>4, <1>7 DEF PathOK, Newest, Noted
<1>9. NoteOK(p)'
  BY <1>3, <1>4, <1>5 DEF NoteOK
<1>10. Patches(p)'
  BY <1>6 DEF Patches
<1>11. PushOK(p)'
  <2>1. sync'.pc = "sync" => p \in sync'.touched
    BY <1>1, <1>2 DEF Untouched
  <2>2. QED
    BY <1>6, <2>1 DEF PushOK, Pushing
<1>12. PullOK(p)'
  BY DEF PullOK
<1>13. ScanOK(p)'
  BY <1>1, <1>4 DEF PathOK, ScanOK, IsNews, RemoteFirst
<1>14. CanPull(p)' /\ FreshOK(p)'
  BY <1>3, <1>4 DEF PathOK, CanPull, RemoteOnly, FreshOK
<1>15. QED
  BY <1>8, <1>9, <1>10, <1>11, <1>12, <1>13, <1>14 DEF PathOK

LEMMA RecordPaths ==
  ASSUME Rest, PathsOK, NEW t \in Threads, Record(t)
  PROVE  PathsOK'
<1> DEFINE c == doing[t]
           d == RecCall(c)
           ps == {c.p, c.q}
<1>0. Basics
  BY RestFacts
<1>1. RecPath(c) \in SyncPaths /\ RecEx(c) \in BOOLEAN
  BY <1>0, RecordFacts
<1>2. PICK rp \in SyncPaths, ex \in BOOLEAN : rp = RecPath(c) /\ ex = RecEx(c)
  BY <1>1
<1>3. /\ c.pc \in {"record", "record2"} /\ ps \in PathSets
      /\ changes' = Recorded(rp, ex)
      /\ loose' = IF Misrecords(rp, ex) THEN loose \cup {rp} ELSE loose
      /\ doing' = [doing EXCEPT ![t] = d] /\ Touches(ps)
      /\ recorded' = recorded /\ truth' = truth /\ fresh' = fresh /\ local' = local /\ remote' = remote
  BY <1>0, <1>2, RecordFacts
<1>4. c \in CallRecords /\ CallOK(t, c, sync, recorded)
  BY <1>0, ThreadFacts
<1>5. recorded /\ sync \in Syncs
  BY <1>0, <1>3, <1>4 DEF CallOK, Basics, TypeOK
<1>6. /\ \A x : x # rp => (Ch(x)' <=> Ch(x)) /\ (Ch(x) => changes'[x] = changes[x])
      /\ TakesBack(rp, ex) => ~Ch(rp)'
      /\ ~TakesBack(rp, ex) => Ch(rp)' /\ changes'[rp] = ex
  BY <1>0, <1>3, RecordedFacts DEF Basics
<1>7. sync'.on = sync.on /\ sync'.touched = IF sync.on THEN sync.touched \cup ps ELSE sync.touched
  <2> HIDE DEF ps
  <2>1. QED
    BY <1>3, <1>5, TouchesFields DEF SamePhase
<1>8. rp \in ps
  BY <1>2 DEF RecPath
<1>9. ASSUME NEW p \in SyncPaths, p \notin loose'
      PROVE  PathOK(p)'
  <2>1. PathOK(p)
    BY <1>3, <1>9 DEF PathsOK
  <2>2. KeepsSync(p)
    <3> HIDE DEF ps
    <3>1. QED
      BY <1>3, <1>5, TouchesKeeps
  <2>3. KeepsPath(p)
    BY <1>3 DEF KeepsPath
  <2>4. p \in ps => ~Untouched(p)'
    <3> HIDE DEF ps
    <3>1. QED
      BY <1>7 DEF Untouched
  <2>5. CASE p = rp
    <3>1. ~Misrecords(rp, ex)
      BY <1>3, <1>9, <2>5
    <3>2. ~Untouched(p)'
      BY <1>8, <2>4, <2>5
    <3> HIDE DEF c, ps
    <3>3. QED
      BY <1>3, <1>5, <1>6, <2>1, <2>2, <2>3, <2>5, <3>1, <3>2, RecordedPath
  <2>6. CASE p # rp
    <3>1. KeepsNote(p)
      BY <1>3, <1>6, <2>6 DEF KeepsNote
    <3>2. Announces(t, p) => d.pc \in {"record", "record2"} /\ p = d.p
      <4>1. ASSUME Announces(t, p)
            PROVE  c.op = "rename" /\ c.pc = "record" /\ p = c.p
        BY <1>3, <1>4, <1>2, <2>6, <4>1 DEF Announces, RecPath, CallOK
      <4>2. ASSUME c.op = "rename" /\ c.pc = "record"
            PROVE  d.pc = "record2" /\ d.p = c.p
        <5>1. d = [c EXCEPT !.pc = "record2"]
          BY <4>2 DEF RecCall
        <5>2. QED
          BY <1>4, <5>1, PcOnly
      <4>3. QED
        BY <4>1, <4>2
    <3>3. OnWayAt(t, p) => ~Untouched(p)'
      BY <2>4 DEF OnWayAt
    <3>4. ~MovesAt(t, p)
      BY <1>3 DEF MovesAt
    <3> HIDE DEF d
    <3>5. KeepsCalls(p)
      BY <1>0, <1>3, <3>2, <3>3, <3>4, CallGoesOn DEF Basics
    <3>6. QED
      BY <2>1, <2>2, <2>3, <3>1, <3>5, Frame
  <2>7. QED
    BY <2>5, <2>6
<1>10. QED
  BY <1>9 DEF PathsOK

\* A path that the remote, or both sides, have just changed and nothing is to be pushed of
LEMMA RemoteNewest ==
  ASSUME Rest, NEW p \in SyncPaths, PathOK(p), ~Ch(p), KeepsNote(p), KeepsSync(p), ~Untouched(p)',
         truth'[p] = remote'[p].ver, p \notin fresh', ScanOK(p)', CanPull(p)'
  PROVE  PathOK(p)'
<1>1. sync'.push = sync.push /\ KeepsPatch(p) /\ ~Ch(p)'
  BY DEF KeepsSync, KeepsNote
<1>2. Newest(p)' /\ Noted(p)' /\ NoteOK(p)'
  BY <1>1 DEF Newest, Noted, NoteOK
<1>3. sync.push \in {"tar", "patch"} => p \notin sync.visited
  BY DEF PathOK, PushOK
<1>4. Patches(p)'
  <2>1. ASSUME sync'.push \in {"tar", "patch"}, NEW x \in sync'.tar, x[1] = p
        PROVE  FALSE
    BY <1>1, <1>3, <2>1 DEF KeepsPatch, Rest, TarOK
  <2>2. QED
    BY <2>1 DEF Patches
<1>5. PushOK(p)'
  BY <1>1, <1>3 DEF PushOK, KeepsPatch
<1>6. PullOK(p)'
  BY DEF PullOK
<1>7. FreshOK(p)'
  BY DEF FreshOK
<1>8. QED
  BY <1>2, <1>4, <1>5, <1>6, <1>7 DEF PathOK

\* The scan of the first Sync is over
LEMMA NoScan ==
  ASSUME Rest, NEW p, ~Untouched(p)', recorded', ~(sync'.on /\ sync'.scan), sync'.on = sync.on, sync'.pc = sync.pc
  PROVE  ScanOK(p)'
<1>1. sync.pc = "scan" => sync.on
  BY OnFacts, RestFacts
<1>2. QED
  BY <1>1 DEF ScanOK

LEMMA RenameRemotePaths ==
  ASSUME Rest, PathsOK, NEW t \in Threads, RenameRemote(t)
  PROVE  PathsOK'
<1> DEFINE c == doing[t]
           ps == {c.p, c.q}
           ok == remote[c.p].dir /\ ~There(remote[c.q])
           d == IF ok THEN [doing[t] EXCEPT !.pc = "rename"] ELSE Idle
<1>0. Basics
  BY RestFacts
<1>1. /\ c.pc = "remote" /\ c.p \in SyncPaths /\ c.q \in SyncPaths /\ ps \in PathSets
      /\ doing' = [doing EXCEPT ![t] = d]
      /\ local' = local /\ recorded' = recorded /\ changes' = changes
      /\ ok => /\ c.p # c.q /\ remote' = Moved(remote, c)
               /\ truth' = [p \in SyncPaths |-> IF p \in ps THEN remote'[p].ver ELSE truth[p]]
               /\ loose' = loose \cup {p \in ps : Overlaps(p)}
               /\ fresh' = fresh \ ps /\ Touches(ps)
      /\ ~ok => /\ remote' = remote /\ truth' = truth /\ loose' = loose /\ fresh' = fresh
                /\ sync' = sync
  BY <1>0, RenameRemoteFacts
<1>2. recorded /\ ~(sync.on /\ sync.scan)
  BY <1>0, RenameRemoteBasics
<1>3. c \in CallRecords
  BY <1>0, ThreadFacts
<1>4. \A p : ~Announces(t, p) /\ ~OnWayAt(t, p) /\ ~MovesAt(t, p)
  BY <1>1 DEF Announces, OnWayAt, MovesAt
<1>5. doing'[t] = d
  BY <1>0, <1>1, OneCall, ZenonT(60) DEF Basics
<1>6. ok => d.pc = "rename" /\ d.p = c.p
  BY <1>3, PcOnly
<1> HIDE DEF d
<1>7. ASSUME NEW p \in SyncPaths
      PROVE  KeepsCalls(p)
  BY <1>0, <1>1, <1>4, CallGoesOn DEF Basics
<1>8. sync \in Syncs /\ remote \in Sides
  BY <1>0 DEF Basics, TypeOK
<1>9. CASE ~ok
  BY <1>1, <1>7, <1>9, PathsSame
<1>10. ASSUME ok, NEW p \in SyncPaths, p \notin loose'
       PROVE  PathOK(p)'
  <2>1. PathOK(p)
    BY <1>1, <1>10 DEF PathsOK
  <2>2. Touches(ps) /\ ps \in PathSets
    BY <1>1, <1>10
  <2>3. KeepsSync(p) /\ SamePhase /\ (p \in ps => ~Untouched(p)')
    <3> HIDE DEF ps
    <3>1. QED
      BY <1>8, <2>2, TouchesKeeps, TouchesFields DEF Untouched, SamePhase
  <2>4. KeepsNote(p)
    BY <1>1 DEF KeepsNote, Ch
  <2>5. CASE p \notin ps
    <3>1. remote'[p] = remote[p]
      BY <1>1, <1>8, <1>10, <2>5, MovedFacts
    <3>2. KeepsPath(p)
      BY <1>1, <1>10, <2>5, <3>1 DEF KeepsPath
    <3>3. QED
      BY <1>7, <2>1, <2>3, <2>4, <3>2, Frame
  <2>6. CASE p \in ps
    <3>1. ~Overlaps(p)
      BY <1>1, <1>10, <2>6
    <3>2. truth[p] = remote[p].ver /\ ~Ch(p)
      BY <3>1 DEF Overlaps, Ch
    <3>3. truth'[p] = remote'[p].ver /\ p \notin fresh' /\ local'[p] = local[p]
      BY <1>1, <1>10, <2>6
    <3>4. ~Untouched(p)'
      BY <2>3, <2>6
    <3>5. ScanOK(p)'
      BY <1>1, <1>2, <2>3, <3>4, NoScan DEF SamePhase
    <3>6. CanPull(p)'
      <4>1. CASE p = c.p
        <5>1. Moving(p)'
          BY <1>5, <1>6, <1>10, <4>1 DEF Moving
        <5>2. QED
          BY <3>4, <5>1 DEF CanPull
      <4>2. CASE p = c.q
        <5>1. ~There(remote[p]) /\ remote'[p] = remote[c.p] /\ There(remote'[p])
          <6>1. remote'[p] = remote[c.p] /\ ~There(remote[p])
            BY <1>1, <1>8, <1>10, <4>2, MovedFacts
          <6>2. remote[c.p].ver # 0
            BY <1>1, <1>8, <1>10, SideFacts
          <6>3. QED
            BY <6>1, <6>2 DEF There
        <5>2. There(local[p]) => Moving(p)
          BY <2>1, <3>2, <5>1 DEF PathOK, CanPull, RemoteOnly, There
        <5>3. There(local[p]) => Moving(p)'
          BY <1>7, <5>2 DEF KeepsCalls
        <5>4. ~There(local[p]) => ~local[p].dir
          BY <1>0, SideFacts DEF There, Basics, TypeOK
        <5>5. QED
          BY <3>3, <3>4, <5>1, <5>3, <5>4 DEF CanPull
      <4>3. QED
        BY <2>6, <4>1, <4>2
    <3>7. QED
      BY <2>1, <2>3, <2>4, <3>2, <3>3, <3>4, <3>5, <3>6, RemoteNewest
  <2>7. QED
    BY <2>5, <2>6
<1>11. QED
  BY <1>9, <1>10 DEF PathsOK

LEMMA RenameLocalPaths ==
  ASSUME Rest, PathsOK, NEW t \in Threads, RenameLocal(t)
  PROVE  PathsOK'
<1> DEFINE c == doing[t]
           ps == {c.p, c.q}
           ok == local[c.p].dir /\ ~There(local[c.q])
           d == IF ok THEN [doing[t] EXCEPT !.pc = "sync2"] ELSE Idle
<1>0. Basics
  BY RestFacts
<1>1. /\ c.pc = "rename" /\ c.p \in SyncPaths /\ c.q \in SyncPaths /\ ps \in PathSets
      /\ doing' = [doing EXCEPT ![t] = d]
      /\ remote' = remote /\ recorded' = recorded /\ changes' = changes /\ truth' = truth
      /\ Touches(ps)
      /\ fresh' = fresh \ ps
      /\ loose' = loose \cup {p \in ps : Overlaps(p) \/ truth[p] # local'[p].ver}
      /\ ok => c.p # c.q /\ local' = Moved(local, c)
      /\ ~ok => local' = local
  BY <1>0, RenameLocalFacts
<1>2. recorded /\ ~(sync.on /\ sync.scan)
  BY <1>0, RenameLocalBasics
<1>3. \A p : ~Announces(t, p) /\ ~OnWayAt(t, p) /\ (p \notin ps => ~MovesAt(t, p))
  BY <1>1 DEF Announces, OnWayAt, MovesAt
<1>4. sync \in Syncs /\ local \in Sides
  BY <1>0 DEF Basics, TypeOK
<1> HIDE DEF d
<1>5. ASSUME NEW p \in SyncPaths, p \notin loose'
      PROVE  PathOK(p)'
  <2>1. PathOK(p)
    BY <1>1, <1>5 DEF PathsOK
  <2>2. KeepsSync(p) /\ SamePhase /\ (p \in ps => ~Untouched(p)')
    <3> HIDE DEF ps
    <3>1. QED
      BY <1>1, <1>4, TouchesKeeps, TouchesFields DEF Untouched, SamePhase
  <2>3. KeepsNote(p)
    BY <1>1 DEF KeepsNote, Ch
  <2>4. CASE p \notin ps
    <3>1. local'[p] = local[p]
      BY <1>1, <1>4, <2>4, MovedFacts
    <3>2. KeepsPath(p)
      BY <1>1, <2>4, <3>1 DEF KeepsPath
    <3>3. KeepsCalls(p)
      BY <1>0, <1>1, <1>3, <2>4, CallGoesOn DEF Basics
    <3>4. QED
      BY <2>1, <2>2, <2>3, <3>2, <3>3, Frame
  <2>5. CASE p \in ps
    <3>1. ~Overlaps(p) /\ truth[p] = local'[p].ver
      BY <1>1, <1>5, <2>5
    <3>2. truth[p] = remote[p].ver /\ ~Ch(p)
      BY <3>1 DEF Overlaps, Ch
    <3>3. truth'[p] = remote'[p].ver /\ p \notin fresh'
      BY <1>1, <2>5, <3>2
    <3>4. ~Untouched(p)'
      BY <2>2, <2>5
    <3>5. ScanOK(p)'
      BY <1>1, <1>2, <2>2, <3>4, NoScan DEF SamePhase
    <3>6. CanPull(p)'
      BY <1>1, <3>1 DEF CanPull, RemoteOnly
    <3>7. QED
      BY <2>1, <2>2, <2>3, <3>2, <3>3, <3>4, <3>5, <3>6, RemoteNewest
  <2>6. QED
    BY <2>4, <2>5
<1>6. QED
  BY <1>5 DEF PathsOK

LEMMA RemoteWritePaths ==
  ASSUME Rest, PathsOK, NEW w \in SyncPaths, NEW now \in {clock, clock + 2}, RemoteWrite(w, now)
  PROVE  PathsOK'
<1>0. Basics
  BY RestFacts
<1>1. /\ ~remote[w].dir /\ now \in Nat /\ {w} \in PathSets
      /\ \A x \in SyncPaths : x # w => remote'[x] = remote[x] /\ truth'[x] = truth[x]
      /\ remote'[w].ver = nextVer /\ remote'[w].time = now /\ ~remote'[w].dir /\ truth'[w] = nextVer
      /\ loose' = loose \cup (IF Overlaps(w) \/ (There(local[w]) /\ now - local[w].time < 2) THEN {w} ELSE {})
      /\ fresh' = fresh \ {w}
      /\ Touches({w})
      /\ local' = local /\ recorded' = recorded /\ changes' = changes /\ doing' = doing
  BY <1>0, RemoteWriteFacts
<1>2. sync \in Syncs /\ nextVer \in Nat /\ nextVer # 0
  BY <1>0 DEF Basics, TypeOK
<1>3. ASSUME NEW p \in SyncPaths, p \notin loose'
      PROVE  PathOK(p)'
  <2>1. PathOK(p)
    BY <1>1, <1>3 DEF PathsOK
  <2>2. KeepsSync(p) /\ (p = w => ~Untouched(p)')
    BY <1>1, <1>2, TouchesKeeps, TouchesFields DEF Untouched, SamePhase
  <2>3. KeepsNote(p)
    BY <1>1 DEF KeepsNote, Ch
  <2>4. KeepsCalls(p)
    BY <1>1, CallsSame
  <2>5. CASE p # w
    <3>1. KeepsPath(p)
      BY <1>1, <2>5 DEF KeepsPath
    <3>2. QED
      BY <2>1, <2>2, <2>3, <2>4, <3>1, Frame
  <2>6. CASE p = w
    <3>1. ~Overlaps(p) /\ ~(There(local[p]) /\ now - local[p].time < 2)
      BY <1>1, <1>3, <2>6
    <3>2. truth[p] = remote[p].ver /\ ~Ch(p)
      BY <3>1 DEF Overlaps, Ch
    <3>3. /\ truth'[p] = remote'[p].ver /\ truth'[p] = nextVer /\ p \notin fresh' /\ local'[p] = local[p]
          /\ remote'[p].time = now /\ There(remote'[p]) /\ ~Untouched(p)'
      BY <1>1, <1>2, <2>2, <2>6 DEF There
    <3>4. /\ local[p].ver < nextVer /\ local[p].ver \in Nat
          /\ \A v \in Nat, d, e \in BOOLEAN : Known(v, d) /\ Known(v, e) => d = e
          /\ Known(local[p].ver, local[p].dir) /\ Known(remote[p].ver, remote[p].dir)
          /\ local[p].dir \in BOOLEAN /\ remote[p].dir \in BOOLEAN /\ remote[p].ver \in Nat /\ local[p].time \in Nat
      BY <1>0, KnownFacts, SideFacts DEF Basics, TypeOK, Rest, VersionsOK
    <3>5. ScanOK(p)'
      <4>1. sync'.pc = sync.pc /\ sync'.scan = sync.scan /\ sync'.index[p] = sync.index[p]
        BY <2>2 DEF KeepsSync, SamePhase, KeepsScan
      <4>2. local[p].ver # nextVer
        BY <1>2, <3>4
      <4>3. ~recorded => RemoteFirst(p)'
        BY <1>1, <1>2, <3>1, <3>3, <3>4 DEF RemoteFirst, There
      <4>4. IsNews(p)' <=> IsNews(p)
        BY <3>3, <4>1 DEF IsNews
      <4>5. QED
        BY <1>1, <2>1, <3>2, <3>3, <4>1, <4>2, <4>3, <4>4 DEF PathOK, ScanOK
    <3>6. CanPull(p)'
      <4>1. local[p].dir => Moving(p)
        <5>1. ASSUME local[p].dir
              PROVE  local[p].ver # remote[p].ver
          BY <1>1, <2>6, <3>4, <5>1
        <5>2. QED
          BY <2>1, <3>2, <5>1 DEF PathOK, CanPull, RemoteOnly
      <4>2. local[p].dir => Moving(p)'
        BY <2>4, <4>1 DEF KeepsCalls
      <4>3. There(local[p]) => now - local[p].time >= 2
        BY <1>1, <3>1, <3>4
      <4>4. ~remote'[p].dir
        BY <1>1, <2>6
      <4>5. QED
        BY <3>3, <4>2, <4>3, <4>4 DEF CanPull
    <3>7. QED
      BY <2>1, <2>2, <2>3, <3>2, <3>3, <3>5, <3>6, RemoteNewest
  <2>7. QED
    BY <2>5, <2>6
<1>4. QED
  BY <1>3 DEF PathsOK

-----------------------------------------------------------------------------
(* The paths: the steps of the Sync.                                       *)

LEMMA StartsPaths ==
  ASSUME Rest, PathsOK, NEW by \in {"timer"} \cup Threads, Starts(by), doing' = doing
  PROVE  PathsOK'
<1>1. /\ ~sync.on /\ recorded' = TRUE /\ local' = local /\ remote' = remote /\ changes' = changes
      /\ truth' = truth /\ loose' = loose /\ fresh' = fresh
  BY DEF Starts, world, counts, marks
<1>2. /\ sync'.pc = "scan" /\ sync'.scan = ~recorded /\ sync'.index = remote
      /\ sync'.pulled = {} /\ sync'.walked = {} /\ sync'.pull = {} /\ sync'.stamp = {}
      /\ sync'.push = "no" /\ sync'.visited = {} /\ sync'.tar = {}
  BY StartsFields DEF Rest
<1>3. sync.pc # "scan"
  BY <1>1 DEF Rest, PhaseOK
<1>4. ASSUME NEW p \in SyncPaths, p \notin loose'
      PROVE  PathOK(p)'
  <2>1. PathOK(p)
    BY <1>1, <1>4 DEF PathsOK
  <2>2. KeepsCalls(p) /\ (Announced(p)' <=> Announced(p)) /\ (Moving(p)' <=> Moving(p)) /\ (Ch(p)' <=> Ch(p))
    BY <1>1, CallsSame DEF Announced, Announces, Moving, Ch
  <2>3. /\ local[p].time \in Nat /\ remote[p].time \in Nat /\ local[p].ver \in Nat
        /\ remote[p].ver = 0 => remote[p].time = 0
    BY SideFacts DEF Rest, TypeOK
  <2>4. ~recorded => IF RemoteFirst(p) THEN truth[p] = remote[p].ver
                     ELSE truth[p] = local[p].ver /\ (There(local[p]) => truth[p] # remote[p].ver)
    BY <2>1 DEF PathOK, ScanOK
  <2>5. Newest(p)'
    BY <1>1, <2>1 DEF PathOK, Newest
  <2>6. Noted(p)'
    <3>1. ~recorded /\ truth[p] # remote[p].ver => IsNews(p)'
      BY <1>1, <1>2, <2>3, <2>4 DEF IsNews, There, RemoteFirst
    <3>2. QED
      BY <1>1, <1>2, <1>3, <2>1, <2>2, <3>1 DEF PathOK, Noted
  <2>7. NoteOK(p)'
    BY <1>1, <2>1, <2>2 DEF PathOK, NoteOK
  <2>8. Patches(p)' /\ PushOK(p)' /\ PullOK(p)'
    BY <1>2 DEF Patches, PushOK, PullOK, Pushing
  <2>9. ScanOK(p)'
    <3>1. ~recorded /\ There(local[p]) /\ (~There(remote[p]) \/ remote[p].time < local[p].time) =>
             truth[p] = local[p].ver /\ truth[p] # remote[p].ver
      BY <2>3, <2>4 DEF There, RemoteFirst
    <3>2. QED
      BY <1>1, <1>2, <3>1 DEF ScanOK, IsNews
  <2>10. CanPull(p)'
    BY <1>1, <1>2, <2>1, <2>2 DEF PathOK, CanPull, RemoteOnly
  <2>11. FreshOK(p)'
    BY <1>1, <2>1, <2>2 DEF PathOK, FreshOK
  <2>12. QED
    BY <2>5, <2>6, <2>7, <2>8, <2>9, <2>10, <2>11 DEF PathOK
<1>5. QED
  BY <1>4 DEF PathsOK

\* What an index with the entry that is there says of what would be pulled
LEMMA PullIsRight ==
  ASSUME Rest, NEW p \in SyncPaths, PathOK(p), sync.pc = "scan", Untouched(p), ~OnItsWay(p),
         There(sync.index[p]), ~Tombstone(p), Newer(p)
  PROVE  truth[p] = remote[p].ver /\ ~Ch(p) /\ remote[p] = sync.index[p]
<1>1. remote[p] = sync.index[p] /\ recorded
  BY RestFacts, OnFacts DEF PathOK, ScanOK, Untouched
<1>2. ~Announced(p)
  BY AnnouncedOnWay
<1>3. ~Ch(p)
  <2>1. SUFFICES ASSUME Ch(p)
                 PROVE  FALSE
    OBVIOUS
  <2>2. changes[p] = There(local[p]) /\ (There(local[p]) => remote[p].time - local[p].time < 2)
    BY <1>2, <2>1 DEF PathOK, NoteOK
  <2>3. There(local[p])
    BY <2>1, <2>2 DEF Tombstone, Ch
  <2>4. remote[p].time - local[p].time >= 2
    BY <1>1, <2>3 DEF Newer
  <2>5. remote[p].time \in Nat /\ local[p].time \in Nat
    BY SideFacts DEF Rest, TypeOK
  <2>6. QED
    BY <2>2, <2>3, <2>4, <2>5
<1>4. ~IsNews(p)
  <2>1. remote[p].time \in Nat /\ local[p].time \in Nat
    BY SideFacts DEF Rest, TypeOK
  <2>2. QED
    BY <1>1, <2>1 DEF IsNews, Newer
<1>5. QED
  BY <1>1, <1>2, <1>3, <1>4 DEF PathOK, Noted

LEMMA PullScanPaths ==
  ASSUME Rest, PathsOK, NEW w \in SyncPaths, PullScan(w)
  PROVE  PathsOK'
<1> DEFINE new == There(sync.index[w]) /\ ~Tombstone(w) /\ Newer(w)
<1>0. Basics
  BY RestFacts
<1>1. SyncOnly /\ sync.pc = "scan"
  BY DEF PullScan
<1>2. /\ remote' = remote /\ recorded' = recorded /\ doing' = doing /\ truth' = truth /\ fresh' = fresh
      /\ local' = local /\ changes' = changes /\ loose' = loose
  BY <1>0, <1>1, OnlyFacts DEF Basics, SyncFrame
<1>3. /\ SamePhase /\ SamePush /\ sync'.stamp = sync.stamp /\ sync'.missed = sync.missed /\ sync'.touched = sync.touched
      /\ sync'.index = sync.index /\ sync'.walked = sync.walked
      /\ sync'.pulled = sync.pulled \cup {w}
      /\ sync'.pull = IF new THEN sync.pull \cup {w} ELSE sync.pull
  BY <1>0, PullScanFields DEF Basics, TypeOK
<1>4. ASSUME NEW p \in SyncPaths, p \notin loose'
      PROVE  PathOK(p)'
  <2>1. PathOK(p)
    BY <1>2, <1>4 DEF PathsOK
  <2>2. KeepsPath(p) /\ KeepsNote(p) /\ KeepsCalls(p)
    BY <1>2, CallsSame DEF KeepsPath, KeepsNote, Ch
  <2>3. CASE p # w
    <3>1. KeepsSync(p)
      <4> HIDE DEF new
      <4>1. QED
        BY <1>3, <2>3 DEF KeepsSync, KeepsPatch, KeepsScan, KeepsPull, SamePush, SamePatch
    <3>2. QED
      BY <2>1, <2>2, <3>1, Frame
  <2>4. CASE p = w
    <3>1. Newest(p)' /\ Noted(p)' /\ NoteOK(p)'
      BY <1>2, <1>3, <2>1 DEF PathOK, Newest, Noted, IsNews, NoteOK, Announced, Announces, Ch, SamePhase
    <3>2. Patches(p)' /\ PushOK(p)'
      BY <1>2, <1>3, <2>1 DEF PathOK, Patches, PushOK, Pushing, Announced, Announces, Ch, SamePhase, SamePush, SamePatch
    <3>3. ScanOK(p)' /\ FreshOK(p)'
      BY <1>2, <1>3, <2>1 DEF PathOK, ScanOK, IsNews, RemoteFirst, FreshOK, Untouched, Ch, SamePhase
    <3>4. /\ Untouched(p)' <=> Untouched(p)
          /\ OnItsWay(p)' <=> OnItsWay(p)
          /\ Moving(p)' <=> Moving(p)
          /\ Newer(p)' <=> Newer(p)
          /\ Ch(p)' <=> Ch(p)
      BY <1>2, <1>3 DEF Untouched, OnItsWay, Moving, Newer, Ch, SamePhase
    <3>5. PullOK(p)'
      <4>1. sync.stamp = {}
        BY <1>0, <1>1, OnFacts
      <4>2. new /\ Untouched(p) /\ ~OnItsWay(p) =>
               /\ truth[p] = remote[p].ver /\ ~Ch(p) /\ remote[p] = sync.index[p]
               /\ There(sync.index[p]) /\ Newer(p)
        BY <1>1, <2>1, <2>4, PullIsRight
      <4> HIDE DEF new
      <4>3. p \in sync'.pull => new \/ p \in sync.pull
        BY <1>3, <2>4
      <4>4. QED
        BY <1>1, <1>2, <1>3, <2>1, <3>4, <4>1, <4>2, <4>3 DEF PathOK, PullOK
    <3>6. CanPull(p)'
      <4>1. ASSUME RemoteOnly(p), Untouched(p), ~OnItsWay(p), ~Moving(p)
            PROVE  new
        <5>1. There(remote[p]) /\ remote[p] = sync.index[p]
          BY <1>1, <2>1, <4>1 DEF PathOK, CanPull, ScanOK
        <5>2. ~Tombstone(p)
          BY <2>1, <4>1 DEF PathOK, NoteOK, RemoteOnly, Tombstone, Ch
        <5>3. Newer(p)
          BY <2>1, <4>1, <5>1 DEF PathOK, CanPull, Newer
        <5>4. QED
          BY <2>4, <5>1, <5>2, <5>3
      <4>2. RemoteOnly(p)' <=> RemoteOnly(p)
        BY <1>2 DEF RemoteOnly
      <4> HIDE DEF new
      <4>3. new => p \in sync'.pull
        BY <1>3, <2>4
      <4>4. QED
        BY <1>2, <2>1, <3>4, <4>1, <4>2, <4>3 DEF PathOK, CanPull
    <3>7. QED
      BY <3>1, <3>2, <3>3, <3>5, <3>6 DEF PathOK
  <2>5. QED
    BY <2>3, <2>4
<1>5. QED
  BY <1>4 DEF PathsOK

LEMMA PushScanPaths ==
  ASSUME Rest, PathsOK, NEW w \in SyncPaths, PushScan(w)
  PROVE  PathsOK'
<1> DEFINE new == There(local[w]) /\ (~There(sync.index[w]) \/ sync.index[w].time < local[w].time)
<1>0. Basics
  BY RestFacts
<1>1. /\ sync.pc = "scan" /\ sync.scan
      /\ SyncFrame /\ local' = local /\ loose' = loose
      /\ \A x : x # w => (Ch(x)' <=> Ch(x)) /\ (Ch(x) => changes'[x] = changes[x])
      /\ new => Ch(w)' /\ changes'[w] = TRUE
      /\ ~new => changes' = changes
  BY <1>0, PushScanFacts
<1>2. /\ remote' = remote /\ recorded' = recorded /\ doing' = doing /\ truth' = truth /\ fresh' = fresh
  BY <1>1 DEF SyncFrame
<1>3. /\ SamePhase /\ SamePush /\ SamePull /\ sync'.touched = sync.touched
      /\ sync'.index = sync.index /\ sync'.pulled = sync.pulled
      /\ sync'.walked = sync.walked \cup {w}
  BY <1>0, PushScanFields DEF Basics, TypeOK
<1>4. sync.push = "no" /\ sync.stamp = {}
  BY <1>0, <1>1, OnFacts
<1>5. ASSUME NEW p \in SyncPaths, p \notin loose'
      PROVE  PathOK(p)'
  <2>1. PathOK(p)
    BY <1>1, <1>5 DEF PathsOK
  <2>2. KeepsPath(p) /\ KeepsCalls(p)
    BY <1>1, <1>2, CallsSame DEF KeepsPath
  <2>3. CASE p # w
    <3> HIDE DEF new
    <3>1. KeepsNote(p)
      BY <1>1, <1>2, <2>3 DEF KeepsNote
    <3>2. KeepsSync(p)
      BY <1>3, <2>3 DEF KeepsSync, KeepsPatch, KeepsScan, KeepsPull, SamePush, SamePatch, SamePull
    <3>3. QED
      BY <2>1, <2>2, <3>1, <3>2, Frame
  <2>4. CASE p = w
    <3>1. /\ Untouched(p)' <=> Untouched(p)
          /\ OnItsWay(p)' <=> OnItsWay(p)
          /\ Moving(p)' <=> Moving(p)
          /\ Announced(p)' <=> Announced(p)
          /\ Newer(p)' <=> Newer(p)
      BY <1>1, <1>2, <1>3 DEF Untouched, OnItsWay, Moving, Announced, Announces, Newer, SamePhase
    <3>2. Newest(p)' /\ ScanOK(p)' /\ CanPull(p)'
      BY <1>1, <1>2, <1>3, <2>1, <3>1 DEF PathOK, Newest, ScanOK, IsNews, RemoteFirst, CanPull, RemoteOnly, SamePhase, SamePull
    <3>3. Patches(p)' /\ PushOK(p)'
      BY <1>1, <1>3, <1>4 DEF Patches, PushOK, Pushing, SamePhase, SamePush
    <3>4. CASE new
      <4>1. There(local[p]) /\ (~There(sync.index[p]) \/ sync.index[p].time < local[p].time)
        BY <2>4, <3>4
      <4>2. Ch(p)' /\ changes'[p] = TRUE
        BY <1>1, <2>4, <3>4
      <4>3. truth[p] = local[p].ver /\ truth[p] # remote[p].ver /\ remote[p] = sync.index[p]
        BY <1>1, <2>1, <4>1 DEF PathOK, ScanOK, IsNews
      <4>4. remote[p].time - local[p].time < 2
        <5>1. remote[p].time \in Nat /\ local[p].time \in Nat /\ (remote[p].ver = 0 => remote[p].time = 0)
          BY SideFacts, <1>0 DEF Basics, TypeOK
        <5>2. remote[p].time = 0 \/ remote[p].time < local[p].time
          BY <4>1, <4>3, <5>1 DEF There
        <5>3. QED
          BY <5>1, <5>2
      <4>5. Noted(p)' /\ NoteOK(p)'
        BY <1>1, <1>2, <4>1, <4>2, <4>3, <4>4 DEF Noted, NoteOK, There
      <4>6. ~(p \in sync.pull /\ Untouched(p) /\ ~OnItsWay(p)) /\ p \notin fresh
        BY <2>1, <4>3 DEF PathOK, PullOK, FreshOK
      <4>7. PullOK(p)' /\ FreshOK(p)'
        BY <1>2, <1>3, <1>4, <3>1, <4>6 DEF PullOK, FreshOK, SamePull
      <4>8. QED
        BY <3>2, <3>3, <4>5, <4>7 DEF PathOK
    <3>5. CASE ~new
      <4>1. changes' = changes /\ (Ch(p)' <=> Ch(p))
        BY <1>1, <3>5 DEF Ch
      <4>2. ~IsNews(p)
        BY <2>4, <3>5 DEF IsNews
      <4> HIDE DEF new
      <4>3. Noted(p)' /\ NoteOK(p)'
        BY <1>1, <1>2, <2>1, <3>1, <4>1, <4>2 DEF PathOK, Noted, NoteOK
      <4>4. PullOK(p)' /\ FreshOK(p)'
        BY <1>1, <1>2, <1>3, <1>4, <2>1, <3>1, <4>1 DEF PathOK, PullOK, FreshOK, SamePull, SamePhase
      <4>5. QED
        BY <3>2, <3>3, <4>3, <4>4 DEF PathOK
    <3>6. QED
      BY <3>4, <3>5
  <2>5. QED
    BY <2>3, <2>4
<1>6. QED
  BY <1>5 DEF PathsOK

\* What a step of the push leaves of a path, where the sides and the record are left
LEMMA PushFrame ==
  ASSUME NEW p \in SyncPaths, PathOK(p), SyncFrame, local' = local, changes' = changes,
         SameScan, SamePull, sync'.touched = sync.touched, sync'.on = sync.on, sync'.pc = sync.pc, sync'.scan = sync.scan
  PROVE  /\ Newest(p)' /\ Noted(p)' /\ NoteOK(p)' /\ PullOK(p)' /\ ScanOK(p)' /\ CanPull(p)' /\ FreshOK(p)'
         /\ Announced(p)' <=> Announced(p)
         /\ Ch(p)' <=> Ch(p)
<1>1. /\ Untouched(p)' <=> Untouched(p)
      /\ OnItsWay(p)' <=> OnItsWay(p)
      /\ Moving(p)' <=> Moving(p)
      /\ Announced(p)' <=> Announced(p)
      /\ Ch(p)' <=> Ch(p)
  BY DEF Untouched, OnItsWay, Moving, Announced, Announces, Ch, SyncFrame
<1>2. Newest(p)' /\ Noted(p)' /\ NoteOK(p)'
  BY <1>1 DEF PathOK, Newest, Noted, IsNews, NoteOK, SyncFrame, SameScan
<1>3. PullOK(p)'
  BY <1>1 DEF PathOK, PullOK, Newer, SyncFrame, SamePull, SameScan
<1>4. ScanOK(p)'
  BY <1>1 DEF PathOK, ScanOK, IsNews, RemoteFirst, SyncFrame, SameScan
<1>5. CanPull(p)' /\ FreshOK(p)'
  BY <1>1 DEF PathOK, CanPull, RemoteOnly, FreshOK, SyncFrame, SamePull, SameScan
<1>6. QED
  BY <1>1, <1>2, <1>3, <1>4, <1>5

LEMMA ScannedPaths ==
  ASSUME Rest, PathsOK, Scanned
  PROVE  PathsOK'
<1>0. Basics
  BY RestFacts
<1>1. SyncOnly /\ sync.pc = "scan" /\ sync.pulled = SyncPaths /\ (sync.scan => sync.walked = SyncPaths)
  BY DEF Scanned
<1>2. SyncFrame /\ local' = local /\ changes' = changes /\ loose' = loose
  BY <1>0, <1>1, OnlyFacts DEF Basics
<1>3. /\ SameScan /\ SamePull /\ sync'.touched = sync.touched
      /\ sync'.on = sync.on /\ sync'.scan = sync.scan
      /\ sync'.visited = sync.visited /\ sync'.tar = sync.tar
      /\ sync'.pc = "sync" /\ sync'.must = DOMAIN changes
      /\ sync'.push = IF DOMAIN changes = {} THEN "no" ELSE "tar"
  BY <1>0, ScannedFields DEF Basics
<1>4. sync.tar = {} /\ sync.visited = {} /\ sync.stamp = {} /\ recorded
  BY <1>0, <1>1, OnFacts
<1>5. ASSUME NEW p \in SyncPaths, p \notin loose'
      PROVE  PathOK(p)'
  <2>1. PathOK(p)
    BY <1>2, <1>5 DEF PathsOK
  <2>2. /\ Untouched(p)' <=> Untouched(p)
        /\ OnItsWay(p)' <=> OnItsWay(p)
        /\ Moving(p)' <=> Moving(p)
        /\ Announced(p)' <=> Announced(p)
        /\ Ch(p)' <=> Ch(p)
        /\ remote' = remote /\ recorded' = recorded /\ truth' = truth /\ fresh' = fresh
    BY <1>2, <1>3 DEF Untouched, OnItsWay, Moving, Announced, Announces, Ch, SyncFrame
  <2>3. Newest(p)' /\ Noted(p)' /\ NoteOK(p)'
    BY <1>1, <1>2, <2>1, <2>2 DEF PathOK, Newest, Noted, NoteOK
  <2>4. Patches(p)'
    BY <1>3, <1>4 DEF Patches
  <2>5. PushOK(p)'
    BY <1>3, <1>4, <2>2 DEF PushOK, Pushing, Ch
  <2>6. PullOK(p)'
    BY <1>1, <1>3, <1>4, <2>1, <2>2 DEF PathOK, PullOK, SamePull, SameScan
  <2>7. ScanOK(p)'
    BY <1>3, <1>4, <2>2 DEF ScanOK
  <2>8. CanPull(p)' /\ FreshOK(p)'
    BY <1>1, <1>2, <1>3, <2>1, <2>2 DEF PathOK, CanPull, RemoteOnly, FreshOK, SamePull
  <2>9. QED
    BY <2>3, <2>4, <2>5, <2>6, <2>7, <2>8 DEF PathOK
<1>6. QED
  BY <1>5 DEF PathsOK

\* The scan fails: what it was still to record is lost track of, and nothing is pulled
LEMMA ScanFailsPaths ==
  ASSUME Rest, PathsOK, ScanFails
  PROVE  PathsOK'
<1>0. Basics
  BY RestFacts
<1>1. /\ sync.pc = "scan" /\ SyncFrame /\ changes' = changes /\ local' = local
      /\ loose' = loose \cup {p \in SyncPaths \ sync.walked : sync.scan /\ IsNews(p)}
  BY <1>0, ScanFailsFacts
<1>2. /\ sync'.touched = sync.touched /\ sync'.on = sync.on
      /\ sync'.pc = "sync" /\ sync'.push = "failed"
      /\ sync'.pull = {} /\ sync'.stamp = sync.stamp /\ sync'.missed = SyncPaths
  BY <1>0, ScanFailsFields DEF Basics, TypeOK
<1>3. sync.stamp = {} /\ recorded
  BY <1>0, <1>1, OnFacts
<1>4. ASSUME NEW p \in SyncPaths, p \notin loose'
      PROVE  PathOK(p)'
  <2>1. PathOK(p)
    BY <1>1, <1>4 DEF PathsOK
  <2>2. /\ Moving(p)' <=> Moving(p)
        /\ Announced(p)' <=> Announced(p)
        /\ Ch(p)' <=> Ch(p)
        /\ remote' = remote /\ recorded' = recorded /\ truth' = truth /\ fresh' = fresh
    BY <1>1 DEF Moving, Announced, Announces, Ch, SyncFrame
  <2>3. Newest(p)' /\ Noted(p)' /\ NoteOK(p)'
    BY <1>1, <1>3, <1>4, <2>1, <2>2 DEF PathOK, Newest, Noted, NoteOK
  <2>4. Patches(p)' /\ PushOK(p)' /\ PullOK(p)'
    BY <1>2, <1>3 DEF Patches, PushOK, Pushing, PullOK
  <2>5. ScanOK(p)'
    BY <1>2, <1>3, <2>2 DEF ScanOK
  <2>6. CanPull(p)' /\ FreshOK(p)'
    BY <1>1, <1>2, <2>1, <2>2 DEF PathOK, CanPull, RemoteOnly, FreshOK
  <2>7. QED
    BY <2>3, <2>4, <2>5, <2>6 DEF PathOK
<1>5. QED
  BY <1>4 DEF PathsOK

LEMMA TarPaths ==
  ASSUME Rest, PathsOK, NEW w \in SyncPaths, Tar(w)
  PROVE  PathsOK'
<1>0. Basics
  BY RestFacts
<1>1. sync.push = "tar" /\ Ch(w) /\ SyncOnly
  BY <1>0, TarFacts DEF Ch
<1>2. SyncFrame /\ local' = local /\ changes' = changes /\ loose' = loose
  BY <1>0, <1>1, OnlyFacts DEF Basics
<1>3. CASE changes[w] /\ ~There(local[w])
  <2>1. sync' = [sync EXCEPT !.push = "failed"]
    BY <1>0, <1>3, TarFacts
  <2>2. SamePhase /\ SameScan /\ SamePull /\ sync'.touched = sync.touched /\ sync'.push = "failed"
    BY <1>0, <2>1, PushFields DEF Basics, TypeOK
  <2>3. ASSUME NEW p \in SyncPaths, p \notin loose'
        PROVE  PathOK(p)'
    <3>1. PathOK(p)
      BY <1>2, <2>3 DEF PathsOK
    <3>2. Patches(p)' /\ PushOK(p)'
      BY <2>2 DEF Patches, PushOK, Pushing
    <3>3. QED
      BY <1>2, <2>2, <3>1, <3>2, PushFrame DEF PathOK, SamePhase
  <2>4. QED
    BY <2>3 DEF PathsOK
<1>4. CASE ~(changes[w] /\ ~There(local[w]))
  <2>1. PICK e \in Entries : /\ e = IF changes[w] THEN local[w] ELSE Absent
                             /\ sync' = [sync EXCEPT !.visited = @ \cup {w}, !.tar = @ \cup {<<w, e>>}]
    BY <1>0, <1>4, TarFacts
  <2>2. /\ SamePhase /\ SameScan /\ SamePull /\ sync'.touched = sync.touched
        /\ sync'.push = sync.push /\ sync'.must = sync.must
        /\ sync'.visited = sync.visited \cup {w}
        /\ sync'.tar = sync.tar \cup {<<w, e>>}
    BY <1>0, <2>1, TarFields DEF Basics
  <2>3. ASSUME NEW p \in SyncPaths, p \notin loose'
        PROVE  PathOK(p)'
    <3>1. PathOK(p)
      BY <1>2, <2>3 DEF PathsOK
    <3>2. /\ Announced(p)' <=> Announced(p)
          /\ Ch(p)' <=> Ch(p)
          /\ truth' = truth /\ remote' = remote /\ fresh' = fresh
      BY <1>2, <2>2, <3>1, PushFrame DEF SyncFrame, SamePhase
    <3>3. PushOK(p)'
      BY <1>1, <2>2, <3>1, <3>2 DEF PathOK, PushOK, Pushing, SamePhase
    <3>4. Patches(p)'
      <4>1. ASSUME NEW x \in sync'.tar, x[1] = p
            PROVE  truth[p] = x[2].ver \/ (Announced(p) /\ truth[p] = local[p].ver /\ p \notin fresh)
        <5>1. CASE x \in sync.tar
          BY <1>1, <3>1, <4>1, <5>1 DEF PathOK, Patches
        <5>2. CASE x = <<w, e>>
          <6>1. p = w /\ x[2] = e
            BY <4>1, <5>2
          <6>2. truth[p] = local[p].ver
            BY <1>1, <3>1, <6>1 DEF PathOK, NoteOK
          <6>3. CASE changes[p]
            BY <2>1, <6>1, <6>2, <6>3
          <6>4. CASE ~changes[p]
            <7>1. e.ver = 0
              BY <2>1, <6>1, <6>4, AbsentFacts
            <7>2. There(local[p]) => Announced(p) /\ p \notin fresh
              BY <1>1, <3>1, <6>1, <6>4 DEF PathOK, NoteOK
            <7>3. QED
              BY <6>1, <6>2, <7>1, <7>2 DEF There
          <6>5. QED
            BY <6>3, <6>4
        <5>3. QED
          BY <2>2, <4>1, <5>1, <5>2
      <4>2. QED
        BY <1>2, <3>2, <4>1 DEF Patches
    <3>5. QED
      BY <1>2, <2>2, <3>1, <3>3, <3>4, PushFrame DEF PathOK, SamePhase
  <2>4. QED
    BY <2>3 DEF PathsOK
<1>5. QED
  BY <1>3, <1>4

LEMMA TarDonePaths ==
  ASSUME Rest, PathsOK, TarDone
  PROVE  PathsOK'
<1>0. Basics
  BY RestFacts
<1>1. /\ sync.push = "tar" /\ sync.must \cap DOMAIN changes \subseteq sync.visited
      /\ sync' = [sync EXCEPT !.push = "patch"] /\ SyncOnly
  BY DEF TarDone
<1>2. SyncFrame /\ local' = local /\ changes' = changes /\ loose' = loose
  BY <1>0, <1>1, OnlyFacts DEF Basics
<1>3. SamePhase /\ SameScan /\ SamePull /\ SamePatch /\ sync'.touched = sync.touched /\ sync'.push = "patch"
  BY <1>0, <1>1, PushFields DEF Basics, TypeOK
<1>4. ASSUME NEW p \in SyncPaths, p \notin loose'
      PROVE  PathOK(p)'
  <2>1. PathOK(p)
    BY <1>2, <1>4 DEF PathsOK
  <2>2. /\ Announced(p)' <=> Announced(p)
        /\ Ch(p)' <=> Ch(p)
        /\ truth' = truth /\ fresh' = fresh
    BY <1>2, <1>3, <2>1, PushFrame DEF SyncFrame, SamePhase
  <2>3. Patches(p)'
    BY <1>1, <1>2, <1>3, <2>1, <2>2 DEF PathOK, Patches, SamePatch
  <2>4. PushOK(p)'
    <3>1. Ch(p) => p \in sync.must /\ p \in sync.visited
      BY <1>1, <2>1 DEF PathOK, PushOK, Pushing, Ch
    <3>2. QED
      BY <1>1, <1>3, <2>1, <2>2, <3>1 DEF PathOK, PushOK, Pushing, SamePatch
  <2>5. QED
    BY <1>2, <1>3, <2>1, <2>3, <2>4, PushFrame DEF PathOK, SamePhase
<1>5. QED
  BY <1>4 DEF PathsOK

LEMMA PatchPaths ==
  ASSUME Rest, PathsOK, Patch \/ PatchFails
  PROVE  PathsOK'
<1>0. Basics
  BY RestFacts
<1>1. /\ sync.push = "patch" /\ remote' \in {remote, Patched} /\ Outdates /\ loose \subseteq loose'
      /\ local' = local /\ recorded' = recorded /\ changes' = changes /\ doing' = doing
      /\ truth' = truth /\ fresh' = fresh
  BY <1>0, PatchFacts
<1>2. /\ SamePhase /\ SameScan /\ SamePull /\ SamePatch /\ sync'.touched = sync.touched
      /\ sync'.push \in {"reset", "failed"} /\ (sync'.push = "reset" => remote' = Patched)
  <2>1. PICK s \in {"reset", "failed"} : sync' = [sync EXCEPT !.push = s] /\ (s = "reset" => remote' = Patched)
    BY <1>0, <1>1, PatchFacts
  <2>2. sync \in Syncs
    BY <1>0 DEF Basics, TypeOK
  <2>3. CASE s = "reset"
    BY <2>1, <2>2, <2>3, PushFields
  <2>4. CASE s = "failed"
    BY <2>1, <2>2, <2>4, PushFields
  <2>5. QED
    BY <2>3, <2>4
<1>3. sync.pc = "sync" /\ recorded
  BY <1>0, <1>1, OnFacts
<1>4. ASSUME NEW p \in SyncPaths, p \notin loose'
      PROVE  PathOK(p)'
  <2>1. PathOK(p)
    BY <1>1, <1>4 DEF PathsOK
  <2>2. /\ Untouched(p)' <=> Untouched(p)
        /\ OnItsWay(p)' <=> OnItsWay(p)
        /\ Moving(p)' <=> Moving(p)
        /\ Announced(p)' <=> Announced(p)
        /\ Ch(p)' <=> Ch(p)
    BY <1>1, <1>2 DEF Untouched, OnItsWay, Moving, Announced, Announces, Ch, SamePhase
  <2>3. Patches(p)'
    BY <1>2 DEF Patches
  <2>4. ScanOK(p)'
    BY <1>1, <1>2, <1>3 DEF ScanOK, SamePhase
  <2>5. Ch(p) => p \in sync.must /\ p \in sync.visited
    BY <1>1, <2>1 DEF PathOK, PushOK, Pushing
  <2>6. CASE remote'[p] = remote[p]
    <3>1. Newest(p)' /\ Noted(p)' /\ NoteOK(p)'
      BY <1>1, <1>2, <1>3, <2>1, <2>2, <2>6 DEF PathOK, Newest, Noted, NoteOK, SamePhase
    <3>2. PullOK(p)'
      BY <1>1, <1>2, <1>3, <2>1, <2>2, <2>6 DEF PathOK, PullOK, SamePhase, SamePull, SameScan
    <3>3. CanPull(p)' /\ FreshOK(p)'
      BY <1>1, <1>2, <2>1, <2>2, <2>6 DEF PathOK, CanPull, RemoteOnly, FreshOK, SamePhase, SamePull, SameScan
    <3>4. sync'.push = "reset" /\ truth[p] # remote[p].ver => Announced(p)
      <4>1. SUFFICES ASSUME sync'.push = "reset", truth[p] # remote[p].ver, ~Announced(p)
                     PROVE  FALSE
        OBVIOUS
      <4>2. Ch(p)
        BY <1>3, <2>1, <4>1 DEF PathOK, Noted
      <4>3. PICK x \in sync.tar : x[1] = p /\ Patched[p] = x[2]
        BY <1>0, <2>5, <4>2, PatchedFacts
      <4>4. truth[p] = x[2].ver
        BY <1>1, <2>1, <4>1, <4>3 DEF PathOK, Patches
      <4>5. QED
        BY <1>2, <2>6, <4>1, <4>3, <4>4
    <3>5. PushOK(p)'
      BY <1>1, <1>2, <2>2, <2>5, <2>6, <3>4 DEF PushOK, Pushing, SamePatch
    <3>6. QED
      BY <2>3, <2>4, <3>1, <3>2, <3>3, <3>5 DEF PathOK
  <2>7. CASE remote'[p] # remote[p]
    <3>1. remote' = Patched /\ p \in sync.visited
      BY <1>0, <1>1, <2>7, PatchedFacts
    <3>2. PICK x \in sync.tar : x[1] = p /\ Patched[p] = x[2]
      BY <1>0, <3>1, PatchedFacts
    <3>3. Ch(p) /\ truth[p] = local[p].ver
      BY <1>1, <2>1, <3>1 DEF PathOK, PushOK, NoteOK
    <3>4. truth[p] = remote'[p].ver \/ (Announced(p) /\ p \notin fresh)
      BY <1>1, <2>1, <3>1, <3>2 DEF PathOK, Patches
    <3>5. There(local[p]) => remote'[p].time - local[p].time < 2
      <4>1. There(local[p]) => ~(remote'[p].time - local[p].time >= 2)
        BY <1>1, <1>4 DEF Outdates
      <4>2. local[p].time \in Nat /\ Patched[p].time \in Nat
        BY <1>0, PatchedFacts, SideFacts DEF Basics, TypeOK
      <4>3. QED
        BY <3>1, <4>1, <4>2
    <3>6. Newest(p)' /\ Noted(p)'
      BY <1>1, <2>2, <3>3, <3>4 DEF Newest, Noted
    <3>7. NoteOK(p)'
      BY <1>1, <2>1, <2>2, <3>5 DEF PathOK, NoteOK
    <3>8. PushOK(p)'
      BY <1>1, <1>2, <2>2, <2>5, <3>4 DEF PushOK, Pushing, SamePatch
    <3>9. PullOK(p)'
      BY <1>1, <1>2, <1>3, <2>1, <2>2, <3>3 DEF PathOK, PullOK, SamePhase, SamePull
    <3>10. CanPull(p)'
      BY <1>1, <3>3 DEF CanPull, RemoteOnly
    <3>11. FreshOK(p)'
      BY <1>1, <2>2, <3>3, <3>4 DEF FreshOK
    <3>12. QED
      BY <2>3, <2>4, <3>6, <3>7, <3>8, <3>9, <3>10, <3>11 DEF PathOK
  <2>8. QED
    BY <2>6, <2>7
<1>5. QED
  BY <1>4 DEF PathsOK

LEMMA ResetPaths ==
  ASSUME Rest, PathsOK, Reset
  PROVE  PathsOK'
<1>0. Basics
  BY RestFacts
<1>1. /\ sync.push = "reset" /\ changes' = NoChange /\ sync' = [sync EXCEPT !.push = "no"]
      /\ local' = local /\ remote' = remote /\ recorded' = recorded /\ doing' = doing
      /\ truth' = truth /\ fresh' = fresh /\ loose' = loose
  BY DEF Reset, world, counts, marks
<1>2. SamePhase /\ SameScan /\ SamePull /\ SamePatch /\ sync'.touched = sync.touched /\ sync'.push = "no"
  BY <1>0, <1>1, PushFields DEF Basics, TypeOK
<1>3. sync.pc = "sync" /\ recorded
  BY <1>0, <1>1, OnFacts
<1>4. ASSUME NEW p \in SyncPaths, p \notin loose'
      PROVE  PathOK(p)'
  <2>1. PathOK(p)
    BY <1>1, <1>4 DEF PathsOK
  <2>2. /\ Untouched(p)' <=> Untouched(p)
        /\ OnItsWay(p)' <=> OnItsWay(p)
        /\ Moving(p)' <=> Moving(p)
        /\ Announced(p)' <=> Announced(p)
        /\ ~Ch(p)'
    BY <1>1, <1>2 DEF Untouched, OnItsWay, Moving, Announced, Announces, Ch, NoChange, SamePhase
  <2>3. Newest(p)' /\ Noted(p)' /\ NoteOK(p)'
    BY <1>1, <2>1, <2>2 DEF PathOK, Newest, Noted, NoteOK, PushOK
  <2>4. Patches(p)' /\ PushOK(p)'
    BY <1>2, <2>2 DEF Patches, PushOK, Pushing
  <2>5. PullOK(p)'
    BY <1>1, <1>2, <1>3, <2>1, <2>2 DEF PathOK, PullOK, SamePhase, SamePull
  <2>6. ScanOK(p)'
    BY <1>1, <1>2, <1>3 DEF ScanOK, SamePhase
  <2>7. CanPull(p)'
    BY <1>1, <1>2, <2>1, <2>2 DEF PathOK, CanPull, RemoteOnly, SamePhase, SamePull, SameScan
  <2>8. FreshOK(p)'
    BY <1>1, <2>1 DEF PathOK, FreshOK, NoteOK
  <2>9. QED
    BY <2>3, <2>4, <2>5, <2>6, <2>7, <2>8 DEF PathOK
<1>5. QED
  BY <1>4 DEF PathsOK

LEMMA PullPaths ==
  ASSUME Rest, PathsOK, NEW w \in SyncPaths, Pull(w)
  PROVE  PathsOK'
<1>0. Basics
  BY RestFacts
<1>1. /\ sync.pc = "sync" /\ w \in sync.pull
      /\ SyncFrame /\ changes' = changes
      /\ \A x \in SyncPaths : x # w => local'[x] = local[x]
      /\ Copies(w) => local'[w].ver = Pulled(w).ver
      /\ ~Copies(w) => local'[w] = local[w]
      /\ loose' = IF /\ local[w].ver = truth[w] \/ sync.index[w].dir
                     /\ w \in sync.touched \/ OnItsWay(w)
                  THEN loose \cup {w} ELSE loose
  BY <1>0, PullFacts
<1>2. /\ SamePhase /\ SameScan /\ SamePush /\ sync'.touched = sync.touched
      /\ sync'.pull = sync.pull \ {w} /\ sync'.missed = sync.missed
      /\ sync'.stamp = IF Stamps(w) THEN sync.stamp \cup {w} ELSE sync.stamp
  BY <1>0, PullFields DEF Basics, TypeOK
<1>3. recorded /\ sync.on
  BY <1>0, <1>1, OnFacts
<1>4. remote' = remote /\ recorded' = recorded /\ doing' = doing /\ truth' = truth /\ fresh' = fresh
  BY <1>1 DEF SyncFrame
<1>5. ASSUME NEW p \in SyncPaths, p \notin loose'
      PROVE  PathOK(p)'
  <2>1. PathOK(p)
    BY <1>1, <1>5 DEF PathsOK
  <2>2. KeepsNote(p) /\ KeepsCalls(p)
    BY <1>1, <1>4, CallsSame DEF KeepsNote, Ch
  <2>3. CASE p # w
    <3>1. KeepsPath(p)
      BY <1>1, <1>4, <2>3 DEF KeepsPath
    <3>2. KeepsSync(p)
      BY <1>2, <2>3 DEF KeepsSync, KeepsPatch, KeepsScan, KeepsPull, SamePush, SamePatch, SameScan
    <3>3. QED
      BY <2>1, <2>2, <3>1, <3>2, Frame
  <2>4. CASE p = w
    <3>1. truth[p] = remote[p].ver /\ ~Ch(p) /\ Pulled(p) = remote[p]
      <4>1. CASE local[p].ver = truth[p] \/ sync.index[p].dir
        <5>1. Untouched(p) /\ ~OnItsWay(p)
          BY <1>1, <1>3, <1>5, <2>4, <4>1 DEF Untouched
        <5>2. QED
          BY <1>1, <2>1, <2>4, <5>1 DEF PathOK, PullOK, Pulled
      <4>2. CASE local[p].ver # truth[p] /\ ~sync.index[p].dir
        BY <2>1, <4>2 DEF PathOK, Newest, NoteOK, Pulled
      <4>3. QED
        BY <4>1, <4>2
    <3>2. /\ Untouched(p)' <=> Untouched(p)
          /\ OnItsWay(p)' <=> OnItsWay(p)
          /\ Moving(p)' <=> Moving(p)
          /\ Announced(p)' <=> Announced(p)
          /\ ~Ch(p)'
      BY <1>1, <1>2, <1>4, <3>1 DEF Untouched, OnItsWay, Moving, Announced, Announces, Ch, SamePhase
    <3>3. local'[p].ver = remote[p].ver \/ local'[p] = local[p]
      BY <1>1, <2>4, <3>1
    <3>4. Newest(p)' /\ Noted(p)' /\ NoteOK(p)'
      BY <1>4, <3>1, <3>2 DEF Newest, Noted, NoteOK
    <3>5. sync.push \in {"tar", "patch"} => p \notin sync.visited
      BY <2>1, <3>1 DEF PathOK, PushOK
    <3>6. Patches(p)'
      <4>1. \A x \in sync.tar : x[1] \in sync.visited
        BY <1>0 DEF Basics, TarOK
      <4>2. QED
        BY <1>2, <3>5, <4>1 DEF Patches, SamePush, SamePatch
    <3>7. PushOK(p)'
      BY <1>2, <1>4, <3>1, <3>2, <3>5 DEF PushOK, SamePush, SamePatch
    <3>8. ScanOK(p)'
      BY <1>1, <1>2, <1>3, <1>4 DEF ScanOK, SamePhase
    <3>9. FreshOK(p)'
      BY <1>4, <2>1, <3>1, <3>3 DEF PathOK, FreshOK
    <3>10. truth[p] # local'[p].ver => RemoteOnly(p) /\ local'[p] = local[p]
      BY <2>1, <3>1, <3>3 DEF PathOK, Newest, RemoteOnly
    <3>11. truth[p] # local'[p].ver => Moving(p)
      <4>1. ASSUME truth[p] # local'[p].ver
            PROVE  ~There(remote[p]) \/ local[p].dir \/ (There(local[p]) /\ remote[p].dir)
        BY <1>1, <2>4, <3>1, <4>1 DEF Copies
      <4>2. QED
        BY <2>1, <3>10, <4>1 DEF PathOK, CanPull
    <3>12. CanPull(p)'
      BY <1>4, <3>2, <3>11 DEF CanPull, RemoteOnly
    <3>13. PullOK(p)'
      BY <1>2, <1>4, <2>4, <3>2, <3>11 DEF PullOK
    <3>14. QED
      BY <3>4, <3>6, <3>7, <3>8, <3>9, <3>12, <3>13 DEF PathOK
  <2>5. QED
    BY <2>3, <2>4
<1>6. QED
  BY <1>5 DEF PathsOK

\* A copy that fails: the path is missed, and it is as it was or as the remote has it
LEMMA PullFailsPaths ==
  ASSUME Rest, PathsOK, NEW w \in SyncPaths, PullFails(w)
  PROVE  PathsOK'
<1>0. Basics
  BY RestFacts
<1>1. /\ sync.pc = "sync" /\ w \in sync.pull
      /\ SyncFrame /\ changes' = changes
      /\ \A x \in SyncPaths : x # w => local'[x] = local[x]
      /\ local'[w] = local[w] \/ (Copies(w) /\ local'[w].ver = Pulled(w).ver)
      /\ loose' = IF /\ local[w].ver = truth[w] \/ sync.index[w].dir
                     /\ w \in sync.touched \/ OnItsWay(w)
                  THEN loose \cup {w} ELSE loose
  BY <1>0, PullFailsFacts
<1>2. /\ SamePhase /\ SameScan /\ SamePush /\ sync'.touched = sync.touched
      /\ sync'.pull = sync.pull \ {w} /\ sync'.stamp = sync.stamp /\ sync'.missed = sync.missed \cup {w}
  BY <1>0, PullFailsFields DEF Basics, TypeOK, FaultKeeps
<1>3. recorded /\ sync.on
  BY <1>0, <1>1, OnFacts
<1>4. remote' = remote /\ recorded' = recorded /\ doing' = doing /\ truth' = truth /\ fresh' = fresh
  BY <1>1 DEF SyncFrame
<1>5. ASSUME NEW p \in SyncPaths, p \notin loose'
      PROVE  PathOK(p)'
  <2>1. PathOK(p)
    BY <1>1, <1>5 DEF PathsOK
  <2>2. KeepsNote(p) /\ KeepsCalls(p)
    BY <1>1, <1>4, CallsSame DEF KeepsNote, Ch
  <2>3. KeepsSync(p)
    BY <1>2 DEF KeepsSync, KeepsPatch, KeepsScan, KeepsPull, SamePush, SamePatch, SameScan
  <2>4. CASE p # w \/ local'[p] = local[p]
    <3>1. KeepsPath(p)
      BY <1>1, <1>4, <2>4 DEF KeepsPath
    <3>2. QED
      BY <2>1, <2>2, <2>3, <3>1, Frame
  <2>5. CASE p = w /\ local'[p] # local[p]
    <3>1. truth[p] = remote[p].ver /\ ~Ch(p) /\ Pulled(p) = remote[p]
      <4>1. CASE local[p].ver = truth[p] \/ sync.index[p].dir
        <5>1. Untouched(p) /\ ~OnItsWay(p)
          BY <1>1, <1>3, <1>5, <2>5, <4>1 DEF Untouched
        <5>2. QED
          BY <1>1, <2>1, <2>5, <5>1 DEF PathOK, PullOK, Pulled
      <4>2. CASE local[p].ver # truth[p] /\ ~sync.index[p].dir
        BY <2>1, <4>2 DEF PathOK, Newest, NoteOK, Pulled
      <4>3. QED
        BY <4>1, <4>2
    <3>2. /\ Untouched(p)' <=> Untouched(p)
          /\ Moving(p)' <=> Moving(p)
          /\ Announced(p)' <=> Announced(p)
          /\ OnItsWay(p)' <=> OnItsWay(p)
          /\ ~Ch(p)'
      BY <1>1, <1>2, <1>4, <3>1 DEF Untouched, OnItsWay, Moving, Announced, Announces, Ch, SamePhase
    <3>3. local'[p].ver = remote[p].ver
      BY <1>1, <2>5, <3>1
    <3>4. Newest(p)' /\ Noted(p)' /\ NoteOK(p)'
      BY <1>4, <3>1, <3>2 DEF Newest, Noted, NoteOK
    <3>5. sync.push \in {"tar", "patch"} => p \notin sync.visited
      BY <2>1, <3>1 DEF PathOK, PushOK
    <3>6. Patches(p)'
      <4>1. \A x \in sync.tar : x[1] \in sync.visited
        BY <1>0 DEF Basics, TarOK
      <4>2. QED
        BY <1>2, <3>5, <4>1 DEF Patches, SamePush, SamePatch
    <3>7. PushOK(p)'
      BY <1>2, <1>4, <3>1, <3>2, <3>5 DEF PushOK, SamePush, SamePatch
    <3>8. ScanOK(p)'
      BY <1>1, <1>2, <1>3, <1>4 DEF ScanOK, SamePhase
    <3>9. FreshOK(p)' /\ CanPull(p)'
      BY <1>4, <3>1, <3>3 DEF FreshOK, CanPull, RemoteOnly
    <3>10. PullOK(p)'
      BY <1>2, <1>4, <2>5, <3>1, <3>2, <3>3 DEF PullOK
    <3>11. QED
      BY <3>4, <3>6, <3>7, <3>8, <3>9, <3>10 DEF PathOK
  <2>6. QED
    BY <2>4, <2>5
<1>6. QED
  BY <1>5 DEF PathsOK

\* The other failures: a copy that was cut is lost track of
LEMMA FaultPaths ==
  ASSUME Rest, PathsOK, NEW w \in SyncPaths, PullCut(w) \/ MkdirFails(w) \/ StampFails(w)
  PROVE  PathsOK'
<1>0. Basics
  BY RestFacts
<1>1. /\ remote' = remote /\ recorded' = recorded /\ doing' = doing /\ truth' = truth /\ fresh' = fresh
      /\ changes' = changes /\ loose \subseteq loose'
      /\ \A x \in SyncPaths : x \notin loose' => local'[x] = local[x]
  <2>1. CASE PullCut(w)
    BY <1>0, <2>1, PullCutFacts
  <2>2. CASE MkdirFails(w) \/ StampFails(w)
    BY <1>0, <2>2, StillFacts DEF SyncFrame
  <2>3. QED
    BY <2>1, <2>2
<1>2. /\ FaultKeeps /\ sync.missed \subseteq sync'.missed
      /\ sync'.pull \subseteq sync.pull
      /\ \A x \in SyncPaths : x \notin loose' /\ x \in sync.pull => x \in sync'.pull \cup sync'.missed
      /\ \A x \in SyncPaths : x \notin loose' /\ x \in sync'.stamp => x \in sync.stamp
  <2>0. sync \in Syncs
    BY <1>0 DEF Basics, TypeOK
  <2>1. CASE PullCut(w)
    BY <1>0, <2>0, <2>1, PullCutFields, PullCutFacts
  <2>2. CASE MkdirFails(w)
    BY <2>0, <2>2, MkdirFailsFields
  <2>3. CASE StampFails(w)
    BY <2>0, <2>3, StampFailsFields
  <2>4. QED
    BY <2>1, <2>2, <2>3
<1>3. ASSUME NEW p \in SyncPaths, p \notin loose'
      PROVE  PathOK(p)'
  <2>1. PathOK(p)
    BY <1>1, <1>3 DEF PathsOK
  <2>2. KeepsNote(p) /\ KeepsCalls(p) /\ KeepsPath(p)
    BY <1>1, <1>3, CallsSame DEF KeepsNote, KeepsPath, Ch
  <2>3. KeepsSync(p)
    BY <1>2, <1>3 DEF FaultKeeps, KeepsSync, KeepsPatch, KeepsScan, KeepsPull, SamePush, SamePatch, SameScan
  <2>4. QED
    BY <2>1, <2>2, <2>3, Frame
<1>4. QED
  BY <1>3 DEF PathsOK

LEMMA StampPaths ==
  ASSUME Rest, PathsOK, NEW w \in SyncPaths, Stamp(w)
  PROVE  PathsOK'
<1>0. Basics
  BY RestFacts
<1>1. /\ sync.pc = "sync" /\ w \in sync.stamp
      /\ SyncFrame /\ changes' = changes
      /\ \A x \in SyncPaths : x # w => local'[x] = local[x]
      /\ local'[w].ver = local[w].ver
      /\ loose' = IF w \in sync.touched THEN loose \cup {w} ELSE loose
  BY <1>0, StampFacts
<1>2. /\ SamePhase /\ SameScan /\ SamePush /\ sync'.touched = sync.touched
      /\ sync'.pull = sync.pull /\ sync'.missed = sync.missed /\ sync'.stamp = sync.stamp \ {w}
  BY <1>0, StampFields DEF Basics, TypeOK
<1>3. recorded /\ sync.on
  BY <1>0, <1>1, OnFacts
<1>4. remote' = remote /\ recorded' = recorded /\ doing' = doing /\ truth' = truth /\ fresh' = fresh
  BY <1>1 DEF SyncFrame
<1>5. ASSUME NEW p \in SyncPaths, p \notin loose'
      PROVE  PathOK(p)'
  <2>1. PathOK(p)
    BY <1>1, <1>5 DEF PathsOK
  <2>2. KeepsNote(p) /\ KeepsCalls(p)
    BY <1>1, <1>4, CallsSame DEF KeepsNote, Ch
  <2>3. CASE p # w
    <3>1. KeepsPath(p)
      BY <1>1, <1>4, <2>3 DEF KeepsPath
    <3>2. KeepsSync(p)
      BY <1>2, <2>3 DEF KeepsSync, KeepsPatch, KeepsScan, KeepsPull, SamePush, SamePatch, SameScan
    <3>3. QED
      BY <2>1, <2>2, <3>1, <3>2, Frame
  <2>4. CASE p = w
    <3>1. Untouched(p) /\ ~Ch(p) /\ (truth[p] = local[p].ver \/ Moving(p))
      BY <1>1, <1>3, <1>5, <2>1, <2>4 DEF PathOK, PullOK, Untouched
    <3>2. /\ Untouched(p)' <=> Untouched(p)
          /\ OnItsWay(p)' <=> OnItsWay(p)
          /\ Moving(p)' <=> Moving(p)
          /\ Announced(p)' <=> Announced(p)
          /\ Ch(p)' <=> Ch(p)
      BY <1>1, <1>2, <1>4 DEF Untouched, OnItsWay, Moving, Announced, Announces, Ch, SamePhase
    <3>3. local'[p].ver = local[p].ver
      BY <1>1, <2>4
    <3>4. Newest(p)' /\ Noted(p)' /\ NoteOK(p)'
      BY <1>1, <1>2, <1>4, <2>1, <3>1, <3>2, <3>3 DEF PathOK, Newest, Noted, NoteOK, SamePhase
    <3>5. Patches(p)' /\ PushOK(p)'
      BY <1>2, <1>4, <2>1, <3>2, <3>3 DEF PathOK, Patches, PushOK, Pushing, SamePush, SamePatch, SamePhase
    <3>6. PullOK(p)'
      BY <1>1, <1>2, <1>4, <2>1, <2>4, <3>1, <3>2, <3>3 DEF PathOK, PullOK, SamePhase, SameScan
    <3>7. ScanOK(p)'
      BY <1>1, <1>2, <1>3, <1>4 DEF ScanOK, SamePhase
    <3>8. CanPull(p)'
      BY <1>4, <3>1, <3>2, <3>3 DEF CanPull, RemoteOnly
    <3>9. FreshOK(p)'
      BY <1>4, <2>1, <3>2, <3>3 DEF PathOK, FreshOK
    <3>10. QED
      BY <3>4, <3>5, <3>6, <3>7, <3>8, <3>9 DEF PathOK
  <2>5. QED
    BY <2>3, <2>4
<1>6. QED
  BY <1>5 DEF PathsOK

LEMMA EndPaths ==
  ASSUME Rest, PathsOK, End
  PROVE  PathsOK'
<1>0. Basics
  BY RestFacts
<1>1. /\ sync.pc = "sync" /\ sync.push \in {"no", "failed"} /\ sync.pull = {} /\ sync' = Quiet
      /\ \A t \in Threads : /\ doing'[t].pc \in {doing[t].pc, "idle", "remote"}
                            /\ doing'[t].pc # doing[t].pc => doing[t].pc \in {"sync", "sync2"}
                            /\ doing'[t].pc # "idle" =>
                                 doing'[t].op = doing[t].op /\ doing'[t].p = doing[t].p /\ doing'[t].q = doing[t].q
      /\ fresh' = IF sync.err \/ sync.push = "failed" THEN fresh
                  ELSE {p \in SyncPaths \ (sync.touched \cup sync.missed) : ~OnItsWay(p) /\ ~Moving(p)}
      /\ local' = local /\ remote' = remote /\ recorded' = recorded /\ changes' = changes
      /\ truth' = truth /\ loose' = loose
  BY <1>0, EndFacts
<1>2. /\ sync'.on = FALSE /\ sync'.pc = "off" /\ sync'.scan = FALSE /\ sync'.push = "no"
      /\ sync'.pull = {} /\ sync'.stamp = {} /\ sync'.pulled = {}
  BY <1>1, QuietFields
<1>3. recorded /\ sync.on
  BY <1>0, <1>1, OnFacts
<1>4. ASSUME NEW p
      PROVE  Announced(p) => Announced(p)'
  <2>1. \A t \in Threads : Announces(t, p) => Announces(t, p)'
    BY <1>1 DEF Announces
  <2>2. QED
    BY <2>1 DEF Announced
<1>5. ASSUME NEW p
      PROVE  Moving(p) => Moving(p)'
  <2>1. \A t \in Threads : MovesAt(t, p) => MovesAt(t, p)'
    BY <1>1 DEF MovesAt
  <2>2. QED
    BY <2>1 DEF Moving, MovesAt
<1>6. ASSUME NEW p \in SyncPaths, p \notin loose'
      PROVE  PathOK(p)'
  <2>1. PathOK(p)
    BY <1>1, <1>6 DEF PathsOK
  <2>2. (Ch(p)' <=> Ch(p)) /\ ~Untouched(p)'
    BY <1>1, <1>2 DEF Ch, Untouched
  <2>3. Newest(p)' /\ Noted(p)'
    BY <1>1, <1>3, <1>4, <2>1, <2>2 DEF PathOK, Newest, Noted
  <2>4. NoteOK(p)'
    <3>1. Announced(p) /\ p \notin fresh => p \notin fresh'
      BY <1>1, AnnouncedOnWay
    <3>2. QED
      BY <1>1, <1>4, <2>1, <2>2, <3>1 DEF PathOK, NoteOK
  <2>5. Patches(p)' /\ PushOK(p)' /\ PullOK(p)'
    BY <1>2, <2>2 DEF Patches, PushOK, Pushing, PullOK
  <2>6. ScanOK(p)'
    BY <1>1, <1>2, <1>3 DEF ScanOK
  <2>7. CanPull(p)'
    BY <1>1, <1>5, <2>1, <2>2 DEF PathOK, CanPull, RemoteOnly
  <2>8. FreshOK(p)'
    <3>1. CASE sync.err \/ sync.push = "failed"
      BY <1>1, <2>1, <2>2, <3>1 DEF PathOK, FreshOK
    <3>2. CASE ~(sync.err \/ sync.push = "failed")
      <4>1. SUFFICES ASSUME p \in fresh'
                     PROVE  truth[p] = remote[p].ver /\ (~Ch(p) => truth[p] = local[p].ver)
        BY <1>1, <2>2 DEF FreshOK
      <4>2. Untouched(p) /\ ~OnItsWay(p) /\ ~Moving(p) /\ sync.push = "no" /\ p \notin sync.missed
        BY <1>1, <1>3, <3>2, <4>1 DEF Untouched
      <4>3. ~Announced(p)
        BY <4>2, AnnouncedOnWay
      <4>4. ~Ch(p)
        BY <1>1, <2>1, <4>2 DEF PathOK, PushOK, Untouched
      <4>5. truth[p] = remote[p].ver
        BY <1>1, <1>3, <2>1, <4>3, <4>4 DEF PathOK, Noted
      <4>6. ~RemoteOnly(p)
        BY <1>1, <2>1, <4>2 DEF PathOK, CanPull
      <4>7. QED
        BY <4>5, <4>6 DEF RemoteOnly
    <3>3. QED
      BY <3>1, <3>2
  <2>9. QED
    BY <2>3, <2>4, <2>5, <2>6, <2>7, <2>8 DEF PathOK
<1>7. QED
  BY <1>6 DEF PathsOK

LEMMA PathsStep ==
  ASSUME Rest, PathsOK, SyncNext
  PROVE  PathsOK'
<1>0. Basics
  BY RestFacts
<1>1. ASSUME NEW t \in Threads, NEW op \in SyncOps[t], NEW p \in SyncPaths, NEW q \in SyncPaths, CallBegins(t, op, p, q)
      PROVE  PathsOK'
  BY <1>0, <1>1, QuietPaths
<1>2. ASSUME NEW t \in Threads, CallStep(t)
      PROVE  PathsOK'
  <2>1. CASE Local(t)
    BY <2>1, LocalPaths
  <2>2. CASE Refused(t) \/ RenameDir(t)
    BY <1>0, <2>2, QuietPaths
  <2>3. CASE Record(t)
    BY <2>3, RecordPaths
  <2>4. CASE CallsSync(t)
    BY <1>0, <2>4, StartsPaths, QuietPaths DEF CallsSync
  <2>5. CASE RenameRemote(t)
    BY <2>5, RenameRemotePaths
  <2>6. CASE RenameLocal(t)
    BY <2>6, RenameLocalPaths
  <2>7. CASE Unmarked(t)
    BY <2>7, UnmarkedPaths
  <2>8. QED
    BY <1>2, <2>1, <2>2, <2>3, <2>4, <2>5, <2>6, <2>7 DEF CallStep
<1>3. CASE Fires
  <2>1. doing' = doing /\ (Starts("timer") \/ StartFails)
    BY <1>3 DEF Fires
  <2>2. CASE Starts("timer")
    BY <2>1, <2>2, StartsPaths
  <2>3. CASE StartFails
    BY <2>1, <2>3, CallsSame, PathsSame DEF StartFails, world
  <2>4. QED
    BY <2>1, <2>2, <2>3
<1>4. CASE Scanned
  BY <1>4, ScannedPaths
<1>5. CASE TarDone
  BY <1>5, TarDonePaths
<1>6. CASE Patch \/ PatchFails
  BY <1>6, PatchPaths
<1>7. CASE Reset
  BY <1>7, ResetPaths
<1>8. CASE End
  BY <1>8, EndPaths
<1>9. ASSUME NEW p \in SyncPaths, PullScan(p) \/ PushScan(p) \/ Tar(p) \/ Pull(p) \/ Stamp(p)
      PROVE  PathsOK'
  BY <1>9, PullScanPaths, PushScanPaths, TarPaths, PullPaths, StampPaths
<1>10. ASSUME NEW p \in SyncPaths, NEW now \in {clock, clock + 2}, RemoteWrite(p, now)
       PROVE  PathsOK'
  BY <1>10, RemoteWritePaths
<1>11. CASE ScanFails
  BY <1>11, ScanFailsPaths
<1>12. ASSUME NEW p \in SyncPaths, PullFails(p) \/ PullCut(p) \/ MkdirFails(p) \/ StampFails(p)
       PROVE  PathsOK'
  BY <1>12, PullFailsPaths, FaultPaths
<1>13. QED
  BY <1>1, <1>2, <1>3, <1>4, <1>5, <1>6, <1>7, <1>8, <1>9, <1>10, <1>11, <1>12 DEF SyncNext, SyncStep, SyncFault

-----------------------------------------------------------------------------
(* The invariant.                                                          *)

LEMMA StoredFacts ==
  ASSUME NEW s \in SyncStored
  PROVE  /\ s.local \in Sides /\ s.remote \in Sides
         /\ \A p \in SyncPaths : s.local[p].ver < SyncStart /\ s.remote[p].ver < SyncStart
         /\ \A p, q \in SyncPaths : \A a, b \in {s.local, s.remote} : a[p].ver = b[q].ver => a[p] = b[q]
<1>1. s \in [local : Contents, remote : Contents]
  BY SyncStoredAssumption
<1>2. s.local \in Contents /\ s.remote \in Contents
  BY <1>1
<1>3. ASSUME NEW e \in [ver : Before \ {0}, dir : BOOLEAN, time : Before] \cup {Absent}
      PROVE  e \in Entries /\ e.ver < SyncStart
  <2>1. CASE e \in [ver : Before \ {0}, dir : BOOLEAN, time : Before]
    BY <2>1, SyncStartAssumption DEF Entries, Before
  <2>2. CASE e = Absent
    BY <2>2, AbsentFacts, SyncStartAssumption
  <2>3. QED
    BY <2>1, <2>2
<1>4. ASSUME NEW c \in Contents
      PROVE  c \in Sides /\ \A p \in SyncPaths : c[p].ver < SyncStart
  BY <1>3 DEF Contents, Sides
<1>5. \A p, q \in SyncPaths : \A a, b \in {s.local, s.remote} : a[p].ver = b[q].ver => a[p] = b[q]
  BY SyncStoredAssumption
<1>6. QED
  BY <1>2, <1>4, <1>5

LEMMA InitIInv ==
  ASSUME SyncInit
  PROVE  IInv
<1>1. PICK s \in SyncStored : local = s.local /\ remote = s.remote
  BY DEF SyncInit
<1>2. /\ local \in Sides /\ remote \in Sides
      /\ \A p \in SyncPaths : local[p].ver < SyncStart /\ remote[p].ver < SyncStart
      /\ \A p, q \in SyncPaths : \A a, b \in {local, remote} : a[p].ver = b[q].ver => a[p] = b[q]
  BY <1>1, StoredFacts
<1>3. /\ \A p, q \in SyncPaths : local[p].ver = local[q].ver => local[p].dir = local[q].dir
      /\ \A p, q \in SyncPaths : local[p].ver = remote[q].ver => local[p].dir = remote[q].dir
      /\ \A p, q \in SyncPaths : remote[p].ver = remote[q].ver => remote[p].dir = remote[q].dir
  BY <1>2, Zenon
<1>4. /\ recorded = FALSE /\ changes = NoChange /\ armed = FALSE /\ sync = Quiet
      /\ doing = [t \in Threads |-> Idle]
      /\ clock = SyncStart /\ nextVer = SyncStart /\ failed = FALSE
      /\ truth = [p \in SyncPaths |-> IF RemoteFirst(p) THEN remote[p].ver ELSE local[p].ver]
      /\ loose = {p \in SyncPaths : /\ There(local[p]) /\ local[p] # remote[p] /\ RemoteFirst(p)
                                    /\ remote[p].time - local[p].time < 2 \/ local[p].dir \/ remote[p].dir}
      /\ fresh = {}
  BY DEF SyncInit
<1>5. \A p \in SyncPaths : /\ local[p].ver \in Nat /\ remote[p].ver \in Nat
                           /\ local[p].dir \in BOOLEAN /\ remote[p].dir \in BOOLEAN
                           /\ local[p].ver = 0 => ~local[p].dir
                           /\ remote[p].ver = 0 => ~remote[p].dir
  BY <1>2, SideFacts
<1>6. TypeOK
  <2>1. truth \in [SyncPaths -> Nat]
    BY <1>4, <1>5
  <2>2. doing \in [Threads -> CallRecords]
    BY <1>4, IdleFacts
  <2>3. DOMAIN changes \subseteq SyncPaths /\ changes \in [DOMAIN changes -> BOOLEAN]
    BY <1>4 DEF NoChange
  <2>4. QED
    BY <1>2, <1>4, <2>1, <2>2, <2>3, QuietFields, SyncStartAssumption DEF TypeOK, PathSets
<1>7. CallsOK
  <2>1. ASSUME NEW t \in Threads
        PROVE  CallOK(t, doing[t], sync, recorded)
    <3>1. doing[t] = Idle
      BY <1>4
    <3>2. sync.by # t
      BY <1>4, QuietFields, SyncThreadsAssumption
    <3>3. QED
      BY <3>1, <3>2, IdleFacts DEF CallOK
  <2>2. QED
    BY <2>1 DEF CallsOK
<1>8. PhaseOK /\ TarOK
  BY <1>2, <1>4, QuietFields DEF PhaseOK, TarOK
<1>9. VersionsOK
  <2>1. sync.tar = {} /\ \A p \in SyncPaths : sync.index[p] = Absent
    BY <1>4, QuietFields
  <2>2. ASSUME NEW v \in Nat, NEW d \in BOOLEAN, Known(v, d)
        PROVE  \/ v = 0 /\ d = FALSE
               \/ \E p \in SyncPaths : v = local[p].ver /\ d = local[p].dir
               \/ \E p \in SyncPaths : v = remote[p].ver /\ d = remote[p].dir
    BY <2>1, <2>2, AbsentFacts DEF Known
  <2>3. ASSUME NEW v \in Nat, NEW d \in BOOLEAN, Known(v, d)
        PROVE  v < nextVer
    <3>1. \A p \in SyncPaths : local[p].ver < nextVer /\ remote[p].ver < nextVer
      BY <1>2, <1>4
    <3>2. 0 < nextVer
      BY <1>4, SyncStartAssumption
    <3>3. \/ v = 0
          \/ \E p \in SyncPaths : v = local[p].ver
          \/ \E p \in SyncPaths : v = remote[p].ver
      BY <2>2, <2>3, ZenonT(60)
    <3>4. QED
      BY <3>1, <3>2, <3>3, Zenon
  <2>4. ASSUME NEW v \in Nat, NEW d \in BOOLEAN, NEW e \in BOOLEAN, Known(v, d), Known(v, e)
        PROVE  d = e
    <3>1. CASE v = 0
      <4>1. \A p \in SyncPaths : (v = local[p].ver => local[p].dir = FALSE) /\ (v = remote[p].ver => remote[p].dir = FALSE)
        BY <1>5, <3>1
      <4>2. d = FALSE
        BY <2>2, <2>4, <4>1
      <4>3. e = FALSE
        BY <2>2, <2>4, <4>1
      <4>4. QED
        BY <4>2, <4>3
    <3>2. CASE v # 0
      <4>1. \/ \E p \in SyncPaths : v = local[p].ver /\ d = local[p].dir
            \/ \E p \in SyncPaths : v = remote[p].ver /\ d = remote[p].dir
        BY <2>2, <2>4, <3>2, ZenonT(60)
      <4>2. \/ \E p \in SyncPaths : v = local[p].ver /\ e = local[p].dir
            \/ \E p \in SyncPaths : v = remote[p].ver /\ e = remote[p].dir
        BY <2>2, <2>4, <3>2, ZenonT(60)
      <4>3. ASSUME NEW p \in SyncPaths, v = local[p].ver, d = local[p].dir
            PROVE  d = e
        BY <1>3, <4>2, <4>3
      <4>4. ASSUME NEW p \in SyncPaths, v = remote[p].ver, d = remote[p].dir
            PROVE  d = e
        BY <1>3, <4>2, <4>4
      <4>5. QED
        BY <4>1, <4>3, <4>4
    <3>3. QED
      BY <3>1, <3>2
  <2>5. \A p \in SyncPaths : truth[p] < nextVer
    BY <1>2, <1>4
  <2>6. QED
    BY <2>3, <2>4, <2>5 DEF VersionsOK
<1>10. ASSUME NEW p \in SyncPaths, p \notin loose
      PROVE  PathOK(p)
  <2>1. There(local[p]) /\ RemoteFirst(p) =>
          \/ local[p] = remote[p]
          \/ remote[p].time - local[p].time >= 2 /\ ~local[p].dir /\ ~remote[p].dir
    <3>1. local[p].time \in Nat /\ remote[p].time \in Nat
      BY <1>2, SideFacts
    <3>2. QED
      BY <1>4, <1>10, <3>1
  <2>2. truth[p] = IF RemoteFirst(p) THEN remote[p].ver ELSE local[p].ver
    BY <1>4
  <2>3. ~recorded /\ ~Ch(p) /\ p \notin fresh /\ ~Untouched(p)
    BY <1>4, QuietFields DEF Ch, NoChange, Untouched
  <2>4. sync.pc = "off" /\ sync.push = "no" /\ sync.pulled = {}
    BY <1>4, QuietFields
  <2>5. Newest(p) /\ Noted(p) /\ NoteOK(p) /\ FreshOK(p)
    BY <2>2, <2>3 DEF Newest, Noted, NoteOK, FreshOK
  <2>6. Patches(p) /\ PushOK(p) /\ PullOK(p)
    BY <2>3, <2>4 DEF Patches, PushOK, Pushing, PullOK
  <2>7. ScanOK(p)
    <3>1. ~RemoteFirst(p) /\ There(local[p]) => local[p].ver # remote[p].ver
      <4>1. local[p].ver = remote[p].ver => local[p] = remote[p]
        BY <1>2
      <4>2. local[p].time \in Nat
        BY <1>2, SideFacts
      <4>3. QED
        BY <4>1, <4>2 DEF RemoteFirst
    <3>2. QED
      BY <2>2, <2>4, <3>1 DEF ScanOK
  <2>8. CanPull(p)
    <3>1. RemoteOnly(p) => There(remote[p]) /\ (There(local[p]) => remote[p].time - local[p].time >= 2 /\ ~local[p].dir /\ ~remote[p].dir)
      BY <2>1, <2>2 DEF RemoteOnly, RemoteFirst
    <3>2. ~There(local[p]) => ~local[p].dir
      BY <1>5 DEF There
    <3>3. QED
      BY <2>3, <3>1, <3>2 DEF CanPull
  <2>9. QED
    BY <2>5, <2>6, <2>7, <2>8 DEF PathOK
<1>11. DueOK
  BY <1>4, QuietFields DEF DueOK, PushIsDue
<1>12. QED
  BY <1>6, <1>7, <1>8, <1>9, <1>10, <1>11 DEF IInv, PathsOK

LEMMA NextIInv ==
  ASSUME IInv, [SyncNext]_syncVars
  PROVE  IInv'
<1>1. Rest /\ Basics /\ PathsOK /\ VersionsOK /\ DueOK
  BY RestFacts DEF IInv, Rest
<1>2. CASE SyncNext
  BY <1>1, <1>2, BasicsStep, VersionsStep, PathsStep, DueStep DEF IInv
<1>3. CASE UNCHANGED syncVars
  <2>1. /\ local' = local /\ remote' = remote /\ recorded' = recorded /\ changes' = changes /\ armed' = armed
        /\ sync' = sync /\ doing' = doing /\ clock' = clock /\ nextVer' = nextVer
        /\ failed' = failed /\ truth' = truth /\ loose' = loose /\ fresh' = fresh
    BY <1>3 DEF syncVars
  <2>2. TypeOK'
    BY <1>1, <2>1 DEF Basics, TypeOK
  <2>3. CallsOK'
    BY <1>1, <2>1, CallsKept DEF Basics
  <2>4. PhaseOK' /\ TarOK'
    BY <1>1, <2>1 DEF Basics, PhaseOK, TarOK
  <2>5. VersionsOK'
    BY <1>1, <2>1, <2>2, IndexSame, VersionsSame DEF Basics
  <2>6. PathsOK'
    BY <1>1, <2>1, CallsSame, PathsSame
  <2>7. DueOK'
    BY <1>1, <2>1, DueKept DEF SamePhase
  <2>8. QED
    BY <2>2, <2>3, <2>4, <2>5, <2>6, <2>7 DEF IInv
<1>4. QED
  BY <1>2, <1>3

(***************************************************************************)
(* The invariant: the places of the calls beside the phases of the Sync,   *)
(* what is recorded, pulled and in the patch against the newest version of *)
(* each path, and what the timer waits for, whatever threads, paths,       *)
(* first contents, changes and failures there are.                         *)
(***************************************************************************)
THEOREM SyncInvariance == SyncSpec => []IInv
<1>1. SyncInit => IInv
  BY InitIInv
<1>2. IInv /\ [SyncNext]_syncVars => IInv'
  BY NextIInv
<1>3. QED
  BY <1>1, <1>2, PTL DEF SyncSpec

LEMMA IInvNothingLost ==
  ASSUME IInv
  PROVE  NothingLost
<1>1. ASSUME NEW p \in SyncPaths, p \notin loose
      PROVE  /\ truth[p] \in {local[p].ver, remote[p].ver}
             /\ truth[p] # remote[p].ver =>
                  \/ p \in DOMAIN changes /\ changes[p] = There(local[p])
                  \/ OnItsWay(p)
                  \/ ~recorded \/ sync.pc = "scan"
  <2>1. PathOK(p)
    BY <1>1 DEF IInv, PathsOK
  <2>2. QED
    BY <2>1, AnnouncedOnWay DEF PathOK, Newest, Noted, Ch
<1>2. QED
  BY <1>1 DEF NothingLost

LEMMA IInvInStep ==
  ASSUME IInv
  PROVE  InStep
<1>1. ASSUME NEW p \in fresh, p \notin loose
      PROVE  truth[p] = remote[p].ver /\ (p \notin DOMAIN changes => truth[p] = local[p].ver)
  <2>1. p \in SyncPaths
    BY DEF IInv, TypeOK, PathSets
  <2>2. PathOK(p)
    BY <1>1, <2>1 DEF IInv, PathsOK
  <2>3. QED
    BY <2>2 DEF PathOK, FreshOK, Ch
<1>2. QED
  BY <1>1 DEF InStep

(***************************************************************************)
(* A Sync that fails, at any point, and calls and writes of the remote in  *)
(* any order lose no change: the newest version of a path that is not      *)
(* loose is on one of the two sides, and on the local side alone only      *)
(* while it is recorded, or about to be.                                   *)
(***************************************************************************)
THEOREM NoChangeIsLost == SyncSpec => []NothingLost
<1>1. IInv => NothingLost
  BY IInvNothingLost
<1>2. QED
  BY <1>1, SyncInvariance, PTL

(***************************************************************************)
(* A Sync that has ended without an error has left both sides with the     *)
(* newest version of what no one changed since it began.                   *)
(***************************************************************************)
THEOREM SyncsLeaveInStep == SyncSpec => []InStep
<1>1. IInv => InStep
  BY IInvInStep
<1>2. QED
  BY <1>1, SyncInvariance, PTL

(***************************************************************************)
(* What is recorded waits for no further change: the timer is set, or a    *)
(* Sync that runs has yet to push it, unless a Sync has failed since.      *)
(***************************************************************************)
THEOREM PushesAreDue == SyncSpec => []PushIsDue
<1>1. IInv => PushIsDue
  BY DEF IInv, DueOK
<1>2. QED
  BY <1>1, SyncInvariance, PTL
=============================================================================
