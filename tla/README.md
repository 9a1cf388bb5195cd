# Verification of wanix

wanix is a small operating system of file systems, written in Go and run in a browser page or natively. A task
sees a namespace, in which file systems and devices are bound under names as in Plan 9, and does everything
else by reading and writing files: it starts tasks, makes pipes, sends signals, opens connections. Below the
namespaces are file systems that are more than a wrapper: copy-on-write layers, caches, a synchronised
replica, an object store.

This directory holds TLA+ models of that code, the TLC runs that check them on small instances, and proofs
that TLAPS checks. `PROJECT.json` is the index: which definition stands for which lines of the source, which
run checks which property, which change of the code would break it.

1. [The parts of the system](#1-the-parts-of-the-system): the inventory
2. [The modules](#2-the-modules): what models what, and how
3. [The runs](#3-the-runs): what is checked, with which bounds and which fairness
4. [Where the code and its texts disagree](#4-where-the-code-and-its-texts-disagree)
5. [What is proved](#5-what-is-proved)
6. [What is not modelled, and the plan](#6-what-is-not-modelled-and-the-plan)

## 1. The parts of the system

### How the parts interact

`wanix.go` and `wasm/wasm.go:44-58` make the root task and its namespace, and bind the devices on it: `#task`,
`#pipe`, `#signal`, `#term`, `#vm`, `#ramfs`, the browser's. Three kinds of calls go between the parts.

* *Calls down the file interface.* A program's call (api, p9kit, fusekit, or Go code) goes to a namespace,
  which resolves the name to a bound file system and a path in it (`ResolveFS`) and passes the operation on. A
  file system may wrap another (metacache, cowfs, syncfs), and a bound file system may be a namespace again,
  so resolution goes on until a file system answers itself.
* *Calls back from files.* Opening, reading, writing or closing a file of a device runs functions of that
  device (`FuncFile`): closing an `alias` renames a task in the table, closing a `ctl` starts one. They run in
  the goroutine of the caller, below whatever locks the caller holds.
* *Allocation on bind.* Binding a name whose target is an allocator (`BindAllocator`) makes a new pipe, signal
  or memory file system and binds that.

Goroutines are started for every request of a worker, for copies of pipes, for the refreshing of caches and
for the syncing of replicas. So almost every structure below is shared.

### Parts that are modelled

| Part | State | Operations | Hard | Correct if |
|---|---|---|---|---|
| `fs/pipe` | two `Buffer`s (data, closed, a mutex and a condition), cross-wired into two `Port`s; `PortFile` | Read, Write, Close, from any goroutine | a Read sleeps and gives up the mutex; Write wakes one sleeper only; a Port closes its buffers one after the other | bytes are neither lost nor moved; no wake-up is lost; Close ends every Read; EOF is final |
| `fs/signal` | `Broadcaster`: subscribers by id, each with a channel of 64 frames; three kinds of files | open, Read, Write (= Broadcast), Close of a file and of the broadcaster | Broadcast sends outside the mutex to a snapshot of the channels; a full channel blocks it; Read waits in or outside the file's mutex | every subscriber gets every frame in order; a read-write end gets none of its own; Close ends what waits |
| `fs/vfs` | per namespace, an immutable map from names to bound targets, replaced under `writeMu`, read without a lock | Bind, Unbind, UnbindAll, Clone; ResolveFS, Stat, Open, Create | sources are resolved before the lock; allocators; slices shared by copies of the map; unions; textual matching of names | edits are atomic and none is lost; a snapshot never changes; a name means what its bindings say, to Stat, Open and Create alike |
| `fs/fskit` `FuncFile`, `FieldFile` | an open file with a private copy of its node's data | Read, Write, Close, shared by descriptors | ReadFunc and CloseFunc run without the lock; racing first Reads and first Writes | ReadFunc runs once; acknowledged writes reach CloseFunc |
| tasks (`task.go`, `fs/fskit`, `api` descriptors) | `TaskFS`: tasks by id, aliases, next id; per task its kind, alias, descriptors, worker | open and close descriptors, allocate (`#task/new/*`), set alias, start (`ctl`), the auto driver | CloseFD holds the task's lock while files close and tasks start; Alloc works mostly without the lock | a new file is one task; its id leads to it; aliases are in the table; no circle of waiting |
| `fs/metacache` | answers of Stat, Lstat, ReadDir with a soft and a hard expiry; open files | every fs operation, refresh-ahead in the background, Invalidate | an answer fetched before a change and stored after it; one invalidation at a time; a guest changes the files behind it | clients see their own changes; nothing wrong is served for longer than the TTL |
| `fs/cowfs` | base, overlay, tombstones and renames in memory, whiteout files on disk | OpenFile, Create, Chmod..., Rename, Remove, Mkdir, Symlink, Stat, ReadDir, Readlink, Whiteout, Reset | chains of renames; what was deleted is made again; restarts; a crash between the steps of a call | overlay and base together look like one plain file system |
| `fs` helpers (`OpenFile`, `WriteFile`, `MkdirAll`, `RemoveAll`, `CopyFS`, `Rename`) | none | sequences of calls of file systems | other goroutines, and failures, come between the calls | a rename across file systems loses nothing |
| `fs/memfs`, `fskit/node.go` | a map from names to nodes; buffers; open files with private copies | Create, Mkdir, Remove, Rename, Symlink, Write, Close... | checks and changes under separate holds of the lock; buffers handed over and copied | open files are private until they are closed |
| `api`, descriptors of `task.go` | a table of open files | every system call | a file is looked up, the lock given up, the file used | (as the helpers and memfs) |
| `fs/p9kit` | fids with names and open files; owners; the client's files | requests; calls of the client as walks, requests, clunks | names change under fids; every error path has to give a fid back | fids follow renames; the client leaves no fid behind |
| `fs/r2fs` | objects, directory listings, a cache of heads | createFile, mkdir, remove, rename, copy, chmod...: object, then listing by compare-and-swap | several clients; requests that fail, done or not; crashes | bucket and listings are the tree; a rename keeps the object |
| `fs/syncfs` | a local and a remote tree; recorded changes, a timer | file operations, Sync | open files are written during a Sync; the record is replaced after the push | no change is lost; a Sync leaves both sides alike; a push is due |
| `fs/httpfs` | cached nodes, open files; the server | requests, background renewals and fetches | answers that arrive late | what was changed is not answered from before |
| `web/idbfs` | records and data in two stores, two caches, open files | calls as promises, transactions | steps of calls mix at each await; transactions fail | renames keep files, caches agree with the database |
| `web/caches`, `web/fsa` | caches of the browser by URL; its private files, a metadata store saved by a timer | file operations, delayed save | lookups that get old; a flag taken back too early | a name is one URL; a save is always due |
| `fs/net/tcp` | resources: state, connection or listener | dial, announce, accept, hangup, close | dial tests, unlocks, connects and stores | the state tells what there is; no socket is lost; accept returns |
| `misc/shm`, `wasm/9pchan.go` | a ring of bytes; calls waiting by tag, a stream being cut | write, read; request, answer | the end of the ring; answers cut or early | messages arrive whole and in order |
| `term` | terminals, the byte written last | Alloc, writes of the program | state from one write to the next | lines end in return and newline |
| `vm`, `web/worker` | machines, aliases, namespaces, guests; workers | Alloc, alias, SetGuest, messages | a bind in a goroutine of its own | the newest guest is the one found |

### Parts that are not modelled

Wrappers without state of their own (`localfs`, `tarfs`, `fusekit`, `unionfs`, browser interfaces in `web/dom`,
`web/sw`, `web/jsfs`, `web/dl`), user interface, shell, emulator and language runtimes (`elements`, `rc`,
`cmd`, `v86`, `workbench`, `gojs`, `wasi`), the vendored codec `misc/cbor`, and pure helpers. `PROJECT.json`
lists each of them under "components" with its files and the reason, and under "hazards" the places where this
code may go wrong in ways a test would hardly reach, each with the properties that watch it or a note.

## 2. The modules

A goroutine is a value of `Threads`; where it is in a call is a `pc`. A critical section that never blocks is
one step, and so is anything that touches only the caller's own variables; whatever lies between an unlock and
the next lock is a step of its own. Variables named *history* in their comments are written and never read by
the actions; they say what callers have been told.

### Pipe, Duplex (`fs/pipe`; theorems in DeviceProofs)

`Duplex` says what a pipe is for: two byte streams, of which a read takes a prefix of what was written and not
yet read, and which take nothing more once shut. `Pipe` is the code. `buffer`, `closed` are the fields of the
two `Buffer`s, `waiters` the notify list of the condition variable, oldest first. `Write`/`WriteRefused` is
`Buffer.Write` below `Port.Write`; `Read`, `ReadWaits`, `SleepAgain` and `Resume` are the loop of
`Buffer.Read` cut at `Cond.Wait`; `CloseReader` and `CloseWriter` are the two halves of `Port.Close`. `Block`
is `NewBuffer`'s argument, so both kinds of pipes are instances. `accepted`, `delivered`, `sawEOF` are
history. `PortFile` adds nothing but an offset it ignores. `Pipe` implements `Duplex` by `log <- accepted`,
`out <- delivered`, `shut <- closed`.

### Signal, SignalProofs (`fs/signal`)

`chan`, `chClosed` are the subscribers' channels and `subscribed` the map of the Broadcaster. A file
subscribes at most once, so a subscription is named by its file. `Snapshot` is the locked part of `Broadcast`,
`Send` one send, which waits while the channel is full, `SendPanics` the same on a channel closed meanwhile:
it ends the program (`crashed`). The order of targets is the order in which Go ranges over a map: any. A
`reader` keeps its mutex while it waits (`holder`), a `rdwr` does not. `sent`, `got`, `author`, `solo` are
history.

### Namespace, BindTable, NamespaceProofs (`fs/vfs/vfs.go`: tables)

`BindTable` is a namespace as callers think of it: a table from names to lists of targets which a Bind, Unbind
or UnbindAll changes at once, and of which a Clone is a copy. `Namespace` is the code with its sharing: `heap`
holds every Go map ever built, `slot` says which slice a map has under a key, and a map that is copied without
its slices would share them (that is the mutant `CopyOfShared`), so that an edit in place reaches both. A call
goes `Resolve`, `OpenSource` (both before the lock, with a snapshot that may get old), `Lock`, `Build` (the
new map), `Store` (publish and unlock). Allocators, the modes `after`, `before`, `replace` and an unknown one,
bindings of names of other namespaces, and names that `UnbindAll` keeps, are all in it. The refinement mapping
reads the table through the published map.

### Resolution (`fs/vfs/vfs.go`, `fskit/misc.go`, `mapfs.go`, `dirfile.go`: the meaning of names)

One table and the trees of what is bound, and `ResolveFS`, `StatContext`, `OpenContext` and `Creation` as
operators of them. Bindings are matched with `strings.HasPrefix`, so names are sequences of letters and
`MatchPaths` works on text. `order` is the order of the matches, of which any is possible where Go ranges over
a map. The actions `Bind`, `Create` and `RemoveLeaf` make the tables and trees. Beside them stands the
meaning: `Places(name)` is every place below a target of the name or of a directory above it, `Kinds(name)`
what is there.

### FuncFile, Task, TaskProofs (`fskit/funcfile.go`, `task.go`, `fskit/node.go`, `api`)

`FuncFile` has the steps of Read, Write and Close of a file that several threads share: the flags tested and
set under its mutex, the `nodeFile` (private copy) opened, read, written and stored back without it. `Task`
extends it with what the files of `#task` do: ReadFunc of `new/<kind>` is `Alloc`, which holds the lock only
to look at the kinds and then takes a number and enters the table step by step; CloseFunc of `alias` is
`SetAlias`, that of `ctl` is `AutoDriver` and `Launch`. `CloseFD` takes the lock of the closing task and gives
it up when Close has returned (`CloseFDReturns`), which is how locks nest.

### MetaCache, MetaCacheProofs (`fs/metacache`)

`fsys` is the wrapped tree; `cache` the entries with the ticks left until they are renewed and until they
expire. A lookup is served, or fetches in one step and stores in another; a served answer past half its time
starts one of `Refreshers`, which fetches, then stores or, if it failed, extends. A change is made on `fsys`
in one step and followed by one `Invalidate` for each key the code removes, in its order. `Guest` changes
`fsys` alone. `wrongFor` and `extended` are history: for how long an entry has been wrong, and whether a
failed refresh has extended it. The root is always there, but the file system may miss it for a moment
(`Fetched`); of the three kinds of answers only that of Lstat is then cached (`Cacheable`, `RootMissed`).

### Cowfs (`fs/cowfs`)

`disk` is what a restart finds (overlay and whiteout files), `tombstones` and `renames` the maps in memory.
Each call is the sequence of its writes to the disk: as a whole it takes effect at once, and a crash leaves
any prefix of it, after which `Reload` reads the memory back as `New` does. Beside it, `plain` is the tree
that callers asked for, and `moved` where the files of the base are whose old names lead to them. Some
sequences of calls are known to go wrong in the code; there the names concerned become `spoiled` and nothing
is claimed of them afterwards. Each such place has a comment in the module, and they are listed in [section
4](#4-where-the-code-and-its-texts-disagree), since they are what the code ought to be changed for.

### R2fs, R2fsProofs (`fs/r2fs`)

A call is a stack of frames, one for each function that runs, and a step is one request to the bucket with
what is done up to the next one. A request may fail before or after it was carried out, and the client may
crash. A listing is changed by compareAndSwap, cut into its `Read` and its conditional `Write`, which `Matches`
allows or refuses and `Retries` repeats; `heads` is the cache of heads. Beside it, `plain` is the tree that the calls
which returned have made one after the other; a path is `rough` once a call that was to change it failed or
was cut.

### Memfs (with NamespaceProofs), FSHelpers, Syscalls, P9, P9Client (`fs/memfs`, `fskit/node.go`, `fs/*.go`, `api`, `fs/p9kit`)

One tower of modules, each extending the one below it, as calls are made of calls. A goroutine has a stack of
frames and the result of the call that came back last (`stack`, `back`). `Memfs` cuts the calls of memfs where
they leave a lock, and has the open files of nodes with their buffers (`OpenNode` copies, `CloseFile` puts
back). `FSHelpers` has the functions of package `fs` that are sequences of such calls, on two file systems, of
which one stands for a remote one whose calls may fail (`Faulty`). `Syscalls` has the calls of a worker, by
name and by descriptor. `P9` is the server (`fids`, `owner`), each request being a call or several of the
helpers; the library that carries requests is external, including that a RenameAt runs by itself and then
renames fids (`NewPath`). A server has a store for owners or asks the file system to change them (`SetAttr` may do
either). `P9Client` is the client, whose calls walk, make their request and clunk, and a guest
with fids of its own. `wrote`, `saved`, `trip`, `astray`, `strays` are history.

### Syncfs, SyncfsProofs (`fs/syncfs`)

An entry is a version, whether it is a directory, and a time in seconds. A call begins (`CallBegins`), makes its
change locally (`Local`) and then records it (`Record`), each in a step of its own; Sync waits, takes an index,
scans, pulls what `Newer` tells, pushes a patch of what was recorded, and resets the record. Each of these may
fail, and the Sync does what the code then does (`SyncFault`): a scan that fails ends it, and the local side is not
scanned again (`ScanFails`); a file that cannot be copied is passed over (`PullFails`), and one that is cut counts
as copied (`PullCut`); a directory that cannot be made, or times that cannot be set, end the pull (`MkdirFails`,
`StampFails`). A Write, or the truncation of a file that is opened, may change a file and leave it unmarked
(`Unmarked`). Calls wait for a Sync
when they begin but not in the middle, and open files do not wait at all. A rename of a directory is a Sync, a
rename on the remote, one on the local side and a second Sync, and others change both sides in between; it keeps
the version, since nothing of it is recorded. `truth` is the newest version of a path on either side; a path is
`loose` where the code is known to lose track of it (section 4). `SyncStored` is the set of what the two sides may
have at first, of versions and times before `SyncStart`. A directory is made as the index has it, a file copied from
the remote as it is by then (`Pulled`), nothing replaces a directory, and no directory replaces a file (`Copies`);
what is there afterwards gets the time of the index (`Stamps`).

### Httpfs, HttpfsProofs (`fs/httpfs`)

`tree` is the server, `cache` what the cacher holds for each path. A request is served at one moment and its
answer arrives at another; between the two, others are served and arrive. Renewals and fetches of subtrees are
agents of their own. `asof` counts changes, so that what an answer knows can be compared with what has been
invalidated since. `inval`, `own` and `want` are history: up to which change each path has been invalidated,
and up to which a call that has returned changed it; and the mode that a Chmod gave it last.

### Async, Idbfs, CacheFS, Fsa (`web/idbfs`, `web/caches`, `web/fsa`; theorems in SignalProofs)

`Async` is what code in the page is made of: functions that wait for one another, and run undisturbed between
two waits. `Idbfs` has the two object stores, the two caches in front of them and the objects that caches and
open files share: `mcache` and `dcache` lead to objects, which change for everyone who holds them. A
transaction is one step and may fail, and so may the moving of large files in a rename (`MoveBlobs`). `CacheFS` has
the caches of the browser by URL and looks names up each time (`FindURLForPath`). Each request of it may fail: Stat,
Open for reading, ReadDir, Remove, the put of OpenFile and Close say so, the look-up and the load of OpenFile do not
(`OpenMisses`, `LoadFails`). `Fsa` has the private files, the metadata store with its `dirty` and `pending` flags,
timers and the saves they start, and the cache of Stat. In all three the page may be loaded again. The theorems
are of `FsaSpec` (any plans) and `CacheSpec` (any calls, `CacheCalled`); the run has plans.

### Net, Shm, Bridge, Term, VM, DeviceProofs (`fs/net/tcp`, `misc/shm`, `wasm/9pchan.go`, `term`, `vm`, `web/worker`)

`Net`: a call is cut where it gives up the mutex of its resource, and dial, listen, accept and the closing of
sockets happen outside; sockets are the operating system's and modelled from their use. `Shm`: one ring, in
either direction (`writer` says whether Go or the page writes), positions modulo `Word` cells, a header and a
payload per message, or none, old cells left where they are; `Signed` and `JsRem` are what JavaScript makes of a
position. `Bridge`: requests as the worker posts them, calls waiting
by tag, the stream of answers in pieces of any size. `Term`: `Translate` with what it remembers. `VM`:
allocation, aliases, guests bound by goroutines (`BindReads`, then `BindShows` or, when the root of the guest cannot
be opened, `BindFails`), and the workers that offer guests.

### The MC modules

Runs are expensive, so an MC module may hold several instances, one of them in a behaviour: a variable that
never changes (`part`, `whole`, `which`) says which, and the others keep their initial states. `MCPipe` has
two sizes of a pipe, `MCNames` a Namespace and a Resolution, `MCStores` R2fs and Cowfs, `MCRemote` Httpfs and
Syncfs, both of which it extends, `MCBrowser` (which extends CacheFS and Fsa) and `MCDevices` the modules above.

## 3. The runs

| Run | Instance | What it shows |
|---|---|---|
| `pipe` | a blocking pipe, three goroutines; single bytes with whole reads, or writes of up to two bytes and reads of 0 to 2 | the pipe implements the two byte streams; Close ends every read, and data ends a read that is as long as the data there may be (liveness) |
| `signal_files` | two goroutines, one file of each kind, channels of one frame, frames of two bytes read one by one, two frames | streams of a reader, and of a read-write end whose reads do not overlap, are intact; Close of a read-write end returns (liveness) |
| `names` | two goroutines, two namespaces, two names, one of which `UnbindAll` keeps, an allocator and a file system with CreateFS, all modes, three maps ever built; or up to three bindings at three nested points, of a read-only tree, one file of it, a memory file system and a MapFS with a mount, files made and removed | edits are atomic and clones are cut off (implements `BindTable`); snapshots are frozen; every call returns (liveness). Open is the union of the places; Stat agrees with Open; a file made is the file found |
| `task_files` | two threads, seven calls, three files of `#task`, two kinds and an unknown one | one task for a file; aliases lead to their tasks; acknowledged writes reach CloseFunc; nobody is stuck |
| `metacache_clients` | two clients, a guest, one background refresh, three paths and the root, all three kinds of answers, TTL of one tick, at most four calls and changes and five events | clients see what clients have done; what is wrong is served for at most the TTL |
| `stores` | r2fs: three calls of two goroutines, five paths, one failed request or crash. cowfs: four calls or restarts, any of them cut by a crash; two directories, three files, of which the base has a directory with a file, and a file | bucket and listings, and the two layers, are the tree the callers asked for; a rename of an object never leaves it at neither name; a cut rename keeps the file |
| `remote` | syncfs: two changes by two goroutines, and one by another client, two seconds after the last and where no path becomes loose by it, or one failure of a call or of a step of Sync, two paths: at first there is a file that is newer on the local side, and another that only the remote has, or a directory on both sides. httpfs: three calls of two goroutines, a directory with a file and a name to move it to, a renewal, a prefetch, one failure | no change is lost, a Sync that succeeds leaves both sides alike in what it did not fail to copy, what is recorded is due. What a call has changed is not answered from before it; Close keeps the mode set since the open |
| `servers` | two goroutines with plans of up to four calls: system calls, calls of a 9P client, requests of a guest; two memory file systems, one of which may fail once | open files are private until they are closed; a rename across file systems loses nothing; fids follow renames and are given back |
| `browser_stores` | two tasks with plans of up to five calls; a directory, a small and a large file, a link; one request that fails or a page loaded again | renames keep files; caches agree with what they cache; a name is one URL, unless its look-up failed; a save is due (one that is always on its way) |
| `devices` | net: two goroutines, four calls, two resources, three sockets. shm: a ring of 8 cells, four messages of 0 to 3, positions modulo 44. bridge: two tags, four requests. term: two terminals, three writes. vm: two machines, two aliases, two guests, one worker | a resource's state tells what it holds; no socket is left that nobody has; a reader of `listen` returns when it is hung up or cancelled (liveness); messages of a ring arrive whole, in order and all of them, until its counters look negative to the page; the answers of the bridge arrive once and whole; a vm shows its newest guest |

The other two runs (`expect` "violation") are `signal_broadcast` and `idbfs_moved` of section 4.

### Bounds, and why they are enough

Every bound is a constant that says so in its module, or the plan of calls in an MC module.

* *Threads.* The code's critical sections are taken by one goroutine at a time, so an interleaving that
  matters is between one that is about to act on what it has read and one that changes it: two threads. Pipe
  and its wake-ups need three: the one who is woken, the one who steals the data, the one who sleeps on.
* *Data.* A channel of one frame is full after one and empty again after another; two bytes can be told apart
  and reordered; a read may be shorter than, as long as, or longer than what is there. A ring of 8 cells with
  messages of 2 to 5 goes round two or three times in four messages and meets every position of the end; its
  counters pass 22, half of the positions, and are then negative to the page, and each exception of `RingInOrder`
  (`strayed`, `passed`, `Empty`, `HalfWay`) occurs.
* *Histories.* A Namespace behaviour has the first map and builds two more: two edits of one namespace, or a
  clone and an edit of either, in any overlap; a lost update needs two, and sharing needs a map, its copy and
  an edit of the copy. What is proved of it needs no bound. Four calls of Cowfs are enough for two renames of
  one file, a restart and a use of the name after, and for every pair of calls with a crash in each. Five
  events of MetaCache are a fetch, a change under it, a tick, a refresh and a use. Three calls of r2fs are two
  that fight over one listing and one that uses what they leave.
* *Plans.* In `servers` and `browser_stores` the calls are not free but a plan for each task, a sequence of
  sets to choose from. The plans are made so that each call of the component is in one, and every pair whose
  steps can disturb one another (a rename and a use of its names; a write through an open file and a change of
  its entry; two that create one name) is in different tasks of some plan.
* *Paths.* Below a directory and next to it; nested bindings; a file in the base and one that is not.
* *Failures.* One per behaviour: each step of each call may be the one that fails. A failure of what the code
  does after a failure is not in the runs, nor does any property claim something of it.

Deadlock is not checked (`CHECK_DEADLOCK FALSE`) where the system may stop: everyone waits for data that
nobody has to write, or the bounds are used up. `NobodyStuck` and the liveness properties say what must not
stop.

### Fairness

Only Pipe, Signal, Namespace and Net assume any. *Weak fairness of the steps inside a call*: the Go scheduler
runs a goroutine that can run, and a channel operation that can proceed does. *Strong fairness of* `Lock` in
Namespace: a `sync.Mutex` turns to starvation mode after a millisecond and is then handed over in order, so
one that waits gets it although others take it again and again. In Pipe weak fairness is enough: a woken
reader finds the mutex free after every step, and only finitely many bytes can be taken from under it. In Net
it is weak fairness of each goroutine's own steps in a call; no one has to connect, so what ends an Accept in
`AcceptReturns` is the hangup or the cancelled context alone. Calls themselves, a write for a reader to read
among them, are never fair: no program has to make them.

## 4. Where the code and its texts disagree

Two are runs whose property TLC violates, quoted in `PROJECT.json` under "findings".

* `signal_broadcast`: *Broadcast reaches every subscriber* (`broadcaster.go:43`). It sends to a snapshot of
  the channels without the mutex; a subscriber who closes in between closes its channel, the send panics, and
  the others of the snapshot never get the frame.
* `idbfs_moved`: *data are in the second store if the record says so* (`DESIGN.txt:18`). A rename of a
  directory deletes the data of large files under their old names before it looks for them there to move them.

The others are in the models, and the properties claim nothing of the cases concerned or are stated so that
they hold beside them; the model does what the code does.

**Pipe, Signal, vfs.** Allocators promise a fresh pipe, signal or memory per bind (`pipe/fsys.go:70`), but are
asked when the allocator itself is bound (`vfs.go:260`), which `wasm.go` does once for each. `MatchPaths`
compares text (`misc.go:13`) where `vfs.go:135` says "subpaths of bindings": with a binding at `ab`, the name
`abc` is looked up in it as `c`. Where one name is a file in one target and a directory in another, or a MapFS
passes a name on that its mount lacks, Stat and Open differ (`Orderly`). A signal file closed before it ever
subscribed may be subscribed by a later Read (`fsys.go:87`). A name bound to itself leads round (`vfs.go:131`).

**Tasks, FuncFile, metacache.** A first Read discards what was written before it (`funcfile.go:115`); after a
ReadFunc that failed the next Read spins (124). An alias that another task has taken over is deleted by the
one that had it (`task.go:261`); overlapping Allocs can share an id (357). A refresh that fails, because the
file is gone say, extends the answer past what `metacache.go:27` calls "Hard expiry - must refetch" (226). A
file's Stat after a rename is stored under its old name (266); Mkdir leaves a cached "does not exist". Lstat caches
that the root does not exist, for it compares its key, which has a suffix, with `.` (454, 490), against "Only cache
ErrNotExist for non-root paths" (489); `SeesOwnChanges` excuses it, and it is served for its time like any answer.

**cowfs** (names that become `spoiled`). A path that was deleted and is made again is gone after a restart,
since only the tombstone in memory was cleared (`cowfs.go:694`); a file renamed and then deleted is found
under its old name after a restart; opening a deleted path of the base with O_CREATE and without O_TRUNC
brings its content back (1007), with O_EXCL too; a file renamed to a name that an earlier rename left, or to
its own name, leads round (453); what is made below a directory that was deleted does not bring the directory
back; after Chmod of a directory of the base, what was deleted in it counts again when it is removed (277).

**r2fs.** A rename of a path to itself deletes it. The clean-up of a createFile that failed deletes what was
there before. An error path, or a Patch, does not drop heads. A put of a listing is conditional on its content
only. Chmod of a directory puts back the listing it read. A file made below a file overwrites it.

**syncfs** (paths that become `loose`). A change recorded while the patch is pushed is dropped with the record
(`syncfs.go:263`); the deferred record of a Create that failed makes later Syncs fail (443); removing what has
not been pushed takes back the record, and the next Sync pulls the file again (366); Chtimes gives a new
change an old time; a remote change within two seconds of the local time is not pulled (123); deletions on the
remote are never pulled; of a rename of a directory the local half may fail, or find another entry than the
remote half did (529 to 533), and what it moves on either side may overlap a change of the other; what is recorded
may be gone, or be newer on the remote, by the time it is (`Misrecords`); what the two sides have at first may differ
in kind, or by less than two seconds, and a directory is made from an index that is out of date. `changes` is nil until the first Sync, so
a change before it panics (370); a Sync that fails does not set the timer again (`failed` in `PushIsDue`). When the
first Sync fails in a scan, `changes` is no longer nil (142), and what only the local side had is not scanned again and
never pushed. A copy that fails in the pull is logged, and Sync returns nil (291): `InStep` claims nothing of such a
path until the next Sync; a copy that is cut counts as done (`copy.go:157`) and gets the remote's time, so that it is
not pulled again. A rename of a file to itself takes the record of it away (366, 521), so that a change that was not pushed
is forgotten. A file that OpenFile truncates without O_CREATE (468), or of which a Write fails half done (630), is changed
and not recorded.

**httpfs.** Stat panics when the parent is cached as missing (`cacher.go:373`). Writes through files that
Create returned, and Close, do not invalidate the cache. Of a rename, the new name is not invalidated with
what is below it, and the old one only as far as listings are cached. A Stat that fails in Close puts the mode
of the open back. Chmod leaves the parent's listing. A PATCH with a tar body is answered 200 and ignored.

**memfs, helpers, api.** `copyFile` tests the wrong error after the copy (`copy.go:157`), so a copy that was
cut counts, and Rename across file systems then removes the source (`cut` in `MovedWhole`). Create and Symlink
may replace a directory and leave orphans; checks are made under another hold of the lock than changes;
MkdirAll may fail when another made the last directory (`mkdir.go:59`). `WriteAt` sets the offset, unlocks and
writes, so two on one open file land at each other's offset (against `fs/file.go:22`). Links that lead round
recurse. O_EXCL is ignored. In `api/handle.js`, `openWritable` never closes its descriptor, so what it wrote
to memfs is never saved.

**p9kit.** Open passes 0666, "for new files" (`server.go:168`), to an OpenFile that changes the mode of what is
there: opening for writing resets modes, and the client opens read-write first. The client's open loses its
fid when both tries fail (`strays`), Close returns before the clunk when its sync fails, and Create ignores an
error. SetAttr stops half-way; UnlinkAt checks, then removes; owners are kept by name.

**idbfs, caches, fsa.** Reading marks a file dirty, so closing a reader writes old content back. O_TRUNC of a
large file leaves its data behind. Open and truncate through a link fetch the data of the link. Renaming to
itself deletes (idbfs, fsa). A transaction aborted for quota never settles its promise. An array is shared by
the cache and open files and changes under both. In caches, a lookup that runs into the removal of a cache
makes it again; an entry with an old scheme removed while open makes two URLs, and so does OpenFile when the look-up of
such an entry fails, since the error is dropped (`existingURL, _ :=`, `caches.go:121`): these names are `loose`. When
the load of an entry fails, OpenFile puts an empty one over it at once (138 to 170). In fsa, a rename of
a directory leaves metadata behind (`swept`), a failed save waits for the next change (`lost`), an older
snapshot may be written over a newer, setting times without metadata sets the mode, and a copy that was cut
loses the source (`cut`). A cached "not there" makes an open panic (`panicked`).

**Devices.** `net`: what overlapping dials and announces have put into a resource is overwritten without being
closed (`dropped`, `conn_unix.go:225`, 258, 431), and a hangup undone; a cancelled accept closes the listener
and leaves the state listening; `ResolveFS` reads the table without its lock. `shm`: a reader may take a stale
header in the gap at the end of the ring for a message (`chan.go:147`, 229), against "stream-like semantics"
(93), if sizes differ enough (`strayed`); a length of 0 is a gap to the reader, so that what follows an empty message
is lost (`Empty`); positions wrap at 2^32, no multiple of the ring, and from 2^31 on the page reads them as negative
(`chan.js:34`), against the comments "to handle uint32 overflow correctly" (`chan.go:111`, `chan.js:66`): from there on
messages are lost or repeated, in the run as well, and `RingInOrder` claims nothing (`HalfWay`). A message longer than
half the ring may never fit, and a shorter one of the page may pass it (`passed`). `term`: `WriteAt`, which 9P uses, is that of the pipe and translates
nothing (`raw`, `resource.go:34`); `remove` waits for its own mutex and is not called, against
`TestProgramEOFRemoves`. `vm`: a guest for a machine nobody has opened panics (`crashed`); a guest set while
another is being bound may end below it (`late`, `vm.go:51`); a guest whose root cannot be opened is logged (53), and the
vm shows the one before it, or none (`unbound`); an error returns with the mutex held (115). A
second start of a worker leaves the first running.

## 5. What is proved

`PROJECT.json` lists the theorems under "theorems". They hold for every value of the constants that the
ASSUMEs allow: any number of goroutines, names, file systems, bytes and calls, and any bound. Each is proved of
an inductive invariant that TLC checked on the run's instance first. A step of a goroutine disturbs its own
call and one piece of shared state, so most modules have a lemma on such steps (`Local`, `Kept`) that says once
what stays of all the others, and one lemma per action.

**`SignalProofs`.** `StreamsStayIntact`: what a file has given out, then the rest of the frame it is giving
out, then the frame a goroutine has in its hands, then those in the channel are, as bytes, the frames sent to
it. `Flat` makes bytes of frames; that a send appends one frame's bytes and a receive splits off the first's
(`FlatSend`, `FlatTake`) is where frames of any length come in. What makes it inductive: who waits for a frame
of a reader holds the reader's mutex and has found no rest (`WaitsLocked`); Reads of a read-write end that never
overlapped leave no rest between their wait and their return (`ReadsAlone`), which is why the property claims
nothing of the others; and only finitely many files are subscribed, so that a Broadcast has an order of its
targets.

The module has two theorems on the stores of the browser as well. `SaveStaysDue` (`SaveIsDue` of fsa): the store is
dirty exactly when the flag is set, and then exactly one timer is (`SaveInv`); a goroutine that writes the file
sets its times, so that the timer is set, or has fired and queued a newer copy, for as long as it writes.
`OneURLStays` (`OnePathOneURL` of caches): `UrlInv` says what a name that was never removed, nor missed, may have
(`Allowed`), which is what it had at first or, if that was nothing, the one URL that the device makes; the entries
of the name, what a call has found and not yet put (`CallsAllowed`) and what an open file is going to put
(`FilesAllowed`) are all among that, and what was there at first stays (`FirstStay`), so that a call which has
found nothing may make a URL of its own, however late it puts it.

**`NamespaceProofs`.** `TypeCorrect`, `KeysHaveTargets`, `SnapshotsAreFrozen`, `ImplementsTables`, and
`BuffersArePrivate` (below). The argument is about sharing, which is where this code could go wrong: a map that is published is read by others
without a lock. `IInv` says
* `OwnedIn`: every slot of every map ever built leads to a slice of that very map, since `CopyOf` clones the
  slices with the map;
* `KeyedIn`: a key that is in a map has a slice that is not empty;
* `Working`, for each goroutine, what holds at its `pc`: whoever builds or stores holds the mutex of a
  namespace that exists; its map is the published one until it builds; after that its map holds the edit of
  the table that is published now;
* `OneClone`: a namespace that is being made is made by one goroutine.

From this no step changes a map that is there, but only adds one (`SnapshotsAreFrozen`), and a `Store` changes
the abstract table by the edit of the table that is published *then*, not of the one that was when the call
began (`ImplementsTables`). A step that only moves a goroutine inside its call is dealt with once, by a lemma
on local steps. `Without`, the deletion of elements of a list, is written
by rank and not with `SelectSeq`, whose definition the provers cannot use.

`BuffersArePrivate`, of `Memfs`, is in the same module. It is about sharing, too: a Close gives the node the very
buffer that the file has, and a write within the bytes of a file is made in place. `MemInv` says
* `Apart`: the buffer of a file that is open is neither that of another file, open or closed, nor that of a node;
  a closed file and its node may well share one;
* `Refers`: names lead to nodes, and nodes and files to buffers that are there;
* `CallsInv`: a goroutine between two holds of a lock carries a node, or a file, that exists, whatever has been
  removed or renamed meanwhile.

`Holds`, which is `Private`, follows step by step: what writes in place writes to a buffer that is apart, and all
else goes to a new one. The theorem is of `MemSpec`, in which a goroutine may make any call of a name, and any
call on any file that was ever opened, with any offset and bytes. The run has the calls as `FSHelpers`, `Syscalls`,
`P9` and `P9Client` nest them, a copy of a file in one step among them, and `HeapInv` holds there as well.

**`TaskProofs`**, of files of `#task` and of FuncFile below them. `OneTaskForAFile` rests on `Alone`: one call
at a time is in the ReadFunc of a file, since `hasRead` is set under the mutex that tested it, and until that
call has filled the file nobody has a copy of it and no task came of it. `WritesReachCloseFunc` rests on
`InPlace`: a file that nobody has read has one copy at most, and the acknowledged writes are a prefix of what it
holds. `AliasIsFound` needs that a setter deletes only an alias its own task has had, so that of a task that
alone has had its alias, the alias is in the table or about to be entered. `IdsNameTasks` is a theorem only: as
long as no two Allocs overlapped, the number that a file gives names the task allocated for it (of Allocs that
do overlap it is false, section 4).

**`MetaCacheProofs`.** `ClientsSeeOwnChanges`: an entry that is wrong because of what a client did, and has no
excuse, is `Pending`: some call that changed it still has an Invalidate to do that covers it, or an open file
has, whose Close is to come. The proof is one of cases: for every call that changes the tree, the keys whose
answers it changes are among those it then invalidates (an ErrNotExist of the root that Lstat has cached is excused
from the start), so that the sequence of Invalidates in each function of
the code is what the proof is about. With it goes that an answer fetched before a change and not yet stored is
excused (`StoreInv`). `StaleForAtMostTTL`: how long an entry has been wrong and the time it has left make no
more than the TTL.

**`HttpfsProofs`.** `OwnChangesAreSeen` and `ModesAreKept`, whatever the order in which requests are served,
arrive and fail. `IInv` says
* `Asks`: which request a call has out, by where the call is, and that of a rename both names are below the root;
* `Drops`: how far a call has come with its invalidation: what of the paths it is about has been invalidated up
  to the change that it made;
* `Answers`: what an answer brings was so when it was served, so that one of the last change there was has the
  modes the tree has;
* `Known`: what has returned has been invalidated (`own` is at most `inval`), and an entry that is not late is
  no older than the last invalidation of its path;
* `ModesKept`: the mode that is asked for is the one in the tree, in the entries that are not late, in the
  answers that are not too old, in the answer that a close waits for and in the put that it sends.

What a resync brings has been served after the change, since its request went out after the change's answer
had come; this is why it may be stored although others are on their way. A Chmod may set `want` when it
returns, because no later change was served and no close of that file is under way (`ModeReturned`).

**`SyncfsProofs`**, for whatever the two sides have at first, and any number of paths, goroutines, changes on both
sides and failures of any step. Its `IInv` says
* `CallsOK`, `PhaseOK`: where a call can be beside the Sync that runs. While the first Sync scans the local side,
  nobody else changes it but open files: calls wait;
* `TarOK`, `VersionsOK`: a patch has one entry of each path it has visited, and a version belongs to one kind of
  entry, on either side, in the index or in the patch, so that versions tell whether a directory is there;
* `PathOK`, for each path that is not loose: the newest version is on one side (`Newest`); if the remote does not
  have it, it is recorded as it is, announced by a call, or still to be scanned (`Noted`); what is recorded is the
  newest and too new to be pulled over (`NoteOK`); what a patch holds is the newest or was changed since, by a call
  that will record it (`Patches`), and before the record is reset everything in it has been visited (`PushOK`);
  what is to be pulled has no change of its own, and is on the remote as the index has it (`PullOK`); the index is
  that of the remote for what nobody has touched, and what the first scan takes for news is the newest (`ScanOK`);
  and what only the remote has is newer by two seconds or absent here, and no directory is in the way, so that the
  scan pulls it, or a copy that failed missed it (`CanPull`), which is what `InStep` needs at the end of a Sync;
* `DueOK`: what was recorded after the record was reset has set the timer.

`NoChangeIsLost` and `SyncsLeaveInStep` follow path by path; `PushesAreDue` is independent of the paths. The proof
has a lemma for what each action does to the fields of the Sync, one for each action and part of `IInv`, and
`PathsSame` for the paths an action does not reach. The attempt corrected the model: the earlier
conditions of `loose` missed changes that overlap a rename of a directory, or another client's, the run had no
directory on both sides, so that `RenameLocal` was never taken there, and what the two sides have at first was all
of one time, so that the first Sync never found a file newer on the local side, nor a kind that differs.
`NothingLost` is claimed of fewer paths than before; section 4 names the code that loses them.

**`R2fsProofs`**, for any tree of paths, calls, goroutines and failures: `RenamesKeepObjects`. A call is a stack of
functions that sleep while the one on top sends its requests, so the invariant is about every frame of every
stack, by where in its function it is:
* the paths that two calls may touch are apart, and a frame works within those of its call (`Within`);
* `Looked` and `Placed`: what a frame of a rename has read is what is there, at the old name until the delete,
  at the new name after the put; together they are `Held`, which is the property and more;
* `WaitsFor`: the frame below waits for a child of its own directory, or for the compareAndSwap it has called,
  so that what returns to it is its own;
* a listing names only what has a place among the paths (`BucketOK`), which the steps from a directory to its
  children need.

One lemma per request says what it does to the bucket within the paths of its call, and general lemmas keep `Held`
for the frames whose objects it does not reach. The old and the new name part at some place (`Diverge`, from the
calls that are `Proper`), so that a put or a delete at one is not at the other; and a listing is put only where a
directory is, so that the listings, which calls share, are no object that `Held` speaks of.
A clean-up that deletes the new name after an error (`ElseTakesBack`, the mutant) is where this fails: it
is right only as long as the old name has not been deleted.

**`DeviceProofs`.** `StateIsTold` and `SocketsHaveOneHolder` of the connections: `OwnInv` says that a socket
that is open, and was not put aside by a store, is in exactly one pair of hands, a resource's, a call's or a
backlog's; a step hands it on. `GuestsAreNewest` of the virtual machines: as long as no guest was set while an
earlier one was being bound, whoever is about to bind has read the newest; a binding that failed says nothing until
the next guest is set.

Of the pipes, `TypeCorrect`, `StreamsStayIntact`, `ClosedHasNoSleeper`, `EOFStaysFinal`, and
`PipeImplementsDuplex`: every step of the code is a step of the two byte streams, or a stutter. Each property
is inductive together with the types: a Read goes to sleep only on a buffer that it has seen open in the same
critical section, and `CloseBuffer` empties the notify list; what answers EOF in a blocking pipe is closed and
drained, and stays so because `Write` tests `closed` under the mutex; `Take` cuts a buffer into the part it
delivers and the part it leaves. Most of the lemmas are about such cuts of sequences.

Of the terminals, `LinesStay`: what comes out is `Shown` of all that was written, wherever the writes are cut
(`LinesStayLines`), because `prev` is the last byte written (`TermInv`). Both `Translate`, a loop, and `Shown`, a
fold, run over sequences of any length. The lemmas before it get induction from the library's minimal element of a
set under a well-founded relation, which takes a set and no operator (`LeastOfNaturals`, `InductionOnSets`), and
show with it that both put the same pieces together (`Sums`, `FlattenIsSum`, `FlattenConcat`).

The assumptions on constants are those the code makes: paths are closed under their directories and the root is
a directory (`PathsAssumption`, `StoredAssumption` of Httpfs); paths of r2fs are sequences of names, and what the
bucket lists at first has a place among them; agents in the background are not callers
(`AgentsAssumption`); operations are those there are (`OpsAssumption`, `SyncOpsAssumption`); what the two sides of
a syncfs have at first is of versions and times before `SyncStart`, and a version is that of one entry
(`SyncStoredAssumption`), and paths are numbers, for the order of WalkDir; what a memfs has at first is finite
(`StoredAssumption` of Memfs); a URL in a cache is a scheme and a path (`CachesAssumption`); a program's write to a
terminal has a byte (`TermAssumption`; an empty one returns at once); names of kinds, files and modes differ.

**Model-checked only.** Liveness everywhere, and `NobodyStuck`, since fairness and ENABLED are out of the
prover's reach. `RingInOrder` is about the order of cells that are overwritten; `AnsweredOnceWhole` about
`Complete`, which is recursive. The
properties of `Resolution` are about recursion through a tree of bindings, whose operators tlapm does not take.
`MovedWhole`, `FidsFollow` and `FidsReturned` follow one call through all the calls it is made of, and through
the recursion of `CopyFS` and `RemoveAll`. Of `R2fs`, `AsOneByOne` has no theorem: it relates the listings, the
cache and every object to a history, through every order of all the functions, where `RenamesKeepObjects`
follows one object. `Cowfs` has none either, nor have `Idbfs` and, of the stores of the browser, `RenameKeeps` and
`CachesAgree`: each follows a rename, or a cached answer, through all the awaits of the calls it may meet. Sizes and bounds of the proved
modules are arbitrary; those of the rest are those of section 3.

## 6. What is not modelled, and the plan

Left out of the modelled parts: what only reads and reports (`Buffer.Size`, `SubscriberCount`, `NS.Binds`,
`String`), text formats (of `ctl` commands only `start` is there), times and modes where no answer depends on
them, renames of directories in Cowfs and MetaCache, following of links across layers, concurrent calls of
Cowfs (no lock orders them, and each reads both layers before it changes one), `ReadAt` and `Seek` of FuncFile,
descriptors 0 to 2, `CopyNewFS`, extended attributes, directory sizes of memfs, paging of a 9P Readdir, base
paths and prefixes of the HTTP stores, P9PortReadWriter, which frames as `Bridge` does, and what is never
called (`term` `remove`, `net` `shutdown`). Panics other than those named in section 4, and what Go does on
concurrent writes of a map, end the program and are left out.

Not modelled at all: the components listed at the end of section 1. They keep no state that could go wrong, or
their behaviour is that of a browser, an operating system or another project.

What would come next: theorems on `Idbfs` (`CachesAgree`); concurrent calls of Cowfs; a composition of MetaCache
over P9Client, which is how the page uses them.
