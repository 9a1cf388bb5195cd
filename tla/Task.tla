-------------------------------- MODULE Task --------------------------------
(***************************************************************************)
(* Tasks and the task file system (task.go), used as the programs of tasks *)
(* use it, through the file descriptors of the api package.                *)
(*                                                                         *)
(* A thread works for a running task.  It opens a file of #task, new/kind, *)
(* <rid>/alias or <rid>/ctl, which gets a descriptor of its task (OpenFD), *)
(* and reads, writes or closes descriptors.  The files are FuncFiles:      *)
(* reading new/kind allocates a task, closing an alias that was written    *)
(* sets it, closing a ctl with "start" written starts the task.  CloseFD   *)
(* holds the lock of the closing task until Close returns, and the auto    *)
(* driver holds the lock of the TaskFS while it starts a task, which takes *)
(* the lock of that task.                                                  *)
(*                                                                         *)
(* A task's namespace, its command, environment and exit status, and what  *)
(* its standard files are, are left out; so is opening #task without a     *)
(* task in the context (the parent is then task 1).                        *)
(*                                                                         *)
(* Alloc holds TaskFS.mu only to look at the kinds: taking a number and    *)
(* entering the table is done without it, step by step.  What the Go       *)
(* runtime does on concurrent map writes (it may stop the program) is left *)
(* out.                                                                    *)
(*                                                                         *)
(* Bounds: the programs make at most MaxCalls calls and open at most       *)
(* MaxFiles files.                                                         *)
(* A program starts only tasks it allocated, once: see OpenPath.            *)
(***************************************************************************)
EXTENDS FuncFile, FiniteSets

CONSTANTS
  Threads,    \* the threads that serve the calls of programs
  AutoKind,       \* the kind "auto"
  Kinds,      \* the other registered kinds
  Unknown,    \* a kind that is not registered
  Names,      \* tokens written to alias files
  Start,      \* the token "start"
  NoOne,      \* the holder of a lock nobody holds
  MaxFiles,   \* bound: files opened
  MaxCalls    \* bound: calls made

VARIABLES
  tasks,      \* the tasks allocated so far, the root task first
  taskfs,     \* the TaskFS: mu, nextID, resources, aliases
  calls,      \* the number of calls made
  overlapped  \* history: two Allocs have overlapped

vars == <<files, call, tasks, taskfs, calls, overlapped>>

AllKinds == Kinds \cup {AutoKind}

(***************************************************************************)
(* A task; mu is the thread holding its lock.  by and names are history:   *)
(* the file whose ReadFunc allocated the task and the aliases it has had.  *)
(***************************************************************************)
NewTask(id, kind, parent, by) ==
  [id |-> id, driver |-> kind, alias |-> <<>>, parent |-> parent, fds |-> <<>>, fdIdx |-> 3,
   mu |-> NoOne, running |-> FALSE, by |-> by, names |-> {}]

Init ==
  /\ files = <<>>
  /\ call = [t \in Threads |-> NoCall]
  /\ tasks = <<[NewTask(1, AutoKind, 0, 0) EXCEPT !.running = TRUE]>>
  /\ taskfs = [mu |-> NoOne, nextID |-> 1, resources |-> <<1>>, aliases |-> <<>>]
  /\ calls = 0
  /\ overlapped = FALSE

Put(f, k, v) == [x \in DOMAIN f \cup {k} |-> IF x = k THEN v ELSE f[x]]
Without(f, k) == [x \in DOMAIN f \ {k} |-> f[x]]

Owner(t) == tasks[call[t].own]
Subject(t) == tasks[File(t).of]
SetOwner(t, r) == tasks' = [tasks EXCEPT ![call[t].own] = r]

-----------------------------------------------------------------------------
(* Descriptors *)

\* Task.OpenFD, under the lock of the task
OpenFD(own, file) ==
  LET r == tasks[own]
      fd == r.fdIdx + 1
  IN /\ r.mu = NoOne
     /\ tasks' = [tasks EXCEPT ![own] = [r EXCEPT !.fdIdx = fd, !.fds = Put(@, fd, file)]]

\* syscaller.open: a file of #task is opened and given a descriptor
Open(own, f) ==
  /\ files' = Append(files, f)
  /\ OpenFD(own, Len(files) + 1)
  /\ UNCHANGED <<call, taskfs, overlapped>>

OpenPath(t) ==
  /\ At(t, "idle") /\ Len(files) < MaxFiles
  /\ \E own \in DOMAIN tasks :
       /\ tasks[own].running
       /\ \/ \E kind \in AllKinds \cup {Unknown} : Open(own, NewFuncFile("new", kind, <<>>))
          \/ \E rid \in DOMAIN taskfs.resources :
               LET r == taskfs.resources[rid]
               IN \/ Open(own, NewFuncFile("alias", r, tasks[r].alias))
                  \/ /\ tasks[r].parent = own
                     /\ \A i \in DOMAIN files : ~(files[i].what = "ctl" /\ files[i].of = r)
                     /\ Open(own, NewFuncFile("ctl", r, <<>>))

\* Task.FD, under the lock; the Read or Write of the file then goes without it
FD(t, own, fd, op, token) ==
  /\ tasks[own].mu = NoOne
  /\ call' = [call EXCEPT ![t] = CallOf(op, own, tasks[own].fds[fd], token)]
  /\ UNCHANGED <<files, tasks, taskfs, overlapped>>

Writable(f, token) ==
  \/ files[f].what = "alias" /\ token \in Names
  \/ files[f].what = "ctl" /\ token = Start

\* syscaller.read and syscaller.write
BeginIO(t) ==
  /\ At(t, "idle")
  /\ \E own \in DOMAIN tasks :
       /\ tasks[own].running
       /\ \E fd \in DOMAIN tasks[own].fds :
            LET f == tasks[own].fds[fd]
            IN \/ files[f].what # "ctl" /\ FD(t, own, fd, "read", 0)
               \/ \E token \in Names \cup {Start} : Writable(f, token) /\ FD(t, own, fd, "write", token)

\* Task.CloseFD: the lock is held until Close has returned
CloseFD(t) ==
  /\ At(t, "idle")
  /\ \E own \in DOMAIN tasks :
       /\ tasks[own].running /\ tasks[own].mu = NoOne
       /\ \E fd \in DOMAIN tasks[own].fds :
            /\ call' = [call EXCEPT ![t] = CallOf("close", own, tasks[own].fds[fd], 0)]
            /\ tasks' = [tasks EXCEPT ![own].fds = Without(@, fd), ![own].mu = t]
  /\ UNCHANGED <<files, taskfs, overlapped>>

CloseFDReturns(t) ==
  /\ At(t, "done")
  /\ SetOwner(t, [Owner(t) EXCEPT !.mu = NoOne])
  /\ Return(t)
  /\ UNCHANGED <<files, taskfs, overlapped>>

-----------------------------------------------------------------------------
(* ReadFunc of new/kind: TaskFS.Alloc.  An alias only notes that it was read. *)

AllocSteps == {"load", "count", "number", "insert"}

FieldRead(t) ==
  /\ At(t, "readfunc") /\ File(t).what = "alias"
  /\ Update(t, [File(t) EXCEPT !.wasRead = TRUE])
  /\ GoTo(t, "opened")
  /\ UNCHANGED <<tasks, taskfs, overlapped>>

\* driver, ok := d.types[kind], under the lock
AllocKind(t) ==
  /\ At(t, "readfunc") /\ File(t).what = "new" /\ taskfs.mu = NoOne
  /\ IF File(t).of \in AllKinds
     THEN /\ GoTo(t, "load")
          /\ overlapped' = (overlapped \/ \E u \in Threads : call[u].pc \in AllocSteps)
          /\ UNCHANGED files
     ELSE /\ Return(t)
          /\ Update(t, [File(t) EXCEPT !.failed = TRUE])
          /\ UNCHANGED overlapped
  /\ UNCHANGED <<tasks, taskfs>>

\* d.nextID++ is a load and a store
AllocLoad(t) ==
  /\ At(t, "load")
  /\ call' = [call EXCEPT ![t].pc = "count", ![t].loaded = taskfs.nextID]
  /\ UNCHANGED <<files, tasks, taskfs, overlapped>>

AllocCount(t) ==
  /\ At(t, "count")
  /\ taskfs' = [taskfs EXCEPT !.nextID = call[t].loaded + 1]
  /\ GoTo(t, "number")
  /\ UNCHANGED <<files, tasks, overlapped>>

\* rid := strconv.Itoa(d.nextID)
AllocNumber(t) ==
  /\ At(t, "number")
  /\ call' = [call EXCEPT ![t].pc = "insert", ![t].rid = taskfs.nextID]
  /\ UNCHANGED <<files, tasks, taskfs, overlapped>>

\* id: d.nextID ... d.resources[rid] = p, and the id becomes the file's data
AllocInsert(t) ==
  LET p == NewTask(taskfs.nextID, File(t).of, call[t].own, call[t].file)
  IN /\ At(t, "insert")
     /\ tasks' = Append(tasks, p)
     /\ taskfs' = [taskfs EXCEPT !.resources = Put(@, call[t].rid, Len(tasks) + 1)]
     /\ Update(t, [File(t) EXCEPT !.data = <<p.id>>])
     /\ GoTo(t, "opened")
     /\ UNCHANGED overlapped

Alloc(t) == AllocKind(t) \/ AllocLoad(t) \/ AllocCount(t) \/ AllocNumber(t) \/ AllocInsert(t)

-----------------------------------------------------------------------------
(* CloseFunc of alias and ctl *)

Closed(t) ==
  LET f == File(t)
      next == IF f.what = "alias" /\ ~f.wasRead THEN "setalias"
              ELSE IF f.what = "ctl" /\ f.data = <<Start>>
                   THEN IF Subject(t).driver = AutoKind THEN "auto" ELSE "launch"
                   ELSE "done"
  IN /\ At(t, "closefunc")
     /\ GoTo(t, next)
     /\ UNCHANGED <<files, tasks, taskfs, overlapped>>

\* oldalias := r.alias
AliasLoad(t) ==
  /\ At(t, "setalias")
  /\ call' = [call EXCEPT ![t].pc = "storealias", ![t].oldalias = Subject(t).alias]
  /\ UNCHANGED <<files, tasks, taskfs, overlapped>>

\* r.alias = the name written
AliasStore(t) ==
  /\ At(t, "storealias")
  /\ tasks' = [tasks EXCEPT ![File(t).of].alias = File(t).data, ![File(t).of].names = @ \cup {File(t).data}]
  /\ GoTo(t, "table")
  /\ UNCHANGED <<files, taskfs, overlapped>>

\* Mutant of AliasTable: the old alias is deleted after the new one has been entered.
AliasTableDeleteLast(t) ==
  LET r == File(t).of
      old == call[t].oldalias
      entered == Put(taskfs.aliases, tasks[r].alias, r)
  IN /\ At(t, "table") /\ taskfs.mu = NoOne
     /\ taskfs' = [taskfs EXCEPT !.aliases = IF old = <<>> THEN entered ELSE Without(entered, old)]
     /\ GoTo(t, "done")
     /\ UNCHANGED <<files, tasks, overlapped>>

\* Under the lock: the old alias goes, the alias the task has now is entered
AliasTable(t) ==
  LET r == File(t).of
      old == call[t].oldalias
      rest == IF old = <<>> THEN taskfs.aliases ELSE Without(taskfs.aliases, old)
  IN /\ At(t, "table") /\ taskfs.mu = NoOne
     /\ taskfs' = [taskfs EXCEPT !.aliases = Put(rest, tasks[r].alias, r)]
     /\ GoTo(t, "done")
     /\ UNCHANGED <<files, tasks, overlapped>>

SetAlias(t) == AliasLoad(t) \/ AliasStore(t) \/ AliasTable(t)

\* The auto driver looks for a driver that takes the task's command
AutoDriver(t) ==
  /\ At(t, "auto") /\ taskfs.mu = NoOne
  /\ \/ GoTo(t, "done") /\ UNCHANGED taskfs
     \/ Kinds # {} /\ GoTo(t, "launch") /\ taskfs' = [taskfs EXCEPT !.mu = t]
  /\ UNCHANGED <<files, tasks, overlapped>>

\* Mutant of Launch: the driver looks for its files in the task that starts the new one.
LaunchFromParent(t) ==
  /\ At(t, "launch") /\ Owner(t).mu = NoOne
  /\ \E started \in BOOLEAN : tasks' = [tasks EXCEPT ![File(t).of].running = started]
  /\ taskfs' = IF taskfs.mu = t THEN [taskfs EXCEPT !.mu = NoOne] ELSE taskfs
  /\ GoTo(t, "done")
  /\ UNCHANGED <<files, overlapped>>

(***************************************************************************)
(* TaskDriver.Start: the drivers open standard files (Task.FD) and note    *)
(* the worker (SetWorker) under the lock of the task they start, or fail.  *)
(***************************************************************************)
Launch(t) ==
  /\ At(t, "launch") /\ Subject(t).mu = NoOne
  /\ \E started \in BOOLEAN : tasks' = [tasks EXCEPT ![File(t).of].running = started]
  /\ taskfs' = IF taskfs.mu = t THEN [taskfs EXCEPT !.mu = NoOne] ELSE taskfs
  /\ GoTo(t, "done")
  /\ UNCHANGED <<files, overlapped>>

-----------------------------------------------------------------------------
FileStep(t) == FuncFileStep(t) /\ UNCHANGED <<tasks, taskfs, overlapped>>

Proceed(t) ==
  \/ FileStep(t)
  \/ FieldRead(t) \/ Alloc(t)
  \/ Closed(t) \/ SetAlias(t) \/ AutoDriver(t) \/ Launch(t)
  \/ CloseFDReturns(t)

Call(t) ==
  /\ calls < MaxCalls
  /\ OpenPath(t) \/ BeginIO(t) \/ CloseFD(t)
  /\ calls' = calls + 1

Next == \E t \in Threads : Call(t) \/ (Proceed(t) /\ UNCHANGED calls)

Spec == Init /\ [][Next]_vars

-----------------------------------------------------------------------------
(***************************************************************************)
(* However many threads read a file of #task/new, and however often, it    *)
(* allocates one task and every read gives the same id.                    *)
(***************************************************************************)
OneTaskPerFile ==
  \A f \in DOMAIN files : files[f].what = "new" =>
    /\ Cardinality({p \in DOMAIN tasks : tasks[p].by = f}) <= 1
    /\ Cardinality(files[f].got) <= 1

(***************************************************************************)
(* As long as no two Allocs have overlapped, the id read from a file of    *)
(* #task/new names, from then on, the task that file allocated.            *)
(***************************************************************************)
IdNamesTask ==
  ~overlapped => \A f \in DOMAIN files : files[f].what = "new" =>
    \A data \in files[f].got :
      \E id \in DOMAIN taskfs.resources : data = <<id>> /\ tasks[taskfs.resources[id]].by = f

(***************************************************************************)
(* Whatever threads write the alias of a task at the same time, once none  *)
(* of them is in the setter the alias the task has is in the table, if no  *)
(* other task has had it.                                                  *)
(***************************************************************************)
AliasFound ==
  \A r \in DOMAIN tasks :
    LET alias == tasks[r].alias
    IN /\ alias # <<>>
       /\ \A t \in Threads : call[t].pc \in {"setalias", "storealias", "table"} => File(t).of # r
       /\ \A q \in DOMAIN tasks \ {r} : alias \notin tasks[q].names
       => alias \in DOMAIN taskfs.aliases /\ taskfs.aliases[alias] = r

(***************************************************************************)
(* No call waits forever: closing a ctl holds the lock of a task, then     *)
(* that of the TaskFS, then that of the task it starts, and yet, as long   *)
(* as there are threads in calls, one of them can go on (and a call is a   *)
(* finite number of steps).  A Read after ReadFunc has failed is excepted: *)
(* it spins until the file is closed or written.                           *)
(***************************************************************************)
NobodyStuck ==
  (\E t \in Threads : ~At(t, "idle") /\ ~(At(t, "await") /\ File(t).failed))
    => \E t \in Threads : ENABLED Proceed(t)
=============================================================================
