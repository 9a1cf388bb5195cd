----------------------------- MODULE TaskProofs -----------------------------
(***************************************************************************)
(* Theorems about tasks and their files, for any number of threads, names, *)
(* kinds, files and calls: reading a file of #task/new allocates one task, *)
(* whichever threads read it; what was written to a file before it was     *)
(* read is what its CloseFunc is given; and an alias that no other task    *)
(* has had is found once nobody is setting it.                             *)
(***************************************************************************)
EXTENDS Task, SequenceTheorems, FiniteSetTheorems, TLAPS

-----------------------------------------------------------------------------
(* Types.                                                                  *)

Tokens == Nat \cup Names \cup {Start}
Data == Seq(Tokens)
Whats == {"new", "alias", "ctl"}

NodeFiles == [data : Data, offset : Nat, dirty : BOOLEAN, closed : BOOLEAN]

Files ==
  [what : Whats, of : Nat \cup AllKinds \cup {Unknown}, data : Data, hasRead : BOOLEAN, wasRead : BOOLEAN,
   closed : BOOLEAN, openFile : Nat, nodeFiles : Seq(NodeFiles), acked : Seq(Tokens), got : SUBSET Data,
   failed : BOOLEAN]

ReadFuncs == {"readfunc", "opened"} \cup AllocSteps
Writes == {"write", "openwrite", "put"}
Setters == {"setalias", "storealias", "table"}
Starts == {"auto", "launch"}
Places == {"idle", "read", "await", "get", "close", "sync", "closefunc", "done"}
            \cup ReadFuncs \cup Writes \cup Setters \cup Starts

CallRecords == [pc : Places, own : Nat, file : Nat, nodeFile : Nat, token : Tokens, loaded : Nat, rid : Nat, oldalias : Data]

Tables(D, R) == UNION {[S -> R] : S \in SUBSET D}

TaskRecords ==
  [id : Nat, driver : AllKinds \cup {Unknown} \cup Nat, alias : Data, parent : Nat, fds : Tables(Nat, Nat), fdIdx : Nat,
   mu : Threads \cup {NoOne}, running : BOOLEAN, by : Nat, names : SUBSET Data]

TaskFSes == [mu : Threads \cup {NoOne}, nextID : Nat, resources : Tables(Nat, Nat), aliases : Tables(Data, Nat)]

TypeOK ==
  /\ files \in Seq(Files)
  /\ call \in [Threads -> CallRecords]
  /\ tasks \in Seq(TaskRecords)
  /\ taskfs \in TaskFSes

-----------------------------------------------------------------------------
(* What is so of a file, of a call of a file, and of a file and its calls. *)

\* What was written into the one copy there is of a file nobody has read
Wrote(g, nf) ==
  /\ nf.offset = Len(g.acked) /\ Len(g.acked) <= Len(nf.data)
  /\ \A i \in 1 .. Len(g.acked) : nf.data[i] = g.acked[i]
  /\ g.acked # <<>> => nf.dirty
  /\ nf.closed /\ nf.dirty => g.data = nf.data

\* A file of #task/new is read as what it was filled with; a file that nobody
\* has read has one copy at most, and every write went there.
GoodFile(g) ==
  /\ g.openFile \in 0 .. Len(g.nodeFiles)
  /\ \A n \in DOMAIN g.nodeFiles : g.nodeFiles[n].offset <= Len(g.nodeFiles[n].data)
  /\ g.what = "new" =>
       /\ Len(g.data) <= 1
       /\ \A n \in DOMAIN g.nodeFiles : g.nodeFiles[n].data = g.data /\ ~g.nodeFiles[n].dirty
       /\ g.got \subseteq {g.data} /\ <<>> \notin g.got /\ (g.got # {} => g.nodeFiles # <<>>)
       /\ g.nodeFiles # <<>> => g.hasRead
  /\ ~g.hasRead =>
       /\ Len(g.nodeFiles) <= 1 /\ g.openFile = Len(g.nodeFiles)
       /\ g.nodeFiles = <<>> => g.acked = <<>>
       /\ g.nodeFiles # <<>> => Wrote(g, g.nodeFiles[1])

\* What a call at its place says of its file
GoodCall(c, g) ==
  /\ c.pc \in ReadFuncs \cup {"await", "get"} => g.hasRead
  /\ c.pc \in {"get", "put", "sync", "closefunc"} => c.nodeFile \in DOMAIN g.nodeFiles
  /\ c.pc = "closefunc" => g.nodeFiles[c.nodeFile].closed
  /\ c.pc \in Writes => g.what # "new"
  /\ c.pc \in Setters => g.what = "alias"
  /\ c.pc \in Starts => g.what = "ctl"
  /\ c.pc \in AllocSteps => g.what = "new"

\* What steps leave as it is in a file
Later(f, g) ==
  /\ g.what = f.what /\ g.of = f.of
  /\ f.hasRead => g.hasRead
  /\ \A n \in DOMAIN f.nodeFiles :
       n \in DOMAIN g.nodeFiles /\ (f.nodeFiles[n].closed => g.nodeFiles[n].closed)

InPlace ==
  /\ \A f \in DOMAIN files : GoodFile(files[f]) /\ (files[f].what # "new" => files[f].of \in DOMAIN tasks)
  /\ \A t \in Threads : call[t].pc # "idle" =>
       /\ call[t].own \in DOMAIN tasks /\ call[t].file \in DOMAIN files
       /\ GoodCall(call[t], File(t))
  /\ \A p \in DOMAIN tasks : \A fd \in DOMAIN tasks[p].fds : tasks[p].fds[fd] \in DOMAIN files
  /\ \A rid \in DOMAIN taskfs.resources : taskfs.resources[rid] \in DOMAIN tasks

\* One call at a time is in the ReadFunc of a file; until it has filled the
\* file nobody has a copy, and no task was allocated for it.
Alone ==
  /\ \A t \in Threads : call[t].pc \in ReadFuncs =>
       /\ \A u \in Threads \ {t} : call[u].pc \in ReadFuncs => call[u].file # call[t].file
       /\ File(t).what = "new" => File(t).nodeFiles = <<>>
       /\ call[t].pc # "opened" => \A p \in DOMAIN tasks : tasks[p].by # call[t].file
  /\ \A f \in DOMAIN files : ~files[f].hasRead => \A p \in DOMAIN tasks : tasks[p].by # f
  /\ \A p, q \in DOMAIN tasks : tasks[p].by = tasks[q].by => tasks[p].by = 0 \/ p = q
  /\ \A p \in DOMAIN tasks : tasks[p].by <= Len(files)

TaskInv == TypeOK /\ InPlace /\ Alone

-----------------------------------------------------------------------------
(* A step of one call.                                                     *)

\* The call of t goes on as c, and leaves its file as g
Goes(t, c, g) ==
  /\ files' = [files EXCEPT ![call[t].file] = g]
  /\ call' = [call EXCEPT ![t] = c]

\* How a call and its file may go on without a word of other tasks
Fits(t, c, g) ==
  /\ c \in CallRecords /\ g \in Files
  /\ c.pc = "idle" \/ (c.own = call[t].own /\ c.file = call[t].file)
  /\ Later(File(t), g) /\ GoodFile(g)
  /\ g.what = "new" => g.data = File(t).data
  /\ c.pc # "idle" => GoodCall(c, g)
  /\ c.pc \in ReadFuncs => \/ call[t].pc \in ReadFuncs /\ (c.pc # "opened" => call[t].pc # "opened")
                           \/ ~File(t).hasRead
  /\ g.what = "new" /\ g.nodeFiles # <<>> =>
       \/ File(t).nodeFiles # <<>>
       \/ call[t].pc \in ReadFuncs /\ c.pc \notin ReadFuncs

\* The tasks there are, but for their locks, descriptors and names
SameTasks ==
  /\ tasks' \in Seq(TaskRecords) /\ DOMAIN tasks' = DOMAIN tasks
  /\ \A p \in DOMAIN tasks :
       /\ tasks'[p].by = tasks[p].by
       /\ \A fd \in DOMAIN tasks'[p].fds : fd \in DOMAIN tasks[p].fds /\ tasks'[p].fds[fd] = tasks[p].fds[fd]
  /\ taskfs' \in TaskFSes /\ taskfs'.resources = taskfs.resources

LEMMA CallStaysGood ==
  ASSUME NEW c, NEW f, NEW g, GoodCall(c, f), Later(f, g)
  PROVE  GoodCall(c, g)
BY DEF GoodCall, Later

LEMMA OneCallGoes ==
  ASSUME TaskInv, NEW t \in Threads, call[t].pc # "idle", NEW c, NEW g, Goes(t, c, g), Fits(t, c, g), SameTasks
  PROVE  TaskInv'
<1> DEFINE k == call[t].file
<1>1. k \in DOMAIN files /\ File(t) = files[k] /\ DOMAIN files = 1 .. Len(files)
  BY DEF TaskInv, TypeOK, InPlace, File
<1> HIDE DEF k
<1>2. /\ files' \in Seq(Files) /\ DOMAIN files' = DOMAIN files /\ Len(files') = Len(files)
      /\ files'[k] = g /\ \A f \in DOMAIN files \ {k} : files'[f] = files[f]
  BY <1>1 DEF TaskInv, TypeOK, Goes, Fits, k
<1>3. /\ call' \in [Threads -> CallRecords] /\ call'[t] = c
      /\ \A u \in Threads \ {t} : call'[u] = call[u]
  BY DEF TaskInv, TypeOK, Goes, Fits
<1>4. \A f \in DOMAIN files : Later(files[f], files'[f])
  BY <1>1, <1>2 DEF Later, Fits
<1>5. TypeOK'
  BY <1>2, <1>3 DEF TypeOK, SameTasks
<1>6. InPlace'
  <2>1. ASSUME NEW f \in DOMAIN files
        PROVE  GoodFile(files'[f]) /\ (files'[f].what # "new" => files'[f].of \in DOMAIN tasks)
    BY <1>1, <1>2, <1>4 DEF Fits, Later, TaskInv, InPlace
  <2>2. ASSUME NEW u \in Threads, call'[u].pc # "idle"
        PROVE  /\ call'[u].own \in DOMAIN tasks /\ call'[u].file \in DOMAIN files
               /\ GoodCall(call'[u], files'[call'[u].file])
    <3>1. CASE u = t
      BY <3>1, <2>2, <1>1, <1>2, <1>3 DEF Fits, TaskInv, InPlace, k
    <3>2. CASE u # t
      BY <3>2, <2>2, <1>3, <1>4, CallStaysGood DEF TaskInv, InPlace, File
    <3> QED BY <3>1, <3>2
  <2>3. \A p \in DOMAIN tasks : \A fd \in DOMAIN tasks'[p].fds : tasks'[p].fds[fd] \in DOMAIN files
    BY DEF SameTasks, TaskInv, InPlace
  <2>4. \A rid \in DOMAIN taskfs'.resources : taskfs'.resources[rid] \in DOMAIN tasks
    BY DEF SameTasks, TaskInv, InPlace
  <2>5. DOMAIN tasks' = DOMAIN tasks
    BY DEF SameTasks
  <2> QED BY <2>1, <2>2, <2>3, <2>4, <2>5, <1>2 DEF InPlace, File
<1>7. Alone'
  <2>1. ASSUME NEW u \in Threads, call'[u].pc \in ReadFuncs
        PROVE  /\ \A v \in Threads \ {u} : call'[v].pc \in ReadFuncs => call'[v].file # call'[u].file
               /\ files'[call'[u].file].what = "new" => files'[call'[u].file].nodeFiles = <<>>
               /\ call'[u].pc # "opened" => \A p \in DOMAIN tasks : tasks[p].by # call'[u].file
    <3>1. c.pc \in ReadFuncs => /\ c.file = k
                                /\ \/ call[t].pc \in ReadFuncs /\ (c.pc # "opened" => call[t].pc # "opened")
                                   \/ ~files[k].hasRead
      BY <1>1 DEF Fits, k, ReadFuncs, AllocSteps
    <3>2. \A v \in Threads \ {t} : call[v].pc \in ReadFuncs => /\ call[v].file \in DOMAIN files
                                                             /\ files[call[v].file].hasRead
      BY DEF TaskInv, InPlace, GoodCall, ReadFuncs, AllocSteps, File
    <3>3. CASE u = t
      <4>1. \A v \in Threads \ {t} : call[v].pc \in ReadFuncs => call[v].file # k
        BY <3>1, <3>2, <3>3, <2>1, <1>3 DEF TaskInv, Alone, k
      <4>2. files[k].what = "new" => files[k].nodeFiles = <<>>
        BY <3>1, <3>3, <2>1, <1>1, <1>3 DEF TaskInv, Alone, InPlace, GoodFile
      <4>3. g.what = "new" => g.nodeFiles = <<>>
        BY <4>2, <3>3, <2>1, <1>1, <1>3 DEF Fits, Later
      <4>4. c.pc # "opened" => \A p \in DOMAIN tasks : tasks[p].by # k
        BY <3>1, <3>3, <2>1, <1>1, <1>3 DEF TaskInv, Alone, k
      <4> QED BY <3>1, <3>3, <4>1, <4>3, <4>4, <2>1, <1>2, <1>3
    <3>4. CASE u # t
      <4>1. call'[u] = call[u] /\ call[u].pc \in ReadFuncs
        BY <3>4, <2>1, <1>3
      <4>2. c.pc \in ReadFuncs => call[u].file # k
        BY <4>1, <3>1, <3>2, <3>4 DEF TaskInv, Alone, k
      <4>3. \A v \in Threads \ {u} : call'[v].pc \in ReadFuncs => call'[v].file # call[u].file
        <5>1. ASSUME NEW v \in Threads \ {u}, call'[v].pc \in ReadFuncs  PROVE call'[v].file # call[u].file
          <6>1. CASE v = t  BY <6>1, <5>1, <4>2, <3>1, <1>3
          <6>2. CASE v # t  BY <6>2, <5>1, <4>1, <1>3 DEF TaskInv, Alone
          <6> QED BY <6>1, <6>2
        <5> QED BY <5>1
      <4>4. files'[call[u].file].what = "new" => files'[call[u].file].nodeFiles = <<>>
        <5>1. CASE call[u].file # k
          BY <5>1, <4>1, <3>2, <3>4, <1>2 DEF TaskInv, Alone, File
        <5>2. CASE call[u].file = k
          <6>1. files[k].what = "new" => files[k].nodeFiles = <<>>
            BY <5>2, <4>1 DEF TaskInv, Alone, File
          <6>2. call[t].pc \notin ReadFuncs
            BY <5>2, <4>1, <3>4 DEF TaskInv, Alone, k
          <6> QED BY <5>2, <6>1, <6>2, <1>1, <1>2 DEF Fits, Later
        <5> QED BY <5>1, <5>2
      <4> QED BY <4>1, <4>3, <4>4 DEF TaskInv, Alone
    <3> QED BY <3>3, <3>4
  <2>2. ASSUME NEW f \in DOMAIN files, ~files'[f].hasRead  PROVE \A p \in DOMAIN tasks : tasks[p].by # f
    <3>1. ~files[f].hasRead
      BY <2>2, <1>4 DEF Later
    <3> QED BY <3>1 DEF TaskInv, Alone
  <2>3. DOMAIN tasks' = DOMAIN tasks /\ \A p \in DOMAIN tasks : tasks'[p].by = tasks[p].by
    BY DEF SameTasks
  <2>4. \A p, q \in DOMAIN tasks : tasks[p].by = tasks[q].by => tasks[p].by = 0 \/ p = q
    BY DEF TaskInv, Alone
  <2>5. \A p \in DOMAIN tasks : tasks[p].by <= Len(files')
    BY <1>2 DEF TaskInv, Alone
  <2> QED BY <2>1, <2>2, <2>3, <2>4, <2>5, <1>2 DEF Alone, File
<1> QED BY <1>5, <1>6, <1>7 DEF TaskInv

-----------------------------------------------------------------------------
(* The steps of FuncFile.                                                  *)

LEMMA FileTypes ==
  ASSUME TypeOK, InPlace, NEW t \in Threads, call[t].pc # "idle"
  PROVE  /\ call[t] \in CallRecords /\ File(t) \in Files
         /\ call[t].file \in DOMAIN files /\ GoodFile(File(t)) /\ GoodCall(call[t], File(t))
         /\ files = [files EXCEPT ![call[t].file] = File(t)]
BY DEF TypeOK, InPlace, File

LEMMA LaterItself == ASSUME NEW f PROVE Later(f, f)
BY DEF Later

LEMMA NoCallTypes == NoCall \in CallRecords /\ NoCall.pc = "idle"
<1>1. <<>> \in Data
  BY EmptySeq DEF Data
<1> QED BY <1>1 DEF NoCall, CallOf, CallRecords, Places, Tokens

\* GoTo and Use of a call
GoneTo(r, pc) == [r EXCEPT !.pc = pc]
Using(r, pc, n) == [r EXCEPT !.pc = pc, !.nodeFile = n]

LEMMA CallMoves ==
  ASSUME NEW r \in CallRecords, NEW pc \in Places, NEW n \in Nat
  PROVE  /\ GoneTo(r, pc) \in CallRecords /\ GoneTo(r, pc).pc = pc /\ GoneTo(r, pc).nodeFile = r.nodeFile
         /\ GoneTo(r, pc).own = r.own /\ GoneTo(r, pc).file = r.file
         /\ Using(r, pc, n) \in CallRecords /\ Using(r, pc, n).pc = pc /\ Using(r, pc, n).nodeFile = n
         /\ Using(r, pc, n).own = r.own /\ Using(r, pc, n).file = r.file
<1> DEFINE c == GoneTo(r, pc)
           d == [c EXCEPT !.nodeFile = n]
<1>1. c \in CallRecords /\ c.pc = pc /\ c.nodeFile = r.nodeFile /\ c.own = r.own /\ c.file = r.file
  BY DEF CallRecords, GoneTo
<1>2. Using(r, pc, n) = d
  BY DEF Using, GoneTo
<1> HIDE DEF c
<1>3. d \in CallRecords /\ d.pc = pc /\ d.nodeFile = n /\ d.own = r.own /\ d.file = r.file
  BY <1>1 DEF CallRecords
<1> HIDE DEF d
<1> QED BY <1>1, <1>2, <1>3 DEF c

LEMMA OpenedTypes ==
  ASSUME NEW f \in Files, NEW n \in Nat, n = Len(f.nodeFiles)
  PROVE  /\ Opened(f) \in Files
         /\ Opened(f) = [f EXCEPT !.nodeFiles = Opened(f).nodeFiles, !.openFile = n + 1]
         /\ Len(Opened(f).nodeFiles) = n + 1 /\ DOMAIN Opened(f).nodeFiles = 1 .. n + 1
         /\ DOMAIN f.nodeFiles = 1 .. n
         /\ \A i \in 1 .. n : Opened(f).nodeFiles[i] = f.nodeFiles[i]
         /\ Opened(f).nodeFiles[n + 1] = NodeFile(f.data)
         /\ NodeFile(f.data) \in NodeFiles
<1>1. f.nodeFiles \in Seq(NodeFiles) /\ f.data \in Data
  BY DEF Files
<1>2. NodeFile(f.data) \in NodeFiles
  BY <1>1 DEF NodeFile, NodeFiles
<1> DEFINE ns == Append(f.nodeFiles, NodeFile(f.data))
<1>3. /\ ns \in Seq(NodeFiles) /\ Len(ns) = n + 1
      /\ \A i \in 1 .. n : ns[i] = f.nodeFiles[i]
      /\ ns[n + 1] = NodeFile(f.data)
  BY <1>1, <1>2, AppendProperties
<1>4. Opened(f) = [f EXCEPT !.nodeFiles = ns, !.openFile = n + 1]
  BY DEF Opened
<1> HIDE DEF ns
<1> DEFINE h == [f EXCEPT !.nodeFiles = ns]
<1>5. h \in Files /\ h.nodeFiles = ns
  BY <1>3 DEF Files
<1>6. Opened(f) = [h EXCEPT !.openFile = n + 1]
  BY <1>4
<1> HIDE DEF h
<1>7. Opened(f) \in Files /\ Opened(f).nodeFiles = ns
  BY <1>5, <1>6, n + 1 \in Nat DEF Files
<1> QED BY <1>1, <1>2, <1>3, <1>4, <1>7

LEMMA NodeFileTypes ==
  ASSUME NEW f \in Files, NEW n \in DOMAIN f.nodeFiles
  PROVE  /\ f.nodeFiles[n] \in NodeFiles /\ f.nodeFiles[n].data \in Data /\ f.nodeFiles[n].offset \in Nat
         /\ Len(f.nodeFiles[n].data) \in Nat
         /\ n \in Nat /\ 1 <= n /\ n <= Len(f.nodeFiles)
<1>1. f.nodeFiles \in Seq(NodeFiles) /\ n \in 1 .. Len(f.nodeFiles)
  BY DEF Files
<1>2. f.nodeFiles[n] \in NodeFiles
  BY <1>1, ElementOfSeq
<1>3. f.nodeFiles[n].data \in Data /\ f.nodeFiles[n].offset \in Nat
  BY <1>2 DEF NodeFiles
<1>4. Len(f.nodeFiles[n].data) \in Nat
  BY <1>3, LenProperties DEF Data
<1> QED BY <1>1, <1>2, <1>3, <1>4

\* The copies of f with the n-th put in place of what it was
Recopied(ns, f, n, nf) ==
  /\ ns \in Seq(NodeFiles) /\ DOMAIN ns = DOMAIN f.nodeFiles /\ Len(ns) = Len(f.nodeFiles)
  /\ ns # <<>> /\ ns[n] = nf
  /\ \A i \in DOMAIN f.nodeFiles \ {n} : ns[i] = f.nodeFiles[i]

LEMMA NodeFileChanges ==
  ASSUME NEW f \in Files, NEW n \in DOMAIN f.nodeFiles, NEW nf \in NodeFiles,
         NEW ns, ns = [f.nodeFiles EXCEPT ![n] = nf]
  PROVE  Recopied(ns, f, n, nf)
BY DEF Files, Recopied

\* A call that returns, or goes to another place, and leaves its file alone
LEMMA FitsAlone ==
  ASSUME TaskInv, NEW t \in Threads, call[t].pc # "idle", NEW c \in CallRecords,
         c.pc = "idle" \/ (c.own = call[t].own /\ c.file = call[t].file),
         c.pc # "idle" => GoodCall(c, File(t)), c.pc \in ReadFuncs => call[t].pc \in ReadFuncs \ {"opened"},
         call' = [call EXCEPT ![t] = c], files' = files
  PROVE  Goes(t, c, File(t)) /\ Fits(t, c, File(t))
BY FileTypes, LaterItself DEF TaskInv, Goes, Fits

LEMMA ReadGoes ==
  ASSUME TaskInv, NEW t \in Threads, Read(t)
  PROVE  call[t].pc # "idle" /\ \E c, g : Goes(t, c, g) /\ Fits(t, c, g)
<1> DEFINE f == File(t)
<1>1. CASE ReadClosed(t)
  <2>1. call[t].pc # "idle" /\ call' = [call EXCEPT ![t] = NoCall] /\ files' = files
    BY <1>1 DEF ReadClosed, At, Return
  <2>2. NoCall.pc \notin ReadFuncs
    BY NoCallTypes DEF ReadFuncs, AllocSteps
  <2> QED BY <2>1, <2>2, NoCallTypes, FitsAlone
<1>2. CASE ReadFirst(t)
  <2> DEFINE c == [call[t] EXCEPT !.pc = "readfunc"]
             g == [f EXCEPT !.hasRead = TRUE]
  <2>1. call[t].pc # "idle" /\ ~f.hasRead
    BY <1>2 DEF ReadFirst, At
  <2>2. f \in Files /\ GoodFile(f) /\ call[t] \in CallRecords
    BY <2>1, FileTypes DEF TaskInv
  <2>3. Goes(t, c, g)
    BY <1>2 DEF ReadFirst, GoTo, Update, Goes
  <2>4. c \in CallRecords /\ c.pc = "readfunc" /\ c.own = call[t].own /\ c.file = call[t].file
    BY <2>2 DEF CallRecords, Places, ReadFuncs
  <2>5. g \in Files /\ Later(f, g) /\ GoodFile(g) /\ g.hasRead /\ g.nodeFiles = f.nodeFiles /\ g.what = f.what
        /\ g.data = f.data
    BY <2>2 DEF Files, Later, GoodFile
  <2>6. GoodCall(c, g)
    BY <2>4, <2>5 DEF GoodCall, Writes, Setters, Starts, AllocSteps
  <2>7. Fits(t, c, g)
    BY <2>1, <2>4, <2>5, <2>6 DEF Fits
  <2> QED BY <2>1, <2>3, <2>7
<1>3. CASE ReadLater(t)
  <2> DEFINE c == [call[t] EXCEPT !.pc = "await"]
  <2>1. call[t].pc # "idle" /\ f.hasRead /\ call' = [call EXCEPT ![t] = c] /\ files' = files
    BY <1>3 DEF ReadLater, At, GoTo
  <2>2. call[t] \in CallRecords
    BY <2>1, FileTypes DEF TaskInv
  <2>3. /\ c \in CallRecords /\ c.pc = "await" /\ c.own = call[t].own /\ c.file = call[t].file
        /\ c.pc \notin ReadFuncs
    BY <2>2 DEF CallRecords, Places, ReadFuncs, AllocSteps
  <2>4. GoodCall(c, f)
    BY <2>1, <2>3 DEF GoodCall, Writes, Setters, Starts, AllocSteps
  <2> HIDE DEF c
  <2> QED BY <2>1, <2>3, <2>4, FitsAlone
<1>4. CASE ReadOpens(t)
  <2>1. call[t].pc = "opened" /\ call[t].pc # "idle" /\ call[t].pc \in ReadFuncs
    BY <1>4 DEF ReadOpens, At, ReadFuncs
  <2>2. f \in Files /\ GoodFile(f) /\ call[t] \in CallRecords /\ f.hasRead
    BY <2>1, FileTypes DEF TaskInv, GoodCall
  <2>3. PICK n \in Nat : n = Len(f.nodeFiles)
    BY <2>2, LenProperties DEF Files
  <2> DEFINE c == Using(call[t], "get", n + 1)
             g == Opened(f)
  <2>4. Goes(t, c, g)
    BY <1>4, <2>3 DEF ReadOpens, Use, Using, Update, Goes
  <2>5. /\ c \in CallRecords /\ c.pc = "get" /\ c.own = call[t].own /\ c.file = call[t].file
        /\ c.nodeFile = n + 1 /\ c.pc \notin ReadFuncs
    <3>1. "get" \in Places /\ "get" \notin ReadFuncs /\ n + 1 \in Nat
      BY DEF Places, ReadFuncs, AllocSteps
    <3> QED BY <3>1, <2>2, CallMoves
  <2>6. /\ g \in Files /\ g = [f EXCEPT !.nodeFiles = g.nodeFiles, !.openFile = n + 1]
        /\ Len(g.nodeFiles) = n + 1 /\ DOMAIN g.nodeFiles = 1 .. n + 1 /\ DOMAIN f.nodeFiles = 1 .. n
        /\ \A i \in 1 .. n : g.nodeFiles[i] = f.nodeFiles[i]
        /\ g.nodeFiles[n + 1] = NodeFile(f.data)
    BY <2>2, <2>3, OpenedTypes
  <2>7. /\ g.what = f.what /\ g.of = f.of /\ g.data = f.data /\ g.hasRead = f.hasRead
        /\ g.got = f.got /\ g.openFile = n + 1
    BY <2>2, <2>6 DEF Files
  <2>8. f.what = "new" => f.nodeFiles = <<>>
    BY <2>1 DEF TaskInv, Alone
  <2> HIDE DEF c, g
  <2>9. Later(f, g)
    BY <2>6, <2>7 DEF Later
  <2>10. GoodFile(g)
    <3>1. g.what = "new" => /\ Len(g.data) <= 1 /\ g.got = {} /\ n = 0
                            /\ \A i \in DOMAIN g.nodeFiles : g.nodeFiles[i].data = g.data /\ ~g.nodeFiles[i].dirty
      <4>1. CASE g.what = "new"
        <5>1. f.nodeFiles = <<>> /\ n = 0 /\ f.got = {} /\ Len(f.data) <= 1
          BY <4>1, <2>2, <2>3, <2>7, <2>8 DEF GoodFile
        <5>2. g.nodeFiles[1] = NodeFile(f.data) /\ DOMAIN g.nodeFiles = {1}
          BY <5>1, <2>6
        <5> QED BY <5>1, <5>2, <2>7 DEF NodeFile
      <4> QED BY <4>1
    <3>2. \A i \in DOMAIN g.nodeFiles : g.nodeFiles[i].offset <= Len(g.nodeFiles[i].data)
      <4>1. NodeFile(f.data).offset <= Len(NodeFile(f.data).data)
        BY <2>2, LenProperties DEF NodeFile, Files, Data
      <4>2. \A i \in 1 .. n : f.nodeFiles[i].offset <= Len(f.nodeFiles[i].data)
        BY <2>2, <2>6 DEF GoodFile
      <4> QED BY <2>6, <4>1, <4>2
    <3> QED BY <3>1, <3>2, <2>2, <2>6, <2>7 DEF GoodFile
  <2>11. GoodCall(c, g)
    BY <2>2, <2>5, <2>6, <2>7 DEF GoodCall, Writes, Setters, Starts, AllocSteps
  <2>12. Fits(t, c, g)
    BY <2>1, <2>5, <2>6, <2>7, <2>9, <2>10, <2>11 DEF Fits
  <2> QED BY <2>1, <2>4, <2>12
<1>5. CASE ReadAwaits(t)
  <2> DEFINE c == [call[t] EXCEPT !.pc = "get", !.nodeFile = f.openFile]
  <2>1. /\ call[t].pc # "idle" /\ call[t].pc = "await" /\ f.openFile > 0
        /\ call' = [call EXCEPT ![t] = c] /\ files' = files
    BY <1>5 DEF ReadAwaits, At, Use
  <2>2. call[t] \in CallRecords /\ f \in Files /\ GoodFile(f) /\ f.hasRead
    BY <2>1, FileTypes DEF TaskInv, GoodCall
  <2>3. /\ c \in CallRecords /\ c.pc = "get" /\ c.own = call[t].own /\ c.file = call[t].file
        /\ c.pc \notin ReadFuncs /\ c.nodeFile = f.openFile
    BY <2>2 DEF CallRecords, Places, ReadFuncs, AllocSteps, Files
  <2>4. f.openFile \in DOMAIN f.nodeFiles
    BY <2>1, <2>2 DEF GoodFile, Files
  <2>5. GoodCall(c, f)
    BY <2>2, <2>3, <2>4 DEF GoodCall, Writes, Setters, Starts, AllocSteps
  <2> HIDE DEF c
  <2> QED BY <2>1, <2>3, <2>5, FitsAlone
<1>6. CASE ReadNodeFile(t)
  <2>1. call[t].pc # "idle" /\ call[t].pc = "get" /\ call' = [call EXCEPT ![t] = NoCall]
    BY <1>6 DEF ReadNodeFile, At, Return
  <2>2. f \in Files /\ GoodFile(f) /\ f.hasRead /\ call[t].nodeFile \in DOMAIN f.nodeFiles
    BY <2>1, FileTypes DEF TaskInv, GoodCall
  <2> DEFINE n == call[t].nodeFile
             nf == f.nodeFiles[n]
             got == SubSeq(nf.data, nf.offset + 1, Len(nf.data))
             g == [f EXCEPT !.nodeFiles[n].offset = Len(nf.data), !.got = @ \cup {got}]
  <2>3. CASE nf.closed \/ nf.offset >= Len(nf.data)
    <3>1. files' = files
      BY <1>6, <2>1, <2>3, FileTypes DEF ReadNodeFile, Update, TaskInv
    <3>2. NoCall.pc \notin ReadFuncs
      BY NoCallTypes DEF ReadFuncs, AllocSteps
    <3> QED BY <2>1, <3>1, <3>2, NoCallTypes, FitsAlone
  <2>4. CASE ~(nf.closed \/ nf.offset >= Len(nf.data))
    <3>1. Goes(t, NoCall, g)
      BY <1>6, <2>1, <2>4 DEF ReadNodeFile, Update, Goes
    <3>2. nf \in NodeFiles /\ nf.data \in Data /\ nf.offset \in Nat /\ Len(nf.data) \in Nat /\ nf.offset < Len(nf.data)
      <4>1. f.nodeFiles \in Seq(NodeFiles) /\ n \in 1 .. Len(f.nodeFiles)
        BY <2>2 DEF Files
      <4>2. nf \in NodeFiles
        BY <4>1, ElementOfSeq
      <4>3. nf.data \in Data /\ nf.offset \in Nat
        BY <4>2 DEF NodeFiles
      <4>4. Len(nf.data) \in Nat
        BY <4>3, LenProperties DEF Data
      <4> QED BY <4>2, <4>3, <4>4, <2>4
    <3>3. got \in Data
      BY <3>2, SubSeqProperties DEF Data
    <3>4. f.what = "new" => got = f.data /\ got # <<>>
      <4>1. CASE f.what = "new"
        <5>1. nf.data = f.data /\ Len(nf.data) <= 1
          BY <4>1, <2>2 DEF GoodFile
        <5>2. Len(nf.data) = 1 /\ nf.offset = 0
          <6>1. PICK l \in Nat, o \in Nat : l = Len(nf.data) /\ o = nf.offset
            BY <3>2
          <6>2. l <= 1 /\ o < l
            BY <6>1, <5>1, <3>2
          <6>3. l = 1 /\ o = 0
            BY <6>2
          <6> QED BY <6>1, <6>3
        <5>3. got = SubSeq(nf.data, 1, Len(nf.data))
          BY <5>2
        <5>4. SubSeq(nf.data, 1, Len(nf.data)) = nf.data
          BY <3>2, SubSeqFull DEF Data
        <5>5. nf.data # <<>>
          <6>1. PICK d \in Data : d = nf.data
            BY <3>2
          <6>2. d # <<>>
            BY <6>1, <5>2 DEF Data
          <6> QED BY <6>1, <6>2
        <5> QED BY <5>1, <5>3, <5>4, <5>5
      <4> QED BY <4>1
    <3> HIDE DEF got
    <3>5. /\ g.what = f.what /\ g.of = f.of /\ g.data = f.data /\ g.hasRead = f.hasRead
          /\ g.openFile = f.openFile /\ g.got = f.got \cup {got}
          /\ g.nodeFiles = [f.nodeFiles EXCEPT ![n] = [nf EXCEPT !.offset = Len(nf.data)]]
          /\ g \in [DOMAIN f -> {g[x] : x \in DOMAIN f}]
      BY <2>2 DEF Files
    <3>6. [nf EXCEPT !.offset = Len(nf.data)] \in NodeFiles
      BY <3>2 DEF NodeFiles
    <3>7. /\ g.nodeFiles \in Seq(NodeFiles) /\ DOMAIN g.nodeFiles = DOMAIN f.nodeFiles
          /\ Len(g.nodeFiles) = Len(f.nodeFiles) /\ g.nodeFiles # <<>>
          /\ \A i \in DOMAIN f.nodeFiles : /\ g.nodeFiles[i].data = f.nodeFiles[i].data
                                          /\ g.nodeFiles[i].dirty = f.nodeFiles[i].dirty
                                          /\ g.nodeFiles[i].closed = f.nodeFiles[i].closed
                                          /\ \/ g.nodeFiles[i].offset = f.nodeFiles[i].offset
                                             \/ g.nodeFiles[i].offset = Len(g.nodeFiles[i].data)
      <4>1. PICK new \in NodeFiles : /\ new = [nf EXCEPT !.offset = Len(nf.data)]
                                     /\ new.data = nf.data /\ new.dirty = nf.dirty /\ new.closed = nf.closed
                                     /\ new.offset = Len(nf.data)
        BY <3>2, <3>6 DEF NodeFiles
      <4>2. PICK ns : ns = g.nodeFiles /\ ns = [f.nodeFiles EXCEPT ![n] = new]
        BY <3>5, <4>1
      <4>3. Recopied(ns, f, n, new)
        BY <2>2, <4>2, NodeFileChanges
      <4> HIDE DEF g, nf
      <4>4. ASSUME NEW i \in DOMAIN f.nodeFiles
            PROVE  /\ ns[i].data = f.nodeFiles[i].data /\ ns[i].dirty = f.nodeFiles[i].dirty
                   /\ ns[i].closed = f.nodeFiles[i].closed
                   /\ ns[i].offset = f.nodeFiles[i].offset \/ ns[i].offset = Len(ns[i].data)
        <5>1. nf = f.nodeFiles[n]
          BY DEF nf
        <5>2. CASE i = n
          BY <5>1, <5>2, <4>1, <4>3 DEF Recopied
        <5>3. CASE i # n
          BY <5>3, <4>3 DEF Recopied
        <5> QED BY <5>2, <5>3
      <4> QED BY <4>2, <4>3, <4>4 DEF Recopied
    <3>8. g \in Files
      BY <2>2, <3>3, <3>5, <3>7 DEF Files
    <3> HIDE DEF g
    <3>9. Later(f, g)
      BY <3>5, <3>7 DEF Later
    <3>10. GoodFile(g)
      <4>1. ASSUME NEW i \in DOMAIN g.nodeFiles  PROVE g.nodeFiles[i].offset <= Len(g.nodeFiles[i].data)
        <5>1. g.nodeFiles[i] \in NodeFiles
          BY <3>7
        <5>2. Len(g.nodeFiles[i].data) \in Nat
          BY <5>1, LenProperties DEF NodeFiles, Data
        <5> QED BY <5>2, <2>2, <3>7 DEF GoodFile
      <4>2. g.what = "new" => g.got \subseteq {g.data} /\ <<>> \notin g.got
        BY <2>2, <3>4, <3>5 DEF GoodFile
      <4> QED BY <4>1, <4>2, <2>2, <3>5, <3>7, ZenonT(60) DEF GoodFile
    <3>11. f.nodeFiles # <<>>
      BY <2>2
    <3>12. NoCall.pc \notin ReadFuncs
      BY NoCallTypes DEF ReadFuncs, AllocSteps
    <3>13. Fits(t, NoCall, g)
      BY <3>5, <3>8, <3>9, <3>10, <3>11, <3>12, NoCallTypes DEF Fits
    <3> QED BY <2>1, <3>1, <3>13
  <2> QED BY <2>3, <2>4
<1> QED BY <1>1, <1>2, <1>3, <1>4, <1>5, <1>6 DEF Read

LEMMA Overwrites ==
  ASSUME NEW data \in Data, NEW offset \in Nat, NEW token \in Tokens, offset <= Len(data)
  PROVE  /\ Overwritten(data, offset, token) \in Data
         /\ Len(Overwritten(data, offset, token)) \in Nat
         /\ Len(Overwritten(data, offset, token)) >= offset + 1
         /\ \A i \in 1 .. offset : Overwritten(data, offset, token)[i] = data[i]
         /\ Overwritten(data, offset, token)[offset + 1] = token
<1> DEFINE a == SubSeq(data, 1, offset)
           b == <<token>>
           e == SubSeq(data, offset + 2, Len(data))
<1>0. PICK n \in Nat : n = Len(data)
  BY LenProperties DEF Data
<1>1. a \in Seq(Tokens) /\ Len(a) = offset /\ \A i \in 1 .. offset : a[i] = data[i]
  <2>1. \A i \in 1 .. offset : data[i] \in Tokens
    BY <1>0 DEF Data
  <2> QED BY <2>1, SubSeqProperties
<1>2. b \in Seq(Tokens) /\ Len(b) = 1 /\ b[1] = token
  OBVIOUS
<1>3. e \in Seq(Tokens) /\ Len(e) \in Nat
  <2>1. \A i \in offset + 2 .. n : data[i] \in Tokens
    BY <1>0 DEF Data
  <2> QED BY <2>1, <1>0, SubSeqProperties, LenProperties
<1> HIDE DEF a, b, e
<1>4. /\ a \o b \in Seq(Tokens) /\ Len(a \o b) = Len(a) + Len(b)
      /\ \A i \in 1 .. Len(a) + Len(b) : (a \o b)[i] = IF i <= Len(a) THEN a[i] ELSE b[i - Len(a)]
  BY <1>1, <1>2, ConcatProperties, Zenon
<1>5. PICK ab \in Seq(Tokens) :
         /\ ab = a \o b /\ Len(ab) = offset + 1
         /\ \A i \in 1 .. offset : ab[i] = data[i]
         /\ ab[offset + 1] = token
  <2>1. Len(a \o b) = offset + 1 /\ \A i \in 1 .. offset : (a \o b)[i] = data[i]
    BY <1>1, <1>2, <1>4
  <2>2. (a \o b)[offset + 1] = token
    <3>1. PICK i \in 1 .. offset + 1 : i = offset + 1
      OBVIOUS
    <3>2. i - Len(a) = 1 /\ ~(i <= Len(a)) /\ i \in 1 .. Len(a) + Len(b)
      BY <3>1, <1>1, <1>2
    <3> QED BY <3>1, <3>2, <1>2, <1>4
  <2> QED BY <2>1, <2>2, <1>4
<1>6. /\ ab \o e \in Seq(Tokens) /\ Len(ab \o e) = Len(ab) + Len(e)
      /\ \A i \in 1 .. Len(ab) + Len(e) : (ab \o e)[i] = IF i <= Len(ab) THEN ab[i] ELSE e[i - Len(ab)]
  BY <1>3, ConcatProperties, Zenon
<1>7. PICK d \in Seq(Tokens) :
         /\ d = ab \o e /\ Len(d) \in Nat /\ Len(d) >= offset + 1
         /\ \A i \in 1 .. offset : d[i] = data[i]
         /\ d[offset + 1] = token
  <2>1. Len(ab \o e) \in Nat /\ Len(ab \o e) >= offset + 1
    BY <1>3, <1>5, <1>6
  <2>2. \A i \in 1 .. offset + 1 : (ab \o e)[i] = ab[i]
    BY <1>3, <1>5, <1>6
  <2>3. \A i \in 1 .. offset : (ab \o e)[i] = data[i]
    BY <2>2, <1>5
  <2>4. (ab \o e)[offset + 1] = token
    <3>1. offset + 1 \in 1 .. offset + 1
      OBVIOUS
    <3> QED BY <3>1, <2>2, <1>5
  <2> QED BY <2>1, <2>3, <2>4, <1>6
<1>8. Overwritten(data, offset, token) = d
  BY <1>5, <1>7 DEF Overwritten, a, b, e
<1> QED BY <1>7, <1>8 DEF Data

LEMMA PlacesApart ==
  /\ {"openwrite", "put", "sync", "done", "closefunc", "get", "await"} \cap ReadFuncs = {}
  /\ {"openwrite", "put", "sync", "done", "closefunc", "get", "await"} \subseteq Places
  /\ "openwrite" \in Writes /\ "put" \in Writes
  /\ {"openwrite", "put", "sync", "done", "closefunc"} \cap (Setters \cup Starts \cup AllocSteps) = {}
  /\ {"sync", "done", "closefunc"} \cap Writes = {}
BY DEF Places, ReadFuncs, AllocSteps, Writes, Setters, Starts

LEMMA WriteGoes ==
  ASSUME TaskInv, NEW t \in Threads, Write(t)
  PROVE  call[t].pc # "idle" /\ \E c, g : Goes(t, c, g) /\ Fits(t, c, g)
<1> DEFINE f == File(t)
<1>0. /\ call[t].pc # "idle" /\ call[t].pc \in Writes
      /\ f \in Files /\ GoodFile(f) /\ call[t] \in CallRecords /\ f.what # "new"
  <2>1. call[t].pc # "idle" /\ call[t].pc \in Writes
    BY DEF Write, WriteClosed, WriteEnters, WriteOpens, WriteNodeFile, At, Writes
  <2> QED BY <2>1, FileTypes DEF TaskInv, GoodCall
<1> SUFFICES \E c, g : Goes(t, c, g) /\ Fits(t, c, g)
  BY <1>0
<1>1. CASE WriteClosed(t)
  <2>1. call' = [call EXCEPT ![t] = NoCall] /\ files' = files
    BY <1>1 DEF WriteClosed, Return
  <2>2. NoCall.pc \notin ReadFuncs
    BY NoCallTypes DEF ReadFuncs, AllocSteps
  <2> QED BY <1>0, <2>1, <2>2, NoCallTypes, FitsAlone
<1>2. ASSUME f.openFile > 0, call' = [call EXCEPT ![t] = Using(call[t], "put", f.openFile)], files' = files
      PROVE  \E c, g : Goes(t, c, g) /\ Fits(t, c, g)
  <2>1. f.openFile \in Nat /\ f.openFile \in DOMAIN f.nodeFiles
    BY <1>0, <1>2 DEF GoodFile, Files
  <2> DEFINE c == Using(call[t], "put", f.openFile)
  <2>2. c \in CallRecords /\ c.pc = "put" /\ c.nodeFile = f.openFile /\ c.own = call[t].own /\ c.file = call[t].file
    <3>1. "put" \in Places
      BY PlacesApart
    <3> QED BY <3>1, <1>0, <2>1, CallMoves
  <2> HIDE DEF c
  <2>3. GoodCall(c, f)
    BY <2>1, <2>2, <1>0, PlacesApart DEF GoodCall
  <2>4. c.pc \notin ReadFuncs
    BY <2>2, PlacesApart
  <2>5. call' = [call EXCEPT ![t] = c]
    BY <1>2 DEF c
  <2> QED BY <1>0, <1>2, <2>2, <2>3, <2>4, <2>5, FitsAlone
<1>3. CASE WriteEnters(t)
  <2>1. CASE f.openFile = 0
    <3> DEFINE c == GoneTo(call[t], "openwrite")
    <3>1. call' = [call EXCEPT ![t] = c] /\ files' = files
      BY <1>3, <2>1 DEF WriteEnters, GoTo, GoneTo
    <3>2. c \in CallRecords /\ c.pc = "openwrite" /\ c.own = call[t].own /\ c.file = call[t].file
      <4>1. "openwrite" \in Places /\ 0 \in Nat
        BY PlacesApart
      <4> QED BY <4>1, <1>0, CallMoves
    <3> HIDE DEF c
    <3>3. GoodCall(c, f) /\ c.pc \notin ReadFuncs
      BY <3>2, <1>0, PlacesApart DEF GoodCall
    <3> QED BY <1>0, <3>1, <3>2, <3>3, FitsAlone
  <2>2. CASE f.openFile # 0
    <3>1. f.openFile > 0
      BY <1>0, <2>2 DEF Files
    <3>2. call' = [call EXCEPT ![t] = Using(call[t], "put", f.openFile)] /\ files' = files
      BY <1>3, <2>2 DEF WriteEnters, Use, Using
    <3> QED BY <1>2, <3>1, <3>2
  <2> QED BY <2>1, <2>2
<1>4. CASE WriteOpens(t)
  <2>1. CASE f.openFile = 0
    <3>1. PICK n \in Nat : n = Len(f.nodeFiles)
      BY <1>0, LenProperties DEF Files
    <3> DEFINE c == Using(call[t], "put", n + 1)
               g == Opened(f)
    <3>2. Goes(t, c, g)
      BY <1>4, <2>1, <3>1 DEF WriteOpens, Use, Using, Update, Goes
    <3>3. c \in CallRecords /\ c.pc = "put" /\ c.nodeFile = n + 1 /\ c.own = call[t].own /\ c.file = call[t].file
      <4>1. "put" \in Places /\ n + 1 \in Nat
        BY PlacesApart
      <4> QED BY <4>1, <1>0, CallMoves
    <3>4. /\ g \in Files /\ g = [f EXCEPT !.nodeFiles = g.nodeFiles, !.openFile = n + 1]
          /\ Len(g.nodeFiles) = n + 1 /\ DOMAIN g.nodeFiles = 1 .. n + 1 /\ DOMAIN f.nodeFiles = 1 .. n
          /\ \A i \in 1 .. n : g.nodeFiles[i] = f.nodeFiles[i]
          /\ g.nodeFiles[n + 1] = NodeFile(f.data)
      BY <1>0, <3>1, OpenedTypes
    <3>5. /\ g.what = f.what /\ g.of = f.of /\ g.data = f.data /\ g.hasRead = f.hasRead
          /\ g.got = f.got /\ g.openFile = n + 1 /\ g.acked = f.acked
      BY <1>0, <3>4 DEF Files
    <3> HIDE DEF c, g
    <3>6. Later(f, g)
      BY <3>4, <3>5 DEF Later
    <3>7. GoodFile(g)
      <4>1. \A i \in DOMAIN g.nodeFiles : g.nodeFiles[i].offset <= Len(g.nodeFiles[i].data)
        <5>1. NodeFile(f.data).offset <= Len(NodeFile(f.data).data)
          BY <1>0, LenProperties DEF NodeFile, Files, Data
        <5>2. \A i \in 1 .. n : f.nodeFiles[i].offset <= Len(f.nodeFiles[i].data)
          BY <1>0, <3>4 DEF GoodFile
        <5> QED BY <3>4, <5>1, <5>2
      <4>2. ~g.hasRead => n = 0 /\ g.acked = <<>>
        BY <1>0, <2>1, <3>1, <3>5, EmptySeq DEF GoodFile, Files
      <4>3. ~g.hasRead => Wrote(g, g.nodeFiles[1])
        <5>1. g.acked = <<>> => Len(g.acked) = 0
          BY EmptySeq
        <5>2. /\ NodeFile(f.data).offset = 0 /\ ~NodeFile(f.data).dirty
              /\ 0 <= Len(NodeFile(f.data).data)
          BY <1>0, LenProperties DEF NodeFile, Files, Data
        <5>3. n = 0 => g.nodeFiles[1] = NodeFile(f.data)
          BY <3>4
        <5> QED BY <4>2, <5>1, <5>2, <5>3 DEF Wrote
      <4> QED BY <4>1, <4>2, <4>3, <1>0, <3>4, <3>5 DEF GoodFile
    <3>8. GoodCall(c, g)
      BY <1>0, <3>3, <3>4, <3>5, PlacesApart DEF GoodCall
    <3>9. Fits(t, c, g)
      BY <1>0, <3>3, <3>4, <3>5, <3>6, <3>7, <3>8, PlacesApart DEF Fits
    <3> QED BY <3>2, <3>9
  <2>2. CASE f.openFile # 0
    <3>1. f.openFile > 0
      BY <1>0, <2>2 DEF Files
    <3>2. call' = [call EXCEPT ![t] = Using(call[t], "put", f.openFile)] /\ files' = files
      BY <1>4, <2>2 DEF WriteOpens, Use, Using
    <3> QED BY <1>2, <3>1, <3>2
  <2> QED BY <2>1, <2>2
<1>5. CASE WriteNodeFile(t)
  <2> DEFINE n == call[t].nodeFile
             nf == f.nodeFiles[n]
             w == Overwritten(nf.data, nf.offset, call[t].token)
  <2>1. call[t].pc = "put" /\ call' = [call EXCEPT ![t] = NoCall]
    BY <1>5 DEF WriteNodeFile, At, Return
  <2>2. n \in DOMAIN f.nodeFiles /\ call[t].token \in Tokens
    BY <2>1, <1>0, FileTypes DEF TaskInv, GoodCall, CallRecords
  <2>3. NoCall.pc \notin ReadFuncs
    BY NoCallTypes DEF ReadFuncs, AllocSteps
  <2>4. CASE nf.closed
    <3>1. files' = files
      BY <1>5, <1>0, <2>4, FileTypes DEF WriteNodeFile, Update, TaskInv
    <3> QED BY <1>0, <2>1, <2>3, <3>1, NoCallTypes, FitsAlone
  <2>5. CASE ~nf.closed
    <3> DEFINE new == Written(nf, call[t].token)
               ns == [f.nodeFiles EXCEPT ![n] = new]
               acked == Append(f.acked, call[t].token)
               g == [f EXCEPT !.nodeFiles = ns, !.acked = acked]
    <3>1. Goes(t, NoCall, g)
      <4>1. files' = [files EXCEPT ![call[t].file] = [f EXCEPT !.nodeFiles[n] = new, !.acked = acked]]
        BY <1>5, <2>5 DEF WriteNodeFile, Update
      <4> QED BY <4>1, <2>1 DEF Goes
    <3>2. /\ nf \in NodeFiles /\ nf.data \in Data /\ nf.offset \in Nat /\ Len(nf.data) \in Nat
          /\ nf.offset <= Len(nf.data) /\ n \in Nat /\ 1 <= n /\ n <= Len(f.nodeFiles)
      BY <1>0, <2>2, NodeFileTypes DEF GoodFile
    <3>3. /\ w \in Data /\ Len(w) \in Nat /\ Len(w) >= nf.offset + 1
          /\ \A i \in 1 .. nf.offset : w[i] = nf.data[i]
          /\ w[nf.offset + 1] = call[t].token
      <4>1. PICK d \in Data, o \in Nat : d = nf.data /\ o = nf.offset /\ o <= Len(d) /\ w = Overwritten(d, o, call[t].token)
        BY <3>2
      <4>2. /\ Overwritten(d, o, call[t].token) \in Data
            /\ Len(Overwritten(d, o, call[t].token)) \in Nat /\ Len(Overwritten(d, o, call[t].token)) >= o + 1
            /\ \A i \in 1 .. o : Overwritten(d, o, call[t].token)[i] = d[i]
            /\ Overwritten(d, o, call[t].token)[o + 1] = call[t].token
        BY <2>2, <4>1, Overwrites, ZenonT(60)
      <4> HIDE DEF w, nf
      <4> QED BY <4>1, <4>2
    <3> HIDE DEF w, nf
    <3>4. new \in NodeFiles /\ new.data = w /\ new.offset = nf.offset + 1 /\ new.dirty /\ ~new.closed
      <4>1. new = [data |-> w, offset |-> nf.offset + 1, dirty |-> TRUE, closed |-> nf.closed]
        BY DEF Written, nf, w
      <4>2. ~nf.closed /\ nf.closed \in BOOLEAN /\ nf.offset + 1 \in Nat
        BY <2>5, <3>2 DEF nf, NodeFiles
      <4> HIDE DEF new
      <4> QED BY <4>1, <4>2, <3>3 DEF NodeFiles
    <3> HIDE DEF new
    <3>5. Recopied(ns, f, n, new)
      BY <1>0, <2>2, <3>4, NodeFileChanges
    <3>6. PICK l \in Nat : l = Len(f.acked)
      BY <1>0, LenProperties DEF Files
    <3>7. /\ acked \in Seq(Tokens) /\ Len(acked) = l + 1
          /\ \A i \in 1 .. l : acked[i] = f.acked[i]
          /\ acked[l + 1] = call[t].token
      BY <1>0, <2>2, <3>6, AppendProperties DEF Files
    <3> HIDE DEF acked, ns
    <3>8. /\ g \in Files /\ g.nodeFiles = ns /\ g.acked = acked
          /\ g.what = f.what /\ g.of = f.of /\ g.data = f.data /\ g.hasRead = f.hasRead
          /\ g.got = f.got /\ g.openFile = f.openFile
      BY <1>0, <3>5, <3>7 DEF Files, Recopied
    <3> HIDE DEF g
    <3>9. Later(f, g)
      BY <3>4, <3>5, <3>8, <2>5 DEF Later, Recopied, nf
    <3>10. GoodFile(g)
      <4>1. \A i \in DOMAIN g.nodeFiles : g.nodeFiles[i].offset <= Len(g.nodeFiles[i].data)
        <5>1. new.offset <= Len(new.data)
          BY <3>2, <3>3, <3>4
        <5> QED BY <5>1, <1>0, <3>5, <3>8 DEF GoodFile, Recopied
      <4>2. ~g.hasRead => Wrote(g, g.nodeFiles[1])
        <5>1. SUFFICES ASSUME ~f.hasRead PROVE Wrote(g, g.nodeFiles[1])
          BY <3>8
        <5>2. n = 1 /\ Wrote(f, nf) /\ g.nodeFiles[1] = new
          BY <5>1, <1>0, <2>2, <3>2, <3>5, <3>8, EmptySeq DEF GoodFile, Recopied, nf
        <5>3. nf.offset = l /\ \A i \in 1 .. l : nf.data[i] = f.acked[i]
          BY <5>2, <3>6 DEF Wrote
        <5>4. \A i \in 1 .. l + 1 : new.data[i] = acked[i]
          <6>1. ASSUME NEW i \in 1 .. l + 1  PROVE new.data[i] = acked[i]
            <7>1. CASE i \in 1 .. l
              BY <7>1, <5>3, <3>3, <3>4, <3>7
            <7>2. CASE i = l + 1
              BY <7>2, <5>3, <3>3, <3>4, <3>7
            <7> QED BY <7>1, <7>2
          <6> QED BY <6>1
        <5>5. new.offset = l + 1 /\ l + 1 <= Len(new.data)
          BY <5>3, <3>3, <3>4
        <5> QED BY <5>2, <5>4, <5>5, <3>4, <3>7, <3>8 DEF Wrote
      <4>3. g.nodeFiles # <<>> /\ Len(g.nodeFiles) = Len(f.nodeFiles)
        BY <3>5, <3>8 DEF Recopied
      <4> QED BY <4>1, <4>2, <4>3, <1>0, <3>8 DEF GoodFile
    <3>11. Fits(t, NoCall, g)
      BY <1>0, <2>3, <3>8, <3>9, <3>10, NoCallTypes DEF Fits
    <3> QED BY <3>1, <3>11
  <2> QED BY <2>4, <2>5
<1> QED BY <1>0, <1>1, <1>3, <1>4, <1>5 DEF Write

LEMMA CloseGoes ==
  ASSUME TaskInv, NEW t \in Threads, Close(t)
  PROVE  call[t].pc # "idle" /\ \E c, g : Goes(t, c, g) /\ Fits(t, c, g)
<1> DEFINE f == File(t)
<1>0. /\ call[t].pc # "idle" /\ f \in Files /\ GoodFile(f) /\ call[t] \in CallRecords
      /\ GoodCall(call[t], f)
  <2>1. call[t].pc # "idle"
    BY DEF Close, CloseEnters, CloseNodeFile, At
  <2> QED BY <2>1, FileTypes DEF TaskInv
<1> SUFFICES \E c, g : Goes(t, c, g) /\ Fits(t, c, g)
  BY <1>0
<1>1. CASE CloseEnters(t)
  <2> DEFINE g == [f EXCEPT !.closed = TRUE]
  <2>1. /\ g \in Files /\ g.what = f.what /\ g.of = f.of /\ g.data = f.data /\ g.hasRead = f.hasRead
        /\ g.openFile = f.openFile /\ g.nodeFiles = f.nodeFiles /\ g.acked = f.acked /\ g.got = f.got
    BY <1>0 DEF Files
  <2>2. files' = [files EXCEPT ![call[t].file] = g]
    BY <1>1 DEF CloseEnters, Update
  <2> HIDE DEF g
  <2>3. Later(f, g)
    BY <2>1 DEF Later
  <2>4. GoodFile(g)
    BY <2>1, <1>0 DEF GoodFile, Wrote
  <2>5. ASSUME NEW c \in CallRecords, c.own = call[t].own, c.file = call[t].file, call' = [call EXCEPT ![t] = c],
               c.pc = "done" \/ (c.pc = "sync" /\ c.nodeFile \in DOMAIN f.nodeFiles)
        PROVE  Goes(t, c, g) /\ Fits(t, c, g)
    <3>1. GoodCall(c, g)
      BY <2>5, <2>1, PlacesApart DEF GoodCall
    <3>2. c.pc \notin ReadFuncs
      BY <2>5, PlacesApart
    <3>3. g.what = "new" /\ g.nodeFiles # <<>> => f.nodeFiles # <<>>
      BY <2>1
    <3>4. Fits(t, c, g)
      BY <2>1, <2>3, <2>4, <2>5, <3>1, <3>2, <3>3 DEF Fits
    <3> QED BY <2>2, <2>5, <3>4 DEF Goes
  <2>6. CASE f.closed \/ f.openFile = 0
    <3>1. "done" \in Places /\ 0 \in Nat
      BY PlacesApart
    <3> DEFINE c == GoneTo(call[t], "done")
    <3>2. c \in CallRecords /\ c.own = call[t].own /\ c.file = call[t].file /\ c.pc = "done"
      BY <3>1, <1>0, CallMoves
    <3>3. call' = [call EXCEPT ![t] = c]
      BY <1>1, <2>6 DEF CloseEnters, GoTo, GoneTo
    <3> HIDE DEF c
    <3> QED BY <2>5, <3>2, <3>3
  <2>7. CASE ~(f.closed \/ f.openFile = 0)
    <3>1. "sync" \in Places /\ f.openFile \in Nat /\ f.openFile \in DOMAIN f.nodeFiles
      BY <2>7, <1>0, PlacesApart DEF GoodFile, Files
    <3> DEFINE c == Using(call[t], "sync", f.openFile)
    <3>2. /\ c \in CallRecords /\ c.own = call[t].own /\ c.file = call[t].file /\ c.pc = "sync"
          /\ c.nodeFile = f.openFile
      BY <3>1, <1>0, CallMoves
    <3>3. call' = [call EXCEPT ![t] = c]
      BY <1>1, <2>7 DEF CloseEnters, Use, Using
    <3> HIDE DEF c
    <3> QED BY <2>5, <3>1, <3>2, <3>3
  <2> QED BY <2>6, <2>7
<1>2. CASE CloseNodeFile(t)
  <2> DEFINE n == call[t].nodeFile
             nf == f.nodeFiles[n]
             new == [nf EXCEPT !.closed = TRUE]
             data == IF nf.dirty THEN nf.data ELSE f.data
             ns == [f.nodeFiles EXCEPT ![n] = new]
             g == [f EXCEPT !.data = data, !.nodeFiles = ns]
             c == GoneTo(call[t], "closefunc")
  <2>1. call[t].pc = "sync" /\ call' = [call EXCEPT ![t] = c]
    BY <1>2 DEF CloseNodeFile, At, GoTo, GoneTo
  <2>2. n \in DOMAIN f.nodeFiles
    BY <2>1, <1>0 DEF GoodCall
  <2>3. files' = [files EXCEPT ![call[t].file] = g]
    BY <1>2 DEF CloseNodeFile, Update
  <2>4. /\ nf \in NodeFiles /\ nf.data \in Data /\ n \in Nat /\ 1 <= n /\ n <= Len(f.nodeFiles)
        /\ nf.offset <= Len(nf.data)
    BY <1>0, <2>2, NodeFileTypes DEF GoodFile
  <2>5. data \in Data /\ (f.what = "new" => data = f.data)
    BY <1>0, <2>2, <2>4 DEF Files, GoodFile
  <2>6. /\ new \in NodeFiles /\ new.data = nf.data /\ new.offset = nf.offset /\ new.dirty = nf.dirty
        /\ new.closed
    BY <2>4 DEF NodeFiles
  <2> HIDE DEF new
  <2>7. Recopied(ns, f, n, new)
    BY <1>0, <2>2, <2>6, NodeFileChanges
  <2>8. /\ c \in CallRecords /\ c.pc = "closefunc" /\ c.own = call[t].own /\ c.file = call[t].file
        /\ c.nodeFile = n
    <3>1. "closefunc" \in Places /\ 0 \in Nat
      BY PlacesApart
    <3> QED BY <3>1, <1>0, CallMoves
  <2> HIDE DEF ns, c
  <2>9. data = IF nf.dirty THEN nf.data ELSE f.data
    OBVIOUS
  <2> HIDE DEF data
  <2>10. /\ g \in Files /\ g.nodeFiles = ns /\ g.data = data /\ g.acked = f.acked
         /\ g.what = f.what /\ g.of = f.of /\ g.hasRead = f.hasRead
         /\ g.got = f.got /\ g.openFile = f.openFile
    <3> DEFINE h == [f EXCEPT !.data = data]
    <3>1. /\ h \in Files /\ h.nodeFiles = f.nodeFiles /\ h.data = data /\ h.acked = f.acked
          /\ h.what = f.what /\ h.of = f.of /\ h.hasRead = f.hasRead
          /\ h.got = f.got /\ h.openFile = f.openFile
      BY <1>0, <2>5 DEF Files
    <3>2. g = [h EXCEPT !.nodeFiles = ns]
      OBVIOUS
    <3> HIDE DEF h, g
    <3> QED BY <3>1, <3>2, <2>7 DEF Files, Recopied
  <2> HIDE DEF g
  <2>11. Later(f, g)
    BY <2>6, <2>7, <2>10 DEF Later, Recopied
  <2>12. \A i \in DOMAIN f.nodeFiles : /\ ns[i].data = f.nodeFiles[i].data /\ ns[i].dirty = f.nodeFiles[i].dirty
                                     /\ ns[i].offset = f.nodeFiles[i].offset
    <3>1. ASSUME NEW i \in DOMAIN f.nodeFiles
          PROVE  /\ ns[i].data = f.nodeFiles[i].data /\ ns[i].dirty = f.nodeFiles[i].dirty
                 /\ ns[i].offset = f.nodeFiles[i].offset
      <4>1. CASE i = n  BY <4>1, <2>6, <2>7 DEF Recopied
      <4>2. CASE i # n  BY <4>2, <2>7 DEF Recopied
      <4> QED BY <4>1, <4>2
    <3> QED BY <3>1
  <2>13. GoodFile(g)
    <3>1. ~g.hasRead => Wrote(g, g.nodeFiles[1])
      <4>1. SUFFICES ASSUME ~f.hasRead PROVE Wrote(g, g.nodeFiles[1])
        BY <2>10
      <4>2. n = 1 /\ Wrote(f, nf) /\ g.nodeFiles[1] = new
        BY <4>1, <1>0, <2>2, <2>4, <2>7, <2>10, EmptySeq DEF GoodFile, Recopied
      <4> QED BY <4>2, <2>6, <2>9, <2>10 DEF Wrote
    <3>2. \A i \in DOMAIN g.nodeFiles : g.nodeFiles[i].offset <= Len(g.nodeFiles[i].data)
      BY <1>0, <2>7, <2>10, <2>12 DEF GoodFile, Recopied
    <3>3. Len(g.nodeFiles) = Len(f.nodeFiles) /\ DOMAIN g.nodeFiles = DOMAIN f.nodeFiles /\ g.nodeFiles # <<>>
      BY <2>7, <2>10 DEF Recopied
    <3>4. g.openFile \in 0 .. Len(g.nodeFiles)
      BY <1>0, <2>10, <3>3 DEF GoodFile
    <3>5. g.what = "new" => /\ Len(g.data) <= 1 /\ g.got \subseteq {g.data} /\ <<>> \notin g.got /\ g.hasRead
                            /\ \A i \in DOMAIN g.nodeFiles : g.nodeFiles[i].data = g.data /\ ~g.nodeFiles[i].dirty
      BY <1>0, <2>2, <2>5, <2>10, <2>12, <3>3 DEF GoodFile
    <3>6. ~g.hasRead => Len(g.nodeFiles) <= 1 /\ g.openFile = Len(g.nodeFiles)
      BY <1>0, <2>10, <3>3 DEF GoodFile
    <3> QED BY <3>1, <3>2, <3>3, <3>4, <3>5, <3>6 DEF GoodFile
  <2>14. GoodCall(c, g)
    BY <2>2, <2>6, <2>7, <2>8, <2>10, PlacesApart DEF GoodCall, Recopied
  <2>15. c.pc \notin ReadFuncs
    BY <2>8, PlacesApart
  <2>16. f.nodeFiles # <<>>
    BY <2>2
  <2>17. Fits(t, c, g)
    BY <2>5, <2>8, <2>10, <2>11, <2>13, <2>14, <2>15, <2>16 DEF Fits
  <2> QED BY <2>1, <2>3, <2>17 DEF Goes
<1> QED BY <1>1, <1>2 DEF Close

LEMMA FileStepGoes ==
  ASSUME TaskInv, NEW t \in Threads, FileStep(t)
  PROVE  TaskInv'
<1>1. call[t].pc # "idle" /\ \E c, g : Goes(t, c, g) /\ Fits(t, c, g)
  BY ReadGoes, WriteGoes, CloseGoes DEF FileStep, FuncFileStep
<1>2. SameTasks
  BY DEF FileStep, SameTasks, TaskInv, TypeOK
<1> QED BY <1>1, <1>2, OneCallGoes

-----------------------------------------------------------------------------
(* The steps of the tasks.                                                 *)

LEMMA TablePut ==
  ASSUME NEW D, NEW R, NEW f \in Tables(D, R), NEW k \in D, NEW v \in R
  PROVE  /\ Put(f, k, v) \in Tables(D, R) /\ DOMAIN Put(f, k, v) = DOMAIN f \cup {k}
         /\ Put(f, k, v)[k] = v /\ \A x \in DOMAIN f \ {k} : Put(f, k, v)[x] = f[x]
<1>1. PICK S \in SUBSET D : f \in [S -> R] /\ DOMAIN f = S
  BY DEF Tables
<1>2. Put(f, k, v) \in [S \cup {k} -> R]
  BY <1>1 DEF Put
<1> QED BY <1>1, <1>2, ZenonT(60) DEF Tables, Put

LEMMA TableWithout ==
  ASSUME NEW D, NEW R, NEW f \in Tables(D, R), NEW k
  PROVE  /\ Without(f, k) \in Tables(D, R) /\ DOMAIN Without(f, k) = DOMAIN f \ {k}
         /\ \A x \in DOMAIN f \ {k} : Without(f, k)[x] = f[x]
<1>1. PICK S \in SUBSET D : f \in [S -> R] /\ DOMAIN f = S
  BY DEF Tables
<1>2. Without(f, k) \in [S \ {k} -> R]
  BY <1>1 DEF Without
<1> QED BY <1>1, <1>2 DEF Tables, Without

LEMMA TasksStay ==
  ASSUME TypeOK, UNCHANGED tasks, taskfs' \in TaskFSes, taskfs'.resources = taskfs.resources
  PROVE  SameTasks
BY DEF SameTasks, TypeOK

\* One task changes in its lock, its descriptors, its alias or whether it runs
LEMMA OneTaskChanges ==
  ASSUME TypeOK, NEW p \in DOMAIN tasks, NEW r \in TaskRecords, tasks' = [tasks EXCEPT ![p] = r],
         r.by = tasks[p].by,
         \A fd \in DOMAIN r.fds : fd \in DOMAIN tasks[p].fds /\ r.fds[fd] = tasks[p].fds[fd],
         taskfs' \in TaskFSes, taskfs'.resources = taskfs.resources
  PROVE  SameTasks
BY DEF SameTasks, TypeOK

LEMMA TaskTypes ==
  ASSUME TypeOK, NEW p \in DOMAIN tasks
  PROVE  tasks[p] \in TaskRecords
BY DEF TypeOK

LEMMA TablePlaces ==
  /\ AllocSteps \subseteq ReadFuncs /\ "opened" \notin AllocSteps /\ "readfunc" \notin AllocSteps
  /\ {"readfunc", "opened", "load", "count", "number", "insert", "setalias", "storealias", "table", "auto",
      "launch", "done", "read", "write", "close"} \subseteq Places
  /\ {"load", "count", "number", "insert"} = AllocSteps
  /\ {"setalias", "storealias", "table", "auto", "launch", "read", "write", "close"} \cap ReadFuncs = {}
  /\ {"setalias", "storealias", "table", "auto", "launch", "read", "close"} \cap Writes = {}
  /\ ReadFuncs \cap (Writes \cup Setters \cup Starts \cup {"get", "put", "sync", "closefunc"}) = {}
  /\ Setters \cap Starts = {} /\ {"auto", "launch"} = Starts /\ {"setalias", "storealias", "table"} = Setters
  /\ {"read", "write", "close"} \cap (Setters \cup Starts) = {}
BY DEF Places, ReadFuncs, AllocSteps, Writes, Setters, Starts

LEMMA ReadFuncFills ==
  ASSUME TaskInv, NEW t \in Threads, FieldRead(t) \/ AllocKind(t)
  PROVE  TaskInv'
<1> DEFINE f == File(t)
<1>1. /\ call[t].pc = "readfunc" /\ call[t].pc # "idle" /\ call[t].pc \in ReadFuncs /\ call[t].pc # "opened"
      /\ f \in Files /\ GoodFile(f) /\ call[t] \in CallRecords /\ f.hasRead
  <2>1. call[t].pc = "readfunc" /\ call[t].pc # "idle" /\ call[t].pc \in ReadFuncs /\ call[t].pc # "opened"
    BY DEF FieldRead, AllocKind, At, ReadFuncs
  <2> QED BY <2>1, FileTypes DEF TaskInv, GoodCall
<1>2. SameTasks
  BY TasksStay DEF FieldRead, AllocKind, TaskInv, TypeOK
<1>3. CASE FieldRead(t)
  <2> DEFINE c == GoneTo(call[t], "opened")
             g == [f EXCEPT !.wasRead = TRUE]
  <2>1. Goes(t, c, g)
    BY <1>3 DEF FieldRead, Update, GoTo, GoneTo, Goes
  <2>2. c \in CallRecords /\ c.pc = "opened" /\ c.own = call[t].own /\ c.file = call[t].file
    <3>1. "opened" \in Places /\ 0 \in Nat
      BY TablePlaces
    <3> QED BY <3>1, <1>1, CallMoves
  <2>3. /\ g \in Files /\ g.what = f.what /\ g.of = f.of /\ g.data = f.data /\ g.hasRead = f.hasRead
        /\ g.openFile = f.openFile /\ g.nodeFiles = f.nodeFiles /\ g.acked = f.acked /\ g.got = f.got
    BY <1>1 DEF Files
  <2> HIDE DEF c, g
  <2>4. Later(f, g) /\ GoodFile(g)
    BY <1>1, <2>3 DEF Later, GoodFile, Wrote
  <2>5. GoodCall(c, g)
    BY <1>1, <2>2, <2>3, TablePlaces DEF GoodCall, ReadFuncs, Writes, Setters, Starts
  <2>6. Fits(t, c, g)
    BY <1>1, <2>2, <2>3, <2>4, <2>5 DEF Fits
  <2> QED BY <1>1, <1>2, <2>1, <2>6, OneCallGoes
<1>4. CASE AllocKind(t) /\ f.of \in AllKinds
  <2> DEFINE c == GoneTo(call[t], "load")
  <2>1. call' = [call EXCEPT ![t] = c] /\ files' = files /\ f.what = "new"
    BY <1>4 DEF AllocKind, GoTo, GoneTo
  <2>2. c \in CallRecords /\ c.pc = "load" /\ c.own = call[t].own /\ c.file = call[t].file
    <3>1. "load" \in Places /\ 0 \in Nat
      BY TablePlaces
    <3> QED BY <3>1, <1>1, CallMoves
  <2> HIDE DEF c
  <2>3. GoodCall(c, f)
    BY <1>1, <2>1, <2>2, TablePlaces DEF GoodCall, ReadFuncs, Writes, Setters, Starts
  <2>4. Goes(t, c, f) /\ Fits(t, c, f)
    BY <1>1, <2>1, <2>2, <2>3, FitsAlone
  <2> QED BY <1>1, <1>2, <2>4, OneCallGoes
<1>5. CASE AllocKind(t) /\ f.of \notin AllKinds
  <2> DEFINE g == [f EXCEPT !.failed = TRUE]
  <2>1. Goes(t, NoCall, g)
    BY <1>5 DEF AllocKind, Return, Update, Goes
  <2>2. /\ g \in Files /\ g.what = f.what /\ g.of = f.of /\ g.data = f.data /\ g.hasRead = f.hasRead
        /\ g.openFile = f.openFile /\ g.nodeFiles = f.nodeFiles /\ g.acked = f.acked /\ g.got = f.got
    BY <1>1 DEF Files
  <2> HIDE DEF g
  <2>3. Later(f, g) /\ GoodFile(g)
    BY <1>1, <2>2 DEF Later, GoodFile, Wrote
  <2>4. NoCall.pc \notin ReadFuncs
    BY NoCallTypes DEF ReadFuncs, AllocSteps
  <2>5. Fits(t, NoCall, g)
    BY <1>1, <2>2, <2>3, <2>4, NoCallTypes DEF Fits
  <2> QED BY <1>1, <1>2, <2>1, <2>5, OneCallGoes
<1> QED BY <1>3, <1>4, <1>5

\* A step of a call that changes of the files nothing
LEMMA CallGoesOn ==
  ASSUME TaskInv, NEW t \in Threads, call[t].pc # "idle", NEW c \in CallRecords,
         c.pc = "idle" \/ (c.own = call[t].own /\ c.file = call[t].file),
         c.pc # "idle" => GoodCall(c, File(t)), c.pc \in ReadFuncs => call[t].pc \in ReadFuncs \ {"opened"},
         call' = [call EXCEPT ![t] = c], files' = files, SameTasks
  PROVE  TaskInv'
BY FitsAlone, OneCallGoes

LEMMA AllocCounts ==
  ASSUME TaskInv, NEW t \in Threads, AllocLoad(t) \/ AllocCount(t) \/ AllocNumber(t)
  PROVE  TaskInv'
<1>1. call[t].pc \in AllocSteps /\ call[t].pc # "idle" /\ call[t].pc \in ReadFuncs \ {"opened"}
  BY TablePlaces DEF AllocLoad, AllocCount, AllocNumber, At
<1>2. call[t] \in CallRecords /\ GoodCall(call[t], File(t)) /\ File(t).what = "new" /\ File(t).hasRead
  BY <1>1, FileTypes DEF TaskInv, GoodCall
<1>3. taskfs.nextID \in Nat /\ call[t].loaded + 1 \in Nat
  BY <1>2 DEF TaskInv, TypeOK, TaskFSes, CallRecords
<1>4. ASSUME NEW c \in CallRecords, c.pc \in AllocSteps, c.own = call[t].own, c.file = call[t].file,
             call' = [call EXCEPT ![t] = c], files' = files, SameTasks
      PROVE  TaskInv'
  <2>1. c.pc \in ReadFuncs /\ c.pc # "idle"
    BY <1>4, TablePlaces
  <2>2. GoodCall(c, File(t))
    BY <1>2, <1>4, <2>1, TablePlaces DEF GoodCall
  <2> QED BY <1>1, <1>4, <2>1, <2>2, CallGoesOn
<1>5. CASE AllocLoad(t)
  <2> DEFINE c == [call[t] EXCEPT !.pc = "count", !.loaded = taskfs.nextID]
  <2>1. call' = [call EXCEPT ![t] = c] /\ files' = files
    BY <1>5 DEF AllocLoad
  <2>2. SameTasks
    BY <1>5, TasksStay DEF AllocLoad, TaskInv, TypeOK
  <2>3. c \in CallRecords /\ c.pc = "count" /\ c.own = call[t].own /\ c.file = call[t].file
    BY <1>2, <1>3, TablePlaces DEF CallRecords
  <2> HIDE DEF c
  <2> QED BY <1>4, <2>1, <2>2, <2>3, TablePlaces
<1>6. CASE AllocCount(t)
  <2> DEFINE c == GoneTo(call[t], "number")
  <2>1. call' = [call EXCEPT ![t] = c] /\ files' = files
    BY <1>6 DEF AllocCount, GoTo, GoneTo
  <2>2. taskfs' \in TaskFSes /\ taskfs'.resources = taskfs.resources /\ tasks' = tasks
    BY <1>6, <1>3 DEF AllocCount, TaskInv, TypeOK, TaskFSes
  <2>3. SameTasks
    BY <2>2, TasksStay DEF TaskInv
  <2>4. c \in CallRecords /\ c.pc = "number" /\ c.own = call[t].own /\ c.file = call[t].file
    <3>1. "number" \in Places /\ 0 \in Nat
      BY TablePlaces
    <3> QED BY <3>1, <1>2, CallMoves
  <2> HIDE DEF c
  <2> QED BY <1>4, <2>1, <2>3, <2>4, TablePlaces
<1>7. CASE AllocNumber(t)
  <2> DEFINE c == [call[t] EXCEPT !.pc = "insert", !.rid = taskfs.nextID]
  <2>1. call' = [call EXCEPT ![t] = c] /\ files' = files
    BY <1>7 DEF AllocNumber
  <2>2. SameTasks
    BY <1>7, TasksStay DEF AllocNumber, TaskInv, TypeOK
  <2>3. c \in CallRecords /\ c.pc = "insert" /\ c.own = call[t].own /\ c.file = call[t].file
    BY <1>2, <1>3, TablePlaces DEF CallRecords
  <2> HIDE DEF c
  <2> QED BY <1>4, <2>1, <2>2, <2>3, TablePlaces
<1> QED BY <1>5, <1>6, <1>7

LEMMA CloseFuncGoes ==
  ASSUME TaskInv, NEW t \in Threads,
         Closed(t) \/ SetAlias(t) \/ AutoDriver(t) \/ Launch(t) \/ CloseFDReturns(t)
  PROVE  TaskInv'
<1> DEFINE f == File(t)
<1>1. /\ call[t].pc # "idle" /\ f \in Files /\ call[t] \in CallRecords /\ GoodCall(call[t], f)
      /\ f.what # "new" => f.of \in DOMAIN tasks
      /\ call[t].own \in DOMAIN tasks
  <2>1. call[t].pc # "idle"
    BY DEF Closed, SetAlias, AliasLoad, AliasStore, AliasTable, AutoDriver, Launch, CloseFDReturns, At
  <2> QED BY <2>1, FileTypes DEF TaskInv, InPlace, File
<1>2. ASSUME NEW c \in CallRecords, c.own = call[t].own, c.file = call[t].file, SameTasks,
             call' = [call EXCEPT ![t] = c], files' = files,
             \/ c.pc = "done"
             \/ c.pc \in Setters /\ f.what = "alias"
             \/ c.pc \in Starts /\ f.what = "ctl"
      PROVE  TaskInv'
  <2>1. c.pc # "idle" /\ c.pc \notin ReadFuncs
    BY <1>2 DEF Setters, Starts, ReadFuncs, AllocSteps
  <2>2. GoodCall(c, f)
    BY <1>2 DEF GoodCall, Setters, Starts, ReadFuncs, AllocSteps, Writes
  <2> QED BY <1>1, <1>2, <2>1, <2>2, CallGoesOn
<1>3. ASSUME NEW pc, call' = [call EXCEPT ![t] = GoneTo(call[t], pc)], SameTasks, files' = files,
             \/ pc = "done"
             \/ pc \in Setters /\ f.what = "alias"
             \/ pc \in Starts /\ f.what = "ctl"
      PROVE  TaskInv'
  <2>1. pc \in Places /\ 0 \in Nat
    BY <1>3, TablePlaces DEF Places
  <2>2. PICK c \in CallRecords : c = GoneTo(call[t], pc) /\ c.pc = pc /\ c.own = call[t].own /\ c.file = call[t].file
    BY <1>1, <2>1, CallMoves
  <2> QED BY <1>2, <1>3, <2>2
<1>4. CASE Closed(t)
  <2>1. SameTasks /\ files' = files
    BY <1>4, TasksStay DEF Closed, TaskInv, TypeOK
  <2>2. CASE f.what = "alias" /\ ~f.wasRead
    <3>1. call' = [call EXCEPT ![t] = GoneTo(call[t], "setalias")]
      BY <1>4, <2>2 DEF Closed, GoTo, GoneTo
    <3>2. "setalias" \in Setters
      BY DEF Setters
    <3> QED BY <1>3, <2>1, <2>2, <3>1, <3>2
  <2>3. CASE ~(f.what = "alias" /\ ~f.wasRead) /\ f.what = "ctl" /\ f.data = <<Start>>
    <3>1. PICK pc \in Starts : call' = [call EXCEPT ![t] = GoneTo(call[t], pc)]
      BY <1>4, <2>3 DEF Closed, GoTo, GoneTo, Starts
    <3> QED BY <1>3, <2>1, <2>3, <3>1
  <2>4. CASE ~(f.what = "alias" /\ ~f.wasRead) /\ ~(f.what = "ctl" /\ f.data = <<Start>>)
    <3>1. call' = [call EXCEPT ![t] = GoneTo(call[t], "done")]
      BY <1>4, <2>4 DEF Closed, GoTo, GoneTo
    <3> QED BY <1>3, <2>1, <3>1
  <2> QED BY <2>2, <2>3, <2>4
<1>5. CASE AliasLoad(t)
  <2>1. call[t].pc = "setalias" /\ f.what = "alias" /\ f.of \in DOMAIN tasks
    BY <1>5, <1>1 DEF AliasLoad, At, GoodCall, Setters
  <2> DEFINE c == [call[t] EXCEPT !.pc = "storealias", !.oldalias = tasks[f.of].alias]
  <2>2. call' = [call EXCEPT ![t] = c] /\ files' = files /\ tasks' = tasks /\ taskfs' = taskfs
    BY <1>5 DEF AliasLoad, Subject
  <2>3. tasks[f.of].alias \in Data
    BY <2>1, TaskTypes DEF TaskInv, TaskRecords
  <2>4. c \in CallRecords /\ c.pc = "storealias" /\ c.own = call[t].own /\ c.file = call[t].file
    BY <1>1, <2>3, TablePlaces DEF CallRecords
  <2>5. SameTasks
    BY <2>2, TasksStay DEF TaskInv, TypeOK
  <2> HIDE DEF c
  <2>6. c.pc \in Setters
    BY <2>4 DEF Setters
  <2> QED BY <1>2, <2>1, <2>2, <2>4, <2>5, <2>6
<1>6. CASE AliasStore(t)
  <2>1. call[t].pc = "storealias" /\ f.what = "alias" /\ f.of \in DOMAIN tasks
    BY <1>6, <1>1 DEF AliasStore, At, GoodCall, Setters
  <2> DEFINE r == [tasks[f.of] EXCEPT !.alias = f.data, !.names = @ \cup {f.data}]
  <2>2. /\ call' = [call EXCEPT ![t] = GoneTo(call[t], "table")] /\ files' = files /\ taskfs' = taskfs
        /\ tasks' = [tasks EXCEPT ![f.of] = r]
    BY <1>6 DEF AliasStore, GoTo, GoneTo
  <2>3. tasks[f.of] \in TaskRecords /\ f.data \in Data
    BY <1>1, <2>1, TaskTypes DEF TaskInv, Files
  <2>4. r \in TaskRecords /\ r.by = tasks[f.of].by /\ r.fds = tasks[f.of].fds
    BY <2>3 DEF TaskRecords
  <2> HIDE DEF r
  <2>5. SameTasks
    BY <2>1, <2>2, <2>4, OneTaskChanges DEF TaskInv, TypeOK
  <2>6. "table" \in Setters
    BY DEF Setters
  <2> QED BY <1>3, <2>1, <2>2, <2>5, <2>6
<1>7. CASE AliasTable(t)
  <2>1. call[t].pc = "table" /\ f.what = "alias" /\ f.of \in DOMAIN tasks
    BY <1>7, <1>1 DEF AliasTable, At, GoodCall, Setters
  <2>2. /\ call' = [call EXCEPT ![t] = GoneTo(call[t], "done")] /\ files' = files /\ tasks' = tasks
    BY <1>7 DEF AliasTable, GoTo, GoneTo
  <2>3. taskfs.aliases \in Tables(Data, Nat) /\ tasks[f.of].alias \in Data /\ f.of \in Nat
    BY <2>1, TaskTypes, SMTT(60) DEF TaskInv, TypeOK, TaskFSes, TaskRecords
  <2>4. PICK rest \in Tables(Data, Nat) :
          taskfs' = [taskfs EXCEPT !.aliases = Put(rest, tasks[f.of].alias, f.of)]
    <3>1. Without(taskfs.aliases, call[t].oldalias) \in Tables(Data, Nat)
      BY <2>3, TableWithout
    <3> QED BY <1>7, <2>3, <3>1 DEF AliasTable
  <2>5. Put(rest, tasks[f.of].alias, f.of) \in Tables(Data, Nat)
    BY <2>3, TablePut
  <2>6. taskfs' \in TaskFSes /\ taskfs'.resources = taskfs.resources
    BY <2>4, <2>5 DEF TaskInv, TypeOK, TaskFSes
  <2>7. SameTasks
    BY <2>2, <2>6, TasksStay DEF TaskInv
  <2> QED BY <1>3, <2>2, <2>7
<1>8. CASE AutoDriver(t)
  <2>1. call[t].pc = "auto" /\ f.what = "ctl"
    BY <1>8, <1>1 DEF AutoDriver, At, GoodCall, Starts
  <2>2. tasks' = tasks /\ files' = files /\ taskfs' \in TaskFSes /\ taskfs'.resources = taskfs.resources
    BY <1>8 DEF AutoDriver, TaskInv, TypeOK, TaskFSes
  <2>3. SameTasks
    BY <2>2, TasksStay DEF TaskInv
  <2>4. PICK pc \in {"done", "launch"} : call' = [call EXCEPT ![t] = GoneTo(call[t], pc)]
    BY <1>8 DEF AutoDriver, GoTo, GoneTo
  <2>5. pc = "done" \/ pc \in Starts
    BY DEF Starts
  <2> QED BY <1>3, <2>1, <2>2, <2>3, <2>4, <2>5
<1>9. CASE Launch(t)
  <2>1. call[t].pc = "launch" /\ f.what = "ctl" /\ f.of \in DOMAIN tasks
    BY <1>9, <1>1 DEF Launch, At, GoodCall, Starts
  <2>2. PICK started \in BOOLEAN : tasks' = [tasks EXCEPT ![f.of] = [tasks[f.of] EXCEPT !.running = started]]
    BY <1>9 DEF Launch
  <2> DEFINE r == [tasks[f.of] EXCEPT !.running = started]
  <2>3. r \in TaskRecords /\ r.by = tasks[f.of].by /\ r.fds = tasks[f.of].fds
    BY <2>1, TaskTypes DEF TaskInv, TaskRecords
  <2>4. taskfs' \in TaskFSes /\ taskfs'.resources = taskfs.resources
    BY <1>9 DEF Launch, TaskInv, TypeOK, TaskFSes
  <2>5. call' = [call EXCEPT ![t] = GoneTo(call[t], "done")] /\ files' = files
    BY <1>9 DEF Launch, GoTo, GoneTo
  <2>6. tasks' = [tasks EXCEPT ![f.of] = r]
    BY <2>2
  <2> HIDE DEF r
  <2>7. SameTasks
    BY <2>1, <2>3, <2>4, <2>6, OneTaskChanges DEF TaskInv
  <2> QED BY <1>3, <2>5, <2>7
<1>10. CASE CloseFDReturns(t)
  <2> DEFINE r == [Owner(t) EXCEPT !.mu = NoOne]
  <2>1. /\ call' = [call EXCEPT ![t] = NoCall] /\ files' = files /\ taskfs' = taskfs
        /\ tasks' = [tasks EXCEPT ![call[t].own] = r]
    BY <1>10 DEF CloseFDReturns, Return, SetOwner
  <2>2. r \in TaskRecords /\ r.by = tasks[call[t].own].by /\ r.fds = tasks[call[t].own].fds
    BY <1>1, TaskTypes DEF TaskInv, TaskRecords, Owner
  <2> HIDE DEF r
  <2>3. SameTasks
    BY <1>1, <2>1, <2>2, OneTaskChanges DEF TaskInv, TypeOK
  <2>4. NoCall.pc \notin ReadFuncs
    BY NoCallTypes DEF ReadFuncs, AllocSteps
  <2> QED BY <1>1, <2>1, <2>3, <2>4, NoCallTypes, CallGoesOn
<1> QED BY <1>4, <1>5, <1>6, <1>7, <1>8, <1>9, <1>10 DEF SetAlias

-----------------------------------------------------------------------------
(* The calls that begin.                                                   *)

LEMMA CallBegins ==
  ASSUME TaskInv, NEW t \in Threads, call[t].pc = "idle", NEW c \in CallRecords,
         c.pc \in {"read", "write", "close"}, c.own \in DOMAIN tasks, c.file \in DOMAIN files,
         c.pc = "write" => files[c.file].what # "new",
         call' = [call EXCEPT ![t] = c], files' = files, SameTasks
  PROVE  TaskInv'
<1>1. /\ call' \in [Threads -> CallRecords] /\ call'[t] = c
      /\ \A u \in Threads \ {t} : call'[u] = call[u]
  BY DEF TaskInv, TypeOK
<1>2. TypeOK'
  BY <1>1 DEF TaskInv, TypeOK, SameTasks
<1>3. GoodCall(c, files[c.file]) /\ c.pc \notin ReadFuncs
  BY DEF GoodCall, ReadFuncs, AllocSteps, Writes, Setters, Starts
<1>4. InPlace'
  BY <1>1, <1>3 DEF TaskInv, InPlace, SameTasks, File
<1>5. Alone'
  <2>1. \A u \in Threads : call'[u].pc \in ReadFuncs => u # t /\ call'[u] = call[u]
    BY <1>1, <1>3
  <2>2. DOMAIN tasks' = DOMAIN tasks /\ \A p \in DOMAIN tasks : tasks'[p].by = tasks[p].by
    BY DEF SameTasks
  <2> QED BY <2>1, <2>2 DEF TaskInv, Alone, File
<1> QED BY <1>2, <1>4, <1>5 DEF TaskInv

LEMMA CallFiles ==
  ASSUME TaskInv, NEW own \in DOMAIN tasks, NEW fd \in DOMAIN tasks[own].fds, NEW pc \in Places, NEW token \in Tokens,
         NEW c, c = CallOf(pc, own, tasks[own].fds[fd], token)
  PROVE  /\ c \in CallRecords /\ c.pc = pc /\ c.own = own /\ c.file = tasks[own].fds[fd]
         /\ tasks[own].fds[fd] \in DOMAIN files
<1>1. tasks[own].fds[fd] \in DOMAIN files /\ own \in Nat /\ DOMAIN files \subseteq Nat
  BY DEF TaskInv, InPlace, TypeOK
<1>2. <<>> \in Data
  BY EmptySeq DEF Data
<1> QED BY <1>1, <1>2 DEF CallRecords, CallOf

LEMMA BeginIOGoes ==
  ASSUME TaskInv, NEW t \in Threads, BeginIO(t)
  PROVE  TaskInv'
<1>0. PICK own \in DOMAIN tasks : \E fd \in DOMAIN tasks[own].fds :
        \/ FD(t, own, fd, "read", 0)
        \/ \E token \in Names \cup {Start} :
             Writable(tasks[own].fds[fd], token) /\ FD(t, own, fd, "write", token)
  BY DEF BeginIO
<1>1. PICK fd \in DOMAIN tasks[own].fds :
        \/ FD(t, own, fd, "read", 0)
        \/ \E token \in Names \cup {Start} :
             Writable(tasks[own].fds[fd], token) /\ FD(t, own, fd, "write", token)
  BY <1>0
<1>2. PICK pc \in {"read", "write"}, token \in Tokens :
        /\ FD(t, own, fd, pc, token)
        /\ pc = "write" => files[tasks[own].fds[fd]].what # "new"
  BY <1>1 DEF Tokens, Writable
<1>3. call[t].pc = "idle" /\ pc \in Places
  BY TablePlaces DEF BeginIO, At
<1> DEFINE c == CallOf(pc, own, tasks[own].fds[fd], token)
<1>4. call' = [call EXCEPT ![t] = c] /\ files' = files /\ tasks' = tasks /\ taskfs' = taskfs
  BY <1>2 DEF FD
<1>5. /\ c \in CallRecords /\ c.pc = pc /\ c.own = own /\ c.file = tasks[own].fds[fd]
      /\ tasks[own].fds[fd] \in DOMAIN files
  BY <1>3, CallFiles
<1>6. SameTasks
  BY <1>4, TasksStay DEF TaskInv, TypeOK
<1> HIDE DEF c
<1> QED BY <1>2, <1>3, <1>4, <1>5, <1>6, CallBegins

LEMMA CloseFDGoes ==
  ASSUME TaskInv, NEW t \in Threads, CloseFD(t)
  PROVE  TaskInv'
<1>0. PICK own \in DOMAIN tasks : \E fd \in DOMAIN tasks[own].fds :
        /\ call' = [call EXCEPT ![t] = CallOf("close", own, tasks[own].fds[fd], 0)]
        /\ tasks' = [tasks EXCEPT ![own].fds = Without(@, fd), ![own].mu = t]
  BY DEF CloseFD
<1>1. PICK fd \in DOMAIN tasks[own].fds :
        /\ call' = [call EXCEPT ![t] = CallOf("close", own, tasks[own].fds[fd], 0)]
        /\ tasks' = [tasks EXCEPT ![own] = [tasks[own] EXCEPT !.fds = Without(tasks[own].fds, fd), !.mu = t]]
        /\ files' = files /\ taskfs' = taskfs
  <2>1. files' = files /\ taskfs' = taskfs
    BY DEF CloseFD
  <2>2. PICK fd \in DOMAIN tasks[own].fds :
        /\ call' = [call EXCEPT ![t] = CallOf("close", own, tasks[own].fds[fd], 0)]
        /\ tasks' = [tasks EXCEPT ![own].fds = Without(@, fd), ![own].mu = t]
    BY <1>0
  <2>3. tasks' = [tasks EXCEPT ![own] = [tasks[own] EXCEPT !.fds = Without(tasks[own].fds, fd), !.mu = t]]
    BY <2>2
  <2> QED BY <2>1, <2>2, <2>3
<1>2. call[t].pc = "idle" /\ "close" \in Places /\ 0 \in Tokens
  BY TablePlaces DEF CloseFD, At, Tokens
<1> DEFINE c == CallOf("close", own, tasks[own].fds[fd], 0)
           r == [tasks[own] EXCEPT !.fds = Without(tasks[own].fds, fd), !.mu = t]
<1>3. /\ c \in CallRecords /\ c.pc = "close" /\ c.own = own /\ c.file = tasks[own].fds[fd]
      /\ tasks[own].fds[fd] \in DOMAIN files
  BY <1>2, CallFiles
<1>4. call' = [call EXCEPT ![t] = c]
  BY <1>1
<1>5. /\ r \in TaskRecords /\ r.by = tasks[own].by
      /\ \A x \in DOMAIN r.fds : x \in DOMAIN tasks[own].fds /\ r.fds[x] = tasks[own].fds[x]
  <2>1. tasks[own] \in TaskRecords /\ tasks[own].fds \in Tables(Nat, Nat)
    BY TaskTypes DEF TaskInv, TaskRecords
  <2>2. PICK w \in Tables(Nat, Nat) : /\ w = Without(tasks[own].fds, fd)
                                       /\ \A x \in DOMAIN w : x \in DOMAIN tasks[own].fds /\ w[x] = tasks[own].fds[x]
    <3> DEFINE v == Without(tasks[own].fds, fd)
    <3>1. /\ v \in Tables(Nat, Nat) /\ DOMAIN v = DOMAIN tasks[own].fds \ {fd}
          /\ \A x \in DOMAIN tasks[own].fds \ {fd} : v[x] = tasks[own].fds[x]
      <4>1. \A x \in DOMAIN tasks[own].fds \ {fd} : v[x] = tasks[own].fds[x]
        BY DEF Without
      <4>2. v \in Tables(Nat, Nat) /\ DOMAIN v = DOMAIN tasks[own].fds \ {fd}
        BY <2>1, TableWithout DEF Without
      <4> QED BY <4>1, <4>2
    <3> HIDE DEF v
    <3>2. \A x \in DOMAIN v : x \in DOMAIN tasks[own].fds /\ v[x] = tasks[own].fds[x]
      BY <3>1
    <3> QED BY <3>1, <3>2 DEF v
  <2>3. [tasks[own] EXCEPT !.fds = w, !.mu = t] \in TaskRecords
    BY <2>1, <2>2 DEF TaskRecords
  <2> QED BY <2>1, <2>2, <2>3 DEF TaskRecords
<1> HIDE DEF c
<1>6. tasks' = [tasks EXCEPT ![own] = r]
  BY <1>1
<1> HIDE DEF r
<1>7. SameTasks
  BY <1>1, <1>5, <1>6, OneTaskChanges DEF TaskInv, TypeOK
<1> QED BY <1>1, <1>2, <1>3, <1>4, <1>7, CallBegins

LEMMA NewFileTypes ==
  ASSUME NEW what \in Whats, NEW of \in Nat \cup AllKinds \cup {Unknown}, NEW data \in Data,
         what = "new" => data = <<>>
  PROVE  LET g == NewFuncFile(what, of, data)
         IN  /\ g \in Files /\ g.what = what /\ g.of = of /\ g.nodeFiles = <<>> /\ ~g.hasRead
             /\ GoodFile(g)
<1> DEFINE g == NewFuncFile(what, of, data)
<1>1. /\ g \in Files /\ g.what = what /\ g.of = of /\ g.nodeFiles = <<>> /\ ~g.hasRead
      /\ g.data = data /\ g.openFile = 0 /\ g.got = {} /\ g.acked = <<>>
  <2>1. <<>> \in Seq(NodeFiles) /\ <<>> \in Seq(Tokens)
    BY EmptySeq
  <2> QED BY <2>1 DEF NewFuncFile, Files
<1> HIDE DEF g
<1>2. Len(<<>>) = 0 /\ DOMAIN <<>> = {}
  OBVIOUS
<1>3. GoodFile(g)
  BY <1>1, <1>2 DEF GoodFile
<1> QED BY <1>1, <1>3 DEF g

\* A file opened in task own
LEMMA FileOpens ==
  ASSUME TaskInv, NEW own \in DOMAIN tasks, NEW g \in Files, Open(own, g), GoodFile(g), ~g.hasRead,
         g.what # "new" => g.of \in DOMAIN tasks
  PROVE  TaskInv'
<1>1. PICK n \in Nat : n = Len(files)
  BY LenProperties DEF TaskInv, TypeOK
<1>2. /\ files' \in Seq(Files) /\ DOMAIN files = 1 .. n /\ DOMAIN files' = 1 .. n + 1 /\ Len(files') = n + 1
      /\ \A i \in 1 .. n : files'[i] = files[i]
      /\ files'[n + 1] = g
  BY <1>1, AppendProperties DEF Open, TaskInv, TypeOK
<1>3. call' = call /\ taskfs' = taskfs
  BY DEF Open
<1>4. PICK r \in TaskRecords : /\ tasks' = [tasks EXCEPT ![own] = r] /\ r.by = tasks[own].by
                              /\ \A fd \in DOMAIN r.fds : (r.fds[fd] = n + 1 \/ (fd \in DOMAIN tasks[own].fds /\ r.fds[fd] = tasks[own].fds[fd]))
  <2> DEFINE o == tasks[own]
             fd == o.fdIdx + 1
             put == Put(o.fds, fd, n + 1)
             r == [o EXCEPT !.fdIdx = fd, !.fds = put]
  <2>1. o \in TaskRecords /\ o.fds \in Tables(Nat, Nat) /\ fd \in Nat
    BY TaskTypes DEF TaskInv, TaskRecords
  <2>2. tasks' = [tasks EXCEPT ![own] = r]
    BY <1>1 DEF Open, OpenFD
  <2>3. /\ put \in Tables(Nat, Nat)
        /\ \A x \in DOMAIN put : put[x] = n + 1 \/ (x \in DOMAIN o.fds /\ put[x] = o.fds[x])
    <3>1. put \in Tables(Nat, Nat)
      BY <2>1, n + 1 \in Nat, TablePut
    <3>2. \A x \in DOMAIN put : put[x] = n + 1 \/ (x \in DOMAIN o.fds /\ put[x] = o.fds[x])
      BY DEF Put
    <3> QED BY <3>1, <3>2
  <2> HIDE DEF put
  <2>4. r \in TaskRecords /\ r.by = o.by /\ r.fds = put
    BY <2>1, <2>3 DEF TaskRecords
  <2> HIDE DEF r, o, fd
  <2> QED BY <2>2, <2>3, <2>4 DEF o
<1>5. /\ tasks' \in Seq(TaskRecords) /\ DOMAIN tasks' = DOMAIN tasks
      /\ \A p \in DOMAIN tasks : tasks'[p].by = tasks[p].by
      /\ \A p \in DOMAIN tasks \ {own} : tasks'[p] = tasks[p]
      /\ tasks'[own] = r
  BY <1>4 DEF TaskInv, TypeOK
<1>6. TypeOK'
  BY <1>2, <1>3, <1>5 DEF TaskInv, TypeOK
<1>7. InPlace'
  <2>1. ASSUME NEW f \in DOMAIN files'
        PROVE  GoodFile(files'[f]) /\ (files'[f].what # "new" => files'[f].of \in DOMAIN tasks)
    BY <1>2 DEF TaskInv, InPlace
  <2>2. ASSUME NEW t \in Threads, call[t].pc # "idle"
        PROVE  /\ call[t].own \in DOMAIN tasks /\ call[t].file \in DOMAIN files'
               /\ GoodCall(call[t], files'[call[t].file])
    BY <2>2, <1>2 DEF TaskInv, InPlace, File
  <2>3. ASSUME NEW p \in DOMAIN tasks, NEW fd \in DOMAIN tasks'[p].fds  PROVE tasks'[p].fds[fd] \in DOMAIN files'
    <3>1. \A x \in DOMAIN tasks[own].fds : tasks[own].fds[x] \in 1 .. n
      BY <1>2 DEF TaskInv, InPlace
    <3>2. n \in Nat /\ n + 1 \in 1 .. n + 1 /\ \A x \in 1 .. n : x \in 1 .. n + 1
      OBVIOUS
    <3>3. CASE p = own
      BY <3>1, <3>2, <3>3, <2>3, <1>2, <1>4, <1>5
    <3>4. CASE p # own
      BY <3>2, <3>4, <2>3, <1>2, <1>5 DEF TaskInv, InPlace
    <3> QED BY <3>3, <3>4
  <2>4. \A rid \in DOMAIN taskfs.resources : taskfs.resources[rid] \in DOMAIN tasks
    BY DEF TaskInv, InPlace
  <2> QED BY <2>1, <2>2, <2>3, <2>4, <1>3, <1>5 DEF InPlace, File
<1>8. Alone'
  <2>1. \A t \in Threads : call[t].pc \in ReadFuncs => call[t].file \in 1 .. n /\ files'[call[t].file] = files[call[t].file]
    BY <1>2 DEF TaskInv, InPlace, ReadFuncs, AllocSteps
  <2>2. ASSUME NEW f \in DOMAIN files', ~files'[f].hasRead, NEW p \in DOMAIN tasks  PROVE tasks[p].by # f
    <3>1. CASE f \in 1 .. n
      BY <3>1, <2>2, <1>2 DEF TaskInv, Alone
    <3>2. CASE f = n + 1
      <4>1. tasks[p].by <= n /\ tasks[p].by \in Nat
        BY <1>1, TaskTypes DEF TaskInv, Alone, TaskRecords
      <4> QED BY <4>1, <3>2
    <3> QED BY <3>1, <3>2, <1>2
  <2>3. ASSUME NEW p \in DOMAIN tasks  PROVE tasks[p].by <= n + 1
    <3>1. tasks[p].by <= n /\ tasks[p].by \in Nat
      BY <1>1, TaskTypes DEF TaskInv, Alone, TaskRecords
    <3> QED BY <3>1
  <2> QED BY <2>1, <2>2, <2>3, <1>2, <1>3, <1>5 DEF TaskInv, Alone, File
<1> QED BY <1>6, <1>7, <1>8 DEF TaskInv

LEMMA OpenPathGoes ==
  ASSUME TaskInv, NEW t \in Threads, OpenPath(t)
  PROVE  TaskInv'
<1>1. PICK own \in DOMAIN tasks :
        \/ \E kind \in AllKinds \cup {Unknown} : Open(own, NewFuncFile("new", kind, <<>>))
        \/ \E rid \in DOMAIN taskfs.resources :
             LET r == taskfs.resources[rid]
             IN  Open(own, NewFuncFile("alias", r, tasks[r].alias)) \/ Open(own, NewFuncFile("ctl", r, <<>>))
  BY DEF OpenPath
<1>2. ASSUME NEW r \in DOMAIN tasks  PROVE r \in Nat /\ tasks[r].alias \in Data
  <2>1. tasks \in Seq(TaskRecords)
    BY DEF TaskInv, TypeOK
  <2>2. r \in 1 .. Len(tasks) /\ Len(tasks) \in Nat
    BY <2>1, LenProperties
  <2>3. tasks[r] \in TaskRecords
    BY <2>1, <2>2, ElementOfSeq
  <2> QED BY <2>2, <2>3 DEF TaskRecords
<1>3. \A rid \in DOMAIN taskfs.resources : taskfs.resources[rid] \in DOMAIN tasks
  BY DEF TaskInv, InPlace
<1>4. PICK what \in Whats, of \in Nat \cup AllKinds \cup {Unknown}, data \in Data :
        /\ Open(own, NewFuncFile(what, of, data))
        /\ what = "new" => data = <<>>
        /\ what # "new" => of \in DOMAIN tasks
  <2>1. <<>> \in Data /\ "new" \in Whats /\ "alias" \in Whats /\ "ctl" \in Whats
    BY EmptySeq DEF Data, Whats
  <2> QED BY <1>1, <1>2, <1>3, <2>1
<1> DEFINE g == NewFuncFile(what, of, data)
<1>5. g \in Files /\ g.what = what /\ g.of = of /\ ~g.hasRead /\ GoodFile(g)
  BY <1>4, NewFileTypes
<1>6. Open(own, g)
  BY <1>4
<1> HIDE DEF g
<1> QED BY <1>4, <1>5, <1>6, FileOpens

LEMMA AllocInserts ==
  ASSUME TaskInv, NEW t \in Threads, AllocInsert(t)
  PROVE  TaskInv'
<1> DEFINE f == File(t)
           k == call[t].file
<1>1. /\ call[t].pc = "insert" /\ call[t].pc # "idle" /\ call[t].pc \in ReadFuncs /\ call[t].pc \in AllocSteps
      /\ f \in Files /\ GoodFile(f) /\ call[t] \in CallRecords /\ GoodCall(call[t], f) /\ k \in DOMAIN files
      /\ f.what = "new" /\ f.hasRead /\ f = files[k] /\ k \in Nat /\ k >= 1 /\ k <= Len(files)
      /\ call[t].own \in DOMAIN tasks /\ call[t].own \in Nat
  <2>1. call[t].pc = "insert" /\ call[t].pc # "idle" /\ call[t].pc \in ReadFuncs /\ call[t].pc \in AllocSteps
    BY TablePlaces DEF AllocInsert, At
  <2>2. /\ f \in Files /\ GoodFile(f) /\ call[t] \in CallRecords /\ GoodCall(call[t], f) /\ k \in DOMAIN files
        /\ f = files[k]
    BY <2>1, FileTypes DEF TaskInv, File
  <2>3. call[t].own \in DOMAIN tasks /\ call[t].own \in Nat /\ k \in 1 .. Len(files) /\ Len(files) \in Nat
    BY <2>1, <2>2, LenProperties DEF TaskInv, TypeOK, InPlace
  <2> QED BY <2>1, <2>2, <2>3 DEF GoodCall
<1>2. f.nodeFiles = <<>> /\ \A q \in DOMAIN tasks : tasks[q].by # k
  BY <1>1 DEF TaskInv, Alone
<1>3. PICK id \in Nat : id = taskfs.nextID
  BY DEF TaskInv, TypeOK, TaskFSes
<1> DEFINE p == NewTask(id, f.of, call[t].own, k)
           g == [f EXCEPT !.data = <<id>>]
           c == GoneTo(call[t], "opened")
<1>4. /\ tasks' = Append(tasks, p) /\ files' = [files EXCEPT ![k] = g] /\ call' = [call EXCEPT ![t] = c]
      /\ taskfs' = [taskfs EXCEPT !.resources = Put(taskfs.resources, call[t].rid, Len(tasks) + 1)]
  <2>1. NewTask(taskfs.nextID, File(t).of, call[t].own, call[t].file).id = taskfs.nextID
    BY DEF NewTask
  <2> QED BY <2>1, <1>3 DEF AllocInsert, Update, GoTo, GoneTo
<1>5. p \in TaskRecords /\ p.by = k /\ p.fds = <<>>
  <2>1. <<>> \in [{} -> Nat] /\ <<>> \in Data
    BY EmptySeq DEF Data
  <2>2. <<>> \in Tables(Nat, Nat)
    BY <2>1 DEF Tables
  <2>3. f.of \in AllKinds \cup {Unknown} \cup Nat
    BY <1>1 DEF Files
  <2> QED BY <1>1, <2>1, <2>2, <2>3 DEF NewTask, TaskRecords
<1>6. /\ g \in Files /\ g.what = f.what /\ g.of = f.of /\ g.data = <<id>> /\ g.hasRead
      /\ g.openFile = f.openFile /\ g.nodeFiles = <<>> /\ g.acked = f.acked /\ g.got = f.got
  <2>1. <<id>> \in Data
    BY DEF Data, Tokens
  <2> QED BY <1>1, <1>2, <2>1 DEF Files
<1>7. c \in CallRecords /\ c.pc = "opened" /\ c.own = call[t].own /\ c.file = k
  <2>1. "opened" \in Places /\ 0 \in Nat
    BY TablePlaces
  <2> QED BY <2>1, <1>1, CallMoves, SMTT(60)
<1> HIDE DEF p, g, c
<1>8. PICK m \in Nat : m = Len(tasks)
  BY LenProperties DEF TaskInv, TypeOK
<1>9. /\ tasks' \in Seq(TaskRecords) /\ DOMAIN tasks = 1 .. m /\ DOMAIN tasks' = 1 .. m + 1
      /\ \A q \in 1 .. m : tasks'[q] = tasks[q]
      /\ tasks'[m + 1] = p
  BY <1>4, <1>5, <1>8, AppendProperties DEF TaskInv, TypeOK
<1>10. /\ files' \in Seq(Files) /\ DOMAIN files' = DOMAIN files /\ Len(files') = Len(files) /\ files'[k] = g
       /\ \A x \in DOMAIN files \ {k} : files'[x] = files[x]
  BY <1>1, <1>4, <1>6 DEF TaskInv, TypeOK
<1>11. /\ call' \in [Threads -> CallRecords] /\ call'[t] = c
       /\ \A u \in Threads \ {t} : call'[u] = call[u]
  BY <1>4, <1>7 DEF TaskInv, TypeOK
<1>12. /\ taskfs' \in TaskFSes
       /\ \A rid \in DOMAIN taskfs'.resources : taskfs'.resources[rid] \in DOMAIN tasks'
  <2> DEFINE put == Put(taskfs.resources, call[t].rid, m + 1)
  <2>1. taskfs.resources \in Tables(Nat, Nat) /\ call[t].rid \in Nat /\ m + 1 \in Nat
    BY <1>1 DEF TaskInv, TypeOK, TaskFSes, CallRecords
  <2>2. put \in Tables(Nat, Nat)
    BY <2>1, TablePut
  <2>3. \A rid \in DOMAIN put : put[rid] \in 1 .. m + 1
    <3>1. \A rid \in DOMAIN taskfs.resources : taskfs.resources[rid] \in 1 .. m
      BY <1>9 DEF TaskInv, InPlace
    <3> QED BY <3>1 DEF Put
  <2> HIDE DEF put
  <2>4. taskfs' = [taskfs EXCEPT !.resources = put]
    BY <1>4, <1>8 DEF put
  <2> QED BY <2>2, <2>3, <2>4, <1>9 DEF TaskInv, TypeOK, TaskFSes
<1>13. TypeOK'
  BY <1>9, <1>10, <1>11, <1>12 DEF TypeOK
<1>14. Later(f, g) /\ GoodFile(g) /\ GoodCall(c, g)
  <2>1. Later(f, g)
    BY <1>1, <1>2, <1>6 DEF Later
  <2>2. GoodFile(g)
    <3>1. Len(<<id>>) = 1 /\ Len(<<>>) = 0 /\ DOMAIN <<>> = {}
      OBVIOUS
    <3> QED BY <3>1, <1>1, <1>2, <1>6 DEF GoodFile
  <2>3. GoodCall(c, g)
    BY <1>1, <1>6, <1>7, TablePlaces DEF GoodCall, ReadFuncs, Writes, Setters, Starts
  <2> QED BY <2>1, <2>2, <2>3
<1>15. \A x \in DOMAIN files : Later(files[x], files'[x])
  BY <1>1, <1>10, <1>14 DEF Later
<1>16. InPlace'
  <2>1. ASSUME NEW x \in DOMAIN files
        PROVE  GoodFile(files'[x]) /\ (files'[x].what # "new" => files'[x].of \in DOMAIN tasks')
    BY <1>1, <1>6, <1>9, <1>10, <1>14 DEF TaskInv, InPlace
  <2>2. ASSUME NEW u \in Threads, call'[u].pc # "idle"
        PROVE  /\ call'[u].own \in DOMAIN tasks' /\ call'[u].file \in DOMAIN files
               /\ GoodCall(call'[u], files'[call'[u].file])
    <3>1. CASE u = t
      BY <3>1, <1>1, <1>7, <1>9, <1>10, <1>11, <1>14
    <3>2. CASE u # t
      <4>1. call[u].own \in DOMAIN tasks /\ call[u].file \in DOMAIN files /\ GoodCall(call[u], files[call[u].file])
        BY <3>2, <2>2, <1>11 DEF TaskInv, InPlace, File
      <4> QED BY <4>1, <3>2, <1>9, <1>11, <1>15, CallStaysGood
    <3> QED BY <3>1, <3>2
  <2>3. ASSUME NEW q \in DOMAIN tasks', NEW fd \in DOMAIN tasks'[q].fds  PROVE tasks'[q].fds[fd] \in DOMAIN files
    <3>1. CASE q \in 1 .. m
      BY <3>1, <1>9 DEF TaskInv, InPlace
    <3>2. CASE q = m + 1
      <4>1. DOMAIN <<>> = {}
        OBVIOUS
      <4> QED BY <4>1, <3>2, <1>5, <1>9
    <3> QED BY <3>1, <3>2, <1>9
  <2> QED BY <2>1, <2>2, <2>3, <1>10, <1>12 DEF InPlace, File
<1>17. Alone'
  <2>1. \A u \in Threads : call'[u].pc \in ReadFuncs => call[u].pc \in ReadFuncs /\ call'[u].file = call[u].file
    BY <1>1, <1>7, <1>11
  <2>2. \A u \in Threads \ {t} : call'[u].pc \in ReadFuncs => call'[u].file # k
    BY <1>1, <2>1 DEF TaskInv, Alone
  <2>3. ASSUME NEW u \in Threads, call'[u].pc \in ReadFuncs
        PROVE  /\ \A v \in Threads \ {u} : call'[v].pc \in ReadFuncs => call'[v].file # call'[u].file
               /\ files'[call'[u].file].what = "new" => files'[call'[u].file].nodeFiles = <<>>
               /\ call'[u].pc # "opened" => \A q \in DOMAIN tasks' : tasks'[q].by # call'[u].file
    <3>1. \A v \in Threads \ {u} : call'[v].pc \in ReadFuncs => call'[v].file # call'[u].file
      BY <2>1, <2>3 DEF TaskInv, Alone
    <3>2. CASE u = t
      BY <3>1, <3>2, <1>6, <1>7, <1>10, <1>11
    <3>3. CASE u # t
      <4>1. call'[u] = call[u] /\ call[u].pc \in ReadFuncs /\ call[u].file # k /\ call[u].file \in DOMAIN files
        BY <3>3, <2>1, <2>2, <2>3, <1>11 DEF TaskInv, InPlace, ReadFuncs, AllocSteps
      <4>2. files'[call[u].file] = files[call[u].file]
        BY <4>1, <1>10
      <4>3. call[u].pc # "opened" => \A q \in DOMAIN tasks' : tasks'[q].by # call[u].file
        <5>1. call[u].pc # "opened" => \A q \in 1 .. m : tasks[q].by # call[u].file
          BY <4>1, <1>9 DEF TaskInv, Alone
        <5> QED BY <5>1, <4>1, <1>5, <1>9
      <4> QED BY <3>1, <4>1, <4>2, <4>3 DEF TaskInv, Alone, File
    <3> QED BY <3>2, <3>3
  <2>4. ASSUME NEW x \in DOMAIN files, ~files'[x].hasRead, NEW q \in DOMAIN tasks'  PROVE tasks'[q].by # x
    <3>1. x # k /\ ~files[x].hasRead
      BY <2>4, <1>6, <1>10
    <3>2. \A i \in 1 .. m : tasks[i].by # x
      BY <3>1, <1>9 DEF TaskInv, Alone
    <3> QED BY <3>1, <3>2, <1>5, <1>9
  <2>5. ASSUME NEW i \in DOMAIN tasks', NEW q \in DOMAIN tasks', tasks'[i].by = tasks'[q].by
        PROVE  tasks'[i].by = 0 \/ i = q
    <3>1. CASE i \in 1 .. m /\ q \in 1 .. m
      BY <3>1, <2>5, <1>9 DEF TaskInv, Alone
    <3>2. CASE i = m + 1 /\ q = m + 1
      BY <3>2
    <3>3. CASE (i = m + 1 /\ q \in 1 .. m) \/ (i \in 1 .. m /\ q = m + 1)
      BY <3>3, <2>5, <1>2, <1>5, <1>9
    <3> QED BY <3>1, <3>2, <3>3, <1>9
  <2>6. ASSUME NEW q \in DOMAIN tasks'  PROVE tasks'[q].by <= Len(files')
    <3>1. CASE q \in 1 .. m
      BY <3>1, <1>9, <1>10 DEF TaskInv, Alone
    <3>2. CASE q = m + 1
      BY <3>2, <1>1, <1>5, <1>9, <1>10
    <3> QED BY <3>1, <3>2, <1>9
  <2> QED BY <2>3, <2>4, <2>5, <2>6, <1>10 DEF Alone, File
<1> QED BY <1>13, <1>16, <1>17 DEF TaskInv


-----------------------------------------------------------------------------
\* TaskInv is inductive.
LEMMA TaskInit == Init => TaskInv
<1> SUFFICES ASSUME Init PROVE TaskInv
  OBVIOUS
<1>1. /\ files = <<>> /\ files \in Seq(Files) /\ DOMAIN files = {} /\ Len(files) = 0
  BY EmptySeq DEF Init
<1>2. /\ call \in [Threads -> CallRecords] /\ \A t \in Threads : call[t].pc = "idle"
  BY NoCallTypes DEF Init
<1>3. PICK p \in TaskRecords : tasks = <<p>> /\ p.by = 0 /\ p.fds = <<>>
  <2>1. <<>> \in [{} -> Nat] /\ <<>> \in Data
    BY EmptySeq DEF Data
  <2>2. <<>> \in Tables(Nat, Nat)
    BY <2>1 DEF Tables
  <2> DEFINE p == [NewTask(1, AutoKind, 0, 0) EXCEPT !.running = TRUE]
  <2>3. p \in TaskRecords /\ p.by = 0 /\ p.fds = <<>>
    BY <2>1, <2>2 DEF NewTask, TaskRecords, AllKinds
  <2>4. tasks = <<p>>
    BY DEF Init
  <2> HIDE DEF p
  <2> QED BY <2>3, <2>4
<1>4. tasks \in Seq(TaskRecords) /\ DOMAIN tasks = {1} /\ tasks[1] = p
  BY <1>3
<1>5. taskfs \in TaskFSes /\ taskfs.resources = <<1>>
  <2>1. <<>> \in [{} -> Nat] /\ <<1>> \in [{1} -> Nat]
    OBVIOUS
  <2>2. <<>> \in Tables(Data, Nat) /\ <<1>> \in Tables(Nat, Nat)
    BY <2>1 DEF Tables
  <2> QED BY <2>2 DEF Init, TaskFSes
<1>6. TypeOK
  BY <1>1, <1>2, <1>4, <1>5 DEF TypeOK
<1>7. InPlace
  <2>1. DOMAIN <<>> = {} /\ DOMAIN <<1>> = {1} /\ <<1>>[1] = 1
    OBVIOUS
  <2> QED BY <2>1, <1>1, <1>2, <1>3, <1>4, <1>5 DEF InPlace
<1>8. Alone
  <2>1. "idle" \notin ReadFuncs
    BY DEF ReadFuncs, AllocSteps
  <2> QED BY <2>1, <1>1, <1>2, <1>3, <1>4 DEF Alone
<1> QED BY <1>6, <1>7, <1>8 DEF TaskInv

LEMMA TaskStep == TaskInv /\ [Next]_vars => TaskInv'
<1> SUFFICES ASSUME TaskInv, [Next]_vars PROVE TaskInv'
  OBVIOUS
<1>1. ASSUME NEW t \in Threads, Call(t)  PROVE TaskInv'
  BY <1>1, OpenPathGoes, BeginIOGoes, CloseFDGoes DEF Call
<1>2. ASSUME NEW t \in Threads, Proceed(t)  PROVE TaskInv'
  <2>1. CASE FileStep(t)
    BY <2>1, FileStepGoes
  <2>2. CASE FieldRead(t) \/ AllocKind(t)
    BY <2>2, ReadFuncFills
  <2>3. CASE AllocLoad(t) \/ AllocCount(t) \/ AllocNumber(t)
    BY <2>3, AllocCounts
  <2>4. CASE AllocInsert(t)
    BY <2>4, AllocInserts
  <2>5. CASE Closed(t) \/ SetAlias(t) \/ AutoDriver(t) \/ Launch(t) \/ CloseFDReturns(t)
    BY <2>5, CloseFuncGoes
  <2> QED BY <1>2, <2>1, <2>2, <2>3, <2>4, <2>5 DEF Proceed, Alloc
<1>3. CASE UNCHANGED vars
  BY <1>3 DEF vars, TaskInv, TypeOK, InPlace, Alone, File
<1> QED BY <1>1, <1>2, <1>3 DEF Next

\* The types of the files, the calls and the tasks, what is so of each file and
\* of the calls of it, and that one call at a time fills a file.
THEOREM TaskInvariance == Spec => []TaskInv
BY TaskInit, TaskStep, PTL DEF Spec

-----------------------------------------------------------------------------
(* OneTaskPerFile.                                                         *)

\* A set whose members are all the same has one at most.
LEMMA AtMostOne ==
  ASSUME NEW S, \A x, y \in S : x = y
  PROVE  Cardinality(S) <= 1
<1>1. CASE S = {}
  BY <1>1, FS_EmptySet
<1>2. CASE S # {}
  <2>1. PICK x : x \in S
    BY <1>2
  <2>2. S = {x}
    BY <2>1
  <2>3. Cardinality({x}) = 1
    BY FS_Singleton
  <2> QED BY <2>2, <2>3
<1> QED BY <1>1, <1>2

LEMMA TaskPerFile == TaskInv => OneTaskPerFile
<1> SUFFICES ASSUME TaskInv, NEW f \in DOMAIN files, files[f].what = "new"
             PROVE  /\ Cardinality({p \in DOMAIN tasks : tasks[p].by = f}) <= 1
                    /\ Cardinality(files[f].got) <= 1
  BY DEF OneTaskPerFile
<1>1. f # 0
  BY DEF TaskInv, TypeOK
<1> DEFINE S == {p \in DOMAIN tasks : tasks[p].by = f}
<1>2. \A p, q \in S : p = q
  BY <1>1 DEF TaskInv, Alone
<1>3. \A x, y \in files[f].got : x = y
  BY DEF TaskInv, InPlace, GoodFile
<1> HIDE DEF S
<1>4. Cardinality(S) <= 1 /\ Cardinality(files[f].got) <= 1
  BY <1>2, <1>3, AtMostOne
<1> QED BY <1>4 DEF S

\* However many threads read a file of #task/new, and however often, at most
\* one task is allocated for it and all of them read the same id: FuncFile
\* lets the first Read alone call ReadFunc, and the others wait for the copy.
THEOREM OneTaskForAFile == Spec => []OneTaskPerFile
BY TaskInvariance, TaskPerFile, PTL

-----------------------------------------------------------------------------
(* AckedWritesReachCloseFunc.                                              *)

LEMMA WritesReach == TaskInv => AckedWritesReachCloseFunc
<1> SUFFICES ASSUME TaskInv, NEW t \in Threads, call[t].pc = "closefunc", ~File(t).hasRead
             PROVE  /\ Len(File(t).data) >= Len(File(t).acked)
                    /\ SubSeq(File(t).data, 1, Len(File(t).acked)) = File(t).acked
  BY DEF AckedWritesReachCloseFunc, At, TaskInv, TypeOK
<1>1. PICK g \in Files : g = File(t) /\ GoodFile(g) /\ GoodCall(call[t], g)
  BY FileTypes DEF TaskInv
<1>2. PICK nf \in NodeFiles : nf = g.nodeFiles[1] /\ nf.closed /\ Wrote(g, nf)
  <2>1. g.nodeFiles \in Seq(NodeFiles) /\ Len(g.nodeFiles) <= 1 /\ call[t].nodeFile \in DOMAIN g.nodeFiles
    BY <1>1 DEF GoodCall, GoodFile, Files
  <2>2. call[t].nodeFile = 1 /\ 1 \in DOMAIN g.nodeFiles /\ g.nodeFiles[1] \in NodeFiles /\ g.nodeFiles # <<>>
    BY <2>1, EmptySeq, LenProperties, ElementOfSeq
  <2> QED BY <1>1, <2>2 DEF GoodCall, GoodFile
<1>3. PICK a \in Seq(Tokens) : a = g.acked
  BY DEF Files
<1>4. g.data \in Seq(Tokens) /\ Len(a) \in Nat /\ Len(g.data) \in Nat
  BY <1>3, LenProperties DEF Files, Data
<1>5. Len(a) <= Len(g.data) /\ \A i \in 1 .. Len(a) : g.data[i] = a[i]
  <2>1. CASE a = <<>>
    BY <2>1, <1>4
  <2>2. CASE a # <<>>
    BY <2>2, <1>2, <1>3 DEF Wrote
  <2> QED BY <2>1, <2>2
<1>6. SubSeq(g.data, 1, Len(a)) = a
  <2> DEFINE s == SubSeq(g.data, 1, Len(a))
  <2>1. s \in Seq(Tokens) /\ Len(s) = Len(a) /\ \A i \in 1 .. Len(a) : s[i] = g.data[i]
    BY <1>4, <1>5
  <2> HIDE DEF s
  <2>2. s = a
    BY <2>1, <1>3, <1>5, SeqEqual
  <2> QED BY <2>2 DEF s
<1> QED BY <1>1, <1>3, <1>4, <1>5, <1>6

\* Whatever threads share a file, what its CloseFunc is given starts with every
\* write that was acknowledged, if nobody has read the file.
THEOREM WritesReachCloseFunc == Spec => []AckedWritesReachCloseFunc
BY TaskInvariance, WritesReach, PTL

-----------------------------------------------------------------------------
(* What a step of one thread leaves as it is.                              *)

\* A step of t: the other calls, what the files are, and what is in a file of
\* #task/new
Kept(t) ==
  /\ \A u \in Threads \ {t} : call'[u] = call[u]
  /\ \A f \in DOMAIN files : /\ f \in DOMAIN files'
                             /\ files'[f].what = files[f].what /\ files'[f].of = files[f].of
Filled ==
  /\ \A f \in DOMAIN files : files[f].what = "new" => files'[f].data = files[f].data
  /\ \A f \in DOMAIN files' \ DOMAIN files : files'[f].what = "new" => files'[f].data = <<>>

LEMMA FilesKept ==
  ASSUME TaskInv, NEW t \in Threads, NEW c, call' = [call EXCEPT ![t] = c], files' = files
  PROVE  Kept(t) /\ Filled
BY DEF Kept, Filled, TaskInv, TypeOK

LEMMA FileStepKeeps ==
  ASSUME TaskInv, NEW t \in Threads, FuncFileStep(t)
  PROVE  Kept(t) /\ Filled /\ call[t].pc \notin Setters \cup AllocSteps /\ call'[t].pc \notin Setters \cup AllocSteps
<1>1. call[t].pc # "idle" /\ \E c, g : Goes(t, c, g) /\ Fits(t, c, g)
  BY ReadGoes, WriteGoes, CloseGoes DEF FuncFileStep
<1>2. PICK c, g : Goes(t, c, g) /\ Fits(t, c, g)
  BY <1>1
<1>3. Kept(t) /\ Filled
  <2>1. call[t].file \in DOMAIN files /\ File(t) = files[call[t].file]
    BY <1>1 DEF TaskInv, InPlace, File
  <2> QED BY <1>2, <2>1 DEF Goes, Fits, Later, Kept, Filled, TaskInv, TypeOK
<1>4. call[t].pc \in {"read", "opened", "await", "get", "write", "openwrite", "put", "close", "sync"}
  BY DEF FuncFileStep, Read, Write, Close, ReadClosed, ReadFirst, ReadLater, ReadOpens, ReadAwaits, ReadNodeFile,
         WriteClosed, WriteEnters, WriteOpens, WriteNodeFile, CloseEnters, CloseNodeFile, At
<1>5. call'[t].pc \in {"idle", "readfunc", "await", "get", "openwrite", "put", "sync", "done", "closefunc"}
  <2>1. \A pc : GoTo(t, pc) => call'[t].pc = pc
    BY DEF GoTo, TaskInv, TypeOK, CallRecords
  <2>2. \A pc : \A n : Use(t, pc, n) => call'[t].pc = pc
    BY DEF Use, TaskInv, TypeOK, CallRecords
  <2>3. Return(t) => call'[t].pc = "idle"
    BY NoCallTypes DEF Return, TaskInv, TypeOK
  <2>4. CASE Read(t)
    BY <2>1, <2>2, <2>3, <2>4
       DEF Read, ReadClosed, ReadFirst, ReadLater, ReadOpens, ReadAwaits, ReadNodeFile
  <2>5. CASE Write(t)
    BY <2>1, <2>2, <2>3, <2>5 DEF Write, WriteClosed, WriteEnters, WriteOpens, WriteNodeFile
  <2>6. CASE Close(t)
    BY <2>1, <2>2, <2>3, <2>6 DEF Close, CloseEnters, CloseNodeFile
  <2> QED BY <2>4, <2>5, <2>6 DEF FuncFileStep
<1> QED BY <1>3, <1>4, <1>5 DEF Setters, AllocSteps

\* The first steps of ReadFunc change of a file what they note in it
LEMMA ReadFuncKeeps ==
  ASSUME TaskInv, NEW t \in Threads, FieldRead(t) \/ AllocKind(t)
  PROVE  /\ Kept(t) /\ Filled /\ call[t].pc = "readfunc"
         /\ call'[t].pc \in {"opened", "idle", "load"}
         /\ call'[t].pc = "load" =>
              AllocKind(t) /\ overlapped' = (overlapped \/ \E u \in Threads : call[u].pc \in AllocSteps)
<1>1. call[t].pc = "readfunc" /\ call[t].pc # "idle" /\ call[t] \in CallRecords
  BY FileTypes DEF FieldRead, AllocKind, At, TaskInv
<1>2. call[t].file \in DOMAIN files /\ File(t) = files[call[t].file] /\ File(t) \in Files
  BY <1>1, FileTypes DEF TaskInv, InPlace, File
<1>3. PICK c : call' = [call EXCEPT ![t] = c]
  BY DEF FieldRead, AllocKind, GoTo, Return
<1>4. \/ files' = files
      \/ files' = [files EXCEPT ![call[t].file] = [files[call[t].file] EXCEPT !.wasRead = TRUE]]
      \/ files' = [files EXCEPT ![call[t].file] = [files[call[t].file] EXCEPT !.failed = TRUE]]
  BY <1>2 DEF FieldRead, AllocKind, Update
<1>5. Kept(t) /\ Filled
  <2>1. PICK g : /\ files' = [files EXCEPT ![call[t].file] = g]
                 /\ g.what = File(t).what /\ g.of = File(t).of /\ g.data = File(t).data
    <3>1. CASE files' = files
      BY <3>1, <1>2 DEF TaskInv, TypeOK
    <3>2. CASE files' = [files EXCEPT ![call[t].file] = [files[call[t].file] EXCEPT !.wasRead = TRUE]]
      <4> DEFINE g == [files[call[t].file] EXCEPT !.wasRead = TRUE]
      <4>1. g.what = File(t).what /\ g.of = File(t).of /\ g.data = File(t).data
        BY <1>2 DEF Files
      <4> HIDE DEF g
      <4> QED BY <3>2, <4>1 DEF g
    <3>3. CASE files' = [files EXCEPT ![call[t].file] = [files[call[t].file] EXCEPT !.failed = TRUE]]
      <4> DEFINE g == [files[call[t].file] EXCEPT !.failed = TRUE]
      <4>1. g.what = File(t).what /\ g.of = File(t).of /\ g.data = File(t).data
        BY <1>2 DEF Files
      <4> HIDE DEF g
      <4> QED BY <3>3, <4>1 DEF g
    <3> QED BY <1>4, <3>1, <3>2, <3>3
  <2> QED BY <1>2, <1>3, <2>1 DEF Kept, Filled, TaskInv, TypeOK
<1>6. call'[t].pc \in {"opened", "idle", "load"}
  BY <1>1, NoCallTypes DEF FieldRead, AllocKind, GoTo, Return, TaskInv, TypeOK, CallRecords
<1>7. call'[t].pc = "load" => AllocKind(t) /\ File(t).of \in AllKinds
  BY <1>1, NoCallTypes DEF FieldRead, AllocKind, GoTo, Return, TaskInv, TypeOK, CallRecords
<1> QED BY <1>1, <1>5, <1>6, <1>7 DEF AllocKind

LEMMA OpenKeeps ==
  ASSUME TaskInv, NEW t \in Threads, OpenPath(t)
  PROVE  /\ Kept(t) /\ Filled /\ call' = call /\ taskfs' = taskfs /\ overlapped' = overlapped
         /\ \E own \in DOMAIN tasks : \E fd, fds : tasks' = [tasks EXCEPT ![own] = [tasks[own] EXCEPT !.fdIdx = fd, !.fds = fds]]
<1>1. PICK own \in DOMAIN tasks :
        \/ \E kind \in AllKinds \cup {Unknown} : Open(own, NewFuncFile("new", kind, <<>>))
        \/ \E rid \in DOMAIN taskfs.resources :
             LET r == taskfs.resources[rid]
             IN  Open(own, NewFuncFile("alias", r, tasks[r].alias)) \/ Open(own, NewFuncFile("ctl", r, <<>>))
  BY DEF OpenPath
<1>2. PICK what \in Whats : \E of, data : Open(own, NewFuncFile(what, of, data)) /\ (what = "new" => data = <<>>)
  <2>1. "new" \in Whats /\ "alias" \in Whats /\ "ctl" \in Whats
    BY DEF Whats
  <2> QED BY <1>1, <2>1
<1> PICK of, data : Open(own, NewFuncFile(what, of, data)) /\ (what = "new" => data = <<>>)
  BY <1>2
<1>3. PICK g : g = NewFuncFile(what, of, data) /\ g.what = what /\ g.data = data
  <2>1. NewFuncFile(what, of, data).what = what /\ NewFuncFile(what, of, data).data = data
    BY DEF NewFuncFile
  <2> QED BY <2>1
<1>4. PICK n \in Nat : n = Len(files)
  BY LenProperties DEF TaskInv, TypeOK
<1>5. /\ DOMAIN files = 1 .. n /\ DOMAIN files' = 1 .. n + 1
      /\ \A i \in 1 .. n : files'[i] = files[i]
      /\ files'[n + 1] = g
  <2>1. files' = Append(files, g)
    BY <1>2, <1>3 DEF Open
  <2>2. /\ DOMAIN Append(files, g) = 1 .. n + 1
        /\ \A i \in 1 .. n : Append(files, g)[i] = files[i]
        /\ Append(files, g)[n + 1] = g
    <3>1. files \in Seq(Files \cup {g}) /\ g \in Files \cup {g}
      BY SeqMonotonic DEF TaskInv, TypeOK
    <3> QED BY <1>4, <3>1, AppendProperties
  <2> QED BY <1>4, <2>1, <2>2 DEF TaskInv, TypeOK
<1>6. call' = call /\ taskfs' = taskfs /\ overlapped' = overlapped
  BY <1>2 DEF Open
<1>7. Kept(t)
  BY <1>5, <1>6 DEF Kept
<1>8. Filled
  BY <1>2, <1>3, <1>5 DEF Filled
<1> QED BY <1>2, <1>6, <1>7, <1>8 DEF Open, OpenFD

-----------------------------------------------------------------------------
(* AliasFound.                                                             *)

\* No task but r has had the alias r has
Own(r) == tasks[r].alias # <<>> /\ \A q \in DOMAIN tasks \ {r} : tasks[r].alias \notin tasks[q].names

\* The alias the setter will delete is one its task has had; an alias of a task
\* that has it alone is in the table, or somebody is about to enter it.
AliasInv ==
  /\ \A t \in Threads : call[t].pc \in {"storealias", "table"} =>
       call[t].oldalias = <<>> \/ call[t].oldalias \in tasks[File(t).of].names
  /\ \A r \in DOMAIN tasks : tasks[r].alias = <<>> \/ tasks[r].alias \in tasks[r].names
  /\ \A r \in DOMAIN tasks : Own(r) =>
       \/ \E t \in Threads : call[t].pc = "table" /\ File(t).of = r
       \/ tasks[r].alias \in DOMAIN taskfs.aliases /\ taskfs.aliases[tasks[r].alias] = r

SetterPlaces == {"storealias", "table"}

\* The tasks keep where they come from
BysStay == \A p \in DOMAIN tasks : p \in DOMAIN tasks' /\ tasks'[p].by = tasks[p].by

\* The names of the tasks stay too, and tasks that come have none
NamesStay ==
  /\ BysStay
  /\ \A p \in DOMAIN tasks : tasks'[p].alias = tasks[p].alias /\ tasks'[p].names = tasks[p].names
  /\ \A p \in DOMAIN tasks' \ DOMAIN tasks : tasks'[p].alias = <<>>

\* A call of a setter is of a file of a task there is
LEMMA SetterFiles ==
  ASSUME TaskInv, NEW u \in Threads, call[u].pc \in Setters
  PROVE  call[u].file \in DOMAIN files /\ File(u) = files[call[u].file] /\ File(u).of \in DOMAIN tasks
         /\ File(u).what = "alias" /\ call[u].pc # "idle"
BY DEF TaskInv, InPlace, GoodCall, Setters, File

\* A step that is not one of the setter's
LEMMA AliasFrame ==
  ASSUME TaskInv, AliasInv, NEW t \in Threads, Kept(t), NamesStay, taskfs'.aliases = taskfs.aliases,
         call[t].pc # "table", call'[t].pc \notin SetterPlaces
  PROVE  AliasInv'
<1>1. ASSUME NEW u \in Threads, call'[u].pc \in SetterPlaces
      PROVE  call'[u] = call[u] /\ File(u)'.of = File(u).of /\ File(u).of \in DOMAIN tasks
  <2>1. u # t /\ call'[u] = call[u]
    BY <1>1 DEF Kept
  <2>2. call[u].file \in DOMAIN files /\ File(u) = files[call[u].file] /\ File(u).of \in DOMAIN tasks
    BY <1>1, <2>1, SetterFiles DEF SetterPlaces, Setters
  <2> QED BY <2>1, <2>2 DEF Kept, File
<1>2. ASSUME NEW u \in Threads, call'[u].pc \in SetterPlaces
      PROVE  call'[u].oldalias = <<>> \/ call'[u].oldalias \in tasks'[File(u)'.of].names
  BY <1>1, <1>2 DEF AliasInv, SetterPlaces, NamesStay, BysStay
<1>3. ASSUME NEW r \in DOMAIN tasks'  PROVE tasks'[r].alias = <<>> \/ tasks'[r].alias \in tasks'[r].names
  BY DEF AliasInv, NamesStay, BysStay
<1>4. ASSUME NEW r \in DOMAIN tasks', Own(r)'
      PROVE  \/ \E u \in Threads : call'[u].pc = "table" /\ File(u)'.of = r
             \/ tasks'[r].alias \in DOMAIN taskfs'.aliases /\ taskfs'.aliases[tasks'[r].alias] = r
  <2>1. r \in DOMAIN tasks /\ Own(r) /\ tasks'[r].alias = tasks[r].alias
    BY <1>4 DEF Own, NamesStay, BysStay
  <2>2. CASE \E u \in Threads : call[u].pc = "table" /\ File(u).of = r
    <3>1. PICK u \in Threads : call[u].pc = "table" /\ File(u).of = r
      BY <2>2
    <3>2. u # t /\ call'[u] = call[u]
      BY <3>1 DEF Kept
    <3> QED BY <3>1, <3>2, <1>1 DEF SetterPlaces
  <2>3. CASE tasks[r].alias \in DOMAIN taskfs.aliases /\ taskfs.aliases[tasks[r].alias] = r
    BY <2>1, <2>3
  <2> QED BY <2>1, <2>2, <2>3 DEF AliasInv
<1> QED BY <1>2, <1>3, <1>4 DEF AliasInv, SetterPlaces

LEMMA AliasLoads ==
  ASSUME TaskInv, AliasInv, NEW t \in Threads, AliasLoad(t)
  PROVE  AliasInv'
<1>1. call[t].pc = "setalias" /\ call[t].pc \in Setters /\ call[t] \in CallRecords
  BY FileTypes DEF AliasLoad, At, Setters, TaskInv
<1>2. /\ call'[t].pc = "storealias" /\ call'[t].oldalias = tasks[File(t).of].alias /\ call'[t].file = call[t].file
      /\ \A u \in Threads \ {t} : call'[u] = call[u]
      /\ files' = files /\ tasks' = tasks /\ taskfs' = taskfs
  BY <1>1 DEF AliasLoad, Subject, TaskInv, TypeOK, CallRecords
<1>3. \A u \in Threads : File(u)' = File(u)
  BY <1>2 DEF File
<1>4. File(t).of \in DOMAIN tasks
  BY <1>1, SetterFiles
<1> QED BY <1>1, <1>2, <1>3, <1>4 DEF AliasInv, Own

LEMMA AliasStores ==
  ASSUME TaskInv, AliasInv, NEW t \in Threads, AliasStore(t)
  PROVE  AliasInv'
<1>1. call[t].pc = "storealias" /\ call[t].pc \in Setters /\ call[t] \in CallRecords
  BY FileTypes DEF AliasStore, At, Setters, TaskInv
<1>2. PICK r \in DOMAIN tasks : r = File(t).of
  BY <1>1, SetterFiles
<1>3. PICK name : name = File(t).data
  OBVIOUS
<1>4. tasks[r] \in TaskRecords
  BY TaskTypes DEF TaskInv
<1>5. /\ DOMAIN tasks' = DOMAIN tasks /\ tasks'[r].alias = name /\ tasks'[r].names = tasks[r].names \cup {name}
      /\ \A p \in DOMAIN tasks \ {r} : tasks'[p] = tasks[p]
  <2>1. tasks' = [tasks EXCEPT ![r].alias = name, ![r].names = @ \cup {name}]
    BY <1>2, <1>3 DEF AliasStore
  <2> QED BY <2>1, <1>4 DEF TaskRecords, TaskInv, TypeOK
<1>6. /\ call'[t].pc = "table" /\ call'[t].oldalias = call[t].oldalias /\ call'[t].file = call[t].file
      /\ \A u \in Threads \ {t} : call'[u] = call[u]
      /\ files' = files /\ taskfs' = taskfs
  BY <1>1 DEF AliasStore, GoTo, TaskInv, TypeOK, CallRecords
<1>7. \A u \in Threads : File(u)' = File(u)
  BY <1>6 DEF File
<1>8. ASSUME NEW u \in Threads, call'[u].pc \in SetterPlaces
      PROVE  call'[u].oldalias = <<>> \/ call'[u].oldalias \in tasks'[File(u)'.of].names
  <2>1. /\ call[u].pc \in SetterPlaces /\ call[u].pc \in Setters
        /\ call'[u].oldalias = call[u].oldalias
    BY <1>1, <1>6, <1>8 DEF SetterPlaces, Setters
  <2>2. File(u).of \in DOMAIN tasks
    BY <2>1, SetterFiles
  <2>3. call[u].oldalias = <<>> \/ call[u].oldalias \in tasks[File(u).of].names
    BY <2>1 DEF AliasInv, SetterPlaces
  <2>4. \A p \in DOMAIN tasks : tasks[p].names \subseteq tasks'[p].names
    BY <1>5
  <2> QED BY <2>1, <2>2, <2>3, <2>4, <1>7
<1>9. ASSUME NEW p \in DOMAIN tasks'  PROVE tasks'[p].alias = <<>> \/ tasks'[p].alias \in tasks'[p].names
  BY <1>5 DEF AliasInv
<1>10. ASSUME NEW p \in DOMAIN tasks', Own(p)'
       PROVE  \/ \E u \in Threads : call'[u].pc = "table" /\ File(u)'.of = p
              \/ tasks'[p].alias \in DOMAIN taskfs'.aliases /\ taskfs'.aliases[tasks'[p].alias] = p
  <2>1. CASE p = r
    BY <2>1, <1>2, <1>6, <1>7
  <2>2. CASE p # r
    <3>1. p \in DOMAIN tasks /\ Own(p) /\ tasks'[p] = tasks[p]
      BY <1>5, <1>10, <2>2 DEF Own
    <3>2. \/ \E u \in Threads : call[u].pc = "table" /\ File(u).of = p
          \/ tasks[p].alias \in DOMAIN taskfs.aliases /\ taskfs.aliases[tasks[p].alias] = p
      BY <3>1 DEF AliasInv
    <3> QED BY <3>1, <3>2, <1>1, <1>6, <1>7
  <2> QED BY <2>1, <2>2
<1> QED BY <1>8, <1>9, <1>10 DEF AliasInv, SetterPlaces

LEMMA AliasEnters ==
  ASSUME TaskInv, AliasInv, NEW t \in Threads, AliasTable(t)
  PROVE  AliasInv'
<1>1. call[t].pc = "table" /\ call[t].pc \in Setters /\ call[t] \in CallRecords
  BY FileTypes DEF AliasTable, At, Setters, TaskInv
<1>2. PICK r \in DOMAIN tasks : r = File(t).of
  BY <1>1, SetterFiles
<1>3. PICK old : old = call[t].oldalias /\ (old = <<>> \/ old \in tasks[r].names)
  BY <1>1, <1>2 DEF AliasInv
<1>4. PICK rest : /\ rest = IF old = <<>> THEN taskfs.aliases ELSE Without(taskfs.aliases, old)
                  /\ \A a \in DOMAIN taskfs.aliases : a # old \/ old = <<>> => a \in DOMAIN rest /\ rest[a] = taskfs.aliases[a]
  <2> DEFINE rest == IF old = <<>> THEN taskfs.aliases ELSE Without(taskfs.aliases, old)
  <2>1. \A a \in DOMAIN taskfs.aliases : a # old \/ old = <<>> => a \in DOMAIN rest /\ rest[a] = taskfs.aliases[a]
    BY DEF Without
  <2> QED BY <2>1
<1>5. /\ call'[t].pc = "done" /\ call'[t].file = call[t].file
      /\ \A u \in Threads \ {t} : call'[u] = call[u]
      /\ files' = files /\ tasks' = tasks
  BY <1>1 DEF AliasTable, GoTo, TaskInv, TypeOK, CallRecords
<1>6. \A u \in Threads : File(u)' = File(u)
  BY <1>5 DEF File
<1>7. taskfs'.aliases = Put(rest, tasks[r].alias, r)
  BY <1>2, <1>3, <1>4 DEF AliasTable, TaskInv, TypeOK, TaskFSes
<1>8. /\ tasks[r].alias \in DOMAIN taskfs'.aliases /\ taskfs'.aliases[tasks[r].alias] = r
      /\ \A a \in DOMAIN rest : a # tasks[r].alias => a \in DOMAIN taskfs'.aliases /\ taskfs'.aliases[a] = rest[a]
  BY <1>7 DEF Put
<1>9. ASSUME NEW p \in DOMAIN tasks, Own(p)
      PROVE  \/ \E u \in Threads : call'[u].pc = "table" /\ File(u)'.of = p
             \/ tasks[p].alias \in DOMAIN taskfs'.aliases /\ taskfs'.aliases[tasks[p].alias] = p
  <2>1. CASE p = r
    BY <2>1, <1>8
  <2>2. CASE p # r
    <3>1. tasks[p].alias # <<>> /\ tasks[p].alias \notin tasks[r].names
      BY <1>9, <2>2 DEF Own
    <3>2. tasks[p].alias # tasks[r].alias /\ (tasks[p].alias # old \/ old = <<>>)
      BY <3>1, <1>3 DEF AliasInv
    <3>3. \/ \E u \in Threads : call[u].pc = "table" /\ File(u).of = p
          \/ tasks[p].alias \in DOMAIN taskfs.aliases /\ taskfs.aliases[tasks[p].alias] = p
      BY <1>9 DEF AliasInv
    <3>4. CASE \E u \in Threads : call[u].pc = "table" /\ File(u).of = p
      BY <3>4, <2>2, <1>2, <1>5, <1>6
    <3>5. CASE tasks[p].alias \in DOMAIN taskfs.aliases /\ taskfs.aliases[tasks[p].alias] = p
      BY <3>5, <3>2, <1>4, <1>8
    <3> QED BY <3>3, <3>4, <3>5
  <2> QED BY <2>1, <2>2
<1>10. ASSUME NEW u \in Threads, call'[u].pc \in SetterPlaces
       PROVE  call'[u].oldalias = <<>> \/ call'[u].oldalias \in tasks[File(u).of].names
  BY <1>5, <1>10 DEF AliasInv, SetterPlaces
<1> QED BY <1>5, <1>6, <1>9, <1>10 DEF AliasInv, SetterPlaces, Own

\* The steps that change neither the names of the tasks nor the table of aliases
LEMMA OtherStepsName ==
  ASSUME TaskInv, NEW t \in Threads,
         \/ Call(t)
         \/ FileStep(t) \/ FieldRead(t) \/ AllocKind(t) \/ AllocLoad(t) \/ AllocCount(t) \/ AllocNumber(t)
         \/ Closed(t) \/ AutoDriver(t) \/ Launch(t) \/ CloseFDReturns(t)
  PROVE  /\ Kept(t) /\ Filled /\ NamesStay /\ taskfs'.aliases = taskfs.aliases
         /\ call[t].pc # "table" /\ call'[t].pc \notin SetterPlaces
<1>0. call[t] \in CallRecords /\ tasks \in Seq(TaskRecords)
  BY DEF TaskInv, TypeOK
<1>1. CASE OpenPath(t)
  <2>1. PICK own \in DOMAIN tasks : \E fd, fds : tasks' = [tasks EXCEPT ![own] = [tasks[own] EXCEPT !.fdIdx = fd, !.fds = fds]]
    BY <1>1, OpenKeeps
  <2>2. PICK r : tasks' = [tasks EXCEPT ![own] = r] /\ r.alias = tasks[own].alias /\ r.names = tasks[own].names /\ r.by = tasks[own].by
    <3>1. PICK fd, fds : tasks' = [tasks EXCEPT ![own] = [tasks[own] EXCEPT !.fdIdx = fd, !.fds = fds]]
      BY <2>1
    <3> DEFINE r == [tasks[own] EXCEPT !.fdIdx = fd, !.fds = fds]
    <3>2. r.alias = tasks[own].alias /\ r.names = tasks[own].names /\ r.by = tasks[own].by
      BY TaskTypes DEF TaskInv, TaskRecords
    <3> HIDE DEF r
    <3> QED BY <3>1, <3>2 DEF r
  <2>3. NamesStay
    BY <2>2 DEF NamesStay, BysStay, TaskInv, TypeOK
  <2>4. call[t].pc = "idle" /\ call' = call
    BY <1>1, OpenKeeps DEF OpenPath, At
  <2> QED BY <1>1, <2>3, <2>4, OpenKeeps DEF SetterPlaces
<1>2. CASE BeginIO(t)
  <2>1. PICK own \in DOMAIN tasks : \E fd \in DOMAIN tasks[own].fds :
          \/ FD(t, own, fd, "read", 0)
          \/ \E token \in Names \cup {Start} : FD(t, own, fd, "write", token)
    BY <1>2 DEF BeginIO
  <2>2. PICK c : /\ call' = [call EXCEPT ![t] = c] /\ c.pc \in {"read", "write"}
                 /\ files' = files /\ tasks' = tasks /\ taskfs' = taskfs
    <3>1. \A pc, file, token : CallOf(pc, own, file, token).pc = pc
      BY DEF CallOf
    <3>2. PICK pc \in {"read", "write"} : \E file, token : call' = [call EXCEPT ![t] = CallOf(pc, own, file, token)]
      BY <2>1 DEF FD
    <3>3. files' = files /\ tasks' = tasks /\ taskfs' = taskfs
      BY <2>1 DEF FD
    <3> QED BY <3>1, <3>2, <3>3
  <2>3. call[t].pc = "idle" /\ call'[t] = c
    BY <1>2, <2>2 DEF BeginIO, At, TaskInv, TypeOK
  <2> QED BY <2>2, <2>3, FilesKept DEF NamesStay, BysStay, SetterPlaces
<1>3. CASE CloseFD(t)
  <2>1. PICK own \in DOMAIN tasks : \E fd \in DOMAIN tasks[own].fds :
          /\ call' = [call EXCEPT ![t] = CallOf("close", own, tasks[own].fds[fd], 0)]
          /\ tasks' = [tasks EXCEPT ![own].fds = Without(@, fd), ![own].mu = t]
    BY <1>3 DEF CloseFD
  <2>2. PICK c : call' = [call EXCEPT ![t] = c] /\ c.pc = "close"
    <3>1. \A file : CallOf("close", own, file, 0).pc = "close"
      BY DEF CallOf
    <3> QED BY <2>1, <3>1
  <2>3. files' = files /\ taskfs' = taskfs /\ call[t].pc = "idle" /\ call'[t] = c
    BY <1>3, <2>2 DEF CloseFD, At, TaskInv, TypeOK
  <2>4. NamesStay
    <3>1. PICK fd \in DOMAIN tasks[own].fds : tasks' = [tasks EXCEPT ![own].fds = Without(@, fd), ![own].mu = t]
      BY <2>1
    <3>2. tasks' = [tasks EXCEPT ![own] = [tasks[own] EXCEPT !.fds = Without(tasks[own].fds, fd), !.mu = t]]
      BY <3>1
    <3> DEFINE r == [tasks[own] EXCEPT !.fds = Without(tasks[own].fds, fd), !.mu = t]
    <3>3. r.alias = tasks[own].alias /\ r.names = tasks[own].names /\ r.by = tasks[own].by
      BY TaskTypes DEF TaskInv, TaskRecords
    <3> HIDE DEF r
    <3>4. tasks' = [tasks EXCEPT ![own] = r]
      BY <3>2 DEF r
    <3> QED BY <3>3, <3>4 DEF NamesStay, BysStay, TaskInv, TypeOK
  <2> QED BY <2>2, <2>3, <2>4, FilesKept DEF SetterPlaces
<1>4. CASE FileStep(t)
  <2>1. call[t].pc \notin Setters /\ call'[t].pc \notin Setters /\ Kept(t) /\ Filled
    BY <1>4, FileStepKeeps DEF FileStep
  <2> QED BY <1>4, <2>1 DEF FileStep, NamesStay, BysStay, Setters, SetterPlaces
<1>5. CASE FieldRead(t) \/ AllocKind(t)
  <2>1. tasks' = tasks /\ taskfs' = taskfs
    BY <1>5 DEF FieldRead, AllocKind
  <2> QED BY <1>5, <2>1, ReadFuncKeeps DEF NamesStay, BysStay, SetterPlaces
<1>6. CASE AllocLoad(t) \/ AllocCount(t) \/ AllocNumber(t)
  <2>1. PICK c : call' = [call EXCEPT ![t] = c] /\ files' = files /\ tasks' = tasks
    BY <1>6 DEF AllocLoad, AllocCount, AllocNumber, GoTo
  <2>2. call[t].pc \in AllocSteps /\ call'[t].pc \in {"count", "number", "insert"}
    BY <1>0, <1>6 DEF AllocLoad, AllocCount, AllocNumber, GoTo, At, AllocSteps, TaskInv, TypeOK, CallRecords
  <2>3. taskfs'.aliases = taskfs.aliases
    BY <1>6 DEF AllocLoad, AllocCount, AllocNumber, TaskInv, TypeOK, TaskFSes
  <2> QED BY <2>1, <2>2, <2>3, FilesKept DEF NamesStay, BysStay, AllocSteps, SetterPlaces
<1>7. CASE Closed(t)
  <2>1. PICK next \in {"setalias", "auto", "launch", "done"} : GoTo(t, next)
    BY <1>7 DEF Closed
  <2>2. call[t].pc = "closefunc" /\ files' = files /\ tasks' = tasks /\ taskfs' = taskfs
    BY <1>7 DEF Closed, At
  <2>3. call'[t].pc = next
    BY <1>0, <2>1 DEF GoTo, TaskInv, TypeOK, CallRecords
  <2>4. Kept(t) /\ Filled
    BY <2>1, <2>2, FilesKept DEF GoTo
  <2> QED BY <2>1, <2>2, <2>3, <2>4 DEF NamesStay, BysStay, SetterPlaces
<1>8. CASE AutoDriver(t)
  <2>1. PICK next \in {"launch", "done"} : GoTo(t, next)
    BY <1>8 DEF AutoDriver
  <2>2. call[t].pc = "auto" /\ files' = files /\ tasks' = tasks /\ taskfs'.aliases = taskfs.aliases
    BY <1>8 DEF AutoDriver, At, TaskInv, TypeOK, TaskFSes
  <2>3. call'[t].pc = next
    BY <1>0, <2>1 DEF GoTo, TaskInv, TypeOK, CallRecords
  <2>4. Kept(t) /\ Filled
    BY <2>1, <2>2, FilesKept DEF GoTo
  <2> QED BY <2>1, <2>2, <2>3, <2>4 DEF NamesStay, BysStay, SetterPlaces
<1>9. CASE Launch(t)
  <2>1. call[t].pc = "launch" /\ files' = files /\ taskfs'.aliases = taskfs.aliases /\ GoTo(t, "done")
    BY <1>9 DEF Launch, At, TaskInv, TypeOK, TaskFSes
  <2>2. call'[t].pc = "done"
    BY <1>0, <2>1 DEF GoTo, TaskInv, TypeOK, CallRecords
  <2>3. Kept(t) /\ Filled
    BY <2>1, FilesKept DEF GoTo
  <2>4. PICK started \in BOOLEAN : tasks' = [tasks EXCEPT ![File(t).of].running = started]
    BY <1>9 DEF Launch
  <2>5. File(t).of \in DOMAIN tasks
    BY <2>1, FileTypes DEF TaskInv, InPlace, GoodCall, Starts, File
  <2>6. NamesStay
    BY <2>4, <2>5, TaskTypes DEF NamesStay, BysStay, TaskInv, TypeOK, TaskRecords
  <2> QED BY <2>1, <2>2, <2>3, <2>6 DEF SetterPlaces
<1>10. CASE CloseFDReturns(t)
  <2>1. call[t].pc = "done" /\ files' = files /\ taskfs' = taskfs /\ Return(t)
    BY <1>10 DEF CloseFDReturns, At
  <2>2. call'[t].pc = "idle" /\ Kept(t) /\ Filled
    BY <2>1, NoCallTypes, FilesKept DEF Return, TaskInv, TypeOK
  <2>3. call[t].own \in DOMAIN tasks
    BY <2>1 DEF TaskInv, InPlace
  <2>4. NamesStay
    BY <1>10, <2>3, TaskTypes DEF CloseFDReturns, SetOwner, Owner, NamesStay, BysStay, TaskInv, TypeOK, TaskRecords
  <2> QED BY <2>1, <2>2, <2>4 DEF SetterPlaces
<1> QED BY <1>1, <1>2, <1>3, <1>4, <1>5, <1>6, <1>7, <1>8, <1>9, <1>10 DEF Call

\* An allocated task has no names yet
LEMMA AllocNames ==
  ASSUME TaskInv, NEW t \in Threads, AllocInsert(t)
  PROVE  /\ Kept(t) /\ NamesStay /\ taskfs'.aliases = taskfs.aliases
         /\ call[t].pc = "insert" /\ call'[t].pc = "opened"
         /\ DOMAIN tasks' = 1 .. Len(tasks) + 1 /\ DOMAIN tasks = 1 .. Len(tasks) /\ Len(tasks) \in Nat
         /\ tasks'[Len(tasks) + 1].by = call[t].file
         /\ \A p \in DOMAIN tasks : tasks'[p] = tasks[p]
<1>1. call[t].pc = "insert" /\ call[t] \in CallRecords /\ File(t) \in Files
  BY FileTypes DEF AllocInsert, At, TaskInv
<1>2. call[t].file \in DOMAIN files /\ File(t) = files[call[t].file]
  BY <1>1 DEF TaskInv, InPlace, File
<1>3. PICK p : tasks' = Append(tasks, p) /\ p.alias = <<>> /\ p.by = call[t].file
  <2> DEFINE p == NewTask(taskfs.nextID, File(t).of, call[t].own, call[t].file)
  <2>1. tasks' = Append(tasks, p)
    BY DEF AllocInsert
  <2>2. p.alias = <<>> /\ p.by = call[t].file
    BY DEF NewTask
  <2> QED BY <2>1, <2>2
<1>4. PICK m \in Nat : m = Len(tasks)
  BY LenProperties DEF TaskInv, TypeOK
<1>5. /\ DOMAIN tasks = 1 .. m /\ DOMAIN tasks' = 1 .. m + 1
      /\ \A q \in 1 .. m : tasks'[q] = tasks[q]
      /\ tasks'[m + 1] = p
  <2>1. tasks \in Seq(TaskRecords \cup {p}) /\ p \in TaskRecords \cup {p}
    BY SeqMonotonic DEF TaskInv, TypeOK
  <2> QED BY <1>3, <1>4, <2>1, AppendProperties
<1>6. NamesStay
  BY <1>3, <1>5 DEF NamesStay, BysStay
<1>7. Kept(t)
  <2>1. PICK id : files' = [files EXCEPT ![call[t].file] = [files[call[t].file] EXCEPT !.data = id]]
    BY <1>2 DEF AllocInsert, Update
  <2>2. PICK g : /\ files' = [files EXCEPT ![call[t].file] = g]
                 /\ g.what = File(t).what /\ g.of = File(t).of
    <3> DEFINE g == [files[call[t].file] EXCEPT !.data = id]
    <3>1. g.what = File(t).what /\ g.of = File(t).of
      BY <1>1, <1>2 DEF Files
    <3> HIDE DEF g
    <3> QED BY <2>1, <3>1 DEF g
  <2>3. \A u \in Threads \ {t} : call'[u] = call[u]
    BY DEF AllocInsert, GoTo, TaskInv, TypeOK
  <2> QED BY <1>2, <2>2, <2>3 DEF Kept, TaskInv, TypeOK
<1>8. taskfs'.aliases = taskfs.aliases /\ call'[t].pc = "opened"
  BY <1>1 DEF AllocInsert, GoTo, TaskInv, TypeOK, TaskFSes, CallRecords
<1> QED BY <1>1, <1>3, <1>4, <1>5, <1>6, <1>7, <1>8

LEMMA AliasStep == TaskInv /\ AliasInv /\ [Next]_vars => AliasInv'
<1> SUFFICES ASSUME TaskInv, AliasInv, [Next]_vars PROVE AliasInv'
  OBVIOUS
<1>1. ASSUME NEW t \in Threads, Call(t)  PROVE AliasInv'
  BY <1>1, OtherStepsName, AliasFrame
<1>2. ASSUME NEW t \in Threads, Proceed(t)  PROVE AliasInv'
  <2>1. CASE AllocInsert(t)
    BY <2>1, AllocNames, AliasFrame DEF SetterPlaces
  <2>2. CASE AliasLoad(t)
    BY <2>2, AliasLoads
  <2>3. CASE AliasStore(t)
    BY <2>3, AliasStores
  <2>4. CASE AliasTable(t)
    BY <2>4, AliasEnters
  <2>5. CASE \/ FileStep(t) \/ FieldRead(t) \/ AllocKind(t) \/ AllocLoad(t) \/ AllocCount(t) \/ AllocNumber(t)
             \/ Closed(t) \/ AutoDriver(t) \/ Launch(t) \/ CloseFDReturns(t)
    BY <2>5, OtherStepsName, AliasFrame
  <2> QED BY <1>2, <2>1, <2>2, <2>3, <2>4, <2>5 DEF Proceed, Alloc, SetAlias
<1>3. CASE UNCHANGED vars
  BY <1>3 DEF vars, AliasInv, Own, File
<1> QED BY <1>1, <1>2, <1>3 DEF Next

LEMMA AliasInit == Init => AliasInv
<1> SUFFICES ASSUME Init PROVE AliasInv
  OBVIOUS
<1>1. \A t \in Threads : call[t].pc = "idle"
  BY NoCallTypes DEF Init
<1>2. DOMAIN tasks = {1} /\ tasks[1].alias = <<>>
  BY DEF Init, NewTask
<1> QED BY <1>1, <1>2 DEF AliasInv, Own

\* Whatever threads set the alias of a task at the same time, and however their
\* steps interleave around the lock the setter takes for its last step only,
\* once they are done the alias the task has is in the table, if no other task
\* has had it.
THEOREM AliasIsFound == Spec => []AliasFound
<1>1. TaskInv /\ AliasInv => AliasFound
  BY DEF AliasInv, Own, AliasFound
<1> QED BY <1>1, TaskInit, TaskStep, AliasInit, AliasStep, PTL DEF Spec

-----------------------------------------------------------------------------
(* IdNamesTask.                                                            *)

\* As long as no two Allocs have overlapped: one thread at a time is in Alloc,
\* the number it enters its task under is new, and what is in a file of
\* #task/new is the number of the task allocated for it.
Numbers ==
  /\ \A t, u \in Threads : call[t].pc \in AllocSteps /\ call[u].pc \in AllocSteps => t = u
  /\ \A rid \in DOMAIN taskfs.resources : rid <= taskfs.nextID
  /\ \A t \in Threads :
       /\ call[t].pc = "count" => call[t].loaded = taskfs.nextID
       /\ call[t].pc = "insert" => call[t].rid = taskfs.nextID
       /\ call[t].pc \in {"number", "insert"} => taskfs.nextID \notin DOMAIN taskfs.resources
  /\ \A f \in DOMAIN files : files[f].what = "new" /\ files[f].data # <<>> =>
       \E id \in DOMAIN taskfs.resources : files[f].data = <<id>> /\ tasks[taskfs.resources[id]].by = f

IdInv == ~overlapped => Numbers

\* Steps that are not Alloc's
LEMMA QuietSteps ==
  ASSUME TaskInv, NEW t \in Threads,
         \/ Call(t)
         \/ FileStep(t) \/ FieldRead(t) \/ Closed(t) \/ SetAlias(t) \/ AutoDriver(t) \/ Launch(t) \/ CloseFDReturns(t)
  PROVE  /\ Kept(t) /\ Filled /\ BysStay /\ call'[t].pc \notin AllocSteps /\ overlapped' = overlapped
         /\ taskfs'.nextID = taskfs.nextID /\ taskfs'.resources = taskfs.resources
<1>0. call[t] \in CallRecords
  BY DEF TaskInv, TypeOK
<1>1. CASE Call(t)
  <2>1. call'[t].pc \in {"idle", "read", "write", "close"}
    <3>1. \A pc, own, file, token : CallOf(pc, own, file, token).pc = pc
      BY DEF CallOf
    <3>2. CASE OpenPath(t)
      BY <3>2, OpenKeeps DEF OpenPath, At
    <3>3. CASE BeginIO(t)
      BY <3>1, <3>3 DEF BeginIO, FD, TaskInv, TypeOK
    <3>4. CASE CloseFD(t)
      BY <3>1, <3>4 DEF CloseFD, TaskInv, TypeOK
    <3> QED BY <1>1, <3>2, <3>3, <3>4 DEF Call
  <2>2. taskfs' = taskfs /\ overlapped' = overlapped
    BY <1>1, OpenKeeps DEF Call, BeginIO, FD, CloseFD
  <2> QED BY <1>1, <2>1, <2>2, OtherStepsName DEF AllocSteps, NamesStay
<1>2. CASE FileStep(t)
  BY <1>2, OtherStepsName, FileStepKeeps DEF FileStep, NamesStay
<1>3. CASE FieldRead(t)
  <2>1. call'[t].pc = "opened"
    BY <1>0, <1>3 DEF FieldRead, GoTo, TaskInv, TypeOK, CallRecords
  <2> QED BY <1>3, <2>1, OtherStepsName DEF FieldRead, NamesStay, AllocSteps
<1>4. CASE Closed(t) \/ AutoDriver(t) \/ Launch(t) \/ CloseFDReturns(t)
  <2>1. call'[t].pc \in {"setalias", "auto", "launch", "done", "idle"}
    BY <1>0, <1>4, NoCallTypes
       DEF Closed, AutoDriver, Launch, CloseFDReturns, GoTo, Return, TaskInv, TypeOK, CallRecords
  <2>2. overlapped' = overlapped /\ taskfs'.nextID = taskfs.nextID /\ taskfs'.resources = taskfs.resources
    BY <1>4 DEF Closed, AutoDriver, Launch, CloseFDReturns, TaskInv, TypeOK, TaskFSes
  <2> QED BY <1>4, <2>1, <2>2, OtherStepsName DEF NamesStay, AllocSteps
<1>5. CASE SetAlias(t)
  <2>1. call'[t].pc \in {"storealias", "table", "done"}
    BY <1>0, <1>5 DEF SetAlias, AliasLoad, AliasStore, AliasTable, GoTo, TaskInv, TypeOK, CallRecords
  <2>2. overlapped' = overlapped /\ taskfs'.nextID = taskfs.nextID /\ taskfs'.resources = taskfs.resources
    BY <1>5 DEF SetAlias, AliasLoad, AliasStore, AliasTable, TaskInv, TypeOK, TaskFSes
  <2>3. PICK c : call' = [call EXCEPT ![t] = c] /\ files' = files
    BY <1>5 DEF SetAlias, AliasLoad, AliasStore, AliasTable, GoTo
  <2>4. BysStay
    <3>1. CASE AliasStore(t)
      <4>1. PICK r \in DOMAIN tasks : r = File(t).of
        BY <3>1, SetterFiles DEF AliasStore, At, Setters
      <4>2. tasks' = [tasks EXCEPT ![r].alias = File(t).data, ![r].names = @ \cup {File(t).data}]
        BY <3>1, <4>1 DEF AliasStore
      <4> QED BY <4>2, TaskTypes DEF BysStay, TaskRecords, TaskInv, TypeOK
    <3>2. CASE AliasLoad(t) \/ AliasTable(t)
      BY <3>2 DEF AliasLoad, AliasTable, BysStay
    <3> QED BY <1>5, <3>1, <3>2 DEF SetAlias
  <2> QED BY <2>1, <2>2, <2>3, <2>4, FilesKept DEF AllocSteps
<1> QED BY <1>1, <1>2, <1>3, <1>4, <1>5

\* What is in the files goes on to name their tasks as the table stays
LEMMA NumbersStay ==
  ASSUME TaskInv, NEW t \in Threads, Kept(t), Filled, BysStay, taskfs'.resources = taskfs.resources,
         \A f \in DOMAIN files : files[f].what = "new" /\ files[f].data # <<>> =>
           \E id \in DOMAIN taskfs.resources : files[f].data = <<id>> /\ tasks[taskfs.resources[id]].by = f
  PROVE  \A f \in DOMAIN files' : files'[f].what = "new" /\ files'[f].data # <<>> =>
           \E id \in DOMAIN taskfs'.resources : files'[f].data = <<id>> /\ tasks'[taskfs'.resources[id]].by = f
<1>1. \A id \in DOMAIN taskfs.resources : taskfs.resources[id] \in DOMAIN tasks
  BY DEF TaskInv, InPlace
<1>2. ASSUME NEW f \in DOMAIN files', files'[f].what = "new", files'[f].data # <<>>
      PROVE  \E id \in DOMAIN taskfs.resources : files'[f].data = <<id>> /\ tasks'[taskfs.resources[id]].by = f
  <2>1. f \in DOMAIN files /\ files[f].what = "new" /\ files'[f].data = files[f].data
    BY <1>2 DEF Kept, Filled
  <2>2. PICK id \in DOMAIN taskfs.resources : files[f].data = <<id>> /\ tasks[taskfs.resources[id]].by = f
    BY <1>2, <2>1
  <2> QED BY <1>1, <2>1, <2>2 DEF BysStay
<1> QED BY <1>2

LEMMA IdQuiet ==
  ASSUME TaskInv, IdInv, NEW t \in Threads, Kept(t), Filled, BysStay, call'[t].pc \notin AllocSteps,
         overlapped' = overlapped, taskfs'.nextID = taskfs.nextID, taskfs'.resources = taskfs.resources
  PROVE  IdInv'
<1> SUFFICES ASSUME ~overlapped PROVE Numbers'
  BY DEF IdInv
<1>1. Numbers
  BY DEF IdInv
<1>2. \A u \in Threads : call'[u].pc \in AllocSteps => call'[u] = call[u]
  BY DEF Kept
<1>3. \A f \in DOMAIN files' : files'[f].what = "new" /\ files'[f].data # <<>> =>
        \E id \in DOMAIN taskfs'.resources : files'[f].data = <<id>> /\ tasks'[taskfs'.resources[id]].by = f
  BY <1>1, NumbersStay DEF Numbers
<1>4. {"count", "number", "insert"} \subseteq AllocSteps
  BY DEF AllocSteps
<1> QED BY <1>1, <1>2, <1>3, <1>4 DEF Numbers

LEMMA IdAllocates ==
  ASSUME TaskInv, IdInv, NEW t \in Threads, AllocKind(t) \/ AllocLoad(t) \/ AllocCount(t) \/ AllocNumber(t)
  PROVE  IdInv'
<1>0. /\ Kept(t) /\ Filled /\ BysStay /\ taskfs'.resources = taskfs.resources
      /\ call[t] \in CallRecords
  BY OtherStepsName DEF NamesStay, AllocKind, AllocLoad, AllocCount, AllocNumber, TaskInv, TypeOK, TaskFSes
<1>1. taskfs.nextID \in Nat /\ DOMAIN taskfs.resources \subseteq Nat
  BY DEF TaskInv, TypeOK, TaskFSes, Tables
<1>2. CASE AllocKind(t) /\ call'[t].pc # "load"
  <2>1. call'[t].pc \in {"opened", "idle"} /\ overlapped' = overlapped /\ taskfs' = taskfs
    BY <1>2, ReadFuncKeeps DEF AllocKind, GoTo, TaskInv, TypeOK, CallRecords
  <2> QED BY <1>0, <2>1, IdQuiet DEF AllocSteps
<1>3. ASSUME ~overlapped'
      PROVE  /\ ~overlapped /\ Numbers
             /\ \A f \in DOMAIN files' : files'[f].what = "new" /\ files'[f].data # <<>> =>
                  \E id \in DOMAIN taskfs'.resources : files'[f].data = <<id>> /\ tasks'[taskfs'.resources[id]].by = f
  <2>1. ~overlapped
    BY <1>3 DEF AllocKind, AllocLoad, AllocCount, AllocNumber
  <2>2. Numbers
    BY <2>1 DEF IdInv
  <2> QED BY <1>0, <2>1, <2>2, NumbersStay DEF Numbers
<1>4. CASE AllocKind(t) /\ call'[t].pc = "load"
  <2>1. taskfs' = taskfs /\ overlapped' = (overlapped \/ \E u \in Threads : call[u].pc \in AllocSteps)
    BY <1>4, ReadFuncKeeps DEF AllocKind
  <2> SUFFICES ASSUME ~overlapped' PROVE Numbers'
    BY DEF IdInv
  <2>2. \A u \in Threads \ {t} : call'[u].pc \notin AllocSteps
    BY <1>0, <2>1 DEF Kept
  <2>3. {"count", "number", "insert"} \subseteq AllocSteps
    BY DEF AllocSteps
  <2> QED BY <1>3, <1>4, <2>1, <2>2, <2>3 DEF Numbers
<1>5. ASSUME call[t].pc \in AllocSteps, ~overlapped'
      PROVE  \A u \in Threads \ {t} : call'[u].pc \notin AllocSteps
  BY <1>0, <1>3, <1>5 DEF Numbers, Kept
<1>6. {"load", "count", "number", "insert"} \subseteq AllocSteps
  BY DEF AllocSteps
<1>7. CASE AllocLoad(t)
  <2> SUFFICES ASSUME ~overlapped' PROVE Numbers'
    BY DEF IdInv
  <2>1. /\ call[t].pc = "load" /\ call'[t].pc = "count" /\ call'[t].loaded = taskfs.nextID /\ taskfs' = taskfs
    BY <1>0, <1>7 DEF AllocLoad, At, TaskInv, TypeOK, CallRecords
  <2> QED BY <1>3, <1>5, <1>6, <2>1 DEF Numbers
<1>8. CASE AllocCount(t)
  <2> SUFFICES ASSUME ~overlapped' PROVE Numbers'
    BY DEF IdInv
  <2>1. call[t].pc = "count" /\ call'[t].pc = "number" /\ taskfs'.nextID = call[t].loaded + 1
    BY <1>0, <1>8 DEF AllocCount, GoTo, At, TaskInv, TypeOK, TaskFSes, CallRecords
  <2>2. taskfs'.nextID = taskfs.nextID + 1
    BY <1>3, <2>1 DEF Numbers
  <2>3. /\ \A rid \in DOMAIN taskfs.resources : rid <= taskfs.nextID + 1
        /\ taskfs.nextID + 1 \notin DOMAIN taskfs.resources
    BY <1>1, <1>3 DEF Numbers
  <2> QED BY <1>0, <1>3, <1>5, <1>6, <2>1, <2>2, <2>3 DEF Numbers
<1>9. CASE AllocNumber(t)
  <2> SUFFICES ASSUME ~overlapped' PROVE Numbers'
    BY DEF IdInv
  <2>1. /\ call[t].pc = "number" /\ call'[t].pc = "insert" /\ call'[t].rid = taskfs.nextID /\ taskfs' = taskfs
    BY <1>0, <1>9 DEF AllocNumber, At, TaskInv, TypeOK, CallRecords
  <2> QED BY <1>3, <1>5, <1>6, <2>1 DEF Numbers
<1> QED BY <1>2, <1>4, <1>7, <1>8, <1>9

LEMMA IdInserts ==
  ASSUME TaskInv, IdInv, NEW t \in Threads, AllocInsert(t)
  PROVE  IdInv'
<1> SUFFICES ASSUME ~overlapped PROVE Numbers'
  BY DEF IdInv, AllocInsert
<1>0. /\ Kept(t) /\ BysStay /\ call[t].pc = "insert" /\ call'[t].pc = "opened" /\ Numbers
      /\ call[t] \in CallRecords
  BY AllocNames DEF NamesStay, IdInv, TaskInv, TypeOK
<1>1. PICK n \in Nat, m \in Nat : /\ n = taskfs.nextID /\ m = Len(tasks)
                                  /\ DOMAIN tasks = 1 .. m /\ DOMAIN tasks' = 1 .. m + 1
                                  /\ tasks'[m + 1].by = call[t].file
  BY AllocNames DEF TaskInv, TypeOK, TaskFSes
<1>2. taskfs'.nextID = n /\ taskfs'.resources = Put(taskfs.resources, n, m + 1) /\ n \notin DOMAIN taskfs.resources
  BY <1>0, <1>1 DEF AllocInsert, Numbers, TaskInv, TypeOK, TaskFSes
<1>3. /\ DOMAIN taskfs'.resources = DOMAIN taskfs.resources \cup {n} /\ taskfs'.resources[n] = m + 1
      /\ \A id \in DOMAIN taskfs.resources : taskfs'.resources[id] = taskfs.resources[id]
  BY <1>2 DEF Put
<1>4. call[t].file \in DOMAIN files /\ File(t) = files[call[t].file] /\ File(t) \in Files
  BY <1>0, FileTypes DEF TaskInv, InPlace, File
<1>5. /\ DOMAIN files' = DOMAIN files /\ files'[call[t].file].data = <<n>>
      /\ \A f \in DOMAIN files \ {call[t].file} : files'[f] = files[f]
  <2>1. NewTask(taskfs.nextID, File(t).of, call[t].own, call[t].file).id = n
    BY <1>1 DEF NewTask
  <2>2. files' = [files EXCEPT ![call[t].file] = [File(t) EXCEPT !.data = <<n>>]]
    BY <2>1 DEF AllocInsert, Update
  <2>3. [File(t) EXCEPT !.data = <<n>>].data = <<n>>
    BY <1>4 DEF Files
  <2> QED BY <1>4, <2>2, <2>3 DEF TaskInv, TypeOK
<1>6. ASSUME NEW f \in DOMAIN files, files'[f].what = "new", files'[f].data # <<>>
      PROVE  \E id \in DOMAIN taskfs'.resources : files'[f].data = <<id>> /\ tasks'[taskfs'.resources[id]].by = f
  <2>1. CASE f = call[t].file
    BY <1>1, <1>3, <1>5, <2>1
  <2>2. CASE f # call[t].file
    <3>1. PICK id \in DOMAIN taskfs.resources : files[f].data = <<id>> /\ tasks[taskfs.resources[id]].by = f
      BY <1>0, <1>5, <1>6, <2>2 DEF Numbers
    <3>2. taskfs.resources[id] \in DOMAIN tasks
      BY DEF TaskInv, InPlace
    <3> QED BY <1>0, <1>3, <1>5, <2>2, <3>1, <3>2 DEF BysStay
  <2> QED BY <2>1, <2>2
<1>7. \A u \in Threads : call'[u].pc \notin AllocSteps
  <2>1. \A u \in Threads \ {t} : call[u].pc \notin AllocSteps /\ call'[u] = call[u]
    BY <1>0 DEF Numbers, Kept, AllocSteps
  <2> QED BY <1>0, <2>1 DEF AllocSteps
<1>8. \A id \in DOMAIN taskfs'.resources : id <= n
  BY <1>0, <1>1, <1>3 DEF Numbers
<1>9. {"count", "number", "insert"} \subseteq AllocSteps
  BY DEF AllocSteps
<1> QED BY <1>2, <1>5, <1>6, <1>7, <1>8, <1>9 DEF Numbers

LEMMA IdStep == TaskInv /\ IdInv /\ [Next]_vars => IdInv'
<1> SUFFICES ASSUME TaskInv, IdInv, [Next]_vars PROVE IdInv'
  OBVIOUS
<1>1. ASSUME NEW t \in Threads, Call(t)  PROVE IdInv'
  BY <1>1, QuietSteps, IdQuiet
<1>2. ASSUME NEW t \in Threads, Proceed(t)  PROVE IdInv'
  <2>1. CASE \/ FileStep(t) \/ FieldRead(t) \/ Closed(t) \/ SetAlias(t) \/ AutoDriver(t) \/ Launch(t)
             \/ CloseFDReturns(t)
    BY <2>1, QuietSteps, IdQuiet
  <2>2. CASE AllocKind(t) \/ AllocLoad(t) \/ AllocCount(t) \/ AllocNumber(t)
    BY <2>2, IdAllocates
  <2>3. CASE AllocInsert(t)
    BY <2>3, IdInserts
  <2> QED BY <1>2, <2>1, <2>2, <2>3 DEF Proceed, Alloc
<1>3. CASE UNCHANGED vars
  BY <1>3 DEF vars, IdInv, Numbers
<1> QED BY <1>1, <1>2, <1>3 DEF Next

LEMMA IdInit == Init => IdInv
<1> SUFFICES ASSUME Init PROVE Numbers
  BY DEF IdInv
<1>1. /\ DOMAIN files = {} /\ DOMAIN taskfs.resources = {1} /\ taskfs.nextID = 1
      /\ \A t \in Threads : call[t].pc = "idle"
  BY NoCallTypes DEF Init
<1>2. "idle" \notin AllocSteps
  BY DEF AllocSteps
<1> QED BY <1>1, <1>2 DEF Numbers

\* Alloc numbers tasks without a lock, in a load, a store and two more loads of
\* nextID; but as long as no two of its calls have overlapped, the id read from
\* a file of #task/new names the task allocated for that file, from then on.
THEOREM IdsNameTasks == Spec => []IdNamesTask
<1>1. TaskInv /\ IdInv => IdNamesTask
  <2> SUFFICES ASSUME TaskInv, Numbers, NEW f \in DOMAIN files, files[f].what = "new", NEW data \in files[f].got
               PROVE  \E id \in DOMAIN taskfs.resources : data = <<id>> /\ tasks[taskfs.resources[id]].by = f
    BY DEF IdInv, IdNamesTask
  <2>1. data = files[f].data /\ data # <<>>
    BY DEF TaskInv, InPlace, GoodFile
  <2> QED BY <2>1 DEF Numbers
<1> QED BY <1>1, TaskInit, TaskStep, IdInit, IdStep, PTL DEF Spec
=============================================================================
