------------------------------ MODULE FuncFile ------------------------------
(***************************************************************************)
(* fskit.FuncFile: the open file behind every control and field file of    *)
(* the devices (#task, #term, #vm, #signal ...).  The first Read calls     *)
(* ReadFunc, which fills the file's node, and opens a nodeFile, a private  *)
(* copy of the node's data; a Write opens one without calling ReadFunc;    *)
(* Close stores the copy in the node and calls CloseFunc.  Both functions  *)
(* run without f.mu held, and so do the reads and writes of the copy.      *)
(*                                                                         *)
(* Several threads share a file.  A thread's call is a record with the     *)
(* place (pc) it has reached; this module has the steps of Read, Write and *)
(* Close.  A module that extends it opens files, begins calls, and has the *)
(* steps of ReadFunc (from pc "readfunc" to "opened"), of CloseFunc (from  *)
(* "closefunc" to "done") and what the caller of Close does after "done".  *)
(*                                                                         *)
(* Data is a sequence of tokens; a Write writes one token.                 *)
(***************************************************************************)
EXTENDS Naturals, Sequences

VARIABLES
  files,   \* the FuncFiles opened so far
  call     \* for each thread, the call it is in

(***************************************************************************)
(* A FuncFile: what it is and of whom, its node's data, the flags of       *)
(* FuncFile and FieldFile, and the nodeFiles opened for it, openFile being *)
(* the number of the one in use (0: nil).  acked, got and failed are       *)
(* history: the tokens whose Write was acknowledged, the data Reads have   *)
(* returned, and whether ReadFunc returned an error.                       *)
(***************************************************************************)
NewFuncFile(what, of, data) ==
  [what |-> what, of |-> of, data |-> data, hasRead |-> FALSE, wasRead |-> FALSE, closed |-> FALSE,
   openFile |-> 0, nodeFiles |-> <<>>, acked |-> <<>>, got |-> {}, failed |-> FALSE]

NodeFile(data) == [data |-> data, offset |-> 0, dirty |-> FALSE, closed |-> FALSE]

\* f.openFile = node.openFile()
Opened(f) ==
  [f EXCEPT !.nodeFiles = Append(@, NodeFile(f.data)), !.openFile = Len(f.nodeFiles) + 1]

CallOf(pc, own, file, token) ==
  [pc |-> pc, own |-> own, file |-> file, nodeFile |-> 0,
   token |-> token, loaded |-> 0, rid |-> 0, oldalias |-> <<>>]

NoCall == CallOf("idle", 0, 0, 0)

At(t, pc) == call[t].pc = pc
File(t) == files[call[t].file]
GoTo(t, pc) == call' = [call EXCEPT ![t].pc = pc]
Return(t) == call' = [call EXCEPT ![t] = NoCall]
Use(t, pc, n) == call' = [call EXCEPT ![t] = [@ EXCEPT !.pc = pc, !.nodeFile = n]]
Update(t, f) == files' = [files EXCEPT ![call[t].file] = f]

-----------------------------------------------------------------------------
(* Read *)

ReadClosed(t) ==
  /\ At(t, "read") \/ At(t, "opened") \/ At(t, "await")
  /\ File(t).closed
  /\ Return(t)
  /\ UNCHANGED files

\* Mutant of ReadFirst: hasRead is set when the file has been opened, not before ReadFunc is called.
ReadFirstUnmarked(t) ==
  /\ At(t, "read") /\ ~File(t).closed /\ ~File(t).hasRead
  /\ GoTo(t, "readfunc")
  /\ Update(t, [File(t) EXCEPT !.hasRead = File(t).openFile > 0])

ReadFirst(t) ==
  /\ At(t, "read") /\ ~File(t).closed /\ ~File(t).hasRead
  /\ GoTo(t, "readfunc")
  /\ Update(t, [File(t) EXCEPT !.hasRead = TRUE])

ReadLater(t) ==
  /\ At(t, "read") /\ ~File(t).closed /\ File(t).hasRead
  /\ GoTo(t, "await")
  /\ UNCHANGED files

\* ReadFunc has returned: the file it filled is opened, whatever was open before
ReadOpens(t) ==
  /\ At(t, "opened") /\ ~File(t).closed
  /\ Update(t, Opened(File(t)))
  /\ Use(t, "get", Len(File(t).nodeFiles) + 1)

\* A later Read spins until there is an openFile
ReadAwaits(t) ==
  /\ At(t, "await") /\ ~File(t).closed /\ File(t).openFile > 0
  /\ Use(t, "get", File(t).openFile)
  /\ UNCHANGED files

\* nodeFile.Read
ReadNodeFile(t) ==
  LET f == File(t)
      n == call[t].nodeFile
      nf == f.nodeFiles[n]
  IN /\ At(t, "get")
     /\ Return(t)
     /\ Update(t, IF nf.closed \/ nf.offset >= Len(nf.data) THEN f
                  ELSE [f EXCEPT !.nodeFiles[n].offset = Len(nf.data),
                                 !.got = @ \cup {SubSeq(nf.data, nf.offset + 1, Len(nf.data))}])

Read(t) ==
  \/ ReadClosed(t) \/ ReadFirst(t) \/ ReadLater(t)
  \/ ReadOpens(t) \/ ReadAwaits(t) \/ ReadNodeFile(t)

-----------------------------------------------------------------------------
(* Write *)

WriteClosed(t) ==
  /\ At(t, "write") \/ At(t, "openwrite")
  /\ File(t).closed
  /\ Return(t)
  /\ UNCHANGED files

WriteEnters(t) ==
  /\ At(t, "write") /\ ~File(t).closed
  /\ IF File(t).openFile = 0 THEN GoTo(t, "openwrite") ELSE Use(t, "put", File(t).openFile)
  /\ UNCHANGED files

\* Mutant of WriteOpens: the second writer to get here replaces the first one's openFile.
WriteReopens(t) ==
  /\ At(t, "openwrite") /\ ~File(t).closed
  /\ Update(t, Opened(File(t)))
  /\ Use(t, "put", Len(File(t).nodeFiles) + 1)

\* Only the first of several writers sets openFile, the others use it
WriteOpens(t) ==
  LET f == File(t)
  IN /\ At(t, "openwrite") /\ ~f.closed
     /\ IF f.openFile = 0
        THEN Update(t, Opened(f)) /\ Use(t, "put", Len(f.nodeFiles) + 1)
        ELSE Use(t, "put", f.openFile) /\ UNCHANGED files

\* The token at the offset, what was before it and what was after it
Overwritten(data, offset, token) ==
  SubSeq(data, 1, offset) \o <<token>> \o SubSeq(data, offset + 2, Len(data))

Written(nf, token) ==
  [data |-> Overwritten(nf.data, nf.offset, token), offset |-> nf.offset + 1, dirty |-> TRUE, closed |-> nf.closed]

\* nodeFile.Write
WriteNodeFile(t) ==
  LET f == File(t)
      n == call[t].nodeFile
      nf == f.nodeFiles[n]
  IN /\ At(t, "put")
     /\ Return(t)
     /\ Update(t, IF nf.closed THEN f
                  ELSE [f EXCEPT !.nodeFiles[n] = Written(nf, call[t].token), !.acked = Append(@, call[t].token)])

Write(t) == WriteClosed(t) \/ WriteEnters(t) \/ WriteOpens(t) \/ WriteNodeFile(t)

-----------------------------------------------------------------------------
(* Close *)

CloseEnters(t) ==
  LET f == File(t)
  IN /\ At(t, "close")
     /\ Update(t, [f EXCEPT !.closed = TRUE])
     /\ IF f.closed \/ f.openFile = 0 THEN GoTo(t, "done") ELSE Use(t, "sync", f.openFile)

\* nodeFile.Close: what was written goes into the node
CloseNodeFile(t) ==
  LET f == File(t)
      n == call[t].nodeFile
      nf == f.nodeFiles[n]
  IN /\ At(t, "sync")
     /\ GoTo(t, "closefunc")
     /\ Update(t, [f EXCEPT !.data = IF nf.dirty THEN nf.data ELSE @,
                            !.nodeFiles[n].closed = TRUE])

Close(t) == CloseEnters(t) \/ CloseNodeFile(t)

FuncFileStep(t) == Read(t) \/ Write(t) \/ Close(t)

-----------------------------------------------------------------------------
(* What a FuncFile promises *)

(***************************************************************************)
(* Whatever threads share a file that nobody has read, its CloseFunc is    *)
(* given every write that was acknowledged: the node starts with them.     *)
(* (Once a Read has opened the file anew, writes to the old copy are lost: *)
(* a file is either read or written.)                                      *)
(***************************************************************************)
AckedWritesReachCloseFunc ==
  \A t \in DOMAIN call :
    At(t, "closefunc") /\ ~File(t).hasRead =>
      /\ Len(File(t).data) >= Len(File(t).acked)
      /\ SubSeq(File(t).data, 1, Len(File(t).acked)) = File(t).acked
=============================================================================
