------------------------------ MODULE MCBrowser ------------------------------
(* The three stores of the browser, one of them in a behaviour.            *)
EXTENDS Fsa, CacheFS

CONSTANTS
    t1, t2,
    Inline, MaxLen, Stored

VARIABLES
    store, blobs, mcache, dcache, obj, bytes, files, evicted, spoiled, moved,
    which   \* the store, and whether a task runs alone

I == INSTANCE Idbfs
idb == <<store, blobs, mcache, dcache, obj, bytes, files, evicted, spoiled, moved>>
vars == <<asyncvars, idb, cachevars, fsavars, which>>

D == <<"d">>
DF == <<"d", "f">>
DG == <<"d", "g">>
E == <<"e">>
EF == <<"e", "f">>
L == <<"l">>
StoredEntry(type, cells, to) == [type |-> type, cells |-> cells, to |-> to]
MCStored ==
    [n \in {D, DF, DG, L} |->
        CASE n = D -> StoredEntry("dir", <<>>, D) [] n = DF -> StoredEntry("file", <<1>>, D)
          [] n = DG -> StoredEntry("file", <<2, 2>>, D) [] n = L -> StoredEntry("symlink", <<>>, DF)]
Tree(kind, cells) == [kind |-> kind, cells |-> cells, to |-> <<>>]
MCTree ==
    [n \in {D, DF, DG, E} |->
        CASE n = D \/ n = E -> Tree("dir", <<>>) [] n = DF -> Tree("file", <<1>>) [] n = DG -> Tree("file", <<2, 2>>)]
K(host, file) == <<"c", host, file>>
OldHttp == [scheme |-> "http", path |-> <<"net", "f">>]
MCCaches == [c \in {"c"} |-> [u \in {OldHttp} |-> <<1>>]]

(***************************************************************************)
(* Calls.                                                                  *)
(***************************************************************************)
Op(op, n) == Frame(op, n, n)
Mine(op) == Frame(op, <<"file">>, <<>>)
Writing(op, cells) == [Mine(op) EXCEPT !.cells = cells]
Sized(f, size) == [f EXCEPT !.size = size]
Flagged(f, flags) == [f EXCEPT !.flags = flags]
Rename(n, m) == Frame("rename", n, m)
RW == {"read", "write"}
Openfile(n, flags) == Flagged(Op("openfile", n), RW \cup flags)
Plan(x, y) == [p \in Tasks |-> IF p = t1 THEN x ELSE y]

IdbPlans == {
    Plan(<<{Op("open", DF), Op("open", DG), Openfile(DF, {"trunc"}), Openfile(DG, {"trunc"}), Openfile(EF, {"create"}), Openfile(DF, {"create", "excl"}), Openfile(L, {"append"})},
           {Writing("fwrite", <<3>>), Writing("fwrite", <<3, 3>>), Mine("fread"), Sized(Mine("fseek"), 1)},
           {Writing("fwrite", <<4>>), Mine("fclose"), Rename(DG, EF), Sized(Op("truncate", DF), 2)},
           {Mine("fclose")}>>, <<>>),
    Plan(<<{Op("open", DF), Op("open", DG)}, {Writing("fwrite", <<3, 3>>)}, {Mine("fclose")}>>,
         <<{Sized(Op("chmod", DF), 2), Sized(Op("chmod", DG), 2), Sized(Op("truncate", DF), 2), Sized(Op("truncate", DG), 1),
            Op("remove", DF), Op("create", DG), Rename(DG, E), Rename(DF, DG)}>>),
    Plan(<<{Rename(D, E), Rename(DF, E), Rename(DG, DF), Rename(DG, EF)}>>,
         <<{Op("mkdir", E), Op("symlink", E), Op("remove", DG), Op("create", DG), Sized(Op("chmod", DG), 2), Op("stat", DF), Op("readlink", L), Op("readdir", D)}>>)}

Copenfile(n, flags) == Flagged(Op("copenfile", n), flags)
CachePlans == {
    Plan(<<{Copenfile(K("net", "f"), {}), Copenfile(K("net", "g"), {"append"}), Copenfile(K("local", "f"), {"trunc"}), Copenfile(K("net", "f"), {"excl"})},
           {Writing("cwrite", <<2>>), Sized(Mine("cseek"), 1)}, {Writing("cwrite", <<3>>), Mine("cread")}, {Mine("cclose")}>>,
         <<{Op("cremove", K("net", "f")), Op("cremove", <<"c">>), Copenfile(K("net", "f"), {"trunc"}), Copenfile(K("net", "g"), {}),
            Op("copen", K("net", "f")), Op("cstat", <<"c", "net">>), Op("creaddir", K("net", "g"))},
           {Copenfile(K("net", "f"), {"trunc"}), Copenfile(K("net", "g"), {})}>>)}

FsaCalls ==
    {Op("fstat", DF), Op("fchmod", DF), Op("fchtimes", DG), Frame("fsymlink", L, DF), Op("fmkdir", L), Op("fremove", DF), Op("fremove", E),
     Sized(Op("ftruncate", DF), 2), Rename(D, E), Rename(DF, EF)}
OnFile_ == {Writing("fwrite", <<3>>), Mine("fread"), Sized(Mine("fseek"), 1), Mine("fclose")}
FsaSolo == {
    Plan(<<{Op("fstat", DF), Op("fstat", EF), Op("fstat", L), Op("fstat", DG)}, FsaCalls, {Op("fopen", DF), Op("fopen", EF), Op("fstat", DF), Op("fcreate", DF), Op("fopen", L)}, OnFile_, OnFile_>>, <<>>)}
FsaPlans == {
    Plan(<<FsaCalls>>, <<{Op("fstat", DF), Op("fchmod", DF), Op("fremove", DF), Sized(Op("ftruncate", DF), 2), Rename(DF, EF)}>>),
    Plan(<<{Frame("fsymlink", L, DF)}, {Op("fstat", L)}, {Op("fopen", L), Op("fchmod", L), Rename(L, EF)}>>, <<>>)}

(***************************************************************************)
Held == CASE which = "idb" -> IF I!AllSaved THEN I!Held ELSE <<>>
          [] which = "caches" -> <<>>
          [] OTHER -> InFiles
Init ==
    /\ AsyncInit /\ I!IdbInit /\ CacheInit /\ FsaInit
    /\ \/ which = "idb" /\ plan \in IdbPlans
       \/ which = "caches" /\ plan \in CachePlans
       \/ which = "fsa" /\ plan \in FsaPlans
       \/ which = "fsa alone" /\ plan \in FsaSolo

Idb == /\ which = "idb"
       /\ (\E p \in Tasks : I!IdbStep(p)) \/ I!Evict \/ I!Reload
       /\ UNCHANGED <<cachevars, fsavars, which>>
Caches == /\ which = "caches"
          /\ (\E p \in Tasks : CacheStep(p)) \/ CacheReload
          /\ UNCHANGED <<idb, fsavars, which>>
Fsa == /\ which \in {"fsa", "fsa alone"}
       /\ (\E p \in Tasks : FsaStep(p)) \/ FsaElse \/ FsaReload
       /\ UNCHANGED <<idb, cachevars, which>>
Calling ==
    /\ ~panicked
    /\ \E p \in Tasks : Begins(p, Held)
    /\ UNCHANGED <<idb, cachevars, fsavars, which>>
Next == Idb \/ Caches \/ Fsa \/ Calling
Spec == Init /\ [][Next]_vars

(* A rename that runs alone leaves what each file held under its old or    *)
(* its new name, also one that fails or that a reload of the page cuts     *)
(* off.  (idbfs.js, rename; fsa/fs.go, Rename.)                            *)
RenameKeeps == (which = "idb" => I!RenameKeeps) /\ (which \in {"fsa", "fsa alone"} => MovesKeep)

(* What the caches in memory have for a name is what the browser has.      *)
(* (idbfs.js, metadataCache and dataCache; fsa/fs.go, statCache.)          *)
CachesAgree == (which = "idb" => I!CacheAgrees) /\ (which = "fsa alone" => StatTells)

(* A record that says that its data are in the data store finds them       *)
(* there.  (idbfs, DESIGN.txt:18.)                                         *)
ExternalIsThere == which = "idb" => I!ExternalIsThere
=============================================================================
