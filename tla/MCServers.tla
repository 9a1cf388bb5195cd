------------------------------ MODULE MCServers ------------------------------
(* Two file systems: a directory with a file, a file, and a link.          *)
EXTENDS P9Client

CONSTANTS p1, p2

D == <<"a", "d">>
DF == <<"a", "d", "f">>
DD == <<"a", "dd">>
E == <<"a", "e">>
EF == <<"a", "e", "f">>
BD == <<"b", "d">>
MCNames == {<<"a">>, D, DF, DD, E, EF, <<"b">>, BD, <<"b", "d", "f">>}
St(kind, cells, to) == [kind |-> kind, cells |-> cells, to |-> to]
MCStored ==
    [n \in MCNames |->
        CASE Len(n) = 1 \/ n = D -> St("dir", <<>>, n)
          [] n = DF -> St("file", <<1>>, n)
          [] n = DD -> St("file", <<2, 2>>, n)
          [] OTHER -> St("none", <<>>, n)]

One == {rename(D, BD), rename(DD, BD), rename(D, E), removeAll(D), mkdirAll(EF), writeFile(DF, <<3>>),
        appendFile(DF, <<3>>), openFile(DF, {"create", "append"}), readFile(DF), waitFor(E)}
Other == {open(DF), mkdir(BD), symlink(D, DD), symlink(DD, DD), chown(DF), truncate(DF, 0), remove(DF), rename(DD, DD)}
OnFD == {write(<<4>>), writeAt(<<5>>, 1), read, fstat, sync, close, ftruncate(0), fchown}
Calls9 == {rCreate(DF), rStat(DF), rMkdir(E), rRemove(DF), rRename(DF, EF), rTruncate(DF, 0), rReadDir(D), rSymlink(DF, E), rRemove(D), rChmod(DF), rChown(DF),
           rChtimes(DF), rReadlink(DF)}
moveAt == Frame("renameat", <<"d">>, <<"e">>, 0)
Plan(x, y) == [p \in Procs |-> IF p = p1 THEN x ELSE y]
MCPlans == {Plan(<<One>>, <<Other, OnFD>>), Plan(<<One>>, <<Other, Other \ {open(DF), chown(DF), symlink(DD, DD)}>>),
            Plan(<<{create(BD), openFile(DF, {"create", "append"})}, {fchmod, writeAt(<<4>>, 1)}, {close}, OnFD>>, <<>>),
            Plan(<<{copy(D, E), chtimes(DF), readlink(DD)}>>, <<{remove(DF), writeFile(DF, <<3>>)}>>),
            Plan(<<Calls9>>, <<Other>>),
            Plan(<<{rOpen(DF)}, {rRead, rWrite(<<6>>), rSeek(1)}, {rWrite(<<6>>), rClose}>>, <<{chmod(DF), remove(DF), rRename(D, E), lstat(DF), readDir(D)}>>),
            Plan(<<{walk(DF), walk(<<"a">>)}, {Request("lopen", 0, <<>>), [Request("setattr", 0, <<>>) EXCEPT !.flags = {"size", "mode", "owner", "times"}],
                   [Request("setattr", 0, <<>>) EXCEPT !.flags = {"size", "blocks"}], moveAt}>>,
                 <<{rRename(D, E), rename(D, E)}>>)}
=============================================================================
