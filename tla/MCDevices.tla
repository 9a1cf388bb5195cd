----------------------------- MODULE MCDevices -----------------------------
(***************************************************************************)
(* The devices of the page, each by itself: part says which one a          *)
(* behaviour is about, the others keep their initial state.                *)
(***************************************************************************)
EXTENDS Net, Shm, Bridge, Term, VM

CONSTANT Parts

VARIABLE part

vars == <<part, netVars, shmVars, bridgeVars, termVars, vmVars>>

MCChunks == {<<NL>>, <<CR>>, <<CR, NL>>, <<"x", NL>>, <<NL, NL>>}
MCTermBytes == {NL, CR, "x"}

Init == part \in Parts /\ NetInit /\ ShmInit /\ BridgeInit /\ TermInit /\ VMInit
        /\ (part # "shm" => writer = "go")

OfNet == part = "net" /\ NetNext /\ UNCHANGED <<part, shmVars, bridgeVars, termVars, vmVars>>
OfShm == part = "shm" /\ ShmNext /\ UNCHANGED <<part, netVars, bridgeVars, termVars, vmVars>>
OfBridge == part = "bridge" /\ BridgeNext /\ UNCHANGED <<part, netVars, shmVars, termVars, vmVars>>
OfTerm == part = "term" /\ TermNext /\ UNCHANGED <<part, netVars, shmVars, bridgeVars, vmVars>>
OfVM == part = "vm" /\ VMNext /\ UNCHANGED <<part, netVars, shmVars, bridgeVars, termVars>>

Next == OfNet \/ OfShm \/ OfBridge \/ OfTerm \/ OfVM

Spec == /\ Init /\ [][Next]_vars
        /\ \A g \in Calls : WF_vars(NetSteps(g) /\ UNCHANGED <<part, shmVars, bridgeVars, termVars, vmVars>>)
=============================================================================
