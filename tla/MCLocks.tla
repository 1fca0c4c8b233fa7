------------------------------ MODULE MCLocks ------------------------------
(* What is held of a shared thing, each module checked by itself: a behaviour  *)
(* is one of Borrow, of TreeLock, of Library, of Broker, of Artifacts or of    *)
(* Storage (two builds, of which the older one lacks the last migration).      *)
EXTENDS Borrow, TreeLock, Library, Broker, Artifacts, Storage

CONSTANTS p1, p2, p3, s1, s2, c1, c2, c3, b1, k1

VARIABLE focus

MCProcs == {p1, p2, p3}
MCOpeners == {p1, p2}
MCSavers == {s1, s2}
MCContents == {c1, c2, c3}

\* two secrets, one host that only one of the declarations names
MCAsk(node, ref, dest) == [node |-> node, ref |-> ref, dest |-> dest, fluid |-> FALSE]
MCRequests == {MCAsk("tool", "token", "crm"), MCAsk("tool", "token", "mail"),
               [MCAsk("tool", "token", "crm") EXCEPT !.fluid = TRUE], MCAsk("log", "key", "crm")}
MCDeclarations == {[secrets |-> {"token"}, egress |-> {"crm", "mail"}],
                   [secrets |-> {"token", "key"}, egress |-> {"crm"}]}
MCConnections == {<<MCAsk("tool", "token", "crm"), MCAsk("log", "key", "crm")>>}

LocksInit ==
    /\ focus \in {"borrow", "tree", "library", "broker", "artifacts", "storage"}
    /\ Init /\ TreeInit /\ LibraryInit /\ BrokerInit /\ ArtifactsInit /\ StorageInit
    /\ focus # "broker" => approvals.kind = "auto"

LocksNext ==
    /\ UNCHANGED focus
    /\ IF focus = "storage" THEN StorageNext ELSE UNCHANGED storageVars
    /\ IF focus = "artifacts" THEN ArtifactsNext ELSE UNCHANGED artifactVars
    /\ \/ focus = "borrow" /\ Next /\ UNCHANGED <<treeVars, libraryVars, brokerVars>>
       \/ focus = "tree" /\ TreeNext /\ UNCHANGED <<vars, libraryVars, brokerVars>>
       \/ focus = "library" /\ LibraryNext /\ UNCHANGED <<vars, treeVars, brokerVars>>
       \/ focus = "broker" /\ BrokerNext /\ UNCHANGED <<vars, treeVars, libraryVars>>
       \/ focus \in {"artifacts", "storage"} /\ UNCHANGED <<vars, treeVars, libraryVars, brokerVars>>

LocksSpec ==
    LocksInit
        /\ [][LocksNext]_<<focus, vars, treeVars, libraryVars, brokerVars, artifactVars, storageVars>>
=============================================================================
