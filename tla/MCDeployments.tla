--------------------------- MODULE MCDeployments ---------------------------
(* The parts of a deployment, each checked by itself: a behaviour is one of   *)
(* Supervisor (two commands at a time on one project directory), of its       *)
(* process_items (two supervisors of one deployment, three items), of the     *)
(* index of Console (two names, two directories, two commands), of its stream *)
(* (two Runs), or of Control: of its screen, of a cancel among cycles (two    *)
(* supervisors), of the default observers (two commands at a time).           *)
EXTENDS Supervisor, Console, Control

CONSTANTS n1, o1, o2, k1, k2, p1, p2, d1, d2, u1, u2

VARIABLE focus

MCOps == {o1, o2}
MCCallers == {k1, k2}
MCPipelines == {p1, p2}
MCProjects == {d1, d2}
MCUnits == {u1, u2}

OnlyConsole == UNCHANGED <<vars, feedVars, controlVars, scaffoldVars>>
OnlyControl == UNCHANGED <<vars, feedVars, consoleVars>>

DeploymentsInit ==
    /\ focus \in {"supervisor", "feed", "index", "stream", "screen", "cancel", "observers"}
    /\ Init /\ FeedInit /\ ConsoleInit /\ ControlInit

DeploymentsNext ==
    /\ UNCHANGED focus
    /\ \/ focus = "supervisor" /\ Next /\ UNCHANGED <<feedVars, consoleVars, controlVars, scaffoldVars>>
       \/ focus = "feed" /\ FeedNext /\ UNCHANGED <<vars, consoleVars, controlVars, scaffoldVars>>
       \/ focus = "index" /\ IndexNext /\ OnlyConsole
       \/ focus = "stream" /\ StreamNext /\ OnlyConsole
       \/ focus = "screen" /\ ScreenNext /\ UNCHANGED scaffoldVars /\ OnlyControl
       \/ focus = "cancel" /\ CancelNext /\ Cardinality(Born') < MaxSpawned
          /\ UNCHANGED scaffoldVars /\ OnlyControl
       \/ focus = "observers" /\ ScaffoldNext /\ UNCHANGED controlVars /\ OnlyControl

DeploymentsSpec ==
    DeploymentsInit
    /\ [][DeploymentsNext]_<<focus, vars, feedVars, consoleVars, controlVars, scaffoldVars>>

\* What an operator sees and does is true to what there is, in the index, in the stream of
\* a run and in the control of what is deployed.
OperatorIsServed == ConsoleIsTrue /\ ControlHolds
=============================================================================
