--------------------------- MODULE MCSingleFlight ---------------------------
(* Small instances of SingleFlight for TLC: three calls of the local tenant *)
(* and two of another one ask for the same thing.                           *)
EXTENDS SingleFlight

CONSTANTS c1, c2, c3, d1, d2, r, local, other

MCCalls == {c1, c2, c3, d1, d2}
MCRequests == {r}
MCOrgs == {local, other}
MCRequestOf == [c \in MCCalls |-> r]
MCOrgOf == [c \in MCCalls |-> IF c \in {d1, d2} THEN other ELSE local]
=============================================================================
