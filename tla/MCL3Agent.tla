------------------------------ MODULE MCL3Agent ------------------------------
(***************************************************************************)
(* A router that comes, changes and goes and one that stays, a floating ip *)
(* that may be on either and one that stays on the second.                 *)
(***************************************************************************)
EXTENDS L3Agent

CONSTANTS r1, r2, f1, f2

MCBodiesOf == [r \in Routers |-> IF r = r1 THEN {Unlisted} \cup Bodies ELSE {"gateway"}]
MCPlacesOf == [f \in Fips |-> IF f = f1 THEN Routers \cup {Nowhere} ELSE {r2}]
=============================================================================
