---------------------------- MODULE MCL2Reconcile ----------------------------
(***************************************************************************)
(* An instance of the reconcile pass: a vlan segment b1 with the tap t1    *)
(* and a service epair e1, a local segment b2 with the tap t2.             *)
(***************************************************************************)
EXTENDS L2Reconcile

CONSTANTS b1, b2, t1, t2, v1, e1, r1, r2, g1, g2

MCHome == [i \in Ifaces |-> IF i = t2 THEN b2 ELSE b1]
MCUplink == [b \in Bridges |-> IF b = b1 THEN v1 ELSE NoIface]

Asked(ports, p1, p2) ==
    [ports |-> ports, policy |-> [t \in Taps |-> IF t = t1 THEN p1 ELSE p2]]
With(r, g) == [rules |-> r, table |-> g]

\* Both segments; other rules for t1, t2 without port security, no epair; only b2,
\* with another table for t2.
MCConfigs ==
    {Asked({t1, e1, t2}, With(r1, g1), With(r1, g1)),
     Asked({t1, t2}, With(r2, g1), NoPolicy),
     Asked({t2}, NoPolicy, With(r1, g2))}
=============================================================================
