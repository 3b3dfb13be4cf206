------------------------------ MODULE MCGateways ------------------------------
(* Small instances of Gateways for TLC.                                    *)
EXTENDS Gateways, TLC

CONSTANTS u1, u2, t1

\* A user of a tenant and one of none.
MCTenantOf == u1 :> t1 @@ u2 :> None
=============================================================================
