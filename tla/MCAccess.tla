------------------------------- MODULE MCAccess -------------------------------
(* Small instances of Access for TLC.                                      *)
EXTENDS Access, TLC

CONSTANTS alice, root, t1, r1

\* A user of a tenant and a super administrator, of one profile.
MCTenantOf == alice :> t1 @@ root :> None
MCProfileOf == alice :> r1 @@ root :> r1
=============================================================================
