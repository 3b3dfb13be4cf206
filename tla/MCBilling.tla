------------------------------- MODULE MCBilling -------------------------------
(* Small instances of Billing for TLC.                                     *)
EXTENDS Billing, TLC

\* Requests and ids of subscriptions are interchangeable.
BillingSymmetry == Permutations(Procs) \cup Permutations(Subs)
=============================================================================
