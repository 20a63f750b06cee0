----------------------------- MODULE MCBilling -----------------------------
(***************************************************************************)
(* Model-checking Billing: one queued job under two report sweeps, and two *)
(* studio turns under Stripe's webhooks and the daily reset.               *)
(***************************************************************************)
EXTENDS BillingInv, TLC

CONSTANTS q, s, r, h, w, v

Symmetry == Permutations({s, r})

=============================================================================
