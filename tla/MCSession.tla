------------------------------- MODULE MCSession -------------------------------
(* alice is an organization-level principal that may act on one tenant,    *)
(* bob is not one.                                                         *)
EXTENDS Session, TLC

CONSTANTS t1, t2, alice, bob, tenant
TwoThreads == {t1, t2}
Symmetric == Permutations(TwoThreads)
PrincipalsMC == {alice, bob}
TenantsMC == {tenant}

(* Nothing reads the home tenant, nor what a thread's latest call returned: *)
(* states that differ only there have the same future.                     *)
ReadLater ==
  <<credential, resolved, gate, acting, memo, refresh, pc, op, calls>>

ReachMC == alice :> {tenant} @@ bob :> {}

===============================================================================
