-------------------------- MODULE MCProviderChain --------------------------
(* A provider chain for checking ProviderChain. *)
EXTENDS ProviderChain

CONSTANTS c1, c2

TwoCallers == {c1, c2}
AllRoles == {"primary", "internal"}

\* A primary, a fallback for it that has no HealthCheck, and nobody for the
\* internal role.
PrimaryWithFallback ==
    <<[role |-> Fallback, fallbackFor |-> {"primary"}, checker |-> FALSE, ws |-> TRUE],
      [role |-> "primary", fallbackFor |-> {}, checker |-> TRUE, ws |-> FALSE]>>
=============================================================================
