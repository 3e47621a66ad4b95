----------------------------- MODULE Providers -----------------------------
(* What the provider modules have in common: RuntimeProvider, as seen by   *)
(* the concurrent callers of one provider.                                 *)
EXTENDS Naturals, Sequences, FiniteSets

CONSTANTS Sessions,  \* runtime session ids
          Calls,     \* callers of the provider
          None

(* ProviderTurnStatus of a turn that is through. *)
Results == {"completed", "interrupted", "failed"}
=============================================================================
