--------------------------- MODULE MCEffectGateway ----------------------------
(* Small instances of EffectGateway: g1 and g2 share a SQLite draft store, g3 *)
(* keeps its drafts in memory; every draft carries the one key.               *)
EXTENDS EffectGateway, TLC

CONSTANTS g1, g2, g3, d1, d2, k, db, mem

MCStoreOf == [g \in Gateways |-> IF g \in {g1, g2} THEN db ELSE mem]
MCKeyOf == [d \in Drafts |-> k]

\* A human must decide d1, and may be asked about the others.
MCPolicyOf ==
  [d \in Drafts |-> [reversibility |-> "reversible",
                    approvalClass |-> IF d = d1 THEN "always_human" ELSE "sampled"]]

\* An approval to discard d1, and one of a commit that names no draft.
MCSurfaceRequests == {[draft |-> d1, tool |-> "discard_effect"],
                      [draft |-> NoDraft, tool |-> "commit_effect"]}

\* g1 and g2 are interchangeable; only safety is checked under this symmetry.
MCSymmetry == Permutations({g1, g2})
===============================================================================
