----------------------------- MODULE MCNetwork ------------------------------
(* Network alone: two components that want each other's pairs. *)
EXTENDS Network, TLC

CONSTANTS a, b

\* Each subscribes to everything of the other, as two windows of pairview do.
MutualOffers == (a :> {<<kAnyOwner, kWildcardKey>>}) @@ (b :> {<<kAnyOwner, kWildcardKey>>})

\* One publishes and the other wants that pair.
OneOffers == (a :> {}) @@ (b :> {<<a, Key>>})

OwnWrites == [c \in Components |-> {c}]
=============================================================================
