----------------------------- MODULE MCPairView -----------------------------
(* PairView, and Network in it, on small instances. *)
EXTENDS PairView, TLC

CONSTANTS a, b

\* b follows a, as a whole or its pair alone: what a publishes reaches the window
\* from a and from b.
ChainOffers == (a :> {}) @@ (b :> {<<a, kWildcardKey>>, <<a, Key>>}) @@ (gui :> {})

\* a publishes, and b writes into a's space.
ChainWrites == (a :> {a}) @@ (b :> {a}) @@ (gui :> {})

\* The instance is one that NoEcho is proved for.
ASSUME ChainAcyclic == Acyclic({gui})
=============================================================================
