---------------------------- MODULE MCSpawnChain ----------------------------
(***************************************************************************)
(* Three providers, the first of which is a fallback of its own, two        *)
(* scripts for each event, and a retry budget that ends before the chain.   *)
(***************************************************************************)
EXTENDS SpawnChain

CONSTANTS a, b, c

Providers == {a, b, c}
Others == <<b, c, a>>
=============================================================================
