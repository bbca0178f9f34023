------------------------ MODULE MCCollectorRegistry ------------------------
(* Collectors and keys for CollectorRegistry. *)
EXTENDS CollectorRegistry

CONSTANTS c1, c2, k1, k2, k3
=============================================================================
