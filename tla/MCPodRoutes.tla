------------------------------ MODULE MCPodRoutes ----------------------------
(* PodRoutes with three-bit addresses, for TLC.                            *)
EXTENDS PodRoutes

MCLinked   == {{5}, {4, 5}, {0, 1}}
MCExcepted == Blocks
MCExcluded == {{6, 7}, {5}, 0..3}
=============================================================================
