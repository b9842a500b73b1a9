--------------------------- MODULE MCBackendServer ---------------------------
(* BackendServer for TLC: which gateway sends what. *)
EXTENDS BackendServer, TLC

CONSTANTS g1, g2, p1, p2, f1, f2

\* One gateway reports both ways, and over two connections; another's reading
\* comes in between.
MCGatewayOf == [j \in Jobs |-> IF j = f2 THEN g2 ELSE g1]
=============================================================================
