----------------------------- MODULE MCPfReload -----------------------------
(* A small instance of PfReload: one ruleset in force, a good successor, one *)
(* the checks refuse and one only the kernel refuses.                        *)
EXTENDS PfReload
=============================================================================
