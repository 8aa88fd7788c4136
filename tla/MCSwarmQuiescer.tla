--------------------------- MODULE MCSwarmQuiescer ---------------------------
(***************************************************************************)
(* Instances of SwarmQuiescer for TLC: the clients are a cold backup and   *)
(* an in-place restore.                                                    *)
(***************************************************************************)
EXTENDS SwarmQuiescer

=============================================================================
