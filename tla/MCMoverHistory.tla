--------------------------- MODULE MCMoverHistory ---------------------------
(***************************************************************************)
(* Instances of MoverHistory for TLC: movers of one repository, retained   *)
(* and ephemeral ones, and hooks.                                          *)
(***************************************************************************)
EXTENDS MoverHistory

Warm(r) == [repo |-> r, action |-> "backup", keep |-> TRUE]
Check(r) == [repo |-> r, action |-> "check", keep |-> FALSE]
Snapshots(r) == [repo |-> r, action |-> "", keep |-> FALSE]
PreHook(r) == [repo |-> r, action |-> "hook", keep |-> FALSE]

AllKinds == {Warm("x"), Check("x"), Snapshots("x"), PreHook("x")}
=============================================================================
