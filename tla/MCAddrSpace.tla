---------------------------- MODULE MCAddrSpace -----------------------------
(***************************************************************************)
(* The shell has one segment; the programs it starts have one or two, the  *)
(* second of two pages.  The kernel's idle task has none.                   *)
(***************************************************************************)
EXTENDS AddrSpace

mc_Shell == <<1>>
mc_Programs == {<<1>>, <<1, 2>>}
=============================================================================
