------------------------------- MODULE MCPmm -------------------------------
(* A memory of ten pages with a hole: pages 0, 1 and 5 are reserved, and   *)
(* page 2, the first usable one, holds the bitmap.                         *)
EXTENDS Pmm
mc_MemMap == { [base |-> 2, length |-> 3], [base |-> 6, length |-> 4] }
=============================================================================
