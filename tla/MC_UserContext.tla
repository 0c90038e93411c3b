------------------------------ MODULE MC_UserContext ------------------------------
(* UserContext over ten-bit words, the fewest that hold SPP (bit 8) and a  *)
(* bit above it, with two entry points, stack tops and roots, and every    *)
(* value of the CSR at boot.                                               *)
EXTENDS UserContext

MC_Width == 10
MC_Entries == {4096, 8192}
MC_StackTops == {512, 1024}
MC_Roots == {0, 1}

=============================================================================
