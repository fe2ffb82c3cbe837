---------------------------- MODULE MCGroupTable ----------------------------
(***************************************************************************)
(* Three entries, which need two address bits and so leave one unused      *)
(* address, under a three-bit index: every index beyond the table narrows  *)
(* onto an entry or onto the unused address.                               *)
(***************************************************************************)
EXTENDS GroupTable

CONSTANTS mZero, mA
MCMasks == {mZero, mA}
=============================================================================
