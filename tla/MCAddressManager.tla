-------------------------- MODULE MCAddressManager --------------------------
(* Instantiates AddressManager: three keys, listed by ReadDir in the      *)
(* order a1, a2, a3, and two passphrases.                                 *)
EXTENDS AddressManager

CONSTANTS a1, a2, a3, p1, p2

MCKeyDirOrder == <<a1, a2, a3>>
=============================================================================
