------------------------ MODULE MC_EncryptedResolver ------------------------
(***************************************************************************)
(* Three queries: one that is cut off, one that finds what it left behind, *)
(* and one that comes between the two attempts of another.                 *)
(***************************************************************************)
EXTENDS EncryptedResolver
=============================================================================
