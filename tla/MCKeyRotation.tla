--------------------------- MODULE MCKeyRotation ---------------------------
(* One signer, one verifier and the rotation loop.                          *)
EXTENDS KeyRotation
=============================================================================
