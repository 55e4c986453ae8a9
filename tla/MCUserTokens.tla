----------------------------- MODULE MCUserTokens -----------------------------
(* Small instances of UserTokens.                                          *)
EXTENDS UserTokens
=============================================================================
