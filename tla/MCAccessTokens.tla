--------------------------- MODULE MCAccessTokens ---------------------------
(***************************************************************************)
(* Small instances of AccessTokens for TLC: logins are interchangeable.     *)
(***************************************************************************)
EXTENDS AccessTokens, TLC

Symmetry == Permutations(Logins)
=============================================================================
