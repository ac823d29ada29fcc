------------------------------ MODULE MCSession ------------------------------
(* Small instances of MemberSession for TLC. *)
EXTENDS MemberSession, TLC

\* Wallets and nonces are interchangeable.
Symmetric == Permutations(Wallets) \cup Permutations(Nonces)
=============================================================================
