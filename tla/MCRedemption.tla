---------------------------- MODULE MCRedemption ----------------------------
(* Small instances of RedemptionClient for TLC. *)
EXTENDS RedemptionClient, TLC

\* Keys and pages are interchangeable.
Symmetric == Permutations(Keys) \cup Permutations(Pages)
=============================================================================
