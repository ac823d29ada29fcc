-------------------------------- MODULE MCApp --------------------------------
(* A small instance of MemberApp for TLC: one reward, which one of the two  *)
(* accounts can pay for once, and a demo that can pay for it twice.         *)
EXTENDS MemberApp

CONSTANTS ada, ben

MCPrice == [r \in Rewards |-> 1]
MCBalance == [a \in Accounts |-> IF a = ada THEN 1 ELSE 0]
=============================================================================
