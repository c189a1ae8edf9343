-------------------------- MODULE MCContractEscrow --------------------------
(* Small instances of ContractEscrow: one item, so that the reward, the     *)
(* deposit and the requirements of all contracts compete for the same       *)
(* counts.                                                                  *)
EXTENDS ContractEscrow

CONSTANT gold

Gold(n) == [x \in {gold} |-> n]
OneGold == {Gold(1)}
NoneOrOneGold == {Gold(0), Gold(1)}
AGoldEach == Gold(1)
=============================================================================
