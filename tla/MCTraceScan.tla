---------------------------- MODULE MCTraceScan ----------------------------
(* Block 1 sends to an address that gets its code in block 2.  Block 2 has  *)
(* two transactions with deposits, one nested to the depth limit and one    *)
(* under a reverted call, and a contract creation with one.  The nested     *)
(* deposit is to an account that is registered later, and comes before the  *)
(* last one in the walk; beside it is a transfer to no account.             *)
EXTENDS TraceScan

MCTx == {"early", "nested", "plain", "create"}
MCFrame == {"a", "a1", "a2", "r", "r1", "p", "c"}
MCBlock == << <<"early">>, <<"nested", "create", "plain">> >>
MCTo == [t \in MCTx |-> CASE t = "create" -> None
                          [] t = "plain" -> "vault"
                          [] OTHER -> "router"]
MCCalls == [x \in MCTx \cup MCFrame |->
              CASE x = "nested" -> <<"a", "r">>
                [] x = "plain" -> <<"p">>
                [] x = "a" -> <<"a1", "a2">>
                [] x = "r" -> <<"r1">>
                [] x = "create" -> <<"c">>
                [] OTHER -> <<>>]
MCTransfers == {"a", "a1", "a2", "r1", "p", "c"}
MCReceiver == [f \in MCTransfers |-> CASE f = "a1" -> "other"
                                        [] f = "a2" -> "late"
                                        [] OTHER -> "user"]
MCReverted == {"r"}
MCDeployedAt == [x \in {"router", "vault"} |-> IF x = "router" THEN 2 ELSE 0]
=============================================================================
