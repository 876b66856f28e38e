--------------------------- MODULE MC_BranchOps ---------------------------
(* A revert beside transactions on the same subject.                       *)
EXTENDS BranchOps, TLC

MC_pa == <<"p", "a">>
MC_Iri == {MC_pa}
MC_Upsert == [mentions |-> <<MC_pa>>, reads |-> {MC_pa}, writes |-> {MC_pa}, bounded |-> TRUE,
              schema |-> FALSE, once |-> FALSE, locked |-> FALSE]
MC_Request == {MC_Upsert}
MC_Revert == {[kind |-> "revert"] @@ MC_Upsert}
=============================================================================
