----------------------------- MODULE MCApplications ---------------------------
(* Transfers of nothing, and of the whole mock balance that the service answers; *)
(* small deployments and checklists: files of up to three lines that the       *)
(* parser tells apart, among them items before the first phase.                *)
EXTENDS Applications, TLC

Symmetric == Permutations(Wallets)

MCAmounts == {0, 1000}

MCFailureLogs ==
    UNION {[1..n -> {"other", "failed", "WALLET_FROZEN"}] : n \in 1..3}

MCPrograms == <<"kyc", "hook", "registry">>

Item(mark, owner, due) == [kind |-> "item", mark |-> mark, owner |-> owner, due |-> due]
Phase(n) == [kind |-> "phase", number |-> n]

Lines == {Phase(1), Phase(4), Item("done", "alice", FALSE), Item("open", "alice", TRUE),
          Item("in_progress", "bob", FALSE), Item("open", "nobody", FALSE)}

MCChecklistFiles ==
    {f \in [1..3 -> Lines] : f[1] = Phase(1)}
    \union {f \in [1..2 -> Lines] : Phase(4) \in {f[1], f[2]}}
    \union {[i \in 1..5 |-> IF i = 1 THEN Phase(1) ELSE Item("open", "alice", TRUE)]}
=============================================================================
