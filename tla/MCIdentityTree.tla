---------------------------- MODULE MCIdentityTree ----------------------------
(* Model-checking instance of IdentityTree over the audit chain: two records of *)
(* one agent, one of a namesake beside it and one of its child under a mandate  *)
(* that was minted again.                                                       *)
EXTENDS IdentityTree

CONSTANTS d1, d2, d3, d4, payer, reader, g1, g2, x1, x2, y1, pay, read

Says(agent, chain, scopes, ceiling, spent, outcome) ==
    [agent |-> agent, chain |-> chain, scopes |-> scopes, ceiling |-> ceiling, spent |-> spent,
     outcome |-> outcome]
MCTold ==
    [r \in Records \cup {Forged} |->
        CASE r = d1 -> Says(payer, <<g1, x1>>, {pay}, 2, 1, "allow")
          [] r = d2 -> Says(payer, <<g1, x1>>, {pay}, 2, 0, "deny")
          [] r = d3 -> Says(payer, <<g1, x2>>, {pay}, 1, 1, "allow")
          [] r = d4 -> Says(reader, <<g2, y1>>, {read}, 1, 0, "escalate")
          [] r = Forged -> Says(reader, <<g2, y1>>, {read}, 9, 0, "allow")]
=============================================================================
