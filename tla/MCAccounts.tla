----------------------------- MODULE MCAccounts -----------------------------
(* A small instance of Accounts. *)
EXTENDS Accounts, TLC

CONSTANTS ann, bob, bot, old, new, c1, c2, s1, k1

MCRow(role, apiOnly, pw) == [role |-> role, disabled |-> FALSE, apiOnly |-> apiOnly, pw |-> pw, must |-> FALSE]

\* An empty table, and one with two administrators and an api-only user.
MCTables == {[i \in Ids |-> None],
             [i \in Ids |-> CASE i = ann -> MCRow("superadmin", FALSE, old)
                              [] i = bob -> MCRow("admin", FALSE, old)
                              [] OTHER   -> MCRow("viewer", TRUE, Nonce)]}

\* Demote, disable with a new password, enable.
MCBodies == {[Empty EXCEPT !.role = "viewer"],
             [Empty EXCEPT !.disabled = TRUE, !.password = new],
             [Empty EXCEPT !.role = "admin", !.disabled = FALSE]}

Symm == Permutations(Callers)
=============================================================================
