---- MODULE MCAccountLifecycle ----
(* Small instances of AccountLifecycle.  A second token is made only while *)
(* there are two accounts, and a third account only with one token.        *)
EXTENDS AccountLifecycle, TLC
Sym == Permutations(AccountRequests) \cup Permutations(Accounts) \cup Permutations(Mailboxes)
Created == {u \in Accounts : users[u].status # "unborn"}
Few == Len(actionTokens) <= 1 \/ Cardinality(Created) <= 2
MCSpec == AccountInit /\ [][AccountNext /\ Few']_accountVars
====
