----------------------------- MODULE MCAccounts -----------------------------
EXTENDS Accounts, TLC

Symm == Permutations(Users) \cup Permutations(Emails)
            \cup Permutations(Browsers) \cup Permutations(Reqs)
=============================================================================
