------------------------------ MODULE MCAccounts ------------------------------
(* TLC instances of Accounts: ids of a kind are interchangeable. *)
EXTENDS Accounts, TLC

IdSymmetry == Permutations(Users) \union Permutations(Sessions)
                \union Permutations(Tokens) \union Permutations(Requests)
=============================================================================
