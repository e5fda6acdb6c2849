---------------------------- MODULE MCAccounts ----------------------------
(* Accounts for model checking: one account that gets its address first. *)
EXTENDS Accounts, TLC

CONSTANTS c1, c2

\* Three logins around one recovery, one around two, and two clients at the guard.
Meetings == {[logins |-> 3, runs |-> 1, clients |-> {c1}],
             [logins |-> 1, runs |-> 2, clients |-> {c1}],
             [logins |-> 3, runs |-> 0, clients |-> {c1, c2}]}

Symmetry == Permutations(Passwords) \cup Permutations(Logins) \cup Permutations(Runs) \cup
            Permutations(Operations)
===========================================================================
