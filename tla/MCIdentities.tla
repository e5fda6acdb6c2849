---------------------------- MODULE MCIdentities ----------------------------
(* Identities for model checking. *)
EXTENDS Identities, TLC

Meeting(kinds, n, i, k) ==
    [kinds |-> kinds \cup {"bootstrap", "login"}, sessions |-> n, invitations |-> i, states |-> k]

\* Which kinds of requests meet. Everything starts with the bootstrap.
Meetings == {Meeting({"invite", "join", "accept"}, 2, 2, 0),
             Meeting({"invite", "join", "transfer"}, 3, 2, 0),
             Meeting({"invite", "join", "accept", "transfer", "logout", "age"}, 2, 1, 0),
             Meeting({"start", "callback", "unlink", "age"}, 2, 0, 2),
             Meeting({"start", "callback", "logout", "recover"}, 2, 0, 2),
             Meeting({"invite", "start", "callback"}, 2, 1, 1)}

Symmetry == Permutations(Transactions)
=============================================================================
