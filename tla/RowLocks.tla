------------------------------ MODULE RowLocks ------------------------------
(***************************************************************************)
(* Row locks of the database, as far as the commands of the server use     *)
(* them. A transaction keeps every row lock until it ends. FOR UPDATE      *)
(* conflicts with every mode; FOR SHARE only with FOR UPDATE, and so does  *)
(* the FOR KEY SHARE lock an INSERT takes on the row a foreign key names.  *)
(* A waiting FOR UPDATE does not hold later FOR SHARE requests back.       *)
(***************************************************************************)

Modes == {"key", "share", "update"}

\* Two transactions cannot hold these modes on one row.
Conflict(m, n) == "update" \in {m, n}

\* A step of a transaction's plan. After a `Checked` one the code decides,
\* from rows the transaction has locked, whether it may go on.
Lock(r, m) == [row |-> r, mode |-> m, check |-> FALSE]
Checked(r, m) == [row |-> r, mode |-> m, check |-> TRUE]

\* `held` is the set of plan steps a transaction has taken.
Blocks(held, request) ==
    \E l \in held : l.row = request.row /\ Conflict(l.mode, request.mode)

\* A set of waiting transactions none of which can go on before another of
\* them does; `waits` holds a pair <<t, u>> when t waits for u.
Deadlocked(waits) ==
    {S \in SUBSET {e[1] : e \in waits} :
        S # {} /\ \A t \in S : \E u \in S : <<t, u>> \in waits}
=============================================================================
