--------------------------- MODULE JenkinsHandoff ---------------------------
(***************************************************************************)
(* What the durable Jenkins delivery promises for each build, whatever     *)
(* fails in between: bytes are taken in once, the receiver records one     *)
(* meaning, a confirmation is given only for bytes whose meaning is the    *)
(* recorded one, the producer releases its copy only after that, and the   *)
(* worker gives up its own only after the producer.  Nothing is ever taken *)
(* back.  JenkinsSpool implements it.                                      *)
(***************************************************************************)
CONSTANTS Builds, Payloads, Meanings, Meaning, None

VARIABLES taken,      \* the bytes a build was taken in with
          recorded,   \* the meaning the receiver recorded
          confirmed,  \* builds confirmed to the producer
          released,   \* builds the producer will not publish again
          givenUp     \* builds whose payload was dropped

handoffVars == <<taken, recorded, confirmed, released, givenUp>>

Init ==
    /\ taken = [n \in Builds |-> None]
    /\ recorded = [n \in Builds |-> None]
    /\ confirmed = {}
    /\ released = {}
    /\ givenUp = {}

TakeIn(n, p) ==
    /\ taken[n] = None
    /\ taken' = [taken EXCEPT ![n] = p]
    /\ UNCHANGED <<recorded, confirmed, released, givenUp>>

\* By the worker's request or by anybody else who may write for the source.
RecordRun(n, m) ==
    /\ recorded[n] = None
    /\ recorded' = [recorded EXCEPT ![n] = m]
    /\ UNCHANGED <<taken, confirmed, released, givenUp>>

Confirm(n) ==
    /\ taken[n] # None
    /\ recorded[n] = Meaning[taken[n]]
    /\ confirmed' = confirmed \cup {n}
    /\ UNCHANGED <<taken, recorded, released, givenUp>>

Release(n) ==
    /\ n \in confirmed
    /\ released' = released \cup {n}
    /\ UNCHANGED <<taken, recorded, confirmed, givenUp>>

GiveUp(n) ==
    /\ n \in confirmed \cap released
    /\ givenUp' = givenUp \cup {n}
    /\ UNCHANGED <<taken, recorded, confirmed, released>>

Next ==
    \E n \in Builds :
        \/ \E p \in Payloads : TakeIn(n, p)
        \/ \E m \in Meanings : RecordRun(n, m)
        \/ Confirm(n)
        \/ Release(n)
        \/ GiveUp(n)

Spec == Init /\ [][Next]_handoffVars
=============================================================================
