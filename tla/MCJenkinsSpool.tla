-------------------------- MODULE MCJenkinsSpool --------------------------
(***************************************************************************)
(* Two builds and three snapshots: a and b mean different things, c means  *)
(* what a means in other bytes.  Which of them ParsePayload refuses, and   *)
(* every bound, is set by the configuration.                               *)
(***************************************************************************)
EXTENDS JenkinsSpool, TLC

CONSTANTS a, b, c, d

MCMeaning == [p \in Payloads |-> IF p = b THEN "b" ELSE "a"]
MCMeanings == {"a", "b"}
===========================================================================
