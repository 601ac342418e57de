----------------------------- MODULE MCSnowflake -----------------------------
(* Small instances of Snowflake for TLC. *)
EXTENDS Snowflake, TLC

CONSTANTS t1, t2

ThreadSymmetry == Permutations(Threads)
=============================================================================
