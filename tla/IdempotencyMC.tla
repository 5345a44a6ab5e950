---------------------------- MODULE IdempotencyMC ----------------------------
(* One key, used by a call that may be retried and, by a client's mistake,   *)
(* by another one; and a call without a key.                                 *)
EXTENDS Idempotency, TLC

CONSTANTS c1, c2, c3, k1

MCKeyOf == [c \in Call |-> k1]
MCFingerprint == [c \in Call |-> c]
Symmetry == Permutations(Request)
=============================================================================
