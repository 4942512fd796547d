------------------------- MODULE MCAttemptLifecycle -------------------------
(* AttemptLifecycle on small instances: two attempts, two days.            *)
EXTENDS AttemptLifecycle
=============================================================================
