---------------------------- MODULE MCIdempotency ----------------------------
(***************************************************************************)
(* Three requests under one key: r1 and r2 carry the same body (a request  *)
(* and its retry), r3 reuses the key with another body.                    *)
(***************************************************************************)
EXTENDS Idempotency, TLC

CONSTANTS r1, r2, r3, h1, h2

MCRequests == {r1, r2, r3}
MCHashes == {h1, h2}
MCHashOf == (r1 :> h1) @@ (r2 :> h1) @@ (r3 :> h2)
=============================================================================
