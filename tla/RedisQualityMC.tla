---------------------------- MODULE RedisQualityMC ----------------------------
(***************************************************************************)
(* Model checking instance of RedisQuality: one request at a time in each  *)
(* pod.                                                                    *)
(***************************************************************************)
EXTENDS RedisQuality, TLC

CONSTANTS r1, r2, a, b, v1, v2

TwoPods == (r1 :> a) @@ (r2 :> b)

\* The pods with their requests, and the versions, can be exchanged.
Exchange == {(a :> b) @@ (b :> a) @@ (r1 :> r2) @@ (r2 :> r1), (v1 :> v2) @@ (v2 :> v1),
             (a :> b) @@ (b :> a) @@ (r1 :> r2) @@ (r2 :> r1) @@ (v1 :> v2) @@ (v2 :> v1)}

=============================================================================
