----------------------------- MODULE MCFcntlLock -----------------------------
(***************************************************************************)
(* Two Store instances in one process and two more in another.              *)
(***************************************************************************)
EXTENDS FcntlLock, TLC

CONSTANTS s1, s2, s3, s4, p1, p2

MCProcessOf == (s1 :> p1) @@ (s2 :> p1) @@ (s3 :> p2) @@ (s4 :> p2)
=============================================================================
