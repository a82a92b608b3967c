----------------------------- MODULE MCGpuQueue -----------------------------
(* Five jobs: one in each voice lane, two in lane 2 (to see the order within  *)
(* a gated lane), one in lane 3; two sessions, one job without a session.     *)
EXTENDS GpuQueue

CONSTANTS j0, j1, j2a, j2b, j3, s1, s2

MCJobs == {j0, j1, j2a, j2b, j3}
MCSessions == {s1, s2}
MCLaneOf == [j \in MCJobs |->
    CASE j = j0 -> 0 [] j = j1 -> 1 [] j = j2a -> 2 [] j = j2b -> 2 [] j = j3 -> 3]
MCSessionOf == [j \in MCJobs |->
    CASE j \in {j0, j2a, j2b} -> s1 [] j = j3 -> s2 [] OTHER -> NoSession]
=============================================================================
