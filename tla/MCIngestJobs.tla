---------------------------- MODULE MCIngestJobs ----------------------------
(***************************************************************************)
(* Two uploads of the same source in one workspace, two workers.           *)
(***************************************************************************)
EXTENDS IngestJobs

CONSTANTS j1, j2, w1, w2, h1, h2

MCJobs == {j1, j2}
OneFile == {j2}
MCWorkers == {w1, w2}
OneHash == {h1}
TwoHashes == {h1, h2}
SameDigest == [j \in MCJobs |-> {h1}]
AnyDigest == [j \in MCJobs |-> {h1, h2}]
=============================================================================
