-------------------------- MODULE MCBlobLifecycle --------------------------
(* Instances of BlobLifecycle for TLC, one of which an initial state       *)
(* chooses: a source that may be cloned and an editor asset, with a        *)
(* complete request for each; or a source that may be cloned, with two     *)
(* complete requests.  The uploads of the other are long over.             *)
EXTENDS BlobLifecycle

CONSTANTS s1, s2, a1, k1, k2, c1, c2, c3, c4, r1

MCOrigin == [k \in Clones |-> IF k = k1 THEN s1 ELSE s2]
MCTarget == [c \in Calls |-> CASE c = c1 -> s1 [] c = c2 -> a1 [] OTHER -> s2]

Over(S) ==
  /\ session = [p \in Paths |-> IF p \in S THEN "deleted" ELSE "none"]
  /\ url = [p \in Paths |-> IF p \in S THEN "quiet" ELSE "open"]
  /\ row = [x \in Rows |-> IF x \in S THEN "gone" ELSE "none"]

MCInit ==
  /\ staged = {} /\ object = {} /\ stray = {}
  /\ \E S \in {{s1, a1}, {s2}} \cap SUBSET Paths : Over(S)
  /\ count = [p \in Paths |-> 0]
  /\ queue = [p \in Paths |-> "no"] /\ attempts = [p \in Paths |-> 0]
  /\ call = [c \in Calls |-> "idle"]
  /\ claimed = [r \in Reapers |-> {}] /\ deleted = [r \in Reapers |-> {}]
  /\ faults = 0

MCSpec == MCInit /\ [][Next]_vars /\ Fairness
=============================================================================
