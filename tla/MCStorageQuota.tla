-------------------------- MODULE MCStorageQuota --------------------------
(* Instances of StorageQuota: u1 owns w1, u2 owns w2. *)
EXTENDS StorageQuota, TLC

CONSTANTS
  u1, u2, w1, w2, r1, r2, r3, r4,
  Spare   \* the sets of ids that a behaviour may start without

MCHome == [r \in Items |-> w1]
MCFirstOwner == [w \in Workspaces |-> IF w = w2 THEN u2 ELSE u1]
MCLimit == [u \in Users |-> 2]

MCInit == \E S \in Spare : StartsWithout(S)
MCSpec == MCInit /\ [][Next]_vars /\ Fairness
=============================================================================
