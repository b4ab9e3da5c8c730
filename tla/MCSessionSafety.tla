--------------------------- MODULE MCSessionSafety ---------------------------
(* Small instances of SessionSafety: with idle pausing off the session     *)
(* locks and unlocks, with it on the user comes and goes.                  *)
EXTENDS SessionSafety

CONSTANTS r1

WorkersNone == {}
RevisionsOne == {r1}
Locking ==
    [settings |-> {[pausing |-> FALSE, behavior |-> "immediate"]},
     sessions |-> {"LOCKED", "UNLOCKED"}, reports |-> {}]
Idling ==
    [settings |-> {[pausing |-> TRUE, behavior |-> "active-grace"]},
     sessions |-> {"UNLOCKED"}, reports |-> {"IDLE", "ACTIVE", "UNKNOWN"}]
OnlyLocking == {Locking}
LockingOrIdling == {Locking, Idling}

\* The locking instance is followed to its second block, the idling one through its first
\* and into the step that ends that block's generation.
EpochBound == environment = Idling => epoch < MaxEpoch - 1
=============================================================================
