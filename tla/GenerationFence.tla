--------------------------- MODULE GenerationFence ---------------------------
(***************************************************************************)
(* What the capture gate promises to storage, without states, locks,       *)
(* threads or cancellation: at most one generation is open for commits, it *)
(* is never older than the fence, and a commit carries the open one.       *)
(***************************************************************************)
EXTENDS Integers

VARIABLES
    live,        \* the generation that may commit, 0 if none
    fence,       \* the newest generation issued
    lastCommit   \* generation of the last commit, 0 if none

Init == live = 0 /\ fence = 0 /\ lastCommit = 0

\* Every earlier generation is invalidated; the new one may be open at once.
Advance ==
    /\ fence' = fence + 1
    /\ live' \in {0, fence'}
    /\ UNCHANGED lastCommit

\* The newest generation is opened for commits.
Open ==
    /\ live = 0
    /\ live' = fence
    /\ UNCHANGED <<fence, lastCommit>>

Commit ==
    /\ live # 0
    /\ lastCommit' = live
    /\ UNCHANGED <<live, fence>>

Next == Advance \/ Open \/ Commit

Spec == Init /\ [][Next]_<<live, fence, lastCommit>>

=============================================================================
