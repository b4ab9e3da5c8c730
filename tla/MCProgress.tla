----------------------------- MODULE MCProgress -----------------------------
(***************************************************************************)
(* Progress of two services, side by side as in MCServices: deletions over  *)
(* derived data, and the IPC server with a normal handler that may hang.    *)
(* The fairness of each part is that of its module.                         *)
(***************************************************************************)
EXTENDS Ipc

VARIABLES
    part,
    fresh, ready, index, checkpoint, temps, activity, indexLock, surviveLock,
    reconcileLock, journal, proc, writer, refresher, calls, failures, carried, reported

derivedVars == <<fresh, ready, index, checkpoint, temps, activity, indexLock, surviveLock,
                 reconcileLock, journal, proc, writer, refresher, calls, failures, carried,
                 reported>>

Derived == INSTANCE DerivedData
    WITH Records <- {1, 2}, Days <- {{1, 2}}, Requests <- {"q"}, ScopeLimit <- 1, DayLimit <- 2,
         CandidateLimit <- 1, FeatureLimit <- 2, MaxCalls <- 1, MaxFailures <- 1

MCUuidOf == [r |-> 1]
NoFields == [query |-> None, start |-> None, end |-> None, records |-> <<>>,
             cluster |-> None, application |-> None, target |-> None]
MCRequestOf ==
    [u |-> [command |-> "stop", fields |-> NoFields],
     d |-> [command |-> "delete-records", fields |-> [NoFields EXCEPT !.records = <<"r">>]]]

-----------------------------------------------------------------------------
Init ==
    /\ part \in {"derived", "ipc"}
    /\ Derived!Init /\ IpcInit

\* Two bounds of this module: records are captured first, and clients delete record 1
\* (2 may survive, or leave by a sweep).
DerivedStep ==
    /\ part = "derived"
    /\ Derived!Next
    /\ fresh # {} => fresh' # fresh
    /\ journal'.ids \subseteq {1}
    /\ UNCHANGED ipcVars

IpcStep == part = "ipc" /\ IpcNext /\ UNCHANGED derivedVars

Next == UNCHANGED part /\ (DerivedStep \/ IpcStep)

vars == <<part, derivedVars, ipcVars>>

DerivedFairness ==
    /\ SF_derivedVars(part = "derived" /\ (Derived!Deletion \/ Derived!Derived("deletion")))
    /\ SF_derivedVars(part = "derived" /\ (Derived!Collector \/ Derived!Derived("collector")))
    /\ SF_derivedVars(part = "derived" /\ Derived!Writer)
    /\ SF_derivedVars(part = "derived" /\ Derived!Refresher)

Spec == Init /\ [][Next]_vars /\ DerivedFairness /\ IpcFairness

-----------------------------------------------------------------------------
\* DerivedData.StaleVanishes: derived data of deleted records disappears.
StaleVanishes == Derived!StaleVanishes

\* DerivedData.DeletionCompletes: an interrupted deletion is completed.
DeletionCompletes == Derived!DeletionCompletes
=============================================================================
