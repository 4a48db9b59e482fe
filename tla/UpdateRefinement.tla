--------------------------- MODULE UpdateRefinement ---------------------------
(***************************************************************************)
(* UpdateSupervisor implements AtomicUpgrade.  While a promotion is in     *)
(* flight the database that counts is the snapshot: it is what recovery    *)
(* and rollback put back.                                                  *)
(***************************************************************************)
EXTENDS UpdateSupervisor

EffectiveContents ==
    IF journal.phase \in InFlight /\ journal.backup \in taken
    THEN backup[journal.backup]
    ELSE main \cup wal

Upgrade == INSTANCE AtomicUpgrade WITH active <- ActivePath, contents <- EffectiveContents

(* Every step of the supervisor and of its child, crashes and recoveries        *)
(* included, is an atomic upgrade, work of the active binary, or no change.     *)
ImplementsAtomicUpgrade == Upgrade!Spec
=============================================================================
