---------------------------- MODULE SupervisorLock ----------------------------
(***************************************************************************)
(* The lock file that keeps supervisors of one data directory apart:       *)
(* acquireLock of updater/supervisor.go and its release by RunSupervisor.  *)
(* The file is created exclusively, written afterwards, and judged and     *)
(* removed by its name by whoever comes later.                             *)
(*                                                                         *)
(* Abstractions.                                                           *)
(*  - A supervisor is a process with a pid of its own, started at most     *)
(*    once.  A file is known by the process that created it.               *)
(*  - A process that returned from RunSupervisor may or may not be gone    *)
(*    when its pid is tried.                                               *)
(*  - The application it runs is left out, also when it outlives it, and   *)
(*    so are other failures of the file system and pids that are reused.   *)
(***************************************************************************)
EXTENDS Naturals

CONSTANTS
    Supervisors,   \* the processes that are started on the data directory
    Nobody,        \* the creator of a file that does not exist
    Windows        \* whether pids cannot be tried

ASSUME LockConstants == Nobody \notin Supervisors /\ Windows \in BOOLEAN

VARIABLES
    place,     \* [Supervisors -> where a process is]
    attempt,   \* [Supervisors -> the pass of the loop]
    file,      \* the creator of updater/lock
    written,   \* the processes that have written their pid to their file
    read,      \* [Supervisors -> the file a process read, and whether it had a pid]
    raced,     \* history: an unwritten file of a live process was read, or another file removed
    company    \* history: the starts during which another process did something

lockVars == <<place, attempt, file, written, read, raced, company>>

Finished == {"refused", "unable", "released"}
Starting == {"create", "write", "read", "judge", "remove"}
Places == {"off", "holds", "dead"} \cup Starting \cup Finished
Unread == [file |-> Nobody, pid |-> FALSE]

LockInit ==
    /\ place = [p \in Supervisors |-> "off"]
    /\ attempt = [p \in Supervisors |-> 0]
    /\ file = Nobody /\ written = {}
    /\ read = [p \in Supervisors |-> Unread]
    /\ raced = FALSE /\ company = {}

Move(p, label) ==
    /\ place' = [place EXCEPT ![p] = label]
    /\ company' = company \cup {q \in Supervisors \ {p} : place[q] \in Starting}

(* The next pass of the loop; the second is the last. *)
TryAgain(p) ==
    /\ attempt' = [attempt EXCEPT ![p] = @ + 1]
    /\ Move(p, IF attempt[p] = 0 THEN "create" ELSE "unable")

StartSupervisor(p) ==
    /\ place[p] = "off"
    /\ Move(p, "create")
    /\ UNCHANGED <<attempt, file, written, read, raced>>

(* Mutant of CreateLock: the file is opened without O_EXCL. *)
CreateLockOver(p) ==
    /\ place[p] = "create"
    /\ file' = p
    /\ Move(p, "write")
    /\ UNCHANGED <<attempt, written, read, raced>>

CreateLock(p) ==
    /\ place[p] = "create"
    /\ IF file = Nobody THEN file' = p /\ Move(p, "write")
                        ELSE file' = file /\ Move(p, "read")
    /\ UNCHANGED <<attempt, written, read, raced>>

WriteLock(p) ==
    /\ place[p] = "write"
    /\ written' = written \cup {p}
    /\ Move(p, "holds")
    /\ UNCHANGED <<attempt, file, read, raced>>

ReadLock(p) ==
    /\ place[p] = "read" /\ file # Nobody
    /\ read' = [read EXCEPT ![p] = [file |-> file, pid |-> file \in written]]
    /\ raced' = (raced \/ (file \notin written /\ place[file] = "write"))
    /\ Move(p, "judge")
    /\ UNCHANGED <<attempt, file, written>>

ReadFails(p) ==
    /\ place[p] = "read" /\ file = Nobody
    /\ TryAgain(p)
    /\ UNCHANGED <<file, written, read, raced>>

(* A file without a pid is stale, and so is one of a process that does not answer. *)
JudgeStale(p) ==
    /\ place[p] = "judge"
    /\ read[p].pid => ~Windows /\ place[read[p].file] \in {"dead"} \cup Finished
    /\ Move(p, "remove")
    /\ UNCHANGED <<attempt, file, written, read, raced>>

Refuse(p) ==
    /\ place[p] = "judge" /\ read[p].pid
    /\ Windows \/ place[read[p].file] # "dead"
    /\ Move(p, "refused")
    /\ UNCHANGED <<attempt, file, written, read, raced>>

(* By name: whatever is there now. *)
RemoveLock(p) ==
    /\ place[p] = "remove"
    /\ file' = Nobody
    /\ raced' = (raced \/ file \notin {Nobody, read[p].file})
    /\ TryAgain(p)
    /\ UNCHANGED <<written, read>>

ReleaseLock(p) ==
    /\ place[p] = "holds"
    /\ file' = Nobody
    /\ Move(p, "released")
    /\ UNCHANGED <<attempt, written, read, raced>>

DieWithLock(p) ==
    /\ place[p] \in Starting \cup {"holds"}
    /\ Move(p, "dead")
    /\ UNCHANGED <<attempt, file, written, read, raced>>

LockNext ==
    \E p \in Supervisors :
        \/ StartSupervisor(p) \/ CreateLock(p) \/ WriteLock(p) \/ ReadLock(p) \/ ReadFails(p)
        \/ JudgeStale(p) \/ Refuse(p) \/ RemoveLock(p) \/ ReleaseLock(p) \/ DieWithLock(p)

LockSpec == LockInit /\ [][LockNext]_lockVars

-----------------------------------------------------------------------------
Has(p) == place[p] \in {"write", "holds"}

(* Two supervisors never work on one data directory, through crashes at any step and  *)
(* starts at any time, but for two windows the code leaves: the file of a live         *)
(* process is read before its pid is in it, or was replaced between the look at it and *)
(* its removal (acquireLock, supervisor.go).                                            *)
OneSupervisor == ~raced => \A p, q \in Supervisors : Has(p) /\ Has(q) => p = q

(* A start that nobody interferes with ends with the lock or with a refusal: what a     *)
(* crash left, written or not, costs it one pass of the loop.                           *)
LoneStartSucceeds == \A p \in Supervisors : place[p] = "unable" => p \in company

LockIsKept == OneSupervisor /\ LoneStartSucceeds
=============================================================================
