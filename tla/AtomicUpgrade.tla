---------------------------- MODULE AtomicUpgrade ----------------------------
(***************************************************************************)
(* What the updater promises (README: "promotes a candidate only after     *)
(* startup succeeds.  Migration or startup failure restores the snapshot   *)
(* and previous binary").  The active binary and the contents of the       *)
(* database it opens change together: either the candidate becomes active  *)
(* on the database it migrated, or neither is touched.  Nothing that is    *)
(* stored is ever taken back.                                              *)
(***************************************************************************)
CONSTANTS Builds, Bundled, Rows

VARIABLES active,    \* the binary that serves, or would after a restart
          contents   \* the commits that binary sees

Init == active = Bundled /\ contents = {}

(* The active binary runs its own migrations or stores rows. *)
Work(c) ==
    /\ c \in Rows \cup {active}
    /\ contents' = contents \cup {c}
    /\ UNCHANGED active

(* A candidate takes over with the database as it was and its migrations. *)
Upgrade(b) ==
    /\ active' = b
    /\ contents' = contents \cup {b}

Next ==
    \/ \E c \in Rows \cup {active} : Work(c)
    \/ \E b \in Builds : Upgrade(b)

Spec == Init /\ [][Next]_<<active, contents>>
=============================================================================
