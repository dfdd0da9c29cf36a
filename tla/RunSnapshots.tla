---------------------------- MODULE RunSnapshots ----------------------------
(***************************************************************************)
(* What the run table promises its readers (ADR-006): a run is announced,  *)
(* or appears finished; it is finished once, as a whole, and a COMPLETED   *)
(* run never changes again.  ScreeningRuns implements this.                *)
(***************************************************************************)
EXTENDS Naturals

CONSTANT Snapshots      \* what the results of a run can be
CONSTANT NoSnapshot     \* a run with no result rows, none of Snapshots

VARIABLE board          \* the runs a reader finds, by id

Ids == Nat \ {0}

Init == board = [r \in {} |-> NoSnapshot]

Shows(r, status, snapshot) ==
    board' = [x \in DOMAIN board \cup {r} |->
                 IF x = r THEN [status |-> status, snapshot |-> snapshot] ELSE board[x]]

IsNew(r) == r \in Ids \ DOMAIN board
IsOpen(r) == r \in DOMAIN board /\ board[r].status = "PENDING"

(* A request announces a run before anything is computed for it. *)
Announce(r) == IsNew(r) /\ Shows(r, "PENDING", NoSnapshot)

(* A run is published with all of its results. *)
Complete(r) ==
    /\ IsNew(r) \/ IsOpen(r)
    /\ \E s \in Snapshots : Shows(r, "COMPLETED", s)

(* A run fails, with or without the results computed before the error. *)
Fail(r) ==
    /\ IsNew(r) \/ IsOpen(r)
    /\ \E s \in Snapshots \cup {NoSnapshot} : Shows(r, "FAILED", s)

(* A step concerns one of the runs on the board after it. *)
Next == \E r \in DOMAIN board' : Announce(r) \/ Complete(r) \/ Fail(r)

Spec == Init /\ [][Next]_board
=============================================================================
