------------------------------ MODULE Leadership ------------------------------
(***************************************************************************)
(* One row of cp_leadership and the instances that compete for it          *)
(* (backend/database/durable/leadership.py).  Taking the role raises the   *)
(* fencing token; a leader's write carries the token it was given and the  *)
(* database refuses it once the row has moved past it.                     *)
(*                                                                         *)
(* Every instance reads its own clock, so whether a lease has lapsed is    *)
(* not a matter of one time: the lease may lapse at any step, and nothing  *)
(* that is checked or proved here rests on the clocks agreeing.            *)
(***************************************************************************)
EXTENDS Naturals

CONSTANTS
    Instances,   \* the processes of the fleet
    Nobody,      \* the holder of a role nobody ever took
    MaxToken     \* bound on the elections

ASSUME LeadershipAssumption ==
    /\ Nobody \notin Instances
    /\ MaxToken \in Nat

VARIABLES
    row,      \* the role's row
    handle    \* handle[i]: the token of i's handle, 0 for none

leadershipVars == <<row, handle>>

Statuses == {"vacant", "held", "released"}

Row == [holder : Instances \cup {Nobody}, token : Nat, status : Statuses, lapsed : BOOLEAN]

LeadershipInit ==
    /\ row = [holder |-> Nobody, token |-> 0, status |-> "vacant", lapsed |-> FALSE]
    /\ handle = [i \in Instances |-> 0]

\* The fence a leader's write carries (fenced_where).
FencedWhere(i, token) ==
    /\ row.holder = i
    /\ row.token = token
    /\ row.status = "held"

\* Mutant: a role is taken over only after it was given back.
CanAcquireReleased(i) == row.status # "held" \/ row.holder = i

\* Free, lapsed, or this instance's own.
CanAcquire(i) ==
    \/ row.status # "held"
    \/ row.lapsed
    \/ row.holder = i

\* Mutant: a role taken over before it was released keeps its token.
ElectedInPlace(i) ==
    [holder |-> i, token |-> IF row.status = "held" THEN row.token ELSE row.token + 1,
     status |-> "held", lapsed |-> FALSE]

Elected(i) ==
    [holder |-> i, token |-> row.token + 1, status |-> "held", lapsed |-> FALSE]

\* heard: the commit of the election may not be known to the instance.
Acquire(i, heard) ==
    /\ CanAcquire(i)
    /\ row.token < MaxToken
    /\ row' = Elected(i)
    /\ handle' = IF heard THEN [handle EXCEPT ![i] = Elected(i).token] ELSE handle

Contended(i) ==
    /\ ~CanAcquire(i)
    /\ handle' = [handle EXCEPT ![i] = 0]
    /\ UNCHANGED row

\* Extends the lease, also a lapsed one nobody took; a lost role is dropped.
Heartbeat(i) ==
    /\ handle[i] # 0
    /\ IF FencedWhere(i, handle[i])
       THEN row' = [row EXCEPT !.lapsed = FALSE] /\ UNCHANGED handle
       ELSE handle' = [handle EXCEPT ![i] = 0] /\ UNCHANGED row

\* Matches the token but not the status; the token stays.
Release(i) ==
    /\ handle[i] # 0
    /\ row' = IF row.holder = i /\ row.token = handle[i]
              THEN [row EXCEPT !.status = "released", !.lapsed = TRUE]
              ELSE row
    /\ handle' = [handle EXCEPT ![i] = 0]

\* Time passes.
Lapse ==
    /\ row.status = "held" /\ ~row.lapsed
    /\ row' = [row EXCEPT !.lapsed = TRUE]
    /\ UNCHANGED handle

-----------------------------------------------------------------------------
(* Type invariant.                                                         *)
LeadershipTypeOK ==
    /\ row \in Row
    /\ handle \in [Instances -> Nat]

(* No two instances ever hold handles with the same token, however many    *)
(* elections, stalls and restarts there were: a token tells leaders apart. *)
TokenNamesOneInstance ==
    \A i, j \in Instances : handle[i] = handle[j] /\ handle[i] # 0 => i = j

=============================================================================
