-------------------------- MODULE ProposalLifecycle --------------------------
(***************************************************************************)
(* What the DAO promises to the people watching a proposal: it moves       *)
(* forward through its life and never back, the result of its vote never   *)
(* changes, it is executed only after it was queued in the open for the    *)
(* timelock's delay and before its grace period is over, and it is never   *)
(* executed once cancelled or vetoed. AlpsDAOLogicV2 with AlpsDAOExecutor  *)
(* implements this specification.                                          *)
(***************************************************************************)
EXTENDS Integers, Sequences

CONSTANTS MinimumDelay,   \* the shortest time a proposal stays queued before it can be executed
          GracePeriod     \* how long after that it can still be executed

VARIABLES status,         \* the state of each proposal
          eta,            \* the time from which a queued proposal can be executed
          time

vars == <<status, eta, time>>

Init ==
    /\ status = << >>
    /\ eta = << >>
    /\ time \in Nat

Submit ==
    /\ eta' = Append(eta, 0)
    /\ status' = Append(status, "Pending")
    /\ UNCHANGED time

\* Queueing announces the time of execution.
Queue(p) ==
    /\ status[p] = "Succeeded"
    /\ status' = [status EXCEPT ![p] = "Queued"]
    /\ eta' = [eta EXCEPT ![p] = eta'[p]]
    /\ eta'[p] \in Nat /\ eta'[p] >= time + MinimumDelay
    /\ UNCHANGED time

Execute(p) ==
    /\ status[p] = "Queued"
    /\ eta[p] <= time /\ time < eta[p] + GracePeriod
    /\ status' = [status EXCEPT ![p] = "Executed"]
    /\ UNCHANGED <<eta, time>>

\* A proposal is cancelled or vetoed at any time before its execution; a veto
\* is final.
Kill(p) ==
    /\ status[p] \notin {"Executed", "Vetoed"}
    /\ status'[p] \in {"Canceled", "Vetoed"}
    /\ status' = [status EXCEPT ![p] = status'[p]]
    /\ UNCHANGED <<eta, time>>

\* What time alone makes of a proposal, at time t.
Aged(p, t) ==
    IF status[p] = "Pending" THEN {"Pending", "Active"}
    ELSE IF status[p] = "Active" THEN {"Active", "Defeated", "Succeeded"}
    ELSE IF status[p] = "Queued" /\ t >= eta[p] + GracePeriod THEN {"Expired"}
    ELSE {status[p]}

Pass ==
    /\ time' \in Nat /\ time' > time
    /\ DOMAIN status' = DOMAIN status
    /\ status' = [p \in 1..Len(status) |-> status'[p]]
    /\ \A p \in 1..Len(status) : status'[p] \in Aged(p, time')
    /\ UNCHANGED eta

Next ==
    \/ Submit
    \/ \E p \in 1..Len(status) : Queue(p) \/ Execute(p) \/ Kill(p)
    \/ Pass

Spec == Init /\ [][Next]_vars
=============================================================================
