--------------------------- MODULE AlpsDAOExecutor ---------------------------
(***************************************************************************)
(* The timelock, AlpsDAOExecutor.sol: transactions its admin queues wait   *)
(* for the delay, can be executed for GRACE_PERIOD, and are gone once they *)
(* are executed or cancelled. The DAO is the admin throughout. It calls    *)
(* the timelock in a loop over the calls of a proposal, so each operator   *)
(* here takes the whole list: the calls of one transaction succeed         *)
(* together or revert together.                                            *)
(***************************************************************************)
EXTENDS Integers, Sequences

CONSTANTS
    MINIMUM_DELAY, MAXIMUM_DELAY, GRACE_PERIOD

ASSUME DelaysAssumption ==
    /\ MINIMUM_DELAY \in Nat \ {0} /\ MAXIMUM_DELAY \in Nat /\ MINIMUM_DELAY <= MAXIMUM_DELAY
    /\ GRACE_PERIOD \in Nat

Delays == MINIMUM_DELAY..MAXIMUM_DELAY

VARIABLES
    now,                  \* block.timestamp
    delay,
    queuedTransactions,   \* the transactions whose hash is mapped to true
    executions            \* the ExecuteTransaction events

timelockVars == <<delay, queuedTransactions, executions>>

\* A transaction is a call and the time it may be executed from; its hash
\* tells nothing else apart.
Transactions(calls, eta) == {[call |-> calls[i], eta |-> eta] : i \in 1..Len(calls)}

NoRepeats(calls) == \A i, j \in 1..Len(calls) : calls[i] = calls[j] => i = j

\* The value the calls leave in a storage slot that the calls of this kind
\* assign: the last assignment counts.
LastSet(calls, kind, old) ==
    LET assigning == {i \in 1..Len(calls) : calls[i].kind = kind}
        last == {i \in assigning : \A j \in assigning : j <= i}
    IN  IF last = {} THEN old ELSE calls[CHOOSE i \in last : TRUE].value

\* queueTransaction() of each call.
QueueTransactions(calls, eta) ==
    /\ eta >= now + delay
    /\ queuedTransactions' = queuedTransactions \cup Transactions(calls, eta)
    /\ UNCHANGED <<delay, executions>>

\* A fault: the transactions of a cancelled proposal stay in the timelock.
KeepTransactions(calls, eta) == UNCHANGED <<queuedTransactions, delay, executions>>

\* cancelTransaction() of each call: no complaint about one that is not queued.
CancelTransactions(calls, eta) ==
    /\ queuedTransactions' = queuedTransactions \ Transactions(calls, eta)
    /\ UNCHANGED <<delay, executions>>

\* executeTransaction() of each call, in order. The timelock calls itself for
\* setDelay().
ExecuteTransactions(calls, eta) ==
    /\ Transactions(calls, eta) \subseteq queuedTransactions
    /\ NoRepeats(calls)
    /\ now >= eta
    /\ now <= eta + GRACE_PERIOD
    /\ queuedTransactions' = queuedTransactions \ Transactions(calls, eta)
    /\ \A i \in 1..Len(calls) : calls[i].kind = "delay" => calls[i].value \in Delays
    /\ delay' = LastSet(calls, "delay", delay)
    /\ executions' = executions \o [i \in 1..Len(calls) |-> [call |-> calls[i], eta |-> eta]]
=============================================================================
