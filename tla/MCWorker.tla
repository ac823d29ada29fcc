------------------------------ MODULE MCWorker ------------------------------
(***************************************************************************)
(* Small instances, for TLC, of what the worker brings about in the end:   *)
(* WorkerQueue, with more rows than one batch holds, shows that every      *)
(* unsettled row is reached again and again, and Settlement assumes that   *)
(* and shows that every row settles.  They share no state: every behaviour *)
(* is a behaviour of one of them, the scene, under its own fairness.       *)
(***************************************************************************)
EXTENDS WorkerQueue

CONSTANTS Operations, Handlers, Workers, None, Window, MaxHeight, ada, k1, k2, coffee

VARIABLES scene, journal, handler, worker, height, sent, ledger, balance, answers

\* An award and the redemption it pays for.
Journal ==
    INSTANCE Settlement WITH
        Ids <- Operations,
        Wallets <- {ada}, Keys <- {k1, k2}, Payloads <- {coffee},
        Points <- [p \in {coffee} |-> 1], Opening <- [v \in {ada} |-> 0],
        Requests <- {[kind |-> "earn", wallet |-> ada, key |-> k1, payload |-> coffee],
                     [kind |-> "redeem", wallet |-> ada, key |-> k2, payload |-> coffee]}

journalVars == <<journal, handler, worker, height, sent, ledger, balance, answers>>

MCInit ==
    /\ scene \in {"queue", "journal"}
    /\ Init /\ Journal!Init

MCNext ==
    \/ scene = "queue" /\ Next /\ UNCHANGED <<scene, journalVars>>
    \/ scene = "journal" /\ Journal!Next /\ UNCHANGED <<scene, vars>>

MCSpec ==
    /\ MCInit /\ [][MCNext]_<<scene, vars, journalVars>>
    /\ \/ scene = "queue" /\ Fairness
       \/ scene = "journal" /\ Journal!Fairness

-----------------------------------------------------------------------------
\* Every row the cluster has decided is eventually settled, and a pending row
\* is sent again and again until then (RowsAreServed of WorkerQueue).
QueueIsServed == scene = "queue" => RowsAreServed

\* Every journaled operation is eventually settled, and one whose transaction
\* was finalized with success eventually confirmed (Settlement).
EveryRowSettles == scene = "journal" => Journal!EveryRowSettles
=============================================================================
