---------------------------- MODULE WorkerQueue ----------------------------
(***************************************************************************)
(* Which rows the reconciliation worker reaches.  Settlement leaves the    *)
(* choice of a batch open and assumes that every unsettled row is asked    *)
(* about again and again; this module models the ORDER BY updated_at       *)
(* LIMIT 100 of the batch, the touch that sends a served row to the back,  *)
(* the error path that does not, and passes that end early, and checks     *)
(* that assumption.  updated_at is only compared, so the unsettled rows    *)
(* are kept as the sequence it orders them in.                             *)
(***************************************************************************)
EXTENDS Naturals, SequencesExt

CONSTANTS
    Ids,        \* rows
    BatchSize   \* the LIMIT of Unsettled, 100 in the code

ASSUME QueueAssumption == BatchSize \in Nat \ {0}

VARIABLES
    status,     \* of each row
    queue,      \* the unsettled rows, by updated_at
    decided,    \* rows for which State answers confirmed, failed or expired
    batch,      \* the rows this pass has yet to ask about
    asking,     \* the row in hand and State's answer for it
    since       \* history: since[q], the rows served since q was last asked
                \* about or last written by a handler

vars == <<status, queue, decided, batch, asking, since>>

Unsettled == {"prepared", "pending"}
Nothing == [answer |-> "none"]
Waiting == {o \in Ids : status[o] \in Unsettled}

Init ==
    /\ status = [o \in Ids |-> "absent"]
    /\ queue = <<>>
    /\ decided = {}
    /\ batch = <<>>
    /\ asking = Nothing
    /\ since = [o \in Ids |-> {}]

-----------------------------------------------------------------------------
\* The queue without a row that is in it.
Without(q, o) == RemoveAt(q, CHOOSE i \in DOMAIN q : q[i] = o)

\* Bug: a served row keeps its place.
BugTouched(q, o) == q

\* updated_at = now(): the row moves behind every other one.
Touched(q, o) == Append(Without(q, o), o)

\* redeem journals a prepared row and issue a pending one.
Create(o, s) ==
    /\ status[o] = "absent"
    /\ status' = [status EXCEPT ![o] = s]
    /\ queue' = Append(queue, o)
    /\ UNCHANGED <<decided, batch, asking, since>>

Submit(o) ==
    /\ status[o] = "prepared"
    /\ status' = [status EXCEPT ![o] = "pending"]
    /\ queue' = Append(Without(queue, o), o)
    /\ since' = [since EXCEPT ![o] = {}]
    /\ UNCHANGED <<decided, batch, asking>>

\* The cluster finalizes the row's transaction or passes its last height.
Decide(o) ==
    /\ o \in Waiting \ decided
    /\ decided' = decided \cup {o}
    /\ UNCHANGED <<status, queue, batch, asking, since>>

-----------------------------------------------------------------------------
\* Bug: ORDER BY updated_at DESC.
BugOldest(q) == SubSeq(Reverse(q), 1, IF Len(q) < BatchSize THEN Len(q) ELSE BatchSize)

\* Bug: no LIMIT, so that one pass takes all rows.
BugUnlimited(q) == q

\* ORDER BY updated_at LIMIT BatchSize.
Oldest(q) == SubSeq(q, 1, IF Len(q) < BatchSize THEN Len(q) ELSE BatchSize)

ReadBatch ==
    /\ batch = <<>> /\ asking = Nothing
    /\ queue # <<>>
    /\ batch' = [i \in DOMAIN Oldest(queue) |->
                    [id |-> Oldest(queue)[i], status |-> status[Oldest(queue)[i]]]]
    /\ UNCHANGED <<status, queue, decided, asking, since>>

\* State for the next row of the batch.  It fails (an RPC error, or the pass
\* is out of time) or answers what the cluster has decided by now.
Ask(o, answer) ==
    /\ asking = Nothing
    /\ batch # <<>>
    /\ Head(batch).id = o
    /\ answer \in {"error", IF o \in decided THEN "decided" ELSE "pending"}
    /\ asking' = [answer |-> answer, row |-> Head(batch)]
    /\ batch' = Tail(batch)
    /\ since' = [since EXCEPT ![o] = {}]
    /\ UNCHANGED <<status, queue, decided>>

Answered(o, answer) == asking.answer = answer /\ asking.row.id = o

\* An error is logged and the row passed over, without the touch.
SkipRow ==
    /\ asking.answer = "error"
    /\ asking' = Nothing
    /\ UNCHANGED <<status, queue, decided, batch, since>>

\* Still pending: sent again if it has a signature, and touched.
Serve(o) ==
    /\ Answered(o, "pending")
    /\ asking' = Nothing
    /\ queue' = IF o \in Waiting THEN Touched(queue, o) ELSE queue
    /\ since' = [q \in Ids |-> IF q \in Waiting \ {o} THEN since[q] \cup {o} ELSE since[q]]
    /\ UNCHANGED <<status, decided, batch>>

\* UPDATE ... WHERE status is still that of the snapshot.
Settled(o) == status[o] = asking.row.status

Settle(o) ==
    /\ Answered(o, "decided")
    /\ asking' = Nothing
    /\ status' = IF Settled(o) THEN [status EXCEPT ![o] = "settled"] ELSE status
    /\ queue' = IF Settled(o) THEN Without(queue, o) ELSE queue
    /\ UNCHANGED <<decided, batch, since>>

\* The 20 seconds are over, a statement failed or the process ended.
Interrupt ==
    /\ batch # <<>> \/ asking # Nothing
    /\ batch' = <<>>
    /\ asking' = Nothing
    /\ UNCHANGED <<status, queue, decided, since>>

\* All rows are settled: the worker's ticker keeps finding nothing.
Rest ==
    /\ \A o \in Ids : status[o] = "settled"
    /\ UNCHANGED vars

Next ==
    \/ \E o \in Ids :
          \/ \E s \in Unsettled : Create(o, s)
          \/ Submit(o)
          \/ Decide(o)
          \/ \E answer \in {"error", "pending", "decided"} : Ask(o, answer)
          \/ Serve(o)
          \/ Settle(o)
    \/ ReadBatch
    \/ SkipRow
    \/ Interrupt
    \/ Rest

Spec == Init /\ [][Next]_vars

(***************************************************************************)
(* The ticker starts pass after pass, and a row that is at the head of a   *)
(* batch again and again is some time answered for, and then served or     *)
(* settled before its pass ends.  Nothing is assumed of a row that is not  *)
(* at the head.                                                            *)
(***************************************************************************)
Fairness ==
    /\ WF_vars(ReadBatch)
    /\ WF_vars(SkipRow)
    /\ \A o \in Ids :
          /\ SF_vars(\E answer \in {"pending", "decided"} : Ask(o, answer))
          /\ SF_vars(Serve(o))
          /\ SF_vars(Settle(o))

FairSpec == Spec /\ Fairness

-----------------------------------------------------------------------------
\* Every variable has its type; the queue holds each unsettled row once, and a
\* pass takes no more rows than its limit.
TypeOK ==
    /\ status \in [Ids -> {"absent", "settled"} \cup Unsettled]
    /\ ToSet(queue) = Waiting /\ IsInjective(queue)
    /\ decided \in SUBSET Ids
    /\ \A i \in DOMAIN batch : batch[i] \in [id : Ids, status : Unsettled]
    /\ Len(batch) <= BatchSize
    /\ asking \in {Nothing} \cup [answer : {"error", "pending", "decided"},
                                  row : [id : Ids, status : Unsettled]]
    /\ since \in [Ids -> SUBSET Ids]

\* The touch is fair ("Touch pending rows for fairness when the queue exceeds
\* one batch."): no row is asked about again after it was served while another
\* unsettled row has not been asked about since, whatever the passes that
\* ended early and the calls that failed.
NoRowIsOvertaken ==
    asking # Nothing => \A q \in Waiting \ {asking.row.id} : asking.row.id \notin since[q]

\* Every row the cluster has decided is eventually settled, and a pending row
\* is sent again and again until then: what Settlement's fairness assumes.
RowsAreServed ==
    \A o \in Ids :
        /\ o \in decided ~> status[o] = "settled"
        /\ []<>(status[o] # "pending" \/ Answered(o, "pending"))
=============================================================================
