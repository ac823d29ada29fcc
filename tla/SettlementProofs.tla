-------------------------- MODULE SettlementProofs --------------------------
(***************************************************************************)
(* Theorems about Settlement for every value of its constants.             *)
(*                                                                         *)
(* Lemmas about the row updates and about what a step may do to the        *)
(* journal (RowsMove) and to the cluster (LedgerMoves) come first; the     *)
(* conjuncts of IInv are then shown to be preserved one by one.  The sums  *)
(* of points follow (PointsInv, by the lemmas of FiniteSums), and at the   *)
(* end the refinement of LoyaltyPromise, a step at a time.                 *)
(***************************************************************************)
EXTENDS SettlementRefinement, FiniteSums, TLAPS

-----------------------------------------------------------------------------
(* The operators that rewrite one row.                                     *)

LEMMA NewRowType ==
  ASSUME NEW d, d.req \in Requests, d.id \in Ids, d.lastHeight \in Nat
  PROVE  /\ NewRow(d) \in Row
         /\ NewRow(d).req = d.req
         /\ NewRow(d).lastHeight = d.lastHeight
         /\ NewRow(d).claim = 0 /\ NewRow(d).collected = 0
         /\ d.req.kind = "earn" => NewRow(d).status = "pending" /\ NewRow(d).signature = d.id
         /\ d.req.kind # "earn" => NewRow(d).status = "prepared" /\ NewRow(d).signature = None
BY DEF NewRow, Row, Unsettled, Terminal

LEMMA SubmittedRowType ==
  ASSUME NEW row \in Row, NEW m \in Ids
  PROVE  LET new == SubmittedRow(row, m) IN
         /\ new \in Row
         /\ new.req = row.req /\ new.lastHeight = row.lastHeight
         /\ new.claim = row.claim /\ new.collected = row.collected
         /\ row.status # "prepared" => new = row
         /\ row.status = "prepared" => new.status = "pending" /\ new.signature = m
BY DEF SubmittedRow, Row, Unsettled, Terminal

LEMMA SettledRowType ==
  ASSUME NEW row \in Row, NEW s \in Snapshot, NEW v \in Verdicts \ {"pending"}
  PROVE  LET new == SettledRow(row, s, v) IN
         /\ new \in Row
         /\ new.req = row.req /\ new.lastHeight = row.lastHeight
         /\ new.signature = row.signature /\ new.collected = row.collected
         /\ ~(row.status = s.status /\ row.signature = s.signature) => new = row
         /\ row.status = s.status /\ row.signature = s.signature =>
               /\ new.status = v
               /\ new.claim = IF v = "confirmed" /\ row.req.kind = "redeem"
                              THEN row.claim + 1 ELSE row.claim
<1>1. CASE row.status = s.status /\ row.signature = s.signature
  <2> DEFINE n == IF v = "confirmed" /\ row.req.kind = "redeem" THEN row.claim + 1 ELSE row.claim
  <2>1. n \in Nat
    BY DEF Row
  <2>2. SettledRow(row, s, v) = [row EXCEPT !.status = v, !.claim = n]
    BY <1>1 DEF SettledRow
  <2> HIDE DEF n
  <2>3. [row EXCEPT !.status = v, !.claim = n] \in Row
    BY <2>1 DEF Row, Verdicts, Terminal
  <2>4. LET new == [row EXCEPT !.status = v, !.claim = n] IN
          /\ new.req = row.req /\ new.lastHeight = row.lastHeight
          /\ new.signature = row.signature /\ new.collected = row.collected
          /\ new.status = v /\ new.claim = n
    BY DEF Row
  <2> QED
    BY <1>1, <2>2, <2>3, <2>4 DEF n
<1>2. CASE ~(row.status = s.status /\ row.signature = s.signature)
  BY <1>2 DEF SettledRow
<1> QED
  BY <1>1, <1>2

LEMMA CollectedRowType ==
  ASSUME NEW row \in Row, Collectable(row)
  PROVE  LET new == [row EXCEPT !.collected = @ + 1] IN
         /\ new \in Row
         /\ new.req = row.req /\ new.lastHeight = row.lastHeight
         /\ new.signature = row.signature /\ new.claim = row.claim
         /\ new.status = row.status /\ new.collected = 1
BY DEF Collectable, Row

LEMMA RowsAreTyped ==
  ASSUME TypeOK, NEW o \in Journaled
  PROVE  /\ o \in Ids
         /\ journal[o] \in Row
         /\ Of(o) \in Requests
         /\ Of(o) \in Request
         /\ Points[Of(o).payload] \in Nat
         /\ Of(o).wallet \in Wallets
BY SettlementAssumption DEF TypeOK, Journaled, Row, Absent, Of, Request

-----------------------------------------------------------------------------
(* Who writes what.                                                        *)

LEMMA JournalWriters ==
  ASSUME [Next]_vars
  PROVE  \/ UNCHANGED journal
         \/ \E h \in Handlers : Insert(h) \/ Submit(h)
         \/ \E o \in Ids : Fulfill(o)
         \/ \E w \in Workers : Settle(w)
<1>1. ASSUME NEW h \in Handlers, HandlerStep(h), ~Insert(h), ~Submit(h)
      PROVE  UNCHANGED journal
  BY <1>1 DEF HandlerStep, Find, Replay, CheckBalance, Prepare, Reread, ReadSubmit, Abandon
<1>2. ASSUME NEW w \in Workers, WorkerStep(w), ~Settle(w)
      PROVE  UNCHANGED journal
  BY <1>2 DEF WorkerStep, ReadBatch, ReadHeight, ReadStatus, SkipRow, KeepPending, Interrupt
<1>3. ASSUME ChainStep
      PROVE  UNCHANGED journal
  BY <1>3 DEF ChainStep, Land, Drop, Succeed, Fail, AdvanceHeight, BurnOutside
<1> QED
  BY <1>1, <1>2, <1>3 DEF Next, vars

LEMMA ChainWriters ==
  ASSUME [Next]_vars
  PROVE  \/ UNCHANGED <<height, sent, ledger>>
         \/ \E w \in Workers : KeepPending(w)
         \/ AdvanceHeight
         \/ \E o \in Ids : Land(o) \/ Drop(o) \/ Succeed(o) \/ Fail(o)
<1>1. ASSUME NEW h \in Handlers, HandlerStep(h)
      PROVE  UNCHANGED <<height, sent, ledger>>
  BY <1>1 DEF HandlerStep, Find, Replay, CheckBalance, Prepare, Insert, Reread, ReadSubmit,
              Submit, Abandon, chain
<1>2. ASSUME NEW w \in Workers, WorkerStep(w), ~KeepPending(w)
      PROVE  UNCHANGED <<height, sent, ledger>>
  BY <1>2 DEF WorkerStep, ReadBatch, ReadHeight, ReadStatus, SkipRow, Settle, Interrupt, chain
<1>3. ASSUME NEW o \in Ids, Fulfill(o)
      PROVE  UNCHANGED <<height, sent, ledger>>
  BY <1>3 DEF Fulfill, chain
<1>4. ASSUME NEW v \in Wallets, BurnOutside(v)
      PROVE  UNCHANGED <<height, sent, ledger>>
  BY <1>4 DEF BurnOutside
<1> QED
  BY <1>1, <1>2, <1>3, <1>4 DEF Next, ChainStep, vars

-----------------------------------------------------------------------------
(* What the writers of the journal do to it.                               *)

LEMMA InsertEffect ==
  ASSUME TypeOK, HandlerInv, NEW h \in Handlers, Insert(h), journal' # journal
  PROVE  LET d == handler[h] IN
         /\ d.pc = "insert" /\ d.req \in Requests /\ d.id \in Ids /\ d.lastHeight \in Nat
         /\ d.id \notin Journaled
         /\ FindKey(d.req) = {}
         /\ NewRow(d) \in Row
         /\ journal' = [journal EXCEPT ![d.id] = NewRow(d)]
         /\ Journaled' = Journaled \cup {d.id}
<1> DEFINE d == handler[h]
<1>1. d.pc = "insert" /\ d.req \in Requests /\ d.id \in Ids /\ d.lastHeight \in Nat
  BY DEF Insert, TypeOK, HandlerState, IdleHandler
<1>2. NewRow(d) \in Row
  BY <1>1, NewRowType
<1>3. d.id \notin Journaled
  BY <1>1 DEF HandlerInv
<1>4. FindKey(d.req) = {} /\ journal' = [journal EXCEPT ![d.id] = NewRow(d)]
  BY DEF Insert, InsertRow
<1>5. Journaled' = Journaled \cup {d.id}
  <2>1. NewRow(d).status # "absent"
    BY <1>2 DEF Row, Unsettled, Terminal
  <2> QED
    BY <1>1, <1>4, <2>1 DEF Journaled, TypeOK
<1> QED
  BY <1>1, <1>2, <1>3, <1>4, <1>5

LEMMA SubmitEffect ==
  ASSUME TypeOK, HandlerInv, NEW h \in Handlers, Submit(h)
  PROVE  LET o == handler[h].id IN
         /\ handler[h].pc = "update"
         /\ handler[h].signature = o
         /\ o \in Journaled
         /\ Of(o).kind = "redeem"
         /\ journal' = [journal EXCEPT ![o] = SubmittedRow(journal[o], o)]
         /\ SubmittedRow(journal[o], o) \in Row
         /\ Journaled' = Journaled
<1> DEFINE o == handler[h].id
<1>1. handler[h].pc = "update" /\ handler[h].signature = o /\ o \in Journaled /\ Of(o).kind = "redeem"
  BY DEF Submit, HandlerInv
<1>2. o \in Ids /\ journal[o] \in Row
  BY <1>1, RowsAreTyped
<1>3. SubmittedRow(journal[o], o) \in Row
  BY <1>2, SubmittedRowType
<1>4. journal' = [journal EXCEPT ![o] = SubmittedRow(journal[o], o)]
  BY <1>1 DEF Submit
<1>5. Journaled' = Journaled
  BY <1>1, <1>2, <1>3, <1>4 DEF Journaled, TypeOK, Row, Unsettled, Terminal
<1> QED
  BY <1>1, <1>3, <1>4, <1>5

LEMMA FulfillEffect ==
  ASSUME TypeOK, NEW o \in Ids, Fulfill(o)
  PROVE  LET new == [journal[o] EXCEPT !.collected = @ + 1] IN
         /\ o \in Journaled
         /\ Collectable(journal[o])
         /\ new \in Row
         /\ journal' = [journal EXCEPT ![o] = new]
         /\ Journaled' = Journaled
<1>1. o \in Journaled /\ Collectable(journal[o]) /\ journal[o] \in Row
  BY RowsAreTyped DEF Fulfill
<1>2. [journal[o] EXCEPT !.collected = @ + 1] \in Row
  BY <1>1, CollectedRowType
<1>3. journal' = [journal EXCEPT ![o] = [journal[o] EXCEPT !.collected = @ + 1]]
  BY DEF Fulfill
<1>4. Journaled' = Journaled
  BY <1>1, <1>2, <1>3 DEF Journaled, TypeOK, Row, Unsettled, Terminal
<1> QED
  BY <1>1, <1>2, <1>3, <1>4

LEMMA SettleEffect ==
  ASSUME TypeOK, WorkerInv, NEW w \in Workers, Settle(w)
  PROVE  LET s == worker[w].row
             v == worker[w].verdict IN
         /\ worker[w].pc = "act"
         /\ s \in Snapshot
         /\ v \in Verdicts \ {"pending"}
         /\ s.id \in Journaled
         /\ journal' = [journal EXCEPT ![s.id] = SettledRow(journal[s.id], s, v)]
         /\ SettledRow(journal[s.id], s, v) \in Row
         /\ Journaled' = Journaled
<1> DEFINE s == worker[w].row
           v == worker[w].verdict
<1>1. worker[w].pc = "act" /\ s \in Snapshot /\ v \in Verdicts \ {"pending"}
  BY DEF Settle, TypeOK, WorkerState
<1>2. s.id \in Journaled
  BY <1>1 DEF WorkerInv, SnapshotInv
<1>3. journal[s.id] \in Row
  BY <1>2, RowsAreTyped
<1>4. SettledRow(journal[s.id], s, v) \in Row
  BY <1>1, <1>3, SettledRowType
<1>5. journal' = [journal EXCEPT ![s.id] = SettledRow(journal[s.id], s, v)]
  BY DEF Settle
<1>6. Journaled' = Journaled
  BY <1>2, <1>3, <1>4, <1>5 DEF Journaled, TypeOK, Row, Unsettled, Terminal
<1> QED
  BY <1>1, <1>2, <1>4, <1>5, <1>6

-----------------------------------------------------------------------------
(* Types.                                                                  *)

LEMMA TypeStep ==
  ASSUME IInv, [Next]_vars
  PROVE  TypeOK'
<1> USE SettlementAssumption DEF TypeOK
<1>0. TypeOK /\ HandlerInv /\ WorkerInv /\ SentIsJournaled /\ LedgerInv
  BY DEF IInv
<1>1. ASSUME NEW h \in Handlers, NEW r \in Requests, Find(h, r) PROVE TypeOK'
  BY <1>0, <1>1 DEF Find, HandlerState, chain
<1>2. ASSUME NEW h \in Handlers, NEW r \in Requests, Replay(h, r) PROVE TypeOK'
  BY <1>0, <1>2 DEF Replay, FindKey, Journaled, chain
<1>3. ASSUME NEW h \in Handlers, CheckBalance(h) PROVE TypeOK'
  BY <1>0, <1>3 DEF CheckBalance, HandlerState, IdleHandler, chain
<1>4. ASSUME NEW h \in Handlers, NEW o \in Ids, Prepare(h, o) PROVE TypeOK'
  BY <1>0, <1>4 DEF Prepare, HandlerState, IdleHandler, chain
<1>5. ASSUME NEW h \in Handlers, Insert(h) PROVE TypeOK'
  <2>1. journal' \in [Ids -> Row \cup {Absent}]
    BY <1>0, <1>5, InsertEffect
  <2>2. handler' \in [Handlers -> HandlerState]
    BY <1>0, <1>5 DEF Insert, HandlerState, IdleHandler
  <2> QED
    BY <1>0, <1>5, <2>1, <2>2 DEF Insert, chain
<1>6. ASSUME NEW h \in Handlers, Reread(h) PROVE TypeOK'
  BY <1>0, <1>6 DEF Reread, Created, FindKey, Journaled, HandlerState, IdleHandler, chain
<1>7. ASSUME NEW h \in Handlers, NEW o \in Ids, NEW m \in Ids, ReadSubmit(h, o, m) PROVE TypeOK'
  BY <1>0, <1>7 DEF ReadSubmit, HandlerState, chain
<1>8. ASSUME NEW h \in Handlers, Submit(h) PROVE TypeOK'
  <2>1. journal' \in [Ids -> Row \cup {Absent}]
    BY <1>0, <1>8, SubmitEffect
  <2> QED
    BY <1>0, <1>8, <2>1 DEF Submit, HandlerState, chain
<1>9. ASSUME NEW h \in Handlers, Abandon(h) PROVE TypeOK'
  BY <1>0, <1>9 DEF Abandon, HandlerState, chain
<1>10. ASSUME NEW o \in Ids, Fulfill(o) PROVE TypeOK'
  <2>1. journal' \in [Ids -> Row \cup {Absent}]
    BY <1>0, <1>10, FulfillEffect
  <2> QED
    BY <1>0, <1>10, <2>1 DEF Fulfill, chain
<1>11. ASSUME NEW w \in Workers, ReadBatch(w) PROVE TypeOK'
  BY <1>0, <1>11
     DEF ReadBatch, Journaled, WorkerState, IdleWorker, SnapshotOf, Snapshot, Row, Absent, Unsettled, chain
<1>12. ASSUME NEW w \in Workers, NEW o \in Ids, ReadHeight(w, o) PROVE TypeOK'
  BY <1>0, <1>12 DEF ReadHeight, WorkerState, chain
<1>13. ASSUME NEW w \in Workers, ReadStatus(w) PROVE TypeOK'
  BY <1>0, <1>13 DEF ReadStatus, Verdict, StatusOf, Verdicts, WorkerState, chain
<1>14. ASSUME NEW w \in Workers, SkipRow(w) PROVE TypeOK'
  BY <1>0, <1>14 DEF SkipRow, NextRow, WorkerState, chain
<1>15. ASSUME NEW w \in Workers, KeepPending(w) PROVE TypeOK'
  <2>1. Sendable(worker[w].row) \subseteq Ids
    BY <1>0, <1>15 DEF KeepPending, Sendable, WorkerInv, SnapshotInv, Journaled
  <2> QED
    BY <1>0, <1>15, <2>1 DEF KeepPending, NextRow, WorkerState
<1>16. ASSUME NEW w \in Workers, Settle(w) PROVE TypeOK'
  <2>1. journal' \in [Ids -> Row \cup {Absent}]
    BY <1>0, <1>16, SettleEffect
  <2> QED
    BY <1>0, <1>16, <2>1 DEF Settle, NextRow, WorkerState, chain
<1>17. ASSUME NEW w \in Workers, Interrupt(w) PROVE TypeOK'
  BY <1>0, <1>17 DEF Interrupt, IdleWorker, WorkerState, chain
<1>18. ASSUME NEW o \in Ids, Land(o) \/ Drop(o) \/ Fail(o) PROVE TypeOK'
  BY <1>0, <1>18 DEF Land, Drop, Fail
<1>19. ASSUME NEW o \in Ids, Succeed(o) PROVE TypeOK'
  <2>1. o \in Journaled
    BY <1>0, <1>19 DEF Succeed, LedgerInv, SentIsJournaled
  <2>2. Of(o).wallet \in Wallets /\ Points[Of(o).payload] \in Nat
    BY <1>0, <2>1, RowsAreTyped
  <2> QED
    BY <1>0, <1>19, <2>2 DEF Succeed
<1>20. CASE AdvanceHeight
  BY <1>0, <1>20 DEF AdvanceHeight
<1>21. ASSUME NEW v \in Wallets, BurnOutside(v) PROVE TypeOK'
  BY <1>0, <1>21 DEF BurnOutside
<1>22. CASE UNCHANGED vars
  BY <1>0, <1>22 DEF vars
<1> HIDE DEF TypeOK
<1> QED
  BY <1>1, <1>2, <1>3, <1>4, <1>5, <1>6, <1>7, <1>8, <1>9, <1>10, <1>11, <1>12, <1>13, <1>14, <1>15,
     <1>16, <1>17, <1>18, <1>19, <1>20, <1>21, <1>22
     DEF Next, HandlerStep, WorkerStep, ChainStep

-----------------------------------------------------------------------------
(* What a step may do to a row, and to the cluster.                        *)

LEMMA RowsMove ==
  ASSUME IInv, [Next]_vars
  PROVE  JournalMoves
<1>0. TypeOK /\ HandlerInv /\ WorkerInv /\ SignatureInv /\ CodeIsFinal
  BY DEF IInv
<1> SUFFICES ASSUME NEW o \in Journaled
             PROVE  o \in Journaled' /\ RowMoves(journal[o], journal'[o])
  BY DEF JournalMoves
<1>1. o \in Ids /\ journal[o] \in Row
  BY <1>0, RowsAreTyped
<1>2. CASE UNCHANGED journal
  BY <1>2 DEF Journaled, RowMoves, Terminal
<1>3. ASSUME NEW h \in Handlers, Insert(h) PROVE o \in Journaled' /\ RowMoves(journal[o], journal'[o])
  <2>1. CASE journal' = journal
    BY <2>1, <1>2
  <2>2. CASE journal' # journal
    <3>1. o \in Journaled' /\ journal'[o] = journal[o]
      BY <1>0, <1>1, <1>3, <2>2, InsertEffect DEF TypeOK
    <3> QED
      BY <3>1 DEF RowMoves
  <2> QED
    BY <2>1, <2>2
<1>4. ASSUME NEW h \in Handlers, Submit(h) PROVE o \in Journaled' /\ RowMoves(journal[o], journal'[o])
  <2>1. o \in Journaled' /\ (journal'[o] = journal[o] \/ journal'[o] = SubmittedRow(journal[o], o))
    BY <1>0, <1>1, <1>4, SubmitEffect DEF TypeOK
  <2>2. journal[o].status = "prepared" => journal[o].signature = None
    BY <1>0 DEF SignatureInv
  <2> QED
    BY <1>1, <2>1, <2>2, SubmittedRowType DEF RowMoves, Terminal
<1>5. ASSUME NEW p \in Ids, Fulfill(p) PROVE o \in Journaled' /\ RowMoves(journal[o], journal'[o])
  <2>1. o \in Journaled'
    BY <1>0, <1>5, FulfillEffect
  <2>2. \/ journal'[o] = journal[o]
        \/ Collectable(journal[o]) /\ journal'[o] = [journal[o] EXCEPT !.collected = @ + 1]
    BY <1>0, <1>1, <1>5, FulfillEffect DEF TypeOK
  <2> QED
    BY <1>1, <2>1, <2>2, CollectedRowType DEF RowMoves
<1>6. ASSUME NEW w \in Workers, Settle(w) PROVE o \in Journaled' /\ RowMoves(journal[o], journal'[o])
  <2> DEFINE s == worker[w].row
             v == worker[w].verdict
  <2>1. s \in Snapshot /\ v \in Verdicts \ {"pending"} /\ o \in Journaled'
    BY <1>0, <1>6, SettleEffect
  <2>2. journal'[o] = journal[o] \/ journal'[o] = SettledRow(journal[o], s, v)
    BY <1>0, <1>1, <1>6, SettleEffect DEF TypeOK
  <2>3. journal[o].status \in Unsettled => journal[o].claim = 0
    BY <1>0 DEF CodeIsFinal, Unsettled
  <2>4. s.status \in Unsettled
    BY <2>1 DEF Snapshot
  <2> HIDE DEF s, v
  <2> QED
    BY <1>1, <2>1, <2>2, <2>3, <2>4, SettledRowType DEF RowMoves, Unsettled, Terminal, Verdicts
<1> QED
  BY <1>2, <1>3, <1>4, <1>5, <1>6, JournalWriters

\* The finalized height never falls, outcomes are final, and a transaction
\* past its last valid height stays off the ledger.
LEMMA LedgerMoves ==
  ASSUME IInv, [Next]_vars
  PROVE  /\ height' >= height
         /\ sent \subseteq sent'
         /\ \A o \in Ids :
               /\ ledger[o] \in {"success", "error"} => ledger'[o] = ledger[o]
               /\ ledger[o] = "absent" /\ height >= journal[o].lastHeight => ledger'[o] = "absent"
<1>0. TypeOK
  BY DEF IInv
<1> USE <1>0 DEF TypeOK
<1> DEFINE Goal ==
         /\ height' >= height
         /\ sent \subseteq sent'
         /\ \A o \in Ids :
               /\ ledger[o] \in {"success", "error"} => ledger'[o] = ledger[o]
               /\ ledger[o] = "absent" /\ height >= journal[o].lastHeight => ledger'[o] = "absent"
<1>1. CASE UNCHANGED <<height, sent, ledger>>
  BY <1>1
<1>2. ASSUME NEW w \in Workers, KeepPending(w) PROVE Goal
  BY <1>2 DEF KeepPending
<1>3. CASE AdvanceHeight
  BY <1>3 DEF AdvanceHeight
<1>4. ASSUME NEW p \in Ids, Land(p) PROVE Goal
  <2>1. ASSUME NEW o \in Ids
        PROVE  /\ ledger[o] \in {"success", "error"} => ledger'[o] = ledger[o]
               /\ ledger[o] = "absent" /\ height >= journal[o].lastHeight => ledger'[o] = "absent"
    <3>1. CASE o = p
      <4>1. p \in Journaled
        BY <1>4 DEF Land, IInv, SentIsJournaled
      <4>2. journal[p].lastHeight \in Nat
        BY <4>1, RowsAreTyped DEF Row
      <4> QED
        BY <1>4, <3>1, <4>2 DEF Land
    <3>2. CASE o # p
      BY <1>4, <3>2 DEF Land
    <3> QED
      BY <3>1, <3>2
  <2> QED
    BY <1>4, <2>1 DEF Land
<1>5. ASSUME NEW p \in Ids, Drop(p) \/ Succeed(p) \/ Fail(p) PROVE Goal
  BY <1>5 DEF Drop, Succeed, Fail
<1> QED
  BY <1>1, <1>2, <1>3, <1>4, <1>5, ChainWriters

\* A row of the next state is an old one, the one just inserted, or one that
\* was submitted, collected or settled.
Inserted(o) ==
    /\ o \notin Journaled
    /\ \E h \in Handlers :
          /\ handler[h].pc = "insert" /\ handler[h].id = o
          /\ handler[h].req \in Requests /\ handler[h].lastHeight \in Nat
          /\ FindKey(handler[h].req) = {}
          /\ journal'[o] = NewRow(handler[h])
          /\ Insert(h)
    /\ Journaled' = Journaled \cup {o}

Rewritten(o) ==
    /\ o \in Journaled
    /\ journal'[o] \in Row
    /\ journal'[o].req = journal[o].req /\ journal'[o].lastHeight = journal[o].lastHeight
    /\ UNCHANGED <<height, sent, ledger>>

Submitted(o) ==
    /\ Rewritten(o)
    /\ journal[o].status = "prepared" /\ journal[o].req.kind = "redeem"
    /\ journal'[o].status = "pending" /\ journal'[o].signature = o
    /\ journal'[o].claim = journal[o].claim /\ journal'[o].collected = journal[o].collected

Collected(o) ==
    /\ Rewritten(o)
    /\ Collectable(journal[o])
    /\ journal'[o].status = journal[o].status /\ journal'[o].signature = journal[o].signature
    /\ journal'[o].claim = journal[o].claim /\ journal'[o].collected = 1

Decided(o) ==
    /\ Rewritten(o)
    /\ journal[o].status \in Unsettled
    /\ journal'[o].status \in Terminal
    /\ journal'[o].signature = journal[o].signature
    /\ journal'[o].collected = journal[o].collected
    /\ journal'[o].claim = IF journal'[o].status = "confirmed" /\ journal[o].req.kind = "redeem"
                           THEN journal[o].claim + 1 ELSE journal[o].claim
    /\ journal'[o].status \in {"confirmed", "failed"} => journal[o].signature = o
    /\ journal'[o].status = "confirmed" => ledger[o] = "success"
    /\ journal'[o].status = "failed" => ledger[o] = "error"
    /\ journal'[o].status = "expired" =>
          height > journal[o].lastHeight /\ (journal[o].signature = o => ledger[o] = "absent")

LEMMA SettledIsDecided ==
  ASSUME TypeOK, WorkerInv, NEW w \in Workers, Settle(w), NEW o \in Ids, journal'[o] # journal[o]
  PROVE  Decided(o)
<1> DEFINE s == worker[w].row
           v == worker[w].verdict
<1>1. /\ worker[w].pc = "act" /\ s \in Snapshot /\ v \in Verdicts \ {"pending"}
      /\ s.id \in Journaled
  BY SettleEffect
<1>2. s.id = o /\ journal'[o] = SettledRow(journal[o], s, v)
  BY SettleEffect DEF TypeOK
<1>3. o \in Journaled /\ journal[o] \in Row
  BY <1>1, <1>2, RowsAreTyped
<1>4. UNCHANGED <<height, sent, ledger>>
  BY DEF Settle, chain
<1>5. SnapshotInv(s) /\ VerdictInv(s, v)
  BY <1>1 DEF WorkerInv
<1>6. s.status \in Unsettled /\ v \in Terminal
  BY <1>1 DEF Snapshot, Verdicts, Terminal
<1> HIDE DEF s, v
<1>7. journal[o].status = s.status /\ journal[o].signature = s.signature
  BY <1>1, <1>2, <1>3, SettledRowType
<1>8. Rewritten(o) /\ journal'[o].status = v
  BY <1>1, <1>2, <1>3, <1>4, <1>7, SettledRowType DEF Rewritten
<1>9. /\ journal'[o].signature = journal[o].signature
      /\ journal'[o].collected = journal[o].collected
      /\ journal'[o].claim = IF journal'[o].status = "confirmed" /\ journal[o].req.kind = "redeem"
                             THEN journal[o].claim + 1 ELSE journal[o].claim
  BY <1>1, <1>2, <1>3, <1>7, <1>8, SettledRowType
<1> QED
  BY <1>2, <1>5, <1>6, <1>7, <1>8, <1>9 DEF Decided, SnapshotInv, VerdictInv

LEMMA RowSteps ==
  ASSUME IInv, [Next]_vars, NEW o \in Journaled'
  PROVE  \/ o \in Journaled /\ journal'[o] = journal[o]
         \/ Inserted(o) \/ Submitted(o) \/ Collected(o) \/ Decided(o)
<1> DEFINE Goal == \/ o \in Journaled /\ journal'[o] = journal[o]
                   \/ Inserted(o) \/ Submitted(o) \/ Collected(o) \/ Decided(o)
<1>0. TypeOK /\ HandlerInv /\ WorkerInv /\ o \in Ids
  BY DEF IInv, Journaled
<1>1. CASE UNCHANGED journal
  BY <1>1 DEF Journaled
<1>2. ASSUME NEW h \in Handlers, Insert(h) PROVE Goal
  <2>1. CASE journal' = journal
    BY <2>1, <1>1
  <2>2. CASE journal' # journal
    <3> DEFINE d == handler[h]
    <3>1. /\ d.pc = "insert" /\ d.req \in Requests /\ d.id \in Ids /\ d.lastHeight \in Nat
          /\ d.id \notin Journaled /\ FindKey(d.req) = {}
          /\ journal' = [journal EXCEPT ![d.id] = NewRow(d)]
          /\ Journaled' = Journaled \cup {d.id}
      BY <1>0, <1>2, <2>2, InsertEffect
    <3>2. CASE o = d.id
      <4>1. journal'[o] = NewRow(d)
        BY <1>0, <3>1, <3>2 DEF TypeOK
      <4> QED
        BY <1>2, <3>1, <3>2, <4>1 DEF Inserted
    <3>3. CASE o # d.id
      BY <1>0, <3>1, <3>3 DEF TypeOK
    <3> QED
      BY <3>2, <3>3
  <2> QED
    BY <2>1, <2>2
<1>3. ASSUME NEW h \in Handlers, Submit(h) PROVE Goal
  <2>1. o \in Journaled /\ journal[o] \in Row
    BY <1>0, <1>3, SubmitEffect, RowsAreTyped
  <2>2. CASE journal'[o] = journal[o]
    BY <2>1, <2>2
  <2>3. CASE journal'[o] # journal[o]
    <3>1. handler[h].id = o /\ Of(o).kind = "redeem" /\ journal'[o] = SubmittedRow(journal[o], o)
      BY <1>0, <1>3, <2>3, SubmitEffect DEF TypeOK
    <3>2. UNCHANGED <<height, sent, ledger>>
      BY <1>3 DEF Submit, chain
    <3>3. Submitted(o)
      BY <1>0, <2>1, <2>3, <3>1, <3>2, SubmittedRowType DEF Submitted, Rewritten, Of
    <3> QED
      BY <3>3
  <2> QED
    BY <2>2, <2>3
<1>4. ASSUME NEW p \in Ids, Fulfill(p) PROVE Goal
  <2>1. o \in Journaled /\ journal[o] \in Row
    BY <1>0, <1>4, FulfillEffect, RowsAreTyped
  <2>2. CASE o # p
    BY <1>0, <1>4, <2>1, <2>2, FulfillEffect DEF TypeOK
  <2>3. CASE o = p
    <3>1. Collectable(journal[o]) /\ journal'[o] = [journal[o] EXCEPT !.collected = @ + 1]
      BY <1>0, <1>4, <2>3, FulfillEffect DEF TypeOK
    <3>2. UNCHANGED <<height, sent, ledger>>
      BY <1>4 DEF Fulfill, chain
    <3>3. Collected(o)
      BY <2>1, <3>1, <3>2, CollectedRowType DEF Collected, Rewritten
    <3> QED
      BY <3>3
  <2> QED
    BY <2>2, <2>3
<1>5. ASSUME NEW w \in Workers, Settle(w) PROVE Goal
  BY <1>0, <1>5, SettleEffect, SettledIsDecided
<1> QED
  BY <1>1, <1>2, <1>3, <1>4, <1>5, JournalWriters

-----------------------------------------------------------------------------
(* The conjuncts of IInv, one by one.                                      *)

LEMMA SignatureStep ==
  ASSUME IInv, [Next]_vars
  PROVE  SignatureInv'
<1> SUFFICES ASSUME NEW o \in Journaled'
             PROVE  /\ journal'[o].signature \in {None, o}
                    /\ journal'[o].status = "prepared" => journal'[o].signature = None
                    /\ journal'[o].status \in {"pending", "confirmed", "failed"} => journal'[o].signature = o
  BY DEF SignatureInv
<1>1. SignatureInv
  BY DEF IInv
<1>2. CASE o \in Journaled /\ journal'[o] = journal[o]
  BY <1>1, <1>2 DEF SignatureInv
<1>3. CASE Inserted(o)
  BY <1>3 DEF Inserted, NewRow
<1>4. CASE Submitted(o)
  BY <1>4 DEF Submitted
<1>5. CASE Collected(o)
  BY <1>1, <1>5 DEF Collected, Rewritten, SignatureInv
<1>6. CASE Decided(o)
  BY <1>1, <1>6 DEF Decided, Rewritten, SignatureInv, Terminal
<1> QED
  BY <1>2, <1>3, <1>4, <1>5, <1>6, RowSteps

LEMMA SentStep ==
  ASSUME IInv, [Next]_vars
  PROVE  SentIsJournaled'
<1>0. TypeOK /\ SentIsJournaled /\ WorkerInv /\ None \notin Ids
  BY SettlementAssumption DEF IInv
<1> SUFFICES ASSUME NEW o \in sent'
             PROVE  o \in Journaled' /\ journal'[o].signature = o
  BY DEF SentIsJournaled
<1>1. CASE o \in sent
  <2>1. o \in Journaled /\ journal[o].signature = o /\ o \in Ids
    BY <1>0, <1>1 DEF SentIsJournaled, Journaled
  <2> QED
    BY <1>0, <2>1, RowsMove DEF JournalMoves, RowMoves
<1>2. CASE o \notin sent
  <2>1. PICK w \in Workers : KeepPending(w)
    BY <1>2, ChainWriters DEF AdvanceHeight, Land, Drop, Succeed, Fail
  <2>2. o \in Sendable(worker[w].row) /\ worker[w].pc = "act"
    BY <1>2, <2>1 DEF KeepPending
  <2>3. o \in Journaled /\ journal[o].signature = o
    BY <1>0, <2>2 DEF Sendable, WorkerInv, SnapshotInv
  <2> QED
    BY <2>1, <2>3 DEF KeepPending, Journaled
<1> QED
  BY <1>1, <1>2

LEMMA LedgerStep ==
  ASSUME IInv, [Next]_vars
  PROVE  LedgerInv'
<1>0. TypeOK /\ LedgerInv /\ SentIsJournaled /\ JournalMoves
  BY RowsMove DEF IInv
<1> SUFFICES ASSUME NEW o \in Ids
             PROVE  /\ ledger'[o] # "absent" => o \in sent'
                    /\ ledger'[o] = "landed" => height' < journal'[o].lastHeight
  BY DEF LedgerInv
<1>1. o \in sent => journal'[o].lastHeight = journal[o].lastHeight /\ journal[o].lastHeight \in Nat
  BY <1>0, RowsAreTyped DEF SentIsJournaled, JournalMoves, RowMoves, Row
<1>2. (ledger[o] # "absent" => o \in sent) /\ (ledger[o] = "landed" => height < journal[o].lastHeight)
  BY <1>0 DEF LedgerInv
<1>3. CASE UNCHANGED <<height, sent, ledger>>
  BY <1>1, <1>2, <1>3
<1>4. ASSUME NEW w \in Workers, KeepPending(w)
      PROVE  /\ ledger'[o] # "absent" => o \in sent'
             /\ ledger'[o] = "landed" => height' < journal'[o].lastHeight
  BY <1>1, <1>2, <1>4 DEF KeepPending
<1>5. CASE AdvanceHeight
  BY <1>1, <1>2, <1>5 DEF AdvanceHeight
<1>6. ASSUME NEW p \in Ids, Land(p) \/ Drop(p) \/ Succeed(p) \/ Fail(p)
      PROVE  /\ ledger'[o] # "absent" => o \in sent'
             /\ ledger'[o] = "landed" => height' < journal'[o].lastHeight
  BY <1>0, <1>1, <1>2, <1>6 DEF Land, Drop, Succeed, Fail, TypeOK
<1> QED
  BY <1>3, <1>4, <1>5, <1>6, ChainWriters

LEMMA ExpiredStep ==
  ASSUME IInv, [Next]_vars
  PROVE  ExpiredInv' /\ ExpiredNeverLands'
<1>0. TypeOK /\ ExpiredInv /\ ExpiredNeverLands /\ SignatureInv /\ SentIsJournaled /\ LedgerInv
  BY DEF IInv
<1> SUFFICES ASSUME NEW o \in Journaled', journal'[o].status = "expired"
             PROVE  height' > journal'[o].lastHeight /\ ledger'[o] = "absent"
  BY DEF ExpiredInv, ExpiredNeverLands
<1>1. o \in Ids
  BY DEF Journaled
<1>2. CASE o \in Journaled /\ journal'[o] = journal[o]
  <2>1. height > journal[o].lastHeight /\ ledger[o] = "absent"
    BY <1>0, <1>2 DEF ExpiredInv, ExpiredNeverLands
  <2>2. journal[o].lastHeight \in Nat /\ height \in Nat
    BY <1>0, <1>2, RowsAreTyped DEF Row, TypeOK
  <2>3. height' >= height /\ ledger'[o] = "absent"
    BY <1>1, <2>1, <2>2, LedgerMoves
  <2>4. height' \in Nat
    BY TypeStep DEF TypeOK
  <2> QED
    BY <1>2, <2>1, <2>2, <2>3, <2>4
<1>3. CASE Inserted(o)
  BY <1>3 DEF Inserted, NewRow
<1>4. CASE Submitted(o)
  BY <1>4 DEF Submitted
<1>5. CASE Collected(o)
  BY <1>5 DEF Collected, Collectable
<1>6. CASE Decided(o)
  <2>1. height > journal[o].lastHeight /\ (journal[o].signature = o => ledger[o] = "absent")
    BY <1>6 DEF Decided
  <2>2. o \notin sent \/ journal[o].signature = o
    BY <1>0 DEF SentIsJournaled
  <2>3. ledger[o] = "absent"
    BY <1>0, <1>1, <2>1, <2>2 DEF LedgerInv
  <2> QED
    BY <1>6, <2>1, <2>3 DEF Decided, Rewritten
<1> QED
  BY <1>2, <1>3, <1>4, <1>5, <1>6, RowSteps

LEMMA OutcomeStep ==
  ASSUME IInv, [Next]_vars
  PROVE  OutcomeIsFinalized'
<1>0. OutcomeIsFinalized
  BY DEF IInv
<1> SUFFICES ASSUME NEW o \in Journaled'
             PROVE  /\ journal'[o].status = "confirmed" => ledger'[o] = "success"
                    /\ journal'[o].status = "failed" => ledger'[o] = "error"
  BY DEF OutcomeIsFinalized
<1>1. o \in Ids
  BY DEF Journaled
<1>2. CASE o \in Journaled /\ journal'[o] = journal[o]
  BY <1>0, <1>1, <1>2, LedgerMoves DEF OutcomeIsFinalized
<1>3. CASE Inserted(o)
  BY <1>3 DEF Inserted, NewRow
<1>4. CASE Submitted(o)
  BY <1>4 DEF Submitted
<1>5. CASE Collected(o)
  BY <1>0, <1>5 DEF Collected, Rewritten, OutcomeIsFinalized
<1>6. CASE Decided(o)
  BY <1>6 DEF Decided, Rewritten
<1> QED
  BY <1>2, <1>3, <1>4, <1>5, <1>6, RowSteps

LEMMA UniqueStep ==
  ASSUME IInv, [Next]_vars
  PROVE  UniqueKeys'
<1>0. UniqueKeys /\ TypeOK
  BY DEF IInv
<1> SUFFICES ASSUME NEW o \in Journaled', NEW p \in Journaled',
                    SameKey(journal'[o].req, journal'[p].req)
             PROVE  o = p
  BY DEF UniqueKeys, Of
<1> DEFINE New(x) == x \notin Journaled
<1>1. ASSUME NEW x \in Journaled', ~New(x)
      PROVE  journal'[x].req = journal[x].req
  BY <1>1, RowsMove DEF JournalMoves, RowMoves
<1>2. ASSUME NEW x \in Journaled', New(x)
      PROVE  Inserted(x)
  BY <1>2, RowSteps DEF Submitted, Collected, Decided, Rewritten
<1>3. ASSUME NEW x \in Journaled', NEW y \in Journaled', New(x), ~New(y)
      PROVE  ~SameKey(journal'[x].req, journal'[y].req) /\ ~SameKey(journal'[y].req, journal'[x].req)
  <2>1. PICK h \in Handlers : FindKey(handler[h].req) = {} /\ journal'[x] = NewRow(handler[h])
    BY <1>2, <1>3 DEF Inserted
  <2>2. journal'[x].req = handler[h].req
    BY <2>1 DEF NewRow
  <2>3. journal'[y].req = journal[y].req
    BY <1>1, <1>3
  <2> QED
    BY <1>3, <2>1, <2>2, <2>3 DEF FindKey, SameKey, Of
<1>4. CASE New(o) /\ New(p)
  <2>1. Journaled' = Journaled \cup {o}
    BY <1>2, <1>4 DEF Inserted
  <2> QED
    BY <1>4, <2>1
<1>5. CASE ~New(o) /\ ~New(p)
  BY <1>0, <1>1, <1>5 DEF UniqueKeys, Of
<1> QED
  BY <1>3, <1>4, <1>5

LEMMA CodeStep ==
  ASSUME IInv, [Next]_vars
  PROVE  CodeIsFinal'
<1>0. CodeIsFinal /\ TypeOK
  BY DEF IInv
<1> SUFFICES ASSUME NEW o \in Journaled'
             PROVE  /\ journal'[o].claim = IF /\ journal'[o].status = "confirmed"
                                              /\ journal'[o].req.kind = "redeem" THEN 1 ELSE 0
                    /\ journal'[o].collected <= journal'[o].claim
  BY DEF CodeIsFinal
<1>1. o \in Journaled =>
        /\ journal[o].claim = IF journal[o].status = "confirmed" /\ journal[o].req.kind = "redeem"
                              THEN 1 ELSE 0
        /\ journal[o].collected <= journal[o].claim
  BY <1>0 DEF CodeIsFinal
<1>2. o \in Journaled => journal[o].collected \in {0, 1}
  BY <1>0, RowsAreTyped DEF Row
<1>3. CASE o \in Journaled /\ journal'[o] = journal[o]
  BY <1>1, <1>3
<1>4. CASE Inserted(o)
  BY <1>4 DEF Inserted, NewRow
<1>5. CASE Submitted(o)
  BY <1>1, <1>5 DEF Submitted, Rewritten
<1>6. CASE Collected(o)
  BY <1>1, <1>6 DEF Collected, Rewritten, Collectable
<1>7. CASE Decided(o)
  BY <1>1, <1>2, <1>7 DEF Decided, Rewritten, Unsettled
<1> QED
  BY <1>3, <1>4, <1>5, <1>6, <1>7, RowSteps

LEMMA AnswerStep ==
  ASSUME IInv, [Next]_vars
  PROVE  AnswerInv'
<1>0. AnswerInv /\ JournalMoves
  BY RowsMove DEF IInv
<1> DEFINE Good(a) == a.id \in Journaled /\ Of(a.id) = a.req
<1>1. \A a \in answers' : Good(a)
  <2>1. CASE answers' = answers
    BY <1>0, <2>1 DEF AnswerInv
  <2>2. ASSUME NEW h \in Handlers, NEW r \in Requests, Replay(h, r) PROVE \A a \in answers' : Good(a)
    <3>1. PICK o \in FindKey(r) : Of(o).payload = r.payload /\ answers' = answers \cup {[req |-> r, id |-> o]}
      BY <2>2 DEF Replay
    <3>2. o \in Journaled /\ SameKey(Of(o), r)
      BY <3>1 DEF FindKey
    <3>3. Of(o) \in Request /\ r \in Request
      BY <3>2, RowsAreTyped, SettlementAssumption DEF IInv
    <3>4. Of(o) = r
      BY <3>1, <3>2, <3>3 DEF SameKey, Request
    <3> QED
      BY <1>0, <3>1, <3>2, <3>4 DEF AnswerInv
  <2>3. ASSUME NEW h \in Handlers, Reread(h) PROVE \A a \in answers' : Good(a)
    <3> DEFINE r == handler[h].req
    <3>1. r \in Requests
      BY <2>3 DEF Reread, IInv, TypeOK, HandlerState, IdleHandler
    <3>2. ASSUME NEW o \in Created(handler[h]) PROVE o \in Journaled /\ Of(o) = r
      <4>1. o \in Journaled /\ SameKey(Of(o), r) /\ Of(o).payload = r.payload
        BY <3>2 DEF Created, FindKey
      <4>2. Of(o) \in Request /\ r \in Request
        BY <3>1, <4>1, RowsAreTyped, SettlementAssumption DEF IInv
      <4> QED
        BY <4>1, <4>2 DEF SameKey, Request
    <3>3. answers' = answers \cup {[req |-> r, id |-> o] : o \in Created(handler[h])}
      BY <2>3 DEF Reread
    <3> HIDE DEF r
    <3> QED
      BY <1>0, <3>2, <3>3 DEF AnswerInv
  <2>4. \/ answers' = answers
        \/ \E h \in Handlers : Reread(h) \/ \E r \in Requests : Replay(h, r)
    <3>1. ASSUME NEW h \in Handlers, HandlerStep(h), ~Reread(h), \A r \in Requests : ~Replay(h, r)
          PROVE  answers' = answers
      BY <3>1 DEF HandlerStep, Find, CheckBalance, Prepare, Insert, ReadSubmit, Submit, Abandon
    <3>2. ASSUME NEW w \in Workers, WorkerStep(w) PROVE answers' = answers
      BY <3>2 DEF WorkerStep, ReadBatch, ReadHeight, ReadStatus, SkipRow, KeepPending, Settle, Interrupt
    <3>3. ASSUME ChainStep \/ \E o \in Ids : Fulfill(o) PROVE answers' = answers
      BY <3>3 DEF ChainStep, Fulfill, Land, Drop, Succeed, Fail, AdvanceHeight, BurnOutside
    <3> QED
      BY <3>1, <3>2, <3>3 DEF Next, vars
  <2> QED
    BY <2>1, <2>2, <2>3, <2>4
<1>2. ASSUME NEW a \in answers' PROVE a.id \in Journaled' /\ journal'[a.id].req = a.req
  BY <1>0, <1>1, <1>2 DEF JournalMoves, RowMoves, Of
<1> QED
  BY <1>2 DEF AnswerInv, Of

LEMMA HandlerInvStep ==
  ASSUME IInv, [Next]_vars
  PROVE  HandlerInv'
<1>0. TypeOK /\ HandlerInv /\ JournalMoves
  BY RowsMove DEF IInv
<1> USE DEF TypeOK
<1> DEFINE Mine(h) ==
        /\ handler[h].pc = "insert" =>
              /\ handler[h].id \notin Journaled
              /\ \A g \in Handlers : handler[g].pc = "insert" /\ handler[g].id = handler[h].id => g = h
        /\ handler[h].pc = "update" =>
              /\ handler[h].id \in Journaled
              /\ Of(handler[h].id).kind = "redeem"
              /\ handler[h].signature = handler[h].id
<1>1. \A h \in Handlers : Mine(h)
  BY <1>0 DEF HandlerInv
<1>2. CASE UNCHANGED <<handler, journal>>
  BY <1>1, <1>2 DEF HandlerInv, Journaled, Of
<1>3. ASSUME NEW h \in Handlers, NEW r \in Requests, Find(h, r) PROVE HandlerInv'
  BY <1>0, <1>1, <1>3 DEF Find, HandlerInv, Journaled, Of
<1>4. ASSUME NEW h \in Handlers, CheckBalance(h) \/ Reread(h) \/ Abandon(h) PROVE HandlerInv'
  <2>1. /\ UNCHANGED journal
        /\ handler'[h].pc \in {"prepare", "idle"}
        /\ \A g \in Handlers \ {h} : handler'[g] = handler[g]
    BY <1>0, <1>4 DEF CheckBalance, Reread, Abandon, IdleHandler, HandlerState
  <2> QED
    BY <1>1, <2>1 DEF HandlerInv, Journaled, Of
<1>5. ASSUME NEW h \in Handlers, NEW o \in Ids, Prepare(h, o) PROVE HandlerInv'
  <2>1. /\ UNCHANGED journal
        /\ handler'[h].pc = "insert" /\ handler'[h].id = o
        /\ o \notin Journaled
        /\ \A g \in Handlers \ {h} :
              /\ handler'[g] = handler[g]
              /\ handler[g].pc = "insert" => handler[g].id # o
    BY <1>0, <1>5 DEF Prepare
  <2> QED
    BY <1>1, <2>1 DEF HandlerInv, Journaled, Of
<1>6. ASSUME NEW h \in Handlers, NEW o \in Ids, NEW m \in Ids, ReadSubmit(h, o, m) PROVE HandlerInv'
  <2>1. /\ UNCHANGED journal
        /\ handler'[h] = [pc |-> "update", id |-> o, signature |-> m]
        /\ o \in Journaled /\ Of(o).kind = "redeem" /\ m = o
        /\ \A g \in Handlers \ {h} : handler'[g] = handler[g]
    BY <1>0, <1>6 DEF ReadSubmit, SignRedemption
  <2> QED
    BY <1>1, <2>1 DEF HandlerInv, Journaled, Of
<1>7. ASSUME NEW h \in Handlers, Insert(h) PROVE HandlerInv'
  <2>1. /\ handler'[h].pc = "reread"
        /\ \A g \in Handlers \ {h} : handler'[g] = handler[g]
    BY <1>0, <1>7 DEF Insert, HandlerState, IdleHandler
  <2>2. Journaled' = Journaled \/ Journaled' = Journaled \cup {handler[h].id}
    BY <1>0, <1>7, InsertEffect DEF Journaled
  <2>3. handler[h].pc = "insert"
    BY <1>7 DEF Insert
  <2>4. \A x \in Journaled : x \in Journaled' /\ journal'[x].req = journal[x].req
    BY <1>0 DEF JournalMoves, RowMoves
  <2>5. \A g \in Handlers \ {h} : handler[g].pc = "insert" => handler[g].id \notin Journaled'
    BY <1>1, <2>2, <2>3
  <2> QED
    BY <1>1, <2>1, <2>4, <2>5 DEF HandlerInv, Of
<1>8. ASSUME NEW h \in Handlers, Submit(h) PROVE HandlerInv'
  <2>1. /\ handler'[h].pc = "idle"
        /\ \A g \in Handlers \ {h} : handler'[g] = handler[g]
    BY <1>0, <1>8 DEF Submit, IdleHandler
  <2>2. Journaled' = Journaled
    BY <1>0, <1>8, SubmitEffect
  <2>3. \A x \in Journaled : journal'[x].req = journal[x].req
    BY <1>0 DEF JournalMoves, RowMoves
  <2> QED
    BY <1>1, <2>1, <2>2, <2>3 DEF HandlerInv, Of
<1>9. ASSUME UNCHANGED handler, Journaled' = Journaled PROVE HandlerInv'
  <2>1. \A x \in Journaled : journal'[x].req = journal[x].req
    BY <1>0 DEF JournalMoves, RowMoves
  <2> QED
    BY <1>1, <1>9, <2>1 DEF HandlerInv, Of
<1>10. ASSUME NEW o \in Ids, Fulfill(o) PROVE HandlerInv'
  BY <1>0, <1>9, <1>10, FulfillEffect DEF Fulfill
<1>11. ASSUME NEW w \in Workers, WorkerStep(w) PROVE HandlerInv'
  <2>1. CASE Settle(w)
    BY <1>9, <2>1, SettleEffect DEF Settle, IInv
  <2>2. CASE ~Settle(w)
    BY <1>2, <1>11, <2>2 DEF WorkerStep, ReadBatch, ReadHeight, ReadStatus, SkipRow, KeepPending, Interrupt
  <2> QED
    BY <2>1, <2>2
<1>12. CASE ChainStep
  BY <1>2, <1>12 DEF ChainStep, Land, Drop, Succeed, Fail, AdvanceHeight, BurnOutside
<1>13. ASSUME NEW h \in Handlers, NEW r \in Requests, Replay(h, r) PROVE HandlerInv'
  BY <1>2, <1>13 DEF Replay
<1>14. CASE UNCHANGED vars
  BY <1>2, <1>14 DEF vars
<1> QED
  BY <1>3, <1>4, <1>5, <1>6, <1>7, <1>8, <1>10, <1>11, <1>12, <1>13, <1>14 DEF Next, HandlerStep

LEMMA SnapshotStable ==
  ASSUME IInv, [Next]_vars, NEW s \in Snapshot, SnapshotInv(s)
  PROVE  SnapshotInv(s)'
<1>1. s.id \in Journaled /\ s.id \in Ids /\ s.id # None
  BY SettlementAssumption DEF SnapshotInv, Snapshot
<1>2. s.id \in Journaled' /\ RowMoves(journal[s.id], journal'[s.id])
  BY <1>1, RowsMove DEF JournalMoves
<1> QED
  BY <1>1, <1>2 DEF SnapshotInv, RowMoves

LEMMA VerdictStable ==
  ASSUME IInv, [Next]_vars, NEW s \in Snapshot, SnapshotInv(s), NEW v, VerdictInv(s, v)
  PROVE  VerdictInv(s, v)'
<1>1. s.id \in Ids /\ s.lastHeight \in Nat /\ height \in Nat /\ height' \in Nat
  BY TypeStep DEF IInv, TypeOK, Snapshot
<1>2. s.lastHeight = journal[s.id].lastHeight
  BY DEF SnapshotInv
<1> QED
  BY <1>1, <1>2, LedgerMoves DEF VerdictInv

LEMMA WorkerInvStep ==
  ASSUME IInv, [Next]_vars
  PROVE  WorkerInv'
<1>0. TypeOK /\ TypeOK' /\ WorkerInv /\ SignatureInv /\ height' >= height
  BY TypeStep, LedgerMoves DEF IInv
<1> USE DEF TypeOK
<1> DEFINE Fine(w) ==
        /\ \A s \in worker[w].batch : SnapshotInv(s)
        /\ worker[w].pc # "loop" => SnapshotInv(worker[w].row) /\ worker[w].seen <= height
        /\ worker[w].pc = "act" => VerdictInv(worker[w].row, worker[w].verdict)
<1>1. ASSUME NEW w \in Workers PROVE Fine(w)
  BY <1>0 DEF WorkerInv
<1>2. ASSUME NEW w \in Workers
      PROVE  /\ worker[w].batch \subseteq Snapshot
             /\ worker[w].pc # "loop" => worker[w].row \in Snapshot /\ worker[w].seen \in Nat
  BY <1>0 DEF WorkerState
<1>3. ASSUME NEW w \in Workers, worker'[w] = worker[w] PROVE Fine(w)'
  <2>1. \A s \in worker[w].batch : SnapshotInv(s)'
    BY <1>1, <1>2, SnapshotStable
  <2>2. worker[w].pc # "loop" => SnapshotInv(worker[w].row)' /\ worker[w].seen <= height'
    BY <1>0, <1>1, <1>2, <1>3, SnapshotStable
  <2>3. worker[w].pc = "act" => VerdictInv(worker[w].row, worker[w].verdict)'
    BY <1>1, <1>2, <1>3, VerdictStable
  <2> QED
    BY <1>3, <2>1, <2>2, <2>3 DEF SnapshotInv, VerdictInv
<1>4. ASSUME NEW w \in Workers, worker'[w].pc = "loop", worker'[w].batch \subseteq worker[w].batch
      PROVE  Fine(w)'
  <2>1. \A s \in worker[w].batch : SnapshotInv(s)'
    BY <1>1, <1>2, SnapshotStable
  <2> QED
    BY <1>4, <2>1 DEF SnapshotInv
<1>5. SUFFICES ASSUME NEW w \in Workers PROVE Fine(w)'
  BY DEF WorkerInv
<1>6. CASE ReadBatch(w)
  <2>1. PICK B \in SUBSET {o \in Journaled : journal[o].status \in Unsettled} :
           worker' = [worker EXCEPT ![w].batch = {SnapshotOf(o) : o \in B}]
    BY <1>6 DEF ReadBatch
  <2>2. worker[w].pc = "loop"
    BY <1>6 DEF ReadBatch, IdleWorker
  <2>3. worker'[w].pc = "loop" /\ worker'[w].batch = {SnapshotOf(o) : o \in B}
    BY <1>0, <2>1, <2>2 DEF WorkerState
  <2>4. ASSUME NEW o \in B PROVE SnapshotInv(SnapshotOf(o))
    <3>1. o \in Journaled /\ journal[o].status \in Unsettled
      BY <2>4
    <3> QED
      BY <1>0, <3>1 DEF SignatureInv, SnapshotInv, SnapshotOf
  <2>5. UNCHANGED journal
    BY <1>6 DEF ReadBatch
  <2> QED
    BY <2>3, <2>4, <2>5 DEF SnapshotInv, Journaled
<1>7. ASSUME NEW o \in Ids, ReadHeight(w, o) PROVE Fine(w)'
  <2>1. PICK s \in worker[w].batch :
           worker' = [worker EXCEPT ![w] = [pc |-> "status", batch |-> worker[w].batch \ {s},
                                            row |-> s, seen |-> height]]
    BY <1>7 DEF ReadHeight
  <2>2. worker'[w] = [pc |-> "status", batch |-> worker[w].batch \ {s}, row |-> s, seen |-> height]
    BY <1>0, <2>1
  <2>3. UNCHANGED <<journal, height>>
    BY <1>7 DEF ReadHeight, chain
  <2>4. \A t \in worker[w].batch : SnapshotInv(t)'
    BY <1>1, <1>2, SnapshotStable
  <2> QED
    BY <1>0, <2>1, <2>2, <2>3, <2>4 DEF SnapshotInv
<1>8. CASE ReadStatus(w)
  <2> DEFINE s == worker[w].row
             n == worker[w].seen
  <2>1. worker[w].pc = "status" /\ s \in Snapshot /\ n \in Nat /\ SnapshotInv(s) /\ n <= height
    BY <1>1, <1>2, <1>8 DEF ReadStatus
  <2>2. worker'[w] = [pc |-> "act", batch |-> worker[w].batch, row |-> s, seen |-> n,
                      verdict |-> Verdict(s, n)]
    BY <1>0, <1>8 DEF ReadStatus
  <2>3. UNCHANGED <<journal, height, ledger>>
    BY <1>8 DEF ReadStatus, chain
  <2>4. s.signature # None => s.signature = s.id
    BY <2>1 DEF SnapshotInv, Snapshot, Unsettled
  <2>5. s.id \in Ids /\ s.id # None /\ ledger[s.id] \in {"absent", "landed", "success", "error"} /\ s.lastHeight \in Nat
    BY <1>0, <2>1, SettlementAssumption DEF Snapshot
  <2> HIDE DEF s, n
  <2>6. VerdictInv(s, Verdict(s, n))
    <3>1. StatusOf(s) # "absent" => s.signature = s.id /\ StatusOf(s) = ledger[s.id]
      BY <2>4 DEF StatusOf
    <3>2. CASE StatusOf(s) = "success"
      BY <3>1, <3>2 DEF Verdict, VerdictInv
    <3>3. CASE StatusOf(s) = "error"
      BY <3>1, <3>3 DEF Verdict, VerdictInv
    <3>4. CASE StatusOf(s) = "landed"
      BY <3>4 DEF Verdict, VerdictInv
    <3>5. CASE StatusOf(s) = "absent"
      <4>1. s.signature = s.id => ledger[s.id] = "absent"
        BY <2>5, <3>5 DEF StatusOf
      <4>2. Verdict(s, n) = IF n > s.lastHeight THEN "expired" ELSE "pending"
        BY <3>5 DEF Verdict
      <4> QED
        BY <1>0, <2>1, <2>5, <4>1, <4>2 DEF VerdictInv
    <3>6. StatusOf(s) \in {"absent", "landed", "success", "error"}
      BY <2>4, <2>5 DEF StatusOf
    <3> QED
      BY <3>2, <3>3, <3>4, <3>5, <3>6
  <2>7. \A t \in worker[w].batch : SnapshotInv(t)'
    BY <1>1, <1>2, SnapshotStable
  <2> QED
    BY <1>0, <2>1, <2>2, <2>3, <2>6, <2>7 DEF SnapshotInv, VerdictInv, Journaled
<1>9. CASE SkipRow(w) \/ KeepPending(w) \/ Settle(w) \/ Interrupt(w)
  <2>1. worker'[w].pc = "loop" /\ worker'[w].batch \subseteq worker[w].batch
    BY <1>0, <1>9 DEF SkipRow, KeepPending, Settle, Interrupt, NextRow, IdleWorker
  <2> QED
    BY <1>4, <2>1
<1>10. CASE ~WorkerStep(w)
  <2>1. worker'[w] = worker[w]
    <3>1. ASSUME NEW h \in Handlers, HandlerStep(h) PROVE worker' = worker
      BY <3>1 DEF HandlerStep, Find, Replay, CheckBalance, Prepare, Insert, Reread, ReadSubmit, Submit, Abandon
    <3>2. ASSUME NEW o \in Ids, Fulfill(o) PROVE worker' = worker
      BY <3>2 DEF Fulfill
    <3>3. ASSUME NEW x \in Workers, WorkerStep(x) PROVE worker'[w] = worker[w]
      BY <1>0, <1>10, <3>3 DEF WorkerStep, ReadBatch, ReadHeight, ReadStatus, SkipRow, KeepPending, Settle,
            Interrupt, NextRow
    <3>4. ASSUME ChainStep PROVE worker' = worker
      BY <3>4 DEF ChainStep, Land, Drop, Succeed, Fail, AdvanceHeight, BurnOutside
    <3> QED
      BY <3>1, <3>2, <3>3, <3>4 DEF Next, vars
  <2> QED
    BY <1>3, <2>1
<1> QED
  BY <1>6, <1>7, <1>8, <1>9, <1>10 DEF WorkerStep

-----------------------------------------------------------------------------
(* Points.                                                                 *)

\* Only Succeed finalizes a transaction with success, and only it and a burn
\* outside change balances.
LEMMA SuccessWriters ==
  ASSUME IInv, [Next]_vars
  PROVE  \/ UNCHANGED balance /\ \A o \in Ids : ledger'[o] = "success" <=> ledger[o] = "success"
         \/ \E o \in Ids : Succeed(o)
         \/ \E v \in Wallets : BurnOutside(v)
<1>0. TypeOK
  BY DEF IInv
<1>1. ASSUME NEW h \in Handlers, HandlerStep(h)
      PROVE  UNCHANGED <<ledger, balance>>
  BY <1>1 DEF HandlerStep, Find, Replay, CheckBalance, Prepare, Insert, Reread, ReadSubmit,
              Submit, Abandon, chain
<1>2. ASSUME NEW w \in Workers, WorkerStep(w)
      PROVE  UNCHANGED <<ledger, balance>>
  BY <1>2 DEF WorkerStep, ReadBatch, ReadHeight, ReadStatus, SkipRow, KeepPending, Settle,
              Interrupt, chain
<1>3. ASSUME NEW o \in Ids, Fulfill(o)
      PROVE  UNCHANGED <<ledger, balance>>
  BY <1>3 DEF Fulfill, chain
<1>4. CASE AdvanceHeight
  BY <1>4 DEF AdvanceHeight
<1>5. ASSUME NEW o \in Ids, Land(o) \/ Drop(o) \/ Fail(o)
      PROVE  UNCHANGED balance /\ \A p \in Ids : ledger'[p] = "success" <=> ledger[p] = "success"
  BY <1>0, <1>5 DEF Land, Drop, Fail, TypeOK
<1> QED
  BY <1>1, <1>2, <1>3, <1>4, <1>5 DEF Next, ChainStep, vars

\* Sums over journaled operations and over wallets are naturals.
LEMMA PointsAreNat ==
  ASSUME TypeOK, NEW S \in SUBSET Journaled
  PROVE  IsFiniteSet(S) /\ PointsOf(S) \in Nat /\ Held(balance) \in Nat /\ Held(Opening) \in Nat
<1>1. IsFiniteSet(S)
  BY FiniteAssumption, FS_Subset DEF Journaled
<1> DEFINE f == [o \in S |-> Points[Of(o).payload]]
<1>2. \A o \in S : f[o] \in Nat
  BY RowsAreTyped
<1>3. \A v \in Wallets : balance[v] \in Nat /\ Opening[v] \in Nat
  BY SettlementAssumption DEF TypeOK
<1>4. PointsOf(S) \in Nat
  <2> HIDE DEF f
  <2>1. SumFunctionOnSet(f, S) \in Nat
    BY <1>1, <1>2, SumIsNat
  <2> QED BY <2>1 DEF f, PointsOf
<1>5. Held(balance) \in Nat /\ Held(Opening) \in Nat
  BY <1>3, FiniteAssumption, SumIsNat DEF Held
<1> QED
  BY <1>1, <1>4, <1>5

\* The points of operations do not change once they are journaled.
LEMMA PointsOfSame ==
  ASSUME IInv, [Next]_vars, NEW S \in SUBSET Journaled
  PROVE  PointsOf(S)' = PointsOf(S)
<1>1. \A o \in S : Of(o)' = Of(o)
  BY RowsMove DEF JournalMoves, RowMoves, Of
<1> QED
  BY <1>1 DEF PointsOf

\* One operation more adds its points; fewer operations are not worth more.
LEMMA PointsOfOneMore ==
  ASSUME TypeOK, NEW S \in SUBSET Journaled, NEW o \in Journaled, o \notin S
  PROVE  PointsOf(S \cup {o}) = Points[Of(o).payload] + PointsOf(S)
<1> DEFINE f == [p \in S \cup {o} |-> Points[Of(p).payload]]
           e == [p \in S |-> Points[Of(p).payload]]
<1>1. IsFiniteSet(S)
  BY PointsAreNat
<1>2. \A p \in S \cup {o} : f[p] \in Nat
  BY RowsAreTyped
<1>3. f[o] = Points[Of(o).payload] /\ \A p \in S : f[p] = e[p]
  OBVIOUS
<1>4. PointsOf(S \cup {o}) = SumFunctionOnSet(f, S \cup {o}) /\ PointsOf(S) = SumFunctionOnSet(e, S)
  BY DEF PointsOf
<1> HIDE DEF e, f
<1>5. SumFunctionOnSet(f, S \cup {o}) = f[o] + SumFunctionOnSet(f, S)
  BY <1>1, <1>2, SumOfOneMore
<1>6. SumFunctionOnSet(f, S) = SumFunctionOnSet(e, S)
  BY <1>1, <1>3, SumOfEquals
<1> QED
  BY <1>3, <1>4, <1>5, <1>6

LEMMA PointsOfFewer ==
  ASSUME TypeOK, NEW S \in SUBSET Journaled, NEW T \in SUBSET S
  PROVE  PointsOf(T) <= PointsOf(S)
<1> DEFINE f == [p \in S |-> Points[Of(p).payload]]
           e == [p \in T |-> Points[Of(p).payload]]
<1>1. IsFiniteSet(S) /\ IsFiniteSet(T)
  BY PointsAreNat
<1>2. (\A p \in S : f[p] \in Nat) /\ \A p \in T : f[p] = e[p]
  BY RowsAreTyped
<1>3. PointsOf(S) = SumFunctionOnSet(f, S) /\ PointsOf(T) = SumFunctionOnSet(e, T)
  BY DEF PointsOf
<1> HIDE DEF e, f
<1>4. SumFunctionOnSet(f, T) <= SumFunctionOnSet(f, S)
  BY <1>1, <1>2, SumOfFewer
<1>5. SumFunctionOnSet(f, T) = SumFunctionOnSet(e, T)
  BY <1>1, <1>2, SumOfEquals
<1> QED
  BY <1>3, <1>4, <1>5

\* A wallet that gains or loses points moves what is held by as much.
LEMMA HeldChanges ==
  ASSUME TypeOK, NEW v \in Wallets, NEW n \in Nat, balance' = [balance EXCEPT ![v] = n]
  PROVE  Held(balance') + balance[v] = Held(balance) + n
<1>1. \A u \in Wallets : balance'[u] \in Nat /\ balance[u] \in Nat
  BY DEF TypeOK
<1>2. balance'[v] = n /\ \A u \in Wallets \ {v} : balance'[u] = balance[u]
  BY DEF TypeOK
<1>3. PICK e, f : e = balance' /\ f = balance
  OBVIOUS
<1>4. (\A u \in Wallets : e[u] \in Nat /\ f[u] \in Nat) /\ \A u \in Wallets \ {v} : e[u] = f[u]
  BY <1>1, <1>2, <1>3
<1>5. SumFunctionOnSet(e, Wallets) + f[v] = SumFunctionOnSet(f, Wallets) + e[v]
  BY <1>4, FiniteAssumption, SumOfChange
<1> QED
  BY <1>2, <1>3, <1>5 DEF Held

LEMMA PointsStep ==
  ASSUME IInv, IInv', PointsInv, [Next]_vars
  PROVE  PointsInv'
<1>0. TypeOK /\ TypeOK' /\ Minted \in SUBSET Journaled /\ Burned \in SUBSET Journaled
  BY DEF IInv, Minted, Burned
<1>1. PICK M, B : M = Minted /\ B = Burned
  OBVIOUS
<1>2. /\ M \in SUBSET Journaled /\ B \in SUBSET Journaled
      /\ PointsOf(B) + Held(balance) <= Held(Opening) + PointsOf(M)
  BY <1>0, <1>1 DEF PointsInv
<1>3. /\ PointsOf(B)' = PointsOf(B) /\ PointsOf(M)' = PointsOf(M)
      /\ PointsOf(B) \in Nat /\ PointsOf(M) \in Nat
      /\ Held(balance) \in Nat /\ Held(balance') \in Nat /\ Held(Opening) \in Nat
  <2>1. PointsOf(B)' = PointsOf(B) /\ PointsOf(M)' = PointsOf(M)
    BY <1>2, PointsOfSame
  <2>2. /\ PointsOf(B) \in Nat /\ PointsOf(M) \in Nat
        /\ Held(balance) \in Nat /\ Held(Opening) \in Nat
    BY <1>0, <1>2, PointsAreNat
  <2>3. \A v \in Wallets : balance'[v] \in Nat
    BY <1>0 DEF TypeOK
  <2>4. Held(balance') \in Nat
    BY <2>3, FiniteAssumption, SumIsNat DEF Held
  <2> QED
    BY <2>1, <2>2, <2>4
<1>4. ASSUME Burned' = B, Minted' = M, Held(balance') <= Held(balance)
      PROVE  PointsInv'
  <2>1. PointsOf(Burned)' = PointsOf(B)' /\ PointsOf(Minted)' = PointsOf(M)'
    BY <1>4 DEF PointsOf
  <2>2. Held(balance)' = Held(balance') /\ Held(Opening)' = Held(Opening)
    BY DEF Held
  <2> HIDE DEF PointsOf, Held
  <2> QED
    BY <1>2, <1>3, <1>4, <2>1, <2>2 DEF PointsInv
<1>5. ASSUME \A o \in Ids : ledger'[o] = "success" <=> ledger[o] = "success"
      PROVE  Burned' = B /\ Minted' = M
  <2>1. \A o \in Ids : ledger'[o] = "success" => o \in Journaled
    BY <1>5 DEF IInv, LedgerInv, SentIsJournaled
  <2>2. \A o \in Journaled : o \in Journaled' /\ Of(o)' = Of(o)
    BY RowsMove DEF JournalMoves, RowMoves, Of
  <2> QED
    BY <1>1, <1>5, <2>1, <2>2 DEF Burned, Minted, Journaled
<1>6. CASE UNCHANGED balance /\ \A o \in Ids : ledger'[o] = "success" <=> ledger[o] = "success"
  BY <1>3, <1>4, <1>5, <1>6
<1>7. ASSUME NEW v \in Wallets, BurnOutside(v) PROVE PointsInv'
  <2>1. ledger' = ledger /\ balance' = [balance EXCEPT ![v] = balance[v] - 1]
    BY <1>7 DEF BurnOutside
  <2>2. balance[v] - 1 \in Nat /\ balance[v] \in Nat
    BY <1>0, <1>7 DEF BurnOutside, TypeOK
  <2>3. Held(balance') + balance[v] = Held(balance) + (balance[v] - 1)
    BY <1>0, <2>1, <2>2, HeldChanges
  <2>4. Held(balance') <= Held(balance)
    BY <1>3, <2>2, <2>3
  <2> QED
    BY <1>4, <1>5, <2>1, <2>4
<1>8. ASSUME NEW o \in Ids, Succeed(o) PROVE PointsInv'
  <2> DEFINE r == Of(o)
             n == Points[r.payload]
  <2>1. /\ journal' = journal /\ ledger[o] = "landed"
        /\ ledger' = [ledger EXCEPT ![o] = "success"]
    BY <1>8 DEF Succeed
  <2>2. o \in Journaled /\ o \notin M /\ o \notin B
    BY <1>1, <2>1 DEF IInv, LedgerInv, SentIsJournaled, Minted, Burned
  <2>3. n \in Nat /\ r.wallet \in Wallets /\ balance[r.wallet] \in Nat
    BY <1>0, <2>2, RowsAreTyped DEF TypeOK
  <2>4. \A p \in Ids : ledger'[p] = "success" <=> ledger[p] = "success" \/ p = o
    BY <1>0, <2>1 DEF TypeOK
  <2>5. Journaled' = Journaled /\ Journaled \subseteq Ids /\ \A p \in Ids : Of(p)' = Of(p)
    BY <2>1 DEF Journaled, Of
  <2>6. CASE r.kind = "earn" /\ balance' = [balance EXCEPT ![r.wallet] = @ + n]
    <3>1. Minted' = M \cup {o} /\ Burned' = B
      BY <1>1, <2>2, <2>4, <2>5, <2>6 DEF Minted, Burned
    <3>2. PointsOf(Minted)' = PointsOf(M \cup {o})'
      BY <3>1 DEF PointsOf
    <3>3. PointsOf(M \cup {o})' = PointsOf(M \cup {o}) /\ PointsOf(Burned)' = PointsOf(B)'
      BY <2>5, <3>1, <1>2, <2>2 DEF PointsOf
    <3>4. PointsOf(M \cup {o}) = n + PointsOf(M)
      BY <1>0, <1>2, <2>2, PointsOfOneMore
    <3>5. Held(balance') + balance[r.wallet] = Held(balance) + (balance[r.wallet] + n)
      <4>1. balance[r.wallet] + n \in Nat
        BY <2>3
      <4> QED
        BY <1>0, <2>3, <2>6, <4>1, HeldChanges
    <3>6. Held(balance') = Held(balance) + n
      BY <1>3, <2>3, <3>5
    <3>7. Held(balance)' = Held(balance') /\ Held(Opening)' = Held(Opening)
      BY DEF Held
    <3> HIDE DEF n
    <3> QED
      BY <1>2, <1>3, <2>3, <3>2, <3>3, <3>4, <3>6, <3>7 DEF PointsInv
  <2>7. CASE /\ r.kind = "redeem" /\ balance[r.wallet] >= n
             /\ balance' = [balance EXCEPT ![r.wallet] = @ - n]
    <3>1. Minted' = M /\ Burned' = B \cup {o}
      BY <1>1, <2>2, <2>4, <2>5, <2>7 DEF Minted, Burned
    <3>2. PointsOf(Burned)' = PointsOf(B \cup {o})'
      BY <3>1 DEF PointsOf
    <3>3. PointsOf(B \cup {o})' = PointsOf(B \cup {o}) /\ PointsOf(Minted)' = PointsOf(M)'
      BY <2>5, <3>1, <1>2, <2>2 DEF PointsOf
    <3>4. PointsOf(B \cup {o}) = n + PointsOf(B)
      BY <1>0, <1>2, <2>2, PointsOfOneMore
    <3>5. Held(balance') + balance[r.wallet] = Held(balance) + (balance[r.wallet] - n)
      <4>1. balance[r.wallet] - n \in Nat
        BY <2>3, <2>7
      <4> QED
        BY <1>0, <2>3, <2>7, <4>1, HeldChanges
    <3>6. Held(balance') + n = Held(balance)
      BY <1>3, <2>3, <3>5
    <3>7. Held(balance)' = Held(balance') /\ Held(Opening)' = Held(Opening)
      BY DEF Held
    <3> HIDE DEF n
    <3> QED
      BY <1>2, <1>3, <2>3, <3>2, <3>3, <3>4, <3>6, <3>7 DEF PointsInv
  <2> QED
    BY <1>8, <2>6, <2>7 DEF Succeed
<1> QED
  BY <1>6, <1>7, <1>8, SuccessWriters

-----------------------------------------------------------------------------
(* The theorems.                                                           *)

LEMMA InitInv == Init => IInv
<1> SUFFICES ASSUME Init PROVE IInv
  OBVIOUS
<1>1. TypeOK
  BY SettlementAssumption
     DEF Init, TypeOK, Absent, HandlerState, IdleHandler, WorkerState, IdleWorker
<1>2. Journaled = {}
  BY DEF Init, Journaled, Absent
<1>3. HandlerInv /\ WorkerInv
  BY DEF Init, HandlerInv, WorkerInv, IdleHandler, IdleWorker
<1> QED
  BY <1>1, <1>2, <1>3
     DEF Init, IInv, SignatureInv, SentIsJournaled, LedgerInv, ExpiredInv, ExpiredNeverLands,
         OutcomeIsFinalized, UniqueKeys, CodeIsFinal, AnswerInv

\* IInv is inductive.
THEOREM InvariantHolds == Spec => []IInv
<1>1. IInv /\ [Next]_vars => IInv'
  <2> SUFFICES ASSUME IInv, [Next]_vars PROVE IInv'
    OBVIOUS
  <2>1. TypeOK' /\ SignatureInv' /\ SentIsJournaled' /\ LedgerInv'
    BY TypeStep, SignatureStep, SentStep, LedgerStep
  <2>2. ExpiredInv' /\ ExpiredNeverLands' /\ OutcomeIsFinalized' /\ UniqueKeys' /\ CodeIsFinal'
    BY ExpiredStep, OutcomeStep, UniqueStep, CodeStep
  <2>3. AnswerInv' /\ HandlerInv' /\ WorkerInv'
    BY AnswerStep, HandlerInvStep, WorkerInvStep
  <2> QED
    BY <2>1, <2>2, <2>3 DEF IInv
<1> QED
  BY InitInv, <1>1, PTL DEF Spec

\* Every variable keeps its type.
THEOREM TypeCorrect == Spec => []TypeOK
BY InvariantHolds, PTL DEF IInv

\* An operation the worker expired has no transaction on the ledger.
THEOREM ExpiredIsSafe == Spec => []ExpiredNeverLands
BY InvariantHolds, PTL DEF IInv

\* Confirmed and failed rows agree with the finalized ledger.
THEOREM OutcomeIsTrue == Spec => []OutcomeIsFinalized
BY InvariantHolds, PTL DEF IInv

\* Whatever reached the cluster is in the journal with its signature.
THEOREM SendsAreDurable == Spec => []SentIsJournaled
BY InvariantHolds, PTL DEF IInv

\* A redemption has one code, exactly when confirmed, collected at most once.
THEOREM CodesAreFinal == Spec => []CodeIsFinal
BY InvariantHolds, PTL DEF IInv

\* At most one transaction per wallet, kind and key reaches the cluster.
THEOREM OneEffect == Spec => []OneEffectPerKey
<1>1. IInv => OneEffectPerKey
  BY DEF IInv, UniqueKeys, OneEffectPerKey
<1> QED
  BY <1>1, InvariantHolds, PTL

\* All successful answers under one key are about one payload and one row.
THEOREM OneAnswer == Spec => []OneAnswerPerKey
<1>1. IInv => OneAnswerPerKey
  <2> SUFFICES ASSUME IInv, NEW a \in answers, NEW b \in answers, SameKey(a.req, b.req)
               PROVE  a = b
    BY DEF IInv, AnswerInv, OneAnswerPerKey
  <2>1. a.id \in Journaled /\ Of(a.id) = a.req /\ b.id \in Journaled /\ Of(b.id) = b.req
    BY DEF IInv, AnswerInv
  <2>2. a.id = b.id
    BY <2>1 DEF IInv, UniqueKeys
  <2>3. a \in [req : Requests, id : Ids] /\ b \in [req : Requests, id : Ids]
    BY DEF IInv, TypeOK
  <2> QED
    BY <2>1, <2>2, <2>3
<1> QED
  BY <1>1, InvariantHolds, PTL

\* Rows only move forward: terminal statuses, requests, signatures and codes
\* are never rewritten.
THEOREM JournalIsMonotonic == Spec => RowsMoveForward
<1>1. IInv /\ [Next]_vars => [JournalMoves]_vars
  BY RowsMove
<1> QED
  BY <1>1, InvariantHolds, PTL DEF Spec, RowsMoveForward


\* Whatever is retried, raced, resent or lost, points are never spent twice.
\* The ledger balances (PointsInv), and a coded row is a finalized burn.
THEOREM PointsAreConserved == Spec => []PointsConserved
<1>1. Init => PointsInv
  <2> SUFFICES ASSUME Init PROVE PointsInv
    OBVIOUS
  <2>1. TypeOK /\ Burned = {} /\ Minted = {} /\ balance = Opening
    BY InitInv DEF IInv, Init, Burned, Minted, Journaled, Absent
  <2>2. Held(balance) = Held(Opening) /\ PointsOf(Burned) = PointsOf(Minted)
    BY <2>1 DEF Held, PointsOf
  <2>3. PointsOf(Minted) = 0 /\ Held(Opening) \in Nat
    BY <2>1, PointsAreNat, SumOfNone DEF PointsOf
  <2> QED
    BY <2>2, <2>3 DEF PointsInv
<1>2. IInv /\ IInv' /\ PointsInv /\ [Next]_vars => PointsInv'
  BY PointsStep
<1>3. IInv /\ PointsInv => PointsConserved
  <2> SUFFICES ASSUME IInv, PointsInv PROVE PointsConserved
    OBVIOUS
  <2>1. TypeOK /\ Coded \subseteq Burned /\ Burned \subseteq Journaled /\ Minted \subseteq Journaled
    BY RowsAreTyped
       DEF IInv, CodeIsFinal, OutcomeIsFinalized, Coded, Burned, Minted, Of, Row
  <2>2. PICK B, C, M : B = Burned /\ C = Coded /\ M = Minted
    OBVIOUS
  <2>3. /\ PointsOf(C) <= PointsOf(B)
        /\ PointsOf(B) + Held(balance) <= Held(Opening) + PointsOf(M)
    BY <2>1, <2>2, PointsOfFewer DEF PointsInv
  <2>4. /\ PointsOf(C) \in Nat /\ PointsOf(B) \in Nat /\ PointsOf(M) \in Nat
        /\ Held(balance) \in Nat /\ Held(Opening) \in Nat
    BY <2>1, <2>2, PointsAreNat
  <2> QED
    BY <2>2, <2>3, <2>4 DEF PointsConserved
<1> QED
  BY <1>1, <1>2, <1>3, InvariantHolds, PTL DEF Spec

-----------------------------------------------------------------------------
(* Steps the promise does not see.                                         *)

LEMMA PromiseStutters ==
  ASSUME Journaled' = Journaled, balance' = balance,
         \A o \in Journaled : /\ journal'[o].req = journal[o].req
                              /\ journal'[o].claim = journal[o].claim
                              /\ journal'[o].collected = journal[o].collected,
         \A o \in Ids : StageOf(o)' = StageOf(o)
  PROVE  UNCHANGED Promise!promiseVars
<1>1. \A o \in Ids : TermsOf(o)' = TermsOf(o)
  BY DEF TermsOf, Of
<1>2. CodedOps' = CodedOps /\ CollectedOps' = CollectedOps
  BY DEF CodedOps, CollectedOps
<1> QED
  BY <1>1, <1>2 DEF Promise!promiseVars

LEMMA NothingSettles ==
  ASSUME UNCHANGED <<journal, ledger, balance>>
  PROVE  UNCHANGED Promise!promiseVars
<1>1. Journaled' = Journaled
  BY DEF Journaled
<1>2. \A o \in Ids : StageOf(o)' = StageOf(o)
  BY <1>1 DEF StageOf
<1> QED
  BY <1>1, <1>2, PromiseStutters

-----------------------------------------------------------------------------
(* Steps that keep a promise.                                              *)

LEMMA InsertOffers ==
  ASSUME IInv, NEW h \in Handlers, Insert(h)
  PROVE  [Promise!PromiseNext]_Promise!promiseVars
<1>0. TypeOK /\ HandlerInv /\ LedgerInv /\ SentIsJournaled /\ UNCHANGED <<ledger, balance>>
  BY DEF IInv, Insert, chain
<1>1. CASE journal' = journal
  BY <1>0, <1>1, NothingSettles
<1>2. CASE journal' # journal
  <2>1. PICK i \in Ids, t \in Requests :
           /\ i \notin Journaled
           /\ FindKey(t) = {}
           /\ Journaled' = Journaled \cup {i}
           /\ \A o \in Ids : o # i => journal'[o] = journal[o]
           /\ journal'[i].req = t /\ journal'[i].status \in {"prepared", "pending"}
           /\ journal'[i].claim = 0 /\ journal'[i].collected = 0
    <3> DEFINE d == handler[h]
    <3>1. /\ d.req \in Requests /\ d.id \in Ids /\ d.id \notin Journaled
          /\ FindKey(d.req) = {}
          /\ journal' = [journal EXCEPT ![d.id] = NewRow(d)]
          /\ Journaled' = Journaled \cup {d.id}
      BY <1>0, <1>2, InsertEffect
    <3>2. /\ NewRow(d).req = d.req /\ NewRow(d).status \in {"prepared", "pending"}
          /\ NewRow(d).claim = 0 /\ NewRow(d).collected = 0
      BY DEF NewRow
    <3>3. journal'[d.id] = NewRow(d) /\ \A o \in Ids : o # d.id => journal'[o] = journal[o]
      BY <1>0, <3>1 DEF TypeOK
    <3> QED
      BY <3>1, <3>2, <3>3
  <2>2. ledger'[i] = "absent"
    BY <1>0, <2>1 DEF LedgerInv, SentIsJournaled
  <2>3. StageOf(i) = "new" /\ StageOf(i)' = "open" /\ TermsOf(i)' = t
    BY <2>1, <2>2 DEF StageOf, TermsOf, Of
  <2>4. ASSUME NEW o \in Ids, o # i
        PROVE  StageOf(o)' = StageOf(o) /\ TermsOf(o)' = TermsOf(o)
    BY <1>0, <2>1, <2>4 DEF StageOf, TermsOf, Of
  <2>5. CodedOps' = CodedOps /\ CollectedOps' = CollectedOps
    BY <2>1 DEF CodedOps, CollectedOps, Journaled
  <2>6. ASSUME NEW p \in Ids, StageOf(p) # "new"
        PROVE  ~(/\ TermsOf(p).wallet = t.wallet
                 /\ TermsOf(p).kind = t.kind
                 /\ TermsOf(p).key = t.key)
    BY <2>1, <2>6 DEF StageOf, TermsOf, FindKey, SameKey
  <2>7. [o \in Ids |-> StageOf(o)]' = [[o \in Ids |-> StageOf(o)] EXCEPT ![i] = "open"]
    BY <2>3, <2>4
  <2>8. [o \in Ids |-> TermsOf(o)]' = [[o \in Ids |-> TermsOf(o)] EXCEPT ![i] = t]
    BY <2>3, <2>4
  <2>9. Promise!Offer(i, t)
    BY <1>0, <2>3, <2>5, <2>6, <2>7, <2>8 DEF Promise!Offer
  <2> QED
    BY <2>9 DEF Promise!PromiseNext
<1> QED
  BY <1>1, <1>2

\* The stage and the terms of a row that keeps its request, its outcome and
\* whether it expired.
LEMMA SameStage ==
  ASSUME NEW o \in Ids, o \in Journaled' <=> o \in Journaled, ledger'[o] = ledger[o],
         o \in Journaled => journal'[o].req = journal[o].req,
         o \in Journaled => (journal'[o].status = "expired" <=> journal[o].status = "expired")
  PROVE  StageOf(o)' = StageOf(o) /\ TermsOf(o)' = TermsOf(o)
<1>1. CASE o \notin Journaled
  BY <1>1 DEF StageOf, TermsOf
<1>2. CASE o \in Journaled
  <2>1. TermsOf(o)' = TermsOf(o)
    BY <1>2 DEF TermsOf, Of
  <2>2. (journal[o].status = "expired")' = (journal[o].status = "expired")
    BY <1>2
  <2> QED
    BY <1>2, <2>1, <2>2 DEF StageOf
<1> QED
  BY <1>1, <1>2

\* A step that changes the stage of one operation only.
LEMMA OneStage ==
  ASSUME NEW i \in Ids, NEW x,
         StageOf(i)' = x, \A o \in Ids : o # i => StageOf(o)' = StageOf(o)
  PROVE  [o \in Ids |-> StageOf(o)]' = [[o \in Ids |-> StageOf(o)] EXCEPT ![i] = x]
OBVIOUS

LEMMA SubmitStutters ==
  ASSUME IInv, NEW h \in Handlers, Submit(h)
  PROVE  UNCHANGED Promise!promiseVars
<1>0. TypeOK /\ HandlerInv /\ UNCHANGED <<ledger, balance>>
  BY DEF IInv, Submit, chain
<1> DEFINE i == handler[h].id
<1>1. /\ i \in Journaled /\ Journaled' = Journaled
      /\ journal' = [journal EXCEPT ![i] = SubmittedRow(journal[i], i)]
  BY <1>0, SubmitEffect
<1>2. journal[i] \in Row /\ i \in Ids
  BY <1>0, <1>1, RowsAreTyped
<1>3. /\ \A o \in Ids : o # i => journal'[o] = journal[o]
      /\ journal'[i] = SubmittedRow(journal[i], i)
  BY <1>0, <1>1, <1>2 DEF TypeOK
<1>4. /\ journal'[i].req = journal[i].req
      /\ journal'[i].claim = journal[i].claim /\ journal'[i].collected = journal[i].collected
      /\ journal'[i].status = "expired" <=> journal[i].status = "expired"
  BY <1>2, <1>3, SubmittedRowType
<1>5. \A o \in Ids : StageOf(o)' = StageOf(o)
  BY <1>0, <1>1, <1>3, <1>4 DEF StageOf
<1> QED
  BY <1>0, <1>1, <1>3, <1>4, <1>5, PromiseStutters DEF Journaled

LEMMA FulfillCollects ==
  ASSUME IInv, NEW i \in Ids, Fulfill(i)
  PROVE  Promise!Collect(i)
<1>0. TypeOK /\ UNCHANGED <<ledger, balance>>
  BY DEF IInv, Fulfill, chain
<1>1. /\ i \in Journaled /\ Collectable(journal[i]) /\ Journaled' = Journaled
      /\ journal' = [journal EXCEPT ![i] = [journal[i] EXCEPT !.collected = @ + 1]]
  BY <1>0, FulfillEffect
<1>2. journal[i] \in Row
  BY <1>0, <1>1, RowsAreTyped
<1>3. /\ \A o \in Ids : o # i => journal'[o] = journal[o]
      /\ journal'[i] = [journal[i] EXCEPT !.collected = @ + 1]
  BY <1>0, <1>1 DEF TypeOK
<1>4. /\ journal'[i].req = journal[i].req /\ journal'[i].status = journal[i].status
      /\ journal'[i].claim = journal[i].claim /\ journal'[i].collected = 1
      /\ journal[i].collected = 0 /\ journal[i].claim > 0
  BY <1>1, <1>2, <1>3, CollectedRowType DEF Collectable
<1>5. \A o \in Ids : StageOf(o)' = StageOf(o) /\ TermsOf(o)' = TermsOf(o)
  BY <1>0, <1>1, <1>3, <1>4, SameStage
<1>6. CodedOps' = CodedOps /\ CollectedOps' = CollectedOps \cup {i} /\ i \in CodedOps /\ i \notin CollectedOps
  BY <1>1, <1>3, <1>4 DEF CodedOps, CollectedOps, Journaled
<1>7. /\ [o \in Ids |-> StageOf(o)]' = [o \in Ids |-> StageOf(o)]
      /\ [o \in Ids |-> TermsOf(o)]' = [o \in Ids |-> TermsOf(o)]
  BY <1>5
<1> QED
  BY <1>0, <1>6, <1>7 DEF Promise!Collect

LEMMA SettleDecides ==
  ASSUME IInv, NEW w \in Workers, Settle(w)
  PROVE  [Promise!PromiseNext]_Promise!promiseVars
<1>0. /\ TypeOK /\ WorkerInv /\ CodeIsFinal /\ LedgerInv /\ SentIsJournaled
      /\ UNCHANGED <<ledger, balance>>
  BY DEF IInv, Settle, chain
<1>1. PICK i \in Ids :
         /\ i \in Journaled /\ Journaled' = Journaled
         /\ \A o \in Ids : o # i => journal'[o] = journal[o]
  <2>1. worker[w].row.id \in Ids
    BY <1>0, SettleEffect DEF Snapshot
  <2> QED
    BY <1>0, <2>1, SettleEffect DEF TypeOK
<1>2. CASE journal'[i] = journal[i]
  <2>1. \A o \in Ids : journal'[o] = journal[o]
    BY <1>1, <1>2
  <2>2. \A o \in Ids : StageOf(o)' = StageOf(o)
    BY <1>0, <1>1, <2>1, SameStage
  <2> QED
    BY <1>0, <1>1, <2>1, <2>2, PromiseStutters DEF Journaled
<1>3. CASE journal'[i] # journal[i]
  <2>1. Decided(i)
    BY <1>0, <1>3, SettledIsDecided
  <2>2. /\ journal'[i].req = journal[i].req /\ journal'[i].collected = journal[i].collected
        /\ journal[i].status \in Unsettled /\ journal'[i].status \in Terminal
    BY <2>1 DEF Decided, Rewritten
  <2>3. ASSUME NEW o \in Ids
        PROVE  /\ o # i => StageOf(o)' = StageOf(o)
               /\ TermsOf(o)' = TermsOf(o)
    BY <1>0, <1>1, <2>2, SameStage DEF TermsOf, Of
  <2>4. CollectedOps' = CollectedOps
    BY <1>1, <2>2 DEF CollectedOps, Journaled
  <2>5. journal[i].claim = 0
    BY <1>0, <1>1, <2>2 DEF CodeIsFinal, Unsettled
  <2>6. [o \in Ids |-> TermsOf(o)]' = [o \in Ids |-> TermsOf(o)]
    BY <2>3
  <2>7. CASE journal'[i].status = "expired"
    <3>1. ledger[i] = "absent" /\ journal'[i].claim = 0
      BY <1>0, <1>1, <2>1, <2>5, <2>7 DEF Decided, SentIsJournaled, LedgerInv
    <3>2. StageOf(i) = "open" /\ StageOf(i)' = "void"
      BY <1>0, <1>1, <2>2, <2>7, <3>1 DEF StageOf, Unsettled
    <3>3. CodedOps' = CodedOps
      BY <1>1, <2>5, <3>1 DEF CodedOps, Journaled
    <3>4. [o \in Ids |-> StageOf(o)]' = [[o \in Ids |-> StageOf(o)] EXCEPT ![i] = "void"]
      BY <2>3, <3>2, OneStage
    <3>5. Promise!Void(i)
      BY <1>0, <2>4, <2>6, <3>2, <3>3, <3>4 DEF Promise!Void
    <3> QED
      BY <3>5 DEF Promise!PromiseNext
  <2>8. CASE journal'[i].status = "failed" \/ (journal'[i].status = "confirmed" /\ journal[i].req.kind # "redeem")
    <3>1. journal'[i].claim = journal[i].claim /\ ledger[i] \in {"success", "error"}
      BY <2>1, <2>8 DEF Decided
    <3>2. StageOf(i)' = StageOf(i)
      BY <1>0, <1>1, <2>2, <3>1 DEF StageOf
    <3>3. \A o \in Ids : StageOf(o)' = StageOf(o)
      BY <2>3, <3>2
    <3> QED
      BY <1>0, <1>1, <2>2, <3>1, <3>3, PromiseStutters DEF Journaled
  <2>9. CASE journal'[i].status = "confirmed" /\ journal[i].req.kind = "redeem"
    <3>1. journal'[i].claim = 1 /\ ledger[i] = "success"
      BY <2>1, <2>5, <2>9 DEF Decided
    <3>2. StageOf(i) = "granted" /\ StageOf(i)' = "granted" /\ TermsOf(i) = journal[i].req
      BY <1>0, <1>1, <3>1 DEF StageOf, TermsOf, Of
    <3>3. CodedOps' = CodedOps \cup {i} /\ i \notin CodedOps
      BY <1>1, <2>5, <3>1 DEF CodedOps, Journaled
    <3>4. [o \in Ids |-> StageOf(o)]' = [o \in Ids |-> StageOf(o)]
      BY <2>3, <3>2
    <3>5. Promise!GiveCode(i)
      BY <1>0, <2>4, <2>6, <2>9, <3>2, <3>3, <3>4 DEF Promise!GiveCode
    <3> QED
      BY <3>5 DEF Promise!PromiseNext
  <2> QED
    BY <2>2, <2>7, <2>8, <2>9 DEF Terminal
<1> QED
  BY <1>2, <1>3

LEMMA ClusterKeepsPromise ==
  ASSUME IInv, ChainStep
  PROVE  [Promise!PromiseNext]_Promise!promiseVars
<1>0. /\ TypeOK /\ LedgerInv /\ SentIsJournaled /\ ExpiredNeverLands
      /\ UNCHANGED journal /\ Journaled' = Journaled
  BY DEF IInv, ChainStep, Land, Drop, Succeed, Fail, AdvanceHeight, BurnOutside, Journaled
<1>1. \A o \in Ids : TermsOf(o)' = TermsOf(o)
  BY <1>0 DEF TermsOf, Of
<1>2. CodedOps' = CodedOps /\ CollectedOps' = CollectedOps
  BY <1>0 DEF CodedOps, CollectedOps
<1>3. [o \in Ids |-> TermsOf(o)]' = [o \in Ids |-> TermsOf(o)]
  BY <1>1
<1>4. ASSUME NEW i \in Ids, ledger[i] = "landed" PROVE i \in Journaled /\ StageOf(i) = "open"
  BY <1>0, <1>4 DEF LedgerInv, SentIsJournaled, ExpiredNeverLands, StageOf
<1>5. ASSUME NEW i \in Ids, NEW x, ledger' = [ledger EXCEPT ![i] = x]
      PROVE  \A o \in Ids : o # i => StageOf(o)' = StageOf(o)
  BY <1>0, <1>5 DEF StageOf, TypeOK
<1>6. ASSUME NEW i \in Ids, Land(i) \/ Drop(i) PROVE UNCHANGED Promise!promiseVars
  <2>1. StageOf(i)' = StageOf(i)
    BY <1>0, <1>6 DEF Land, Drop, StageOf, TypeOK
  <2>2. \A o \in Ids : StageOf(o)' = StageOf(o)
    BY <1>5, <1>6, <2>1 DEF Land, Drop
  <2> QED
    BY <1>0, <1>6, <2>2, PromiseStutters DEF Land, Drop
<1>7. ASSUME NEW i \in Ids, Succeed(i) PROVE Promise!Grant(i)
  <2>1. StageOf(i) = "open" /\ i \in Journaled
    BY <1>4, <1>7 DEF Succeed
  <2>2. StageOf(i)' = "granted"
    BY <1>0, <1>7, <2>1 DEF Succeed, StageOf, TypeOK
  <2>3. [o \in Ids |-> StageOf(o)]' = [[o \in Ids |-> StageOf(o)] EXCEPT ![i] = "granted"]
    BY <1>5, <1>7, <2>2, OneStage DEF Succeed
  <2>4. TermsOf(i) = Of(i)
    BY <2>1 DEF TermsOf
  <2> QED
    BY <1>2, <1>3, <1>7, <2>1, <2>3, <2>4 DEF Succeed, Promise!Grant
<1>8. ASSUME NEW i \in Ids, Fail(i) PROVE Promise!Void(i)
  <2>1. StageOf(i) = "open" /\ i \in Journaled
    BY <1>4, <1>8 DEF Fail
  <2>2. StageOf(i)' = "void"
    BY <1>0, <1>8, <2>1 DEF Fail, StageOf, TypeOK
  <2>3. [o \in Ids |-> StageOf(o)]' = [[o \in Ids |-> StageOf(o)] EXCEPT ![i] = "void"]
    BY <1>5, <1>8, <2>2, OneStage DEF Fail
  <2> QED
    BY <1>2, <1>3, <1>8, <2>1, <2>3 DEF Fail, Promise!Void
<1>9. CASE AdvanceHeight
  BY <1>9, NothingSettles DEF AdvanceHeight
<1>10. ASSUME NEW v \in Wallets, BurnOutside(v) PROVE Promise!Spend(v)
  <2>1. \A o \in Ids : StageOf(o)' = StageOf(o)
    BY <1>0, <1>10 DEF BurnOutside, StageOf
  <2>2. [o \in Ids |-> StageOf(o)]' = [o \in Ids |-> StageOf(o)]
    BY <2>1
  <2> QED
    BY <1>2, <1>3, <1>10, <2>2 DEF BurnOutside, Promise!Spend
<1> QED
  BY <1>6, <1>7, <1>8, <1>9, <1>10 DEF ChainStep, Promise!PromiseNext

-----------------------------------------------------------------------------
\* The server, its workers and the cluster together implement the promise.
THEOREM ServerKeepsPromise == Spec => PromiseKept
<1>1. Init => Promise!PromiseInit
  <2> SUFFICES ASSUME Init PROVE Promise!PromiseInit
    OBVIOUS
  <2>1. Journaled = {}
    BY DEF Init, Journaled, Absent
  <2>2. \A o \in Ids : StageOf(o) = "new" /\ TermsOf(o) = "no terms"
    BY <2>1 DEF StageOf, TermsOf
  <2> QED
    BY <2>1, <2>2 DEF Init, Promise!PromiseInit, Promise!NoTerms, CodedOps, CollectedOps
<1>2. IInv /\ [Next]_vars => [Promise!PromiseNext]_Promise!promiseVars
  <2> SUFFICES ASSUME IInv, [Next]_vars PROVE [Promise!PromiseNext]_Promise!promiseVars
    OBVIOUS
  <2>1. ASSUME NEW h \in Handlers, HandlerStep(h) PROVE [Promise!PromiseNext]_Promise!promiseVars
    <3>1. CASE Insert(h)
      BY <3>1, InsertOffers
    <3>2. CASE Submit(h)
      BY <3>2, SubmitStutters
    <3>3. CASE ~Insert(h) /\ ~Submit(h)
      <4>1. UNCHANGED <<journal, ledger, balance>>
        BY <2>1, <3>3 DEF HandlerStep, Find, Replay, CheckBalance, Prepare, Reread, ReadSubmit, Abandon, chain
      <4> QED
        BY <4>1, NothingSettles
    <3> QED
      BY <3>1, <3>2, <3>3
  <2>2. ASSUME NEW w \in Workers, WorkerStep(w) PROVE [Promise!PromiseNext]_Promise!promiseVars
    <3>1. CASE Settle(w)
      BY <3>1, SettleDecides
    <3>2. CASE ~Settle(w)
      <4>1. UNCHANGED <<journal, ledger, balance>>
        BY <2>2, <3>2 DEF WorkerStep, ReadBatch, ReadHeight, ReadStatus, SkipRow, KeepPending, Interrupt, chain
      <4> QED
        BY <4>1, NothingSettles
    <3> QED
      BY <3>1, <3>2
  <2>3. ASSUME NEW o \in Ids, Fulfill(o) PROVE [Promise!PromiseNext]_Promise!promiseVars
    BY <2>3, FulfillCollects DEF Promise!PromiseNext
  <2>4. CASE ChainStep
    BY <2>4, ClusterKeepsPromise
  <2>5. CASE UNCHANGED vars
    BY <2>5, NothingSettles DEF vars
  <2> QED
    BY <2>1, <2>2, <2>3, <2>4, <2>5 DEF Next
<1> QED
  BY <1>1, <1>2, InvariantHolds, PTL DEF Spec, PromiseKept, Promise!PromiseSpec
=============================================================================
