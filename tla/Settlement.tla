----------------------------- MODULE Settlement -----------------------------
(***************************************************************************)
(* The operation journal of the Orbit server, the HTTP handlers that write *)
(* it (redeem, submit, issue, fulfill), the reconciliation worker that     *)
(* settles it and the Solana cluster both of them talk to.                 *)
(*                                                                         *)
(* A handler and a worker are processes: every SQL statement and every RPC *)
(* call is a step of its own, because another handler, another worker (of  *)
(* an overlapping deployment) or the cluster may move between two of them, *)
(* and because the process may stop there.                                 *)
(*                                                                         *)
(* Data is abstracted to identities.  An operation id also names the       *)
(* transaction message prepared for it (its memo carries the id) and the   *)
(* fee payer's signature over that message, which Ed25519 makes a function *)
(* of the message.  A payload stands for a payload hash and fixes points.  *)
(***************************************************************************)
EXTENDS Naturals, FiniteSets, FiniteSetsExt

CONSTANTS
    Ids,        \* operation ids that uuid.NewString may draw
    Wallets,    \* member wallets
    Keys,       \* Idempotency-Key values clients use
    Payloads,   \* request bodies: a reward, or an amount with a reference
    Points,     \* Points[p]: the points payload p burns or mints
    Requests,   \* the requests to redeem and issue that clients make
    Opening,    \* Opening[w]: the points wallet w holds at the start
    Handlers,   \* concurrent HTTP requests
    Workers,    \* reconcilers: one per running server process
    None,       \* the NULL signature
    Window,     \* blocks a finalized blockhash stays valid for
    MaxHeight   \* bound: the last finalized height the model reaches

Kinds == {"earn", "redeem"}
Request == [kind : Kinds, wallet : Wallets, key : Keys, payload : Payloads]

ASSUME SettlementAssumption ==
    /\ Requests \subseteq Request
    /\ Points \in [Payloads -> Nat \ {0}]
    /\ Opening \in [Wallets -> Nat]
    /\ None \notin Ids
    /\ Window \in Nat
    /\ MaxHeight \in Nat

\* Uuids have 128 bits and addresses 32 bytes.
ASSUME FiniteAssumption == IsFiniteSet(Ids) /\ IsFiniteSet(Wallets)

VARIABLES
    journal,    \* the operations table, by id
    handler,    \* what each request holds between two of its calls
    worker,     \* what each reconciler holds between two of its calls
    height,     \* the finalized block height of the cluster
    sent,       \* transactions some node of the cluster has received
    ledger,     \* what the cluster made of each transaction
    balance,    \* finalized points of each wallet
    answers     \* history: the 2xx answers of redeem and issue

vars == <<journal, handler, worker, height, sent, ledger, balance, answers>>
chain == <<height, sent, ledger, balance>>

-----------------------------------------------------------------------------
(* Rows of the journal.                                                    *)

Unsettled == {"prepared", "pending"}
Terminal == {"confirmed", "failed", "expired"}

\* claim counts the reward codes written to the row, each a fresh uuid, so
\* <<id, claim>> is the current code and 0 is NULL; collected counts the
\* times Fulfill matched it, 0 meaning fulfilled_at IS NULL.
Row == [status : Unsettled \cup Terminal, req : Requests, lastHeight : Nat,
        signature : Ids \cup {None}, claim : Nat, collected : {0, 1}]
Absent == [status |-> "absent"]

Journaled == {o \in Ids : journal[o].status # "absent"}
Of(o) == journal[o].req

\* UNIQUE(wallet, kind, idempotency_key) and the lookup of FindKey: the rows
\* that hold the key of request r.
SameKey(r, s) == r.wallet = s.wallet /\ r.kind = s.kind /\ r.key = s.key
FindKey(r) == {o \in Journaled : SameKey(Of(o), r)}

-----------------------------------------------------------------------------
(* What a request and a worker hold.                                       *)

IdleHandler == [pc |-> "idle"]
HandlerState ==
    {IdleHandler}
    \cup [pc : {"balance", "prepare"}, req : Requests]
    \cup [pc : {"insert", "reread"}, req : Requests, id : Ids, lastHeight : Nat]
    \cup [pc : {"update"}, id : Ids, signature : Ids]

\* A row as Unsettled read it: what State, Send and Settle are called with.
Snapshot == [id : Ids, status : Unsettled, signature : Ids \cup {None},
             lastHeight : Nat]
SnapshotOf(o) == [id |-> o, status |-> journal[o].status,
                  signature |-> journal[o].signature,
                  lastHeight |-> journal[o].lastHeight]

Verdicts == {"pending", "confirmed", "failed", "expired"}
WorkerState ==
    [pc : {"loop"}, batch : SUBSET Snapshot]
    \cup [pc : {"status"}, batch : SUBSET Snapshot, row : Snapshot, seen : Nat]
    \cup [pc : {"act"}, batch : SUBSET Snapshot, row : Snapshot, seen : Nat,
          verdict : Verdicts]
IdleWorker == [pc |-> "loop", batch |-> {}]

-----------------------------------------------------------------------------
Init ==
    /\ journal = [o \in Ids |-> Absent]
    /\ handler = [h \in Handlers |-> IdleHandler]
    /\ worker = [w \in Workers |-> IdleWorker]
    /\ height = 0
    /\ sent = {}
    /\ ledger = [o \in Ids |-> "absent"]
    /\ balance = Opening
    /\ answers = {}

-----------------------------------------------------------------------------
(* redeem and issue: existing, Balance (redeem only), Prepare, Create.     *)
(* Create is two statements: the INSERT and the FindKey that decides which *)
(* row the answer is about.                                                *)

\* existing found no row for the key.  (A row with another payload answers
\* 409 and changes nothing.)
Find(h, r) ==
    /\ handler[h].pc = "idle"
    /\ FindKey(r) = {}
    /\ handler' = [handler EXCEPT ![h] =
            [pc |-> IF r.kind = "redeem" THEN "balance" ELSE "prepare", req |-> r]]
    /\ UNCHANGED <<journal, worker, chain, answers>>

\* existing found the row of an earlier request with the same payload, in
\* whatever status it is now: that row is the answer.
Replay(h, r) ==
    /\ handler[h].pc = "idle"
    /\ \E o \in FindKey(r) :
          /\ Of(o).payload = r.payload
          /\ answers' = answers \cup {[req |-> r, id |-> o]}
    /\ UNCHANGED <<journal, handler, worker, chain>>

\* The finalized balance covers the reward; otherwise Refuse.
CheckBalance(h) ==
    /\ handler[h].pc = "balance"
    /\ balance[handler[h].req.wallet] >= Points[handler[h].req.payload]
    /\ handler' = [handler EXCEPT ![h].pc = "prepare"]
    /\ UNCHANGED <<journal, worker, chain, answers>>

\* Bug: the authority-signed mint goes out before it is journaled.
BugPrepareSends(h, o) ==
    /\ handler[h].pc = "prepare"
    /\ o \notin Journaled \cup sent
    /\ height + Window < MaxHeight
    /\ handler' = [handler EXCEPT ![h] =
            [pc |-> "insert", req |-> handler[h].req, id |-> o,
             lastHeight |-> height + Window]]
    /\ sent' = sent \cup {o}
    /\ UNCHANGED <<journal, worker, height, ledger, balance, answers>>

\* The id is a fresh uuid and the message carries the latest finalized
\* blockhash.  The last conjunct is the bound MaxHeight: it leaves every
\* prepared transaction room to expire.
Prepare(h, o) ==
    /\ handler[h].pc = "prepare"
    /\ o \notin Journaled
    /\ \A g \in Handlers : handler[g].pc \in {"insert", "reread"} => handler[g].id # o
    /\ height + Window < MaxHeight
    /\ handler' = [handler EXCEPT ![h] =
            [pc |-> "insert", req |-> handler[h].req, id |-> o,
             lastHeight |-> height + Window]]
    /\ UNCHANGED <<journal, worker, chain, answers>>

\* A mint is journaled with the authority's signature and is pending at once;
\* a burn waits for its member as prepared.
NewRow(d) ==
    [status |-> IF d.req.kind = "earn" THEN "pending" ELSE "prepared",
     req |-> d.req, lastHeight |-> d.lastHeight,
     signature |-> IF d.req.kind = "earn" THEN d.id ELSE None,
     claim |-> 0, collected |-> 0]

\* Bug: no unique index behind the check that existing made earlier.
BugInsertRow(d) == [journal EXCEPT ![d.id] = NewRow(d)]

\* INSERT ... ON CONFLICT(wallet, kind, idempotency_key) DO NOTHING.
InsertRow(d) ==
    IF FindKey(d.req) = {} THEN [journal EXCEPT ![d.id] = NewRow(d)] ELSE journal

Insert(h) ==
    /\ handler[h].pc = "insert"
    /\ journal' = InsertRow(handler[h])
    /\ handler' = [handler EXCEPT ![h].pc = "reread"]
    /\ UNCHANGED <<worker, chain, answers>>

\* Bug: Create answers with the operation it was called with.
BugCreatedOwn(d) == {d.id}

\* Bug: the payload of the row read back is not compared.
BugCreatedAny(d) == FindKey(d.req)

\* The row Create reads back for request r, when it may be the answer: the
\* row that holds the key, unless its payload differs (ErrConflict).
Created(d) == {o \in FindKey(d.req) : Of(o).payload = d.req.payload}

Reread(h) ==
    /\ handler[h].pc = "reread"
    /\ answers' = answers \cup {[req |-> handler[h].req, id |-> o] : o \in Created(handler[h])}
    /\ handler' = [handler EXCEPT ![h] = IdleHandler]
    /\ UNCHANGED <<journal, worker, chain>>

\* A request ends early between two of its calls: too few points, a failed
\* RPC call or statement, a dropped connection, or the end of the process.
Abandon(h) ==
    /\ handler[h].pc # "idle"
    /\ handler' = [handler EXCEPT ![h] = IdleHandler]
    /\ UNCHANGED <<journal, worker, chain, answers>>

-----------------------------------------------------------------------------
(* submit: read the operation, check the wallet's signature, UPDATE.       *)

\* Bug: any redemption message of the wallet is accepted.
BugSignRedemption(o, m) ==
    /\ m \in Journaled
    /\ Of(m).kind = "redeem"
    /\ Of(m).wallet = Of(o).wallet

\* SignRedemption accepts message m for row o: the wallet signed exactly the
\* stored message, whose signers are the authority and the row's wallet.
SignRedemption(o, m) == m = o /\ Of(m).wallet = Of(o).wallet

\* The wallet signed message m.  A row that is no longer prepared is the
\* answer as it stands.
ReadSubmit(h, o, m) ==
    /\ handler[h].pc = "idle"
    /\ o \in Journaled
    /\ Of(o).kind = "redeem"
    /\ SignRedemption(o, m)
    /\ journal[o].status = "prepared"
    /\ handler' = [handler EXCEPT ![h] = [pc |-> "update", id |-> o, signature |-> m]]
    /\ UNCHANGED <<journal, worker, chain, answers>>

\* Bug: the status was only checked when the row was read.
BugSubmittedRow(row, m) == [row EXCEPT !.status = "pending", !.signature = m]

\* UPDATE ... WHERE status = 'prepared'.  The re-read after it only fills the
\* answer.
SubmittedRow(row, m) ==
    IF row.status = "prepared"
    THEN [row EXCEPT !.status = "pending", !.signature = m] ELSE row

Submit(h) ==
    /\ handler[h].pc = "update"
    /\ journal' = [journal EXCEPT ![handler[h].id] = SubmittedRow(@, handler[h].signature)]
    /\ handler' = [handler EXCEPT ![h] = IdleHandler]
    /\ UNCHANGED <<worker, chain, answers>>

-----------------------------------------------------------------------------
(* fulfill: one conditional UPDATE of the row that holds the code.         *)

\* Bug: a collected code still matches.
BugCollectable(row) == row.status = "confirmed" /\ row.claim > 0

Collectable(row) ==
    /\ row.status = "confirmed"
    /\ row.req.kind = "redeem"
    /\ row.claim > 0
    /\ row.collected = 0

Fulfill(o) ==
    /\ o \in Journaled
    /\ Collectable(journal[o])
    /\ journal' = [journal EXCEPT ![o].collected = @ + 1]
    /\ UNCHANGED <<handler, worker, chain, answers>>

-----------------------------------------------------------------------------
(* Reconcile: read the unsettled rows once, then one row at a time ask the *)
(* cluster for its state and send, or settle.  Which rows a batch holds    *)
(* and in which order it visits them is left open here.                    *)

\* Bug: prepared rows are left out of the batch, so they never expire.
BugReadBatch(w) ==
    /\ worker[w] = IdleWorker
    /\ \E B \in SUBSET {o \in Journaled : journal[o].status = "pending"} :
          /\ B # {}
          /\ worker' = [worker EXCEPT ![w].batch = {SnapshotOf(o) : o \in B}]
    /\ UNCHANGED <<journal, handler, chain, answers>>

ReadBatch(w) ==
    /\ worker[w] = IdleWorker
    /\ \E B \in SUBSET {o \in Journaled : journal[o].status \in Unsettled} :
          /\ B # {}
          /\ worker' = [worker EXCEPT ![w].batch = {SnapshotOf(o) : o \in B}]
    /\ UNCHANGED <<journal, handler, chain, answers>>

\* State reads the finalized height first ...
ReadHeight(w, o) ==
    /\ worker[w].pc = "loop"
    /\ \E s \in worker[w].batch :
          /\ s.id = o
          /\ worker' = [worker EXCEPT ![w] =
                [pc |-> "status", batch |-> worker[w].batch \ {s}, row |-> s,
                 seen |-> height]]
    /\ UNCHANGED <<journal, handler, chain, answers>>

\* What GetSignatureStatuses has on the row's signature, if it has one.
StatusOf(s) == IF s.signature = None THEN "absent" ELSE ledger[s.signature]

\* Bug: a signature the cluster has seen in any block counts as confirmed.
BugVerdict(s, seen) ==
    CASE StatusOf(s) \in {"landed", "success"} -> "confirmed"
      [] StatusOf(s) = "error" -> "failed"
      [] OTHER -> IF seen > s.lastHeight THEN "expired" ELSE "pending"

\* ... and the status of the signature after it.
Verdict(s, seen) ==
    CASE StatusOf(s) = "success" -> "confirmed"
      [] StatusOf(s) = "error" -> "failed"
      [] StatusOf(s) = "landed" -> "pending"
      [] OTHER -> IF seen > s.lastHeight THEN "expired" ELSE "pending"

\* Bug: the status is older than the height it is judged with.
BugReadStatus(w) ==
    /\ worker[w].pc = "status"
    /\ \E later \in height .. MaxHeight :
          worker' = [worker EXCEPT ![w] =
            [pc |-> "act", batch |-> worker[w].batch, row |-> worker[w].row,
             seen |-> later, verdict |-> Verdict(worker[w].row, later)]]
    /\ UNCHANGED <<journal, handler, chain, answers>>

ReadStatus(w) ==
    /\ worker[w].pc = "status"
    /\ worker' = [worker EXCEPT ![w] =
            [pc |-> "act", batch |-> worker[w].batch, row |-> worker[w].row,
             seen |-> worker[w].seen,
             verdict |-> Verdict(worker[w].row, worker[w].seen)]]
    /\ UNCHANGED <<journal, handler, chain, answers>>

NextRow(w) == [worker EXCEPT ![w] = [pc |-> "loop", batch |-> worker[w].batch]]

\* State failed: the row is left for the next pass.
SkipRow(w) ==
    /\ worker[w].pc = "status"
    /\ worker' = NextRow(w)
    /\ UNCHANGED <<journal, handler, chain, answers>>

\* A pending row is sent again; the call may fail before or after a node got
\* the transaction, and its error is only logged.
Sendable(s) == IF s.status = "pending" THEN {s.signature} ELSE {}

KeepPending(w) ==
    /\ worker[w].pc = "act"
    /\ worker[w].verdict = "pending"
    /\ \E M \in SUBSET Sendable(worker[w].row) : sent' = sent \cup M
    /\ worker' = NextRow(w)
    /\ UNCHANGED <<journal, handler, height, ledger, balance, answers>>

\* Bug: the row is settled whatever happened since the snapshot.
BugSettledRow(row, s, verdict) ==
    [row EXCEPT !.status = verdict,
                !.claim = IF verdict = "confirmed" /\ row.req.kind = "redeem"
                          THEN @ + 1 ELSE @]

\* UPDATE ... WHERE status and signature are still those of the snapshot.
SettledRow(row, s, verdict) ==
    IF row.status = s.status /\ row.signature = s.signature
    THEN [row EXCEPT !.status = verdict,
                     !.claim = IF verdict = "confirmed" /\ row.req.kind = "redeem"
                               THEN @ + 1 ELSE @]
    ELSE row

Settle(w) ==
    /\ worker[w].pc = "act"
    /\ worker[w].verdict # "pending"
    /\ journal' = [journal EXCEPT ![worker[w].row.id] =
            SettledRow(@, worker[w].row, worker[w].verdict)]
    /\ worker' = NextRow(w)
    /\ UNCHANGED <<handler, chain, answers>>

\* The pass ends early: its 20 second timeout, a failed statement, or the end
\* of the process.  What was read is forgotten.
Interrupt(w) ==
    /\ worker[w] # IdleWorker
    /\ worker' = [worker EXCEPT ![w] = IdleWorker]
    /\ UNCHANGED <<journal, handler, chain, answers>>

-----------------------------------------------------------------------------
(* The cluster, as src/ relies on it.  height is the finalized height; a   *)
(* transaction may enter a block above it, up to its last valid height,    *)
(* and that block may still lose its fork.                                 *)

Land(o) ==
    /\ o \in sent
    /\ ledger[o] = "absent"
    /\ height < journal[o].lastHeight
    /\ ledger' = [ledger EXCEPT ![o] = "landed"]
    /\ UNCHANGED <<journal, handler, worker, height, sent, balance, answers>>

Drop(o) ==
    /\ ledger[o] = "landed"
    /\ ledger' = [ledger EXCEPT ![o] = "absent"]
    /\ UNCHANGED <<journal, handler, worker, height, sent, balance, answers>>

\* The token program executes the transaction: a mint adds the points, a burn
\* needs them.
Succeed(o) ==
    /\ ledger[o] = "landed"
    /\ LET r == Of(o) IN
          \/ /\ r.kind = "earn"
             /\ balance' = [balance EXCEPT ![r.wallet] = @ + Points[r.payload]]
          \/ /\ r.kind = "redeem"
             /\ balance[r.wallet] >= Points[r.payload]
             /\ balance' = [balance EXCEPT ![r.wallet] = @ - Points[r.payload]]
    /\ ledger' = [ledger EXCEPT ![o] = "success"]
    /\ UNCHANGED <<journal, handler, worker, height, sent, answers>>

Fail(o) ==
    /\ ledger[o] = "landed"
    /\ ledger' = [ledger EXCEPT ![o] = "error"]
    /\ UNCHANGED <<journal, handler, worker, height, sent, balance, answers>>

\* A landed transaction sits in a block above the finalized height and no
\* higher than its last valid height: it is decided before that is finalized.
AdvanceHeight ==
    /\ height < MaxHeight
    /\ \A o \in Ids : ledger[o] = "landed" => height + 1 < journal[o].lastHeight
    /\ height' = height + 1
    /\ UNCHANGED <<journal, handler, worker, sent, ledger, balance, answers>>

\* Points cannot be transferred, but their owner may burn one elsewhere.
BurnOutside(v) ==
    /\ balance[v] > 0
    /\ balance' = [balance EXCEPT ![v] = @ - 1]
    /\ UNCHANGED <<journal, handler, worker, height, sent, ledger, answers>>

-----------------------------------------------------------------------------
HandlerStep(h) ==
    \/ \E r \in Requests : Find(h, r) \/ Replay(h, r)
    \/ CheckBalance(h)
    \/ \E o \in Ids : Prepare(h, o)
    \/ Insert(h)
    \/ Reread(h)
    \/ \E o, m \in Ids : ReadSubmit(h, o, m)
    \/ Submit(h)
    \/ Abandon(h)

WorkerStep(w) ==
    \/ ReadBatch(w)
    \/ \E o \in Ids : ReadHeight(w, o)
    \/ ReadStatus(w)
    \/ SkipRow(w)
    \/ KeepPending(w)
    \/ Settle(w)
    \/ Interrupt(w)

ChainStep ==
    \/ \E o \in Ids : Land(o) \/ Drop(o) \/ Succeed(o) \/ Fail(o)
    \/ AdvanceHeight
    \/ \E v \in Wallets : BurnOutside(v)

Next ==
    \/ \E h \in Handlers : HandlerStep(h)
    \/ \E o \in Ids : Fulfill(o)
    \/ \E w \in Workers : WorkerStep(w)
    \/ ChainStep

Spec == Init /\ [][Next]_vars

(***************************************************************************)
(* Fairness.  Blocks keep being finalized, and a transaction does not lose *)
(* its fork for ever: it could land no more than its 150 blocks allow.     *)
(* The worker's 3 second ticker runs pass after pass, and calls            *)
(* of State, Send and Settle for a row cannot fail for ever: strong        *)
(* fairness, because a pass that is interrupted starts over.  That every   *)
(* unsettled row is reached again and again is assumed here.               *)
(***************************************************************************)
Acting(w, o) == worker[w].pc # "loop" /\ worker[w].row.id = o

Fairness ==
    /\ SF_vars(AdvanceHeight)
    /\ \A o \in Ids : SF_vars(Succeed(o) \/ Fail(o))
    /\ \A w \in Workers :
          /\ WF_vars(ReadBatch(w))
          /\ \A o \in Ids :
                /\ SF_vars(ReadHeight(w, o))
                /\ SF_vars(Acting(w, o) /\ ReadStatus(w))
                /\ SF_vars(Acting(w, o) /\ (Settle(w) \/ KeepPending(w)))

FairSpec == Spec /\ Fairness

-----------------------------------------------------------------------------
(* Safety.                                                                 *)

\* Every variable has its type: journal rows satisfy the CHECKs of the
\* schema, requests and workers hold what their next call needs.
TypeOK ==
    /\ journal \in [Ids -> Row \cup {Absent}]
    /\ handler \in [Handlers -> HandlerState]
    /\ worker \in [Workers -> WorkerState]
    /\ height \in Nat
    /\ sent \in SUBSET Ids
    /\ ledger \in [Ids -> {"absent", "landed", "success", "error"}]
    /\ balance \in [Wallets -> Nat]
    /\ answers \in SUBSET [req : Requests, id : Ids]

\* A row the worker expired has no transaction in any block, and never will:
\* the member may safely ask again.  State reads the height before the status
\* and Settle matches the snapshot's status and signature for this.
ExpiredNeverLands ==
    \A o \in Journaled : journal[o].status = "expired" => ledger[o] = "absent"

\* A row the worker confirmed or failed has the same outcome on the finalized
\* ledger, whatever other handlers and workers did since its snapshot.
OutcomeIsFinalized ==
    \A o \in Journaled :
        /\ journal[o].status = "confirmed" => ledger[o] = "success"
        /\ journal[o].status = "failed" => ledger[o] = "error"

\* A transaction reaches the cluster only when the journal already holds it
\* with its signature: after a crash the worker still knows every transaction
\* that may land.
SentIsJournaled ==
    \A o \in sent : o \in Journaled /\ journal[o].signature = o

\* Whatever is retried, raced or resent, at most one transaction per wallet,
\* kind and idempotency key ever reaches the cluster.
OneEffectPerKey ==
    \A o, p \in sent \cap Journaled : SameKey(Of(o), Of(p)) => o = p

\* All successful answers for one wallet, kind and key are about one payload
\* and one operation, and that operation is in the journal under that request.
OneAnswerPerKey ==
    /\ \A a \in answers : a.id \in Journaled /\ Of(a.id) = a.req
    /\ \A a, b \in answers : SameKey(a.req, b.req) => a = b

\* A redemption has a code exactly while it is confirmed, and only ever the
\* one code; a code is collected at most once.
CodeIsFinal ==
    \A o \in Journaled :
        LET row == journal[o] IN
        /\ row.claim = IF row.status = "confirmed" /\ row.req.kind = "redeem" THEN 1 ELSE 0
        /\ row.collected <= row.claim

PointsOf(S) == SumFunctionOnSet([o \in S |-> Points[Of(o).payload]], S)
Held(b) == SumFunctionOnSet(b, Wallets)
Minted == {o \in Journaled : Of(o).kind = "earn" /\ ledger[o] = "success"}
Coded == {o \in Journaled : journal[o].claim > 0}

\* Points are never spent twice: the points behind reward codes and the points
\* still in wallets never exceed what wallets began with and what was minted.
PointsConserved == PointsOf(Coded) + Held(balance) <= Held(Opening) + PointsOf(Minted)

\* A row never leaves a terminal status, never returns from pending to
\* prepared, and keeps its request, its last valid height and, once set, its
\* signature and its code.
RowMoves(old, new) ==
    /\ new.req = old.req /\ new.lastHeight = old.lastHeight
    /\ old.signature # None => new.signature = old.signature
    /\ old.claim > 0 => new.claim = old.claim
    /\ old.status \in Terminal => new.status = old.status
    /\ old.status = "pending" => new.status # "prepared"

JournalMoves ==
    \A o \in Journaled : o \in Journaled' /\ RowMoves(journal[o], journal'[o])

RowsMoveForward == [][JournalMoves]_vars

-----------------------------------------------------------------------------
(* The inductive invariant behind the safety properties.                   *)

\* Only a submitted row has a signature, and it is that of its own message.
SignatureInv ==
    \A o \in Journaled :
        /\ journal[o].signature \in {None, o}
        /\ journal[o].status = "prepared" => journal[o].signature = None
        /\ journal[o].status \in {"pending", "confirmed", "failed"} => journal[o].signature = o

\* Only what was sent is on the ledger, and undecided only above height.
LedgerInv ==
    \A o \in Ids :
        /\ ledger[o] # "absent" => o \in sent
        /\ ledger[o] = "landed" => height < journal[o].lastHeight

\* An expired row is past the last height its transaction could land at.
ExpiredInv ==
    \A o \in Journaled : journal[o].status = "expired" => height > journal[o].lastHeight

UniqueKeys == \A o, p \in Journaled : SameKey(Of(o), Of(p)) => o = p

\* Drafts have ids of their own; a submitter carries the stored message.
HandlerInv ==
    \A h \in Handlers :
        /\ handler[h].pc = "insert" =>
              /\ handler[h].id \notin Journaled
              /\ \A g \in Handlers : handler[g].pc = "insert" /\ handler[g].id = handler[h].id => g = h
        /\ handler[h].pc = "update" =>
              /\ handler[h].id \in Journaled
              /\ Of(handler[h].id).kind = "redeem"
              /\ handler[h].signature = handler[h].id

\* What a snapshot says that no later step can make false.
SnapshotInv(s) ==
    /\ s.id \in Journaled
    /\ s.lastHeight = journal[s.id].lastHeight
    /\ s.status = "prepared" => s.signature = None
    /\ s.status = "pending" => s.signature = s.id /\ journal[s.id].signature = s.id

\* A verdict other than pending has become final before it is acted on.
VerdictInv(s, verdict) ==
    /\ verdict = "confirmed" => s.signature = s.id /\ ledger[s.id] = "success"
    /\ verdict = "failed" => s.signature = s.id /\ ledger[s.id] = "error"
    /\ verdict = "expired" =>
          /\ height > s.lastHeight
          /\ s.signature = s.id => ledger[s.id] = "absent"

WorkerInv ==
    \A w \in Workers :
        /\ \A s \in worker[w].batch : SnapshotInv(s)
        /\ worker[w].pc # "loop" => SnapshotInv(worker[w].row) /\ worker[w].seen <= height
        /\ worker[w].pc = "act" => VerdictInv(worker[w].row, worker[w].verdict)

\* The finalized ledger balances: what it burned for redemptions and what is
\* left is no more than what there was and what it minted.
Burned == {o \in Journaled : Of(o).kind = "redeem" /\ ledger[o] = "success"}
PointsInv == PointsOf(Burned) + Held(balance) <= Held(Opening) + PointsOf(Minted)

AnswerInv == \A a \in answers : a.id \in Journaled /\ Of(a.id) = a.req

\* The conjunction is preserved by every step.
IInv ==
    /\ TypeOK
    /\ SignatureInv /\ SentIsJournaled /\ LedgerInv
    /\ ExpiredInv /\ ExpiredNeverLands /\ OutcomeIsFinalized
    /\ UniqueKeys /\ CodeIsFinal /\ AnswerInv
    /\ HandlerInv /\ WorkerInv

-----------------------------------------------------------------------------
(* Liveness.                                                               *)

\* Every journaled operation is eventually settled, and one whose transaction
\* was finalized with success is eventually confirmed: a lost send, a dropped
\* fork, a crashed pass or a member who never signs cannot leave it open.
EveryRowSettles ==
    \A o \in Ids :
        /\ journal[o].status \in Unsettled ~> journal[o].status \in Terminal
        /\ ledger[o] = "success" ~> journal[o].status = "confirmed"
=============================================================================
