----------------------------- MODULE ServerStart -----------------------------
(***************************************************************************)
(* The start and the end of API processes: run of server/cmd/api with      *)
(* Migrate and BindMint of the store.  Several processes, each configured  *)
(* with a mint or with none, start on one database, serve, are told to     *)
(* stop, and are killed.  A process that serves with a mint journals       *)
(* operations of that mint; the rows do not name it.                       *)
(***************************************************************************)
EXTENDS Naturals, FiniteSets

CONSTANTS
    Processes,
    Mints,      \* the mints an operator may configure
    None        \* no mint, or no process

VARIABLES
    proc,       \* where each process is, and its SOLANA_MINT
    lock,       \* the process whose migration holds the advisory lock
    schema,     \* whether the tables exist
    bound,      \* the devnet_mint of app_settings
    sent,       \* mints whose INSERT is under way and no longer waited for
    journal     \* the mints that operations were journaled for

vars == <<proc, lock, schema, bound, sent, journal>>
database == <<schema, bound, sent, journal>>

Init ==
    /\ proc = [p \in Processes |-> [pc |-> "down", mint |-> None]]
    /\ lock = None /\ schema = FALSE
    /\ bound = None /\ sent = {} /\ journal = {}

Go(p, pc) == proc' = [proc EXCEPT ![p].pc = pc]
Working(p) == proc[p].pc \in {"serve", "drain"} /\ proc[p].mint # None

Start(p, m) ==
    /\ proc[p].pc = "down"
    /\ proc' = [proc EXCEPT ![p] = [pc |-> "migrate", mint |-> m]]
    /\ UNCHANGED <<lock, database>>

Lock(p) ==
    /\ proc[p].pc = "migrate" /\ lock = None
    /\ lock' = p /\ Go(p, "migrating")
    /\ UNCHANGED database

Migrate(p) ==
    /\ proc[p].pc = "migrating"
    /\ schema' = TRUE /\ lock' = None
    /\ Go(p, "connect")
    /\ UNCHANGED <<bound, sent, journal>>

\* Redis answers and the mint is valid; a process without a mint binds none.
Connect(p) ==
    /\ proc[p].pc = "connect"
    /\ Go(p, IF proc[p].mint = None THEN "serve" ELSE "insert")
    /\ UNCHANGED <<lock, database>>

\* Bug: ON CONFLICT DO UPDATE.
BugBind(m) == bound' = m

\* INSERT ... ON CONFLICT DO NOTHING.
Bind(m) == bound' = IF bound = None THEN m ELSE bound

BindInsert(p) ==
    /\ proc[p].pc = "insert"
    /\ Bind(proc[p].mint) /\ Go(p, "select")
    /\ UNCHANGED <<lock, schema, sent, journal>>

\* The database may run the INSERT of a process that is gone.
LateInsert(m) ==
    /\ m \in sent /\ sent' = sent \ {m}
    /\ Bind(m)
    /\ UNCHANGED <<proc, lock, schema, journal>>

\* Bug: the stored mint is not compared.
BugBindSelect(p) ==
    /\ proc[p].pc = "select"
    /\ Go(p, "serve")
    /\ UNCHANGED <<lock, database>>

BindSelect(p) ==
    /\ proc[p].pc = "select"
    /\ Go(p, IF bound = proc[p].mint THEN "serve" ELSE "down")
    /\ UNCHANGED <<lock, database>>

\* A handler journals an operation; one that is under way when the process is
\* told to stop has ten seconds to end.
Journal(p) ==
    /\ Working(p)
    /\ journal' = journal \cup {proc[p].mint}
    /\ UNCHANGED <<proc, lock, schema, bound, sent>>

Signal(p) ==
    /\ proc[p].pc = "serve"
    /\ Go(p, "drain")
    /\ UNCHANGED <<lock, database>>

\* The process is killed, has drained, or fails to start within 30 seconds;
\* its session ends, and with it the lock.
Stop(p) ==
    /\ proc[p].pc # "down"
    /\ Go(p, "down")
    /\ lock' = IF lock = p THEN None ELSE lock
    /\ sent' \in IF proc[p].pc = "insert" THEN {sent, sent \cup {proc[p].mint}} ELSE {sent}
    /\ UNCHANGED <<schema, bound, journal>>

Next ==
    \/ \E p \in Processes :
          \/ \E m \in Mints \cup {None} : Start(p, m)
          \/ Lock(p) \/ Migrate(p) \/ Connect(p) \/ BindInsert(p) \/ BindSelect(p)
          \/ Journal(p) \/ Signal(p) \/ Stop(p)
    \/ \E m \in Mints : LateInsert(m)

Spec == Init /\ [][Next]_vars

-----------------------------------------------------------------------------
\* Every variable has its type; one migration runs at a time, and only a
\* process that has seen the tables made goes on to use them.
TypeOK ==
    /\ \A p \in Processes :
          /\ proc[p].pc \in {"down", "migrate", "migrating", "connect", "insert", "select",
                             "serve", "drain"}
          /\ proc[p].mint \in Mints \cup {None}
          /\ proc[p].pc = "migrating" <=> lock = p
          /\ proc[p].pc \in {"connect", "insert", "select", "serve", "drain"} => schema
    /\ lock \in Processes \cup {None} /\ schema \in BOOLEAN
    /\ bound \in Mints \cup {None} /\ sent \subseteq Mints /\ journal \subseteq Mints

\* Whatever mints processes are started with, and however their starts
\* interleave, the database holds the operations of one mint.  (README.md:220:
\* "A different mint requires a separate database so histories cannot be mixed.")
HistoriesAreNotMixed == Cardinality(journal) <= 1

\* Every process that serves with a mint serves the mint of the journal it
\* works on, then and later.
ServersAgree ==
    \A p \in Processes : Working(p) => journal \subseteq {proc[p].mint}
=============================================================================
