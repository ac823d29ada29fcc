------------------------------ MODULE MintSetup ------------------------------
(***************************************************************************)
(* The set-up command, server/cmd/setup: it makes the authority's and the  *)
(* mint's keypair files, sends the transaction that creates the mint, and  *)
(* waits for its finalization.  Runs may overlap, stop anywhere and be     *)
(* repeated; each finds the files and the ledger as the others left them.  *)
(* The operator keeps the files between runs and uses one pair of paths.   *)
(* The authority is funded and the endpoint is Devnet's.                   *)
(***************************************************************************)
EXTENDS Naturals, FiniteSets

CONSTANTS
    Runs,       \* runs of the command: a bound
    Missing      \* a file that does not exist, a key not loaded; not a number

VARIABLES
    file,       \* the two keypair files
    made,       \* the number of keys generated, and the last one
    proc,       \* the state of each run
    tx,         \* the creation transaction of each run
    mints       \* the mint accounts on the ledger

vars == <<file, made, proc, tx, mints>>

Files == {"authority", "mint"}
Partial == 0    \* a file created and not yet written
Keys == Nat \ {Partial}

Ended == {"keys", "existing", "created", "stopped"}

Init ==
    /\ file = [f \in Files |-> Missing]
    /\ made = 0
    /\ proc = [r \in Runs |-> [pc |-> "idle", create |-> FALSE, of |-> "authority", new |-> Missing,
                               key |-> [f \in Files |-> Missing]]]
    /\ tx = [r \in Runs |-> "none"]
    /\ mints = {}

Running(r) == proc[r].pc \notin Ended \cup {"idle"}

\* A mint account: its address and authority, and whether it is finalized.
Final(address) == \E m \in mints : m.address = address /\ m.final
Exists(address) == \E m \in mints : m.address = address

Go(r, pc) == proc' = [proc EXCEPT ![r].pc = pc]

Start(r, create) ==
    /\ proc[r].pc = "idle"
    /\ proc' = [proc EXCEPT ![r].pc = "stat", ![r].create = create]
    /\ UNCHANGED <<file, made, tx, mints>>

-----------------------------------------------------------------------------
(* keypair, called for the authority and then for the mint.                *)

\* What follows a keypair: the mint's file, the ledger, or the end.
Loaded(p, key) ==
    LET q == [p EXCEPT !.key[p.of] = key] IN
    IF p.of = "mint" THEN [q EXCEPT !.pc = "ask"]
    ELSE IF p.create THEN [q EXCEPT !.pc = "stat", !.of = "mint"]
    ELSE [q EXCEPT !.pc = "keys"]

\* Bug: a file that holds no keypair is read as one.
BugStat(r) ==
    /\ proc[r].pc = "stat"
    /\ LET found == file[proc[r].of] IN
       IF found = Missing THEN Go(r, "generate") ELSE proc' = [proc EXCEPT ![r] = Loaded(@, found)]
    /\ UNCHANGED <<file, made, tx, mints>>

\* Stat, and the existing file is read; one that is not a keypair stops the run.
Stat(r) ==
    /\ proc[r].pc = "stat"
    /\ LET found == file[proc[r].of] IN
       IF found = Missing THEN Go(r, "generate")
       ELSE IF found = Partial THEN Go(r, "stopped")
       ELSE proc' = [proc EXCEPT ![r] = Loaded(@, found)]
    /\ UNCHANGED <<file, made, tx, mints>>

Generate(r) ==
    /\ proc[r].pc = "generate"
    /\ made' = made + 1
    /\ proc' = [proc EXCEPT ![r].new = made', ![r].pc = "open"]
    /\ UNCHANGED <<file, tx, mints>>

\* Bug: the file is truncated when it exists.
BugOpen(r) ==
    /\ proc[r].pc = "open"
    /\ file' = [file EXCEPT ![proc[r].of] = Partial]
    /\ Go(r, "write")
    /\ UNCHANGED <<made, tx, mints>>

\* O_EXCL: another run's file, even an empty one, stops this run.
Open(r) ==
    /\ proc[r].pc = "open"
    /\ IF file[proc[r].of] = Missing
       THEN file' = [file EXCEPT ![proc[r].of] = Partial] /\ Go(r, "write")
       ELSE file' = file /\ Go(r, "stopped")
    /\ UNCHANGED <<made, tx, mints>>

\* Bug: the errors of Write and Close are not looked at.
BugWrite(r) ==
    /\ proc[r].pc = "write"
    /\ \E ok \in BOOLEAN :
          file' = IF ok THEN [file EXCEPT ![proc[r].of] = proc[r].new] ELSE file
    /\ proc' = [proc EXCEPT ![r] = Loaded(@, @.new)]
    /\ UNCHANGED <<made, tx, mints>>

Write(r) ==
    /\ proc[r].pc = "write"
    /\ \/ /\ file' = [file EXCEPT ![proc[r].of] = proc[r].new]
          /\ proc' = [proc EXCEPT ![r] = Loaded(@, @.new)]
       \/ file' = file /\ Go(r, "stopped")
    /\ UNCHANGED <<made, tx, mints>>

-----------------------------------------------------------------------------
(* The mint.                                                               *)

\* Validate, which here comes down to the mint authority.
Valid(r, m) == m.authority = proc[r].key["authority"]

\* The account is looked up finalized.
AskMint(r) ==
    /\ proc[r].pc = "ask"
    /\ LET address == proc[r].key["mint"] IN
       Go(r, IF ~Final(address) THEN "send"
             ELSE IF \A m \in mints : m.address = address => Valid(r, m)
             THEN "existing" ELSE "stopped")
    /\ UNCHANGED <<file, made, tx, mints>>

\* Built, signed with both keys, and sent; a request that fails may have
\* submitted it.
SendMint(r) ==
    /\ proc[r].pc = "send"
    /\ \/ tx' = [tx EXCEPT ![r] = "sent"] /\ Go(r, "wait")
       \/ tx' \in {tx, [tx EXCEPT ![r] = "sent"]} /\ Go(r, "stopped")
    /\ UNCHANGED <<file, made, mints>>

\* Bug: a transaction that is no longer pending counts as finalized.
BugObserve(r) ==
    /\ proc[r].pc = "wait" /\ tx[r] # "sent"
    /\ Go(r, "created")
    /\ UNCHANGED <<file, made, tx, mints>>

\* State of the gateway, until the transaction is final or has ended.
Observe(r) ==
    /\ proc[r].pc = "wait"
    /\ \/ tx[r] = "landed" /\ Final(proc[r].key["mint"]) /\ Go(r, "created")
       \/ tx[r] \in {"failed", "expired"} /\ Go(r, "stopped")
    /\ UNCHANGED <<file, made, tx, mints>>

\* The process is killed, a call fails, or the 90 seconds are over.
Stop(r) ==
    /\ Running(r)
    /\ Go(r, "stopped")
    /\ UNCHANGED <<file, made, tx, mints>>

\* CreateAccount fails when the address is taken.
Land(r) ==
    /\ tx[r] = "sent"
    /\ LET key == proc[r].key IN
       IF Exists(key["mint"]) THEN tx' = [tx EXCEPT ![r] = "failed"] /\ mints' = mints
       ELSE /\ tx' = [tx EXCEPT ![r] = "landed"]
            /\ mints' = mints \cup
                  {[address |-> key["mint"], authority |-> key["authority"], final |-> FALSE]}
    /\ UNCHANGED <<file, made, proc>>

Finalize(m) ==
    /\ ~m.final
    /\ mints' = (mints \ {m}) \cup {[m EXCEPT !.final = TRUE]}
    /\ UNCHANGED <<file, made, proc, tx>>

Expire(r) ==
    /\ tx[r] = "sent"
    /\ tx' = [tx EXCEPT ![r] = "expired"]
    /\ UNCHANGED <<file, made, proc, mints>>

Next ==
    \/ \E r \in Runs :
          \/ \E create \in BOOLEAN : Start(r, create)
          \/ Stat(r) \/ Generate(r) \/ Open(r) \/ Write(r)
          \/ AskMint(r) \/ SendMint(r) \/ Observe(r) \/ Stop(r)
          \/ Land(r) \/ Expire(r)
    \/ \E m \in mints : Finalize(m)

Spec == Init /\ [][Next]_vars

-----------------------------------------------------------------------------
\* Every variable has its type.
TypeOK ==
    /\ file \in [Files -> Nat \cup {Missing}] /\ made \in Nat
    /\ \A r \in Runs :
          /\ proc[r].pc \in Ended \cup {"idle", "stat", "generate", "open", "write", "ask", "send", "wait"}
          /\ proc[r].create \in BOOLEAN /\ proc[r].of \in Files
          /\ proc[r].new \in Keys \cup {Missing}
          /\ proc[r].key \in [Files -> Keys \cup {Missing}]
          /\ tx[r] \in {"none", "sent", "landed", "failed", "expired"}
    /\ \A m \in mints : m.address \in Keys /\ m.authority \in Keys /\ m.final \in BOOLEAN

\* However often and wherever runs stop and are repeated, there is one mint.
\* (README.md:190: "Keep the generated mint keypair if retrying; the command
\* checks the same mint address before creating anything.")
OneMint == Cardinality(mints) <= 1

\* Every mint on the ledger, and every one that can still land, is under keys
\* that the files hold in full: no run sends with a key that a crash could lose.
EveryMintHasItsKeys ==
    /\ \A m \in mints : m.address = file["mint"] /\ m.authority = file["authority"]
    /\ \A r \in Runs : tx[r] = "sent" => proc[r].key = file

\* A run that tells the operator to configure a mint names one that is
\* finalized and under the authority it names.
NamesAFinalMint ==
    \A r \in Runs : proc[r].pc \in {"existing", "created"} =>
        \E m \in mints :
            m.final /\ m.address = proc[r].key["mint"] /\ m.authority = proc[r].key["authority"]
=============================================================================
