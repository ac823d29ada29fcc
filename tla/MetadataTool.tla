----------------------------- MODULE MetadataTool -----------------------------
(***************************************************************************)
(* The command that attaches Metaplex metadata to the mint: main of        *)
(* tools/metadata.ts with the plan of metadata-plan.ts.  Each invocation   *)
(* checks the mint, plans a creation or an update from the metadata it     *)
(* reads, simulates it, writes a recovery record, sends the transaction,   *)
(* and reads everything back.  It may stop at any await; its transaction   *)
(* then still lands, fails or expires.  Awards change the mint's supply    *)
(* meanwhile.                                                              *)
(*                                                                         *)
(* The operator runs one invocation at a time and, as README.md:218 asks,  *)
(* inspects the signature of every recovery record before the next one.    *)
(* The JSON and image behind the URI are taken to be fit.                  *)
(***************************************************************************)
EXTENDS Naturals, Sequences

CONSTANTS
    Invocations,    \* runs of the command: a bound
    Uris,           \* metadata addresses the operator may publish
    Fees,           \* seller fees an owner of the metadata may set: a bound
    MaxSupply,      \* points in circulation: a bound
    None

VARIABLES
    run,        \* the state of each invocation
    tx,         \* the transaction it submitted, and what became of it
    records,    \* the invocations whose recovery record is on disk
    metadata,   \* the metadata account, or None
    mint,       \* the layout of the mint account, which never changes
    supply,     \* the points in circulation, which its data contains
    verified,   \* history: the URI reported as verified since the last --apply
    newer       \* history: whether the owner set a fee since the last plan was made

vars == <<run, tx, records, metadata, mint, supply, verified, newer>>
chain == <<tx, metadata, mint, supply>>

Layouts ==
    [owner : {"Token-2022", "Token"}, decimals : {0, 6}, initialized : BOOLEAN,
     freeze : {"never", "revoked", "set"}, authority : {"ours", "theirs", "none"},
     extensions : {<<>>, <<"NonTransferable">>, <<"TransferFee">>,
                   <<"NonTransferable", "TransferFee">>}]

\* orbit: whether name and symbol are Orbit's; ours: mutable, fungible, and
\* under the configured authority.
Metadata == [uri : Uris, fee : Fees, orbit : BOOLEAN, ours : BOOLEAN]

\* A transaction: createV1 or updateV1, and what it sets.
Plans == [create : BOOLEAN, uri : Uris, fee : Fees]

ASSUME ToolAssumption ==
    /\ 0 \in Fees /\ Fees \subseteq Nat /\ MaxSupply \in Nat
    /\ None \notin Uris /\ None \notin Metadata /\ None \notin Plans

Idle == [pc |-> "idle", uri |-> None, apply |-> FALSE, before |-> 0, plan |-> None]
Unsent == [status |-> "none", plan |-> None]
Ended == {"current", "simulated", "verified", "stopped"}
Running(i) == run[i].pc \notin Ended \cup {"idle"}
Pending(i) == tx[i].status = "sent"

Init ==
    /\ run = [i \in Invocations |-> Idle]
    /\ tx = [i \in Invocations |-> Unsent]
    /\ records = {}
    /\ metadata \in {None} \cup Metadata
    /\ mint \in Layouts
    /\ supply = 0
    /\ verified = None
    /\ newer = FALSE

-----------------------------------------------------------------------------
(* What the tool and the server accept, and what the tool plans.           *)

\* Bug: the bytes of the freeze authority are not looked at.
BugValidateMint(m) ==
    /\ m.owner = "Token-2022" /\ m.decimals = 0 /\ m.initialized
    /\ m.extensions = <<"NonTransferable">>
    /\ m.authority = "ours"

\* A revoked freeze authority may leave its key behind a cleared tag; the
\* tool wants these bytes to be zero.
ValidateMint(m) ==
    /\ m.owner = "Token-2022" /\ m.decimals = 0 /\ m.initialized
    /\ m.freeze = "never"
    /\ m.extensions = <<"NonTransferable">>
    /\ m.authority = "ours"

\* Validate of the API, which parses the tag alone.
ServerValidates(m) ==
    /\ m.owner = "Token-2022"
    /\ m.initialized /\ m.decimals = 0
    /\ Len(m.extensions) = 1 /\ m.extensions[1] = "NonTransferable"
    /\ m.authority = "ours"
    /\ m.freeze # "set"

Refused(existing) == existing # None /\ ~existing.ours
Unchanged(existing, uri) == existing # None /\ existing.orbit /\ existing.uri = uri

\* Bug: an update sets the fee that a creation sets.
BugChange(existing, uri) == [create |-> existing = None, uri |-> uri, fee |-> 0]

\* createV1, or updateV1 with the other fields as they were read.
Change(existing, uri) ==
    [create |-> existing = None, uri |-> uri,
     fee |-> IF existing = None THEN 0 ELSE existing.fee]

\* The planned transaction succeeds on the ledger as it is.
Succeeds(plan) == IF plan.create THEN metadata = None ELSE metadata # None /\ metadata.ours

-----------------------------------------------------------------------------
(* An invocation.                                                          *)

Go(i, pc) ==
    run' = [run EXCEPT ![i] = IF pc \in Ended THEN [Idle EXCEPT !.pc = pc] ELSE [@ EXCEPT !.pc = pc]]

Start(i, uri, apply) ==
    /\ run[i].pc = "idle"
    /\ \A j \in Invocations : ~Running(j)
    /\ \A j \in records : ~Pending(j)
    /\ run' = [run EXCEPT ![i] = [Idle EXCEPT !.pc = "mint", !.uri = uri, !.apply = apply]]
    /\ verified' = IF apply THEN None ELSE verified
    /\ UNCHANGED <<chain, records, newer>>

\* The mint is read finalized and must be the one the API accepts.
ReadMint(i) ==
    /\ run[i].pc = "mint"
    /\ IF ValidateMint(mint)
       THEN run' = [run EXCEPT ![i].pc = "plan", ![i].before = supply]
       ELSE Go(i, "stopped")
    /\ UNCHANGED <<chain, records, verified, newer>>

Plan(i) ==
    /\ run[i].pc = "plan"
    /\ IF Refused(metadata) THEN Go(i, "stopped")
       ELSE IF Unchanged(metadata, run[i].uri) THEN Go(i, "current")
       ELSE run' = [run EXCEPT ![i].pc = "simulate",
                               ![i].plan = Change(metadata, run[i].uri)]
    /\ newer' = FALSE
    /\ UNCHANGED <<chain, records, verified>>

\* An award since the mint was read looks like a change the transaction made.
Simulate(i) ==
    /\ run[i].pc = "simulate"
    /\ Go(i, IF ~Succeeds(run[i].plan) \/ supply # run[i].before THEN "stopped"
             ELSE IF run[i].apply THEN "record" ELSE "simulated")
    /\ UNCHANGED <<chain, records, verified, newer>>

\* Bug: nobody waits for the record to be written.
BugRecord(i) ==
    /\ run[i].pc = "record"
    /\ records' \in {records, records \cup {i}}
    /\ Go(i, "send")
    /\ UNCHANGED <<chain, verified, newer>>

Record(i) ==
    /\ run[i].pc = "record"
    /\ records' = records \cup {i}
    /\ Go(i, "send")
    /\ UNCHANGED <<chain, verified, newer>>

\* A request that fails may or may not have submitted the transaction.
Send(i) ==
    /\ run[i].pc = "send"
    /\ \/ /\ tx' = [tx EXCEPT ![i] = [status |-> "sent", plan |-> run[i].plan]]
          /\ \E pc \in {"confirm", "stopped"} : Go(i, pc)
       \/ tx' = tx /\ Go(i, "stopped")
    /\ UNCHANGED <<records, metadata, mint, supply, verified, newer>>

\* Until it is finalized, or the blockhash has expired.
Confirm(i) ==
    /\ run[i].pc = "confirm" /\ ~Pending(i)
    /\ Go(i, IF tx[i].status = "landed" THEN "read" ELSE "stopped")
    /\ UNCHANGED <<chain, records, verified, newer>>

ReadBack(i) ==
    /\ run[i].pc = "read"
    /\ Go(i, IF ~Refused(metadata) /\ Unchanged(metadata, run[i].uri) THEN "check" ELSE "stopped")
    /\ UNCHANGED <<chain, records, verified, newer>>

\* An award meanwhile is reported as a change of the mint.
CheckMint(i) ==
    /\ run[i].pc = "check"
    /\ IF supply = run[i].before
       THEN Go(i, "verified") /\ verified' = run[i].uri
       ELSE Go(i, "stopped") /\ verified' = verified
    /\ UNCHANGED <<chain, records, newer>>

\* The process is killed, or an await throws.
Stop(i) ==
    /\ Running(i)
    /\ Go(i, "stopped")
    /\ UNCHANGED <<chain, records, verified, newer>>

-----------------------------------------------------------------------------
(* The cluster and the other users of the mint.                            *)

\* createV1 and updateV1 of the Metaplex program; each lands once.
Land(i) ==
    /\ Pending(i)
    /\ IF Succeeds(tx[i].plan)
       THEN /\ tx' = [tx EXCEPT ![i].status = "landed"]
            /\ metadata' = [uri |-> tx[i].plan.uri, fee |-> tx[i].plan.fee,
                            orbit |-> TRUE, ours |-> TRUE]
       ELSE /\ tx' = [tx EXCEPT ![i].status = "failed"]
            /\ UNCHANGED metadata
    /\ UNCHANGED <<run, records, mint, supply, verified, newer>>

Expire(i) ==
    /\ Pending(i)
    /\ tx' = [tx EXCEPT ![i].status = "expired"]
    /\ UNCHANGED <<run, records, metadata, mint, supply, verified, newer>>

Award ==
    /\ supply < MaxSupply
    /\ supply' = supply + 1
    /\ UNCHANGED <<run, tx, records, metadata, mint, verified, newer>>

\* The owner sets a fee with another program, an invocation running or not.
SetFee(f) ==
    /\ metadata # None /\ metadata.fee # f
    /\ metadata' = [metadata EXCEPT !.fee = f]
    /\ newer' = TRUE
    /\ UNCHANGED <<run, tx, records, mint, supply, verified>>

Next ==
    \/ \E i \in Invocations :
          \/ \E uri \in Uris, apply \in BOOLEAN : Start(i, uri, apply)
          \/ ReadMint(i) \/ Plan(i) \/ Simulate(i) \/ Record(i) \/ Send(i)
          \/ Confirm(i) \/ ReadBack(i) \/ CheckMint(i) \/ Stop(i)
          \/ Land(i) \/ Expire(i)
    \/ Award
    \/ \E f \in Fees : SetFee(f)

Spec == Init /\ [][Next]_vars

-----------------------------------------------------------------------------
\* Every variable has its type; a plan is made before the simulation, and only
\* an invocation with --apply that planned something submits it.
TypeOK ==
    /\ \A i \in Invocations :
          /\ run[i].pc \in Ended \cup {"idle", "mint", "plan", "simulate", "record", "send",
                                     "confirm", "read", "check"}
          /\ run[i].uri \in IF Running(i) THEN Uris ELSE {None}
          /\ run[i].apply \in BOOLEAN /\ run[i].before \in Nat
          /\ run[i].plan \in IF ~Running(i) \/ run[i].pc \in {"mint", "plan"} THEN {None} ELSE Plans
          /\ run[i].pc \in {"record", "send", "confirm", "read", "check"} => run[i].apply
          /\ tx[i] = Unsent \/ tx[i] \in
                [status : {"sent", "landed", "failed", "expired"}, plan : Plans]
    /\ records \subseteq Invocations
    /\ metadata \in {None} \cup Metadata
    /\ mint \in Layouts /\ supply \in Nat
    /\ verified \in Uris \cup {None}
    /\ newer \in BOOLEAN

\* What an invocation reported as finalized and verified stays published
\* until another one is started with --apply: no transaction of an earlier
\* invocation that was interrupted lands after it.  (README.md:218: "A signed
\* recovery record is written under ignored .local/ before submission. If
\* submission or confirmation is interrupted, inspect its signature on Devnet
\* before retrying.")
VerifiedStays ==
    verified # None => metadata # None /\ metadata.orbit /\ metadata.uri = verified

\* The fee that the last invocation read stays as it is, whichever of the
\* tool's transactions land and however late, unless the owner has set another
\* since that read.  (README.md:218: "updates preserve unrelated metadata
\* fields".)
KnownFeeStays ==
    [][tx' # tx /\ metadata # None /\ ~newer => metadata'.fee = metadata.fee]_vars

\* The same of every fee, one set after the read too: the code does not keep
\* it, because an update writes back the fee it read.  (README.md:218: "updates
\* preserve unrelated metadata fields".)
KeepsTheFee ==
    [][tx' # tx /\ metadata # None => metadata'.fee = metadata.fee]_vars

\* A mint the tool publishes for is one the API starts with.
\* (metadata-plan.ts:45: "Match the narrow mint layout accepted by the Go API.")
ServerTakesTheMint ==
    (\E i \in Invocations : tx[i] # Unsent) => ServerValidates(mint)
=============================================================================
