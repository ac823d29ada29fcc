---------------------------- MODULE MCOperations ----------------------------
(***************************************************************************)
(* Small instances, for TLC, of the programs around the journal: the       *)
(* metadata tool, the set-up of the mint, the start of servers, and what   *)
(* the API keeps in Redis; and of the journal itself, with two redemptions *)
(* of one member that the balance covers only singly.  They share no state *)
(* while they run, so one run checks them side by side: every behaviour is *)
(* a behaviour of one of them, the scene, and leaves the others as they    *)
(* began.                                                                  *)
(***************************************************************************)
EXTENDS MetadataTool, FiniteSets, TLC

CONSTANTS Runs, Missing                                          \* MintSetup
CONSTANTS Processes, Mints                                      \* ServerStart
CONSTANTS Clients, Limit, Minute, Slots, TTL, Deadline, Edits   \* PublicApi
CONSTANTS Ids, Handlers, Workers, Window, MaxHeight, ada, k1, k2, coffee, tote

ASSUME OperationsAssumption ==
    /\ Missing \notin Nat /\ None \notin Processes \cup Ids
    /\ Limit \in Nat /\ Minute \in Nat /\ TTL \in Nat /\ Deadline \in Nat /\ Edits \in Nat
    /\ IsFiniteSet(Ids) /\ Window \in Nat /\ MaxHeight \in Nat

VARIABLES
    scene,
    file, made, proc, creation, mints,
    server, lock, schema, bound, inserts, histories,
    count, age, cache, table, past, request, lag,
    journal, handler, worker, height, sent, ledger, balance, answers

Setup == INSTANCE MintSetup WITH tx <- creation
Servers == INSTANCE ServerStart WITH proc <- server, sent <- inserts, journal <- histories
Public == INSTANCE PublicApi
Journal ==
    INSTANCE Settlement WITH
        Wallets <- {ada}, Keys <- {k1, k2}, Payloads <- {coffee, tote},
        Points <- [p \in {coffee, tote} |-> IF p = coffee THEN 1 ELSE 2],
        Opening <- [v \in {ada} |-> 2],
        Requests <- {[kind |-> "redeem", wallet |-> ada, key |-> k1, payload |-> coffee],
                     [kind |-> "redeem", wallet |-> ada, key |-> k2, payload |-> tote]}

setupVars == <<file, made, proc, creation, mints>>
serverVars == <<server, lock, schema, bound, inserts, histories>>
publicVars == <<count, age, cache, table, past, request, lag>>
journalVars == <<journal, handler, worker, height, sent, ledger, balance, answers>>

Scenes == {"metadata", "setup", "servers", "public", "journal"}

MCInit ==
    /\ scene \in Scenes
    /\ Init /\ Setup!Init /\ Servers!Init /\ Public!Init /\ Journal!Init
    /\ scene # "metadata" => metadata = None /\ mint.owner = "Token" /\ ~mint.initialized
           /\ mint.decimals = 0 /\ mint.freeze = "set" /\ mint.authority = "none"
           /\ mint.extensions = <<>>

MCNext ==
    \/ /\ scene = "metadata" /\ Next
       /\ UNCHANGED <<scene, setupVars, serverVars, publicVars, journalVars>>
    \/ /\ scene = "setup" /\ Setup!Next
       /\ UNCHANGED <<scene, vars, serverVars, publicVars, journalVars>>
    \/ /\ scene = "servers" /\ Servers!Next
       /\ UNCHANGED <<scene, vars, setupVars, publicVars, journalVars>>
    \/ /\ scene = "public" /\ Public!Next
       /\ UNCHANGED <<scene, vars, setupVars, serverVars, journalVars>>
    \/ /\ scene = "journal" /\ Journal!Next
       /\ UNCHANGED <<scene, vars, setupVars, serverVars, publicVars>>

MCSpec == MCInit /\ [][MCNext]_<<scene, vars, setupVars, serverVars, publicVars, journalVars>>

\* The ids of the journal are interchangeable.
Symmetric == Permutations(Ids)

-----------------------------------------------------------------------------
\* Every variable of the four programs has its type (TypeOK of each).
TypesOK == TypeOK /\ Setup!TypeOK /\ Servers!TypeOK /\ Public!TypeOK

\* However often the set-up is repeated, there is one mint (MintSetup).
OneMint == Setup!OneMint

\* No mint is created with keys that a crash could lose (MintSetup).
EveryMintHasItsKeys == Setup!EveryMintHasItsKeys

\* The mint that the set-up tells the operator to configure is finalized and
\* under the authority it names (MintSetup).
NamesAFinalMint == Setup!NamesAFinalMint

\* A database holds the operations of one mint (ServerStart).
HistoriesAreNotMixed == Servers!HistoriesAreNotMixed

\* A process serves the mint of the journal it works on (ServerStart).
ServersAgree == Servers!ServersAgree

\* A client that is refused is let in again (PublicApi).
RefusalsEnd == Public!RefusalsEnd

\* A catalog that is served is not older than the cache allows (PublicApi).
CatalogIsRecent == Public!CatalogIsRecent

\* Points are never spent twice, by two redemptions either (Settlement).
PointsConserved == Journal!PointsConserved
=============================================================================
