------------------------ MODULE SettlementRefinement ------------------------
(***************************************************************************)
(* Settlement implements LoyaltyPromise.  An operation is granted at the   *)
(* step that finalizes its transaction with success, although the journal  *)
(* learns of it later; it is void when its transaction is finalized with   *)
(* an error or when the worker expires its row.                            *)
(***************************************************************************)
EXTENDS Settlement

StageOf(o) ==
    IF o \notin Journaled THEN "new"
    ELSE IF ledger[o] = "success" THEN "granted"
    ELSE IF ledger[o] = "error" \/ journal[o].status = "expired" THEN "void"
    ELSE "open"

TermsOf(o) == IF o \in Journaled THEN Of(o) ELSE "no terms"
CodedOps == {o \in Journaled : journal[o].claim > 0}
CollectedOps == {o \in Journaled : journal[o].collected > 0}

Promise == INSTANCE LoyaltyPromise WITH
    Operations <- Ids,
    Members <- Wallets,
    Terms <- Requests,
    Worth <- Points,
    stage <- [o \in Ids |-> StageOf(o)],
    terms <- [o \in Ids |-> TermsOf(o)],
    points <- balance,
    coded <- CodedOps,
    collected <- CollectedOps

\* The server keeps the promise: every behaviour of the handlers, the workers
\* and the cluster is, seen through the mapping, one of LoyaltyPromise.  An
\* operation decided by the cluster or given up by the worker is never decided
\* again, and codes appear only for granted redemptions.
PromiseKept == Promise!PromiseSpec
=============================================================================
