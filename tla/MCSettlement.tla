---------------------------- MODULE MCSettlement ----------------------------
(* Small instances of Settlement for TLC. *)
EXTENDS SettlementRefinement, TLC

CONSTANTS ada, ben, coffee, tote, k1, k2

MCPoints == [p \in Payloads |-> IF p = coffee THEN 1 ELSE 2]
MCOpening == [v \in Wallets |-> 2]
NoOpening == [v \in Wallets |-> 0]

LOCAL Ask(kind, wallet, key, payload) ==
    [kind |-> kind, wallet |-> wallet, key |-> key, payload |-> payload]

\* One member retrying one redemption.
OneRedemption == {Ask("redeem", ada, k1, coffee)}

\* One key reused: for another award and for a redemption.
OneKey == {Ask("earn", ada, k1, coffee), Ask("earn", ada, k1, tote),
           Ask("redeem", ada, k1, coffee)}

\* One purchase retried, the second time for another wallet.
TwoWallets == {Ask("earn", ada, k1, coffee), Ask("earn", ben, k1, coffee)}

\* Ids, handlers and workers are interchangeable in every instance.
Symmetric == Permutations(Ids) \cup Permutations(Handlers) \cup Permutations(Workers)

(***************************************************************************)
(* README.md:224, of the merchant's Idempotency-Key: "Reusing it with a    *)
(* different payload returns 409."  The wallet is part of the payload, so  *)
(* no two awards are accepted under one key for different payloads.        *)
(***************************************************************************)
AwardKeyReuseRefused ==
    \A a, b \in answers :
        a.req.kind = "earn" /\ b.req.kind = "earn" /\ a.req.key = b.req.key
        => a.req = b.req
=============================================================================
