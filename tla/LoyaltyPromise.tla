--------------------------- MODULE LoyaltyPromise ---------------------------
(***************************************************************************)
(* What the loyalty program promises members and the merchant, with no     *)
(* journal, worker or cluster: an operation is offered once per key, is    *)
(* decided once, moves its points exactly when it is granted, and a        *)
(* granted redemption is worth one reward code, collected at most once.    *)
(***************************************************************************)
EXTENDS Naturals

CONSTANTS
    Operations,     \* operation ids
    Members,        \* wallets
    Terms,          \* what an operation may be about: kind, wallet, key, payload
    Worth,          \* Worth[p]: the points of payload p
    Opening         \* Opening[m]: the points member m begins with

VARIABLES
    stage,          \* "new", "open", "granted" or "void"
    terms,          \* the terms of each operation that is not new
    points,         \* the points of each member
    coded,          \* granted redemptions whose code exists
    collected       \* redemptions whose reward was handed over

promiseVars == <<stage, terms, points, coded, collected>>

NoTerms == "no terms"

PromiseInit ==
    /\ stage = [o \in Operations |-> "new"]
    /\ terms = [o \in Operations |-> NoTerms]
    /\ points = Opening
    /\ coded = {}
    /\ collected = {}

\* One operation per wallet, kind and key.
Offer(o, t) ==
    /\ stage[o] = "new"
    /\ \A p \in Operations :
          stage[p] # "new" =>
              ~ (/\ terms[p].wallet = t.wallet
                 /\ terms[p].kind = t.kind
                 /\ terms[p].key = t.key)
    /\ stage' = [stage EXCEPT ![o] = "open"]
    /\ terms' = [terms EXCEPT ![o] = t]
    /\ UNCHANGED <<points, coded, collected>>

\* The points move at the moment of the grant: minted, or burned if the
\* member has them.
Grant(o) ==
    /\ stage[o] = "open"
    /\ stage' = [stage EXCEPT ![o] = "granted"]
    /\ LET m == terms[o].wallet
           n == Worth[terms[o].payload] IN
          \/ /\ terms[o].kind = "earn"
             /\ points' = [points EXCEPT ![m] = @ + n]
          \/ /\ terms[o].kind = "redeem"
             /\ points[m] >= n
             /\ points' = [points EXCEPT ![m] = @ - n]
    /\ UNCHANGED <<terms, coded, collected>>

\* Failed or expired: no points move, now or later.
Void(o) ==
    /\ stage[o] = "open"
    /\ stage' = [stage EXCEPT ![o] = "void"]
    /\ UNCHANGED <<terms, points, coded, collected>>

GiveCode(o) ==
    /\ stage[o] = "granted"
    /\ terms[o].kind = "redeem"
    /\ o \notin coded
    /\ coded' = coded \cup {o}
    /\ UNCHANGED <<stage, terms, points, collected>>

Collect(o) ==
    /\ o \in coded
    /\ o \notin collected
    /\ collected' = collected \cup {o}
    /\ UNCHANGED <<stage, terms, points, coded>>

\* Members own their points and may burn them elsewhere.
Spend(m) ==
    /\ points[m] > 0
    /\ points' = [points EXCEPT ![m] = @ - 1]
    /\ UNCHANGED <<stage, terms, coded, collected>>

PromiseNext ==
    \/ \E o \in Operations :
          \/ \E t \in Terms : Offer(o, t)
          \/ Grant(o) \/ Void(o) \/ GiveCode(o) \/ Collect(o)
    \/ \E m \in Members : Spend(m)

PromiseSpec == PromiseInit /\ [][PromiseNext]_promiseVars
=============================================================================
