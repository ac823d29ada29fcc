-------------------------- MODULE RedemptionClient --------------------------
(***************************************************************************)
(* How the member app redeems one reward for one wallet: the redeem flow   *)
(* of useOrbit, the attempt it keeps in local storage (redemptions.ts),    *)
(* and the server as the app sees it.  Answers may be lost, a request may  *)
(* be executed after its page gave up on it, and pages may be reloaded or  *)
(* signed out at any await.                                                *)
(*                                                                         *)
(* The server keeps one operation per key (Settlement), so an operation is *)
(* named by its key, and so is the operationId stored with the key.  What  *)
(* JavaScript does between two awaits is one step.                         *)
(***************************************************************************)
EXTENDS Naturals, FiniteSets

CONSTANTS
    Keys,       \* keys that crypto.randomUUID may draw; their number is a bound
    Pages,      \* open tabs: they share local storage
    None

\* known: the attempt has its operationId.
Attempt == [key : Keys, known : BOOLEAN]

ASSUME ClientAssumption == None \notin Attempt

VARIABLES
    op,         \* the server's operation under each key
    late,       \* requests no page waits for that may still be executed
    stored,     \* the attempt in local storage
    drawn,      \* keys drawn so far
    flow,       \* the redemption each page is busy with (its action lock)
    member,     \* each page: "out", "restored" by its cookie, or "connected"
    activity,   \* each page: the terminal operations of an answer under way
    signed      \* history: the keys whose burn the wallet has signed

vars == <<op, late, stored, drawn, flow, member, activity, signed>>

Open == {"prepared", "pending"}
Ended == {"confirmed", "failed", "expired"}
Statuses == Open \cup Ended

\* Bug: only a confirmed redemption ends an attempt.
BugTerminal == {"confirmed"}

\* The statuses that end an attempt.
Terminal == {"confirmed", "failed", "expired"}

\* fresh: the page's generation has not changed since the flow began.
Idle == [pc |-> "idle"]
Flow == [pc : {"recover", "prepare", "sign", "submit"}, key : Keys, known : BOOLEAN,
         fresh : BOOLEAN, reply : Statuses \cup {"none", "error"}]

Init ==
    /\ op = [k \in Keys |-> "absent"]
    /\ late = {}
    /\ stored = None
    /\ drawn = {}
    /\ flow = [p \in Pages |-> Idle]
    /\ member = [p \in Pages |-> "out"]
    /\ activity = [p \in Pages |-> None]
    /\ signed = {}

-----------------------------------------------------------------------------
(* The server.                                                             *)

Call(f) ==
    CASE f.pc = "submit" -> "submit"
      [] f.pc = "recover" /\ f.known -> "status"
      [] OTHER -> "redeem"

\* The status of k's operation once call has been executed.
After(call, k) ==
    CASE call = "redeem" /\ op[k] = "absent" -> "prepared"
      [] call = "submit" /\ op[k] = "prepared" -> "pending"
      [] OTHER -> op[k]

Awaits(p) == flow[p].pc \in {"recover", "prepare", "submit"} /\ flow[p].reply = "none"

\* The request p waits for is executed, or refused with an error.
Respond(p) ==
    /\ Awaits(p)
    /\ LET k == flow[p].key
           s == After(Call(flow[p]), k) IN
       /\ op' = [op EXCEPT ![k] = s]
       /\ flow' = [flow EXCEPT ![p].reply = s]
    /\ UNCHANGED <<late, stored, drawn, member, activity, signed>>

Refuse(p) ==
    /\ Awaits(p)
    /\ flow' = [flow EXCEPT ![p].reply = "error"]
    /\ UNCHANGED <<op, late, stored, drawn, member, activity, signed>>

ExecuteLate(r) ==
    /\ r \in late
    /\ late' = late \ {r}
    /\ op' = [op EXCEPT ![r.key] = After(r.call, r.key)]
    /\ UNCHANGED <<stored, drawn, flow, member, activity, signed>>

\* The worker: an unsigned redemption can only expire.
Settle(k, s) ==
    /\ \/ op[k] = "pending"
       \/ op[k] = "prepared" /\ s = "expired"
    /\ op' = [op EXCEPT ![k] = s]
    /\ UNCHANGED <<late, stored, drawn, flow, member, activity, signed>>

-----------------------------------------------------------------------------
(* redeem, up to its first request.                                        *)

\* Bug: the key is saved only with the operation id.
BugBegin(p, k) ==
    /\ drawn' = drawn \cup {k}
    /\ UNCHANGED stored
    /\ flow' = [flow EXCEPT ![p] =
            [pc |-> "prepare", key |-> k, known |-> FALSE, fresh |-> TRUE, reply |-> "none"]]

\* Bug: the attempt is saved as if its operation id were known.
BugBeginKnown(p, k) ==
    /\ drawn' = drawn \cup {k}
    /\ stored' = [key |-> k, known |-> TRUE]
    /\ flow' = [flow EXCEPT ![p] =
            [pc |-> "prepare", key |-> k, known |-> FALSE, fresh |-> TRUE, reply |-> "none"]]

\* A new key is saved and then posted.
Begin(p, k) ==
    /\ k \notin drawn
    /\ drawn' = drawn \cup {k}
    /\ stored' = [key |-> k, known |-> FALSE]
    /\ flow' = [flow EXCEPT ![p] =
            [pc |-> "prepare", key |-> k, known |-> FALSE, fresh |-> TRUE, reply |-> "none"]]

ClickNew(p, k) ==
    /\ member[p] = "connected" /\ flow[p] = Idle
    /\ stored = None
    /\ Begin(p, k)
    /\ UNCHANGED <<op, late, member, activity, signed>>

\* An earlier attempt is asked for by its operation id, or posted again.
ClickRecover(p) ==
    /\ member[p] = "connected" /\ flow[p] = Idle
    /\ stored # None
    /\ flow' = [flow EXCEPT ![p] =
            [pc |-> "recover", key |-> stored.key, known |-> stored.known,
             fresh |-> TRUE, reply |-> "none"]]
    /\ UNCHANGED <<op, late, stored, drawn, member, activity, signed>>

-----------------------------------------------------------------------------
(* redeem, after each await.                                               *)

Answered(p, pc) == flow[p].pc = pc /\ flow[p].fresh /\ flow[p].reply \in Statuses
Release(p) == flow' = [flow EXCEPT ![p] = Idle]

\* Bug: a new attempt is begun when the earlier one cannot be looked up.
BugRecovered(p, k) ==
    /\ flow[p].pc = "recover" /\ flow[p].fresh
    /\ flow[p].reply \in Terminal \cup {"error"}
    /\ Begin(p, k)
    /\ UNCHANGED <<op, late, member, activity, signed>>

\* The earlier attempt has ended: it is forgotten and a new one begun, which
\* takes its place in storage at once.
Recovered(p, k) ==
    /\ Answered(p, "recover")
    /\ flow[p].reply \in Terminal
    /\ Begin(p, k)
    /\ UNCHANGED <<op, late, member, activity, signed>>

\* An open operation is saved with its id; a prepared one goes to the wallet.
Continue(p) ==
    /\ \/ Answered(p, "recover") /\ flow[p].reply \notin Terminal
       \/ Answered(p, "prepare")
    /\ stored' = IF flow[p].reply \in Terminal THEN None
                 ELSE [key |-> flow[p].key, known |-> TRUE]
    /\ flow' = [flow EXCEPT ![p] =
            IF flow[p].reply = "prepared"
            THEN [@ EXCEPT !.pc = "sign", !.known = TRUE, !.reply = "none"] ELSE Idle]
    /\ UNCHANGED <<op, late, drawn, member, activity, signed>>

\* The wallet signs; the signature of a flow that went stale is dropped.
Sign(p) ==
    /\ flow[p].pc = "sign"
    /\ signed' = signed \cup {flow[p].key}
    /\ flow' = [flow EXCEPT ![p] =
            IF flow[p].fresh THEN [@ EXCEPT !.pc = "submit"] ELSE Idle]
    /\ UNCHANGED <<op, late, stored, drawn, member, activity>>

\* clearAttempt: only the attempt with this very key.
Cleared(k) == IF stored # None /\ stored.key = k THEN None ELSE stored

Submitted(p) ==
    /\ Answered(p, "submit")
    /\ stored' = IF flow[p].reply \in Terminal THEN Cleared(flow[p].key) ELSE stored
    /\ Release(p)
    /\ UNCHANGED <<op, late, drawn, member, activity, signed>>

\* The request p waits for, if executing it later can still change anything.
Abandoned(p) ==
    {r \in [call : {"redeem", "submit"}, key : Keys] :
        Awaits(p) /\ r.call = Call(flow[p]) /\ r.key = flow[p].key}

\* A stale answer, an error, a rejected signature or the 15 second timeout
\* ends the flow; a request the server has not executed may still reach it.
GiveUp(p) ==
    /\ flow[p] # Idle
    /\ Release(p)
    /\ late' \in {late, late \cup Abandoned(p)}
    /\ UNCHANGED <<op, stored, drawn, member, activity, signed>>

-----------------------------------------------------------------------------
(* Polling and sign-in.  A new generation drops answers under way.         *)

ReadActivity(p) ==
    /\ member[p] # "out" /\ activity[p] = None
    /\ activity' = [activity EXCEPT ![p] = {k \in Keys : op[k] \in Terminal}]
    /\ UNCHANGED <<op, late, stored, drawn, flow, member, signed>>

\* Bug: an operation of the answer ends the attempt, whatever its status.
BugSettleAttempts(ended) ==
    IF stored # None /\ stored.known THEN None ELSE stored

\* settleAttempts: the attempt whose operation has ended is cleared.
SettleAttempts(ended) ==
    IF stored # None /\ stored.known /\ stored.key \in ended THEN None ELSE stored

ShowActivity(p) ==
    /\ activity[p] # None
    /\ stored' = SettleAttempts(activity[p])
    /\ activity' = [activity EXCEPT ![p] = None]
    /\ UNCHANGED <<op, late, drawn, flow, member, signed>>

NewGeneration(p) ==
    /\ flow' = [flow EXCEPT ![p] = IF @ = Idle THEN Idle ELSE [@ EXCEPT !.fresh = FALSE]]
    /\ activity' = [activity EXCEPT ![p] = None]

Connect(p) ==
    /\ member[p] # "connected" /\ flow[p] = Idle
    /\ member' = [member EXCEPT ![p] = "connected"]
    /\ NewGeneration(p)
    /\ UNCHANGED <<op, late, stored, drawn, signed>>

\* The session expired, or the wallet's account changed.
SignOut(p) ==
    /\ member[p] # "out"
    /\ member' = [member EXCEPT ![p] = "out"]
    /\ NewGeneration(p)
    /\ UNCHANGED <<op, late, stored, drawn, signed>>

\* A reload forgets all but storage; the cookie may restore the session.
Reload(p) ==
    /\ \E m \in {"out", "restored"} : member' = [member EXCEPT ![p] = m]
    /\ Release(p)
    /\ activity' = [activity EXCEPT ![p] = None]
    /\ late' \in {late, late \cup Abandoned(p)}
    /\ UNCHANGED <<op, stored, drawn, signed>>

Next ==
    \/ \E p \in Pages :
          \/ Respond(p) \/ Refuse(p)
          \/ \E k \in Keys : ClickNew(p, k) \/ Recovered(p, k)
          \/ ClickRecover(p) \/ Continue(p) \/ Sign(p) \/ Submitted(p) \/ GiveUp(p)
          \/ ReadActivity(p) \/ ShowActivity(p)
          \/ Connect(p) \/ SignOut(p) \/ Reload(p)
    \/ \E r \in late : ExecuteLate(r)
    \/ \E k \in Keys, s \in Ended : Settle(k, s)

Spec == Init /\ [][Next]_vars

(***************************************************************************)
(* Every await ends: fetch has its timeout and the wallet's prompt is      *)
(* answered.  A member who keeps trying signs in, clicks, and is answered  *)
(* some time, although any single try may be lost: strong fairness.        *)
(***************************************************************************)
Fairness ==
    \A p \in Pages :
        /\ WF_vars(GiveUp(p))
        /\ SF_vars(Connect(p))
        /\ SF_vars(ClickRecover(p))
        /\ SF_vars(Awaits(p) /\ flow[p].fresh /\ Respond(p))
        /\ SF_vars(\E k \in Keys : Recovered(p, k))

FairSpec == Spec /\ Fairness

-----------------------------------------------------------------------------
\* Every variable has its type, and an attempt has an operation id only when
\* the server has that operation.
TypeOK ==
    /\ op \in [Keys -> Statuses \cup {"absent"}]
    /\ late \in SUBSET [call : {"redeem", "submit"}, key : Keys]
    /\ stored \in Attempt \cup {None}
    /\ stored # None /\ stored.known => op[stored.key] # "absent"
    /\ drawn \in SUBSET Keys
    /\ flow \in [Pages -> Flow \cup {Idle}]
    /\ member \in [Pages -> {"out", "restored", "connected"}]
    /\ activity \in [Pages -> {None} \cup SUBSET Keys]
    /\ signed \in SUBSET Keys

\* An operation the server still holds open is the one in local storage, so
\* the next click recovers it: no answer lost, no reload and no late request
\* leaves an open redemption the app has forgotten.
OpenIsRemembered ==
    \A k \in Keys : op[k] \in Open => stored # None /\ stored.key = k

\* The wallet never has two burns for the reward under way: a retry signs the
\* same operation until the server has ended it.
OneOpenBurn ==
    \A k, l \in signed : k # l => op[k] \in Ended \/ op[l] \in Ended

\* An attempt that has ended does not block the next one: it is eventually
\* replaced or cleared (unless the bound leaves no key to replace it with).
AttemptsAreReleased ==
    \A k \in Keys :
        stored # None /\ stored.key = k /\ op[k] \in Ended
        ~> stored = None \/ stored.key # k \/ drawn = Keys

\* README: "Pending redemptions retain their retry key across reloads;
\* confirmed, failed and expired attempts allow a new request with a new key."
PendingKeepsItsKey ==
    [][\A k \in Keys :
          stored # None /\ stored.key = k /\ op[k] = "pending" => drawn' = drawn]_vars

-----------------------------------------------------------------------------
(* The inductive invariant behind the safety properties, for one page.     *)

Remembered(k) == stored # None /\ stored.key = k

\* A key that was not drawn is nowhere.
DrawnInv ==
    /\ \A k \in Keys : op[k] # "absent" => k \in drawn
    /\ \A r \in late : r.key \in drawn
    /\ stored # None => stored.key \in drawn
    /\ \A p \in Pages : flow[p] # Idle => flow[p].key \in drawn

\* What a page was told about its operation is still true of it; the page
\* alone writes to storage, where its operation stays until it has ended.
FlowInv ==
    \A p \in Pages :
        flow[p] # Idle =>
            /\ stored = None \/ Remembered(flow[p].key)
            /\ op[flow[p].key] \notin Ended => Remembered(flow[p].key)
            /\ flow[p].reply \in Statuses => op[flow[p].key] # "absent"
            /\ flow[p].reply \in Ended => op[flow[p].key] \in Ended
            /\ flow[p].pc \in {"sign", "submit"} => flow[p].known
            /\ flow[p].known => op[flow[p].key] # "absent"

\* A late request can only create an operation that is remembered.
LateInv == \A r \in late : op[r.key] \notin Ended => Remembered(r.key)

\* An activity answer only lists what has ended for good.
ActivityInv ==
    \A p \in Pages : activity[p] # None => \A k \in activity[p] : op[k] \in Ended

SignedInv == \A k \in signed : op[k] # "absent"

IInv ==
    /\ TypeOK /\ OpenIsRemembered
    /\ DrawnInv /\ FlowInv /\ LateInv /\ ActivityInv /\ SignedInv
=============================================================================
