-------------------------- MODULE RedemptionProofs --------------------------
(***************************************************************************)
(* Theorems about RedemptionClient for any number of keys and one page.    *)
(* (Two pages share local storage and can overwrite each other's attempt:  *)
(* see the run redeem_two_tabs.)  Each action preserves IInv; the actions  *)
(* are grouped by the part of the app they belong to.                      *)
(***************************************************************************)
EXTENDS RedemptionClient, TLAPS

OnePage == \A p, q \in Pages : p = q

\* What executing a call does to the operation of its key: nothing unless it
\* creates or submits it, so an operation that has ended stays as it is.
LEMMA AfterMoves ==
  ASSUME TypeOK, NEW k \in Keys, NEW call
  PROVE  /\ After(call, k) \in Statuses \cup {"absent"}
         /\ op[k] # "absent" => After(call, k) # "absent"
         /\ op[k] \in Ended => After(call, k) = op[k]
         /\ After(call, k) \in Ended => op[k] = After(call, k)
BY DEF After, TypeOK, Statuses, Open, Ended

\* A busy page has a flow, of a key.
LEMMA BusyPage ==
  ASSUME TypeOK, NEW p \in Pages, flow[p] # Idle
  PROVE  flow[p] \in Flow /\ flow[p].key \in Keys
BY DEF TypeOK, Flow

LEMMA InitInv == Init => IInv
BY DEF Init, IInv, TypeOK, OpenIsRemembered, DrawnInv, FlowInv, LateInv, ActivityInv, SignedInv,
       Idle, Statuses, Open, Ended

-----------------------------------------------------------------------------
LEMMA RespondStep ==
  ASSUME OnePage, IInv, NEW p \in Pages, Respond(p)
  PROVE  IInv'
<1> USE DEF IInv
<1>0. flow[p] # Idle /\ flow[p] \in Flow /\ flow[p].key \in Keys
  BY BusyPage DEF Respond, Awaits, Idle
<1>1. PICK k \in Keys : k = flow[p].key
  BY <1>0
<1>2. PICK s : s = After(Call(flow[p]), k)
  OBVIOUS
<1>3. /\ s \in Statuses \cup {"absent"}
      /\ op[k] # "absent" => s # "absent"
      /\ op[k] \in Ended => s = op[k]
      /\ s \in Ended => op[k] = s
  BY <1>2, AfterMoves
<1>4. /\ Remembered(k) \/ op[k] \in Ended
      /\ flow[p].known => op[k] # "absent"
      /\ flow[p].pc \in {"sign", "submit"} => flow[p].known
  BY <1>0, <1>1 DEF FlowInv
<1>5. s # "absent"
  BY <1>1, <1>2, <1>3, <1>4 DEF After, Call, Respond, Awaits, Statuses, Open, Ended
<1>6. s \in Statuses
  BY <1>3, <1>5
<1>7. /\ op' = [op EXCEPT ![k] = s]
      /\ flow' = [flow EXCEPT ![p].reply = s]
      /\ UNCHANGED <<late, stored, drawn, member, activity, signed>>
  BY <1>1, <1>2 DEF Respond
<1> HIDE DEF IInv
<1>8. flow'[p] = [flow[p] EXCEPT !.reply = s] /\ flow'[p] \in Flow
  BY <1>0, <1>6, <1>7 DEF IInv, TypeOK, Flow
<1>9. \A q \in Pages : q = p
  BY DEF OnePage
<1>10. TypeOK'
  BY <1>5, <1>6, <1>7, <1>8 DEF IInv, TypeOK
<1>11. OpenIsRemembered'
  BY <1>3, <1>4, <1>7 DEF IInv, TypeOK, OpenIsRemembered, Remembered, Open, Ended
<1>12. DrawnInv'
  BY <1>0, <1>1, <1>7, <1>8 DEF IInv, TypeOK, DrawnInv, Flow
<1>13. FlowInv'
  BY <1>0, <1>1, <1>3, <1>4, <1>5, <1>7, <1>8, <1>9 DEF IInv, TypeOK, FlowInv, Flow, Remembered
<1>14. LateInv' /\ ActivityInv' /\ SignedInv'
  BY <1>3, <1>5, <1>7 DEF IInv, TypeOK, LateInv, ActivityInv, SignedInv, Remembered
<1> QED
  BY <1>10, <1>11, <1>12, <1>13, <1>14 DEF IInv

\* A step that only moves page p's flow, and possibly its own request to late.
LEMMA RefuseStep ==
  ASSUME OnePage, IInv, NEW p \in Pages, Refuse(p)
  PROVE  IInv'
<1>0. flow[p] # Idle /\ flow[p] \in Flow
  BY BusyPage DEF IInv, Refuse, Awaits, Idle
<1>1. flow' = [flow EXCEPT ![p].reply = "error"]
  BY DEF Refuse
<1>2. flow'[p] = [flow[p] EXCEPT !.reply = "error"] /\ flow'[p] \in Flow
  BY <1>0, <1>1 DEF IInv, TypeOK, Flow
<1>3. UNCHANGED <<op, late, stored, drawn, member, activity, signed>>
  BY DEF Refuse
<1>4. TypeOK'
  BY <1>1, <1>2, <1>3 DEF IInv, TypeOK
<1>5. DrawnInv' /\ FlowInv'
  BY <1>0, <1>1, <1>2, <1>3
     DEF IInv, TypeOK, DrawnInv, FlowInv, OnePage, Flow, Remembered, Statuses, Open, Ended
<1>6. OpenIsRemembered' /\ LateInv' /\ ActivityInv' /\ SignedInv'
  BY <1>3 DEF IInv, OpenIsRemembered, LateInv, ActivityInv, SignedInv, Remembered
<1> QED
  BY <1>4, <1>5, <1>6 DEF IInv

\* A late request behaves like one that is waited for; settling a row ends it.
LEMMA ServerStep ==
  ASSUME IInv,
         \/ \E r \in late : ExecuteLate(r)
         \/ \E k \in Keys, s \in Ended : Settle(k, s)
  PROVE  IInv'
<1>1. PICK k \in Keys, s \in Statuses \cup {"absent"} :
        /\ op' = [op EXCEPT ![k] = s]
        /\ op[k] # "absent" => s # "absent"
        /\ op[k] \in Ended => s = op[k]
        /\ s # "absent" => k \in drawn
        /\ s \notin Ended => op[k] \in Open \/ s = "absent" \/ Remembered(k)
        /\ late' \subseteq late
        /\ UNCHANGED <<stored, drawn, flow, member, activity, signed>>
  <2>1. ASSUME NEW r \in late, ExecuteLate(r)
        PROVE  /\ r.key \in Keys /\ r.key \in drawn
               /\ op[r.key] \notin Ended => Remembered(r.key)
    BY <2>1 DEF IInv, TypeOK, DrawnInv, LateInv
  <2>2. ASSUME NEW r \in late, ExecuteLate(r)
        PROVE  LET s == After(r.call, r.key) IN
               /\ s \in Statuses \cup {"absent"}
               /\ op[r.key] # "absent" => s # "absent"
               /\ op[r.key] \in Ended => s = op[r.key]
               /\ s \in Ended => op[r.key] = s
    BY <2>1, <2>2, AfterMoves DEF IInv
  <2>3. CASE \E r \in late : ExecuteLate(r)
    <3>1. PICK r \in late : ExecuteLate(r)
      BY <2>3
    <3>2. PICK s : s = After(r.call, r.key)
      OBVIOUS
    <3> QED
      BY <2>1, <2>2, <3>1, <3>2 DEF ExecuteLate
  <2>4. CASE \E k \in Keys, s \in Ended : Settle(k, s)
    BY <2>4 DEF Settle, IInv, TypeOK, DrawnInv, Statuses, Open, Ended
  <2> QED
    BY <2>3, <2>4
<1>2. op[k] \in Open => Remembered(k)
  BY DEF IInv, OpenIsRemembered, Remembered
<1>3. TypeOK'
  BY <1>1 DEF IInv, TypeOK
<1>4. OpenIsRemembered'
  BY <1>1, <1>2 DEF IInv, TypeOK, OpenIsRemembered, Remembered, Open, Ended
<1>5. DrawnInv'
  BY <1>1 DEF IInv, TypeOK, DrawnInv
<1>6. FlowInv'
  BY <1>1, BusyPage DEF IInv, TypeOK, FlowInv, Remembered
<1>7. LateInv' /\ ActivityInv' /\ SignedInv'
  BY <1>1 DEF IInv, TypeOK, LateInv, ActivityInv, SignedInv, Remembered
<1> QED
  BY <1>3, <1>4, <1>5, <1>6, <1>7 DEF IInv

-----------------------------------------------------------------------------
(* redeem.                                                                 *)

\* A new key is begun only when no open operation is remembered.
LEMMA BeginStep ==
  ASSUME OnePage, IInv, NEW p \in Pages, NEW k \in Keys, ClickNew(p, k) \/ Recovered(p, k)
  PROVE  IInv'
<1>1. /\ k \notin drawn
      /\ drawn' = drawn \cup {k}
      /\ stored' = [key |-> k, known |-> FALSE]
      /\ flow' = [flow EXCEPT ![p] = [pc |-> "prepare", key |-> k, known |-> FALSE,
                                      fresh |-> TRUE, reply |-> "none"]]
      /\ UNCHANGED <<op, late, member, activity, signed>>
  BY DEF ClickNew, Recovered, Begin
<1>2. op[k] = "absent"
  BY <1>1 DEF IInv, DrawnInv
<1>3. \A l \in Keys : Remembered(l) => op[l] \in Ended
  <2>1. CASE ClickNew(p, k)
    BY <2>1 DEF ClickNew, Remembered
  <2>2. CASE Recovered(p, k)
    <3>1. flow[p] # Idle
      BY <2>2 DEF Recovered, Answered, Idle
    <3>2. op[flow[p].key] \in Ended
      BY <2>2, <3>1 DEF Recovered, Answered, Terminal, Ended, IInv, FlowInv
    <3>3. stored = None \/ Remembered(flow[p].key)
      BY <3>1 DEF IInv, FlowInv
    <3> QED
      BY <3>2, <3>3 DEF Remembered
  <2> QED
    BY <2>1, <2>2
<1>4. \A l \in Keys : op[l] \notin Open
  BY <1>3 DEF IInv, OpenIsRemembered, Remembered, Open, Ended
<1>5. \A r \in late : op[r.key] \in Ended
  BY <1>3 DEF IInv, LateInv, TypeOK
<1>6. \A q \in Pages : q = p
  BY DEF OnePage
<1>7. /\ flow'[p] = [pc |-> "prepare", key |-> k, known |-> FALSE,
                     fresh |-> TRUE, reply |-> "none"]
      /\ flow'[p] \in Flow
  BY <1>1 DEF IInv, TypeOK, Flow
<1>8. stored'.key = k /\ ~stored'.known /\ stored' \in Attempt
  BY <1>1 DEF Attempt
<1>9. TypeOK'
  BY <1>1, <1>6, <1>7, <1>8 DEF IInv, TypeOK
<1>10. OpenIsRemembered'
  BY <1>1, <1>4 DEF OpenIsRemembered
<1>11. DrawnInv'
  BY <1>1, <1>6, <1>7, <1>8 DEF IInv, TypeOK, DrawnInv
<1>12. FlowInv'
  <2>1. Remembered(k)'
    BY <1>1, <1>8, ClientAssumption DEF Remembered
  <2> QED
    BY <1>1, <1>6, <1>7, <2>1 DEF FlowInv, Statuses, Open, Ended
<1>13. LateInv' /\ ActivityInv' /\ SignedInv'
  BY <1>1, <1>5 DEF IInv, LateInv, ActivityInv, SignedInv
<1> QED
  BY <1>9, <1>10, <1>11, <1>12, <1>13 DEF IInv

\* An earlier attempt is looked up under its own key.
LEMMA ClickRecoverStep ==
  ASSUME OnePage, IInv, NEW p \in Pages, ClickRecover(p)
  PROVE  IInv'
<1>1. /\ stored # None /\ stored \in Attempt
      /\ flow' = [flow EXCEPT ![p] = [pc |-> "recover", key |-> stored.key,
                     known |-> stored.known, fresh |-> TRUE, reply |-> "none"]]
      /\ UNCHANGED <<op, late, stored, drawn, member, activity, signed>>
  BY DEF ClickRecover, IInv, TypeOK
<1>2. PICK k \in Keys, b \in BOOLEAN : k = stored.key /\ b = stored.known
  BY <1>1 DEF Attempt
<1>3. /\ flow'[p] = [pc |-> "recover", key |-> k, known |-> b, fresh |-> TRUE, reply |-> "none"]
      /\ flow'[p] \in Flow
  BY <1>1, <1>2 DEF IInv, TypeOK, Flow
<1>4. Remembered(k) /\ k \in drawn /\ (b => op[k] # "absent")
  BY <1>1, <1>2 DEF Remembered, IInv, TypeOK, DrawnInv
<1>5. \A q \in Pages : q = p
  BY DEF OnePage
<1>6. TypeOK'
  BY <1>1, <1>3, <1>5 DEF IInv, TypeOK
<1>7. DrawnInv' /\ FlowInv'
  BY <1>1, <1>3, <1>4, <1>5 DEF IInv, DrawnInv, FlowInv, Remembered, Statuses, Open, Ended
<1>8. OpenIsRemembered' /\ LateInv' /\ ActivityInv' /\ SignedInv'
  BY <1>1 DEF IInv, OpenIsRemembered, LateInv, ActivityInv, SignedInv, Remembered
<1> QED
  BY <1>6, <1>7, <1>8 DEF IInv

\* Storage after an answer names the operation answered about, or nothing
\* once that operation has ended.
LEMMA ContinueStep ==
  ASSUME OnePage, IInv, NEW p \in Pages, Continue(p)
  PROVE  IInv'
<1>0. flow[p] # Idle /\ flow[p] \in Flow
  BY BusyPage DEF IInv, Continue, Answered, Idle
<1>1. PICK k \in Keys, s \in Statuses : k = flow[p].key /\ s = flow[p].reply
  BY <1>0 DEF Flow, Continue, Answered
<1>2. /\ op[k] # "absent" /\ k \in drawn
      /\ s \in Ended => op[k] \in Ended
      /\ stored = None \/ Remembered(k)
      /\ op[k] \notin Ended => Remembered(k)
  BY <1>0, <1>1 DEF IInv, FlowInv, DrawnInv
<1>3. /\ stored' = IF s \in Ended THEN None ELSE [key |-> k, known |-> TRUE]
      /\ flow' = [flow EXCEPT ![p] = IF s = "prepared"
            THEN [flow[p] EXCEPT !.pc = "sign", !.known = TRUE, !.reply = "none"] ELSE Idle]
      /\ UNCHANGED <<op, late, drawn, member, activity, signed>>
  BY <1>1 DEF Continue, Terminal, Ended
<1>4. /\ s = "prepared" => /\ flow'[p] \in Flow
                           /\ flow'[p].key = k /\ flow'[p].known
                           /\ flow'[p].pc = "sign" /\ flow'[p].reply = "none"
      /\ s # "prepared" => flow'[p] = Idle
  BY <1>0, <1>1, <1>3 DEF IInv, TypeOK, Flow
<1>5. \A q \in Pages : q = p
  BY DEF OnePage
<1>6. /\ s \in Ended => stored' = None
      /\ s \notin Ended => Remembered(k)' /\ stored'.known /\ stored' \in Attempt
  <2>1. [key |-> k, known |-> TRUE] \in Attempt
    BY DEF Attempt
  <2> QED
    BY <1>3, <2>1, ClientAssumption DEF Remembered
<1>7. \A l \in Keys : Remembered(l) => l = k
  BY <1>2 DEF Remembered
<1>8. \A l \in Keys : op[l] \notin Ended /\ Remembered(l) => Remembered(l)'
  <2>1. SUFFICES ASSUME op[k] \notin Ended
                 PROVE  Remembered(k)'
    BY <1>7
  <2> QED
    BY <1>2, <1>6, <2>1
<1>9. TypeOK'
  BY <1>2, <1>3, <1>4, <1>5, <1>6 DEF IInv, TypeOK, Remembered
<1>10. OpenIsRemembered' /\ LateInv'
  BY <1>3, <1>8 DEF IInv, TypeOK, OpenIsRemembered, LateInv, Remembered, Open, Ended
<1>11. DrawnInv'
  BY <1>2, <1>3, <1>4, <1>5, <1>6 DEF IInv, DrawnInv, Remembered
<1>12. FlowInv'
  BY <1>2, <1>3, <1>4, <1>5, <1>6 DEF FlowInv, Statuses, Open, Ended
<1>13. ActivityInv' /\ SignedInv'
  BY <1>3 DEF IInv, ActivityInv, SignedInv
<1> QED
  BY <1>9, <1>10, <1>11, <1>12, <1>13 DEF IInv

\* A flow that moves on to its wallet's answer or ends keeps the invariant,
\* whatever it leaves behind for the server.
LEMMA SignStep ==
  ASSUME OnePage, IInv, NEW p \in Pages, Sign(p)
  PROVE  IInv'
<1>0. flow[p] # Idle /\ flow[p] \in Flow
  BY BusyPage DEF IInv, Sign, Idle
<1>1. /\ flow' = [flow EXCEPT ![p] = IF flow[p].fresh THEN [flow[p] EXCEPT !.pc = "submit"]
                                     ELSE Idle]
      /\ signed' = signed \cup {flow[p].key}
      /\ UNCHANGED <<op, late, stored, drawn, member, activity>>
  BY DEF Sign
<1>2. PICK k \in Keys : k = flow[p].key
  BY <1>0 DEF Flow
<1>3. \/ flow'[p] = Idle
      \/ /\ flow'[p] \in Flow /\ flow'[p].key = k
         /\ flow'[p].known = flow[p].known /\ flow'[p].reply = flow[p].reply
  BY <1>0, <1>1, <1>2 DEF IInv, TypeOK, Flow
<1>4. flow[p].known /\ op[k] # "absent"
  BY <1>0, <1>2 DEF Sign, IInv, FlowInv
<1>5. \A q \in Pages : q = p
  BY DEF OnePage
<1>6. TypeOK'
  BY <1>1, <1>2, <1>3, <1>5 DEF IInv, TypeOK
<1>7. DrawnInv' /\ FlowInv'
  BY <1>0, <1>1, <1>2, <1>3, <1>4, <1>5 DEF IInv, DrawnInv, FlowInv, Remembered
<1>8. SignedInv'
  BY <1>1, <1>2, <1>4 DEF IInv, SignedInv
<1>9. OpenIsRemembered' /\ LateInv' /\ ActivityInv'
  BY <1>1 DEF IInv, OpenIsRemembered, LateInv, ActivityInv, Remembered
<1> QED
  BY <1>6, <1>7, <1>8, <1>9 DEF IInv

\* Storage is cleared only of an attempt that has ended, so no open one is
\* forgotten.
LEMMA ForgetEnded ==
  ASSUME IInv, UNCHANGED <<op, late, drawn, signed>>,
         stored' = stored \/ stored' = None,
         stored' # stored => \E l \in Keys : Remembered(l) /\ op[l] \in Ended
  PROVE  /\ OpenIsRemembered' /\ LateInv' /\ SignedInv'
         /\ \A k \in Keys : op[k] \notin Ended /\ Remembered(k) => Remembered(k)'
         /\ stored' \in Attempt \cup {None}
         /\ stored' # None /\ stored'.known => op'[stored'.key] # "absent"
         /\ stored' # None => stored'.key \in drawn'
<1>1. \A k \in Keys : op[k] \notin Ended /\ Remembered(k) => Remembered(k)'
  BY DEF Remembered
<1>2. OpenIsRemembered' /\ LateInv'
  BY <1>1 DEF IInv, TypeOK, OpenIsRemembered, LateInv, Remembered, Open, Ended
<1> QED
  BY <1>1, <1>2 DEF IInv, TypeOK, DrawnInv, SignedInv

LEMMA SubmittedStep ==
  ASSUME OnePage, IInv, NEW p \in Pages, Submitted(p)
  PROVE  IInv'
<1>0. flow[p] # Idle /\ flow[p] \in Flow
  BY BusyPage DEF IInv, Submitted, Answered, Idle
<1>1. /\ flow' = [flow EXCEPT ![p] = Idle]
      /\ UNCHANGED <<op, late, drawn, member, activity, signed>>
      /\ stored' = stored \/ stored' = None
      /\ stored' # stored => Remembered(flow[p].key) /\ flow[p].reply \in Ended
  BY DEF Submitted, Release, Cleared, Remembered, Terminal, Ended
<1>2. stored' # stored => \E l \in Keys : Remembered(l) /\ op[l] \in Ended
  BY <1>0, <1>1 DEF IInv, FlowInv, Flow
<1>3. /\ OpenIsRemembered' /\ LateInv' /\ SignedInv'
      /\ stored' \in Attempt \cup {None}
      /\ stored' # None /\ stored'.known => op'[stored'.key] # "absent"
      /\ stored' # None => stored'.key \in drawn'
  BY <1>1, <1>2, ForgetEnded
<1>4. \A q \in Pages : q = p
  BY DEF OnePage
<1>5. TypeOK'
  BY <1>1, <1>3 DEF IInv, TypeOK
<1>6. DrawnInv' /\ FlowInv'
  BY <1>1, <1>3, <1>4 DEF IInv, TypeOK, DrawnInv, FlowInv
<1>7. ActivityInv'
  BY <1>1 DEF IInv, ActivityInv
<1> QED
  BY <1>3, <1>5, <1>6, <1>7 DEF IInv

\* A page that gives up, or is reloaded, may leave its request to the server.
LEMMA LeaveStep ==
  ASSUME OnePage, IInv, NEW p \in Pages, GiveUp(p) \/ Reload(p)
  PROVE  IInv'
<1>1. /\ flow' = [flow EXCEPT ![p] = Idle]
      /\ late' = late \/ late' = late \cup Abandoned(p)
      /\ UNCHANGED <<op, stored, drawn, signed>>
      /\ activity' = activity \/ activity' = [activity EXCEPT ![p] = None]
      /\ member' \in [Pages -> {"out", "restored", "connected"}]
  BY DEF GiveUp, Reload, Release, IInv, TypeOK
<1>2. \A q \in Pages : q = p
  BY DEF OnePage
<1>3. \A r \in Abandoned(p) : /\ r \in [call : {"redeem", "submit"}, key : Keys]
                              /\ r.key \in drawn
                              /\ op[r.key] \notin Ended => Remembered(r.key)
  BY DEF Abandoned, Awaits, Idle, IInv, DrawnInv, FlowInv
<1>4. late' \in SUBSET [call : {"redeem", "submit"}, key : Keys]
  BY <1>1, <1>3 DEF IInv, TypeOK
<1>5. \A r \in late' : r.key \in drawn /\ (op[r.key] \notin Ended => Remembered(r.key))
  BY <1>1, <1>3 DEF IInv, DrawnInv, LateInv
<1>6. activity' \in [Pages -> {None} \cup SUBSET Keys]
  BY <1>1 DEF IInv, TypeOK
<1>7. TypeOK'
  BY <1>1, <1>4, <1>6 DEF IInv, TypeOK
<1>8. DrawnInv' /\ FlowInv'
  BY <1>1, <1>2, <1>5 DEF IInv, TypeOK, DrawnInv, FlowInv
<1>9. LateInv'
  BY <1>1, <1>5 DEF LateInv, Remembered
<1>10. ActivityInv'
  BY <1>1, <1>2 DEF IInv, TypeOK, ActivityInv
<1>11. OpenIsRemembered' /\ SignedInv'
  BY <1>1 DEF IInv, OpenIsRemembered, SignedInv
<1> QED
  BY <1>7, <1>8, <1>9, <1>10, <1>11 DEF IInv

-----------------------------------------------------------------------------
(* Polling and sign-in.                                                    *)

LEMMA PollStep ==
  ASSUME OnePage, IInv, NEW p \in Pages, ReadActivity(p) \/ ShowActivity(p)
  PROVE  IInv'
<1>1. UNCHANGED <<op, late, drawn, flow, member, signed>>
  BY DEF ReadActivity, ShowActivity
<1>2. /\ activity' \in [Pages -> {None} \cup SUBSET Keys]
      /\ ActivityInv'
  <2>1. CASE ReadActivity(p)
    <3>1. PICK E \in SUBSET Keys : E = {k \in Keys : op[k] \in Terminal}
      OBVIOUS
    <3>2. activity' = [activity EXCEPT ![p] = E] /\ \A k \in E : op[k] \in Ended
      BY <2>1, <3>1 DEF ReadActivity, Terminal, Ended
    <3> QED
      BY <1>1, <3>2 DEF IInv, TypeOK, ActivityInv
  <2>2. CASE ShowActivity(p)
    BY <1>1, <2>2 DEF ShowActivity, IInv, TypeOK, ActivityInv
  <2> QED
    BY <2>1, <2>2
<1>3. /\ stored' = stored \/ stored' = None
      /\ stored' # stored => \E l \in Keys : Remembered(l) /\ op[l] \in Ended
  <2>1. CASE ReadActivity(p)
    BY <2>1 DEF ReadActivity
  <2>2. CASE ShowActivity(p)
    <3>1. \A l \in activity[p] : l \in Keys /\ op[l] \in Ended
      BY <2>2 DEF ShowActivity, IInv, TypeOK, ActivityInv
    <3> QED
      BY <2>2, <3>1 DEF ShowActivity, SettleAttempts, Remembered
  <2> QED
    BY <2>1, <2>2
<1>4. /\ OpenIsRemembered' /\ LateInv' /\ SignedInv'
      /\ \A k \in Keys : op[k] \notin Ended /\ Remembered(k) => Remembered(k)'
      /\ stored' \in Attempt \cup {None}
      /\ stored' # None /\ stored'.known => op'[stored'.key] # "absent"
      /\ stored' # None => stored'.key \in drawn'
  BY <1>1, <1>3, ForgetEnded
<1>5. TypeOK'
  BY <1>1, <1>2, <1>4 DEF IInv, TypeOK
<1>6. DrawnInv'
  BY <1>1, <1>4 DEF IInv, DrawnInv
<1>7. FlowInv'
  <2>1. \A q \in Pages : flow[q] # Idle => flow[q].key \in Keys
    BY BusyPage DEF IInv
  <2>2. \A q \in Pages : flow[q] # Idle =>
          /\ stored' = None \/ Remembered(flow[q].key)'
          /\ op[flow[q].key] \notin Ended => Remembered(flow[q].key)'
    BY <1>1, <1>3, <1>4, <2>1 DEF IInv, FlowInv, Remembered
  <2> QED
    BY <1>1, <2>2 DEF IInv, FlowInv
<1> QED
  BY <1>2, <1>4, <1>5, <1>6, <1>7 DEF IInv

LEMMA SignInStep ==
  ASSUME OnePage, IInv, NEW p \in Pages, Connect(p) \/ SignOut(p)
  PROVE  IInv'
<1>1. /\ flow' = [flow EXCEPT ![p] = IF flow[p] = Idle THEN Idle
                                     ELSE [flow[p] EXCEPT !.fresh = FALSE]]
      /\ activity' = [activity EXCEPT ![p] = None]
      /\ UNCHANGED <<op, late, stored, drawn, signed>>
      /\ member' \in [Pages -> {"out", "restored", "connected"}]
  BY DEF Connect, SignOut, NewGeneration, IInv, TypeOK
<1>2. /\ flow[p] = Idle => flow'[p] = Idle
      /\ flow[p] # Idle => /\ flow'[p] \in Flow
                           /\ flow'[p].key = flow[p].key /\ flow'[p].pc = flow[p].pc
                           /\ flow'[p].known = flow[p].known
                           /\ flow'[p].reply = flow[p].reply
  <2>1. flow[p] # Idle => flow[p] \in Flow
    BY BusyPage DEF IInv
  <2> QED
    BY <1>1, <2>1 DEF IInv, TypeOK, Flow
<1>3. \A q \in Pages : q = p
  BY DEF OnePage
<1>4. TypeOK'
  BY <1>1, <1>2, <1>3 DEF IInv, TypeOK
<1>5. DrawnInv' /\ FlowInv'
  BY <1>1, <1>2, <1>3 DEF IInv, DrawnInv, FlowInv, Remembered
<1>6. OpenIsRemembered' /\ LateInv' /\ SignedInv'
  BY <1>1 DEF IInv, OpenIsRemembered, LateInv, SignedInv, Remembered
<1>7. ActivityInv'
  BY <1>1, <1>3 DEF IInv, TypeOK, ActivityInv
<1> QED
  BY <1>4, <1>5, <1>6, <1>7 DEF IInv

-----------------------------------------------------------------------------
\* Every step of the specification preserves the invariant.
LEMMA NextInv ==
  ASSUME OnePage, IInv, [Next]_vars
  PROVE  IInv'
<1>1. CASE UNCHANGED vars
  BY <1>1 DEF vars, IInv, TypeOK, OpenIsRemembered, DrawnInv, FlowInv, LateInv, ActivityInv,
              SignedInv, Remembered
<1>2. CASE Next
  BY <1>2, RespondStep, RefuseStep, ServerStep, BeginStep, ClickRecoverStep, ContinueStep,
     SignStep, SubmittedStep, LeaveStep, PollStep, SignInStep DEF Next
<1> QED
  BY <1>1, <1>2

THEOREM Inductive ==
  ASSUME OnePage
  PROVE  Spec => []IInv
<1>1. IInv /\ [Next]_vars => IInv'
  BY NextInv
<1> QED
  BY InitInv, <1>1, PTL DEF Spec

\* With one page, for any number of keys: the variables have their types, and
\* a stored operation id names an operation the server has.
THEOREM TypesAreKept ==
  ASSUME OnePage
  PROVE  Spec => []TypeOK
<1>1. IInv => TypeOK
  BY DEF IInv
<1> QED
  BY Inductive, <1>1, PTL

\* With one page, an operation the server holds open (redeem and submit have
\* not been answered by a final status) is the attempt in local storage.
THEOREM NoOpenRedemptionIsForgotten ==
  ASSUME OnePage
  PROVE  Spec => []OpenIsRemembered
<1>1. IInv => OpenIsRemembered
  BY DEF IInv
<1> QED
  BY Inductive, <1>1, PTL

\* With one page, of two burns the wallet signed at least one has ended: a
\* member who retries never spends the reward's price twice at a time.
THEOREM NeverTwoBurnsUnderWay ==
  ASSUME OnePage
  PROVE  Spec => []OneOpenBurn
<1>1. IInv => OneOpenBurn
  <2>1. SUFFICES ASSUME IInv, NEW k \in signed, NEW l \in signed,
                        op[k] \notin Ended, op[l] \notin Ended
                 PROVE  k = l
    BY DEF OneOpenBurn
  <2>2. k \in Keys /\ l \in Keys /\ op[k] \in Open /\ op[l] \in Open
    BY <2>1 DEF IInv, TypeOK, SignedInv, Statuses
  <2> QED
    BY <2>1, <2>2 DEF IInv, OpenIsRemembered
<1> QED
  BY Inductive, <1>1, PTL
=============================================================================
