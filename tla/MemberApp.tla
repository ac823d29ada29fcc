------------------------------ MODULE MemberApp ------------------------------
(***************************************************************************)
(* The member app as a visitor meets it: the pages and dialogs of App.tsx, *)
(* the native <dialog> of ui.tsx, the state of useOrbit they show, and the *)
(* demo of domain.ts.  A visitor may press any button that is shown and    *)
(* enabled, and Escape, while sign-ins, redemptions and refreshes are      *)
(* under way; answers come late, fail, or find the page in another mode.   *)
(*                                                                         *)
(* RedemptionClient and MemberSession have the steps of redeem and of      *)
(* sign-in in detail; here each is a few steps over a ledger of one        *)
(* redemption per account.  Requests are answered for the account the page *)
(* shows, which is what MemberSession shows of a patient visitor: the      *)
(* visitor acts once the first /member/me has been answered.  Of an error  *)
(* it matters whether an action or a refresh reports it, not its wording.  *)
(* Notices, the clipboard, and the filters of the lists are left out.      *)
(***************************************************************************)
EXTENDS Naturals, SequencesExt, FiniteSetsExt

CONSTANTS
    Accounts,   \* wallet accounts
    Rewards,    \* the catalog, the same for the demo
    Price,      \* points of a reward
    Balance,    \* points of each account
    Opening,    \* points of a new demo: 2450 in the code
    Configured, \* whether the server has a mint
    Visited,    \* the pages the visitor goes to: a bound
    None

Pages == {"Overview", "Rewards", "Activity", "How it works"}

ASSUME AppAssumption ==
    /\ Price \in [Rewards -> Nat] /\ Balance \in [Accounts -> Nat] /\ Opening \in Nat
    /\ Configured \in BOOLEAN /\ Visited \subseteq Pages
    /\ None \notin Accounts \cup Rewards /\ "demo" \notin Accounts \cup {None}
    /\ IsFiniteSet(Rewards)     \* /rewards lists them

VARIABLES
    page,       \* the page shown
    wanted,     \* the dialogs App renders
    open,       \* the dialogs on the screen, the top one last; each is modal
    orbit,      \* the state of useOrbit
    call,       \* the connect or redeem that holds the action lock
    read,       \* the refresh under way for this generation
    leaving,    \* whether disconnect awaits the logout
    demo,       \* the demo's points and redemptions
    ledger,     \* the server's points and redemption of each account
    known       \* history: whether the last reads of this member succeeded

vars == <<page, wanted, open, orbit, call, read, leaving, demo, ledger, known>>
ui == <<page, wanted, open>>
calls == <<call, read, leaving>>
outside == <<demo, ledger>>

Dialogs == {"wallet", "reward", "claim"}
Wanted == [wallet : BOOLEAN, reward : Rewards \cup {None}, claim : Accounts \cup {"demo", None}]
Closed == [wallet |-> FALSE, reward |-> None, claim |-> None]
Free == [kind |-> "idle", pc |-> "idle", of |-> None, who |-> None, fresh |-> TRUE]

\* Bug: a refresh asks for the balance alone.
BugAsked == [balance |-> TRUE, activity |-> FALSE, failed |-> FALSE]

\* The requests a refresh awaits, and whether one of its reads has failed.
Asked == [balance |-> TRUE, activity |-> TRUE, failed |-> FALSE]
Unknown == [balance |-> FALSE, activity |-> FALSE]
NoOp == [status |-> "none", reward |-> None]
Op == [status : {"none", "prepared", "pending", "confirmed"}, reward : Rewards \cup {None}]

Calls ==
    {Free}
    \cup [kind : {"connect"}, pc : {"sign in", "refresh"}, of : {None}, who : Accounts,
          fresh : BOOLEAN]
    \cup [kind : {"redeem"}, pc : {"prepare", "sign", "submit", "refresh", "claim"},
          of : Rewards, who : Accounts, fresh : BOOLEAN]

\* data is None until a first answer; data.points is None when unavailable.
Signed(mode, a) ==
    [mode |-> mode, address |-> a, connection |-> None, data |-> None,
     program |-> FALSE, loading |-> TRUE, error |-> FALSE, refreshError |-> FALSE]

\* It also lists a reward redeemed before.
NewDemo == [points |-> Opening, taken |-> [r \in Rewards |-> 0]]

\* The page is loaded, as a guest or with a session restored.
Init ==
    /\ page = "Overview" /\ wanted = Closed /\ open = <<>>
    /\ orbit \in {Signed("guest", None)} \cup {Signed("member", a) : a \in Accounts}
    /\ call = Free /\ read = None /\ leaving = FALSE
    /\ demo = NewDemo
    /\ ledger = [a \in Accounts |-> [points |-> Balance[a], op |-> NoOp]]
    /\ known = Unknown

-----------------------------------------------------------------------------
(* What is shown.                                                          *)

Busy == call # Free
Mounted(w) ==
    {d \in Dialogs : CASE d = "wallet" -> w.wallet
                       [] d = "reward" -> w.reward # None
                       [] d = "claim" -> w.claim # None}

\* showModal runs when a dialog is mounted, and only then.
Shown(s, d, w) ==
    IF d \notin Mounted(w) THEN RemoveFirst(s, d)
    ELSE IF d \in Mounted(wanted) THEN s ELSE Append(s, d)

\* In the order of App.
Rendered(w) == Shown(Shown(Shown(open, "wallet", w), "reward", w), "claim", w)

\* A modal dialog makes everything below it inert.
Interactive == open = <<>>
OnTop(d) == open # <<>> /\ Last(open) = d

Catalog == IF orbit.mode = "demo" \/ orbit.program THEN Rewards ELSE {}

\* data?.points ?? null, of the demo or of the member.
Points ==
    IF orbit.mode = "demo" THEN demo.points
    ELSE IF orbit.data = None THEN None ELSE orbit.data.points

HasData == orbit.mode = "demo" \/ orbit.data # None

\* The redemption listed under Activity; a new demo lists one already.
Listed ==
    IF orbit.mode = "demo" THEN [status |-> "confirmed", reward |-> None]
    ELSE IF orbit.data = None THEN NoOp ELSE orbit.data.activity

Owner == IF orbit.mode = "demo" THEN "demo" ELSE orbit.address

Affordable(r) == Points # None /\ Points >= Price[r]

Ready ==
    \/ orbit.mode = "demo"
    \/ orbit.mode = "member" /\ orbit.connection # None /\ orbit.program /\ Configured

-----------------------------------------------------------------------------
(* Changes of state that several handlers share.                           *)

\* Bug: only a change of mode discards the private dialogs.
BugDiscard(w) ==
    IF orbit'.mode # orbit.mode THEN [w EXCEPT !.reward = None, !.claim = None] ELSE w

\* The effect of [orbit.mode, orbit.address].
Discard(w) ==
    IF <<orbit'.mode, orbit'.address>> # <<orbit.mode, orbit.address>>
    THEN [w EXCEPT !.reward = None, !.claim = None] ELSE w

Render(w) ==
    /\ wanted' = Discard(w)
    /\ open' = Rendered(wanted')

\* generation++: the refresh under way is dropped and an action goes stale.
NewGeneration ==
    /\ read' = None
    /\ call' = IF Busy THEN [call EXCEPT !.fresh = FALSE] ELSE Free

StartRefresh == read' = IF read = None THEN Asked ELSE read

\* Bug: the signing connection outlives the session.
BugSignedOut(o, error) ==
    [o EXCEPT !.mode = "guest", !.address = None, !.data = None,
              !.error = error, !.refreshError = FALSE]

SignedOut(o, error) ==
    [o EXCEPT !.mode = "guest", !.address = None, !.connection = None, !.data = None,
              !.error = error, !.refreshError = FALSE]

Quiet(o) == [o EXCEPT !.error = FALSE, !.refreshError = FALSE]

-----------------------------------------------------------------------------
(* Pages.                                                                  *)

\* The sidebar, the headings of sections, and the card of a page with data.
Navigate(p) ==
    /\ Interactive
    /\ page' = p
    /\ UNCHANGED <<wanted, open, orbit, calls, outside, known>>

OpenWallet(w) ==
    /\ orbit' = Quiet(orbit)
    /\ Render([w EXCEPT !.wallet = TRUE])
    /\ UNCHANGED <<page, calls, outside, known>>

\* Connect wallet or Reconnect in the header.
HeaderConnect ==
    /\ Interactive /\ ~Busy
    /\ orbit.connection = None
    /\ OpenWallet(wanted)

\* The membership card of a page without data, and How it works, offer to
\* connect even while an action is under way.
PageConnect ==
    /\ Interactive
    /\ \/ page = "Overview" /\ ~HasData
       \/ page = "How it works"
    /\ OpenWallet(wanted)

DismissError ==
    /\ Interactive
    /\ orbit.error \/ orbit.refreshError
    /\ orbit' = Quiet(orbit)
    /\ UNCHANGED <<ui, calls, outside, known>>

\* A card of the catalog.
SelectReward(r) ==
    /\ Interactive /\ ~Busy
    /\ page \in {"Overview", "Rewards"}
    /\ r \in Catalog
    /\ UNCHANGED <<page, orbit, calls, outside, known>>
    /\ Render([wanted EXCEPT !.reward = r])

\* Continue, on a row that awaits its signature.
ResumeReward ==
    /\ Interactive
    /\ page \in {"Overview", "Activity"}
    /\ Listed.status = "prepared" /\ Listed.reward \in Catalog
    /\ UNCHANGED <<page, orbit, calls, outside, known>>
    /\ Render([wanted EXCEPT !.reward = Listed.reward])

\* View reward, on a row with a reward code.
ViewClaim ==
    /\ Interactive
    /\ page \in {"Overview", "Activity"}
    /\ Listed.status = "confirmed"
    /\ UNCHANGED <<page, orbit, calls, outside, known>>
    /\ Render([wanted EXCEPT !.claim = Owner])

-----------------------------------------------------------------------------
(* Dialogs.                                                                *)

\* Bug: no dialog closes while an action runs.
BugCloseOf(d) ==
    CASE d = "wallet" -> [wanted EXCEPT !.wallet = Busy /\ @]
      [] d = "reward" -> [wanted EXCEPT !.reward = IF Busy THEN @ ELSE None]
      [] d = "claim" -> [wanted EXCEPT !.claim = IF Busy THEN @ ELSE None]

\* onClose of each: a wallet or reward dialog stays while an action runs.
CloseOf(d) ==
    CASE d = "wallet" -> [wanted EXCEPT !.wallet = Busy /\ @]
      [] d = "reward" -> [wanted EXCEPT !.reward = IF Busy THEN @ ELSE None]
      [] d = "claim" -> [wanted EXCEPT !.claim = None]

\* The X of the dialog, and Maybe later.
CloseDialog(d) ==
    /\ OnTop(d)
    /\ wanted' = CloseOf(d)
    /\ open' = Rendered(wanted')
    /\ UNCHANGED <<page, orbit, calls, outside, known>>

\* The browser calls onCancel and then takes the dialog off the screen,
\* whatever onCancel decided.
Escape(d) ==
    /\ OnTop(d)
    /\ wanted' = CloseOf(d)
    /\ open' = Front(open)
    /\ UNCHANGED <<page, orbit, calls, outside, known>>

\* Not signed in for redeeming, the reward dialog leads to the wallets.
ConnectForReward ==
    /\ OnTop("reward") /\ ~Ready
    /\ OpenWallet([wanted EXCEPT !.reward = None])

-----------------------------------------------------------------------------
(* The demo.                                                               *)

DemoEntered ==
    /\ orbit' = [Quiet(orbit) EXCEPT !.mode = "demo"]
    /\ NewGeneration
    /\ UNCHANGED <<page, leaving, outside, known>>

ExploreDemo ==
    /\ Interactive /\ ~Busy /\ orbit.mode = "guest"
    /\ DemoEntered /\ Render(wanted)

ExploreFromDialog ==
    /\ OnTop("wallet") /\ ~Busy /\ orbit.mode # "member"
    /\ DemoEntered /\ Render([wanted EXCEPT !.wallet = FALSE])

\* Exit demo takes no lock and loads the program again.
LeaveDemo ==
    /\ Interactive /\ orbit.mode = "demo"
    /\ orbit' = [Quiet(orbit) EXCEPT !.mode = "guest", !.loading = TRUE]
    /\ NewGeneration /\ Render(wanted)
    /\ UNCHANGED <<page, leaving, outside, known>>

\* Bug: the redemption is listed but costs nothing.
BugRedeemDemo(d, r) == [d EXCEPT !.taken[r] = @ + 1]

RedeemDemo(d, r) ==
    [points |-> d.points - Price[r], taken |-> [d.taken EXCEPT ![r] = @ + 1]]

\* A demo redemption takes no lock, asks nobody, and shows its claim.
RedeemSample(r) ==
    /\ OnTop("reward") /\ wanted.reward = r
    /\ orbit.mode = "demo" /\ Affordable(r) /\ ~Busy
    /\ IF demo.points < Price[r]
       THEN /\ orbit' = [orbit EXCEPT !.error = TRUE]
            /\ UNCHANGED <<demo, wanted, open>>
       ELSE /\ demo' = RedeemDemo(demo, r)
            /\ orbit' = orbit
            /\ Render([wanted EXCEPT !.reward = None, !.claim = "demo"])
    /\ UNCHANGED <<page, calls, ledger, known>>

-----------------------------------------------------------------------------
(* connect.                                                                *)

\* A wallet of the list.
ChooseWallet(a) ==
    /\ OnTop("wallet") /\ ~Busy
    /\ call' = [kind |-> "connect", pc |-> "sign in", of |-> None, who |-> a, fresh |-> TRUE]
    /\ orbit' = Quiet(orbit)
    /\ UNCHANGED <<ui, read, leaving, outside, known>>

Connected ==
    /\ call.pc = "sign in"
    /\ IF call.fresh
       THEN /\ orbit' = [orbit EXCEPT !.mode = "member", !.address = call.who,
                                      !.connection = call.who, !.data = None]
            /\ read' = Asked
            /\ call' = [call EXCEPT !.pc = "refresh"]
            /\ known' = Unknown
       ELSE /\ call' = Free
            /\ UNCHANGED <<orbit, read, known>>
    /\ Render(wanted)
    /\ UNCHANGED <<page, leaving, outside>>

\* The refresh it awaits is over: connect returns true.
ConnectEnds ==
    /\ call.kind = "connect" /\ call.pc = "refresh" /\ (call.fresh => read = None)
    /\ call' = Free
    /\ orbit' = orbit
    /\ Render([wanted EXCEPT !.wallet = FALSE])
    /\ UNCHANGED <<page, read, leaving, outside, known>>

-----------------------------------------------------------------------------
(* redeem, for a member.                                                   *)

Redeem(r) ==
    /\ OnTop("reward") /\ wanted.reward = r
    /\ orbit.mode = "member" /\ Ready /\ Affordable(r) /\ ~Busy
    /\ call' = [kind |-> "redeem", pc |-> "prepare", of |-> r,
                who |-> orbit.address, fresh |-> TRUE]
    /\ orbit' = [orbit EXCEPT !.error = FALSE]
    /\ UNCHANGED <<ui, read, leaving, outside, known>>

SetOp(a, op) == ledger' = [ledger EXCEPT ![a].op = op]

\* The server's part of prepare: what is open is recovered, else a new
\* operation is journaled when the balance covers it.
Prepare(a, r) ==
    IF ledger[a].op.status \in {"prepared", "pending"} THEN UNCHANGED ledger
    ELSE ledger[a].points >= Price[r] /\ SetOp(a, [status |-> "prepared", reward |-> r])

Step(pc) == call' = IF call.fresh THEN [call EXCEPT !.pc = pc] ELSE Free

Prepared ==
    /\ call.pc = "prepare"
    /\ Prepare(call.who, call.of)
    /\ IF ledger'[call.who].op.status = "prepared"
       THEN Step("sign") /\ UNCHANGED read
       ELSE Step("refresh") /\ IF call.fresh THEN StartRefresh ELSE UNCHANGED read
    /\ UNCHANGED <<ui, orbit, leaving, demo, known>>

SignBurn ==
    /\ call.pc = "sign"
    /\ Step("submit")
    /\ UNCHANGED <<ui, orbit, read, leaving, outside, known>>

\* The answer is what submit made of the row: pending, or what it already was.
Submitted ==
    /\ call.pc = "submit"
    /\ LET op == ledger[call.who].op IN
       /\ op # NoOp
       /\ IF op.status = "prepared"
          THEN SetOp(call.who, [op EXCEPT !.status = "pending"])
          ELSE UNCHANGED ledger
       /\ Step(IF op.status = "confirmed" THEN "claim" ELSE "refresh")
    /\ IF call.fresh THEN StartRefresh ELSE UNCHANGED read
    /\ UNCHANGED <<ui, orbit, leaving, demo, known>>

\* The refresh is over: the claim of the operation is shown, or Activity, or,
\* in another generation, nothing.
RedeemEnds ==
    /\ call.kind = "redeem" /\ call.pc \in {"claim", "refresh"} /\ (call.fresh => read = None)
    /\ call' = Free
    /\ orbit' = orbit
    /\ IF ~call.fresh THEN UNCHANGED ui
       ELSE IF call.pc = "claim"
       THEN /\ Render([wanted EXCEPT !.reward = None, !.claim = call.who])
            /\ UNCHANGED page
       ELSE /\ Render([wanted EXCEPT !.reward = None])
            /\ page' = "Activity"
    /\ UNCHANGED <<read, leaving, outside, known>>

\* A rejected signature, a lost or refused request, an operation that ended
\* without a burn.  connect reports its error whatever the generation.
CallFails ==
    /\ Busy /\ call.pc \notin {"claim", "refresh"}
    /\ call' = Free
    /\ orbit' = [orbit EXCEPT !.error = @ \/ call.kind = "connect" \/ call.fresh]
    /\ UNCHANGED <<ui, read, leaving, outside, known>>

-----------------------------------------------------------------------------
(* Refreshing, and the program's configuration and catalog.                *)

Poll ==
    /\ orbit.mode = "member" /\ read = None
    /\ StartRefresh
    /\ UNCHANGED <<ui, orbit, call, leaving, outside, known>>

\* refreshJob.current is forgotten when both of its requests have ended.
Job(j) == IF ~j.balance /\ ~j.activity THEN None ELSE j

\* previous?.points ?? null and previous?.activity ?? [].
Data == IF orbit.data = None THEN [points |-> None, activity |-> NoOp] ELSE orbit.data

\* Bug: a failed balance read leaves the previous balance.
BugBalanceShown(ok) ==
    IF ok THEN [Data EXCEPT !.points = ledger[orbit.address].points] ELSE Data

BalanceShown(ok) ==
    [Data EXCEPT !.points = IF ok THEN ledger[orbit.address].points ELSE None]

\* Bug: a refresh reports in the error of the actions.
BugReported(o, failed) == [o EXCEPT !.error = failed]

\* After each read, what has failed in this refresh so far.
Reported(o, failed) == [o EXCEPT !.refreshError = failed]

BalanceRead(ok) ==
    /\ read # None /\ read.balance
    /\ LET failed == read.failed \/ ~ok IN
       /\ read' = Job([read EXCEPT !.balance = FALSE, !.failed = failed])
       /\ orbit' = Reported([orbit EXCEPT !.data = BalanceShown(ok)], failed)
    /\ known' = [known EXCEPT !.balance = ok]
    /\ UNCHANGED <<ui, call, leaving, outside>>

\* What arrived is listed even if the attempts cannot be settled in local
\* storage, which fails the read.
ActivityRead(got, stored) ==
    /\ read # None /\ read.activity
    /\ LET failed == read.failed \/ ~got \/ ~stored IN
       /\ read' = Job([read EXCEPT !.activity = FALSE, !.failed = failed])
       /\ orbit' = Reported(
             IF got THEN [orbit EXCEPT !.data = [Data EXCEPT !.activity = ledger[orbit.address].op]]
             ELSE orbit, failed)
    /\ known' = [known EXCEPT !.activity = got /\ stored]
    /\ UNCHANGED <<ui, call, leaving, outside>>

\* Either read is refused with 401.
SessionExpired ==
    /\ read # None
    /\ orbit' = SignedOut(orbit, TRUE)
    /\ NewGeneration /\ Render(wanted)
    /\ known' = Unknown
    /\ UNCHANGED <<page, leaving, outside>>

\* /config and /rewards arrive together or not at all, and are not asked again.
ProgramLoads(ok) ==
    /\ orbit.loading
    /\ orbit' = IF ok THEN [orbit EXCEPT !.loading = FALSE, !.program = TRUE]
                ELSE [orbit EXCEPT !.loading = FALSE, !.error = TRUE]
    /\ UNCHANGED <<ui, calls, outside, known>>

-----------------------------------------------------------------------------
(* Signing out, loading the page anew, and the world outside.              *)

\* One logout at a time is a bound.
ClickDisconnect ==
    /\ Interactive /\ ~Busy
    /\ orbit.address # None /\ ~leaving
    /\ leaving' = TRUE
    /\ UNCHANGED <<ui, orbit, call, read, outside, known>>

\* The wallet's own disconnect may fail after the logout has succeeded.
LoggedOut ==
    /\ leaving /\ leaving' = FALSE
    /\ \E failed \in BOOLEAN : orbit' = SignedOut(orbit, failed)
    /\ NewGeneration /\ Render(wanted)
    /\ known' = Unknown
    /\ UNCHANGED <<page, outside>>

LogoutFails ==
    /\ leaving /\ leaving' = FALSE
    /\ orbit' = [orbit EXCEPT !.error = TRUE]
    /\ UNCHANGED <<ui, call, read, outside, known>>

\* The wallet no longer offers the connected account.
AccountChange ==
    /\ orbit.connection # None
    /\ orbit' = SignedOut(orbit, TRUE)
    /\ NewGeneration /\ Render(wanted)
    /\ known' = Unknown
    /\ UNCHANGED <<page, leaving, outside>>

Reload ==
    /\ page' = "Overview" /\ wanted' = Closed /\ open' = <<>>
    /\ \E a \in Accounts \cup {None} :
          orbit' = IF a = None THEN Signed("guest", None) ELSE Signed("member", a)
    /\ call' = Free /\ read' = None /\ leaving' = FALSE
    /\ demo' = NewDemo
    /\ known' = Unknown
    /\ UNCHANGED ledger

\* An operation is submitted from another device, finalized, or ends without
\* a burn; its row then offers nothing.
OperationMoves(a) ==
    /\ LET op == ledger[a].op IN
       \/ /\ op.status = "prepared"
          /\ SetOp(a, [op EXCEPT !.status = "pending"])
       \/ /\ op.status = "pending"
          /\ ledger' = [ledger EXCEPT ![a].op.status = "confirmed",
                                      ![a].points = @ - Price[op.reward]]
       \/ /\ op.status \in {"prepared", "pending"}
          /\ SetOp(a, NoOp)
    /\ UNCHANGED <<ui, orbit, calls, demo, known>>

Visitor ==
    \/ \E p \in Visited : Navigate(p)
    \/ HeaderConnect \/ PageConnect \/ DismissError \/ ResumeReward \/ ViewClaim
    \/ \E r \in Rewards : SelectReward(r) \/ RedeemSample(r) \/ Redeem(r)
    \/ \E d \in Dialogs : CloseDialog(d) \/ Escape(d)
    \/ ConnectForReward \/ ExploreDemo \/ ExploreFromDialog \/ LeaveDemo
    \/ \E a \in Accounts : ChooseWallet(a)
    \/ ClickDisconnect \/ AccountChange \/ Reload

Next ==
    \/ Visitor
    \/ Connected \/ ConnectEnds \/ Prepared \/ SignBurn \/ Submitted \/ RedeemEnds \/ CallFails
    \/ Poll \/ SessionExpired
    \/ \E ok \in BOOLEAN : BalanceRead(ok) \/ ProgramLoads(ok)
    \/ \E got, stored \in BOOLEAN : ActivityRead(got, stored)
    \/ LoggedOut \/ LogoutFails
    \/ \E a \in Accounts : OperationMoves(a)

Spec == Init /\ [][Next]_vars

\* The timer fires while the page is visible; a balance read ends by its answer
\* or after 15 seconds; an activity read that is tried for ever succeeds.
FairSpec ==
    /\ Spec
    /\ WF_vars(Poll)
    /\ WF_vars(\E ok \in BOOLEAN : BalanceRead(ok))
    /\ SF_vars(\E stored \in BOOLEAN : ActivityRead(TRUE, stored))

-----------------------------------------------------------------------------
\* Every variable has its type; exactly a member's page has an address, and
\* only a member's page has a signing connection and data.
TypeOK ==
    /\ page \in Pages
    /\ wanted \in Wanted
    /\ open \in Seq(Dialogs) /\ IsInjective(open) /\ Range(open) \subseteq Mounted(wanted)
    /\ orbit \in [mode : {"guest", "demo", "member"}, address : Accounts \cup {None},
                  connection : Accounts \cup {None},
                  data : [points : Nat \cup {None}, activity : Op] \cup {None},
                  program : BOOLEAN, loading : BOOLEAN, error : BOOLEAN, refreshError : BOOLEAN]
    /\ orbit.address \in IF orbit.mode = "member" THEN Accounts ELSE {None}
    /\ orbit.connection \in {None, orbit.address}
    /\ orbit.data # None => orbit.mode = "member"
    /\ call \in Calls
    /\ read \in [balance : BOOLEAN, activity : BOOLEAN, failed : BOOLEAN] \cup {None}
    /\ leaving \in BOOLEAN
    /\ demo \in [points : Nat, taken : [Rewards -> Nat]]
    /\ ledger \in [Accounts -> [points : Nat, op : Op]]
    /\ known \in [balance : BOOLEAN, activity : BOOLEAN]

\* A reward code on the screen, or behind it, is of the account or the demo
\* the page is showing.  (App.tsx:58: "Account changes must discard private
\* reward dialogs."; wallet-acceptance.md:30: "A's private claim is hidden".)
ClaimIsTheMembers == wanted.claim \in {None, Owner}

\* A reward code that was asked for or has just been issued is on the screen,
\* whatever dialogs were open and closed before, until it is closed.
ClaimIsVisible == wanted.claim # None => "claim" \in Range(open)

\* A redemption begins only while the last balance read of this member
\* succeeded.  (README.md:137: "A failed balance read displays Unavailable
\* and disables redemption until a fresh balance arrives.")
RedeemsOnAFreshBalance ==
    [][call.kind # "redeem" /\ call'.kind = "redeem" => known.balance]_vars

\* An action's error outlives every refresh of the member who stays signed in,
\* and between refreshes the page complains of one only if the member's last
\* balance or activity read failed.  (wallet-acceptance.md:53: "signing errors
\* persist until retry or dismissal, and transient refresh errors still clear
\* on recovery".)
ErrorsAreKeptApart ==
    [][/\ orbit.error /\ read' # read /\ orbit'.address = orbit.address
          => orbit'.error \/ Reload
       /\ orbit'.refreshError
          => /\ orbit'.mode = "member"
             /\ read' = None => ~known'.balance \/ ~known'.activity]_vars

\* The demo's points are its opening points less what it redeemed.
\* (domain.test.ts: "deducts points once".)
DemoAddsUp ==
    demo.points + SumFunction([r \in Rewards |-> demo.taken[r] * Price[r]]) = Opening

-----------------------------------------------------------------------------
(* The inductive invariant behind the safety properties.                   *)

\* What is read, and a redemption of this generation, is the member's.
MemberInv ==
    /\ read # None => orbit.mode = "member"
    /\ call.kind = "redeem" /\ call.fresh => orbit.mode = "member" /\ orbit.address = call.who

\* An open redemption is covered.
LedgerInv ==
    \A a \in Accounts :
        ledger[a].op.status \in {"prepared", "pending"}
        => ledger[a].op.reward \in Rewards /\ ledger[a].points >= Price[ledger[a].op.reward]

\* A balance is shown only after a read that succeeded.
KnownInv == orbit.data # None /\ orbit.data.points # None => known.balance

\* A refresh has failed if one of its reads so far has; the page complains of
\* the reads of the refresh under way, or of the last one.
RefreshInv ==
    /\ read # None =>
          read.failed = \/ ~read.balance /\ ~known.balance
                        \/ ~read.activity /\ ~known.activity
    /\ orbit.refreshError =>
          /\ orbit.mode = "member"
          /\ read = None => ~known.balance \/ ~known.activity

\* The conjunction is preserved by every step.
IInv ==
    /\ TypeOK
    /\ MemberInv /\ LedgerInv /\ KnownInv /\ RefreshInv
    /\ ClaimIsTheMembers /\ ClaimIsVisible /\ DemoAddsUp

-----------------------------------------------------------------------------
(* Liveness, and what the code gets wrong.                                 *)

\* A finalized redemption of the member on the page comes to be listed with
\* its code, unless the page stops showing that member.  (README.md:137:
\* "Reward codes remain accessible while the balance RPC is slow or
\* unavailable."; useOrbit: "Your reward code will appear in Activity after
\* finalization.")
ClaimAppears ==
    \A a \in Accounts :
        orbit.address = a /\ ledger[a].op.status = "confirmed"
        ~> Listed.status = "confirmed" \/ orbit.address # a

\* Whenever no action is under way, a wallet dialog that App believes open is
\* on the screen, so that the visitor can try again.  (wallet-acceptance.md:22,
\* of a rejected login: "No member session is granted; the UI offers a retry.")
RetryIsOffered == wanted.wallet /\ ~Busy => "wallet" \in Range(open)
=============================================================================
