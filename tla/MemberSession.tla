---------------------------- MODULE MemberSession ----------------------------
(***************************************************************************)
(* Whose data the member app shows: sign-in with a wallet (connectWallet   *)
(* and auth.go), the session cookie, the session restored when the app     *)
(* loads, polling, and the ways to be signed out.  Answers arrive in any   *)
(* order, late or never.                                                   *)
(*                                                                         *)
(* A challenge grants at most one session (GETDEL), so a session token is  *)
(* named by the nonce of its challenge.  The browser stores the cookie of  *)
(* an answer and runs the code that awaits it in one step.  /balance and   *)
(* /activity are loaded by the same function, so one request stands for    *)
(* both; data is the wallet they belong to.                                *)
(***************************************************************************)
EXTENDS Naturals, FiniteSets

CONSTANTS
    Wallets,    \* wallet accounts of the visitor
    Nonces,     \* nonces that may be drawn; their number is a bound
    None,
    Patient     \* TRUE: the visitor acts only after the app has been told
                \* whether there is a session to restore

ASSUME SessionAssumption ==
    /\ None \notin Wallets \cup Nonces
    /\ Wallets \cap {"none", "idle", "ok", "refused"} = {}
    /\ Patient \in BOOLEAN

VARIABLES
    challenges, \* Redis: the wallet of each live challenge
    sessions,   \* Redis: the wallet of each live session
    drawn,      \* nonces drawn so far
    cookie,     \* the browser's orbit_session
    page,       \* what the app shows
    connecting, \* the connect call that holds the action lock
    me,         \* the request /member/me of the page load
    read,       \* the refresh under way
    logouts,    \* /auth/logout under way: one of each kind is a bound
    disturbed   \* history: another tab has signed in or out since this page
                \* was loaded or signed in

server == <<challenges, sessions, drawn>>
calls == <<me, read, logouts>>
vars == <<challenges, sessions, drawn, cookie, page, connecting, me, read, logouts, disturbed>>

\* A request carries the cookie of the time it was sent.
Idle == [token |-> None, reply |-> "idle"]
Sent == [token |-> cookie, reply |-> "none"]
Call == [token : Nonces \cup {None}, reply : {"none", "idle", "ok", "refused"} \cup Wallets]

Guest == [mode |-> "guest", address |-> None, connection |-> None, data |-> None]
Free == [pc |-> "idle", wallet |-> None, nonce |-> None, fresh |-> TRUE]

Logouts == {"disconnect", "change"}

\* The browser opens the app, with or without the cookie of an earlier visit.
Init ==
    /\ challenges = [n \in Nonces |-> None]
    /\ \E n \in Nonces, w \in Wallets \cup {None} :
          /\ sessions = [m \in Nonces |-> IF m = n THEN w ELSE None]
          /\ drawn = {n}
          /\ cookie \in {n, None}
    /\ page = Guest
    /\ connecting = Free
    /\ me = Sent
    /\ read = Idle
    /\ logouts = [k \in Logouts |-> Idle]
    /\ disturbed = FALSE

-----------------------------------------------------------------------------
(* The server.                                                             *)

Authenticate(token) ==
    IF token # None /\ sessions[token] # None THEN sessions[token] ELSE "refused"

ServeMe ==
    /\ me.reply = "none"
    /\ me' = [me EXCEPT !.reply = Authenticate(me.token)]
    /\ UNCHANGED <<server, cookie, page, connecting, read, logouts, disturbed>>

ServeRead ==
    /\ read.reply = "none"
    /\ read' = [read EXCEPT !.reply = Authenticate(read.token)]
    /\ UNCHANGED <<server, cookie, page, connecting, me, logouts, disturbed>>

Challenge(n) ==
    /\ connecting.pc = "challenge"
    /\ n \notin drawn
    /\ drawn' = drawn \cup {n}
    /\ challenges' = [challenges EXCEPT ![n] = connecting.wallet]
    /\ connecting' = [connecting EXCEPT !.pc = "sign", !.nonce = n]
    /\ UNCHANGED <<sessions, cookie, page, calls, disturbed>>

\* Bug: the challenge is read and left in place.
BugConsume(n) == challenges' = challenges

\* GETDEL.
Consume(n) == challenges' = [challenges EXCEPT ![n] = None]

\* The challenge is consumed first, so a session that cannot be stored costs
\* the member the challenge.
Verify ==
    /\ connecting.pc = "verify"
    /\ LET n == connecting.nonce IN
       /\ Consume(n)
       /\ \/ /\ challenges[n] = connecting.wallet
             /\ sessions' = [sessions EXCEPT ![n] = connecting.wallet]
             /\ connecting' = [connecting EXCEPT !.pc = "verified"]
          \/ /\ UNCHANGED sessions
             /\ connecting' = Free
    /\ UNCHANGED <<drawn, cookie, page, calls, disturbed>>

ServeLogout(k) ==
    /\ logouts[k].reply = "none"
    /\ logouts' = [logouts EXCEPT ![k].reply = "ok"]
    /\ sessions' = [n \in Nonces |-> IF n = logouts[k].token THEN None ELSE sessions[n]]
    /\ UNCHANGED <<challenges, drawn, cookie, page, connecting, me, read, disturbed>>

\* Redis drops a challenge after 5 minutes and a session after 24 hours (a
\* logout whose page gave up on it may also drop the session later).
Expire(n) ==
    /\ challenges[n] # None \/ sessions[n] # None
    /\ challenges' = [challenges EXCEPT ![n] = None]
    /\ sessions' = [sessions EXCEPT ![n] = None]
    /\ UNCHANGED <<drawn, cookie, page, connecting, calls, disturbed>>

-----------------------------------------------------------------------------
(* Generations: what began before one is not shown after it.               *)

\* Bug: a refresh does not compare generations.
BugDropped(r) == r

Dropped(r) == Idle

NewGeneration(p) ==
    /\ page' = p
    /\ read' = Dropped(read)

Stale == IF connecting = Free THEN Free ELSE [connecting EXCEPT !.fresh = FALSE]
Ready == Patient => me = Idle

\* Bug: only the signing connection of a restored session is replaced.
BugShown(w) ==
    IF page.mode = "member" THEN [page EXCEPT !.connection = w]
    ELSE [mode |-> "member", address |-> w, connection |-> w, data |-> None]

Shown(w) == [mode |-> "member", address |-> w, connection |-> w, data |-> None]

-----------------------------------------------------------------------------
(* connect.                                                                *)

ClickConnect(w) ==
    /\ Ready
    /\ connecting = Free
    /\ connecting' = [pc |-> "challenge", wallet |-> w, nonce |-> None, fresh |-> TRUE]
    /\ UNCHANGED <<server, cookie, page, calls, disturbed>>

SignMessage ==
    /\ connecting.pc = "sign"
    /\ connecting' = [connecting EXCEPT !.pc = "verify"]
    /\ UNCHANGED <<server, cookie, page, calls, disturbed>>

\* The answer brings the cookie, whether or not the page still wants it; a
\* page of the same generation shows the member and refreshes.
Connected ==
    /\ connecting.pc = "verified"
    /\ cookie' = connecting.nonce
    /\ IF connecting.fresh
       THEN /\ disturbed' = FALSE
            /\ page' = Shown(connecting.wallet)
            /\ read' = [token |-> connecting.nonce, reply |-> "none"]
            /\ connecting' = [connecting EXCEPT !.pc = "refresh"]
       ELSE /\ connecting' = Free
            /\ UNCHANGED <<page, read, disturbed>>
    /\ UNCHANGED <<server, me, logouts>>

\* The refresh is over, or a rejection, an error or a lost answer ends the
\* call; it does not end while a refresh it waits for is under way.
EndConnect ==
    /\ connecting # Free
    /\ connecting.pc = "refresh" => read = Idle
    /\ connecting' = Free
    /\ UNCHANGED <<server, cookie, page, calls, disturbed>>

-----------------------------------------------------------------------------
(* Restoring and refreshing.                                               *)

\* The answer of /member/me is shown whatever happened since the page loaded.
Restored ==
    /\ me.reply \notin {"idle", "none"}
    /\ me' = Idle
    /\ IF me.reply \in Wallets
       THEN /\ NewGeneration([page EXCEPT !.mode = "member", !.address = me.reply])
            /\ connecting' = Stale
       ELSE UNCHANGED <<page, read, connecting>>
    /\ UNCHANGED <<server, cookie, logouts, disturbed>>

\* One refresh at a time; a polled one carries the cookie of the moment.
Poll ==
    /\ page.mode = "member" /\ read = Idle
    /\ read' = Sent
    /\ UNCHANGED <<server, cookie, page, connecting, me, logouts, disturbed>>

\* Data is shown; a refusal signs the page out.
Refreshed ==
    /\ read.reply \notin {"idle", "none"}
    /\ IF read.reply \in Wallets
       THEN /\ page' = [page EXCEPT !.data = read.reply]
            /\ UNCHANGED connecting
       ELSE /\ page' = Guest
            /\ connecting' = Stale
    /\ read' = Idle
    /\ UNCHANGED <<server, cookie, me, logouts, disturbed>>

\* Any answer may be lost or an error; only /member/me and refreshes wait.
Lose ==
    /\ \/ me' = Idle /\ UNCHANGED <<read, logouts>>
       \/ read' = Idle /\ UNCHANGED <<me, logouts>>
       \/ \E k \in Logouts : logouts' = [logouts EXCEPT ![k] = Idle] /\ UNCHANGED <<me, read>>
    /\ UNCHANGED <<server, cookie, page, connecting, disturbed>>

-----------------------------------------------------------------------------
(* Signing out, the demo, and loading the page anew.                       *)

\* disconnect asks the server first and takes no lock.
ClickDisconnect ==
    /\ Ready
    /\ page.mode = "member" /\ connecting = Free
    /\ logouts["disconnect"] = Idle
    /\ logouts' = [logouts EXCEPT !["disconnect"] = Sent]
    /\ UNCHANGED <<server, cookie, page, connecting, me, read, disturbed>>

\* The wallet's account is no longer the connected one: signed out at once,
\* and the server told without waiting.
AccountChange ==
    /\ page.connection # None
    /\ logouts["change"] = Idle
    /\ logouts' = [logouts EXCEPT !["change"] = Sent]
    /\ NewGeneration(Guest)
    /\ connecting' = Stale
    /\ UNCHANGED <<server, cookie, me, disturbed>>

\* The answer clears the cookie, whichever it is by now.
LoggedOut(k) ==
    /\ logouts[k].reply = "ok"
    /\ logouts' = [logouts EXCEPT ![k] = Idle]
    /\ cookie' = None
    /\ IF k = "disconnect" THEN NewGeneration(Guest) /\ connecting' = Stale
       ELSE UNCHANGED <<page, read, connecting>>
    /\ UNCHANGED <<server, me, disturbed>>

ExploreDemo ==
    /\ Ready
    /\ page.mode # "member" /\ connecting = Free
    /\ NewGeneration([page EXCEPT !.mode = "demo"])
    /\ UNCHANGED <<server, cookie, connecting, me, logouts, disturbed>>

LeaveDemo ==
    /\ page.mode = "demo"
    /\ NewGeneration([page EXCEPT !.mode = "guest"])
    /\ connecting' = Stale
    /\ UNCHANGED <<server, cookie, me, logouts, disturbed>>

Reload ==
    /\ page' = Guest
    /\ connecting' = Free
    /\ me' = Sent
    /\ read' = Idle
    /\ logouts' = [k \in Logouts |-> Idle]
    /\ disturbed' = FALSE
    /\ UNCHANGED <<server, cookie>>

-----------------------------------------------------------------------------
(* Another tab: its whole sign-in or sign-out is one step.  Tabs share the *)
(* cookie, and this page is not told.                                      *)

SignInElsewhere(n, w) ==
    /\ n \notin drawn
    /\ drawn' = drawn \cup {n}
    /\ sessions' = [sessions EXCEPT ![n] = w]
    /\ cookie' = n /\ disturbed' = TRUE
    /\ UNCHANGED <<challenges, page, connecting, calls>>

SignOutElsewhere ==
    /\ cookie # None
    /\ sessions' = [sessions EXCEPT ![cookie] = None]
    /\ cookie' = None /\ disturbed' = TRUE
    /\ UNCHANGED <<challenges, drawn, page, connecting, calls>>

Next ==
    \/ ServeMe \/ ServeRead \/ Verify
    \/ \E k \in Logouts : ServeLogout(k) \/ LoggedOut(k)
    \/ \E n \in Nonces : Challenge(n) \/ Expire(n)
    \/ \E w \in Wallets : ClickConnect(w)
    \/ SignMessage \/ Connected \/ EndConnect
    \/ Restored \/ Poll \/ Refreshed \/ Lose
    \/ ClickDisconnect \/ AccountChange \/ ExploreDemo \/ LeaveDemo \/ Reload
    \/ \E n \in Nonces, w \in Wallets : SignInElsewhere(n, w)
    \/ SignOutElsewhere

Spec == Init /\ [][Next]_vars

-----------------------------------------------------------------------------
\* Every variable has its type, and a challenge that granted a session is gone.
TypeOK ==
    /\ challenges \in [Nonces -> Wallets \cup {None}]
    /\ sessions \in [Nonces -> Wallets \cup {None}]
    /\ \A n \in Nonces : sessions[n] # None => challenges[n] = None
    /\ drawn \in SUBSET Nonces
    /\ cookie \in Nonces \cup {None}
    /\ page \in [mode : {"guest", "member", "demo"}, address : Wallets \cup {None},
                 connection : Wallets \cup {None}, data : Wallets \cup {None}]
    /\ connecting \in [pc : {"idle", "challenge", "sign", "verify", "verified", "refresh"},
                       wallet : Wallets \cup {None}, nonce : Nonces \cup {None},
                       fresh : BOOLEAN]
    /\ me \in Call /\ read \in Call /\ logouts \in [Logouts -> Call]
    /\ disturbed \in BOOLEAN

\* A member page acts as the member it shows: its cookie, while it is worth
\* anything, is a session of that address, and so is its signing connection;
\* what other tabs do with the cookie lasts until the page signs in or is loaded.
\* (wallet-acceptance.md: "The API verifies the signature; the app displays
\* account A and its balance.")
ActsAsShown ==
    page.mode = "member" =>
        /\ cookie # None /\ ~disturbed => sessions[cookie] \in {None, page.address}
        /\ page.connection \in {None, page.address}

\* The balance and activity on show belong to the address on show, and a page
\* without a member shows neither, however late an answer arrives and
\* whatever other tabs do.
\* (wallet-acceptance.md: "signing in as B reveals only B's data.")
DataIsTheMembers ==
    /\ ~disturbed => page.data \in {None, page.address}
    /\ page.mode # "member" =>
          page.address = None /\ page.connection = None /\ page.data = None

-----------------------------------------------------------------------------
(* The inductive invariant behind the safety properties, for a patient     *)
(* visitor.                                                                *)

\* While the app does not know yet whether there is a session to restore,
\* nothing else has happened, and the cookie is still the one it asked with.
RestoreInv ==
    me # Idle =>
        /\ page = Guest /\ connecting = Free /\ read = Idle
        /\ \A k \in Logouts : logouts[k] = Idle
        /\ ~disturbed =>
              /\ me.token = cookie
              /\ me.reply \in Wallets => cookie # None /\ sessions[cookie] \in {None, me.reply}

\* The nonce of a sign-in is nobody's cookie until the sign-in is shown, its
\* session is its wallet's, and a sign-in goes stale only by signing out.
ConnectInv ==
    /\ connecting.pc \in {"sign", "verify", "verified"} =>
          /\ connecting.nonce \in drawn
          /\ cookie # connecting.nonce /\ read.token # connecting.nonce
          /\ sessions[connecting.nonce] \in {None, connecting.wallet}
    /\ connecting # Free => connecting.wallet \in Wallets
    /\ connecting.pc \in {"sign", "verify"} => sessions[connecting.nonce] = None
    /\ ~connecting.fresh => page.mode # "member" \/ connecting.pc = "refresh"
    /\ cookie # None => cookie \in drawn

\* A refresh under way is the shown member's.
ReadInv ==
    read # Idle =>
        /\ page.mode = "member"
        /\ read.token # None => read.token \in drawn
        /\ ~disturbed =>
              /\ read.token # None => sessions[read.token] \in {None, page.address}
              /\ read.reply \in Wallets => read.reply = page.address

\* A session is of a nonce that was drawn.
DrawnInv ==
    /\ \A n \in Nonces : sessions[n] # None \/ challenges[n] # None => n \in drawn
    /\ \A n \in Nonces : challenges[n] # None /\ connecting.pc \in {"sign", "verify"}
                         /\ connecting.nonce = n => challenges[n] = connecting.wallet

IInv ==
    /\ TypeOK /\ ActsAsShown /\ DataIsTheMembers
    /\ RestoreInv /\ ConnectInv /\ ReadInv /\ DrawnInv
=============================================================================
