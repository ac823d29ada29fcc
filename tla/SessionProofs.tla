---------------------------- MODULE SessionProofs ----------------------------
(***************************************************************************)
(* Theorems about MemberSession for any number of wallets and sign-ins.    *)
(* What the page acts as and whose data it shows is proved for a patient   *)
(* visitor, whatever other tabs do: session_race shows what an impatient   *)
(* one meets.  The last theorem needs no patience.  Each action preserves  *)
(* IInv; the actions are grouped by the part of the program they belong to.*)
(***************************************************************************)
EXTENDS MemberSession, TLAPS

\* What the conjuncts say of the two requests that are not under way.
LEMMA IdleFacts ==
  /\ Idle.token = None /\ Idle.reply = "idle" /\ Idle \in Call
  /\ Idle.reply \notin Wallets
  /\ Free.pc = "idle" /\ Free.fresh
  /\ Guest.mode = "guest" /\ Guest.address = None
  /\ Guest.connection = None /\ Guest.data = None
BY SessionAssumption DEF Idle, Free, Guest, Call

\* Once the visitor may act, the restored session is known.
LEMMA MeIsIdle ==
  ASSUME IInv,
         \/ page # Guest
         \/ connecting # Free
         \/ read # Idle
         \/ \E k \in Logouts : logouts[k] # Idle
  PROVE  me = Idle
BY DEF IInv, RestoreInv

LEMMA InitInv == Init => IInv
<1> SUFFICES ASSUME Init PROVE IInv
  OBVIOUS
<1>1. PICK n \in Nonces, w \in Wallets \cup {None} :
        /\ sessions = [m \in Nonces |-> IF m = n THEN w ELSE None]
        /\ drawn = {n}
        /\ cookie \in {n, None}
  BY DEF Init
<1>2. /\ challenges = [m \in Nonces |-> None] /\ disturbed = FALSE
      /\ page = Guest /\ connecting = Free
      /\ me = [token |-> cookie, reply |-> "none"]
      /\ read = Idle /\ logouts = [k \in Logouts |-> Idle]
  BY DEF Init, Sent
<1>3. me \in Call
  BY <1>1, <1>2 DEF Call
<1>4. TypeOK
  BY <1>1, <1>2, <1>3, IdleFacts DEF TypeOK, Guest, Free
<1>5. ActsAsShown /\ DataIsTheMembers
  BY <1>2, IdleFacts DEF ActsAsShown, DataIsTheMembers
<1>6. RestoreInv
  BY <1>2, SessionAssumption DEF RestoreInv
<1>7. ConnectInv /\ ReadInv /\ DrawnInv
  BY <1>1, <1>2, IdleFacts DEF ConnectInv, ReadInv, DrawnInv
<1> QED
  BY <1>4, <1>5, <1>6, <1>7 DEF IInv

-----------------------------------------------------------------------------
(* The server.                                                             *)

LEMMA ServeMeStep ==
  ASSUME IInv, ServeMe
  PROVE  IInv'
<1>1. PICK r : r = Authenticate(me.token)
  OBVIOUS
<1>2. /\ me' = [me EXCEPT !.reply = r] /\ me # Idle
      /\ UNCHANGED <<disturbed, challenges, sessions, drawn, cookie, page, connecting, read, logouts>>
  BY <1>1, IdleFacts DEF ServeMe, server
<1>3. /\ r \in Wallets \cup {"refused"}
      /\ r \in Wallets => me.token # None /\ sessions[me.token] = r
  BY <1>1, SessionAssumption DEF Authenticate, IInv, TypeOK, Call
<1>4. me' \in Call /\ me'.token = me.token /\ me'.reply = r
  BY <1>2, <1>3 DEF IInv, TypeOK, Call
<1>5. TypeOK'
  BY <1>2, <1>4 DEF IInv, TypeOK
<1>6. RestoreInv'
  BY <1>2, <1>3, <1>4 DEF IInv, RestoreInv
<1>7. ActsAsShown' /\ DataIsTheMembers' /\ ConnectInv' /\ ReadInv' /\ DrawnInv'
  BY <1>2 DEF IInv, ActsAsShown, DataIsTheMembers, ConnectInv, ReadInv, DrawnInv
<1> QED
  BY <1>5, <1>6, <1>7 DEF IInv

\* A refresh is answered for the member shown, or refused.
LEMMA ServeReadStep ==
  ASSUME IInv, ServeRead
  PROVE  IInv'
<1>1. PICK r : r = Authenticate(read.token)
  OBVIOUS
<1>2. /\ read' = [read EXCEPT !.reply = r] /\ read # Idle
      /\ UNCHANGED <<disturbed, challenges, sessions, drawn, cookie, page, connecting, me, logouts>>
  BY <1>1, IdleFacts DEF ServeRead, server
<1>3. /\ r \in Wallets \cup {"refused"}
      /\ r \in Wallets => read.token # None /\ sessions[read.token] = r
  BY <1>1, SessionAssumption DEF Authenticate, IInv, TypeOK, Call
<1>4. read' \in Call /\ read'.token = read.token /\ read'.reply = r
  BY <1>2, <1>3 DEF IInv, TypeOK, Call
<1>5. me = Idle
  BY <1>2, MeIsIdle
<1>6. ~disturbed => (r \in Wallets => r = page.address)
  BY <1>2, <1>3, SessionAssumption DEF IInv, ReadInv
<1>7. TypeOK' /\ RestoreInv'
  BY <1>2, <1>4, <1>5 DEF IInv, TypeOK, RestoreInv
<1>8. ConnectInv' /\ ReadInv'
  BY <1>2, <1>4, <1>6 DEF IInv, ConnectInv, ReadInv
<1>9. ActsAsShown' /\ DataIsTheMembers' /\ DrawnInv'
  BY <1>2 DEF IInv, ActsAsShown, DataIsTheMembers, DrawnInv
<1> QED
  BY <1>7, <1>8, <1>9 DEF IInv

\* A new nonce is nobody's cookie.
LEMMA ChallengeStep ==
  ASSUME IInv, NEW n \in Nonces, Challenge(n)
  PROVE  IInv'
<1>1. /\ n \notin drawn /\ connecting.pc = "challenge"
      /\ drawn' = drawn \cup {n}
      /\ challenges' = [challenges EXCEPT ![n] = connecting.wallet]
      /\ connecting' = [connecting EXCEPT !.pc = "sign", !.nonce = n]
      /\ UNCHANGED <<disturbed, sessions, cookie, page, me, read, logouts>>
  BY DEF Challenge, calls
<1>2. connecting # Free /\ me = Idle /\ connecting.wallet \in Wallets
  BY <1>1, IdleFacts, MeIsIdle DEF IInv, ConnectInv
<1>3. sessions[n] = None /\ cookie # n /\ read.token # n
  BY <1>1, SessionAssumption, IdleFacts DEF IInv, DrawnInv, ConnectInv, ReadInv
<1>4. /\ connecting'.pc = "sign" /\ connecting'.nonce = n
      /\ connecting'.wallet = connecting.wallet /\ connecting'.fresh = connecting.fresh
  BY <1>1 DEF IInv, TypeOK
<1>5. TypeOK'
  BY <1>1, <1>2, <1>3 DEF IInv, TypeOK
<1>6. RestoreInv' /\ ReadInv'
  BY <1>1, <1>2 DEF IInv, RestoreInv, ReadInv
<1>7. ConnectInv'
  BY <1>1, <1>2, <1>3, <1>4 DEF IInv, ConnectInv
<1>8. DrawnInv'
  BY <1>1, <1>3, <1>4 DEF IInv, TypeOK, DrawnInv
<1>9. ActsAsShown' /\ DataIsTheMembers'
  BY <1>1 DEF IInv, ActsAsShown, DataIsTheMembers
<1> QED
  BY <1>5, <1>6, <1>7, <1>8, <1>9 DEF IInv

\* The session is the wallet's that signed, under a nonce no request carries.
LEMMA VerifyStep ==
  ASSUME IInv, Verify
  PROVE  IInv'
<1>1. PICK n \in Nonces \cup {None} : n = connecting.nonce
  BY DEF IInv, TypeOK
<1>2. PICK w \in Wallets : w = connecting.wallet
  BY IdleFacts DEF Verify, IInv, ConnectInv
<1>3. /\ connecting.pc = "verify" /\ connecting # Free /\ me = Idle
      /\ n \in Nonces /\ n \in drawn /\ cookie # n /\ read.token # n
      /\ sessions[n] = None
  BY <1>1, IdleFacts, MeIsIdle DEF Verify, IInv, TypeOK, ConnectInv
<1>4. /\ challenges' = [challenges EXCEPT ![n] = None]
      /\ \/ /\ sessions' = [sessions EXCEPT ![n] = w]
            /\ connecting' = [connecting EXCEPT !.pc = "verified"]
         \/ sessions' = sessions /\ connecting' = Free
      /\ UNCHANGED <<disturbed, drawn, cookie, page, me, read, logouts>>
  BY <1>1, <1>2 DEF Verify, Consume, calls
<1>5. \A m \in Nonces : m # n => sessions'[m] = sessions[m]
  BY <1>3, <1>4 DEF IInv, TypeOK
<1>6. /\ sessions'[n] \in {None, w}
      /\ \A m \in Nonces : challenges'[m] = IF m = n THEN None ELSE challenges[m]
  BY <1>3, <1>4 DEF IInv, TypeOK
<1>7. TypeOK'
  <2>1. \A m \in Nonces : sessions'[m] # None => challenges'[m] = None
    BY <1>5, <1>6 DEF IInv, TypeOK
  <2>2. sessions' \in [Nonces -> Wallets \cup {None}]
    BY <1>3, <1>4 DEF IInv, TypeOK
  <2>3. challenges' \in [Nonces -> Wallets \cup {None}]
    BY <1>4 DEF IInv, TypeOK
  <2>4. connecting' \in [pc : {"idle", "challenge", "sign", "verify", "verified", "refresh"},
                         wallet : Wallets \cup {None}, nonce : Nonces \cup {None},
                         fresh : BOOLEAN]
    <3>1. CASE connecting' = Free
      BY <3>1 DEF Free
    <3>2. CASE connecting' = [connecting EXCEPT !.pc = "verified"]
      BY <3>2 DEF IInv, TypeOK
    <3> QED
      BY <1>4, <3>1, <3>2
  <2> QED
    BY <1>4, <2>1, <2>2, <2>3, <2>4 DEF IInv, TypeOK
<1>8. RestoreInv'
  BY <1>3, <1>4 DEF RestoreInv
<1>9. ConnectInv'
  BY <1>1, <1>2, <1>3, <1>4, <1>6, IdleFacts DEF IInv, TypeOK, ConnectInv
<1>10. ReadInv'
  BY <1>3, <1>4, <1>5 DEF IInv, TypeOK, ReadInv, Call
<1>11. DrawnInv'
  BY <1>3, <1>4, <1>5, <1>6, IdleFacts DEF IInv, TypeOK, DrawnInv
<1>12. ActsAsShown' /\ DataIsTheMembers'
  BY <1>3, <1>4, <1>5 DEF IInv, TypeOK, ActsAsShown, DataIsTheMembers
<1> QED
  BY <1>7, <1>8, <1>9, <1>10, <1>11, <1>12 DEF IInv

\* A session that ends is nobody's.
LEMMA EndOfSessionStep ==
  ASSUME IInv, (\E k \in Logouts : ServeLogout(k)) \/ (\E n \in Nonces : Expire(n))
  PROVE  IInv'
<1>1. /\ \A n \in Nonces : sessions'[n] \in {None, sessions[n]}
      /\ \A n \in Nonces : challenges'[n] \in {None, challenges[n]}
      /\ sessions' \in [Nonces -> Wallets \cup {None}]
      /\ challenges' \in [Nonces -> Wallets \cup {None}]
      /\ UNCHANGED <<disturbed, drawn, cookie, page, connecting, me, read>>
  BY DEF ServeLogout, Expire, calls, IInv, TypeOK
<1>2. /\ logouts' \in [Logouts -> Call]
      /\ me # Idle => logouts' = logouts
  <2>1. CASE \E k \in Logouts : ServeLogout(k)
    <3>1. PICK k \in Logouts : ServeLogout(k)
      BY <2>1
    <3>2. logouts[k] \in Call /\ logouts[k] # Idle
      BY <3>1, IdleFacts DEF ServeLogout, IInv, TypeOK
    <3>3. [logouts[k] EXCEPT !.reply = "ok"] \in Call
      BY <3>2 DEF Call
    <3> QED
      BY <3>1, <3>2, <3>3, MeIsIdle DEF ServeLogout, IInv, TypeOK
  <2>2. CASE \E n \in Nonces : Expire(n)
    BY <2>2 DEF Expire, calls, IInv, TypeOK
  <2> QED
    BY <2>1, <2>2
<1>3. TypeOK'
  BY <1>1, <1>2 DEF IInv, TypeOK
<1>4. RestoreInv'
  BY <1>1, <1>2 DEF IInv, TypeOK, RestoreInv
<1>5. ConnectInv' /\ ReadInv' /\ DrawnInv'
  BY <1>1 DEF IInv, TypeOK, ConnectInv, ReadInv, DrawnInv, Call
<1>6. ActsAsShown' /\ DataIsTheMembers'
  BY <1>1 DEF IInv, TypeOK, ActsAsShown, DataIsTheMembers
<1> QED
  BY <1>3, <1>4, <1>5, <1>6 DEF IInv

-----------------------------------------------------------------------------
(* connect.                                                                *)

LEMMA ClickConnectStep ==
  ASSUME Patient, IInv, NEW w \in Wallets, ClickConnect(w)
  PROVE  IInv'
<1>1. /\ connecting' = [pc |-> "challenge", wallet |-> w, nonce |-> None, fresh |-> TRUE]
      /\ me = Idle
      /\ UNCHANGED <<disturbed, challenges, sessions, drawn, cookie, page, me, read, logouts>>
  BY DEF ClickConnect, Ready, server, calls
<1> QED
  BY <1>1 DEF IInv, TypeOK, ActsAsShown, DataIsTheMembers, RestoreInv, ConnectInv, ReadInv, DrawnInv

LEMMA SignMessageStep ==
  ASSUME IInv, SignMessage
  PROVE  IInv'
<1>1. /\ connecting' = [connecting EXCEPT !.pc = "verify"]
      /\ connecting.pc = "sign"
      /\ UNCHANGED <<disturbed, challenges, sessions, drawn, cookie, page, me, read, logouts>>
  BY DEF SignMessage, server, calls
<1>2. /\ connecting # Free
      /\ connecting'.pc = "verify" /\ connecting'.nonce = connecting.nonce
      /\ connecting'.wallet = connecting.wallet /\ connecting'.fresh = connecting.fresh
  BY <1>1, IdleFacts DEF IInv, TypeOK
<1>3. TypeOK'
  BY <1>1 DEF IInv, TypeOK
<1>4. RestoreInv' /\ ReadInv'
  BY <1>1, <1>2, MeIsIdle DEF IInv, RestoreInv, ReadInv
<1>5. ConnectInv' /\ DrawnInv'
  BY <1>1, <1>2 DEF IInv, ConnectInv, DrawnInv
<1>6. ActsAsShown' /\ DataIsTheMembers'
  BY <1>1 DEF IInv, ActsAsShown, DataIsTheMembers
<1> QED
  BY <1>3, <1>4, <1>5, <1>6 DEF IInv

\* The cookie and the page change hands together, unless the page is signed
\* out.
LEMMA ConnectedStep ==
  ASSUME IInv, Connected
  PROVE  IInv'
<1>1. PICK n \in Nonces, w \in Wallets : n = connecting.nonce /\ w = connecting.wallet
  BY IdleFacts DEF Connected, IInv, TypeOK, ConnectInv
<1>2. /\ connecting.pc = "verified" /\ connecting # Free /\ me = Idle
      /\ n \in drawn /\ sessions[n] \in {None, w}
  BY <1>1, IdleFacts, MeIsIdle DEF Connected, IInv, ConnectInv
<1>3. /\ cookie' = n
      /\ UNCHANGED <<challenges, sessions, drawn, me, logouts>>
  BY <1>1 DEF Connected, server
<1>4. CASE connecting.fresh
  <2>1. /\ page' = [mode |-> "member", address |-> w, connection |-> w, data |-> None]
        /\ read' = [token |-> n, reply |-> "none"]
        /\ connecting' = [connecting EXCEPT !.pc = "refresh"]
        /\ disturbed' = FALSE
    BY <1>1, <1>4 DEF Connected, Shown
  <2>2. TypeOK'
    BY <1>3, <2>1 DEF IInv, TypeOK, Call
  <2>3. ActsAsShown' /\ DataIsTheMembers'
    BY <1>2, <1>3, <2>1 DEF ActsAsShown, DataIsTheMembers
  <2>4. RestoreInv' /\ ReadInv'
    BY <1>2, <1>3, <2>1, SessionAssumption DEF RestoreInv, ReadInv
  <2>5. /\ connecting'.pc = "refresh" /\ connecting'.wallet = w
    BY <1>1, <2>1 DEF IInv, TypeOK
  <2>6. ConnectInv' /\ DrawnInv'
    BY <1>2, <1>3, <2>5 DEF IInv, ConnectInv, DrawnInv
  <2> QED
    BY <2>2, <2>3, <2>4, <2>6 DEF IInv
<1>5. CASE ~connecting.fresh
  <2>1. UNCHANGED <<page, read, disturbed>> /\ connecting' = Free
    BY <1>5 DEF Connected
  <2>2. page.mode # "member" /\ read = Idle
    BY <1>2, <1>5 DEF IInv, ConnectInv, ReadInv
  <2>3. TypeOK'
    BY <1>3, <2>1 DEF IInv, TypeOK, Free
  <2>4. ActsAsShown' /\ DataIsTheMembers'
    BY <2>1, <2>2 DEF IInv, ActsAsShown, DataIsTheMembers
  <2>5. RestoreInv' /\ ReadInv'
    BY <1>2, <1>3, <2>1, <2>2 DEF RestoreInv, ReadInv
  <2>6. ConnectInv' /\ DrawnInv'
    BY <1>2, <1>3, <2>1, IdleFacts DEF IInv, ConnectInv, DrawnInv
  <2> QED
    BY <2>3, <2>4, <2>5, <2>6 DEF IInv
<1> QED
  BY <1>4, <1>5 DEF IInv, TypeOK

LEMMA EndConnectStep ==
  ASSUME IInv, EndConnect
  PROVE  IInv'
<1>1. /\ connecting' = Free
      /\ UNCHANGED <<disturbed, challenges, sessions, drawn, cookie, page, me, read, logouts>>
  BY DEF EndConnect, server, calls
<1>2. TypeOK'
  BY <1>1 DEF IInv, TypeOK, Free
<1> QED
  BY <1>1, <1>2, IdleFacts
     DEF IInv, ActsAsShown, DataIsTheMembers, RestoreInv, ConnectInv, ReadInv, DrawnInv

-----------------------------------------------------------------------------
(* The page.                                                               *)

PageShape ==
  [mode : {"guest", "member", "demo"}, address : Wallets \cup {None},
   connection : Wallets \cup {None}, data : Wallets \cup {None}]

\* A page signed out, or shown anew, forgets its refresh and what it was
\* about to show.
LEMMA SignedOut ==
  ASSUME IInv, me = Idle,
         page' \in PageShape, page'.mode \in {"guest", "demo"},
         page'.address = None, page'.connection = None, page'.data = None,
         read' = Idle, connecting' \in {connecting, Stale},
         logouts' \in [Logouts -> Call],
         cookie' \in {cookie, None},
         UNCHANGED <<disturbed, challenges, sessions, drawn, me>>
  PROVE  IInv'
<1>1. /\ connecting' \in [pc : {"idle", "challenge", "sign", "verify", "verified", "refresh"},
                          wallet : Wallets \cup {None}, nonce : Nonces \cup {None},
                          fresh : BOOLEAN]
      /\ connecting'.pc = connecting.pc /\ connecting'.nonce = connecting.nonce
      /\ connecting'.wallet = connecting.wallet
      /\ connecting = Free => connecting' = Free
  BY DEF IInv, TypeOK, Stale
<1>2. TypeOK'
  BY <1>1, IdleFacts DEF IInv, TypeOK, PageShape
<1>3. ActsAsShown' /\ DataIsTheMembers' /\ RestoreInv' /\ ReadInv'
  BY DEF ActsAsShown, DataIsTheMembers, RestoreInv, ReadInv
<1>4. ConnectInv'
  BY <1>1, IdleFacts, SessionAssumption DEF IInv, TypeOK, ConnectInv
<1>5. DrawnInv'
  BY <1>1 DEF IInv, DrawnInv
<1> QED
  BY <1>2, <1>3, <1>4, <1>5 DEF IInv

\* The restored member's cookie is the one that was asked about.
LEMMA RestoredStep ==
  ASSUME IInv, Restored
  PROVE  IInv'
<1>1. /\ me # Idle /\ me' = Idle
      /\ UNCHANGED <<disturbed, challenges, sessions, drawn, cookie, logouts>>
  BY IdleFacts DEF Restored, server
<1>2. page = Guest /\ connecting = Free /\ read = Idle
  BY <1>1 DEF IInv, RestoreInv
<1>3. connecting' = Free /\ read' = Idle
  BY <1>2 DEF Restored, NewGeneration, Dropped, Stale
<1>4. \/ page' = page
      \/ \E w \in Wallets :
            /\ page' = [mode |-> "member", address |-> w, connection |-> None, data |-> None]
            /\ cookie # None /\ ~disturbed => sessions[cookie] \in {None, w}
  <2>1. CASE me.reply \in Wallets
    BY <1>1, <1>2, <2>1 DEF Restored, NewGeneration, Guest, IInv, RestoreInv
  <2>2. CASE me.reply \notin Wallets
    BY <2>2 DEF Restored
  <2> QED
    BY <2>1, <2>2
<1>5. TypeOK'
  BY <1>1, <1>2, <1>3, <1>4, IdleFacts DEF IInv, TypeOK
<1>6. ActsAsShown' /\ DataIsTheMembers'
  BY <1>1, <1>2, <1>4 DEF IInv, ActsAsShown, DataIsTheMembers
<1>7. RestoreInv' /\ ReadInv'
  BY <1>1, <1>3 DEF RestoreInv, ReadInv
<1>8. ConnectInv' /\ DrawnInv'
  BY <1>1, <1>2, <1>3, IdleFacts DEF IInv, ConnectInv, DrawnInv
<1> QED
  BY <1>5, <1>6, <1>7, <1>8 DEF IInv

\* A polled refresh carries the shown member's cookie.
LEMMA PollStep ==
  ASSUME IInv, Poll
  PROVE  IInv'
<1>1. /\ page.mode = "member" /\ page # Guest
      /\ read' = [token |-> cookie, reply |-> "none"]
      /\ UNCHANGED <<disturbed, challenges, sessions, drawn, cookie, page, connecting, me, logouts>>
  BY IdleFacts DEF Poll, Sent, server
<1>2. me = Idle
  BY <1>1, MeIsIdle
<1>3. TypeOK'
  BY <1>1 DEF IInv, TypeOK, Call
<1>4. RestoreInv' /\ ConnectInv'
  BY <1>1, <1>2 DEF IInv, RestoreInv, ConnectInv
<1>5. ReadInv'
  BY <1>1, SessionAssumption DEF IInv, ActsAsShown, ConnectInv, ReadInv
<1>6. ActsAsShown' /\ DataIsTheMembers' /\ DrawnInv'
  BY <1>1 DEF IInv, ActsAsShown, DataIsTheMembers, DrawnInv
<1> QED
  BY <1>3, <1>4, <1>5, <1>6 DEF IInv

LEMMA RefreshedStep ==
  ASSUME IInv, Refreshed
  PROVE  IInv'
<1>1. /\ read # Idle /\ me = Idle /\ read' = Idle
      /\ UNCHANGED <<disturbed, challenges, sessions, drawn, cookie, me, logouts>>
  BY IdleFacts, MeIsIdle DEF Refreshed, server
<1>2. CASE read.reply \in Wallets
  <2>1. /\ page' = [page EXCEPT !.data = read.reply]
        /\ connecting' = connecting
        /\ page.mode = "member"
        /\ ~disturbed => read.reply = page.address
    BY <1>1, <1>2 DEF Refreshed, IInv, ReadInv
  <2>2. /\ page'.mode = page.mode /\ page'.address = page.address
        /\ page'.connection = page.connection /\ page'.data = read.reply
    BY <2>1 DEF IInv, TypeOK
  <2>3. TypeOK'
    BY <1>1, <1>2, <2>1, IdleFacts DEF IInv, TypeOK
  <2>4. ActsAsShown' /\ DataIsTheMembers' /\ RestoreInv' /\ ReadInv' /\ DrawnInv'
    BY <1>1, <2>1, <2>2
       DEF IInv, ActsAsShown, DataIsTheMembers, RestoreInv, ReadInv, DrawnInv
  <2>5. ConnectInv'
    BY <1>1, <2>1, <2>2, IdleFacts, SessionAssumption DEF IInv, TypeOK, ConnectInv
  <2> QED
    BY <2>3, <2>4, <2>5 DEF IInv
<1>3. CASE read.reply \notin Wallets
  <2>1. page' = Guest /\ connecting' = Stale
    BY <1>3 DEF Refreshed
  <2>2. page' \in PageShape
    BY <2>1 DEF PageShape, Guest
  <2> QED
    BY <1>1, <2>1, <2>2, IdleFacts, SignedOut DEF IInv, TypeOK
<1> QED
  BY <1>2, <1>3

\* Losing an answer, or asking to be logged out, changes nothing on the page.
LEMMA LoseStep ==
  ASSUME Patient, IInv, Lose \/ ClickDisconnect
  PROVE  IInv'
<1>1. /\ UNCHANGED <<disturbed, challenges, sessions, drawn, cookie, page, connecting>>
      /\ read' \in {read, Idle} /\ me' \in {me, Idle}
  BY DEF Lose, ClickDisconnect, server
<1>2. /\ logouts' \in [Logouts -> Call]
      /\ me' # Idle => \A k \in Logouts : logouts'[k] = Idle
  <2>1. CASE ClickDisconnect
    BY <2>1 DEF ClickDisconnect, Ready, Sent, Call, IInv, TypeOK
  <2>2. CASE Lose
    BY <2>2, IdleFacts DEF Lose, IInv, TypeOK, RestoreInv
  <2> QED
    BY <2>1, <2>2
<1>3. TypeOK'
  BY <1>1, <1>2, IdleFacts DEF IInv, TypeOK
<1>4. RestoreInv'
  BY <1>1, <1>2 DEF IInv, RestoreInv
<1>5. ConnectInv' /\ ReadInv' /\ DrawnInv'
  BY <1>1, IdleFacts, SessionAssumption DEF IInv, TypeOK, ConnectInv, ReadInv, DrawnInv
<1>6. ActsAsShown' /\ DataIsTheMembers'
  BY <1>1 DEF IInv, ActsAsShown, DataIsTheMembers
<1> QED
  BY <1>3, <1>4, <1>5, <1>6 DEF IInv

LEMMA AccountChangeStep ==
  ASSUME IInv, AccountChange
  PROVE  IInv'
<1>1. /\ page # Guest /\ page' = Guest /\ read' = Idle /\ connecting' = Stale
      /\ logouts' = [logouts EXCEPT !["change"] = [token |-> cookie, reply |-> "none"]]
      /\ UNCHANGED <<disturbed, challenges, sessions, drawn, cookie, me>>
  BY IdleFacts DEF AccountChange, NewGeneration, Dropped, Sent, server
<1>2. page' \in PageShape /\ logouts' \in [Logouts -> Call]
  BY <1>1 DEF PageShape, Guest, Call, IInv, TypeOK
<1>3. me = Idle
  BY <1>1, MeIsIdle
<1> QED
  BY <1>1, <1>2, <1>3, IdleFacts, SignedOut

\* The answer of the wallet's logout only clears the cookie.
LEMMA LoggedOutStep ==
  ASSUME IInv, NEW k \in Logouts, LoggedOut(k)
  PROVE  IInv'
<1>1. /\ logouts[k] # Idle /\ me = Idle /\ cookie' = None
      /\ logouts' = [logouts EXCEPT ![k] = Idle]
      /\ UNCHANGED <<disturbed, challenges, sessions, drawn, me>>
  <2>1. logouts[k] # Idle
    BY IdleFacts DEF LoggedOut
  <2> QED
    BY <2>1, MeIsIdle DEF LoggedOut, server
<1>2. logouts' \in [Logouts -> Call]
  BY <1>1, IdleFacts DEF IInv, TypeOK
<1>3. CASE k = "disconnect"
  <2>1. page' = Guest /\ read' = Idle /\ connecting' = Stale
    BY <1>3 DEF LoggedOut, NewGeneration, Dropped
  <2>2. page' \in PageShape
    BY <2>1 DEF PageShape, Guest
  <2> QED
    BY <1>1, <1>2, <2>1, <2>2, IdleFacts, SignedOut
<1>4. CASE k # "disconnect"
  <2>1. UNCHANGED <<page, read, connecting>>
    BY <1>4 DEF LoggedOut
  <2>2. TypeOK'
    BY <1>1, <1>2, <2>1 DEF IInv, TypeOK
  <2>3. ActsAsShown' /\ DataIsTheMembers' /\ RestoreInv' /\ ReadInv' /\ DrawnInv'
    BY <1>1, <2>1 DEF IInv, ActsAsShown, DataIsTheMembers, RestoreInv, ReadInv, DrawnInv
  <2>4. ConnectInv'
    BY <1>1, <2>1, SessionAssumption DEF IInv, TypeOK, ConnectInv
  <2> QED
    BY <2>2, <2>3, <2>4 DEF IInv
<1> QED
  BY <1>3, <1>4

LEMMA DemoStep ==
  ASSUME Patient, IInv, ExploreDemo \/ LeaveDemo
  PROVE  IInv'
<1>1. PICK m \in {"guest", "demo"} : page' = [page EXCEPT !.mode = m]
  BY DEF ExploreDemo, LeaveDemo, NewGeneration
<1>2. /\ page.mode # "member" /\ me = Idle
      /\ read' = Idle /\ connecting' \in {connecting, Stale}
      /\ UNCHANGED <<disturbed, challenges, sessions, drawn, cookie, me, logouts>>
  BY IdleFacts, MeIsIdle DEF ExploreDemo, LeaveDemo, NewGeneration, Dropped, Ready, server
<1>3. page.address = None /\ page.connection = None /\ page.data = None
  BY <1>2 DEF IInv, DataIsTheMembers
<1>4. /\ page'.mode = m /\ page'.address = None /\ page'.connection = None
      /\ page'.data = None /\ page' \in PageShape
  BY <1>1, <1>3 DEF PageShape, IInv, TypeOK
<1>5. logouts' \in [Logouts -> Call]
  BY <1>2 DEF IInv, TypeOK
<1> QED
  BY <1>2, <1>4, <1>5, SignedOut

LEMMA ReloadStep ==
  ASSUME IInv, Reload
  PROVE  IInv'
<1>1. /\ page' = Guest /\ connecting' = Free /\ read' = Idle
      /\ me' = [token |-> cookie, reply |-> "none"]
      /\ logouts' = [k \in Logouts |-> Idle]
      /\ disturbed' = FALSE
      /\ UNCHANGED <<challenges, sessions, drawn, cookie>>
  BY DEF Reload, Sent, server
<1>2. TypeOK'
  BY <1>1, IdleFacts DEF IInv, TypeOK, Call, Guest, Free
<1>3. ActsAsShown' /\ DataIsTheMembers' /\ ReadInv'
  BY <1>1, IdleFacts DEF ActsAsShown, DataIsTheMembers, ReadInv
<1>4. RestoreInv'
  BY <1>1, SessionAssumption DEF RestoreInv
<1>5. ConnectInv' /\ DrawnInv'
  BY <1>1, IdleFacts DEF IInv, ConnectInv, DrawnInv
<1> QED
  BY <1>2, <1>3, <1>4, <1>5 DEF IInv

-----------------------------------------------------------------------------
(* Other tabs.                                                             *)

\* The nonce of another tab's sign-in is not the one this page signs.
LEMMA SignInElsewhereStep ==
  ASSUME IInv, NEW n \in Nonces, NEW w \in Wallets, SignInElsewhere(n, w)
  PROVE  IInv'
<1>1. /\ n \notin drawn /\ drawn' = drawn \cup {n} /\ cookie' = n
      /\ sessions' = [sessions EXCEPT ![n] = w] /\ disturbed' = TRUE
      /\ UNCHANGED <<challenges, page, connecting, me, read, logouts>>
  BY DEF SignInElsewhere, calls
<1>2. /\ \A m \in Nonces : sessions'[m] = IF m = n THEN w ELSE sessions[m]
      /\ challenges[n] = None
  BY <1>1 DEF IInv, TypeOK, DrawnInv
<1>3. TypeOK'
  <2>1. \A m \in Nonces : sessions'[m] # None => challenges'[m] = None
    BY <1>1, <1>2 DEF IInv, TypeOK
  <2> QED
    BY <1>1, <2>1 DEF IInv, TypeOK
<1>4. ActsAsShown' /\ DataIsTheMembers' /\ RestoreInv' /\ ReadInv'
  BY <1>1 DEF IInv, ActsAsShown, DataIsTheMembers, RestoreInv, ReadInv
<1>5. ConnectInv'
  BY <1>1, <1>2 DEF IInv, TypeOK, ConnectInv
<1>6. DrawnInv'
  BY <1>1, <1>2 DEF IInv, DrawnInv
<1> QED
  BY <1>3, <1>4, <1>5, <1>6 DEF IInv

\* The session another tab ends is one session less.
LEMMA SignOutElsewhereStep ==
  ASSUME IInv, SignOutElsewhere
  PROVE  IInv'
<1>1. /\ cookie \in Nonces /\ cookie' = None
      /\ sessions' = [sessions EXCEPT ![cookie] = None] /\ disturbed' = TRUE
      /\ UNCHANGED <<challenges, drawn, page, connecting, me, read, logouts>>
  BY DEF SignOutElsewhere, calls, IInv, TypeOK
<1>2. /\ \A m \in Nonces : sessions'[m] \in {None, sessions[m]}
      /\ sessions' \in [Nonces -> Wallets \cup {None}]
  BY <1>1 DEF IInv, TypeOK
<1>3. TypeOK'
  BY <1>1, <1>2 DEF IInv, TypeOK
<1>4. ActsAsShown' /\ DataIsTheMembers' /\ RestoreInv' /\ ReadInv'
  BY <1>1 DEF IInv, ActsAsShown, DataIsTheMembers, RestoreInv, ReadInv
<1>5. ConnectInv'
  BY <1>1, <1>2, SessionAssumption, IdleFacts DEF IInv, TypeOK, ConnectInv
<1>6. DrawnInv'
  BY <1>1, <1>2 DEF IInv, DrawnInv
<1> QED
  BY <1>3, <1>4, <1>5, <1>6 DEF IInv

-----------------------------------------------------------------------------
\* Every step of the specification preserves the invariant.
LEMMA NextInv ==
  ASSUME Patient, IInv, [Next]_vars
  PROVE  IInv'
<1>1. CASE UNCHANGED vars
  BY <1>1 DEF vars, IInv, TypeOK, ActsAsShown, DataIsTheMembers, RestoreInv, ConnectInv,
              ReadInv, DrawnInv
<1>2. CASE Next
  BY <1>2, ServeMeStep, ServeReadStep, ChallengeStep, VerifyStep, EndOfSessionStep,
     ClickConnectStep, SignMessageStep, ConnectedStep, EndConnectStep, RestoredStep,
     PollStep, RefreshedStep, LoseStep, AccountChangeStep, LoggedOutStep, DemoStep,
     ReloadStep, SignInElsewhereStep, SignOutElsewhereStep DEF Next
<1> QED
  BY <1>1, <1>2

THEOREM Inductive ==
  ASSUME Patient
  PROVE  Spec => []IInv
<1>1. IInv /\ [Next]_vars => IInv'
  BY NextInv
<1> QED
  BY InitInv, <1>1, PTL DEF Spec

\* For any number of accounts and sign-ins: a challenge that granted a session
\* is gone, and the variables have their types.
THEOREM ChallengesAreSingleUse ==
  ASSUME Patient
  PROVE  Spec => []TypeOK
<1>1. IInv => TypeOK
  BY DEF IInv
<1> QED
  BY Inductive, <1>1, PTL

\* A visitor who waits for the restored session never sees a page that names
\* one member and is answered as another.
THEOREM PageActsAsShown ==
  ASSUME Patient
  PROVE  Spec => []ActsAsShown
<1>1. IInv => ActsAsShown
  BY DEF IInv
<1> QED
  BY Inductive, <1>1, PTL

\* Nor the balance and activity of another member, and none when signed out.
THEOREM PageShowsOwnData ==
  ASSUME Patient
  PROVE  Spec => []DataIsTheMembers
<1>1. IInv => DataIsTheMembers
  BY DEF IInv
<1> QED
  BY Inductive, <1>1, PTL

-----------------------------------------------------------------------------
(* What needs no patient visitor.                                          *)

SignedOutIsBlank == page.mode # "member" => page.data = None

BlankInv ==
    /\ page = [mode |-> page.mode, address |-> page.address,
               connection |-> page.connection, data |-> page.data]
    /\ SignedOutIsBlank
    /\ read # Idle => page.mode = "member"

LEMMA BlankNext ==
  ASSUME SessionAssumption, BlankInv, [Next]_vars
  PROVE  BlankInv'
<1>1. CASE UNCHANGED <<page, read>>
  BY <1>1 DEF BlankInv, SignedOutIsBlank
<1>2. CASE page' = page /\ (read' = Idle \/ page.mode = "member")
  BY <1>2 DEF BlankInv, SignedOutIsBlank
<1>3. CASE read' = Idle /\ (page' = Guest \/ ExploreDemo \/ LeaveDemo)
  BY <1>3 DEF BlankInv, SignedOutIsBlank, Guest, ExploreDemo, LeaveDemo, NewGeneration
<1>4. CASE Connected
  BY <1>4 DEF Connected, Shown, BlankInv, SignedOutIsBlank
<1>5. CASE Restored
  BY <1>5 DEF Restored, NewGeneration, Dropped, BlankInv, SignedOutIsBlank
<1>6. CASE Refreshed
  <2>1. page.mode = "member" /\ read' = Idle
    BY <1>6 DEF Refreshed, Idle, BlankInv
  <2> QED
    BY <1>6, <2>1 DEF Refreshed, Guest, BlankInv, SignedOutIsBlank
<1>7. CASE ServeRead
  BY <1>7 DEF ServeRead, Idle, BlankInv, SignedOutIsBlank
<1> QED
  <2>1. CASE \/ ServeMe \/ Verify \/ SignMessage \/ EndConnect \/ ClickDisconnect \/ SignOutElsewhere
             \/ \E k \in Logouts : ServeLogout(k)
             \/ \E n \in Nonces : Challenge(n) \/ Expire(n)
             \/ \E w \in Wallets : ClickConnect(w)
             \/ \E n \in Nonces, w \in Wallets : SignInElsewhere(n, w)
             \/ UNCHANGED vars
    BY <1>1, <2>1 DEF ServeMe, Verify, SignMessage, EndConnect, ClickDisconnect, SignOutElsewhere,
       ServeLogout, Challenge, Expire, ClickConnect, SignInElsewhere, server, calls, vars
  <2>2. CASE Poll \/ Lose
    BY <1>1, <1>2, <2>2 DEF Poll, Lose
  <2>3. CASE AccountChange \/ ExploreDemo \/ LeaveDemo \/ Reload \/ \E k \in Logouts : LoggedOut(k)
    BY <1>1, <1>3, <2>3 DEF AccountChange, ExploreDemo, LeaveDemo, Reload, LoggedOut,
       NewGeneration, Dropped
  <2> QED
    BY <1>4, <1>5, <1>6, <1>7, <2>1, <2>2, <2>3 DEF Next

\* A page that is signed out shows nobody's balance and activity, for any
\* visitor and whatever other tabs do: the generations of useOrbit see to it.
THEOREM NobodysDataIsShown == Spec => []SignedOutIsBlank
<1>1. Init => BlankInv
  BY DEF Init, BlankInv, SignedOutIsBlank, Guest
<1>2. BlankInv /\ [Next]_vars => BlankInv'
  BY BlankNext, SessionAssumption
<1>3. BlankInv => SignedOutIsBlank
  BY DEF BlankInv
<1> QED
  BY <1>1, <1>2, <1>3, PTL DEF Spec
=============================================================================
