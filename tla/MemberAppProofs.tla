--------------------------- MODULE MemberAppProofs ---------------------------
(***************************************************************************)
(* Theorems about MemberApp for every value of its constants.              *)
(*                                                                         *)
(* IInv is split by what it is about: the screen (UiInv), whose claim is   *)
(* on it, the state of useOrbit with its calls (OrbitInv), the ledger, and *)
(* the demo.  Lemmas about the stack of dialogs come first.                *)
(***************************************************************************)
EXTENDS MemberApp, FiniteSums, TLAPS

-----------------------------------------------------------------------------
(* The stack of dialogs.                                                   *)

Stack(s) == s \in Seq(Dialogs) /\ IsInjective(s)

\* The top dialog is taken off.
LEMMA FrontOfStack ==
  ASSUME NEW s, Stack(s), s # <<>>
  PROVE  /\ Stack(Front(s))
         /\ Range(Front(s)) \subseteq Range(s)
         /\ \A d \in Range(s) : d = Last(s) \/ d \in Range(Front(s))
<1>1. /\ s \in Seq(Dialogs) /\ Len(s) \in Nat \ {0} /\ DOMAIN s = 1..Len(s)
      /\ \A i, j \in 1..Len(s) : s[i] = s[j] => i = j
  BY DEF Stack, IsInjective
<1>2. /\ Front(s) \in Seq(Dialogs) /\ DOMAIN Front(s) = 1..(Len(s) - 1)
      /\ \A i \in 1..(Len(s) - 1) : Front(s)[i] = s[i]
  BY <1>1 DEF Front
<1> QED
  BY <1>1, <1>2 DEF Stack, IsInjective, Range, Last

\* A dialog that is mounted goes on top.
LEMMA AppendToStack ==
  ASSUME NEW s, Stack(s), NEW d \in Dialogs, d \notin Range(s)
  PROVE  Stack(Append(s, d)) /\ Range(Append(s, d)) = Range(s) \cup {d}
<1>1. /\ s \in Seq(Dialogs) /\ Len(s) \in Nat /\ DOMAIN s = 1..Len(s)
      /\ \A i, j \in 1..Len(s) : s[i] = s[j] => i = j
      /\ \A i \in 1..Len(s) : s[i] # d
  BY DEF Stack, IsInjective, Range
<1>2. /\ Append(s, d) \in Seq(Dialogs) /\ DOMAIN Append(s, d) = 1..(Len(s) + 1)
      /\ \A i \in 1..Len(s) : Append(s, d)[i] = s[i]
      /\ Append(s, d)[Len(s) + 1] = d
  BY <1>1
<1> QED
  BY <1>1, <1>2 DEF Stack, IsInjective, Range

\* A dialog that is unmounted is taken out, wherever it is.
LEMMA RemoveFromStack ==
  ASSUME NEW s, Stack(s), NEW d \in Dialogs
  PROVE  /\ Stack(RemoveFirst(s, d))
         /\ Range(RemoveFirst(s, d)) = Range(s) \ {d}
<1>1. /\ s \in Seq(Dialogs) /\ Len(s) \in Nat /\ DOMAIN s = 1..Len(s)
      /\ \A i, j \in 1..Len(s) : s[i] = s[j] => i = j
  BY DEF Stack, IsInjective
<1>2. CASE ~ \E i \in 1..Len(s) : s[i] = d
  BY <1>1, <1>2 DEF RemoveFirst, Range
<1>3. CASE \E i \in 1..Len(s) : s[i] = d
  <2>1. PICK k \in 1..Len(s) : s[k] = d
    BY <1>3
  <2>2. SelectInSeq(s, LAMBDA v : v = d) = k
    <3>1. {i \in 1..Len(s) : s[i] = d} = {k}
      BY <1>1, <2>1
    <3>2. Min({k}) = k
      BY <2>1 DEF Min
    <3> QED
      BY <3>1, <3>2 DEF SelectInSeq
  <2> DEFINE a == SubSeq(s, 1, k - 1)
             b == SubSeq(s, k + 1, Len(s))
  <2>3. RemoveFirst(s, d) = a \o b
    BY <1>3, <2>2 DEF RemoveFirst, RemoveAt
  <2>4. a \in Seq(Dialogs) /\ Len(a) = k - 1 /\ \A i \in 1..(k - 1) : a[i] = s[i]
    BY <1>1, <2>1
  <2>5. b \in Seq(Dialogs) /\ Len(b) = Len(s) - k /\ \A i \in 1..(Len(s) - k) : b[i] = s[k + i]
    <3> HIDE DEF a
    <3>1. /\ s \in Seq(Dialogs) /\ Len(s) \in Nat /\ k \in Nat /\ k <= Len(s)
          /\ \A i \in (k + 1)..Len(s) : s[i] \in Dialogs
      BY <1>1, <2>1
    <3>2. b \in Seq(Dialogs) /\ Len(b) = Len(s) - k
      <4>1. b \in Seq(Dialogs)
        BY <3>1
      <4>2. Len(b) = Len(s) - k
        BY <3>1
      <4> QED
        BY <4>1, <4>2
    <3>3. \A i \in 1..(Len(s) - k) : b[i] = s[k + i]
      BY <1>1, <2>1
    <3> QED
      BY <3>2, <3>3
  <2> HIDE DEF a, b
  <2>6. /\ a \o b \in Seq(Dialogs) /\ Len(a \o b) = Len(s) - 1 /\ DOMAIN (a \o b) = 1..(Len(s) - 1)
        /\ \A i \in 1..(Len(s) - 1) : (a \o b)[i] = IF i <= k - 1 THEN a[i] ELSE b[i - (k - 1)]
    <3>1. a \in Seq(Dialogs) /\ b \in Seq(Dialogs)
      BY <2>4, <2>5
    <3>2. /\ a \o b \in Seq(Dialogs) /\ Len(a \o b) = Len(a) + Len(b)
          /\ \A i \in 1..(Len(a) + Len(b)) :
                (a \o b)[i] = IF i <= Len(a) THEN a[i] ELSE b[i - Len(a)]
      BY <3>1
    <3>3. Len(a) + Len(b) = Len(s) - 1 /\ DOMAIN (a \o b) = 1..Len(a \o b)
      BY <1>1, <2>1, <2>4, <2>5, <3>2
    <3> QED
      BY <2>4, <3>2, <3>3
  <2>7. \A i \in 1..(Len(s) - 1) : (a \o b)[i] = s[IF i < k THEN i ELSE i + 1]
    <3> TAKE i \in 1..(Len(s) - 1)
    <3>1. CASE i < k
      <4>1. i \in 1..(k - 1) /\ i <= k - 1
        BY <1>1, <2>1, <3>1
      <4> QED
        BY <2>4, <2>6, <3>1, <4>1
    <3>2. CASE ~(i < k)
      <4>1. i - (k - 1) \in 1..(Len(s) - k) /\ k + (i - (k - 1)) = i + 1 /\ ~(i <= k - 1)
        BY <1>1, <2>1, <3>2
      <4>2. (a \o b)[i] = b[i - (k - 1)]
        BY <2>6, <4>1
      <4>3. b[i - (k - 1)] = s[i + 1]
        BY <2>5, <4>1
      <4> QED
        BY <3>2, <4>2, <4>3
    <3> QED
      BY <3>1, <3>2
  <2> DEFINE t == a \o b
  <2>8. /\ t \in Seq(Dialogs) /\ DOMAIN t = 1..(Len(s) - 1)
        /\ \A i \in 1..(Len(s) - 1) : t[i] = s[IF i < k THEN i ELSE i + 1]
    BY <2>6, <2>7
  <2> HIDE DEF t
  <2>9. IsInjective(t)
    BY <1>1, <2>1, <2>8 DEF IsInjective
  <2>10. ASSUME NEW i \in 1..(Len(s) - 1) PROVE t[i] \in Range(s) \ {d}
    <3> DEFINE j == IF i < k THEN i ELSE i + 1
    <3>1. j \in 1..Len(s) /\ j # k
      BY <1>1, <2>1
    <3>2. t[i] = s[j]
      BY <2>8
    <3> HIDE DEF j
    <3>3. s[j] # d
      BY <1>1, <2>1, <3>1
    <3> QED
      BY <1>1, <3>1, <3>2, <3>3 DEF Range
  <2>11. ASSUME NEW i \in 1..Len(s), s[i] # d PROVE s[i] \in Range(t)
    <3>1. CASE i < k
      BY <1>1, <2>1, <2>8, <3>1 DEF Range
    <3>2. CASE i > k
      <4>1. i - 1 \in 1..(Len(s) - 1) /\ ~(i - 1 < k) /\ (i - 1) + 1 = i
        BY <1>1, <2>1, <3>2
      <4> QED
        BY <2>8, <4>1 DEF Range
    <3> QED
      BY <1>1, <2>1, <2>11, <3>1, <3>2
  <2>12. Range(t) = Range(s) \ {d}
    BY <1>1, <2>8, <2>10, <2>11 DEF Range
  <2> QED
    BY <2>3, <2>8, <2>9, <2>12 DEF Stack, t
<1> QED
  BY <1>2, <1>3

\* What a render does to one dialog, and to all three.
LEMMA ShownStack ==
  ASSUME NEW s, Stack(s), NEW d \in Dialogs, d \in Range(s) => d \in Mounted(wanted), NEW w
  PROVE  LET t == Shown(s, d, w) IN
         /\ Stack(t)
         /\ \A e \in Dialogs \ {d} : e \in Range(t) <=> e \in Range(s)
         /\ d \in Range(t) <=> d \in Mounted(w) /\ (d \in Mounted(wanted) => d \in Range(s))
<1>1. CASE d \notin Mounted(w)
  BY <1>1, RemoveFromStack DEF Shown
<1>2. CASE d \in Mounted(w) /\ d \in Mounted(wanted)
  BY <1>2 DEF Shown
<1>3. CASE d \in Mounted(w) /\ d \notin Mounted(wanted)
  BY <1>3, AppendToStack DEF Shown
<1> QED
  BY <1>1, <1>2, <1>3

LEMMA RenderedStack ==
  ASSUME Stack(open), Range(open) \subseteq Mounted(wanted), NEW w
  PROVE  /\ Stack(Rendered(w))
         /\ Range(Rendered(w)) \subseteq Dialogs
         /\ \A d \in Dialogs :
               d \in Range(Rendered(w))
               <=> d \in Mounted(w) /\ (d \in Mounted(wanted) => d \in Range(open))
<1> DEFINE s1 == Shown(open, "wallet", w)
           s2 == Shown(s1, "reward", w)
           s3 == Shown(s2, "claim", w)
<1>1. /\ Stack(s1)
      /\ \A e \in Dialogs \ {"wallet"} : e \in Range(s1) <=> e \in Range(open)
      /\ "wallet" \in Range(s1)
         <=> "wallet" \in Mounted(w) /\ ("wallet" \in Mounted(wanted) => "wallet" \in Range(open))
  BY ShownStack DEF Dialogs
<1> HIDE DEF s1
<1>2. /\ Stack(s2)
      /\ \A e \in Dialogs \ {"reward"} : e \in Range(s2) <=> e \in Range(s1)
      /\ "reward" \in Range(s2)
         <=> "reward" \in Mounted(w) /\ ("reward" \in Mounted(wanted) => "reward" \in Range(s1))
  <2>1. "reward" \in Range(s1) => "reward" \in Mounted(wanted)
    BY <1>1 DEF Dialogs
  <2> QED
    BY <1>1, <2>1, ShownStack DEF Dialogs
<1> HIDE DEF s2
<1>3. /\ Stack(s3)
      /\ \A e \in Dialogs \ {"claim"} : e \in Range(s3) <=> e \in Range(s2)
      /\ "claim" \in Range(s3)
         <=> "claim" \in Mounted(w) /\ ("claim" \in Mounted(wanted) => "claim" \in Range(s2))
  <2>1. "claim" \in Range(s2) => "claim" \in Mounted(wanted)
    BY <1>1, <1>2 DEF Dialogs
  <2> QED
    BY <1>2, <2>1, ShownStack DEF Dialogs
<1>4. s3 = Rendered(w)
  BY DEF Rendered, s1, s2
<1> HIDE DEF s3
<1>5. Range(s3) \subseteq Dialogs
  BY <1>3 DEF Stack, Range
<1>6. "wallet" \in Dialogs /\ "reward" \in Dialogs /\ "claim" \in Dialogs
  BY DEF Dialogs
<1>7. \A d \in Dialogs :
        d \in Range(s3) <=> d \in Mounted(w) /\ (d \in Mounted(wanted) => d \in Range(open))
  BY <1>1, <1>2, <1>3, <1>6 DEF Dialogs
<1> QED
  BY <1>3, <1>4, <1>5, <1>7

-----------------------------------------------------------------------------
(* The parts of IInv.                                                      *)

UiInv ==
    /\ page \in Pages /\ wanted \in Wanted
    /\ Stack(open) /\ Range(open) \subseteq Mounted(wanted)
    /\ ClaimIsVisible

OrbitType == [mode : {"guest", "demo", "member"}, address : Accounts \cup {None},
              connection : Accounts \cup {None},
              data : [points : Nat \cup {None}, activity : Op] \cup {None},
              program : BOOLEAN, loading : BOOLEAN, error : BOOLEAN, refreshError : BOOLEAN]
Reads == [balance : BOOLEAN, activity : BOOLEAN, failed : BOOLEAN]
ReadType == Reads \cup {None}
KnownType == [balance : BOOLEAN, activity : BOOLEAN]

OrbitInv ==
    /\ orbit \in OrbitType
    /\ orbit.address \in IF orbit.mode = "member" THEN Accounts ELSE {None}
    /\ orbit.connection \in {None, orbit.address}
    /\ orbit.data # None => orbit.mode = "member"
    /\ call \in Calls /\ read \in ReadType /\ leaving \in BOOLEAN /\ known \in KnownType
    /\ MemberInv /\ KnownInv

ServerInv == ledger \in [Accounts -> [points : Nat, op : Op]] /\ LedgerInv
DemoInv == demo \in [points : Nat, taken : [Rewards -> Nat]] /\ DemoAddsUp

LEMMA InvParts ==
  IInv <=> UiInv /\ OrbitInv /\ RefreshInv /\ ServerInv /\ DemoInv /\ ClaimIsTheMembers
BY DEF IInv, TypeOK, UiInv, OrbitInv, OrbitType, Reads, ReadType, KnownType, ServerInv, DemoInv, Stack

\* After a render the screen shows every dialog App has just begun to render,
\* on top of those that were on it and stay.
LEMMA RenderKeepsUi ==
  ASSUME UiInv, page' \in Pages, wanted' \in Wanted, open' = Rendered(wanted')
  PROVE  UiInv'
<1>1. /\ Stack(open') /\ Range(open') \subseteq Dialogs
      /\ \A d \in Dialogs :
            d \in Range(open')
            <=> d \in Mounted(wanted') /\ (d \in Mounted(wanted) => d \in Range(open))
  BY RenderedStack DEF UiInv
<1>2. Range(open') \subseteq Mounted(wanted')
  BY <1>1
<1>3. ClaimIsVisible'
  <2> SUFFICES ASSUME wanted'.claim # None PROVE "claim" \in Range(open')
    BY DEF ClaimIsVisible
  <2>1. "claim" \in Dialogs /\ "claim" \in Mounted(wanted')
    BY DEF Mounted, Dialogs
  <2>2. "claim" \in Mounted(wanted) => "claim" \in Range(open)
    BY DEF Mounted, UiInv, ClaimIsVisible
  <2> QED
    BY <1>1, <2>1, <2>2
<1>4. Mounted(wanted)' = Mounted(wanted') /\ Stack(open)' = Stack(open') /\ Range(open)' = Range(open')
  BY DEF Mounted, Stack, Range
<1> QED
  BY <1>1, <1>2, <1>3, <1>4 DEF UiInv

LEMMA DiscardType ==
  ASSUME NEW w \in Wanted
  PROVE  Discard(w) \in Wanted /\ Discard(w).claim \in {None, w.claim}
BY DEF Discard, Wanted

-----------------------------------------------------------------------------
(* The screen.                                                             *)

\* A render shows only a claim of the page's owner: with another owner, or
\* none, the claim is discarded.
LEMMA RenderStep ==
  ASSUME UiInv, page' \in Pages, NEW w \in Wanted, w.claim \in {None, Owner}, Render(w)
  PROVE  UiInv' /\ ClaimIsTheMembers'
<1>1. wanted' = Discard(w) /\ open' = Rendered(wanted')
  BY DEF Render
<1>2. UiInv'
  BY <1>1, DiscardType, RenderKeepsUi
<1>3. CASE <<orbit'.mode, orbit'.address>> # <<orbit.mode, orbit.address>>
  <2>1. wanted'.claim = None
    BY <1>1, <1>3 DEF Discard, Wanted
  <2> QED
    BY <1>2, <2>1 DEF ClaimIsTheMembers
<1>4. CASE <<orbit'.mode, orbit'.address>> = <<orbit.mode, orbit.address>>
  <2>1. Owner' = Owner
    BY <1>4 DEF Owner
  <2>2. wanted' = w
    BY <1>1, <1>4 DEF Discard
  <2> QED
    BY <1>2, <2>1, <2>2 DEF ClaimIsTheMembers
<1> QED
  BY <1>3, <1>4

\* Steps that leave the screen alone keep the mode and the address.
ScreenStays == UNCHANGED ui /\ orbit'.mode = orbit.mode /\ orbit'.address = orbit.address

Rerenders ==
    /\ page' \in Pages
    /\ \E w \in Wanted : w.claim \in {None, Owner} /\ Render(w)

LEMMA ScreenOfVisitor ==
  ASSUME IInv, Visitor
  PROVE  \/ ScreenStays
         \/ Rerenders
         \/ \E p \in Visited : Navigate(p)
         \/ \E d \in Dialogs : CloseDialog(d) \/ Escape(d)
         \/ Reload
<1>0. /\ page \in Pages /\ wanted \in Wanted /\ wanted.claim \in {None, Owner}
      /\ orbit \in OrbitType /\ Owner \in Accounts \cup {"demo", None}
  BY InvParts DEF UiInv, OrbitInv, ClaimIsTheMembers, Owner, OrbitType
<1>1. ASSUME NEW w \in Wanted, w.claim \in {None, wanted.claim, Owner}, page' \in Pages, Render(w)
      PROVE  Rerenders
  BY <1>0, <1>1 DEF Rerenders
<1>2. \A b \in BOOLEAN : /\ [wanted EXCEPT !.wallet = b] \in Wanted
                         /\ [wanted EXCEPT !.wallet = b].claim = wanted.claim
  BY <1>0 DEF Wanted
<1>3. \A r \in Rewards \cup {None} : /\ [wanted EXCEPT !.reward = r] \in Wanted
                                     /\ [wanted EXCEPT !.reward = r].claim = wanted.claim
  BY <1>0 DEF Wanted
<1>4. /\ [wanted EXCEPT !.claim = Owner] \in Wanted
      /\ [wanted EXCEPT !.claim = Owner].claim = Owner
  BY <1>0 DEF Wanted
<1>6. CASE HeaderConnect \/ PageConnect
  <2>1. page' = page /\ Render([wanted EXCEPT !.wallet = TRUE])
    BY <1>6 DEF HeaderConnect, PageConnect, OpenWallet
  <2> QED
    BY <1>0, <1>1, <1>2, <2>1
<1>7. CASE DismissError \/ ClickDisconnect
  BY <1>0, <1>7 DEF DismissError, ClickDisconnect, ScreenStays, Quiet, OrbitType
<1>8. CASE ResumeReward
  <2>1. PICK r \in Rewards : page' = page /\ Render([wanted EXCEPT !.reward = r])
    BY <1>8 DEF ResumeReward, Catalog
  <2> QED
    BY <1>0, <1>1, <1>3, <2>1
<1>9. CASE ViewClaim
  <2>1. page' = page /\ Render([wanted EXCEPT !.claim = Owner])
    BY <1>9 DEF ViewClaim
  <2> QED
    BY <1>0, <1>1, <1>4, <2>1
<1>10. ASSUME NEW r \in Rewards, SelectReward(r) PROVE Rerenders
  <2>1. page' = page /\ Render([wanted EXCEPT !.reward = r])
    BY <1>10 DEF SelectReward
  <2> QED
    BY <1>0, <1>1, <1>3, <2>1
<1>11. ASSUME NEW r \in Rewards, RedeemSample(r) PROVE ScreenStays \/ Rerenders
  <2>1. CASE demo.points < Price[r]
    BY <1>0, <1>11, <2>1 DEF RedeemSample, ScreenStays, ui, OrbitType
  <2>2. CASE ~(demo.points < Price[r])
    <3> DEFINE w == [[wanted EXCEPT !.reward = None] EXCEPT !.claim = "demo"]
    <3>1. w \in Wanted /\ w.claim = "demo"
      BY <1>0 DEF Wanted
    <3>2. page' = page /\ Render(w) /\ Owner = "demo"
      BY <1>11, <2>2 DEF RedeemSample, Owner
    <3> HIDE DEF w
    <3> QED
      BY <1>0, <1>1, <3>1, <3>2
  <2> QED
    BY <2>1, <2>2
<1>12. ASSUME NEW r \in Rewards, Redeem(r) PROVE ScreenStays
  BY <1>0, <1>12 DEF Redeem, ScreenStays, OrbitType
<1>13. CASE ConnectForReward
  <2> DEFINE w == [[wanted EXCEPT !.reward = None] EXCEPT !.wallet = TRUE]
  <2>1. w \in Wanted /\ w.claim = wanted.claim
    BY <1>0 DEF Wanted
  <2>2. page' = page /\ Render(w)
    BY <1>13 DEF ConnectForReward, OpenWallet
  <2> HIDE DEF w
  <2> QED
    BY <1>0, <1>1, <2>1, <2>2
<1>14. CASE ExploreDemo \/ ExploreFromDialog \/ LeaveDemo \/ AccountChange
  <2>1. page' = page /\ (Render(wanted) \/ Render([wanted EXCEPT !.wallet = FALSE]))
    BY <1>14 DEF ExploreDemo, ExploreFromDialog, LeaveDemo, DemoEntered, AccountChange
  <2> QED
    BY <1>0, <1>1, <1>2, <2>1
<1>15. ASSUME NEW a \in Accounts, ChooseWallet(a) PROVE ScreenStays
  BY <1>0, <1>15 DEF ChooseWallet, ScreenStays, Quiet, OrbitType
<1> QED
  BY <1>6, <1>7, <1>8, <1>9, <1>10, <1>11, <1>12, <1>13, <1>14, <1>15 DEF Visitor

LEMMA ScreenOfAnswers ==
  ASSUME IInv, [Next]_vars, ~Visitor
  PROVE  ScreenStays \/ Rerenders
<1>0. /\ page \in Pages /\ wanted \in Wanted /\ wanted.claim \in {None, Owner}
      /\ orbit \in OrbitType /\ Owner \in Accounts \cup {"demo", None}
  BY InvParts DEF UiInv, OrbitInv, ClaimIsTheMembers, Owner, OrbitType
<1>1. ASSUME NEW w \in Wanted, w.claim \in {None, wanted.claim, Owner}, page' \in Pages, Render(w)
      PROVE  Rerenders
  BY <1>0, <1>1 DEF Rerenders
<1>2. CASE Connected \/ SessionExpired \/ LoggedOut
  <2>1. page' = page /\ Render(wanted)
    BY <1>2 DEF Connected, SessionExpired, LoggedOut
  <2> QED
    BY <1>0, <1>1, <2>1
<1>3. CASE ConnectEnds
  <2>1. page' = page /\ Render([wanted EXCEPT !.wallet = FALSE])
    BY <1>3 DEF ConnectEnds
  <2>2. /\ [wanted EXCEPT !.wallet = FALSE] \in Wanted
        /\ [wanted EXCEPT !.wallet = FALSE].claim = wanted.claim
    BY <1>0 DEF Wanted
  <2> QED
    BY <1>0, <1>1, <2>1, <2>2
<1>4. CASE RedeemEnds
  <2>1. CASE ~call.fresh
    BY <1>0, <1>4, <2>1 DEF RedeemEnds, ScreenStays
  <2>2. CASE call.fresh /\ call.pc = "claim"
    <3> DEFINE w == [[wanted EXCEPT !.reward = None] EXCEPT !.claim = call.who]
    <3>1. call.who = Owner
      BY <1>4, <2>2, InvParts DEF OrbitInv, MemberInv, RedeemEnds, Owner
    <3>2. w \in Wanted /\ w.claim = Owner
      <4> HIDE DEF Owner
      <4> QED
        BY <1>0, <3>1 DEF Wanted
    <3>3. page' = page /\ Render(w)
      BY <1>4, <2>2 DEF RedeemEnds
    <3> HIDE DEF w
    <3> QED
      BY <1>0, <1>1, <3>2, <3>3
  <2>3. CASE call.fresh /\ call.pc # "claim"
    <3>1. page' = "Activity" /\ Render([wanted EXCEPT !.reward = None])
      BY <1>4, <2>3 DEF RedeemEnds
    <3>2. /\ [wanted EXCEPT !.reward = None] \in Wanted
          /\ [wanted EXCEPT !.reward = None].claim = wanted.claim
      BY <1>0 DEF Wanted
    <3>3. page' \in Pages
      BY <3>1 DEF Pages
    <3> QED
      BY <1>0, <1>1, <3>1, <3>2, <3>3
  <2> QED
    BY <2>1, <2>2, <2>3
<1>5. CASE Prepared \/ SignBurn \/ Submitted \/ CallFails \/ Poll \/ LogoutFails
  BY <1>0, <1>5
     DEF Prepared, SignBurn, Submitted, CallFails, Poll, LogoutFails, ScreenStays, OrbitType
<1>6. ASSUME NEW ok \in BOOLEAN, NEW stored \in BOOLEAN,
             BalanceRead(ok) \/ ActivityRead(ok, stored) \/ ProgramLoads(ok)
      PROVE  ScreenStays
  BY <1>0, <1>6 DEF BalanceRead, ActivityRead, ProgramLoads, Reported, ScreenStays, OrbitType
<1>7. ASSUME NEW a \in Accounts, OperationMoves(a) PROVE ScreenStays
  BY <1>0, <1>7 DEF OperationMoves, ScreenStays
<1>8. CASE UNCHANGED vars
  BY <1>8 DEF vars, ScreenStays, ui
<1> QED
  BY <1>2, <1>3, <1>4, <1>5, <1>6, <1>7, <1>8 DEF Next

LEMMA SameScreen ==
  ASSUME UiInv, ClaimIsTheMembers, page' \in Pages, UNCHANGED <<wanted, open>>, Owner' = Owner
  PROVE  UiInv' /\ ClaimIsTheMembers'
<1>1. Mounted(wanted)' = Mounted(wanted) /\ Stack(open)' = Stack(open) /\ Range(open)' = Range(open)
  BY DEF Mounted, Stack, Range
<1>2. ClaimIsVisible' /\ ClaimIsTheMembers'
  BY <1>1 DEF UiInv, ClaimIsVisible, ClaimIsTheMembers
<1> QED
  BY <1>1, <1>2 DEF UiInv

LEMMA ScreenStep ==
  ASSUME IInv, [Next]_vars
  PROVE  UiInv' /\ ClaimIsTheMembers'
<1>0. UiInv /\ ClaimIsTheMembers /\ OrbitInv
  BY InvParts
<1>1. CASE ScreenStays
  <2>1. page' = page /\ UNCHANGED <<wanted, open>> /\ Owner' = Owner
    BY <1>1 DEF ScreenStays, ui, Owner
  <2> QED
    BY <1>0, <2>1, SameScreen DEF UiInv
<1>2. CASE Rerenders
  BY <1>0, <1>2, RenderStep DEF Rerenders
<1>3. ASSUME NEW p \in Visited, Navigate(p) PROVE UiInv' /\ ClaimIsTheMembers'
  <2>1. page' \in Pages /\ UNCHANGED <<wanted, open>> /\ Owner' = Owner
    BY <1>3, AppAssumption DEF Navigate, Owner
  <2> QED
    BY <1>0, <2>1, SameScreen
<1>4. ASSUME NEW d \in Dialogs, CloseDialog(d) \/ Escape(d) PROVE UiInv' /\ ClaimIsTheMembers'
  <2>1. /\ page' = page /\ wanted' = CloseOf(d) /\ Owner' = Owner
        /\ open # <<>> /\ d = Last(open)
    BY <1>4 DEF CloseDialog, Escape, Owner, OnTop
  <2>2. /\ CloseOf(d) \in Wanted /\ CloseOf(d).claim \in {None, wanted.claim}
        /\ d = "claim" => CloseOf(d).claim = None
        /\ Mounted(wanted) \ {d} \subseteq Mounted(CloseOf(d))
    BY <1>0 DEF UiInv, Wanted, CloseOf, Dialogs, Mounted
  <2>3. ClaimIsTheMembers'
    BY <1>0, <2>1, <2>2 DEF ClaimIsTheMembers
  <2>4. CASE CloseDialog(d)
    <3>1. open' = Rendered(wanted')
      BY <2>4 DEF CloseDialog
    <3>2. UiInv'
      BY <1>0, <2>1, <2>2, <3>1, RenderKeepsUi DEF UiInv
    <3> QED
      BY <2>3, <3>2
  <2>5. CASE Escape(d)
    <3>1. open' = Front(open)
      BY <2>5 DEF Escape
    <3>2. /\ Stack(open') /\ Range(open') \subseteq Range(open)
          /\ \A e \in Range(open) : e = d \/ e \in Range(open')
      BY <1>0, <2>1, <3>1, FrontOfStack DEF UiInv
    <3>3. Stack(open)' = Stack(open') /\ Range(open)' = Range(open') /\ Mounted(wanted)' = Mounted(wanted')
      BY DEF Stack, Range, Mounted
    <3>4. d \notin Range(open')
      <4>1. Front(open) \in Seq(Dialogs) /\ open \in Seq(Dialogs) /\ Len(open) \in Nat \ {0}
            /\ DOMAIN open = 1..Len(open)
        BY <1>0, <2>1, <3>1, <3>2 DEF UiInv, Stack
      <4>2. DOMAIN Front(open) = 1..(Len(open) - 1)
            /\ \A i \in 1..(Len(open) - 1) : Front(open)[i] = open[i]
        BY <4>1 DEF Front
      <4> QED
        BY <1>0, <2>1, <3>1, <4>1, <4>2 DEF Range, Last, UiInv, Stack, IsInjective
    <3>5. Range(open') \subseteq Mounted(wanted')
      BY <1>0, <2>1, <2>2, <3>2, <3>4 DEF UiInv
    <3>6. ClaimIsVisible'
      BY <1>0, <2>1, <2>2, <3>2, <3>3 DEF UiInv, ClaimIsVisible
    <3> QED
      BY <1>0, <2>1, <2>2, <2>3, <3>2, <3>3, <3>5, <3>6 DEF UiInv
  <2> QED
    BY <1>4, <2>4, <2>5
<1>5. CASE Reload
  <2>1. page' \in Pages /\ wanted' = Closed /\ open' = <<>>
    BY <1>5 DEF Reload, Pages
  <2>2. Closed \in Wanted /\ Stack(<<>>) /\ Range(<<>>) = {}
    BY DEF Closed, Wanted, Stack, IsInjective, Range
  <2>3. Stack(open)' = Stack(open') /\ Range(open)' = Range(open')
    BY DEF Stack, Range
  <2> QED
    BY <2>1, <2>2, <2>3 DEF UiInv, ClaimIsTheMembers, ClaimIsVisible, Closed
<1> QED
  BY <1>1, <1>2, <1>3, <1>4, <1>5, ScreenOfVisitor, ScreenOfAnswers

-----------------------------------------------------------------------------
(* The state of useOrbit and the calls under way.                          *)

ConnectCalls ==
    [kind : {"connect"}, pc : {"sign in", "refresh"}, of : {None}, who : Accounts,
     fresh : BOOLEAN]
RedeemCalls ==
    [kind : {"redeem"}, pc : {"prepare", "sign", "submit", "refresh", "claim"},
     of : Rewards, who : Accounts, fresh : BOOLEAN]

\* What the shape of a call says, and how it changes.
LEMMA CallShapes ==
  ASSUME call \in Calls
  PROVE  /\ call.fresh \in BOOLEAN
         /\ call = Free \/ call \in ConnectCalls \/ call \in RedeemCalls
         /\ Busy => [call EXCEPT !.fresh = FALSE] \in Calls
         /\ [call EXCEPT !.fresh = FALSE].fresh = FALSE
<1>1. call = Free \/ call \in ConnectCalls \/ call \in RedeemCalls
  BY DEF Calls, ConnectCalls, RedeemCalls
<1>2. CASE call = Free
  BY <1>2 DEF Free, Busy
<1>3. CASE call \in ConnectCalls
  <2>1. [call EXCEPT !.fresh = FALSE] \in ConnectCalls
    BY <1>3 DEF ConnectCalls
  <2> QED
    BY <1>1, <1>3, <2>1 DEF Calls, ConnectCalls
<1>4. CASE call \in RedeemCalls
  <2>1. [call EXCEPT !.fresh = FALSE] \in RedeemCalls
    BY <1>4 DEF RedeemCalls
  <2> QED
    BY <1>1, <1>4, <2>1 DEF Calls, RedeemCalls
<1> QED
  BY <1>1, <1>2, <1>3, <1>4

\* The phase of a call says of which kind it is.
LEMMA CallPhases ==
  ASSUME call \in Calls
  PROVE  /\ call.pc = "sign in" => call \in ConnectCalls
         /\ call.pc \in {"prepare", "sign", "submit"} => call \in RedeemCalls
<1>1. call = Free => call.pc = "idle"
  BY DEF Free
<1>2. call \in ConnectCalls => call.pc \in {"sign in", "refresh"}
  BY DEF ConnectCalls
<1>3. call \in RedeemCalls => call.pc \in {"prepare", "sign", "submit", "refresh", "claim"}
  BY DEF RedeemCalls
<1> QED
  BY <1>1, <1>2, <1>3, CallShapes

\* A step of redeem leaves a call of the same member, or none.
LEMMA StepEffect ==
  ASSUME call \in RedeemCalls, NEW pc \in {"prepare", "sign", "submit", "refresh", "claim"}, Step(pc)
  PROVE  /\ call' \in Calls
         /\ call'.kind = "redeem" /\ call'.fresh => call.fresh /\ call'.who = call.who
<1>1. CASE call.fresh
  <2>1. call' \in RedeemCalls /\ call'.who = call.who
    BY <1>1 DEF Step, RedeemCalls
  <2> QED
    BY <1>1, <2>1 DEF Calls, RedeemCalls
<1>2. CASE ~call.fresh
  BY <1>2 DEF Step, Calls, Free
<1> QED
  BY <1>1, <1>2

\* A new generation has no refresh under way and no redemption of its own.
LEMMA GenerationEffect ==
  ASSUME call \in Calls, NewGeneration
  PROVE  /\ read' = None /\ call' \in Calls
         /\ ~ (call'.kind = "redeem" /\ call'.fresh)
<1>1. CASE Busy
  BY <1>1, CallShapes DEF NewGeneration
<1>2. CASE ~Busy
  BY <1>2 DEF NewGeneration, Calls, Free
<1> QED
  BY <1>1, <1>2

LEMMA AskedType == Asked \in ReadType
BY DEF Asked, ReadType, Reads

LEMMA UnknownType == Unknown \in KnownType
BY DEF Unknown, KnownType

LEMMA SignedOutEffect ==
  ASSUME orbit \in OrbitType, NEW e \in BOOLEAN
  PROVE  LET o == SignedOut(orbit, e) IN
         /\ o \in OrbitType
         /\ o.mode = "guest" /\ o.address = None /\ o.connection = None /\ o.data = None
         /\ o.refreshError = FALSE
BY DEF SignedOut, OrbitType

\* Signing out, entering and leaving the demo.
LEMMA GenerationStep ==
  ASSUME OrbitInv, NewGeneration, leaving' \in BOOLEAN, known' \in KnownType,
         orbit' \in OrbitType, orbit'.mode # "member", orbit'.address = None,
         orbit'.connection = None, orbit'.data = None
  PROVE  OrbitInv'
<1>1. /\ read' = None /\ call' \in Calls
      /\ ~ (call'.kind = "redeem" /\ call'.fresh)
  BY GenerationEffect DEF OrbitInv
<1>2. MemberInv' /\ KnownInv'
  BY <1>1 DEF MemberInv, KnownInv
<1>3. read' \in ReadType
  BY <1>1 DEF ReadType
<1> QED
  BY <1>1, <1>2, <1>3 DEF OrbitInv, OrbitType

\* A step of a call, or of a refresh that changes neither the member nor what
\* is shown of the balance.
LEMMA SameMember ==
  ASSUME OrbitInv, orbit' \in OrbitType, orbit'.mode = orbit.mode, orbit'.address = orbit.address,
         orbit'.connection = orbit.connection, orbit'.data = orbit.data,
         call' \in Calls, call'.kind = "redeem" /\ call'.fresh =>
             orbit.mode = "member" /\ orbit.address = call'.who,
         read' \in ReadType, read' # None => orbit.mode = "member",
         leaving' \in BOOLEAN, known' = known
  PROVE  OrbitInv'
<1>1. MemberInv' /\ KnownInv'
  BY DEF MemberInv, KnownInv, OrbitInv
<1> QED
  BY <1>1 DEF OrbitInv

LEMMA OrbitOfVisitor ==
  ASSUME OrbitInv, UiInv, Visitor
  PROVE  OrbitInv'
<1>0. /\ orbit \in OrbitType /\ call \in Calls /\ read \in ReadType /\ leaving \in BOOLEAN
      /\ MemberInv /\ KnownInv /\ known \in KnownType
      /\ orbit.address \in IF orbit.mode = "member" THEN Accounts ELSE {None}
      /\ orbit.connection \in {None, orbit.address}
      /\ orbit.data # None => orbit.mode = "member"
  BY DEF OrbitInv
<1>1. ASSUME UNCHANGED <<call, read, known>>, leaving' \in BOOLEAN,
             orbit' = orbit \/ orbit' = Quiet(orbit) \/ orbit' = [orbit EXCEPT !.error = TRUE]
      PROVE  OrbitInv'
  <2>1. /\ orbit' \in OrbitType /\ orbit'.mode = orbit.mode /\ orbit'.address = orbit.address
        /\ orbit'.connection = orbit.connection /\ orbit'.data = orbit.data
    BY <1>0, <1>1 DEF OrbitType, Quiet
  <2>2. call'.kind = "redeem" /\ call'.fresh => orbit.mode = "member" /\ orbit.address = call'.who
    BY <1>0, <1>1 DEF MemberInv
  <2>3. read' # None => orbit.mode = "member"
    BY <1>0, <1>1 DEF MemberInv
  <2>4. call' \in Calls /\ read' \in ReadType /\ leaving' \in BOOLEAN /\ known' = known
    BY <1>0, <1>1
  <2> QED
    BY <2>1, <2>2, <2>3, <2>4, SameMember
<1>2. ASSUME NEW p \in Visited, Navigate(p) PROVE OrbitInv'
  BY <1>0, <1>1, <1>2 DEF Navigate, calls
<1>3. CASE HeaderConnect \/ PageConnect \/ ConnectForReward
  BY <1>0, <1>1, <1>3 DEF HeaderConnect, PageConnect, ConnectForReward, OpenWallet, calls
<1>4. CASE DismissError \/ ResumeReward \/ ViewClaim \/ ClickDisconnect
  BY <1>0, <1>1, <1>4 DEF DismissError, ResumeReward, ViewClaim, ClickDisconnect, calls
<1>5. ASSUME NEW r \in Rewards, SelectReward(r) \/ RedeemSample(r) PROVE OrbitInv'
  BY <1>0, <1>1, <1>5 DEF SelectReward, RedeemSample, calls
<1>6. ASSUME NEW d \in Dialogs, CloseDialog(d) \/ Escape(d) PROVE OrbitInv'
  BY <1>0, <1>1, <1>6 DEF CloseDialog, Escape, calls
<1>7. ASSUME NEW r \in Rewards, Redeem(r) PROVE OrbitInv'
  <2>1. /\ orbit' \in OrbitType /\ orbit'.mode = orbit.mode /\ orbit'.address = orbit.address
        /\ orbit'.connection = orbit.connection /\ orbit'.data = orbit.data
    BY <1>0, <1>7 DEF Redeem, OrbitType
  <2>2. orbit.mode = "member" /\ orbit.address \in Accounts
    BY <1>0, <1>7 DEF Redeem
  <2>3. /\ call' = [kind |-> "redeem", pc |-> "prepare", of |-> r, who |-> orbit.address, fresh |-> TRUE]
        /\ UNCHANGED <<read, leaving, known>>
    BY <1>7 DEF Redeem
  <2>4. call' \in Calls /\ call'.who = orbit.address
    BY <2>2, <2>3 DEF Calls
  <2> QED
    BY <1>0, <2>1, <2>2, <2>3, <2>4, SameMember
<1>8. ASSUME NEW a \in Accounts, ChooseWallet(a) PROVE OrbitInv'
  <2>1. /\ orbit' \in OrbitType /\ orbit'.mode = orbit.mode /\ orbit'.address = orbit.address
        /\ orbit'.connection = orbit.connection /\ orbit'.data = orbit.data
    BY <1>0, <1>8 DEF ChooseWallet, Quiet, OrbitType
  <2>2. /\ call' = [kind |-> "connect", pc |-> "sign in", of |-> None, who |-> a, fresh |-> TRUE]
        /\ UNCHANGED <<read, leaving, known>>
    BY <1>8 DEF ChooseWallet
  <2>3. call' \in Calls /\ call'.kind # "redeem"
    BY <2>2 DEF Calls
  <2>4. read' # None => orbit.mode = "member"
    BY <1>0, <2>2 DEF MemberInv
  <2> QED
    BY <1>0, <2>1, <2>2, <2>3, <2>4, SameMember
<1>9. CASE ExploreDemo \/ ExploreFromDialog
  <2>1. orbit.mode # "member" /\ DemoEntered
    BY <1>9 DEF ExploreDemo, ExploreFromDialog
  <2>2. orbit.address = None /\ orbit.connection = None /\ orbit.data = None
    BY <1>0, <2>1
  <2>3. /\ orbit' \in OrbitType /\ orbit'.mode = "demo" /\ orbit'.address = orbit.address
        /\ orbit'.connection = orbit.connection /\ orbit'.data = orbit.data
    BY <1>0, <2>1 DEF DemoEntered, Quiet, OrbitType
  <2>4. NewGeneration /\ UNCHANGED <<leaving, known>>
    BY <2>1 DEF DemoEntered
  <2> QED
    BY <1>0, <2>2, <2>3, <2>4, GenerationStep
<1>10. CASE LeaveDemo
  <2>1. orbit.address = None /\ orbit.connection = None /\ orbit.data = None
    BY <1>0, <1>10 DEF LeaveDemo
  <2>2. /\ orbit' \in OrbitType /\ orbit'.mode = "guest" /\ orbit'.address = orbit.address
        /\ orbit'.connection = orbit.connection /\ orbit'.data = orbit.data
    BY <1>0, <1>10 DEF LeaveDemo, Quiet, OrbitType
  <2>3. NewGeneration /\ UNCHANGED <<leaving, known>>
    BY <1>10 DEF LeaveDemo
  <2> QED
    BY <1>0, <2>1, <2>2, <2>3, GenerationStep
<1>11. CASE AccountChange
  <2>1. NewGeneration /\ leaving' = leaving /\ known' = Unknown /\ orbit' = SignedOut(orbit, TRUE)
    BY <1>11 DEF AccountChange
  <2> QED
    BY <1>0, <2>1, SignedOutEffect, UnknownType, GenerationStep
<1>12. CASE Reload
  <2>1. /\ call' = Free /\ read' = None /\ leaving' = FALSE /\ known' = Unknown
        /\ \E a \in Accounts \cup {None} :
              orbit' = IF a = None THEN Signed("guest", None) ELSE Signed("member", a)
    BY <1>12 DEF Reload
  <2>2. /\ orbit' \in OrbitType /\ orbit'.connection = None /\ orbit'.data = None
        /\ orbit'.address \in IF orbit'.mode = "member" THEN Accounts ELSE {None}
    BY <2>1 DEF Signed, OrbitType
  <2>3. call' \in Calls /\ read' \in ReadType /\ call'.kind = "idle"
    BY <2>1 DEF Calls, Free, ReadType
  <2>4. MemberInv' /\ KnownInv'
    BY <2>1, <2>2, <2>3 DEF MemberInv, KnownInv
  <2> QED
    BY <2>1, <2>2, <2>3, <2>4, UnknownType DEF OrbitInv
<1> QED
  BY <1>2, <1>3, <1>4, <1>5, <1>6, <1>7, <1>8, <1>9, <1>10, <1>11, <1>12 DEF Visitor

LEMMA OrbitOfConnect ==
  ASSUME OrbitInv, Connected
  PROVE  OrbitInv'
<1>0. /\ orbit \in OrbitType /\ call \in Calls /\ read \in ReadType /\ leaving \in BOOLEAN
      /\ MemberInv /\ KnownInv /\ known \in KnownType
      /\ call.pc = "sign in" /\ leaving' = leaving
  BY DEF OrbitInv, Connected
<1>1. call \in ConnectCalls
  BY <1>0, CallPhases
<1>2. CASE call.fresh
  <2>1. /\ orbit' = [orbit EXCEPT !.mode = "member", !.address = call.who,
                                  !.connection = call.who, !.data = None]
        /\ read' = Asked /\ call' = [call EXCEPT !.pc = "refresh"] /\ known' = Unknown
    BY <1>2 DEF Connected
  <2>2. call.who \in Accounts /\ call' \in ConnectCalls
    BY <1>1, <2>1 DEF ConnectCalls
  <2>3. /\ orbit' \in OrbitType /\ orbit'.mode = "member" /\ orbit'.address = call.who
        /\ orbit'.connection = call.who /\ orbit'.data = None
    BY <1>0, <2>1, <2>2 DEF OrbitType
  <2>4. call' \in Calls /\ call'.kind # "redeem"
    BY <2>2 DEF Calls, ConnectCalls
  <2>5. read' \in ReadType
    BY <2>1, AskedType
  <2>6. MemberInv' /\ KnownInv'
    BY <2>3, <2>4 DEF MemberInv, KnownInv
  <2>7. leaving' \in BOOLEAN /\ known' \in KnownType
    BY <1>0, <2>1, UnknownType
  <2>8. /\ orbit'.address \in IF orbit'.mode = "member" THEN Accounts ELSE {None}
        /\ orbit'.connection \in {None, orbit'.address}
    BY <2>2, <2>3
  <2> QED
    BY <2>3, <2>4, <2>5, <2>6, <2>7, <2>8 DEF OrbitInv
<1>3. CASE ~call.fresh
  <2>1. call' = Free /\ UNCHANGED <<orbit, read, known>>
    BY <1>3 DEF Connected
  <2>2. call' \in Calls /\ call'.kind # "redeem"
    BY <2>1 DEF Calls, Free
  <2>3. read' \in ReadType /\ (read' # None => orbit.mode = "member")
    BY <1>0, <2>1 DEF MemberInv
  <2> QED
    BY <1>0, <2>1, <2>2, <2>3, SameMember
<1> QED
  BY <1>2, <1>3

\* The steps of a call that has begun, and the end of one.
LEMMA OrbitOfCalls ==
  ASSUME OrbitInv,
         ConnectEnds \/ Prepared \/ SignBurn \/ Submitted \/ RedeemEnds \/ CallFails
  PROVE  OrbitInv'
<1>0. /\ orbit \in OrbitType /\ call \in Calls /\ read \in ReadType /\ leaving \in BOOLEAN
      /\ MemberInv /\ known \in KnownType
  BY DEF OrbitInv
<1>1. /\ orbit' \in OrbitType /\ orbit'.mode = orbit.mode /\ orbit'.address = orbit.address
      /\ orbit'.connection = orbit.connection /\ orbit'.data = orbit.data
  BY <1>0, CallShapes
     DEF ConnectEnds, Prepared, SignBurn, Submitted, RedeemEnds, CallFails, OrbitType
<1>2. leaving' = leaving /\ known' = known
  BY DEF ConnectEnds, Prepared, SignBurn, Submitted, RedeemEnds, CallFails
<1>3. ASSUME call' = Free, read' = read PROVE OrbitInv'
  <2>1. call' \in Calls /\ call'.kind # "redeem"
    BY <1>3 DEF Calls, Free
  <2>2. read' \in ReadType /\ (read' # None => orbit.mode = "member")
    BY <1>0, <1>3 DEF MemberInv
  <2> QED
    BY <1>0, <1>1, <1>2, <2>1, <2>2, SameMember
<1>4. CASE ConnectEnds \/ RedeemEnds \/ CallFails
  BY <1>3, <1>4 DEF ConnectEnds, RedeemEnds, CallFails
<1>5. ASSUME call \in RedeemCalls,
             NEW pc \in {"prepare", "sign", "submit", "refresh", "claim"}, Step(pc),
             read' = read \/ (call.fresh /\ StartRefresh)
      PROVE  OrbitInv'
  <2>1. /\ call' \in Calls
        /\ call'.kind = "redeem" /\ call'.fresh => call.fresh /\ call'.who = call.who
    BY <1>5, StepEffect
  <2>2. call.kind = "redeem"
    BY <1>5 DEF RedeemCalls
  <2>3. call'.kind = "redeem" /\ call'.fresh => orbit.mode = "member" /\ orbit.address = call'.who
    BY <1>0, <2>1, <2>2 DEF MemberInv
  <2>4. read' \in ReadType
    BY <1>0, <1>5, AskedType DEF StartRefresh
  <2>5. read' # None => orbit.mode = "member"
    BY <1>0, <1>5, <2>2 DEF MemberInv
  <2> QED
    BY <1>0, <1>1, <1>2, <2>1, <2>3, <2>4, <2>5, SameMember
<1>6. call.pc \in {"prepare", "sign", "submit"} => call \in RedeemCalls
  BY <1>0, CallPhases
<1>7. CASE Prepared
  <2>1. call \in RedeemCalls
    BY <1>6, <1>7 DEF Prepared
  <2>2. (Step("sign") /\ UNCHANGED read)
        \/ (Step("refresh") /\ IF call.fresh THEN StartRefresh ELSE UNCHANGED read)
    BY <1>7 DEF Prepared
  <2> QED
    BY <1>5, <2>1, <2>2
<1>8. CASE SignBurn
  <2>1. call \in RedeemCalls
    BY <1>6, <1>8 DEF SignBurn
  <2>2. Step("submit") /\ UNCHANGED read
    BY <1>8 DEF SignBurn
  <2> QED
    BY <1>5, <2>1, <2>2
<1>9. CASE Submitted
  <2>1. call \in RedeemCalls
    BY <1>6, <1>9 DEF Submitted
  <2>2. Step("claim") \/ Step("refresh")
    BY <1>9 DEF Submitted
  <2>3. IF call.fresh THEN StartRefresh ELSE UNCHANGED read
    BY <1>9 DEF Submitted
  <2> QED
    BY <1>5, <2>1, <2>2, <2>3
<1> QED
  BY <1>4, <1>7, <1>8, <1>9

\* Refreshes ask for the member on the page, and record what they read.
LEMMA OrbitOfReads ==
  ASSUME OrbitInv, ServerInv, NEW ok \in BOOLEAN, NEW stored \in BOOLEAN,
         BalanceRead(ok) \/ ActivityRead(ok, stored)
  PROVE  OrbitInv'
<1>0. /\ orbit \in OrbitType /\ call \in Calls /\ read \in ReadType /\ leaving \in BOOLEAN
      /\ MemberInv /\ KnownInv /\ known \in KnownType
      /\ orbit.address \in IF orbit.mode = "member" THEN Accounts ELSE {None}
      /\ orbit.connection \in {None, orbit.address}
  BY DEF OrbitInv
<1>1. read # None /\ orbit.mode = "member" /\ orbit.address \in Accounts
  BY <1>0 DEF BalanceRead, ActivityRead, MemberInv
<1>2. ledger[orbit.address] \in [points : Nat, op : Op]
  BY <1>1 DEF ServerInv
<1>3. /\ Data \in [points : Nat \cup {None}, activity : Op]
      /\ orbit.data # None => Data = orbit.data
      /\ orbit.data = None => Data.points = None
  BY <1>0 DEF Data, OrbitType, Op, NoOp
<1>4. ASSUME NEW d \in [points : Nat \cup {None}, activity : Op] \cup {None}, NEW f \in BOOLEAN,
             orbit' = Reported([orbit EXCEPT !.data = d], f),
             d # None /\ d.points # None => known'.balance,
             read' \in ReadType, known' \in KnownType, UNCHANGED <<call, leaving>>
      PROVE  OrbitInv'
  <2>1. /\ orbit' \in OrbitType /\ orbit'.mode = orbit.mode /\ orbit'.address = orbit.address
        /\ orbit'.connection = orbit.connection /\ orbit'.data = d
    BY <1>0, <1>4 DEF OrbitType, Reported
  <2>2. MemberInv' /\ KnownInv'
    BY <1>0, <1>1, <1>4, <2>1 DEF MemberInv, KnownInv
  <2> QED
    BY <1>0, <1>1, <1>4, <2>1, <2>2 DEF OrbitInv
<1>5. read \in Reads /\ read.failed \in BOOLEAN
  BY <1>0, <1>1 DEF ReadType, Reads
<1>6. ASSUME NEW f \in BOOLEAN
      PROVE  /\ Job([read EXCEPT !.balance = FALSE, !.failed = f]) \in ReadType
             /\ Job([read EXCEPT !.activity = FALSE, !.failed = f]) \in ReadType
  BY <1>5 DEF Job, ReadType, Reads
<1>7. CASE BalanceRead(ok)
  <2> DEFINE f == read.failed \/ ~ok
  <2>1. /\ BalanceShown(ok) \in [points : Nat \cup {None}, activity : Op]
        /\ BalanceShown(ok).points # None => ok
    BY <1>2, <1>3 DEF BalanceShown
  <2>2. f \in BOOLEAN
    BY <1>5
  <2>3. /\ orbit' = Reported([orbit EXCEPT !.data = BalanceShown(ok)], f)
        /\ known' = [known EXCEPT !.balance = ok]
        /\ read' = Job([read EXCEPT !.balance = FALSE, !.failed = f]) /\ UNCHANGED <<call, leaving>>
    BY <1>7 DEF BalanceRead
  <2>4. known' \in KnownType /\ known'.balance = ok
    BY <1>0, <2>3 DEF KnownType
  <2> HIDE DEF f
  <2> QED
    BY <1>4, <1>6, <2>1, <2>2, <2>3, <2>4
<1>8. CASE ActivityRead(ok, stored)
  <2> DEFINE f == read.failed \/ ~ok \/ ~stored
             o == IF ok THEN [orbit EXCEPT !.data = [Data EXCEPT !.activity = ledger[orbit.address].op]]
                  ELSE orbit
  <2>1. f \in BOOLEAN
    BY <1>5
  <2>2. /\ read' = Job([read EXCEPT !.activity = FALSE, !.failed = f]) /\ UNCHANGED <<call, leaving>>
        /\ known' = [known EXCEPT !.activity = ok /\ stored] /\ orbit' = Reported(o, f)
    BY <1>8 DEF ActivityRead
  <2>3. known' \in KnownType /\ known'.balance = known.balance
    BY <1>0, <2>2 DEF KnownType
  <2>4. \E d \in [points : Nat \cup {None}, activity : Op] \cup {None} :
           /\ o = [orbit EXCEPT !.data = d]
           /\ d # None /\ d.points # None => known'.balance
    <3>1. CASE ok
      <4> DEFINE d == [Data EXCEPT !.activity = ledger[orbit.address].op]
      <4>1. d \in [points : Nat \cup {None}, activity : Op] /\ d.points = Data.points
        BY <1>2, <1>3
      <4>2. d.points # None => known'.balance
        BY <1>0, <1>3, <2>3, <4>1 DEF KnownInv
      <4>3. o = [orbit EXCEPT !.data = d]
        BY <3>1
      <4> HIDE DEF d, o
      <4> QED
        BY <4>1, <4>2, <4>3
    <3>2. CASE ~ok
      <4>1. /\ orbit.data \in [points : Nat \cup {None}, activity : Op] \cup {None}
            /\ o = [orbit EXCEPT !.data = orbit.data]
        BY <1>0, <3>2 DEF OrbitType
      <4> HIDE DEF o
      <4> QED
        BY <1>0, <2>3, <4>1 DEF KnownInv
    <3> QED
      BY <3>1, <3>2
  <2> HIDE DEF f, o
  <2> QED
    BY <1>4, <1>6, <2>1, <2>2, <2>3, <2>4
<1> QED
  BY <1>7, <1>8

LEMMA OrbitOfAnswers ==
  ASSUME OrbitInv, ServerInv, [Next]_vars, ~Visitor
  PROVE  OrbitInv'
<1>0. /\ orbit \in OrbitType /\ call \in Calls /\ read \in ReadType /\ leaving \in BOOLEAN
      /\ MemberInv /\ KnownInv /\ known \in KnownType
  BY DEF OrbitInv
<1>1. ASSUME UNCHANGED <<call, known>>, leaving' \in BOOLEAN,
             read' \in ReadType, read' # None => orbit.mode = "member",
             orbit' \in OrbitType, orbit'.mode = orbit.mode, orbit'.address = orbit.address,
             orbit'.connection = orbit.connection, orbit'.data = orbit.data
      PROVE  OrbitInv'
  <2>1. call'.kind = "redeem" /\ call'.fresh => orbit.mode = "member" /\ orbit.address = call'.who
    BY <1>0, <1>1 DEF MemberInv
  <2>2. call' \in Calls /\ known' = known
    BY <1>0, <1>1
  <2> QED
    BY <1>1, <2>1, <2>2, SameMember
<1>2. read # None => orbit.mode = "member"
  BY <1>0 DEF MemberInv
<1>3. CASE Poll
  <2>1. /\ UNCHANGED <<orbit, call, known, leaving>> /\ orbit.mode = "member"
        /\ read' = Asked
    BY <1>3 DEF Poll, StartRefresh
  <2>2. read' \in ReadType
    BY <2>1, AskedType
  <2> QED
    BY <1>0, <1>1, <2>1, <2>2
<1>4. CASE SessionExpired \/ LoggedOut
  <2>1. /\ NewGeneration /\ known' = Unknown /\ leaving' \in BOOLEAN
        /\ \E e \in BOOLEAN : orbit' = SignedOut(orbit, e)
    BY <1>0, <1>4 DEF SessionExpired, LoggedOut
  <2> QED
    BY <1>0, <2>1, SignedOutEffect, UnknownType, GenerationStep
<1>5. ASSUME NEW ok \in BOOLEAN, ProgramLoads(ok) PROVE OrbitInv'
  <2>1. /\ orbit' \in OrbitType /\ orbit'.mode = orbit.mode /\ orbit'.address = orbit.address
        /\ orbit'.connection = orbit.connection /\ orbit'.data = orbit.data
    BY <1>0, <1>5 DEF ProgramLoads, OrbitType
  <2>2. UNCHANGED <<call, read, leaving, known>>
    BY <1>5 DEF ProgramLoads, calls
  <2> QED
    BY <1>0, <1>1, <1>2, <2>1, <2>2
<1>6. CASE LogoutFails
  <2>1. /\ orbit' \in OrbitType /\ orbit'.mode = orbit.mode /\ orbit'.address = orbit.address
        /\ orbit'.connection = orbit.connection /\ orbit'.data = orbit.data
    BY <1>0, <1>6 DEF LogoutFails, OrbitType
  <2>2. UNCHANGED <<call, read, known>> /\ leaving' = FALSE
    BY <1>6 DEF LogoutFails
  <2> QED
    BY <1>0, <1>1, <1>2, <2>1, <2>2
<1>7. CASE (\E a \in Accounts : OperationMoves(a)) \/ UNCHANGED vars
  <2>1. UNCHANGED <<orbit, call, read, leaving, known>>
    BY <1>7 DEF OperationMoves, vars, calls
  <2> QED
    BY <1>0, <1>1, <1>2, <2>1
<1> QED
  BY <1>3, <1>4, <1>5, <1>6, <1>7, OrbitOfConnect, OrbitOfCalls, OrbitOfReads DEF Next

LEMMA OrbitStep ==
  ASSUME IInv, [Next]_vars
  PROVE  OrbitInv'
BY InvParts, OrbitOfVisitor, OrbitOfAnswers

-----------------------------------------------------------------------------
(* What a refresh has read and reports.                                    *)

LEMMA RefreshStays ==
  ASSUME RefreshInv, known' = known, orbit'.mode = orbit.mode,
         orbit'.refreshError => orbit.refreshError,
         read' = read \/ (read = None /\ read' = Asked)
  PROVE  RefreshInv'
<1>1. CASE read' = read
  BY <1>1 DEF RefreshInv
<1>2. CASE read = None /\ read' = Asked
  BY <1>2 DEF RefreshInv, Asked
<1> QED
  BY <1>1, <1>2

LEMMA RefreshForgotten ==
  ASSUME read' = None, orbit'.refreshError = FALSE
  PROVE  RefreshInv'
BY DEF RefreshInv

\* One read of a refresh is over; the other may still be awaited.
LEMMA RefreshOfReads ==
  ASSUME OrbitInv, RefreshInv, NEW ok \in BOOLEAN, NEW stored \in BOOLEAN,
         BalanceRead(ok) \/ ActivityRead(ok, stored)
  PROVE  RefreshInv' /\ (orbit.error => orbit'.error)
<1>0. /\ orbit \in OrbitType /\ read # None /\ read \in Reads /\ orbit.mode = "member"
      /\ known \in KnownType
  BY DEF OrbitInv, MemberInv, ReadType, BalanceRead, ActivityRead
<1>1. /\ read.balance \in BOOLEAN /\ read.activity \in BOOLEAN /\ read.failed \in BOOLEAN
      /\ known.balance \in BOOLEAN /\ known.activity \in BOOLEAN
  BY <1>0 DEF Reads, KnownType
<1>2. read.failed <=> \/ ~read.balance /\ ~known.balance
                      \/ ~read.activity /\ ~known.activity
  BY <1>0, <1>1 DEF RefreshInv
<1>3. ASSUME NEW j \in Reads, read' = Job(j),
             orbit'.mode = "member", orbit'.refreshError = j.failed,
             j.failed <=> \/ ~j.balance /\ ~known'.balance
                          \/ ~j.activity /\ ~known'.activity
      PROVE  RefreshInv'
  <2>1. read' # None => read' = j
    BY <1>3 DEF Job
  <2>2. /\ j.failed \in BOOLEAN
        /\ j.failed = \/ ~j.balance /\ ~known'.balance
                      \/ ~j.activity /\ ~known'.activity
    BY <1>3 DEF Reads
  <2>3. orbit'.refreshError => ~known'.balance \/ ~known'.activity
    BY <1>3
  <2> QED
    BY <1>3, <2>1, <2>2, <2>3 DEF RefreshInv
<1>4. CASE BalanceRead(ok)
  <2> DEFINE f == read.failed \/ ~ok
             o == [orbit EXCEPT !.data = BalanceShown(ok)]
  <2>1. /\ read' = Job([read EXCEPT !.balance = FALSE, !.failed = f])
        /\ orbit' = Reported(o, f) /\ known' = [known EXCEPT !.balance = ok]
        /\ read.balance
    BY <1>4 DEF BalanceRead
  <2>2. f \in BOOLEAN /\ (f <=> ~ok \/ (~read.activity /\ ~known.activity))
    BY <1>1, <1>2, <2>1
  <2>3. known'.balance = ok /\ known'.activity = known.activity
    BY <1>0, <2>1 DEF KnownType
  <2>4. orbit'.mode = "member" /\ orbit'.refreshError = f /\ orbit'.error = orbit.error
    BY <1>0, <2>1, <2>2 DEF Reported, OrbitType
  <2> HIDE DEF f, o
  <2> DEFINE j == [read EXCEPT !.balance = FALSE, !.failed = f]
  <2>5. j \in Reads /\ j.balance = FALSE /\ j.activity = read.activity /\ j.failed = f
    BY <1>0, <2>2 DEF Reads
  <2>6. read' = Job(j)
    BY <2>1
  <2> HIDE DEF j
  <2>7. RefreshInv'
    BY <1>1, <1>3, <2>2, <2>3, <2>4, <2>5, <2>6
  <2> QED
    BY <2>4, <2>7
<1>5. CASE ActivityRead(ok, stored)
  <2> DEFINE f == read.failed \/ ~ok \/ ~stored
             o == IF ok THEN [orbit EXCEPT !.data = [Data EXCEPT !.activity = ledger[orbit.address].op]]
                  ELSE orbit
  <2>1. /\ read' = Job([read EXCEPT !.activity = FALSE, !.failed = f])
        /\ orbit' = Reported(o, f) /\ known' = [known EXCEPT !.activity = ok /\ stored]
        /\ read.activity
    BY <1>5 DEF ActivityRead
  <2>2. f \in BOOLEAN /\ (f <=> ~(ok /\ stored) \/ (~read.balance /\ ~known.balance))
    BY <1>1, <1>2, <2>1
  <2>3. known'.activity = (ok /\ stored) /\ known'.balance = known.balance
    BY <1>0, <2>1 DEF KnownType
  <2>4. orbit'.mode = "member" /\ orbit'.refreshError = f /\ orbit'.error = orbit.error
    BY <1>0, <2>1, <2>2 DEF Reported, OrbitType
  <2> HIDE DEF f, o
  <2> DEFINE j == [read EXCEPT !.activity = FALSE, !.failed = f]
  <2>5. j \in Reads /\ j.activity = FALSE /\ j.balance = read.balance /\ j.failed = f
    BY <1>0, <2>2 DEF Reads
  <2>6. read' = Job(j)
    BY <2>1
  <2> HIDE DEF j
  <2>7. RefreshInv'
    BY <1>1, <1>3, <2>2, <2>3, <2>4, <2>5, <2>6
  <2> QED
    BY <2>4, <2>7
<1> QED
  BY <1>4, <1>5

\* Signing out or changing to or from the demo forgets what refreshes reported.
LEMMA RefreshOfVisitor ==
  ASSUME IInv, Visitor
  PROVE  RefreshInv'
<1>0. /\ orbit \in OrbitType /\ RefreshInv /\ call \in Calls
  BY InvParts DEF OrbitInv
<1>1. ASSUME UNCHANGED <<read, known>>,
             \/ orbit' = orbit \/ orbit' = Quiet(orbit)
             \/ \E e \in BOOLEAN : orbit' = [orbit EXCEPT !.error = e]
      PROVE  RefreshInv'
  <2>1. orbit'.mode = orbit.mode /\ (orbit'.refreshError => orbit.refreshError)
    BY <1>0, <1>1 DEF OrbitType, Quiet
  <2> QED
    BY <1>0, <1>1, <2>1, RefreshStays
<1>2. CASE ExploreDemo \/ ExploreFromDialog \/ LeaveDemo
  <2>1. NewGeneration /\ orbit'.refreshError = FALSE
    BY <1>0, <1>2
       DEF ExploreDemo, ExploreFromDialog, LeaveDemo, DemoEntered, Quiet, OrbitType
  <2> QED
    BY <1>0, <2>1, GenerationEffect, RefreshForgotten
<1>3. CASE AccountChange
  <2>1. NewGeneration /\ orbit' = SignedOut(orbit, TRUE)
    BY <1>3 DEF AccountChange
  <2> QED
    BY <1>0, <2>1, GenerationEffect, SignedOutEffect, RefreshForgotten
<1>4. CASE Reload
  <2>1. read' = None /\ \E m, a : orbit' = Signed(m, a)
    BY <1>4 DEF Reload
  <2>2. orbit'.refreshError = FALSE
    BY <2>1 DEF Signed
  <2> QED
    BY <2>1, <2>2, RefreshForgotten
<1>5. CASE ~ (ExploreDemo \/ ExploreFromDialog \/ LeaveDemo \/ AccountChange \/ Reload)
  BY <1>1, <1>5
     DEF Visitor, Navigate, HeaderConnect, PageConnect, OpenWallet, DismissError, SelectReward,
         ResumeReward, ViewClaim, CloseDialog, Escape, ConnectForReward, RedeemSample, ChooseWallet,
         Redeem, ClickDisconnect, calls
<1> QED
  BY <1>2, <1>3, <1>4, <1>5

LEMMA RefreshStep ==
  ASSUME IInv, [Next]_vars
  PROVE  RefreshInv'
<1>0. OrbitInv /\ RefreshInv /\ orbit \in OrbitType /\ call \in Calls /\ MemberInv
  BY InvParts DEF OrbitInv
<1>1. CASE Connected
  <2>1. CASE call.fresh
    <3>1. /\ orbit' = [orbit EXCEPT !.mode = "member", !.address = call.who,
                                    !.connection = call.who, !.data = None]
          /\ read' = Asked /\ known' = Unknown
      BY <1>1, <2>1 DEF Connected
    <3>2. orbit'.mode = "member"
      BY <1>0, <3>1 DEF OrbitType
    <3> QED
      BY <3>1, <3>2 DEF RefreshInv, Asked, Unknown
  <2>2. CASE ~call.fresh
    <3>1. UNCHANGED <<orbit, read, known>>
      BY <1>1, <2>2 DEF Connected
    <3> QED
      BY <1>0, <3>1, RefreshStays
  <2> QED
    BY <2>1, <2>2
<1>2. ASSUME orbit' = orbit, known' = known, read' = read \/ StartRefresh
      PROVE  RefreshInv'
  BY <1>0, <1>2, RefreshStays DEF StartRefresh
<1>3. CASE ConnectEnds \/ Prepared \/ SignBurn \/ Submitted \/ RedeemEnds \/ Poll
  BY <1>2, <1>3 DEF ConnectEnds, Prepared, SignBurn, Submitted, RedeemEnds, Poll
<1>4. CASE CallFails \/ LogoutFails
  <2>1. orbit'.mode = orbit.mode /\ orbit'.refreshError = orbit.refreshError
    BY <1>0, <1>4 DEF CallFails, LogoutFails, OrbitType
  <2>2. UNCHANGED <<read, known>>
    BY <1>4 DEF CallFails, LogoutFails
  <2> QED
    BY <1>0, <2>1, <2>2, RefreshStays
<1>5. CASE SessionExpired \/ LoggedOut
  <2>1. NewGeneration /\ \E e \in BOOLEAN : orbit' = SignedOut(orbit, e)
    BY <1>5 DEF SessionExpired, LoggedOut
  <2> QED
    BY <1>0, <2>1, GenerationEffect, SignedOutEffect, RefreshForgotten
<1>6. ASSUME NEW ok \in BOOLEAN, ProgramLoads(ok) PROVE RefreshInv'
  <2>1. orbit'.mode = orbit.mode /\ orbit'.refreshError = orbit.refreshError
    BY <1>0, <1>6 DEF ProgramLoads, OrbitType
  <2>2. UNCHANGED <<read, known>>
    BY <1>6 DEF ProgramLoads, calls
  <2> QED
    BY <1>0, <2>1, <2>2, RefreshStays
<1>7. CASE (\E a \in Accounts : OperationMoves(a)) \/ UNCHANGED vars
  BY <1>2, <1>7 DEF OperationMoves, vars, calls
<1> QED
  BY <1>0, <1>1, <1>3, <1>4, <1>5, <1>6, <1>7, RefreshOfVisitor, RefreshOfReads DEF Next

-----------------------------------------------------------------------------
(* The ledger.                                                             *)

Entry == [points : Nat, op : Op]

Covered(e) ==
    e.op.status \in {"prepared", "pending"} => e.op.reward \in Rewards /\ e.points >= Price[e.op.reward]

\* A step changes at most one account, to an entry that is covered.
LEMMA LedgerChange ==
  ASSUME ServerInv, NEW a \in Accounts, NEW e \in Entry, Covered(e),
         ledger' = [ledger EXCEPT ![a] = e]
  PROVE  ServerInv'
BY DEF ServerInv, LedgerInv, Entry, Covered

LEMMA SetOpEffect ==
  ASSUME ServerInv, NEW a \in Accounts, NEW op \in Op, SetOp(a, op),
         Covered([ledger[a] EXCEPT !.op = op])
  PROVE  ServerInv'
<1> DEFINE e == [ledger[a] EXCEPT !.op = op]
<1>1. ledger[a] \in [points : Nat, op : Op]
  BY DEF ServerInv
<1>2. e \in Entry
  BY <1>1 DEF Entry
<1>3. ledger' = [ledger EXCEPT ![a] = e]
  BY DEF SetOp
<1> HIDE DEF e
<1>4. Covered(e)
  BY DEF e
<1> QED
  BY <1>2, <1>3, <1>4, LedgerChange

LEMMA ServerStep ==
  ASSUME IInv, [Next]_vars
  PROVE  ServerInv'
<1>0. ServerInv /\ call \in Calls
  BY InvParts DEF OrbitInv
<1>1. ASSUME UNCHANGED ledger PROVE ServerInv'
  BY <1>0, <1>1 DEF ServerInv, LedgerInv
<1>2. ASSUME NEW a \in Accounts
      PROVE  /\ ledger[a].points \in Nat /\ ledger[a].op \in Op
             /\ ledger[a].op.status \in {"prepared", "pending"}
                => /\ ledger[a].op.reward \in Rewards
                   /\ ledger[a].points >= Price[ledger[a].op.reward]
  BY <1>0 DEF ServerInv, LedgerInv
<1>3. ASSUME NEW a \in Accounts, NEW op
      PROVE  /\ [ledger[a] EXCEPT !.op = op].points = ledger[a].points
             /\ [ledger[a] EXCEPT !.op = op].op = op
  BY <1>0 DEF ServerInv
<1>4. ASSUME NEW a \in Accounts, ledger[a].op.status \in {"prepared", "pending"},
             SetOp(a, [ledger[a].op EXCEPT !.status = "pending"])
      PROVE  ServerInv'
  <2> DEFINE op == [ledger[a].op EXCEPT !.status = "pending"]
  <2>1. op \in Op /\ op.reward = ledger[a].op.reward
    BY <1>2 DEF Op
  <2> HIDE DEF op
  <2>2. SetOp(a, op)
    BY <1>4 DEF op
  <2>3. Covered([ledger[a] EXCEPT !.op = op])
    BY <1>2, <1>3, <1>4, <2>1 DEF Covered
  <2> QED
    BY <1>0, <2>1, <2>2, <2>3, SetOpEffect
<1>5. CASE Prepared
  <2>1. Prepare(call.who, call.of) /\ call.who \in Accounts /\ call.of \in Rewards
    BY <1>0, <1>5, CallPhases DEF Prepared, RedeemCalls
  <2>2. CASE UNCHANGED ledger
    BY <1>1, <2>2
  <2> DEFINE op == [status |-> "prepared", reward |-> call.of]
  <2>3. CASE ledger[call.who].points >= Price[call.of] /\ SetOp(call.who, op)
    <3>1. op \in Op /\ op.reward = call.of
      BY <2>1 DEF Op
    <3> HIDE DEF op
    <3>2. Covered([ledger[call.who] EXCEPT !.op = op])
      BY <1>3, <2>1, <2>3, <3>1 DEF Covered
    <3> QED
      BY <1>0, <2>1, <2>3, <3>1, <3>2, SetOpEffect
  <2> QED
    BY <2>1, <2>2, <2>3 DEF Prepare
<1>6. CASE Submitted
  <2>1. call.who \in Accounts
    BY <1>0, <1>6, CallPhases DEF Submitted, RedeemCalls
  <2>2. CASE ledger[call.who].op.status = "prepared"
    <3>1. SetOp(call.who, [ledger[call.who].op EXCEPT !.status = "pending"])
      BY <1>6, <2>2 DEF Submitted
    <3> QED
      BY <1>4, <2>1, <2>2, <3>1
  <2>3. CASE ledger[call.who].op.status # "prepared"
    <3>1. UNCHANGED ledger
      BY <1>6, <2>3 DEF Submitted
    <3> QED
      BY <1>1, <3>1
  <2> QED
    BY <2>2, <2>3
<1>7. ASSUME NEW a \in Accounts, OperationMoves(a) PROVE ServerInv'
  <2>1. CASE ledger[a].op.status = "prepared" /\ SetOp(a, [ledger[a].op EXCEPT !.status = "pending"])
    BY <1>4, <2>1
  <2>2. CASE ledger[a].op.status \in {"prepared", "pending"} /\ SetOp(a, NoOp)
    <3>1. NoOp \in Op /\ NoOp.status = "none"
      BY DEF Op, NoOp
    <3>2. Covered([ledger[a] EXCEPT !.op = NoOp])
      BY <1>3, <3>1 DEF Covered
    <3> QED
      BY <1>0, <2>2, <3>1, <3>2, SetOpEffect
  <2> DEFINE op == [ledger[a].op EXCEPT !.status = "confirmed"]
             e == [[ledger[a] EXCEPT !.op = op]
                     EXCEPT !.points = ledger[a].points - Price[ledger[a].op.reward]]
  <2>3. CASE /\ ledger[a].op.status = "pending"
             /\ ledger' = [ledger EXCEPT ![a].op.status = "confirmed",
                                         ![a].points = @ - Price[ledger[a].op.reward]]
    <3>1. op \in Op /\ op.status = "confirmed"
      BY <1>2 DEF Op
    <3>2. ledger[a].points - Price[ledger[a].op.reward] \in Nat
      BY <1>2, <2>3, AppAssumption
    <3>3. ledger[a] \in Entry /\ ledger \in [Accounts -> Entry]
      BY <1>0 DEF ServerInv, Entry
    <3>4. ledger' = [ledger EXCEPT ![a] = e]
      BY <2>3, <3>3 DEF Entry, Op
    <3>5. e \in Entry /\ e.op = op
      <4> HIDE DEF op
      <4> QED
        BY <3>1, <3>2, <3>3 DEF Entry
    <3> HIDE DEF e, op
    <3>6. Covered(e)
      BY <3>1, <3>5 DEF Covered
    <3> QED
      BY <1>0, <3>4, <3>5, <3>6, LedgerChange
  <2> QED
    BY <1>7, <2>1, <2>2, <2>3 DEF OperationMoves
<1>8. CASE Visitor \/ UNCHANGED vars
  BY <1>1, <1>8
     DEF Visitor, Navigate, HeaderConnect, PageConnect, OpenWallet, DismissError, SelectReward,
         ResumeReward, ViewClaim, CloseDialog, Escape, ConnectForReward, DemoEntered, ExploreDemo,
         ExploreFromDialog, LeaveDemo, RedeemSample, ChooseWallet, Redeem, ClickDisconnect,
         AccountChange, Reload, outside, vars
<1>9. CASE \/ Connected \/ ConnectEnds \/ SignBurn \/ RedeemEnds \/ CallFails \/ Poll
           \/ SessionExpired \/ LoggedOut \/ LogoutFails
           \/ \E ok \in BOOLEAN : BalanceRead(ok) \/ ProgramLoads(ok)
           \/ \E got, stored \in BOOLEAN : ActivityRead(got, stored)
  BY <1>1, <1>9
     DEF Connected, ConnectEnds, SignBurn, RedeemEnds, CallFails, Poll, SessionExpired, LoggedOut,
         LogoutFails, BalanceRead, ActivityRead, ProgramLoads, outside
<1> QED
  BY <1>5, <1>6, <1>7, <1>8, <1>9 DEF Next

-----------------------------------------------------------------------------
(* The demo.                                                               *)

Spent(d) == SumFunctionOnSet([r \in Rewards |-> d.taken[r] * Price[r]], Rewards)

LEMMA DemoAddsUpTo == DemoAddsUp <=> demo.points + Spent(demo) = Opening
BY DEF DemoAddsUp, Spent, SumFunction

LEMMA NewDemoAddsUp ==
  /\ NewDemo \in [points : Nat, taken : [Rewards -> Nat]]
  /\ NewDemo.points + Spent(NewDemo) = Opening
<1> DEFINE f == [r \in Rewards |-> NewDemo.taken[r] * Price[r]]
<1>1. /\ NewDemo \in [points : Nat, taken : [Rewards -> Nat]] /\ NewDemo.points = Opening
      /\ \A r \in Rewards : NewDemo.taken[r] = 0
  BY AppAssumption DEF NewDemo
<1>2. \A r \in Rewards : f[r] = 0
  BY <1>1, AppAssumption
<1> HIDE DEF f
<1>3. SumFunctionOnSet(f, Rewards) = 0
  BY <1>2, SumOfZeros, AppAssumption
<1> QED
  BY <1>1, <1>3, AppAssumption DEF Spent, f

\* A redemption that the demo's points cover takes its price off them.
LEMMA RedeemDemoAddsUp ==
  ASSUME NEW d \in [points : Nat, taken : [Rewards -> Nat]], d.points + Spent(d) = Opening,
         NEW r \in Rewards, ~ (d.points < Price[r])
  PROVE  /\ RedeemDemo(d, r) \in [points : Nat, taken : [Rewards -> Nat]]
         /\ RedeemDemo(d, r).points + Spent(RedeemDemo(d, r)) = Opening
<1> DEFINE t == RedeemDemo(d, r)
           f == [s \in Rewards |-> d.taken[s] * Price[s]]
           e == [s \in Rewards |-> t.taken[s] * Price[s]]
<1>1. /\ d.points \in Nat /\ d.taken \in [Rewards -> Nat] /\ Price \in [Rewards -> Nat]
      /\ Opening \in Nat
  BY AppAssumption
<1>2. t.points = d.points - Price[r] /\ t.taken = [d.taken EXCEPT ![r] = @ + 1]
  BY DEF RedeemDemo
<1>3. t \in [points : Nat, taken : [Rewards -> Nat]]
  <2>1. d.points - Price[r] \in Nat /\ [d.taken EXCEPT ![r] = @ + 1] \in [Rewards -> Nat]
    BY <1>1
  <2> QED
    BY <2>1 DEF RedeemDemo
<1> HIDE DEF t
<1>4. \A n, p \in Nat : n * p \in Nat /\ (n + 1) * p = n * p + p
  OBVIOUS
<1>5. \A s \in Rewards : d.taken[s] \in Nat /\ t.taken[s] \in Nat /\ Price[s] \in Nat
  BY <1>1, <1>3
<1>6. \A s \in Rewards : e[s] \in Nat /\ f[s] \in Nat
  BY <1>4, <1>5
<1>7. \A s \in Rewards \ {r} : e[s] = f[s]
  BY <1>1, <1>2
<1>8. e[r] = f[r] + Price[r]
  BY <1>1, <1>2, <1>4
<1> HIDE DEF e, f
<1>9. SumFunctionOnSet(e, Rewards) + f[r] = SumFunctionOnSet(f, Rewards) + e[r]
  BY <1>6, <1>7, SumOfChange, AppAssumption
<1>10. SumFunctionOnSet(e, Rewards) \in Nat /\ SumFunctionOnSet(f, Rewards) \in Nat
  BY <1>6, SumIsNat, AppAssumption
<1>11. Spent(d) = SumFunctionOnSet(f, Rewards) /\ Spent(t) = SumFunctionOnSet(e, Rewards)
  BY DEF Spent, e, f
<1>12. t.points + Spent(t) = Opening
  BY <1>1, <1>2, <1>5, <1>6, <1>8, <1>9, <1>10, <1>11
<1> QED
  BY <1>3, <1>12 DEF t

LEMMA DemoStep ==
  ASSUME IInv, [Next]_vars
  PROVE  DemoInv'
<1>0. demo \in [points : Nat, taken : [Rewards -> Nat]] /\ demo.points + Spent(demo) = Opening
  BY InvParts, DemoAddsUpTo DEF DemoInv
<1>1. ASSUME NEW d \in [points : Nat, taken : [Rewards -> Nat]], d.points + Spent(d) = Opening,
             demo' = d
      PROVE  DemoInv'
  <2>1. DemoAddsUp' <=> demo'.points + Spent(demo') = Opening
    BY DEF DemoAddsUp, Spent, SumFunction
  <2> QED
    BY <1>1, <2>1 DEF DemoInv
<1>2. ASSUME NEW r \in Rewards, RedeemSample(r) PROVE DemoInv'
  <2>1. CASE demo.points < Price[r]
    BY <1>0, <1>1, <1>2, <2>1 DEF RedeemSample
  <2>2. CASE ~(demo.points < Price[r])
    <3>1. demo' = RedeemDemo(demo, r)
      BY <1>2, <2>2 DEF RedeemSample
    <3> QED
      BY <1>0, <1>1, <2>2, <3>1, RedeemDemoAddsUp
  <2> QED
    BY <2>1, <2>2
<1>3. CASE Reload
  BY <1>1, <1>3, NewDemoAddsUp DEF Reload
<1>4. CASE UNCHANGED demo
  BY <1>0, <1>1, <1>4
<1>5. CASE Visitor /\ ~Reload /\ ~ \E r \in Rewards : RedeemSample(r)
  <2>1. UNCHANGED demo
    BY <1>5
       DEF Visitor, Navigate, HeaderConnect, PageConnect, OpenWallet, DismissError, SelectReward,
           ResumeReward, ViewClaim, CloseDialog, Escape, ConnectForReward, DemoEntered, ExploreDemo,
           ExploreFromDialog, LeaveDemo, ChooseWallet, Redeem, ClickDisconnect, AccountChange, outside
  <2> QED
    BY <1>4, <2>1
<1>6. CASE ~Visitor
  <2>1. UNCHANGED demo
    BY <1>6
       DEF Next, Connected, ConnectEnds, Prepared, SignBurn, Submitted, RedeemEnds, CallFails, Poll,
           SessionExpired, LoggedOut, LogoutFails, BalanceRead, ActivityRead, ProgramLoads,
           OperationMoves, outside, vars
  <2> QED
    BY <1>4, <2>1
<1> QED
  BY <1>2, <1>3, <1>5, <1>6

-----------------------------------------------------------------------------
(* The invariant, and the properties that follow.                          *)

LEMMA InitInv == Init => IInv
<1> SUFFICES ASSUME Init PROVE IInv
  OBVIOUS
<1>1. UiInv /\ ClaimIsTheMembers
  <2>1. Closed \in Wanted /\ Closed.claim = None /\ Stack(<<>>) /\ Range(<<>>) = {}
    BY DEF Closed, Wanted, Stack, IsInjective, Range
  <2> QED
    BY <2>1 DEF Init, UiInv, ClaimIsTheMembers, ClaimIsVisible, Pages
<1>2. OrbitInv
  <2>1. /\ orbit \in OrbitType /\ orbit.connection = None /\ orbit.data = None
        /\ orbit.address \in IF orbit.mode = "member" THEN Accounts ELSE {None}
    <3>1. PICK a \in Accounts \cup {None} :
            orbit = Signed(IF a = None THEN "guest" ELSE "member", a)
      BY AppAssumption DEF Init
    <3>2. CASE a = None
      BY <3>1, <3>2 DEF Signed, OrbitType
    <3>3. CASE a # None
      BY <3>1, <3>3 DEF Signed, OrbitType
    <3> QED
      BY <3>2, <3>3
  <2>2. call \in Calls /\ call.kind = "idle" /\ read = None /\ leaving = FALSE /\ known = Unknown
    BY DEF Init, Calls, Free
  <2>3. MemberInv /\ KnownInv
    BY <2>1, <2>2 DEF MemberInv, KnownInv
  <2> QED
    BY <2>1, <2>2, <2>3, UnknownType DEF OrbitInv, ReadType
<1>3. ServerInv
  BY AppAssumption DEF Init, ServerInv, LedgerInv, NoOp, Op
<1>4. DemoInv
  BY NewDemoAddsUp, DemoAddsUpTo DEF Init, DemoInv
<1>5. RefreshInv
  BY DEF Init, RefreshInv, Signed
<1> QED
  BY <1>1, <1>2, <1>3, <1>4, <1>5, InvParts

LEMMA StepInv == IInv /\ [Next]_vars => IInv'
<1> SUFFICES ASSUME IInv, [Next]_vars PROVE IInv'
  OBVIOUS
<1>1. UiInv' /\ OrbitInv' /\ RefreshInv' /\ ServerInv' /\ DemoInv' /\ ClaimIsTheMembers'
  BY ScreenStep, OrbitStep, RefreshStep, ServerStep, DemoStep
<1>2. (UiInv /\ OrbitInv /\ RefreshInv /\ ServerInv /\ DemoInv /\ ClaimIsTheMembers)' => IInv'
  BY InvParts, PTL
<1> QED
  BY <1>1, <1>2

\* The invariant holds in every state of the app, whatever the accounts, the
\* catalog, its prices and the balances.
THEOREM InvariantHolds == Spec => []IInv
BY InitInv, StepInv, PTL DEF Spec

\* Every variable keeps its type; only a member's page has an address, a
\* signing connection and data.
THEOREM TypeCorrect == Spec => []TypeOK
<1>1. IInv => TypeOK
  BY DEF IInv
<1> QED
  BY <1>1, InvariantHolds, PTL

\* No page ever holds the reward code of another account or of the demo.
THEOREM ClaimsAreTheMembers == Spec => []ClaimIsTheMembers
<1>1. IInv => ClaimIsTheMembers
  BY DEF IInv
<1> QED
  BY <1>1, InvariantHolds, PTL

\* A reward code that App renders is on the screen: Escape cannot leave a
\* claim dialog rendered and unseen, as it can the other two.
THEOREM ClaimsAreVisible == Spec => []ClaimIsVisible
<1>1. IInv => ClaimIsVisible
  BY DEF IInv
<1> QED
  BY <1>1, InvariantHolds, PTL

\* What the demo has left and what it redeemed add up, for every catalog.
THEOREM DemoIsConserved == Spec => []DemoAddsUp
<1>1. IInv => DemoAddsUp
  BY DEF IInv
<1> QED
  BY <1>1, InvariantHolds, PTL

-----------------------------------------------------------------------------
(* What a step may never do.                                               *)

\* Only the button of the reward dialog begins a redemption.
LEMMA RedeemBegins ==
  ASSUME IInv, [Next]_vars, call.kind # "redeem", call'.kind = "redeem"
  PROVE  \E r \in Rewards : Redeem(r)
<1>0. call \in Calls
  BY InvParts DEF OrbitInv
<1>1. call' # call /\ call' # Free
  BY DEF Free
<1>2. ~NewGeneration
  BY <1>0, GenerationEffect, <1>1 DEF NewGeneration, Busy, Calls, Free
<1>3. ~Connected
  <2> SUFFICES ASSUME Connected PROVE FALSE
    OBVIOUS
  <2>1. call \in ConnectCalls
    BY <1>0, CallPhases DEF Connected
  <2>2. call' = [call EXCEPT !.pc = "refresh"]
    BY <1>1 DEF Connected
  <2> QED
    BY <2>1, <2>2 DEF ConnectCalls
<1>4. ASSUME NEW a \in Accounts, ChooseWallet(a) PROVE FALSE
  <2>1. call' = [kind |-> "connect", pc |-> "sign in", of |-> None, who |-> a, fresh |-> TRUE]
    BY <1>4 DEF ChooseWallet
  <2>2. call'.kind = "connect"
    BY <2>1
  <2> QED
    BY <2>2
<1>5. ~Prepared /\ ~SignBurn /\ ~Submitted
  <2> SUFFICES ASSUME Prepared \/ SignBurn \/ Submitted PROVE FALSE
    OBVIOUS
  <2>1. call \in RedeemCalls
    BY <1>0, CallPhases DEF Prepared, SignBurn, Submitted
  <2> QED
    BY <2>1 DEF RedeemCalls
<1>6. CASE Visitor
  BY <1>1, <1>2, <1>4, <1>6
     DEF Visitor, Navigate, HeaderConnect, PageConnect, OpenWallet, DismissError, SelectReward,
         ResumeReward, ViewClaim, CloseDialog, Escape, ConnectForReward, DemoEntered, ExploreDemo,
         ExploreFromDialog, LeaveDemo, RedeemSample, ClickDisconnect, AccountChange, Reload, calls
<1>7. CASE ~Visitor
  BY <1>1, <1>2, <1>3, <1>5, <1>7
     DEF Next, ConnectEnds, RedeemEnds, CallFails, Poll, SessionExpired, LoggedOut, LogoutFails,
         BalanceRead, ActivityRead, ProgramLoads, OperationMoves, calls, vars
<1> QED
  BY <1>6, <1>7

\* A failed balance read disables redemption until a read succeeds: of every
\* account and whatever was answered in between.
THEOREM RedemptionsBeginOnAFreshBalance == Spec => RedeemsOnAFreshBalance
<1>1. ASSUME IInv, [Next]_vars
      PROVE  [call.kind # "redeem" /\ call'.kind = "redeem" => known.balance]_vars
  <2> SUFFICES ASSUME call.kind # "redeem", call'.kind = "redeem" PROVE known.balance
    OBVIOUS
  <2>1. PICK r \in Rewards : Redeem(r)
    BY <1>1, RedeemBegins
  <2>2. orbit.data # None /\ orbit.data.points # None
    BY <2>1 DEF Redeem, Affordable, Points
  <2> QED
    BY <1>1, <2>2 DEF IInv, KnownInv
<1> QED
  BY <1>1, InvariantHolds, PTL DEF Spec, RedeemsOnAFreshBalance

\* A refresh begins or ends, for a member who stays signed in, beside the
\* error of an action.
LEMMA ErrorStays ==
  ASSUME IInv, [Next]_vars, orbit.error, read' # read, orbit'.address = orbit.address
  PROVE  orbit'.error \/ Reload
<1>0. /\ OrbitInv /\ RefreshInv /\ orbit \in OrbitType /\ call \in Calls
      /\ orbit.address \in IF orbit.mode = "member" THEN Accounts ELSE {None}
      /\ orbit.connection \in {None, orbit.address}
      /\ read # None => orbit.mode = "member"
  BY InvParts DEF OrbitInv, MemberInv
<1>1. None \notin Accounts
  BY AppAssumption
\* Only a member has a refresh to drop, and loses the address with it.
<1>2. ASSUME NewGeneration, orbit'.address = None PROVE FALSE
  <2>1. read' = None
    BY <1>0, <1>2, GenerationEffect
  <2> QED
    BY <1>0, <1>1, <1>2, <2>1
<1>3. ~AccountChange /\ ~SessionExpired /\ ~LoggedOut
  <2> SUFFICES ASSUME AccountChange \/ SessionExpired \/ LoggedOut PROVE FALSE
    OBVIOUS
  <2>1. NewGeneration /\ \E e \in BOOLEAN : orbit' = SignedOut(orbit, e)
    BY DEF AccountChange, SessionExpired, LoggedOut
  <2>2. orbit'.address = None
    BY <1>0, <2>1, SignedOutEffect
  <2> QED
    BY <1>2, <2>1, <2>2
<1>4. ~ExploreDemo /\ ~ExploreFromDialog /\ ~LeaveDemo
  <2> SUFFICES ASSUME ExploreDemo \/ ExploreFromDialog \/ LeaveDemo PROVE FALSE
    OBVIOUS
  <2>1. NewGeneration /\ orbit.mode # "member"
    BY DEF ExploreDemo, ExploreFromDialog, LeaveDemo, DemoEntered
  <2>2. orbit'.address = None
    BY <1>0, <2>1
  <2> QED
    BY <1>2, <2>1, <2>2
<1>5. CASE Visitor
  BY <1>3, <1>4, <1>5
     DEF Visitor, Navigate, HeaderConnect, PageConnect, OpenWallet, DismissError, SelectReward,
         ResumeReward, ViewClaim, CloseDialog, Escape, ConnectForReward, RedeemSample, ChooseWallet,
         Redeem, ClickDisconnect, calls
<1>6. CASE Connected
  <2>1. CASE call.fresh
    <3>1. orbit' = [orbit EXCEPT !.mode = "member", !.address = call.who,
                                 !.connection = call.who, !.data = None]
      BY <1>6, <2>1 DEF Connected
    <3> QED
      BY <1>0, <3>1 DEF OrbitType
  <2>2. CASE ~call.fresh
    BY <1>6, <2>2 DEF Connected
  <2> QED
    BY <2>1, <2>2
<1>7. CASE Prepared \/ Submitted \/ Poll
  BY <1>7 DEF Prepared, Submitted, Poll
<1>8. CASE ConnectEnds \/ SignBurn \/ RedeemEnds \/ CallFails \/ LogoutFails
  BY <1>8 DEF ConnectEnds, SignBurn, RedeemEnds, CallFails, LogoutFails
<1>9. CASE \/ \E ok \in BOOLEAN : ProgramLoads(ok)
           \/ \E a \in Accounts : OperationMoves(a)
           \/ UNCHANGED vars
  BY <1>9 DEF ProgramLoads, OperationMoves, calls, vars
<1> QED
  BY <1>0, <1>3, <1>5, <1>6, <1>7, <1>8, <1>9, RefreshOfReads DEF Next

\* Refreshes and actions report apart: no refresh takes away the error of an
\* action, and none that has ended well leaves one of its own.
THEOREM ErrorsDoNotMix == Spec => ErrorsAreKeptApart
<1>1. ASSUME IInv, [Next]_vars
      PROVE  [/\ orbit.error /\ read' # read /\ orbit'.address = orbit.address
                 => orbit'.error \/ Reload
              /\ orbit'.refreshError
                 => /\ orbit'.mode = "member"
                    /\ read' = None => ~known'.balance \/ ~known'.activity]_vars
  <2>1. RefreshInv'
    BY <1>1, RefreshStep
  <2>2. orbit'.refreshError
        => /\ orbit'.mode = "member"
           /\ read' = None => ~known'.balance \/ ~known'.activity
    BY <2>1 DEF RefreshInv
  <2> QED
    BY <1>1, <2>2, ErrorStays
<1> QED
  BY <1>1, InvariantHolds, PTL DEF Spec, ErrorsAreKeptApart
=============================================================================
