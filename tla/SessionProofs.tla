--------------------------- MODULE SessionProofs ----------------------------
(***************************************************************************)
(* Theorems about Session, for any number of users, fingers, taps and      *)
(* launches.                                                               *)
(***************************************************************************)
EXTENDS Session, TLAPS

-----------------------------------------------------------------------------
(***************************************************************************)
(* What is routed and asked by which screen.  A block or a request names   *)
(* the screen it came from by its position, and screens are only ever      *)
(* pushed, so that this screen keeps its kind however many cover it.       *)
(***************************************************************************)
Screen == [name : DOMAIN Controls, uid : Users \cup {NoUser}]
Doing == Kinds \cup {"fetch", "main", "login", "register"}

Callers(do) ==
  CASE do \in {"fetch"} -> {"splash"}
    [] do \in {"main"} -> {"splash", "login", "register"}
    [] do \in {"login"} -> {"splash", "register", "main"}
    [] do \in {"register", "email", "facebook"} -> {"login"}
    [] do \in {"create", "enter"} -> {"register"}
    [] do \in {"points", "save", "orphan"} -> {"main"}
    [] OTHER -> {}

CalledBy(i, do) == i \in DOMAIN screens /\ screens[i].name \in Callers(do)

CalledBlocks ==
  {b \in [do : Doing, ok : BOOLEAN, by : Nat, hops : Nat] : CalledBy(b.by, b.do)}
CalledRequests ==
  {r \in [kind : Kinds, by : Nat, user : Users] : CalledBy(r.by, r.kind)}

(* The controls that can hold a touch when the sheet is s.                 *)
Touchable(s) == Controls[TopName] \cup (IF s = "up" THEN SheetControls ELSE {})

SheetInv ==
  /\ sheet \in {"none", "up", "leaving"}
  /\ sheet # "none" => TopName = "main"
  /\ touches \in SUBSET Touchable(sheet)

(* The inductive invariant of PresentedOnce.                               *)
SessionInv ==
  /\ screens \in Seq(Screen) /\ screens # <<>> /\ screens[1].name = "splash"
  /\ disabled \in SUBSET DOMAIN screens
  /\ SheetInv
  /\ hud \in HudState
  /\ mainQ \in Seq(CalledBlocks)
  /\ requests \in SUBSET CalledRequests
  /\ dialog = 0 \/ CalledBy(dialog, "facebook")
  /\ account \in Users \cup {NoUser} /\ token \in BOOLEAN
  /\ \A i \in 2..Top : screens[i].name # screens[i - 1].name

LEMMA HudKeepsItsType ==
  ASSUME NEW h \in HudState, NEW what \in {"error", "success"}
  PROVE  /\ Flash(h, what) \in HudState /\ ShowProgress(h) \in HudState
         /\ Flash(ShowProgress(h), what) \in HudState
         /\ Expire(h) \in HudState /\ FadeOut(h) \in HudState
         /\ Cover(h) \in HudState /\ Uncover(h) \in HudState
  BY DEF HudState, Contents, Show, Flash, ShowProgress, Expire, FadeOut, Cover, Uncover

LEMMA TopIsThere ==
  ASSUME SessionInv
  PROVE  /\ Top \in Nat /\ Top >= 1 /\ Top \in DOMAIN screens
         /\ DOMAIN screens = 1..Top
         /\ screens[Top] \in Screen /\ TopName \in DOMAIN Controls
<1>1. screens \in Seq(Screen) /\ screens # <<>>
  BY DEF SessionInv
<1>2. Top \in Nat /\ Top >= 1 /\ DOMAIN screens = 1..Top
  BY <1>1 DEF Top
<1>3. screens[Top] \in Screen
  BY <1>1, <1>2
<1> QED
  BY <1>2, <1>3 DEF TopName, Screen

LEMMA HeadIsCalled ==
  ASSUME SessionInv, mainQ # <<>>
  PROVE  /\ Head(mainQ) \in CalledBlocks /\ Tail(mainQ) \in Seq(CalledBlocks)
         /\ Head(mainQ) \in [do : Doing, ok : BOOLEAN, by : Nat, hops : Nat]
         /\ CalledBy(By, Head(mainQ).do)
  BY DEF SessionInv, CalledBlocks, By

(* The controls a touch can be on tell which screen is on top, and that    *)
(* the sheet is there.                                                     *)
LEMMA TouchesTell ==
  ASSUME SessionInv, NEW c \in touches
  PROVE  /\ c \in {"login", "facebook", "register"} => TopName = "login"
         /\ c \in {"signup", "cancel"} => TopName = "register"
         /\ c \in {"logout", "clear", "add", "save", "swipe"} => TopName = "main"
<1>1. /\ c \in Controls[TopName] \/ (sheet = "up" /\ c \in SheetControls)
      /\ TopName \in {"splash", "login", "register", "main"}
      /\ sheet = "up" => TopName = "main"
  BY TopIsThere DEF SessionInv, SheetInv, Touchable, Controls
<1>2. c \in Controls[TopName] \/ (TopName = "main" /\ c \in {"save", "swipe"})
  BY <1>1 DEF SheetControls
<1> QED
  BY <1>1, <1>2 DEF Controls

(* What a new block needs to be one of CalledBlocks.                       *)
LEMMA NewBlock ==
  ASSUME NEW do \in Doing, NEW ok \in BOOLEAN, NEW i \in Nat, NEW n \in Nat,
         CalledBy(i, do)
  PROVE  Block(do, ok, i, n) \in CalledBlocks
  BY DEF Block, CalledBlocks

LEMMA Routes ==
  ASSUME NEW i \in Nat, i \in DOMAIN screens
  PROVE  /\ screens[i].name \in {"splash", "login", "register"} => ToMain(i) \in CalledBlocks
         /\ screens[i].name \in {"splash", "register", "main"} => ToLogin(i) \in CalledBlocks
         /\ screens[i].name = "login" => ToRegister(i) \in CalledBlocks
<1>1. {"main", "login", "register"} \subseteq Doing
  BY DEF Doing
<1>2. /\ Callers("main") = {"splash", "login", "register"}
      /\ Callers("login") = {"splash", "register", "main"}
      /\ Callers("register") = {"login"}
  BY DEF Callers
<1> QED
  BY <1>1, <1>2, NewBlock DEF ToMain, ToLogin, ToRegister, CalledBy

(* The steps that push nothing: what they leave of the queue, the requests *)
(* and the dialog is all that matters.                                     *)
LEMMA UnpushedSheet ==
  ASSUME SessionInv, UNCHANGED screens,
         sheet' \in {"none", "up", "leaving"}, sheet' # "none" => TopName = "main",
         touches' \in SUBSET Touchable(sheet'),
         disabled' \in SUBSET DOMAIN screens,
         hud' \in HudState,
         mainQ' \in Seq(CalledBlocks),
         requests' \in SUBSET CalledRequests,
         dialog' = 0 \/ CalledBy(dialog', "facebook"),
         account' \in Users \cup {NoUser} /\ token' \in BOOLEAN
  PROVE  SessionInv'
<1>1. Top' = Top /\ TopName' = TopName
  BY DEF Top, TopName
<1>2. CalledBlocks' = CalledBlocks /\ CalledRequests' = CalledRequests
  BY DEF CalledBlocks, CalledRequests, CalledBy
<1>3. (dialog = 0 \/ CalledBy(dialog, "facebook"))'
  BY DEF CalledBy
<1>4. (screens \in Seq(Screen) /\ screens # <<>> /\ screens[1].name = "splash")'
  BY DEF SessionInv
<1>5. (\A i \in 2..Top : screens[i].name # screens[i - 1].name)'
  BY <1>1 DEF SessionInv
<1>6. SheetInv'
  BY <1>1 DEF SheetInv, Touchable
<1> QED
  BY <1>1, <1>2, <1>3, <1>4, <1>5, <1>6 DEF SessionInv

LEMMA Unpushed ==
  ASSUME SessionInv, UNCHANGED <<screens, sheet>>,
         disabled' \in SUBSET DOMAIN screens,
         touches' \in SUBSET Touchable(sheet),
         hud' \in HudState,
         mainQ' \in Seq(CalledBlocks),
         requests' \in SUBSET CalledRequests,
         dialog' = 0 \/ CalledBy(dialog', "facebook"),
         account' \in Users \cup {NoUser} /\ token' \in BOOLEAN
  PROVE  SessionInv'
<1>1. /\ sheet' \in {"none", "up", "leaving"} /\ (sheet' # "none" => TopName = "main")
      /\ touches' \in SUBSET Touchable(sheet')
  BY DEF SessionInv, SheetInv
<1> QED
  BY <1>1, UnpushedSheet

LEMMA PushKeeps ==
  ASSUME SessionInv, NEW name \in DOMAIN Controls, NEW uid \in Users \cup {NoUser},
         name # TopName, Pushed(name, uid), sheet = "none",
         mainQ' = Tail(mainQ), mainQ # <<>>, UNCHANGED <<disabled, auth>>
  PROVE  SessionInv'
<1> DEFINE s == [name |-> name, uid |-> uid]
<1>1. s \in Screen /\ screens' = Append(screens, s)
  BY DEF Screen, Pushed
<1>2. /\ screens \in Seq(Screen) /\ Len(screens) = Top /\ Top \in Nat /\ Top >= 1
  BY TopIsThere DEF SessionInv, Top
<1>3. /\ screens' \in Seq(Screen) /\ Len(screens') = Top + 1
      /\ \A i \in 1..Top : screens'[i] = screens[i]
      /\ screens'[Top + 1] = s /\ DOMAIN screens = 1..Top /\ DOMAIN screens' = 1..(Top + 1)
  BY <1>1, <1>2
<1>4. Top' = Top + 1 /\ TopName' = name
  BY <1>2, <1>3 DEF Top, TopName
<1>5. \A i, do : CalledBy(i, do) => CalledBy(i, do)'
  BY <1>2, <1>3 DEF CalledBy
<1>6. CalledBlocks \subseteq CalledBlocks' /\ CalledRequests \subseteq CalledRequests'
  BY <1>5 DEF CalledBlocks, CalledRequests
<1>7. mainQ' \in Seq(CalledBlocks')
  <2>1. mainQ' \in Seq(CalledBlocks)
    BY HeadIsCalled
  <2> QED
    BY <1>6, <2>1
<1>8. (dialog = 0 \/ CalledBy(dialog, "facebook"))'
  BY <1>5 DEF SessionInv, auth
<1>9. (\A i \in 2..Top : screens[i].name # screens[i - 1].name)'
  <2> SUFFICES ASSUME NEW i \in 2..(Top + 1)
               PROVE  screens'[i].name # screens'[i - 1].name
    BY <1>4
  <2>1. CASE i = Top + 1
    BY <2>1, <1>2, <1>3 DEF TopName
  <2>2. CASE i \in 2..Top
    BY <2>2, <1>2, <1>3 DEF SessionInv
  <2> QED
    BY <2>1, <2>2, <1>2
<1>10. hud' \in HudState
  BY HudKeepsItsType DEF SessionInv, Pushed
<1>11. (screens \in Seq(Screen) /\ screens # <<>> /\ screens[1].name = "splash")'
  BY <1>2, <1>3 DEF SessionInv
<1>12. SheetInv'
  BY DEF Pushed, SheetInv
<1>13. (/\ disabled \in SUBSET DOMAIN screens /\ requests \in SUBSET CalledRequests
        /\ account \in Users \cup {NoUser} /\ token \in BOOLEAN)'
  BY <1>2, <1>3, <1>6 DEF SessionInv, auth
<1> QED
  BY <1>7, <1>8, <1>9, <1>10, <1>11, <1>12, <1>13 DEF SessionInv

LEMMA ServedInv ==
  ASSUME SessionInv, Main
  PROVE  SessionInv'
<1> DEFINE b == Head(mainQ)
<1>1. /\ disabled \in SUBSET DOMAIN screens /\ touches \in SUBSET Touchable(sheet)
      /\ hud \in HudState /\ mainQ \in Seq(CalledBlocks)
      /\ requests \in SUBSET CalledRequests
      /\ dialog = 0 \/ CalledBy(dialog, "facebook")
      /\ account \in Users \cup {NoUser} /\ token \in BOOLEAN
      /\ Top \in Nat /\ 1 \in DOMAIN screens /\ screens[1].name = "splash"
  BY TopIsThere DEF SessionInv, SheetInv
<1>2. mainQ # <<>>
  BY DEF Main, Hop, PresentForm, PresentMain, FetchCurrentUser, SignedIn, LoginRefused,
     EnterRefused, PointsAnswered, EntryPointSaved, SaveUnheeded, Registered, Queued
<1>3. /\ b \in CalledBlocks /\ Tail(mainQ) \in Seq(CalledBlocks)
      /\ b \in [do : Doing, ok : BOOLEAN, by : Nat, hops : Nat]
      /\ CalledBy(b.by, b.do) /\ By = b.by
  BY <1>2, HeadIsCalled DEF By
<1>4. \A c \in CalledBlocks : Append(Tail(mainQ), c) \in Seq(CalledBlocks)
  BY <1>3
<1>5. \A what \in {"error", "success"} : Flash(hud, what) \in HudState
  BY <1>1, HudKeepsItsType
<1>6. CASE Hop
  <2>1. [b EXCEPT !.hops = @ - 1] \in CalledBlocks
    BY <1>3, <1>6 DEF CalledBlocks, Hop
  <2>2. mainQ' \in Seq(CalledBlocks)
    BY <1>4, <1>6, <2>1 DEF Hop
  <2> QED
    BY <1>1, <1>6, <2>2, Unpushed DEF Hop, view, auth, adding
<1>7. CASE PresentForm
  <2>1. CASE Presents
    <3>1. b.do \in {"login", "register"} /\ b.do \in DOMAIN Controls
      BY <1>7 DEF PresentForm, Queued, Controls
    <3>2. b.do # TopName
      BY <1>3, <2>1, <3>1 DEF Presents, CalledBy, Callers, TopName
    <3>3. /\ Pushed(b.do, NoUser) /\ sheet = "none"
          /\ mainQ' = Tail(mainQ) /\ UNCHANGED <<disabled, auth>>
      BY <1>7, <2>1 DEF PresentForm, Presents
    <3> QED
      BY <1>2, <3>1, <3>2, <3>3, PushKeeps
  <2>2. CASE ~Presents
    BY <1>1, <1>3, <1>7, <2>2, Unpushed DEF PresentForm, auth, adding
  <2> QED
    BY <2>1, <2>2
<1>8. CASE PresentMain
  <2>1. CASE Presents /\ account # NoUser
    <3>1. b.do = "main" /\ "main" \in DOMAIN Controls
      BY <1>8 DEF PresentMain, Queued, Controls
    <3>2. "main" # TopName
      BY <1>3, <2>1, <3>1 DEF Presents, CalledBy, Callers, TopName
    <3>3. /\ Pushed("main", account) /\ sheet = "none"
          /\ mainQ' = Tail(mainQ) /\ UNCHANGED <<disabled, auth>>
      BY <1>8, <2>1 DEF PresentMain, Presents
    <3> QED
      BY <1>1, <1>2, <3>1, <3>2, <3>3, PushKeeps
  <2>2. CASE ~(Presents /\ account # NoUser)
    BY <1>1, <1>3, <1>8, <2>2, Unpushed DEF PresentMain, auth, adding
  <2> QED
    BY <2>1, <2>2
<1>9. CASE FetchCurrentUser
  <2>1. ToMain(1) \in CalledBlocks /\ ToLogin(1) \in CalledBlocks
    BY <1>1, Routes
  <2>2. /\ <<>> \in Seq(CalledBlocks) /\ <<ToLogin(1)>> \in Seq(CalledBlocks)
        /\ \A p, q \in Seq(CalledBlocks) : p \o q \in Seq(CalledBlocks)
    <3>1. \A c \in CalledBlocks : <<c>> \in Seq(CalledBlocks)
      OBVIOUS
    <3>2. \A S : \A p, q \in Seq(S) : p \o q \in Seq(S)
      OBVIOUS
    <3> QED
      BY <2>1, <3>1, <3>2
  <2>3. ASSUME token \/ account # NoUser PROVE mainQ' \in Seq(CalledBlocks)
    <3>1. mainQ' = Append(Tail(mainQ), ToMain(1))
      BY <1>9, <2>3 DEF FetchCurrentUser
    <3> QED
      BY <1>4, <2>1, <3>1
  <2>4. ASSUME ~(token \/ account # NoUser) PROVE mainQ' \in Seq(CalledBlocks)
    <3>1. PICK signOut \in {<<>>, <<ToLogin(1)>>} :
            mainQ' = Tail(mainQ) \o signOut \o <<ToLogin(1)>>
      BY <1>9, <2>4 DEF FetchCurrentUser
    <3>2. signOut \in Seq(CalledBlocks)
      BY <2>2
    <3>3. Tail(mainQ) \o signOut \in Seq(CalledBlocks)
      BY <1>3, <2>2, <3>2
    <3> QED
      BY <2>2, <3>1, <3>3
  <2>5. mainQ' \in Seq(CalledBlocks)
    BY <2>3, <2>4
  <2> QED
    BY <1>1, <1>9, <2>5, Unpushed DEF FetchCurrentUser, view, adding
<1>10. CASE SignedIn
  <2>1. ToMain(b.by) \in CalledBlocks
    BY <1>3, <1>10, Routes DEF SignedIn, Queued, CalledBy, Callers
  <2>2. mainQ' \in Seq(CalledBlocks)
    BY <1>3, <1>4, <2>1, <1>10 DEF SignedIn
  <2> QED
    BY <1>1, <1>5, <1>10, <2>2, Unpushed DEF SignedIn, auth, adding
<1>11. CASE LoginRefused
  <2>1. disabled' \in SUBSET DOMAIN screens
    BY <1>1, <1>11 DEF LoginRefused
  <2> QED
    BY <1>1, <1>3, <1>5, <1>11, <2>1, Unpushed DEF LoginRefused, auth, adding
<1>12. CASE EnterRefused
  <2>1. ToLogin(b.by) \in CalledBlocks
    BY <1>3, <1>12, Routes DEF EnterRefused, Queued, CalledBy, Callers
  <2>2. mainQ' \in Seq(CalledBlocks)
    BY <1>3, <1>4, <2>1, <1>12 DEF EnterRefused
  <2> QED
    BY <1>1, <1>5, <1>12, <2>2, Unpushed DEF EnterRefused, auth, adding
<1>13. CASE PointsAnswered
  <2>1. (IF Ok THEN hud ELSE Flash(hud, "error")) \in HudState
    BY <1>1, <1>5
  <2>2. hud' \in HudState
    BY <2>1, <1>13, HudKeepsItsType DEF PointsAnswered
  <2> QED
    BY <1>1, <1>3, <1>13, <2>2, Unpushed DEF PointsAnswered, auth, adding
<1>14a. CASE EntryPointSaved
  <2>1. /\ sheet' \in {"none", "up", "leaving"} /\ (sheet' # "none" => sheet # "none")
        /\ touches' = touches \ SheetControls
    BY <1>14a DEF EntryPointSaved, Leave, SessionInv, SheetInv
  <2>2. touches' \in SUBSET Touchable(sheet')
    BY <1>1, <2>1 DEF Touchable
  <2>3. /\ UNCHANGED <<screens, disabled, requests, dialog, account, token>>
        /\ mainQ' = Tail(mainQ) /\ hud' = Flash(hud, "success")
    BY <1>14a DEF EntryPointSaved, auth
  <2> QED
    BY <1>1, <1>3, <1>5, <2>1, <2>2, <2>3, UnpushedSheet DEF SessionInv, SheetInv
<1>14b. CASE SaveUnheeded
  BY <1>1, <1>3, <1>14b, Unpushed DEF SaveUnheeded, auth
<1>14. ASSUME NEW u \in Users, Registered(u) PROVE SessionInv'
  <2>1. [kind |-> "enter", by |-> b.by, user |-> u] \in CalledRequests
    BY <1>3, <1>14 DEF Registered, Queued, CalledRequests, CalledBy, Callers, Kinds, SignIns
  <2>2. requests' \in SUBSET CalledRequests /\ hud' \in HudState
    BY <1>1, <1>3, <1>5, <1>14, <2>1 DEF Registered, Ask
  <2> QED
    BY <1>1, <1>3, <1>14, <2>2, Unpushed DEF Registered, adding
<1> QED
  BY <1>6, <1>7, <1>8, <1>9, <1>10, <1>11, <1>12, <1>13, <1>14, <1>14a, <1>14b DEF Main

LEMMA TouchedInv ==
  ASSUME SessionInv, User
  PROVE  SessionInv'
<1>1. /\ disabled \in SUBSET DOMAIN screens /\ touches \in SUBSET Touchable(sheet)
      /\ hud \in HudState /\ mainQ \in Seq(CalledBlocks)
      /\ requests \in SUBSET CalledRequests
      /\ dialog = 0 \/ CalledBy(dialog, "facebook")
      /\ account \in Users \cup {NoUser} /\ token \in BOOLEAN
      /\ Top \in Nat /\ Top \in DOMAIN screens
  BY TopIsThere DEF SessionInv, SheetInv
<1>2. \A c \in CalledBlocks : Append(mainQ, c) \in Seq(CalledBlocks)
  BY <1>1
<1>3. /\ ShowProgress(hud) \in HudState /\ Flash(hud, "error") \in HudState
      /\ Flash(ShowProgress(hud), "error") \in HudState
  BY <1>1, HudKeepsItsType
<1>4. ASSUME NEW kind \in Kinds, NEW i \in Nat, NEW u \in Users, NEW q,
             CalledBy(i, kind), Ask(kind, i, u, q)
      PROVE  requests' \in SUBSET CalledRequests
  <2>1. [kind |-> kind, by |-> i, user |-> u] \in CalledRequests
    BY <1>4 DEF CalledRequests
  <2> QED
    BY <1>1, <1>4, <2>1 DEF Ask
<1>5. ASSUME NEW c, Touch(c)
      PROVE  SessionInv'
  <2>1. touches' \in SUBSET Touchable(sheet)
    BY <1>1, <1>5 DEF Touch, Touchable
  <2> QED
    BY <1>1, <1>5, <2>1, Unpushed DEF Touch, auth, adding
<1>6. ASSUME NEW c, Lift(c)
      PROVE  touches' \in SUBSET Touchable(sheet) /\ UNCHANGED screens
  BY <1>1, <1>6 DEF Lift
<1>7. ASSUME NEW valid \in BOOLEAN, NEW u \in Users, LoginTapped(valid, u)
      PROVE  SessionInv'
  <2>1. CalledBy(Top, "email") /\ "email" \in Kinds
    BY <1>1, <1>7, TouchesTell DEF LoginTapped, Lift, CalledBy, Callers, TopName, Kinds, SignIns
  <2>2. requests' \in SUBSET CalledRequests
    BY <1>1, <1>4, <1>7, <2>1 DEF LoginTapped
  <2>3. hud' \in HudState /\ disabled' \in SUBSET DOMAIN screens
    BY <1>1, <1>3, <1>7 DEF LoginTapped
  <2> QED
    BY <1>1, <1>6, <1>7, <2>2, <2>3, Unpushed DEF LoginTapped, adding
<1>8. ASSUME NEW valid \in BOOLEAN, NEW u \in Users, SignUpTapped(valid, u)
      PROVE  SessionInv'
  <2>1. CalledBy(Top, "create") /\ "create" \in Kinds
    BY <1>1, <1>8, TouchesTell DEF SignUpTapped, Lift, CalledBy, Callers, TopName, Kinds, SignIns
  <2>2. requests' \in SUBSET CalledRequests
    BY <1>1, <1>4, <1>8, <2>1 DEF SignUpTapped
  <2>3. hud' \in HudState
    BY <1>3, <1>8 DEF SignUpTapped
  <2> QED
    BY <1>1, <1>6, <1>8, <2>2, <2>3, Unpushed DEF SignUpTapped, adding
<1>9. CASE FacebookTapped
  <2>1. CalledBy(Top, "facebook")
    BY <1>1, <1>9, TouchesTell DEF FacebookTapped, Lift, CalledBy, Callers, TopName
  <2>2. dialog' = 0 \/ CalledBy(dialog', "facebook")
    BY <1>1, <1>9, <2>1 DEF FacebookTapped
  <2> QED
    BY <1>1, <1>6, <1>9, <2>2, Unpushed DEF FacebookTapped, adding
<1>10. CASE RegisterTapped
  <2>1. ToRegister(Top) \in CalledBlocks
    BY <1>1, <1>10, Routes, TouchesTell DEF RegisterTapped, Lift, TopName
  <2> QED
    BY <1>1, <1>2, <1>6, <1>10, <2>1, Unpushed DEF RegisterTapped, auth, adding
<1>11. CASE CancelTapped
  <2>1. ToLogin(Top) \in CalledBlocks
    BY <1>1, <1>11, Routes, TouchesTell DEF CancelTapped, Lift, TopName
  <2> QED
    BY <1>1, <1>2, <1>6, <1>11, <2>1, Unpushed DEF CancelTapped, auth, adding
<1>12. CASE LogoutTapped
  <2>1. ToLogin(Top) \in CalledBlocks
    BY <1>1, <1>12, Routes, TouchesTell DEF LogoutTapped, Lift, TopName
  <2>2. /\ mainQ' \in Seq(CalledBlocks)
        /\ account' \in Users \cup {NoUser} /\ token' \in BOOLEAN
    BY <1>1, <1>2, <1>12, <2>1 DEF LogoutTapped, SignOut
  <2> QED
    BY <1>1, <1>6, <1>12, <2>2, Unpushed DEF LogoutTapped, adding
<1>13. CASE ClearTapped
  <2>1. CalledBy(Top, "points") /\ "points" \in Kinds
    BY <1>1, <1>13, TouchesTell DEF ClearTapped, Lift, CalledBy, Callers, TopName, Kinds
  <2>2. requests' \in SUBSET CalledRequests
    BY <1>1, <1>4, <1>13, <2>1 DEF ClearTapped
  <2> QED
    BY <1>1, <1>3, <1>6, <1>13, <2>2, Unpushed DEF ClearTapped, adding
<1>13a. CASE AddTapped
  <2>1. TopName = "main"
    BY <1>13a, TouchesTell DEF AddTapped, Lift
  <2>2. /\ sheet' \in {"none", "up", "leaving"}
        /\ touches' \in SUBSET Touchable(sheet')
    <3>1. sheet' = "up" \/ sheet' = sheet
      BY <1>13a DEF AddTapped
    <3>2. Touchable(sheet) \subseteq Touchable("up")
      BY DEF Touchable
    <3> QED
      BY <1>6, <1>13a, <3>1, <3>2 DEF AddTapped, SessionInv, SheetInv
  <2>3. hud' \in HudState
    BY <1>1, <1>13a, HudKeepsItsType DEF AddTapped
  <2> QED
    BY <1>1, <1>6, <1>13a, <2>1, <2>2, <2>3, UnpushedSheet DEF AddTapped, auth
<1>13b. CASE SaveTapped
  <2>1. CalledBy(Top, "save") /\ "save" \in Kinds
    BY <1>1, <1>13b, TouchesTell DEF SaveTapped, Lift, CalledBy, Callers, TopName, Kinds
  <2>2. requests' \in SUBSET CalledRequests
    BY <1>1, <1>4, <1>13b, <2>1 DEF SaveTapped
  <2> QED
    BY <1>1, <1>3, <1>6, <1>13b, <2>2, Unpushed DEF SaveTapped, adding
<1>13c. CASE SheetSwiped
  <2>1. /\ sheet' \in {"none", "up", "leaving"} /\ (sheet' # "none" => sheet # "none")
        /\ touches' = touches \ SheetControls
    BY <1>13c DEF SheetSwiped, Leave, SessionInv, SheetInv
  <2>2. touches' \in SUBSET Touchable(sheet')
    BY <1>1, <2>1 DEF Touchable
  <2>3. UNCHANGED <<screens, disabled, hud, mainQ, requests, dialog, account, token>>
    BY <1>13c DEF SheetSwiped, auth
  <2> QED
    BY <1>1, <2>1, <2>2, <2>3, UnpushedSheet DEF SessionInv, SheetInv
<1>14. ASSUME NEW result, NEW u \in Users, DialogEnds(result, u)
       PROVE  SessionInv'
  <2>1. /\ dialog \in Nat /\ CalledBy(dialog, "facebook") /\ "facebook" \in Kinds
    BY <1>1, <1>14, TopIsThere DEF DialogEnds, CalledBy, Kinds, SignIns
  <2>2. requests' \in SUBSET CalledRequests /\ hud' \in HudState
    BY <1>1, <1>3, <1>4, <1>14, <2>1 DEF DialogEnds
  <2>3. token' \in BOOLEAN
    BY <1>14 DEF DialogEnds
  <2> QED
    BY <1>1, <1>14, <2>2, <2>3, Unpushed DEF DialogEnds, adding
<1> QED
  BY <1>5, <1>7, <1>8, <1>9, <1>10, <1>11, <1>12, <1>13, <1>13a, <1>13b, <1>13c, <1>14
  DEF User

(* The app as it is opened, by whoever is still signed in.                 *)
Opened ==
  /\ screens = Splash /\ sheet = "none" /\ disabled = {} /\ touches = {} /\ hud = HiddenHud
  /\ mainQ = Animation /\ requests = {} /\ dialog = 0
  /\ account \in Users \cup {NoUser} /\ token \in BOOLEAN

LEMMA OpenedInv == Opened => SessionInv
<1> SUFFICES ASSUME Opened PROVE SessionInv
  OBVIOUS
<1> USE DEF Opened
<1>1. /\ screens \in Seq(Screen) /\ screens # <<>> /\ screens[1].name = "splash"
      /\ Top = 1 /\ DOMAIN screens = {1} /\ TopName = "splash"
  <2>1. [name |-> "splash", uid |-> NoUser] \in Screen
    BY DEF Screen, Controls
  <2> QED
    BY <2>1 DEF Splash, Top, TopName
<1>2. mainQ \in Seq(CalledBlocks)
  <2>1. Block("fetch", TRUE, 1, 0) \in CalledBlocks
    BY <1>1, NewBlock DEF Doing, CalledBy, Callers
  <2>2. \A c \in CalledBlocks : <<c>> \in Seq(CalledBlocks)
    OBVIOUS
  <2> QED
    BY <2>1, <2>2 DEF Animation
<1>3. hud \in HudState
  BY DEF HiddenHud, HudState, Contents
<1>4. disabled \in SUBSET DOMAIN screens /\ SheetInv /\ requests \in SUBSET CalledRequests
  BY DEF SheetInv
<1>5. \A i \in 2..Top : screens[i].name # screens[i - 1].name
  BY <1>1
<1> QED
  BY <1>1, <1>2, <1>3, <1>4, <1>5 DEF SessionInv

LEMMA OpenedAgainInv == Opened' => SessionInv'
  BY OpenedInv, PTL

(* The queue when the saves in it have lost their sheet.                   *)
OrphansOf(q) == [k \in DOMAIN q |-> [q[k] EXCEPT !.do = Orphaned(@)]]

LEMMA OrphanedQueue ==
  ASSUME NEW S, NEW q \in Seq(S), NEW T,
         \A b \in S : [b EXCEPT !.do = Orphaned(@)] \in T
  PROVE  /\ OrphansOf(q) \in Seq(T) /\ DOMAIN OrphansOf(q) = DOMAIN q
         /\ \A k \in DOMAIN q : OrphansOf(q)[k] = [q[k] EXCEPT !.do = Orphaned(@)]
<1> DEFINE e(k) == [q[k] EXCEPT !.do = Orphaned(@)]
<1>1. DOMAIN q = 1..Len(q) /\ Len(q) \in Nat /\ \A k \in DOMAIN q : e(k) \in T
  OBVIOUS
<1>2. OrphansOf(q) = [k \in 1..Len(q) |-> e(k)]
  BY <1>1 DEF OrphansOf
<1> HIDE DEF e
<1>3. OrphansOf(q) \in [1..Len(q) -> T]
  BY <1>1, <1>2
<1>4. OrphansOf(q) \in Seq(T)
  BY <1>1, <1>3
<1> QED
  BY <1>1, <1>2, <1>4 DEF e

LEMMA SessionStep ==
  ASSUME SessionInv, [Next]_vars
  PROVE  SessionInv'
<1>1. /\ disabled \in SUBSET DOMAIN screens /\ touches \in SUBSET Touchable(sheet)
      /\ hud \in HudState /\ mainQ \in Seq(CalledBlocks)
      /\ requests \in SUBSET CalledRequests
      /\ dialog = 0 \/ CalledBy(dialog, "facebook")
      /\ account \in Users \cup {NoUser} /\ token \in BOOLEAN
  BY DEF SessionInv, SheetInv
<1>2. CASE User \/ Main
  BY <1>2, TouchedInv, ServedInv
<1>3. ASSUME NEW r \in requests, NEW ok \in BOOLEAN, FirebaseAnswers(r, ok)
      PROVE  SessionInv'
  <2>1. /\ r \in [kind : Kinds, by : Nat, user : Users] /\ CalledBy(r.by, r.kind)
    BY <1>1 DEF CalledRequests
  <2>2. Block(r.kind, ok, r.by, IF r.kind \in SignIns \ {"create"} THEN 1 ELSE 0)
          \in CalledBlocks
    BY <2>1, NewBlock DEF Doing
  <2>3. mainQ' \in Seq(CalledBlocks)
    BY <1>1, <1>3, <2>2 DEF FirebaseAnswers
  <2>4. account' \in Users \cup {NoUser} /\ requests' \in SUBSET CalledRequests
    BY <1>1, <1>3, <2>1 DEF FirebaseAnswers
  <2> QED
    BY <1>1, <1>3, <2>3, <2>4, Unpushed DEF FirebaseAnswers, view, adding
<1>4. CASE HudExpires \/ HudFades
  BY <1>1, <1>4, HudKeepsItsType, Unpushed DEF HudExpires, HudFades, auth, adding
<1>4a. CASE SheetGone
  <2>1. /\ sheet = "leaving" /\ sheet' = "none" /\ touches' = touches /\ hud' = Uncover(hud)
        /\ UNCHANGED <<screens, disabled, dialog, account, token>>
    BY <1>4a DEF SheetGone
  <2>2. touches' \in SUBSET Touchable(sheet')
    BY <1>1, <2>1 DEF Touchable
  <2>3. \A r \in CalledRequests : [r EXCEPT !.kind = Orphaned(@)] \in CalledRequests
    BY DEF CalledRequests, CalledBy, Callers, Orphaned, Kinds, SignIns
  <2>4. requests' \in SUBSET CalledRequests
    BY <1>1, <1>4a, <2>3 DEF SheetGone
  <2>5. mainQ' \in Seq(CalledBlocks)
    <3>1. \A b \in CalledBlocks : [b EXCEPT !.do = Orphaned(@)] \in CalledBlocks
      BY DEF CalledBlocks, CalledBy, Callers, Orphaned, Doing, Kinds, SignIns
    <3> QED
      BY <1>1, <1>4a, <3>1, OrphanedQueue DEF SheetGone, OrphansOf
  <2>6. hud' \in HudState
    BY <1>1, <2>1, HudKeepsItsType
  <2> QED
    BY <1>1, <2>1, <2>2, <2>4, <2>5, <2>6, UnpushedSheet
<1>5. CASE Launch
  <2>1. account' \in Users \cup {NoUser} /\ token' \in BOOLEAN
    BY <1>1, <1>5 DEF Launch
  <2>2. /\ screens' = Splash /\ sheet' = "none" /\ disabled' = {}
        /\ touches' = {} /\ hud' = HiddenHud
        /\ mainQ' = Animation /\ requests' = {} /\ dialog' = 0
    BY <1>5 DEF Launch
  <2> QED
    BY <2>1, <2>2, OpenedAgainInv DEF Opened
<1>6. CASE UNCHANGED vars
  BY <1>1, <1>6, Unpushed DEF vars, view, auth, adding
<1> QED
  BY <1>2, <1>3, <1>4, <1>4a, <1>5, <1>6 DEF Next, Firebase

LEMMA SessionInvariant == Spec => []SessionInv
<1>1. Init => SessionInv
  BY OpenedInv DEF Init, Opened
<1>2. SessionInv /\ [Next]_vars => SessionInv'
  BY SessionStep
<1> QED
  BY <1>1, <1>2, PTL DEF Spec

(* No screen is ever above one of its kind, however often fetchCurrentUser *)
(* and the completions route to it: a screen only routes to another kind,  *)
(* and UIKit refuses a screen that is covered.                             *)
THEOREM NeverTwice == Spec => []PresentedOnce
<1>1. SessionInv => PresentedOnce
  <2> SUFFICES ASSUME SessionInv PROVE PresentedOnce
    OBVIOUS
  <2>1. \A i \in DOMAIN screens : /\ screens[i].name \in DOMAIN Controls
                                  /\ screens[i].uid \in Users \cup {NoUser}
    <3>1. \A i \in DOMAIN screens : screens[i] \in Screen
      BY DEF SessionInv
    <3> QED
      BY <3>1 DEF Screen
  <2>2. \A i \in DOMAIN mainQ : mainQ[i].by \in DOMAIN screens
    <3> SUFFICES ASSUME NEW i \in DOMAIN mainQ PROVE mainQ[i].by \in DOMAIN screens
      OBVIOUS
    <3>1. mainQ[i] \in CalledBlocks
      BY DEF SessionInv
    <3> QED
      BY <3>1 DEF CalledBlocks, CalledBy
  <2>3. \A r \in requests : r.kind \in Kinds /\ r.by \in DOMAIN screens /\ r.user \in Users
    BY DEF SessionInv, CalledRequests, CalledBy
  <2>4. dialog \in {0} \cup DOMAIN screens
    BY DEF SessionInv, CalledBy
  <2> QED
    BY <2>1, <2>2, <2>3, <2>4 DEF SessionInv, SheetInv, Touchable, TypeOK, PresentedOnce
<1> QED
  BY <1>1, SessionInvariant, PTL

-----------------------------------------------------------------------------
(***************************************************************************)
(* The empty id.                                                           *)
(***************************************************************************)

(* A route to the chart, or a sign-in that was granted, is for somebody as *)
(* long as the screen it came from is on top; only the splash screen       *)
(* routes there with no more than a token.                                 *)
Granted(b) ==
  /\ b.by = Top
  /\ b.do = "main" \/ (b.do \in {"email", "facebook", "enter"} /\ b.ok)
  => account # NoUser \/ (TopName = "splash" /\ token)

GrantedBlocks == {b \in CalledBlocks : Granted(b)}

(* The chart on top will be covered by the login screen.                   *)
LogsOut(q) == \E k \in DOMAIN q : q[k].do = "login" /\ q[k].by = Top

IdInv ==
  /\ mainQ \in Seq(GrantedBlocks)
  /\ TopName = "main" /\ account = NoUser => LogsOut(mainQ) \/ stranded
  /\ EmptyIdExplained

LEMMA AppendedIndices ==
  ASSUME NEW S, NEW q \in Seq(S), NEW b \in S
  PROVE  /\ Append(q, b) \in Seq(S)
         /\ DOMAIN q = 1..Len(q) /\ Len(q) \in Nat
         /\ DOMAIN Append(q, b) = 1..(Len(q) + 1)
         /\ \A k \in DOMAIN q : k \in DOMAIN Append(q, b) /\ Append(q, b)[k] = q[k]
         /\ Append(q, b)[Len(q) + 1] = b
  OBVIOUS

LEMMA TailIndices ==
  ASSUME NEW S, NEW q \in Seq(S), q # <<>>
  PROVE  /\ Tail(q) \in Seq(S) /\ Head(q) \in S
         /\ DOMAIN q = 1..Len(q) /\ Len(q) \in Nat
         /\ 1 \in DOMAIN q /\ q[1] = Head(q)
         /\ DOMAIN Tail(q) = 1..(Len(q) - 1)
         /\ \A k \in DOMAIN Tail(q) : k + 1 \in DOMAIN q /\ Tail(q)[k] = q[k + 1]
         /\ \A k \in DOMAIN q \ {1} : k - 1 \in DOMAIN Tail(q) /\ Tail(q)[k - 1] = q[k]
  OBVIOUS

LEMMA LogsOutAppended ==
  ASSUME NEW S, NEW q \in Seq(S), NEW b \in S,
         LogsOut(q) \/ (b.do = "login" /\ b.by = Top)
  PROVE  LogsOut(Append(q, b))
<1>1. CASE LogsOut(q)
  BY <1>1, AppendedIndices DEF LogsOut
<1>2. CASE b.do = "login" /\ b.by = Top
  <2>1. Len(q) + 1 \in DOMAIN Append(q, b) /\ Append(q, b)[Len(q) + 1] = b
    BY AppendedIndices
  <2> QED
    BY <1>2, <2>1 DEF LogsOut
<1> QED
  BY <1>1, <1>2

LEMMA LogsOutRests ==
  ASSUME NEW S, NEW q \in Seq(S), q # <<>>, LogsOut(q),
         ~(Head(q).do = "login" /\ Head(q).by = Top)
  PROVE  LogsOut(Tail(q))
<1>1. PICK k \in DOMAIN q : q[k].do = "login" /\ q[k].by = Top
  BY DEF LogsOut
<1>2. k # 1
  BY <1>1, TailIndices
<1>3. k - 1 \in DOMAIN Tail(q) /\ Tail(q)[k - 1] = q[k]
  BY <1>2, TailIndices
<1> QED
  BY <1>1, <1>3 DEF LogsOut

(* What was granted stays granted.                                         *)
LEMMA GrantsKept ==
  ASSUME SessionInv, UNCHANGED screens,
         \/ account' # NoUser
         \/ account' = account /\ (token' = token \/ token' = TRUE)
         \/ TopName = "main"
         \/ TopName = "login" /\ account' = account
  PROVE  GrantedBlocks \subseteq GrantedBlocks'
<1>1. Top' = Top /\ TopName' = TopName
  BY DEF Top, TopName
<1>2. CalledBlocks' = CalledBlocks
  BY DEF CalledBlocks, CalledBy
<1> SUFFICES ASSUME NEW b \in GrantedBlocks PROVE Granted(b)'
  BY <1>2 DEF GrantedBlocks
<1>3. TopName = "main" /\ b.by = Top
      => b.do \notin {"main", "email", "facebook", "enter"}
  BY DEF GrantedBlocks, CalledBlocks, CalledBy, Callers, TopName
<1> QED
  BY <1>1, <1>3 DEF GrantedBlocks, Granted

LEMMA GrantsPushed ==
  ASSUME SessionInv, NEW name, NEW uid, Pushed(name, uid)
  PROVE  /\ CalledBlocks \subseteq GrantedBlocks'
         /\ Top' = Top + 1 /\ TopName' = name
<1>1. /\ screens \in Seq(Screen) /\ Len(screens) = Top /\ Top \in Nat
      /\ DOMAIN screens = 1..Top
  BY TopIsThere DEF SessionInv, Top
<1>2. screens' = Append(screens, [name |-> name, uid |-> uid])
  BY DEF Pushed
<1>3. /\ Len(screens') = Top + 1
      /\ \A i \in 1..Top : screens'[i] = screens[i]
      /\ screens'[Top + 1] = [name |-> name, uid |-> uid]
      /\ DOMAIN screens' = 1..(Top + 1)
  BY <1>1, <1>2
<1>4. Top' = Top + 1 /\ TopName' = name
  BY <1>3 DEF Top, TopName
<1>5. ASSUME NEW b \in CalledBlocks
      PROVE  b \in GrantedBlocks'
  <2>1. b.by \in 1..Top
    BY <1>1, <1>5 DEF CalledBlocks, CalledBy
  <2>2. CalledBy(b.by, b.do)'
    BY <1>1, <1>3, <1>5, <2>1 DEF CalledBlocks, CalledBy
  <2>3. Granted(b)'
    BY <1>1, <1>4, <2>1 DEF Granted
  <2> QED
    BY <1>5, <2>2, <2>3 DEF GrantedBlocks, CalledBlocks
<1> QED
  BY <1>4, <1>5

(* The steps of the main queue.                                            *)
LEMMA ServedId ==
  ASSUME SessionInv, IdInv, Main
  PROVE  IdInv'
<1> DEFINE b == Head(mainQ)
           q == Tail(mainQ)
<1>1. mainQ # <<>> /\ crashed = "no"
  BY DEF Main, Hop, PresentForm, PresentMain, FetchCurrentUser, SignedIn, LoginRefused,
     EnterRefused, PointsAnswered, EntryPointSaved, SaveUnheeded, Registered, Queued,
     Running
<1>2. /\ mainQ \in Seq(GrantedBlocks) /\ q \in Seq(GrantedBlocks) /\ b \in GrantedBlocks
      /\ b \in CalledBlocks /\ b.by \in Nat /\ By = b.by
      /\ CalledBy(b.by, b.do) /\ Granted(b)
  <2>1. mainQ \in Seq(GrantedBlocks)
    BY DEF IdInv
  <2>2. q \in Seq(GrantedBlocks) /\ b \in GrantedBlocks
    BY <1>1, <2>1
  <2> QED
    BY <2>1, <2>2 DEF GrantedBlocks, CalledBlocks, By
<1>3. /\ account \in Users \cup {NoUser} /\ token \in BOOLEAN
      /\ Top \in Nat /\ 1 \in DOMAIN screens /\ screens[1].name = "splash"
      /\ Top >= 1
  BY TopIsThere DEF SessionInv
<1>4. TopName = "main" /\ account = NoUser /\ ~(b.do = "login" /\ b.by = Top)
      => LogsOut(q) \/ stranded
  BY <1>1, <1>2, LogsOutRests DEF IdInv
<1>5. ASSUME UNCHANGED <<screens, account, token>>
      PROVE  /\ GrantedBlocks \subseteq GrantedBlocks'
             /\ Top' = Top /\ TopName' = TopName
             /\ \A p : LogsOut(p)' <=> LogsOut(p)
  BY <1>5, GrantsKept DEF Top, TopName, LogsOut
<1>6. \A c \in GrantedBlocks : Append(q, c) \in Seq(GrantedBlocks)
  BY <1>2
<1>6a. ASSUME NEW c \in GrantedBlocks, LogsOut(q)
       PROVE  LogsOut(Append(q, c))
  BY <1>2, <1>6a, LogsOutAppended
<1>7. ASSUME NEW c \in GrantedBlocks, UNCHANGED <<screens, account, token, stranded>>,
             crashed' = "no", b.do # "login", mainQ' = q \/ mainQ' = Append(q, c)
      PROVE  IdInv'
  <2>1. mainQ' \in Seq(GrantedBlocks)
    BY <1>2, <1>6, <1>7
  <2>2. mainQ' \in Seq(GrantedBlocks')
    BY <1>5, <1>7, <2>1
  <2>3. TopName = "main" /\ account = NoUser => LogsOut(mainQ') \/ stranded
    BY <1>4, <1>7, <1>6a
  <2> QED
    BY <1>5, <1>7, <2>2, <2>3 DEF IdInv, EmptyIdExplained
<1>8. CASE Hop
  <2> DEFINE c == [b EXCEPT !.hops = @ - 1]
  <2>1. c \in GrantedBlocks /\ c.do = b.do /\ c.by = b.by
    <3>1. /\ b \in [do : Doing, ok : BOOLEAN, by : Nat, hops : Nat] /\ b.hops - 1 \in Nat
      BY <1>2, <1>8 DEF Hop, CalledBlocks
    <3>2. /\ c \in [do : Doing, ok : BOOLEAN, by : Nat, hops : Nat]
          /\ c.do = b.do /\ c.by = b.by /\ c.ok = b.ok
      BY <3>1
    <3> QED
      BY <1>2, <3>2 DEF GrantedBlocks, CalledBlocks, Granted
  <2>2. /\ UNCHANGED <<screens, account, token, stranded, crashed>> /\ mainQ' = Append(q, c)
    BY <1>8 DEF Hop, view, adding, auth
  <2>3. TopName = "main" /\ account = NoUser => LogsOut(Append(q, c)) \/ stranded
    <3>1. CASE b.do = "login" /\ b.by = Top
      BY <1>2, <2>1, <3>1, LogsOutAppended
    <3>2. CASE ~(b.do = "login" /\ b.by = Top)
      BY <1>4, <1>6a, <2>1, <3>2
    <3> QED
      BY <3>1, <3>2
  <2>4. Append(q, c) \in Seq(GrantedBlocks')
    <3>1. Append(q, c) \in Seq(GrantedBlocks)
      BY <1>6, <2>1
    <3> QED
      BY <1>5, <2>2, <3>1
  <2> QED
    BY <1>1, <1>5, <2>2, <2>3, <2>4 DEF IdInv, EmptyIdExplained
<1>9. ASSUME NEW name, NEW uid, Pushed(name, uid), name # "main" \/ account # NoUser,
             mainQ' = q, UNCHANGED <<account, crashed>>
      PROVE  IdInv'
  <2>1. CalledBlocks \subseteq GrantedBlocks' /\ TopName' = name
    BY <1>9, GrantsPushed
  <2>2. q \in Seq(CalledBlocks)
    BY <1>1, HeadIsCalled
  <2>3. mainQ' \in Seq(GrantedBlocks')
    BY <1>9, <2>1, <2>2
  <2> QED
    BY <1>1, <1>9, <2>1, <2>3 DEF IdInv, EmptyIdExplained
<1>10. CASE PresentForm
  <2>1. CASE Presents
    <3>1. b.do # "main" /\ Pushed(b.do, NoUser) /\ mainQ' = q /\ UNCHANGED <<account, crashed>>
      BY <1>10, <2>1 DEF PresentForm, Queued, auth
    <3> QED
      BY <1>9, <3>1
  <2>2. CASE ~Presents
    <3>1. /\ UNCHANGED <<screens, account, token, crashed>> /\ mainQ' = q
          /\ stranded' = (stranded \/ (b.do = "login" /\ By = Top))
      BY <1>10, <2>2 DEF PresentForm, auth
    <3>2. q \in Seq(GrantedBlocks')
      BY <1>2, <1>5, <3>1
    <3>3. TopName = "main" /\ account = NoUser => LogsOut(q) \/ stranded'
      BY <1>2, <1>4, <3>1
    <3> QED
      BY <1>1, <1>4, <1>5, <3>1, <3>2, <3>3 DEF IdInv, EmptyIdExplained
  <2> QED
    BY <2>1, <2>2
<1>11. CASE PresentMain
  <2>1. b.do = "main" /\ mainQ' = q /\ UNCHANGED <<account, token>>
    BY <1>11 DEF PresentMain, Queued, auth
  <2>2. CASE Presents /\ account # NoUser
    <3>1. Pushed("main", account) /\ UNCHANGED <<account, crashed>>
      BY <1>11, <2>2 DEF PresentMain, auth
    <3> QED
      BY <1>9, <2>1, <2>2, <3>1
  <2>3. CASE ~Presents
    <3>1. UNCHANGED <<screens, stranded>> /\ crashed' = "no"
      BY <1>11, <2>3 DEF PresentMain, adding
    <3> QED
      BY <1>2, <1>7, <2>1, <3>1
  <2>4. CASE Presents /\ account = NoUser
    <3>1. UNCHANGED screens
      BY <1>11, <2>4 DEF PresentMain
    <3>2. token /\ TopName = "splash"
      BY <1>2, <2>1, <2>4 DEF Granted, Presents
    <3>3. q \in Seq(GrantedBlocks')
      BY <1>2, <1>5, <2>1, <3>1
    <3> QED
      BY <1>5, <2>1, <3>1, <3>2, <3>3 DEF IdInv, EmptyIdExplained
  <2> QED
    BY <2>2, <2>3, <2>4
<1>12. CASE FetchCurrentUser
  <2>1. UNCHANGED <<screens, account, token, stranded, crashed>> /\ b.do = "fetch"
    BY <1>12 DEF FetchCurrentUser, Queued, view, adding
  <2>2. CASE token \/ account # NoUser
    <3>1. ToMain(1) \in CalledBlocks
      BY <1>3, Routes
    <3>2. Granted(ToMain(1))
      BY <1>3, <2>2 DEF Granted, ToMain, Block, TopName
    <3>3. mainQ' = Append(q, ToMain(1))
      BY <1>12, <2>2 DEF FetchCurrentUser
    <3> QED
      BY <1>1, <1>7, <2>1, <3>1, <3>2, <3>3 DEF GrantedBlocks
  <2>3. CASE ~(token \/ account # NoUser)
    <3>1. ToLogin(1) \in GrantedBlocks
      BY <1>3, Routes DEF GrantedBlocks, Granted, ToLogin, Block
    <3>2. \/ mainQ' = q \o <<>> \o <<ToLogin(1)>>
          \/ mainQ' = q \o <<ToLogin(1)>> \o <<ToLogin(1)>>
      BY <1>12, <2>3 DEF FetchCurrentUser
    <3>3. /\ q \o <<>> \o <<ToLogin(1)>> = Append(q, ToLogin(1))
          /\ q \o <<ToLogin(1)>> \o <<ToLogin(1)>> = Append(Append(q, ToLogin(1)), ToLogin(1))
      BY <1>2, <3>1
    <3>4. LogsOut(q) => /\ LogsOut(Append(q, ToLogin(1)))
                        /\ LogsOut(Append(Append(q, ToLogin(1)), ToLogin(1)))
      <4>1. Append(q, ToLogin(1)) \in Seq(GrantedBlocks)
        BY <1>6, <3>1
      <4> QED
        BY <1>6a, <3>1, <4>1, LogsOutAppended
    <3>5. mainQ' \in Seq(GrantedBlocks)
      <4>1. Append(q, ToLogin(1)) \in Seq(GrantedBlocks)
        BY <1>6, <3>1
      <4>2. Append(Append(q, ToLogin(1)), ToLogin(1)) \in Seq(GrantedBlocks)
        BY <3>1, <4>1
      <4> QED
        BY <3>2, <3>3, <4>1, <4>2
    <3>6. mainQ' \in Seq(GrantedBlocks')
      BY <1>5, <2>1, <3>5
    <3>7. TopName = "main" /\ account = NoUser => LogsOut(mainQ') \/ stranded
      BY <1>4, <2>1, <3>2, <3>3, <3>4
    <3> QED
      BY <1>1, <1>5, <2>1, <3>6, <3>7 DEF IdInv, EmptyIdExplained
  <2> QED
    BY <2>2, <2>3
<1>13. CASE SignedIn
  <2>1. /\ UNCHANGED <<screens, account, token, stranded, crashed>>
        /\ mainQ' = Append(q, ToMain(b.by))
        /\ b.do \in {"email", "facebook", "enter"} /\ b.ok
    BY <1>2, <1>13 DEF SignedIn, Queued, auth, adding, Ok
  <2>2. ToMain(b.by) \in GrantedBlocks
    <3>1. ToMain(b.by) \in CalledBlocks
      BY <1>2, <2>1, Routes DEF CalledBy, Callers
    <3> QED
      BY <1>2, <2>1, <3>1 DEF GrantedBlocks, Granted, ToMain, Block
  <2> QED
    BY <1>1, <1>7, <2>1, <2>2
<1>14. CASE EnterRefused
  <2>1. /\ UNCHANGED <<screens, account, token, stranded, crashed>>
        /\ mainQ' = Append(q, ToLogin(b.by))
        /\ b.do = "enter"
    BY <1>2, <1>14 DEF EnterRefused, Queued, auth, adding
  <2>2. ToLogin(b.by) \in GrantedBlocks
    <3>1. ToLogin(b.by) \in CalledBlocks
      BY <1>2, <2>1, Routes DEF CalledBy, Callers
    <3> QED
      BY <3>1 DEF GrantedBlocks, Granted, ToLogin, Block
  <2> QED
    BY <1>1, <1>7, <2>1, <2>2
<1>15. CASE \/ LoginRefused \/ PointsAnswered \/ EntryPointSaved \/ SaveUnheeded
             \/ \E u \in Users : Registered(u)
  <2>1. /\ UNCHANGED <<screens, account, token, stranded, crashed>> /\ mainQ' = q
        /\ b.do # "login"
    BY <1>15 DEF LoginRefused, PointsAnswered, EntryPointSaved, SaveUnheeded, Registered,
       Queued, auth, adding
  <2> QED
    BY <1>1, <1>2, <1>7, <2>1
<1> QED
  BY <1>8, <1>10, <1>11, <1>12, <1>13, <1>14, <1>15 DEF Main

(* What the user does.                                                     *)
LEMMA TouchedId ==
  ASSUME SessionInv, IdInv, User
  PROVE  IdInv'
<1>1. /\ mainQ \in Seq(GrantedBlocks) /\ Top \in Nat /\ Top \in DOMAIN screens
      /\ TopName = "main" /\ account = NoUser => LogsOut(mainQ) \/ stranded
  BY TopIsThere DEF IdInv
<1>2. crashed = "no" /\ UNCHANGED <<screens, stranded>>
  BY DEF User, Touch, LoginTapped, SignUpTapped, FacebookTapped, RegisterTapped,
     CancelTapped, LogoutTapped, ClearTapped, AddTapped, SaveTapped, SheetSwiped,
     DialogEnds, Lift, Running, adding
<1>3. Top' = Top /\ TopName' = TopName /\ \A p : LogsOut(p)' <=> LogsOut(p)
  BY <1>2 DEF Top, TopName, LogsOut
<1>4. ASSUME mainQ' = mainQ, account' = account, crashed' # "noId",
             token' = token \/ token' = TRUE \/ TopName = "login"
      PROVE  IdInv'
  <2>1. GrantedBlocks \subseteq GrantedBlocks'
    BY <1>2, <1>4, GrantsKept
  <2>2. mainQ' \in Seq(GrantedBlocks')
    BY <1>1, <1>4, <2>1
  <2> QED
    BY <1>1, <1>2, <1>3, <1>4, <2>2 DEF IdInv, EmptyIdExplained
<1>5. ASSUME NEW c \in CalledBlocks, c.do \in {"login", "register"},
             mainQ' = Append(mainQ, c), crashed' = crashed,
             \/ UNCHANGED <<account, token>>
             \/ TopName = "main" /\ c.do = "login" /\ c.by = Top
      PROVE  IdInv'
  <2>1. GrantedBlocks \subseteq GrantedBlocks'
    BY <1>2, <1>5, GrantsKept
  <2>2. c \in GrantedBlocks
    BY <1>5 DEF GrantedBlocks, Granted
  <2>3. mainQ' \in Seq(GrantedBlocks)
    BY <1>1, <1>5, <2>2
  <2>4. mainQ' \in Seq(GrantedBlocks')
    BY <2>1, <2>3
  <2>5. TopName = "main" /\ account' = NoUser => LogsOut(mainQ') \/ stranded
    BY <1>1, <1>5, <2>2, LogsOutAppended
  <2> QED
    BY <1>2, <1>3, <1>5, <2>4, <2>5 DEF IdInv, EmptyIdExplained
<1>6. ASSUME NEW c, Touch(c)
      PROVE  IdInv'
  BY <1>2, <1>4, <1>6 DEF Touch, auth
<1>7. ASSUME NEW valid \in BOOLEAN, NEW u \in Users,
             LoginTapped(valid, u) \/ SignUpTapped(valid, u)
      PROVE  IdInv'
  BY <1>2, <1>4, <1>7 DEF LoginTapped, SignUpTapped
<1>8. CASE FacebookTapped
  <2>1. TopName = "login"
    BY <1>8, TouchesTell DEF FacebookTapped, Lift
  <2> QED
    BY <1>2, <1>4, <1>8, <2>1 DEF FacebookTapped
<1>9. CASE RegisterTapped
  <2>1. ToRegister(Top) \in CalledBlocks /\ ToRegister(Top).do = "register"
    BY <1>1, <1>9, Routes, TouchesTell
    DEF RegisterTapped, Lift, TopName, ToRegister, Block
  <2> QED
    BY <1>5, <1>9, <2>1 DEF RegisterTapped, auth
<1>10. CASE CancelTapped
  <2>1. ToLogin(Top) \in CalledBlocks /\ ToLogin(Top).do = "login"
    BY <1>1, <1>10, Routes, TouchesTell DEF CancelTapped, Lift, TopName, ToLogin, Block
  <2> QED
    BY <1>5, <1>10, <2>1 DEF CancelTapped, auth
<1>11. CASE LogoutTapped
  <2>1. /\ ToLogin(Top) \in CalledBlocks /\ ToLogin(Top).do = "login"
        /\ ToLogin(Top).by = Top /\ TopName = "main"
    BY <1>1, <1>11, Routes, TouchesTell DEF LogoutTapped, Lift, TopName, ToLogin, Block
  <2>2. CASE mainQ' = Append(mainQ, ToLogin(Top))
    BY <1>5, <1>11, <2>1, <2>2 DEF LogoutTapped
  <2>3. CASE UNCHANGED <<account, token, mainQ>>
    BY <1>2, <1>4, <1>11, <2>3 DEF LogoutTapped
  <2> QED
    BY <1>11, <2>2, <2>3 DEF LogoutTapped, SignOut
<1>11a. CASE AddTapped \/ SheetSwiped
  BY <1>2, <1>4, <1>11a DEF AddTapped, SheetSwiped, auth
<1>12. CASE ClearTapped \/ SaveTapped
  <2>1. TopName = "main" /\ UNCHANGED <<account, token, mainQ>>
    BY <1>12, TouchesTell DEF ClearTapped, SaveTapped, Lift
  <2>2. CASE account # NoUser
    BY <1>2, <1>4, <1>12, <2>1, <2>2 DEF ClearTapped, SaveTapped
  <2>3. CASE account = NoUser
    <3>1. GrantedBlocks \subseteq GrantedBlocks'
      BY <1>2, <2>1, GrantsKept
    <3>2. mainQ' \in Seq(GrantedBlocks')
      BY <1>1, <2>1, <3>1
    <3>3. (stranded \/ \E k \in DOMAIN mainQ : mainQ[k].do = "login" /\ mainQ[k].by = Top)'
      BY <1>1, <1>2, <1>3, <2>1, <2>3 DEF LogsOut
    <3> QED
      BY <1>1, <1>2, <1>3, <2>1, <2>3, <3>2, <3>3 DEF IdInv, EmptyIdExplained
  <2> QED
    BY <2>2, <2>3
<1>13. ASSUME NEW result, NEW u \in Users, DialogEnds(result, u)
       PROVE  IdInv'
  <2>1. token \in BOOLEAN
    BY DEF SessionInv
  <2>2. token' = token \/ token' = TRUE
    BY <1>13, <2>1 DEF DialogEnds
  <2>3. mainQ' = mainQ /\ account' = account /\ crashed' # "noId"
    BY <1>2, <1>13 DEF DialogEnds
  <2> QED
    BY <1>4, <2>2, <2>3
<1> QED
  BY <1>6, <1>7, <1>8, <1>9, <1>10, <1>11, <1>11a, <1>12, <1>13 DEF User

LEMMA OpenedId == Opened /\ crashed = "no" => IdInv
<1> SUFFICES ASSUME Opened, crashed = "no" PROVE IdInv
  OBVIOUS
<1>1. SessionInv /\ TopName = "splash"
  BY OpenedInv DEF Opened, Splash, TopName, Top
<1> DEFINE c == Block("fetch", TRUE, 1, 0)
<1>2. mainQ \in Seq(CalledBlocks) /\ mainQ = <<c>> /\ c.do = "fetch"
  BY <1>1 DEF SessionInv, Opened, Animation, Block
<1>3. mainQ \in Seq(GrantedBlocks)
  <2> HIDE DEF c
  <2>1. c \in CalledBlocks
    BY <1>2
  <2>2. c \in GrantedBlocks
    BY <1>2, <2>1 DEF GrantedBlocks, Granted
  <2>3. <<c>> \in Seq(GrantedBlocks)
    BY <2>2
  <2> QED
    BY <1>2, <2>3
<1> QED
  BY <1>1, <1>3 DEF Opened, IdInv, EmptyIdExplained

LEMMA OpenedAgainId == (Opened /\ crashed = "no")' => IdInv'
  BY OpenedId, PTL

LEMMA IdStep ==
  ASSUME SessionInv, IdInv, [Next]_vars
  PROVE  IdInv'
<1>1. mainQ \in Seq(GrantedBlocks) /\ account \in Users \cup {NoUser}
  BY DEF IdInv, SessionInv
<1>2. CASE User \/ Main
  BY <1>2, TouchedId, ServedId
<1>3. ASSUME UNCHANGED <<screens, account, token, mainQ, stranded, crashed>>
      PROVE  IdInv'
  <2>1. GrantedBlocks \subseteq GrantedBlocks'
    BY <1>3, GrantsKept
  <2>2. mainQ' \in Seq(GrantedBlocks')
    BY <1>1, <1>3, <2>1
  <2>3. Top' = Top /\ TopName' = TopName
    BY <1>3 DEF Top, TopName
  <2> QED
    BY <1>3, <2>2, <2>3 DEF IdInv, EmptyIdExplained, LogsOut
<1>4. ASSUME NEW r \in requests, NEW ok \in BOOLEAN, FirebaseAnswers(r, ok)
      PROVE  IdInv'
  <2> DEFINE c == Block(r.kind, ok, r.by, IF r.kind \in SignIns \ {"create"} THEN 1 ELSE 0)
  <2>1. /\ r \in [kind : Kinds, by : Nat, user : Users] /\ CalledBy(r.by, r.kind)
    BY DEF SessionInv, CalledRequests
  <2>2. /\ UNCHANGED <<screens, token, stranded>> /\ crashed = "no" /\ crashed' = "no"
        /\ mainQ' = Append(mainQ, c)
        /\ account' = (IF ok /\ r.kind \in SignIns THEN r.user ELSE account)
    BY <1>4 DEF FirebaseAnswers, view, adding, Running
  <2>3. r.user # NoUser
    BY <2>1, UsersAssumption
  <2>4. Top' = Top /\ TopName' = TopName
    BY <2>2 DEF Top, TopName
  <2>5. GrantedBlocks \subseteq GrantedBlocks' /\ CalledBlocks' = CalledBlocks
    BY <2>2, <2>3, GrantsKept DEF CalledBlocks, CalledBy
  <2>6. c \in GrantedBlocks'
    <3>1. c \in CalledBlocks
      BY <2>1, NewBlock DEF Doing
    <3>2. r.kind # "main"
      BY <2>1 DEF Kinds, SignIns
    <3>3. Granted(c)'
      BY <2>2, <2>3, <3>2 DEF Granted, Block, SignIns
    <3> QED
      BY <2>5, <3>1, <3>3 DEF GrantedBlocks
  <2>7. mainQ \in Seq(GrantedBlocks')
    BY <1>1, <2>5
  <2>8. mainQ' \in Seq(GrantedBlocks')
    BY <2>2, <2>6, <2>7
  <2>9. TopName = "main" /\ account' = NoUser => LogsOut(mainQ') \/ stranded
    <3>1. account' = NoUser => account = NoUser
      BY <2>2, <2>3
    <3> QED
      BY <2>2, <2>6, <2>7, <3>1, LogsOutAppended DEF IdInv
  <2> QED
    BY <2>2, <2>4, <2>8, <2>9 DEF IdInv, EmptyIdExplained, LogsOut
<1>4a. CASE SheetGone
  <2>1. /\ UNCHANGED <<screens, account, token, stranded, crashed>>
        /\ mainQ' = OrphansOf(mainQ) /\ crashed = "no"
    BY <1>4a DEF SheetGone, OrphansOf, Running
  <2>2. \A c \in GrantedBlocks : [c EXCEPT !.do = Orphaned(@)] \in GrantedBlocks
    <3>1. SUFFICES ASSUME NEW c \in GrantedBlocks
                   PROVE  [c EXCEPT !.do = Orphaned(@)] \in GrantedBlocks
      OBVIOUS
    <3>2. c \in CalledBlocks
      BY DEF GrantedBlocks
    <3>3. CASE c.do = "save"
      BY <3>2, <3>3
      DEF GrantedBlocks, Granted, CalledBlocks, CalledBy, Callers, Orphaned, Doing, Kinds
    <3>4. CASE c.do # "save"
      <4>1. [c EXCEPT !.do = Orphaned(@)] = c
        BY <3>2, <3>4 DEF Orphaned, CalledBlocks
      <4> QED
        BY <4>1
    <3> QED
      BY <3>3, <3>4
  <2>3. GrantedBlocks \subseteq GrantedBlocks'
    BY <2>1, GrantsKept
  <2>4. mainQ' \in Seq(GrantedBlocks')
    <3>1. mainQ' \in Seq(GrantedBlocks)
      BY <1>1, <2>1, <2>2, OrphanedQueue
    <3> QED
      BY <2>3, <3>1
  <2>5. LogsOut(mainQ) => LogsOut(mainQ')
    <3>1. /\ DOMAIN OrphansOf(mainQ) = DOMAIN mainQ
          /\ \A k \in DOMAIN mainQ : OrphansOf(mainQ)[k] = [mainQ[k] EXCEPT !.do = Orphaned(@)]
      BY <1>1, <2>2, OrphanedQueue
    <3>2. \A k \in DOMAIN mainQ : mainQ[k] \in CalledBlocks
      BY <1>1 DEF GrantedBlocks
    <3> QED
      BY <2>1, <3>1, <3>2 DEF LogsOut, Orphaned, CalledBlocks
  <2>6. Top' = Top /\ TopName' = TopName
    BY <2>1 DEF Top, TopName
  <2> QED
    BY <2>1, <2>4, <2>5, <2>6 DEF IdInv, EmptyIdExplained, LogsOut
<1>5. CASE HudExpires \/ HudFades
  BY <1>3, <1>5 DEF HudExpires, HudFades, auth, adding
<1>6. CASE Launch
  <2>1. Opened' /\ crashed' = "no"
    BY <1>6 DEF Launch, Opened, SessionInv
  <2> QED
    BY <2>1, OpenedAgainId
<1>7. CASE UNCHANGED vars
  BY <1>3, <1>7 DEF vars, view, adding, auth
<1> QED
  BY <1>2, <1>4, <1>4a, <1>5, <1>6, <1>7 DEF Next, Firebase

(* The empty id only ever comes from a Facebook token that outlived a      *)
(* sign-in, or from a chart or its sheet after the log-out: before the     *)
(* login screen is there, or when the sheet kept it away.                  *)
THEOREM EmptyIdIsExplained == Spec => []EmptyIdExplained
<1>1. Init => IdInv
  BY OpenedId DEF Init, Opened
<1>2. SessionInv /\ IdInv /\ [Next]_vars => IdInv'
  BY IdStep
<1>3. IdInv => EmptyIdExplained
  BY DEF IdInv
<1> QED
  BY <1>1, <1>2, <1>3, SessionInvariant, PTL DEF Spec

-----------------------------------------------------------------------------
(***************************************************************************)
(* Whose points the chart shows.  Unless two sign-ins overlapped there is  *)
(* at most one under way: a dialog, a request or a block; and the chart is *)
(* on the screen only when there is none.                                  *)
(***************************************************************************)
SignsIn(b) == b.do \in SignIns \cup {"main"}

Quiet(q) == \A k \in DOMAIN q : ~SignsIn(q[k])
Alone(q) == \A k, l \in DOMAIN q : SignsIn(q[k]) /\ SignsIn(q[l]) => k = l
Asked(rs) == \E r \in rs : r.kind \in SignIns
AskedOnce(rs) == \A r, s \in rs : r.kind \in SignIns /\ s.kind \in SignIns => r = s

OneSignIn(q, rs, d) ==
  /\ Alone(q) /\ AskedOnce(rs)
  /\ Asked(rs) => Quiet(q)
  /\ d # 0 => Quiet(q) /\ ~Asked(rs)

\* the splash screen is still animated, and nothing else goes on
Fetching == Top = 1 /\ mainQ = Animation /\ requests = {} /\ dialog = 0

ChartInv ==
  /\ overlapped \in BOOLEAN
  /\ Fetching \/ \A k \in DOMAIN mainQ : mainQ[k].do # "fetch"
  /\ ~overlapped => OneSignIn(mainQ, requests, dialog)
  /\ ~overlapped /\ TopName = "main" =>
       /\ Quiet(mainQ) /\ ~Asked(requests) /\ dialog = 0
       /\ screens[Top].uid = account \/ account = NoUser

LEMMA UnderWayIs ==
  ASSUME NEW q
  PROVE  UnderWay(q) <=> dialog # 0 \/ Asked(requests) \/ ~Quiet(q)
  BY DEF UnderWay, Asked, Quiet, SignsIn

LEMMA AppendedSignIns ==
  ASSUME NEW S, NEW q \in Seq(S), NEW b \in S
  PROVE  /\ Quiet(q) => Alone(q) /\ Alone(Append(q, b))
         /\ Quiet(q) /\ ~SignsIn(b) => Quiet(Append(q, b))
         /\ Alone(q) /\ ~SignsIn(b) => Alone(Append(q, b))
<1>1. /\ DOMAIN q = 1..Len(q) /\ Len(q) \in Nat
      /\ DOMAIN Append(q, b) = 1..(Len(q) + 1)
      /\ \A k \in 1..Len(q) : Append(q, b)[k] = q[k]
      /\ Append(q, b)[Len(q) + 1] = b
  BY AppendedIndices
<1>2. \A k \in DOMAIN Append(q, b) :
        (k \in DOMAIN q /\ Append(q, b)[k] = q[k]) \/ (k = Len(q) + 1 /\ Append(q, b)[k] = b)
  BY <1>1
<1> HIDE <1>1
<1>3. Quiet(q) => Alone(q)
  BY DEF Quiet, Alone
<1>4. Quiet(q) => Alone(Append(q, b))
  BY <1>2 DEF Quiet, Alone
<1>5. Quiet(q) /\ ~SignsIn(b) => Quiet(Append(q, b))
  BY <1>2 DEF Quiet
<1>6. Alone(q) /\ ~SignsIn(b) => Alone(Append(q, b))
  BY <1>2 DEF Alone
<1> QED
  BY <1>3, <1>4, <1>5, <1>6

LEMMA TailSignIns ==
  ASSUME NEW S, NEW q \in Seq(S), q # <<>>
  PROVE  /\ Quiet(q) => Quiet(Tail(q)) /\ ~SignsIn(Head(q))
         /\ Alone(q) => Alone(Tail(q))
         /\ Alone(q) /\ SignsIn(Head(q)) => Quiet(Tail(q))
<1>1. /\ 1 \in DOMAIN q /\ q[1] = Head(q)
      /\ \A k \in DOMAIN Tail(q) : /\ k \in Nat /\ k # 0
                                   /\ k + 1 \in DOMAIN q /\ Tail(q)[k] = q[k + 1]
  BY TailIndices
<1>2. Quiet(q) => Quiet(Tail(q)) /\ ~SignsIn(Head(q))
  BY <1>1 DEF Quiet
<1>3. Alone(q) => Alone(Tail(q))
  BY <1>1 DEF Alone
<1>4. Alone(q) /\ SignsIn(Head(q)) => Quiet(Tail(q))
  <2> SUFFICES ASSUME Alone(q), SignsIn(Head(q)), NEW k \in DOMAIN Tail(q)
               PROVE  ~SignsIn(Tail(q)[k])
    BY DEF Quiet
  <2>1. k + 1 # 1
    BY <1>1
  <2> QED
    BY <1>1, <2>1 DEF Alone
<1> QED
  BY <1>2, <1>3, <1>4

(* One more request, or one less.                                          *)
LEMMA AskedMore ==
  ASSUME NEW rs, NEW r
  PROVE  /\ ~Asked(rs) => AskedOnce(rs) /\ AskedOnce(rs \cup {r})
         /\ r.kind \notin SignIns => (Asked(rs \cup {r}) <=> Asked(rs))
         /\ r.kind \notin SignIns /\ AskedOnce(rs) => AskedOnce(rs \cup {r})
  BY DEF Asked, AskedOnce

LEMMA AskedLess ==
  ASSUME NEW rs, NEW r \in rs
  PROVE  /\ AskedOnce(rs) => AskedOnce(rs \ {r})
         /\ ~Asked(rs) => ~Asked(rs \ {r}) /\ r.kind \notin SignIns
         /\ AskedOnce(rs) /\ r.kind \in SignIns => ~Asked(rs \ {r}) /\ Asked(rs)
  BY DEF Asked, AskedOnce

LEMMA TouchedChart ==
  ASSUME SessionInv, ChartInv, User
  PROVE  ChartInv'
<1>1. /\ mainQ \in Seq(CalledBlocks) /\ Top \in Nat /\ Top \in DOMAIN screens
  BY TopIsThere DEF SessionInv
<1>2. UNCHANGED screens
  BY DEF User, Touch, LoginTapped, SignUpTapped, FacebookTapped, RegisterTapped,
     CancelTapped, LogoutTapped, ClearTapped, AddTapped, SaveTapped, SheetSwiped,
     DialogEnds, Lift
<1>3. Top' = Top /\ TopName' = TopName
  BY <1>2 DEF Top, TopName
<1>4. \A k \in DOMAIN mainQ : mainQ[k].do # "fetch"
  <2> SUFFICES ASSUME Fetching PROVE FALSE
    BY DEF ChartInv
  <2>1. Controls[TopName] = {} /\ TopName # "main"
    BY DEF Fetching, SessionInv, TopName, Controls
  <2>2. sheet = "none" /\ touches = {}
    BY <2>1 DEF SessionInv, SheetInv, Touchable
  <2>3. \A c : ~Touch(c) /\ ~Lift(c)
    BY <2>1, <2>2 DEF Touch, Lift
  <2> QED
    BY <2>2, <2>3 DEF User, LoginTapped, SignUpTapped, FacebookTapped, RegisterTapped,
       CancelTapped, LogoutTapped, ClearTapped, AddTapped, SaveTapped, SheetSwiped,
       DialogEnds, Fetching
<1>5. ASSUME UNCHANGED <<mainQ, account>>,
             overlapped' \in BOOLEAN, overlapped => overlapped',
             ~overlapped' => OneSignIn(mainQ, requests', dialog'),
             ~overlapped' /\ TopName = "main" => ~Asked(requests') /\ dialog' = 0
      PROVE  ChartInv'
  BY <1>2, <1>3, <1>4, <1>5 DEF ChartInv
<1>6. ASSUME NEW c \in CalledBlocks, c.do \in {"login", "register"},
             mainQ' = Append(mainQ, c), UNCHANGED <<requests, dialog, overlapped>>,
             account' = account \/ account' = NoUser
      PROVE  ChartInv'
  <2>1. ~SignsIn(c) /\ c.do # "fetch"
    BY <1>6 DEF SignsIn, SignIns
  <2>2. ~overlapped => OneSignIn(mainQ', requests, dialog)
    BY <1>1, <1>6, <2>1, AppendedSignIns DEF ChartInv, OneSignIn
  <2>3. ~overlapped /\ TopName = "main" => Quiet(mainQ') /\ ~Asked(requests) /\ dialog = 0
    BY <1>1, <1>6, <2>1, AppendedSignIns DEF ChartInv
  <2>4. ~overlapped /\ TopName = "main"
          => screens[Top].uid = account' \/ account' = NoUser
    BY <1>6 DEF ChartInv
  <2>5. \A k \in DOMAIN mainQ' : mainQ'[k].do # "fetch"
    BY <1>1, <1>4, <1>6, <2>1, AppendedIndices
  <2> QED
    BY <1>2, <1>3, <1>6, <2>2, <2>3, <2>4, <2>5 DEF ChartInv
<1>7. ASSUME UNCHANGED <<mainQ, account, requests, dialog, overlapped>>
      PROVE  ChartInv'
  BY <1>5, <1>7 DEF ChartInv
<1>8. ASSUME NEW kind \in {"email", "create"}, NEW u \in Users, Ask(kind, Top, u, mainQ),
             UNCHANGED <<mainQ, account, dialog>>, TopName # "main"
      PROVE  ChartInv'
  <2>1. ~overlapped' => ~overlapped /\ dialog = 0 /\ ~Asked(requests) /\ Quiet(mainQ)
    BY <1>8, UnderWayIs DEF Ask, SignIns
  <2>2. ~overlapped' => OneSignIn(mainQ, requests', dialog)
    BY <1>1, <1>8, <2>1, AskedMore, AppendedSignIns DEF OneSignIn, Ask, ChartInv
  <2>3. overlapped' \in BOOLEAN /\ (overlapped => overlapped')
    BY <1>8 DEF Ask
  <2> QED
    BY <1>5, <1>8, <2>2, <2>3
<1>9. ASSUME NEW c, Touch(c)
      PROVE  ChartInv'
  BY <1>7, <1>9 DEF Touch, auth
<1>10. ASSUME NEW valid \in BOOLEAN, NEW u \in Users, LoginTapped(valid, u)
       PROVE  ChartInv'
  <2>1. TopName = "login"
    BY <1>10, TouchesTell DEF LoginTapped, Lift
  <2> QED
    BY <1>7, <1>8, <1>10, <2>1 DEF LoginTapped
<1>11. ASSUME NEW valid \in BOOLEAN, NEW u \in Users, SignUpTapped(valid, u)
       PROVE  ChartInv'
  <2>1. TopName = "register"
    BY <1>11, TouchesTell DEF SignUpTapped, Lift
  <2> QED
    BY <1>7, <1>8, <1>11, <2>1 DEF SignUpTapped
<1>12. CASE FacebookTapped
  <2>1. TopName = "login" /\ UNCHANGED <<mainQ, account, requests>>
    BY <1>12, TouchesTell DEF FacebookTapped, Lift
  <2>2. CASE token
    BY <1>7, <1>12, <2>1, <2>2 DEF FacebookTapped
  <2>3. CASE ~token
    <3>1. overlapped' = (overlapped \/ UnderWay(mainQ))
      BY <1>12, <2>3 DEF FacebookTapped
    <3>2. ~overlapped' => ~overlapped /\ ~Asked(requests) /\ Quiet(mainQ)
      BY <3>1, UnderWayIs
    <3>3. ~overlapped' => OneSignIn(mainQ, requests, dialog')
      BY <3>2 DEF OneSignIn, ChartInv
    <3> QED
      BY <1>5, <2>1, <3>1, <3>3 DEF ChartInv
  <2> QED
    BY <2>2, <2>3
<1>13. CASE RegisterTapped
  <2>1. ToRegister(Top) \in CalledBlocks /\ ToRegister(Top).do = "register"
    BY <1>1, <1>13, Routes, TouchesTell
    DEF RegisterTapped, Lift, TopName, ToRegister, Block
  <2> QED
    BY <1>6, <1>13, <2>1 DEF RegisterTapped, auth
<1>14. CASE CancelTapped
  <2>1. ToLogin(Top) \in CalledBlocks /\ ToLogin(Top).do = "login"
    BY <1>1, <1>14, Routes, TouchesTell DEF CancelTapped, Lift, TopName, ToLogin, Block
  <2> QED
    BY <1>6, <1>14, <2>1 DEF CancelTapped, auth
<1>15. CASE LogoutTapped
  <2>1. /\ ToLogin(Top) \in CalledBlocks /\ ToLogin(Top).do = "login"
    BY <1>1, <1>15, Routes, TouchesTell DEF LogoutTapped, Lift, TopName, ToLogin, Block
  <2>2. CASE account' = NoUser /\ mainQ' = Append(mainQ, ToLogin(Top))
    BY <1>6, <1>15, <2>1, <2>2 DEF LogoutTapped
  <2>3. CASE UNCHANGED <<account, token, mainQ>>
    BY <1>7, <1>15, <2>3 DEF LogoutTapped
  <2> QED
    BY <1>15, <2>2, <2>3 DEF LogoutTapped, SignOut
<1>15a. CASE AddTapped \/ SheetSwiped
  BY <1>7, <1>15a DEF AddTapped, SheetSwiped, auth
<1>16. CASE ClearTapped \/ SaveTapped
  <2>1. UNCHANGED <<account, mainQ, dialog>>
    BY <1>16 DEF ClearTapped, SaveTapped
  <2>2. CASE account = NoUser
    BY <1>7, <1>16, <2>1, <2>2 DEF ClearTapped, SaveTapped
  <2>3. CASE account # NoUser
    <3>1. PICK kind \in {"points", "save"} : Ask(kind, Top, account, mainQ)
      BY <1>16, <2>3 DEF ClearTapped, SaveTapped
    <3> DEFINE r == [kind |-> kind, by |-> Top, user |-> account]
    <3>1a. requests' = requests \cup {r} /\ overlapped' = overlapped /\ r.kind \notin SignIns
      BY <3>1 DEF Ask, SignIns, ChartInv
    <3>2. (Asked(requests') <=> Asked(requests)) /\ (AskedOnce(requests) => AskedOnce(requests'))
      <4> HIDE DEF r
      <4> QED
        BY <3>1a, AskedMore
    <3> QED
      BY <1>5, <2>1, <3>1a, <3>2 DEF ChartInv, OneSignIn
  <2> QED
    BY <2>2, <2>3
<1>17. ASSUME NEW result, NEW u \in Users, DialogEnds(result, u)
       PROVE  ChartInv'
  <2>1. dialog # 0 /\ dialog' = 0 /\ UNCHANGED <<mainQ, account>>
    BY <1>17 DEF DialogEnds
  <2>2. ~overlapped => /\ Alone(mainQ) /\ Quiet(mainQ) /\ ~Asked(requests)
                       /\ TopName # "main"
    BY <2>1 DEF ChartInv, OneSignIn
  <2>3. CASE Ask("facebook", dialog, u, mainQ)
    <3>1. overlapped' = overlapped
      BY <2>3 DEF Ask, ChartInv
    <3>2. ~overlapped => AskedOnce(requests')
      BY <2>2, <2>3, AskedMore DEF Ask
    <3> QED
      BY <1>5, <2>1, <2>2, <3>1, <3>2 DEF OneSignIn, ChartInv
  <2>4. CASE UNCHANGED <<requests, overlapped>>
    BY <1>5, <2>1, <2>2, <2>4 DEF OneSignIn, ChartInv
  <2> QED
    BY <1>17, <2>3, <2>4 DEF DialogEnds
<1> QED
  BY <1>9, <1>10, <1>11, <1>12, <1>13, <1>14, <1>15, <1>15a, <1>16, <1>17 DEF User

LEMMA ServedChart ==
  ASSUME SessionInv, ChartInv, Main
  PROVE  ChartInv'
<1> DEFINE b == Head(mainQ)
           q == Tail(mainQ)
<1>1. mainQ # <<>>
  BY DEF Main, Hop, PresentForm, PresentMain, FetchCurrentUser, SignedIn, LoginRefused,
     EnterRefused, PointsAnswered, EntryPointSaved, SaveUnheeded, Registered, Queued
<1>2. /\ mainQ \in Seq(CalledBlocks) /\ q \in Seq(CalledBlocks) /\ b \in CalledBlocks
      /\ b \in [do : Doing, ok : BOOLEAN, by : Nat, hops : Nat]
      /\ CalledBy(b.by, b.do) /\ By = b.by
  BY <1>1, HeadIsCalled DEF SessionInv, By
<1>3. /\ Top \in Nat /\ Top >= 1 /\ 1 \in DOMAIN screens /\ Top \in DOMAIN screens
      /\ screens[1].name = "splash"
  BY TopIsThere DEF SessionInv
<1>4. /\ Quiet(mainQ) => Quiet(q) /\ ~SignsIn(b)
      /\ Alone(mainQ) => Alone(q)
      /\ Alone(mainQ) /\ SignsIn(b) => Quiet(q)
  BY <1>1, <1>2, TailSignIns
<1>6. ASSUME ~FetchCurrentUser
      PROVE  /\ \A k \in DOMAIN mainQ : mainQ[k].do # "fetch"
             /\ b.do # "fetch" /\ \A k \in DOMAIN q : q[k].do # "fetch"
  <2>1. \A k \in DOMAIN mainQ : mainQ[k].do # "fetch"
    <3> SUFFICES ASSUME Fetching PROVE FALSE
      BY DEF ChartInv
    <3>1. b.do = "fetch" /\ b.hops = 0
      BY DEF Fetching, Animation, Block
    <3> QED
      BY <1>6, <3>1 DEF Main, Hop, PresentForm, PresentMain, SignedIn, LoginRefused,
         EnterRefused, PointsAnswered, EntryPointSaved, SaveUnheeded, Registered, Queued
  <2> QED
    BY <1>1, <1>2, <2>1, TailIndices
<1>7. ASSUME UNCHANGED screens
      PROVE  Top' = Top /\ TopName' = TopName
  BY <1>7 DEF Top, TopName
\* a block takes the place of the head
<1>8. ASSUME NEW c \in CalledBlocks, c.do # "fetch", SignsIn(c) => SignsIn(b),
             UNCHANGED <<screens, account, requests, dialog, overlapped>>,
             ~FetchCurrentUser, mainQ' = q \/ mainQ' = Append(q, c)
      PROVE  ChartInv'
  <2> HIDE DEF q, b
  <2>1. \A k \in DOMAIN mainQ' : mainQ'[k].do # "fetch"
    <3>1. \A k \in DOMAIN Append(q, c) :
            (k \in DOMAIN q /\ Append(q, c)[k] = q[k]) \/ Append(q, c)[k] = c
      BY <1>2, <1>8
    <3> QED
      BY <1>6, <1>8, <3>1
  <2>2. /\ Alone(mainQ) => Alone(mainQ')
        /\ Quiet(mainQ) => Quiet(mainQ')
    <3>1. /\ Alone(q) /\ ~SignsIn(c) => Alone(Append(q, c))
          /\ Quiet(q) /\ ~SignsIn(c) => Quiet(Append(q, c))
          /\ Quiet(q) => Alone(Append(q, c))
      BY <1>2, <1>8, AppendedSignIns
    <3> QED
      BY <1>4, <1>8, <3>1
  <2> QED
    BY <1>7, <1>8, <2>1, <2>2 DEF ChartInv, OneSignIn
<1>9. CASE Hop
  <2> DEFINE c == [b EXCEPT !.hops = @ - 1]
  <2>1. c \in CalledBlocks /\ c.do = b.do
    <3>1. b.hops - 1 \in Nat
      BY <1>2, <1>9 DEF Hop
    <3>2. /\ c \in [do : Doing, ok : BOOLEAN, by : Nat, hops : Nat]
          /\ c.do = b.do /\ c.by = b.by
      BY <1>2, <3>1
    <3> QED
      BY <1>2, <3>2 DEF CalledBlocks
  <2>2. ~FetchCurrentUser
    BY <1>9 DEF Hop, FetchCurrentUser, Queued
  <2>3. b.do # "fetch" /\ (SignsIn(c) => SignsIn(b))
    BY <1>6, <2>1, <2>2 DEF SignsIn
  <2>4. /\ UNCHANGED <<screens, account, requests, dialog, overlapped>>
        /\ mainQ' = Append(q, c)
    BY <1>9 DEF Hop, view, auth
  <2> QED
    BY <1>8, <2>1, <2>2, <2>3, <2>4
<1>10. ASSUME NEW name, NEW uid, Pushed(name, uid), mainQ' = q,
              ~FetchCurrentUser, UNCHANGED <<account, requests, dialog, overlapped>>,
              name = "main" => b.do = "main" /\ uid = account
       PROVE  ChartInv'
  <2>1. /\ \A k \in DOMAIN mainQ' : mainQ'[k].do # "fetch"
        /\ Top' = Top + 1 /\ TopName' = name
    BY <1>6, <1>10, GrantsPushed
  <2>2. screens'[Top + 1].uid = uid
    BY <1>10 DEF Pushed, SessionInv, Top
  <2>3. ~overlapped => OneSignIn(q, requests, dialog)
    BY <1>4 DEF ChartInv, OneSignIn
  <2>4. ~overlapped /\ name = "main" => Quiet(q) /\ ~Asked(requests) /\ dialog = 0
    BY <1>4, <1>10 DEF ChartInv, OneSignIn, SignsIn
  <2> QED
    BY <1>10, <2>1, <2>2, <2>3, <2>4 DEF ChartInv
<1>11. CASE PresentForm
  <2>1. /\ b.do \in {"login", "register"} /\ mainQ' = q /\ ~FetchCurrentUser
        /\ UNCHANGED <<account, requests, dialog, overlapped>>
    BY <1>11 DEF PresentForm, FetchCurrentUser, Queued, auth
  <2>2. CASE Presents
    BY <1>10, <1>11, <2>1, <2>2 DEF PresentForm
  <2>3. CASE ~Presents
    BY <1>2, <1>6, <1>8, <1>11, <2>1, <2>3 DEF PresentForm, Presents
  <2> QED
    BY <2>2, <2>3
<1>12. CASE PresentMain
  <2>1. /\ b.do = "main" /\ mainQ' = q /\ ~FetchCurrentUser
        /\ UNCHANGED <<account, requests, dialog, overlapped>>
    BY <1>12 DEF PresentMain, FetchCurrentUser, Queued, auth
  <2>2. CASE Presents /\ account # NoUser
    BY <1>10, <1>12, <2>1, <2>2 DEF PresentMain
  <2>3. CASE ~(Presents /\ account # NoUser)
    BY <1>2, <1>6, <1>8, <1>12, <2>1, <2>3 DEF PresentMain
  <2> QED
    BY <2>2, <2>3
<1>13. CASE SignedIn
  <2>1. /\ b.do \in {"email", "facebook", "enter"} /\ ~FetchCurrentUser
        /\ UNCHANGED <<screens, account, requests, dialog, overlapped>>
        /\ mainQ' = Append(q, ToMain(b.by))
    BY <1>2, <1>13 DEF SignedIn, FetchCurrentUser, Queued, auth
  <2>2. ToMain(b.by) \in CalledBlocks /\ ToMain(b.by).do = "main" /\ SignsIn(b)
    BY <1>2, <2>1, Routes DEF CalledBy, Callers, ToMain, Block, SignsIn, SignIns
  <2> QED
    BY <1>8, <2>1, <2>2
<1>14. CASE EnterRefused
  <2>1. /\ b.do = "enter" /\ ~FetchCurrentUser
        /\ UNCHANGED <<screens, account, requests, dialog, overlapped>>
        /\ mainQ' = Append(q, ToLogin(b.by))
    BY <1>2, <1>14 DEF EnterRefused, FetchCurrentUser, Queued, auth
  <2>2. /\ ToLogin(b.by) \in CalledBlocks /\ ToLogin(b.by).do = "login" /\ SignsIn(b)
    BY <1>2, <2>1, Routes DEF CalledBy, Callers, ToLogin, Block, SignsIn, SignIns
  <2> QED
    BY <1>8, <2>1, <2>2
<1>15. CASE LoginRefused \/ PointsAnswered \/ EntryPointSaved \/ SaveUnheeded
  <2>1. /\ b.do # "fetch" /\ ~FetchCurrentUser /\ mainQ' = q
        /\ UNCHANGED <<screens, account, requests, dialog, overlapped>>
    BY <1>15 DEF LoginRefused, PointsAnswered, EntryPointSaved, SaveUnheeded,
       FetchCurrentUser, Queued, auth
  <2> QED
    BY <1>2, <1>8, <2>1
<1>16. ASSUME NEW u \in Users, Registered(u)
       PROVE  ChartInv'
  <2>1. /\ b.do = "create" /\ ~FetchCurrentUser /\ mainQ' = q
        /\ UNCHANGED <<screens, account, dialog>>
    BY <1>16 DEF Registered, FetchCurrentUser, Queued
  <2>2. CASE UNCHANGED <<requests, overlapped>>
    BY <1>2, <1>8, <2>1, <2>2
  <2>3. CASE Ask("enter", b.by, u, q)
    <3>1. overlapped' = (overlapped \/ UnderWay(q)) /\ SignsIn(b)
      BY <2>1, <2>3 DEF Ask, SignIns, SignsIn
    <3>2. ~overlapped' => ~overlapped /\ dialog = 0 /\ ~Asked(requests) /\ Quiet(q)
      BY <3>1, UnderWayIs
    <3>3. ~overlapped' => OneSignIn(q, requests', dialog)
      BY <1>2, <2>3, <3>2, AskedMore, AppendedSignIns DEF OneSignIn, Ask
    <3>4. ~overlapped' => TopName # "main"
      BY <1>4, <3>1, <3>2 DEF ChartInv
    <3>5. \A k \in DOMAIN q : q[k].do # "fetch"
      BY <1>6, <2>1
    <3>6. overlapped' \in BOOLEAN
      BY <3>1
    <3> QED
      BY <1>7, <2>1, <3>3, <3>4, <3>5, <3>6 DEF ChartInv
  <2> QED
    BY <1>2, <1>16, <2>2, <2>3 DEF Registered
<1>17. CASE FetchCurrentUser
  <2>1. b.do = "fetch" /\ UNCHANGED <<screens, account, requests, dialog, overlapped>>
    BY <1>17 DEF FetchCurrentUser, Queued, view
  <2>2. Fetching
    BY <1>1, <1>2, <2>1, TailIndices DEF ChartInv
  <2>3. q = <<>> /\ TopName = "splash" /\ Top = 1
    BY <1>3, <2>2 DEF Fetching, Animation, TopName
  <2> DEFINE m == ToMain(1)
             l == ToLogin(1)
  <2>4. m.do = "main" /\ l.do = "login"
    BY DEF ToMain, ToLogin, Block
  <2>5. mainQ' \in {<<m>>, <<l>>, <<l, l>>}
    <3> HIDE DEF m, l
    <3>1. \/ mainQ' = Append(<<>>, m) \/ mainQ' = <<>> \o <<>> \o <<l>>
          \/ mainQ' = <<>> \o <<l>> \o <<l>>
      BY <1>17, <2>3 DEF FetchCurrentUser, m, l
    <3> QED
      BY <3>1
  <2> HIDE DEF m, l
  <2>6. /\ \A k \in DOMAIN mainQ' : mainQ'[k].do # "fetch"
        /\ Alone(mainQ')
    BY <2>4, <2>5 DEF Alone, SignsIn, SignIns
  <2>7. OneSignIn(mainQ', requests, dialog)
    BY <2>2, <2>6 DEF Fetching, OneSignIn, Asked, AskedOnce
  <2> QED
    BY <1>7, <2>1, <2>3, <2>6, <2>7 DEF ChartInv
<1> QED
  BY <1>9, <1>11, <1>12, <1>13, <1>14, <1>15, <1>16, <1>17 DEF Main

LEMMA OpenedChart == Opened /\ overlapped = FALSE => ChartInv
<1> SUFFICES ASSUME Opened, overlapped = FALSE PROVE ChartInv
  OBVIOUS
<1>1. Fetching /\ TopName = "splash"
  BY DEF Opened, Fetching, Splash, Top, TopName
<1>2. OneSignIn(mainQ, requests, dialog)
  BY DEF Opened, Animation, OneSignIn, Alone, Asked, AskedOnce
<1> QED
  BY <1>1, <1>2 DEF ChartInv

LEMMA OpenedAgainChart == (Opened /\ overlapped = FALSE)' => ChartInv'
  BY OpenedChart, PTL

LEMMA ChartStep ==
  ASSUME SessionInv, ChartInv, [Next]_vars
  PROVE  ChartInv'
<1>1. CASE User \/ Main
  BY <1>1, TouchedChart, ServedChart
<1>2. ASSUME UNCHANGED <<screens, account, mainQ, requests, dialog, overlapped>>
      PROVE  ChartInv'
  <2>1. Top' = Top /\ TopName' = TopName
    BY <1>2 DEF Top, TopName
  <2> QED
    BY <1>2, <2>1 DEF ChartInv, Fetching
<1>3. ASSUME NEW r \in requests, NEW ok \in BOOLEAN, FirebaseAnswers(r, ok)
      PROVE  ChartInv'
  <2> DEFINE c == Block(r.kind, ok, r.by, IF r.kind \in SignIns \ {"create"} THEN 1 ELSE 0)
  <2>1. /\ r \in [kind : Kinds, by : Nat, user : Users] /\ CalledBy(r.by, r.kind)
    BY DEF SessionInv, CalledRequests
  <2>2. /\ UNCHANGED <<screens, dialog, overlapped>> /\ mainQ' = Append(mainQ, c)
        /\ requests' = requests \ {r}
        /\ account' = (IF ok /\ r.kind \in SignIns THEN r.user ELSE account)
    BY <1>3 DEF FirebaseAnswers, view
  <2>3. /\ c.do = r.kind /\ r.kind \notin {"main", "fetch"}
        /\ SignsIn(c) <=> r.kind \in SignIns
    BY <2>1 DEF Block, Kinds, SignsIn, SignIns
  <2>4. c \in CalledBlocks
    BY <2>1, NewBlock DEF Doing
  <2> HIDE DEF c
  <2>5. mainQ \in Seq(CalledBlocks)
    BY DEF SessionInv
  <2>6. ~Fetching
    BY DEF Fetching
  <2>7. \A k \in DOMAIN mainQ' : mainQ'[k].do # "fetch"
    BY <2>2, <2>3, <2>4, <2>5, <2>6, AppendedIndices DEF ChartInv
  <2>8. ~overlapped => OneSignIn(mainQ', requests', dialog)
    <3>1. CASE r.kind \in SignIns
      BY <2>2, <2>3, <2>4, <2>5, <3>1, AskedLess, AppendedSignIns DEF ChartInv, OneSignIn
    <3>2. CASE r.kind \notin SignIns
      <4>1. Asked(requests') => Asked(requests)
        BY <2>2 DEF Asked
      <4> QED
        BY <2>2, <2>3, <2>4, <2>5, <3>2, <4>1, AskedLess, AppendedSignIns
        DEF ChartInv, OneSignIn
    <3> QED
      BY <3>1, <3>2
  <2>9. ~overlapped /\ TopName = "main" =>
          /\ Quiet(mainQ') /\ ~Asked(requests') /\ dialog = 0 /\ account' = account
    BY <2>2, <2>3, <2>4, <2>5, AskedLess, AppendedSignIns DEF ChartInv
  <2>10. Top' = Top /\ TopName' = TopName
    BY <2>2 DEF Top, TopName
  <2> QED
    BY <2>2, <2>7, <2>8, <2>9, <2>10 DEF ChartInv
<1>3a. CASE SheetGone
  <2>1. /\ UNCHANGED <<screens, account, dialog, overlapped>> /\ sheet = "leaving"
        /\ mainQ' = OrphansOf(mainQ)
        /\ requests' = {[r EXCEPT !.kind = Orphaned(@)] : r \in requests}
    BY <1>3a DEF SheetGone, OrphansOf
  <2>2. Top' = Top /\ TopName' = TopName
    BY <2>1 DEF Top, TopName
  <2>3. /\ mainQ \in Seq(CalledBlocks) /\ requests \in SUBSET CalledRequests
        /\ TopName = "main" /\ screens[1].name = "splash"
    BY <2>1 DEF SessionInv, SheetInv
  <2>4. \A k \in DOMAIN mainQ : mainQ[k].do # "fetch"
    BY <2>3 DEF ChartInv, Fetching, TopName
  <2>5. /\ DOMAIN mainQ' = DOMAIN mainQ
        /\ \A k \in DOMAIN mainQ : mainQ'[k] = [mainQ[k] EXCEPT !.do = Orphaned(@)]
    <3>1. \A b \in CalledBlocks :
            [b EXCEPT !.do = Orphaned(@)] \in {[c EXCEPT !.do = Orphaned(@)] : c \in CalledBlocks}
      OBVIOUS
    <3> QED
      BY <2>1, <2>3, <3>1, OrphanedQueue
  <2>6. \A k \in DOMAIN mainQ : /\ mainQ'[k].do # "fetch"
                                /\ SignsIn(mainQ'[k]) <=> SignsIn(mainQ[k])
    <3> SUFFICES ASSUME NEW k \in DOMAIN mainQ
                 PROVE  /\ mainQ'[k].do # "fetch"
                        /\ SignsIn(mainQ'[k]) <=> SignsIn(mainQ[k])
      OBVIOUS
    <3>1. mainQ[k] \in CalledBlocks
      BY <2>3
    <3>2. mainQ'[k].do = Orphaned(mainQ[k].do)
      BY <2>5, <3>1 DEF CalledBlocks
    <3> QED
      BY <2>4, <3>2 DEF Orphaned, SignsIn, SignIns
  <2>7. (Quiet(mainQ') <=> Quiet(mainQ)) /\ (Alone(mainQ') <=> Alone(mainQ))
    <3>1. \A k \in DOMAIN mainQ : SignsIn(mainQ'[k]) <=> SignsIn(mainQ[k])
      BY <2>6
    <3>2. DOMAIN mainQ' = DOMAIN mainQ
      BY <2>5
    <3>3. Quiet(mainQ') <=> Quiet(mainQ)
      BY <3>1, <3>2, Zenon DEF Quiet
    <3>4. Alone(mainQ') <=> Alone(mainQ)
      BY <3>1, <3>2, Zenon DEF Alone
    <3> QED
      BY <3>3, <3>4
  <2> DEFINE o(r) == [r EXCEPT !.kind = Orphaned(@)]
  <2>8. \A r \in requests : /\ (o(r).kind \in SignIns) <=> (r.kind \in SignIns)
                            /\ r.kind \in SignIns => o(r) = r
    <3> SUFFICES ASSUME NEW r \in requests
                 PROVE  /\ (o(r).kind \in SignIns) <=> (r.kind \in SignIns)
                        /\ r.kind \in SignIns => o(r) = r
      OBVIOUS
    <3>1. r \in [kind : Kinds, by : Nat, user : Users]
      BY <2>3 DEF CalledRequests
    <3> QED
      BY <3>1 DEF Orphaned, SignIns
  <2> HIDE DEF o
  <2>9. Asked(requests') <=> Asked(requests)
    <3>1. requests' = {o(r) : r \in requests}
      BY <2>1 DEF o
    <3> QED
      BY <2>8, <3>1 DEF Asked
  <2>10. AskedOnce(requests) => AskedOnce(requests')
    <3>1. requests' = {o(r) : r \in requests}
      BY <2>1 DEF o
    <3> SUFFICES ASSUME AskedOnce(requests), NEW r \in requests', NEW s \in requests',
                        r.kind \in SignIns, s.kind \in SignIns
                 PROVE  r = s
      BY Zenon DEF AskedOnce
    <3>2. PICK a \in requests : r = o(a)
      BY <3>1
    <3>3. PICK b \in requests : s = o(b)
      BY <3>1
    <3> QED
      BY <2>8, <3>2, <3>3 DEF AskedOnce
  <2> QED
    BY <2>1, <2>2, <2>5, <2>6, <2>7, <2>9, <2>10 DEF ChartInv, OneSignIn
<1>4. CASE HudExpires \/ HudFades
  BY <1>2, <1>4 DEF HudExpires, HudFades, auth
<1>5. CASE Launch
  <2>1. Opened' /\ overlapped' = FALSE
    BY <1>5 DEF Launch, Opened, SessionInv
  <2> QED
    BY <2>1, OpenedAgainChart
<1>6. CASE UNCHANGED vars
  BY <1>2, <1>6 DEF vars, view, auth
<1> QED
  BY <1>1, <1>3, <1>3a, <1>4, <1>5, <1>6 DEF Next, Firebase

(* Once nothing is under way the chart on the screen observes the points   *)
(* of the user who is signed in, unless two sign-ins overlapped or a sheet *)
(* kept the login screen away after a log-out.                             *)
THEOREM ChartIsOfTheAccount == Spec => []ChartShowsAccount
<1>1. Init => IdInv /\ ChartInv
  BY OpenedId, OpenedChart DEF Init, Opened
<1>2. SessionInv /\ IdInv /\ ChartInv /\ [Next]_vars => IdInv' /\ ChartInv'
  BY IdStep, ChartStep
<1>3. IdInv /\ ChartInv => ChartShowsAccount
  BY DEF IdInv, ChartInv, ChartShowsAccount, LogsOut
<1> QED
  BY <1>1, <1>2, <1>3, SessionInvariant, PTL DEF Spec
=============================================================================
