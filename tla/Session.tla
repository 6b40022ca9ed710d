------------------------------ MODULE Session -------------------------------
(***************************************************************************)
(* Who is signed in and what is on the screen: Authentication.swift,       *)
(* Router.swift, the splash, login and register screens, and of the chart  *)
(* screen what depends on the user.  Firebase Auth, the Facebook SDK and   *)
(* UIKit are modelled from how this code uses them.                        *)
(*                                                                         *)
(* All of this code runs on the main thread; a step is one handler or one  *)
(* block of the main queue.  Controls, the HUD and the sheet that adds a   *)
(* point are as in EntryPoints.  Only the sheet is ever dismissed: every   *)
(* other screen is presented by the one below it and stays.                *)
(***************************************************************************)
EXTENDS Naturals, Sequences, FiniteSets, Hud

CONSTANTS
  Users,       \* who can sign in
  NoUser,      \* currentUser is nil
  Fingers,     \* how many touches the user can hold at once
  MaxTaps,     \* bound: handlers of controls
  MaxLaunches  \* bound: launches of the app after the first

ASSUME UsersAssumption == NoUser \notin Users
ASSUME TapsAssumption == {Fingers, MaxTaps, MaxLaunches} \subseteq Nat

VARIABLES
  screens,     \* the presented controllers: [name, uid], uid the user a chart observes
  sheet,       \* AddNewPointViewController on the top chart: "none", "up" or "leaving"
  disabled,    \* the login screens whose login button is disabled
  touches,     \* the controls of the top screen and of the sheet that hold a touch
  hud,         \* PKHUD.sharedHUD
  mainQ,       \* the main queue: [do, ok, by, hops], see Block
  requests,    \* what Firebase has been asked: [kind, by, user], equal ones as one
  dialog,      \* the login screen whose Facebook dialog is open, or 0
  account,     \* Auth.auth().currentUser
  token,       \* AccessToken.current is there and has not expired
  crashed,     \* "no", or what the app trapped on: "noId", "noToken"
  overlapped,  \* history: two sign-ins were under way at once
  stranded,    \* history: the login screen was not presented after a log-out of the
               \* chart on top, because a sheet was
  unheard,     \* history: a save ended and its sheet did nothing about it
  taps, launches

adding == <<sheet, stranded, unheard>>
view == <<screens, disabled, touches, hud, adding>>
auth == <<requests, dialog, account, token, overlapped>>
bounds == <<taps, launches>>
vars == <<view, mainQ, auth, crashed, bounds>>

Top == Len(screens)
TopName == screens[Top].name

Controls ==
  [splash   |-> {},
   login    |-> {"login", "facebook", "register"},
   register |-> {"signup", "cancel"},
   main     |-> {"logout", "clear", "add"}]

SheetControls == {"save", "swipe"}

SignIns == {"email", "facebook", "create", "enter"}

\* an orphan is a save whose sheet is gone: its weak self is nil
Kinds == SignIns \cup {"points", "save", "orphan"}

\* a block that waits on the main queue; it queues itself again hops times
\* (DispatchQueue.main.async inside a block) before it runs
Block(do, ok, by, hops) == [do |-> do, ok |-> ok, by |-> by, hops |-> hops]

\* Router.toMain, toLogin and toRegister, called by screen i
ToMain(i) == Block("main", TRUE, i, 1)
ToLogin(i) == Block("login", TRUE, i, 1)
ToRegister(i) == Block("register", TRUE, i, 1)

Running == crashed = "no"

----------------------------------------------------------------------------
(* Authentication                                                          *)

\* mutant: the user is not sent to the login screen
SignOutStays(i) ==
  \/ account' = NoUser /\ token' = FALSE /\ UNCHANGED mainQ
  \/ UNCHANGED <<account, token, mainQ>>

\* signOut(viewController:), called by screen i: if Auth's signOut throws nothing
\* is done
SignOut(i) ==
  \/ account' = NoUser /\ token' = FALSE /\ mainQ' = Append(mainQ, ToLogin(i))
  \/ UNCHANGED <<account, token, mainQ>>

\* a sign-in has not ended: its dialog is open, Firebase was asked, or the queue q
\* holds what follows
UnderWay(q) ==
  \/ dialog # 0
  \/ \E r \in requests : r.kind \in SignIns
  \/ \E k \in DOMAIN q : q[k].do \in SignIns \cup {"main"}

\* ask Firebase for something while the queue is q
Ask(kind, i, user, q) ==
  /\ requests' = requests \cup {[kind |-> kind, by |-> i, user |-> user]}
  /\ overlapped' = (overlapped \/ (kind \in SignIns \ {"facebook"} /\ UnderWay(q)))

----------------------------------------------------------------------------
(* The user                                                                *)

Touch(c) ==
  /\ Running /\ dialog = 0 /\ ~Blocks(hud) /\ taps < MaxTaps
  /\ Cardinality(touches) < Fingers
  /\ c \in (CASE sheet = "none" -> Controls[TopName]
              [] sheet = "up"   -> SheetControls
              [] OTHER          -> {}) \ touches
  /\ c = "login" => Top \notin disabled
  /\ touches' = touches \cup {c}
  /\ UNCHANGED <<screens, disabled, hud, adding, mainQ, auth, crashed, bounds>>

Lift(c) ==
  /\ Running /\ c \in touches /\ taps < MaxTaps
  /\ touches' = touches \ {c}
  /\ taps' = taps + 1
  /\ UNCHANGED <<screens, launches>>

LoginTapped(valid, user) ==
  /\ Lift("login")
  /\ IF valid
     THEN /\ disabled' = disabled \cup {Top}
          /\ hud' = ShowProgress(hud)
          /\ Ask("email", Top, user, mainQ)
     ELSE /\ hud' = Flash(hud, "error")
          /\ UNCHANGED <<disabled, requests, overlapped>>
  /\ UNCHANGED <<mainQ, dialog, account, token, crashed, adding>>

\* FBLoginButton: it logs out when there is a token (external)
FacebookTapped ==
  /\ Lift("facebook")
  /\ IF token THEN token' = FALSE /\ UNCHANGED <<dialog, overlapped>>
     ELSE dialog' = Top /\ overlapped' = (overlapped \/ UnderWay(mainQ)) /\ UNCHANGED token
  /\ UNCHANGED <<disabled, hud, mainQ, requests, account, crashed, adding>>

RegisterTapped ==
  /\ Lift("register")
  /\ mainQ' = Append(mainQ, ToRegister(Top))
  /\ UNCHANGED <<disabled, hud, auth, crashed, adding>>

SignUpTapped(valid, user) ==
  /\ Lift("signup")
  /\ IF valid
     THEN hud' = ShowProgress(hud) /\ Ask("create", Top, user, mainQ)
     ELSE /\ hud' = Flash(ShowProgress(hud), "error")
          /\ UNCHANGED <<requests, overlapped>>
  /\ UNCHANGED <<disabled, mainQ, dialog, account, token, crashed, adding>>

CancelTapped ==
  /\ Lift("cancel")
  /\ mainQ' = Append(mainQ, ToLogin(Top))
  /\ UNCHANGED <<disabled, hud, auth, crashed, adding>>

LogoutTapped ==
  /\ Lift("logout")
  /\ SignOut(Top)
  /\ UNCHANGED <<disabled, hud, requests, dialog, overlapped, crashed, adding>>

\* an operation on the points: child(getCurrentuserID()) traps on the empty string
ClearTapped ==
  /\ Lift("clear")
  /\ hud' = ShowProgress(hud)
  /\ IF account = NoUser
     THEN crashed' = "noId" /\ UNCHANGED <<requests, overlapped>>
     ELSE Ask("points", Top, account, mainQ) /\ UNCHANGED crashed
  /\ UNCHANGED <<disabled, mainQ, dialog, account, token, adding>>

\* addNewPointTapped: a second segue while the sheet is presented does nothing
AddTapped ==
  /\ Lift("add")
  /\ sheet' = IF sheet = "none" THEN "up" ELSE sheet
  /\ hud' = IF sheet = "none" THEN Cover(hud) ELSE hud
  /\ UNCHANGED <<disabled, stranded, unheard, mainQ, auth, crashed>>

\* save traps on the empty id like the operations of the chart
SaveTapped ==
  /\ Lift("save")
  /\ hud' = ShowProgress(hud)
  /\ IF account = NoUser
     THEN crashed' = "noId" /\ UNCHANGED <<requests, overlapped>>
     ELSE Ask("save", Top, account, mainQ) /\ UNCHANGED crashed
  /\ UNCHANGED <<disabled, mainQ, dialog, account, token, adding>>

\* a dismissal starts: the touches in the sheet are cancelled
Leave ==
  /\ sheet' = IF sheet = "up" THEN "leaving" ELSE sheet
  /\ touches' = touches \ SheetControls

SheetSwiped ==
  /\ Running /\ "swipe" \in touches
  /\ Leave
  /\ UNCHANGED <<screens, disabled, hud, stranded, unheard, mainQ, auth, crashed, bounds>>

\* loginButton(_:didCompleteWith:error:): an error without a token traps
DialogEnds(result, user) ==
  /\ Running /\ dialog # 0
  /\ dialog' = 0
  /\ token' = (token \/ result = "ok")
  /\ IF result = "cancelled" THEN UNCHANGED <<hud, requests, overlapped, crashed>>
     ELSE /\ hud' = ShowProgress(hud)
          /\ IF token' THEN Ask("facebook", dialog, user, mainQ) /\ UNCHANGED crashed
             ELSE crashed' = "noToken" /\ UNCHANGED <<requests, overlapped>>
  /\ UNCHANGED <<screens, disabled, touches, mainQ, account, bounds, adding>>

----------------------------------------------------------------------------
(* Firebase answers (external): the user is set before the completion is   *)
(* queued.  The completions of login and loginWithFacebook, and that of    *)
(* the login after a registration, act one block later.                    *)

FirebaseAnswers(r, ok) ==
  /\ Running
  /\ requests' = requests \ {r}
  /\ account' = (IF ok /\ r.kind \in SignIns THEN r.user ELSE account)
  /\ mainQ' = Append(mainQ, Block(r.kind, ok, r.by,
                                  IF r.kind \in SignIns \ {"create"} THEN 1 ELSE 0))
  /\ UNCHANGED <<view, dialog, token, overlapped, crashed, bounds>>

----------------------------------------------------------------------------
(* The main queue                                                          *)

Queued(do) ==
  /\ Running /\ mainQ # <<>> /\ Head(mainQ).do \in do /\ Head(mainQ).hops = 0
  /\ UNCHANGED bounds

By == Head(mainQ).by
Ok == Head(mainQ).ok

Hop ==
  /\ Running /\ mainQ # <<>> /\ Head(mainQ).hops > 0
  /\ mainQ' = Append(Tail(mainQ), [Head(mainQ) EXCEPT !.hops = @ - 1])
  /\ UNCHANGED <<view, auth, crashed, bounds>>

\* mutant: UIKit's refusal is not taken into account
PresentsAnyway == TRUE

\* present: UIKit ignores it when the presenter presents already, a screen or the
\* sheet, also while the sheet is being dismissed (external)
Presents == By = Top /\ sheet = "none"

Pushed(name, uid) ==
  /\ screens' = Append(screens, [name |-> name, uid |-> uid])
  /\ touches' = {}
  /\ hud' = Cover(hud)
  /\ stranded' = FALSE
  /\ UNCHANGED <<sheet, unheard>>

PresentForm ==
  /\ Queued({"login", "register"})
  /\ IF Presents THEN Pushed(Head(mainQ).do, NoUser)
     ELSE /\ stranded' = (stranded \/ (Head(mainQ).do = "login" /\ By = Top))
          /\ UNCHANGED <<screens, touches, hud, sheet, unheard>>
  /\ mainQ' = Tail(mainQ)
  /\ UNCHANGED <<disabled, auth, crashed>>

\* ChartViewController.viewDidLoad: without a user, fetchCurrentUser signs out
\* and the observer's child("") traps; a token alone lets it get there too
PresentMain ==
  /\ Queued({"main"})
  /\ IF Presents /\ account # NoUser
     THEN Pushed("main", account) /\ UNCHANGED crashed
     ELSE /\ crashed' = (IF Presents THEN "noId" ELSE "no")
          /\ UNCHANGED <<screens, touches, hud, adding>>
  /\ mainQ' = Tail(mainQ)
  /\ UNCHANGED <<disabled, auth>>

\* mutant: the chart is shown without asking who is signed in
FetchNobody ==
  /\ Queued({"fetch"})
  /\ mainQ' = Append(Tail(mainQ), ToMain(1))
  /\ UNCHANGED <<view, auth, crashed>>

\* fetchCurrentUser of the splash screen: without a user there is nobody to sign
\* out, but signOut routes as well
FetchCurrentUser ==
  /\ Queued({"fetch"})
  /\ IF token \/ account # NoUser
     THEN mainQ' = Append(Tail(mainQ), ToMain(1)) /\ UNCHANGED <<account, token>>
     ELSE \E signOut \in {<<>>, <<ToLogin(1)>>} :
            /\ mainQ' = Tail(mainQ) \o signOut \o <<ToLogin(1)>>
            /\ UNCHANGED <<account, token>>
  /\ UNCHANGED <<view, requests, dialog, overlapped, crashed>>

SignedIn ==
  /\ Queued({"email", "facebook", "enter"}) /\ Ok
  /\ hud' = Flash(hud, "success")
  /\ mainQ' = Append(Tail(mainQ), ToMain(By))
  /\ UNCHANGED <<screens, disabled, touches, auth, crashed, adding>>

\* mutant: the HUD is left as it is
RefusedSilently ==
  /\ Queued({"email", "facebook"}) /\ ~Ok
  /\ disabled' = (IF Head(mainQ).do = "email" THEN disabled \ {By} ELSE disabled)
  /\ mainQ' = Tail(mainQ)
  /\ UNCHANGED <<screens, hud, touches, auth, crashed, adding>>

LoginRefused ==
  /\ Queued({"email", "facebook"}) /\ ~Ok
  /\ disabled' = (IF Head(mainQ).do = "email" THEN disabled \ {By} ELSE disabled)
  /\ hud' = Flash(hud, "error")
  /\ mainQ' = Tail(mainQ)
  /\ UNCHANGED <<screens, touches, auth, crashed, adding>>

\* the login after a registration is refused
EnterRefused ==
  /\ Queued({"enter"}) /\ ~Ok
  /\ hud' = Flash(hud, "error")
  /\ mainQ' = Append(Tail(mainQ), ToLogin(By))
  /\ UNCHANGED <<screens, disabled, touches, auth, crashed, adding>>

Registered(user) ==
  /\ Queued({"create"})
  /\ IF Ok THEN Ask("enter", By, user, Tail(mainQ)) /\ UNCHANGED hud
     ELSE hud' = Flash(hud, "error") /\ UNCHANGED <<requests, overlapped>>
  /\ mainQ' = Tail(mainQ)
  /\ UNCHANGED <<screens, disabled, touches, dialog, account, token, crashed, adding>>

\* whatever the answer, the last thing flashed is success
PointsAnswered ==
  /\ Queued({"points"})
  /\ hud' = Flash(IF Ok THEN hud ELSE Flash(hud, "error"), "success")
  /\ mainQ' = Tail(mainQ)
  /\ UNCHANGED <<screens, disabled, touches, auth, crashed, adding>>

\* saveFirebase's block, for a save that succeeded while its sheet is there
EntryPointSaved ==
  /\ Queued({"save"}) /\ Ok
  /\ hud' = Flash(hud, "success")
  /\ Leave
  /\ mainQ' = Tail(mainQ)
  /\ UNCHANGED <<screens, disabled, stranded, unheard, auth, crashed>>

\* the same block otherwise: it prints, and that is all
SaveUnheeded ==
  /\ Queued({"save", "orphan"}) /\ (Ok => Head(mainQ).do = "orphan")
  /\ unheard' = TRUE
  /\ mainQ' = Tail(mainQ)
  /\ UNCHANGED <<screens, disabled, touches, hud, sheet, stranded, auth, crashed>>

Orphaned(kind) == IF kind = "save" THEN "orphan" ELSE kind

\* the dismissal completes: the sheet is released, and its saves have no self
SheetGone ==
  /\ Running /\ sheet = "leaving"
  /\ sheet' = "none"
  /\ hud' = Uncover(hud)
  /\ requests' = {[r EXCEPT !.kind = Orphaned(@)] : r \in requests}
  /\ mainQ' = [k \in DOMAIN mainQ |-> [mainQ[k] EXCEPT !.do = Orphaned(@)]]
  /\ UNCHANGED <<screens, disabled, touches, stranded, unheard, dialog, account, token,
                 overlapped, crashed, bounds>>

HudExpires ==
  /\ Running /\ MayExpire(hud)
  /\ hud' = Expire(hud)
  /\ UNCHANGED <<screens, disabled, touches, mainQ, auth, crashed, bounds, adding>>

HudFades ==
  /\ Running /\ hud.fading
  /\ hud' = FadeOut(hud)
  /\ UNCHANGED <<screens, disabled, touches, mainQ, auth, crashed, bounds, adding>>

----------------------------------------------------------------------------

Splash == <<[name |-> "splash", uid |-> NoUser]>>
Animation == <<Block("fetch", TRUE, 1, 0)>>

Init ==
  /\ screens = Splash /\ sheet = "none" /\ disabled = {} /\ touches = {} /\ hud = HiddenHud
  /\ mainQ = Animation
  /\ requests = {} /\ dialog = 0 /\ account = NoUser /\ token = FALSE
  /\ crashed = "no" /\ overlapped = FALSE /\ stranded = FALSE /\ unheard = FALSE
  /\ taps = 0 /\ launches = 0

\* the app dies, at any time, and is opened again; the session and the token,
\* unless it expires, are kept
Launch ==
  /\ launches < MaxLaunches
  /\ launches' = launches + 1
  /\ screens' = Splash /\ sheet' = "none" /\ disabled' = {} /\ touches' = {} /\ hud' = HiddenHud
  /\ mainQ' = Animation
  /\ requests' = {} /\ dialog' = 0 /\ overlapped' = FALSE
  /\ crashed' = "no" /\ stranded' = FALSE /\ unheard' = FALSE
  /\ token' \in {token, FALSE}
  /\ UNCHANGED <<account, taps>>

User ==
  \/ \E c \in UNION {Controls[n] : n \in DOMAIN Controls} \cup SheetControls : Touch(c)
  \/ \E valid \in BOOLEAN, u \in Users : LoginTapped(valid, u) \/ SignUpTapped(valid, u)
  \/ FacebookTapped \/ RegisterTapped \/ CancelTapped \/ LogoutTapped \/ ClearTapped
  \/ AddTapped \/ SaveTapped \/ SheetSwiped
  \/ \E result \in {"cancelled", "error", "ok"}, u \in Users : DialogEnds(result, u)

Main ==
  \/ Hop \/ PresentForm \/ PresentMain \/ FetchCurrentUser
  \/ SignedIn \/ LoginRefused \/ EnterRefused \/ PointsAnswered
  \/ EntryPointSaved \/ SaveUnheeded
  \/ \E u \in Users : Registered(u)

Firebase == \E r \in requests, ok \in BOOLEAN : FirebaseAnswers(r, ok)

Next == User \/ Main \/ Firebase \/ SheetGone \/ HudExpires \/ HudFades \/ Launch

\* the main queue is served, Firebase answers, timers run out, dismissals end
Spec ==
  /\ Init /\ [][Next]_vars
  /\ WF_vars(Main) /\ WF_vars(Firebase) /\ WF_vars(HudExpires) /\ WF_vars(HudFades)
  /\ WF_vars(SheetGone)

----------------------------------------------------------------------------
(* Properties                                                              *)

TypeOK ==
  /\ \A i \in DOMAIN screens : /\ screens[i].name \in DOMAIN Controls
                               /\ screens[i].uid \in Users \cup {NoUser}
  /\ sheet \in {"none", "up", "leaving"} /\ (sheet # "none" => TopName = "main")
  /\ disabled \subseteq DOMAIN screens
  /\ touches \subseteq Controls[TopName] \cup (IF sheet = "up" THEN SheetControls ELSE {})
  /\ hud \in HudState
  /\ \A i \in DOMAIN mainQ : mainQ[i].by \in DOMAIN screens
  /\ \A r \in requests : r.kind \in Kinds /\ r.by \in DOMAIN screens /\ r.user \in Users
  /\ dialog \in {0} \cup DOMAIN screens
  /\ account \in Users \cup {NoUser} /\ token \in BOOLEAN

\* Once nothing is under way the chart on the screen observes the points of the
\* user who is signed in, so that what is saved shows up: unless two sign-ins (a
\* login and one with Facebook, say) overlapped, or the user logged out and a sheet
\* that was opened in the same moment kept the login screen from being presented.
ChartShowsAccount ==
  Running /\ TopName = "main" /\ mainQ = <<>> /\ requests = {} /\ ~overlapped
    => screens[Top].uid = account \/ (stranded /\ account = NoUser)

\* fetchCurrentUser routes to the login screen twice, completions route from
\* screens that are covered by now: still no screen is above one of its kind, and
\* only a chart, a splash or a registration is left for a login.
PresentedOnce ==
  /\ TypeOK
  /\ \A i \in 2..Top : screens[i].name # screens[i - 1].name

\* The id a path is built from "Must be a non-empty string" (FValidation.m). It is
\* empty only because a Facebook token outlived a sign-in that Firebase did not
\* grant, or because a chart, or the sheet on it, is used after its log-out: before
\* the login screen covers it, or when a sheet kept that screen away.
EmptyIdExplained ==
  crashed = "noId" =>
    \/ token /\ TopName = "splash"
    \/ /\ TopName = "main" /\ account = NoUser
       /\ stranded \/ \E k \in DOMAIN mainQ : mainQ[k].do = "login" /\ mainQ[k].by = Top

\* Nothing is under way that would take the HUD away, and a save has ended that
\* left it there.
Frozen ==
  /\ unheard
  /\ mainQ = <<>> /\ requests = {} /\ dialog = 0 /\ ~hud.timer /\ ~hud.fading

\* Whatever the screens ask, the progress HUD goes away, on every answer; except
\* after a save that was refused, or whose sheet was gone by then.
ProgressEnds ==
  Blocks(hud) /\ hud.content = "progress" ~>
    ~Running \/ ~Blocks(hud) \/ hud.content # "progress" \/ Frozen
=============================================================================
