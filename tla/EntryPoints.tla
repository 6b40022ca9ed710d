---------------------------- MODULE EntryPoints -----------------------------
(***************************************************************************)
(* The chart screen and the sheet that adds a point, with everything they  *)
(* drive: the Realtime Database (DatabaseFB.swift), the SQLite table       *)
(* (SQLCommands.swift) and the HUD.  The user is signed in.                *)
(*                                                                         *)
(* All of this code runs on the main thread.  A step is one of its         *)
(* handlers, run to completion: a control's touch-up, a block of the main  *)
(* queue, a timer or the end of an animation.  UIKit decides at            *)
(* touch-down which control a touch belongs to, and delivers the touch-up  *)
(* to that control even if the HUD covers it by then; with several         *)
(* Fingers, handlers can therefore run while the HUD is up.                *)
(***************************************************************************)
EXTENDS RealtimeDatabase, Hud

CONSTANTS
  Fingers,    \* how many touches the user can hold at once
  SqlMayFail  \* the statements of SQLCommands may fail

ASSUME FingersAssumption == Fingers \in Nat \ {0}
ASSUME SqlAssumption == SqlMayFail \in BOOLEAN

VARIABLES
  entryPoints,     \* ChartViewController.entryPoints
  shouldHideData,  \* ChartViewController.shouldHideData
  drawn,           \* the points of chartView.data; <<>> stands for nil
  sheet,           \* AddNewPointViewController: "none", "up" or "leaving"
  savers,          \* points whose completion block still has its weak self
  touches,         \* controls that hold a touch
  hud,             \* PKHUD.sharedHUD
  rows             \* the rows of the SQLite table entryPoint

chart   == <<entryPoints, shouldHideData, drawn>>
screen  == <<sheet, savers, touches, hud>>
appVars == <<dbVars, chart, screen, rows>>

ChartControls == {"clear", "add"}
SheetControls == {"save", "swipe"}

AppInit ==
  /\ Init
  /\ entryPoints = <<>> /\ shouldHideData = FALSE /\ drawn = <<>>
  /\ sheet = "none" /\ savers = {} /\ touches = {}
  /\ hud = HiddenHud
  /\ rows = <<>>

(* A handler that issues a write changes nothing else of the database.     *)
Writes(w) ==
  /\ CallWrite(w)
  /\ UNCHANGED <<pending, listen, serverCache, wire, mainQ, server>>

\* mutant of RunSql: the table is never emptied
RunSqlInsertsOnly(result) == rows' = IF result = <<>> THEN rows ELSE result

(* A statement's error is printed and its result ignored.                  *)
RunSql(result) == rows' = result \/ (SqlMayFail /\ rows' = rows)

(* updateChartData: nothing is drawn, or everything is.                    *)
UpdateChartData ==
  drawn' = IF shouldHideData' THEN <<>> ELSE entryPoints'

-----------------------------------------------------------------------------
(* The user. *)

Touch(c) ==
  /\ c \in (CASE sheet = "none" -> ChartControls
              [] sheet = "up"   -> SheetControls
              [] OTHER          -> {}) \ touches
  /\ ~Blocks(hud)
  /\ Cardinality(touches) < Fingers
  /\ touches' = touches \cup {c}
  /\ UNCHANGED <<dbVars, chart, sheet, savers, hud, rows>>

Lift(c) == c \in touches /\ touches' = touches \ {c}

CancelTouch(c) ==
  /\ Lift(c)
  /\ UNCHANGED <<dbVars, chart, sheet, savers, hud, rows>>

(* clearPointsTapped: the chart and the table are emptied before the       *)
(* server has been asked.                                                  *)
ClearPointsTapped ==
  /\ Lift("clear")
  /\ hud' = ShowProgress(hud)
  /\ entryPoints' = <<>>
  /\ shouldHideData' = TRUE
  /\ UpdateChartData
  /\ \E c \in Clears : Writes(c)
  /\ RunSql(<<>>)
  /\ UNCHANGED <<sheet, savers>>

(* addNewPointTapped: a second segue while the sheet is presented does     *)
(* nothing.                                                                *)
AddNewPointTapped ==
  /\ Lift("add")
  /\ sheet' = IF sheet = "none" THEN "up" ELSE sheet
  /\ hud' = IF sheet = "none" THEN Cover(hud) ELSE hud
  /\ UNCHANGED <<dbVars, chart, savers, rows>>

(* saveTapped: the point is sent to Firebase; the completion block holds   *)
(* the sheet weakly.                                                       *)
SaveTapped ==
  /\ Lift("save")
  /\ hud' = ShowProgress(hud)
  /\ \E p \in Points : Writes(p) /\ savers' = savers \cup {p}
  /\ UNCHANGED <<chart, sheet, rows>>

(* A dismissal starts: the touches in the sheet are cancelled.             *)
Leave ==
  /\ sheet' = IF sheet = "up" THEN "leaving" ELSE sheet
  /\ touches' = touches \ SheetControls

(* The user drags the sheet down.                                          *)
SheetSwiped ==
  /\ "swipe" \in touches
  /\ Leave
  /\ UNCHANGED <<dbVars, chart, savers, hud, rows>>

-----------------------------------------------------------------------------
(* The blocks of the main queue. *)

RunBlock(b) ==
  /\ TakeBlock
  /\ Head(mainQ) = b
  /\ UNCHANGED <<client, wire, server, history>>

\* mutant of WithPoint: a chart that was just cleared ignores the event
WithPointUnlessHidden(p) ==
  IF shouldHideData THEN entryPoints ELSE Append(entryPoints, p)

WithPoint(p) == Append(entryPoints, p)

(* The observer of addObserverOfEntryPoints.                               *)
EntryPointAdded ==
  \E p \in Points :
    /\ RunBlock(ChildAdded(p))
    /\ entryPoints' = WithPoint(p)
    /\ shouldHideData' = FALSE
    /\ UpdateChartData
    /\ UNCHANGED <<screen, rows>>

Answer(w, s) == [block |-> "answer", write |-> w, status |-> s]

\* mutant of Succeeded: the error is not looked at
SucceededAlways(s) == TRUE

Succeeded(s) == s = "ok"

(* saveFirebase's block, for a save that succeeded while its sheet still   *)
(* exists: insert the row, flash, dismiss.                                 *)
EntryPointSaved ==
  \E p \in savers, s \in Statuses :
    /\ Succeeded(s)
    /\ RunBlock(Answer(p, s))
    /\ savers' = savers \ {p}
    /\ RunSql(Append(rows, p))
    /\ hud' = Flash(hud, "success")
    /\ Leave
    /\ UNCHANGED chart

(* The same block when the save failed, or when the sheet is gone: it      *)
(* prints, and that is all.                                                *)
SaveUnheeded ==
  \E p \in Points, s \in Statuses :
    /\ ~Succeeded(s) \/ p \notin savers
    /\ RunBlock(Answer(p, s))
    /\ savers' = savers \ {p}
    /\ UNCHANGED <<chart, sheet, touches, hud, rows>>

(* clearPointsTapped's block: an error is flashed, then success in any     *)
(* case.                                                                   *)
ClearAnswered ==
  \E c \in Clears, s \in Statuses :
    /\ RunBlock(Answer(c, s))
    /\ hud' = Flash(IF Succeeded(s) THEN hud ELSE Flash(hud, "error"), "success")
    /\ UNCHANGED <<chart, sheet, savers, touches, rows>>

-----------------------------------------------------------------------------
(* Timers and animations of the main thread. *)

HudExpires ==
  /\ MayExpire(hud)
  /\ hud' = Expire(hud)
  /\ UNCHANGED <<dbVars, chart, sheet, savers, touches, rows>>

HudFades ==
  /\ hud.fading
  /\ hud' = FadeOut(hud)
  /\ UNCHANGED <<dbVars, chart, sheet, savers, touches, rows>>

(* The dismissal completes: the sheet is released, and with it the weak    *)
(* self of the saves it has not heard of.                                  *)
SheetGone ==
  /\ sheet = "leaving"
  /\ sheet' = "none"
  /\ savers' = {}
  /\ hud' = Uncover(hud)
  /\ UNCHANGED <<dbVars, chart, touches, rows>>

-----------------------------------------------------------------------------
(* The process dies and the user opens the app again, still signed in.     *)
AppRelaunch ==
  /\ Relaunch
  /\ entryPoints' = <<>> /\ shouldHideData' = FALSE /\ drawn' = <<>>
  /\ sheet' = "none" /\ savers' = {} /\ touches' = {}
  /\ hud' = HiddenHud
  /\ UNCHANGED rows

User ==
  \/ \E c \in ChartControls \cup SheetControls : Touch(c) \/ CancelTouch(c)
  \/ ClearPointsTapped \/ AddNewPointTapped \/ SaveTapped \/ SheetSwiped

MainQueue == EntryPointAdded \/ EntryPointSaved \/ SaveUnheeded \/ ClearAnswered

AppNext ==
  \/ User
  \/ MainQueue
  \/ HudExpires \/ HudFades \/ SheetGone
  \/ Service /\ UNCHANGED <<chart, screen, rows>>
  \/ AppRelaunch

AppSpec == AppInit /\ [][AppNext]_appVars

(* The run loop and the client's queue are served, the client reconnects   *)
(* and the server answers.  Nothing is asked of the user.                  *)
AppFairness ==
  /\ WF_appVars(MainQueue)
  /\ WF_appVars(HudExpires)
  /\ WF_appVars(HudFades)
  /\ WF_appVars(SheetGone)
  /\ WF_appVars(ClientRuns /\ UNCHANGED <<chart, screen, rows>>)
  /\ WF_appVars(Connect /\ UNCHANGED <<chart, screen, rows>>)
  /\ WF_appVars(ClientReceives /\ UNCHANGED <<chart, screen, rows>>)
  /\ WF_appVars(ServerServes /\ UNCHANGED <<chart, screen, rows>>)

FairAppSpec == AppSpec /\ AppFairness

-----------------------------------------------------------------------------
(* The values the variables range over. *)
AppTypeOK ==
  /\ TypeOK
  /\ entryPoints \in Seq(Points)
  /\ shouldHideData \in BOOLEAN
  /\ drawn \in Seq(Points)
  /\ sheet \in {"none", "up", "leaving"}
  /\ savers \in SUBSET Points
  /\ touches \in SUBSET (ChartControls \cup SheetControls)
  /\ hud \in HudState
  /\ rows \in Seq(Points)

Queued(p) == ChildAdded(p) \in ToSet(mainQ)

(* The chart misses nothing: a point the client holds is drawn, or its     *)
(* event waits on the main queue, or a clear the chart has already applied *)
(* is about to hide it.                                                    *)
ChartMissesNothing ==
  \A p \in EventCache :
    \/ p \in ToSet(drawn)
    \/ Queued(p)
    \/ \E c \in Clears : c \in ToSet(calls)

EventBlocks == {i \in DOMAIN mainQ : mainQ[i].block = "childAdded"}

(* A point reaches the chart at most once, through reconnections, unless a *)
(* clear was refused and its points were raised again.                     *)
ChartRepeatsNothing ==
  (\A c \in Clears : outcome[c] # "denied") =>
    /\ IsInjective(entryPoints)
    /\ \A i \in EventBlocks : mainQ[i].point \notin ToSet(entryPoints)
    /\ \A i, j \in EventBlocks : mainQ[i].point = mainQ[j].point => i = j

(* A point on the chart that the client no longer holds was refused by the *)
(* server, or a clear was issued after it (for another device's point: at  *)
(* any time, since it may arrive while a clear is under way), or the       *)
(* listen was refused.                                                     *)
StalePointsExplained ==
  \A p \in Points :
    p \in ToSet(entryPoints) \/ Queued(p) =>
      \/ p \in EventCache
      \/ outcome[p] = "denied"
      \/ \E c \in Clears \cap taken : p \in covers[c] \cup Elsewhere
      \/ listen = "off"

(* A row of the table is a point whose save was confirmed, once.           *)
RowsAreConfirmed ==
  /\ IsInjective(rows)
  /\ \A p \in ToSet(rows) : outcome[p] = "ok"

(* Operations of this device that the app has not heard the end of.        *)
Outstanding ==
  {w \in Write \ Elsewhere :
     \/ w \in ToSet(calls) \cup ToSet(pending)
     \/ \E s \in Statuses : Answer(w, s) \in ToSet(mainQ)}

(* With one finger the HUD is a lock: one operation at a time, and it is   *)
(* up, with nothing about to hide it, until the operation is answered.     *)
HudSerialises ==
  Outstanding # {} =>
    /\ Cardinality(Outstanding) = 1
    /\ Blocks(hud) /\ hud.content = "progress"
    /\ ~hud.timer /\ ~hud.fading

(* With one finger no row survives, or arrives after, a clear of this      *)
(* device that was tapped after its save.                                  *)
RowsFollowClears ==
  \A c \in (Clears \cap taken) \ Elsewhere : ToSet(rows) \cap covers[c] = {}

(* Nothing will ever take the HUD away.                                    *)
Frozen ==
  Blocks(hud) /\ ~hud.timer /\ ~hud.fading /\ Outstanding = {}

(* With one finger the HUD goes away again, except after a save that was   *)
(* refused, which leaves the app frozen behind it.                         *)
HudEnds ==
  Blocks(hud) ~> \/ ~Blocks(hud)
                 \/ Frozen /\ \E p \in Points : outcome[p] = "denied"

(* What the server stores reaches the chart, or is removed, or the chart   *)
(* is not allowed to listen.                                               *)
StoredIsCharted ==
  \A p \in Points :
    p \in server ~> (p \in ToSet(entryPoints) \/ p \notin server \/ listen = "off")

AppSettled == Settled /\ mainQ = <<>>

(* With one finger the two stores agree once nothing is under way, unless  *)
(* a clear was refused (it had emptied the table already), another device  *)
(* cleared, or the process died between a confirmation and its row: the    *)
(* rows are the points this installation saved that the server stores.     *)
StoresAgree ==
  /\ AppSettled /\ deaths = 0
  /\ \A c \in Clears \cap taken : c \notin Elsewhere /\ outcome[c] # "denied"
  => ToSet(rows) = {p \in server : outcome[p] = "ok"}

(* README.md: "You add the point to the chart and it will be saved."  Once *)
(* nothing is under way, what the chart shows is stored.                   *)
ChartedPointIsSaved ==
  AppSettled => ToSet(entryPoints) \subseteq server
=============================================================================
