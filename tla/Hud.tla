-------------------------------- MODULE Hud ---------------------------------
(***************************************************************************)
(* The one progress HUD of the app: PKHUD.sharedHUD behind the ShowHUD     *)
(* extension of UIViewController.  It is a view put on top of the key      *)
(* window that swallows every touch while it is there.  Its state is a     *)
(* record; each operation of the library maps a HUD to the next one, so    *)
(* that a handler that calls several of them composes them.                *)
(*                                                                         *)
(*   content   what it says (only read while it is shown)                  *)
(*   shown     in the window and not hidden                                *)
(*   covered   a controller was presented above it since it was added      *)
(*   timer     hideTimer is running                                        *)
(*   fading    the 0.8 s animation of hideFrameView has not completed      *)
(***************************************************************************)

Contents == {"none", "progress", "success", "error"}

HudState == [content : Contents, shown : BOOLEAN, covered : BOOLEAN,
             timer : BOOLEAN, fading : BOOLEAN]

HiddenHud == [content |-> "none", shown |-> FALSE, covered |-> FALSE,
              timer |-> FALSE, fading |-> FALSE]

(* HUD.show: a container that is already in the window is not brought to   *)
(* the front, and neither a running hideTimer nor a fade in progress is    *)
(* cancelled.                                                              *)
Show(h, what) ==
  [h EXCEPT !.content = what, !.shown = TRUE, !.covered = h.shown /\ h.covered]

\* mutant of ShowProgress: progress is flashed like a message
ShowProgressBriefly(h) == [Show(h, "progress") EXCEPT !.timer = TRUE]

ShowProgress(h) == Show(h, "progress")

\* mutant of Flash: the delayed hide is missing
FlashForever(h, what) == Show(h, what)

(* HUD.flash: show, and restart the one hideTimer.                         *)
Flash(h, what) == [Show(h, what) EXCEPT !.timer = TRUE]

(* The delays of flash (1 s and 2 s) are longer than the fade (0.8 s), so  *)
(* a timer that was started during a fade runs out after it.               *)
MayExpire(h) == h.timer /\ ~h.fading

(* performDelayedHide: hideFrameView starts the fade, unless already       *)
(* hidden.                                                                 *)
Expire(h) == [h EXCEPT !.timer = FALSE, !.fading = h.shown]

(* The fade's completion hides and detaches the container, whatever was    *)
(* shown in it meanwhile.                                                  *)
FadeOut(h) ==
  [h EXCEPT !.content = "none", !.shown = FALSE, !.covered = FALSE, !.fading = FALSE]

(* UIKit adds a presented controller's view on top of the window, and      *)
(* takes it away when the controller is dismissed (external).              *)
Cover(h) == [h EXCEPT !.covered = h.shown]
Uncover(h) == [h EXCEPT !.covered = FALSE]

(* The touches the HUD swallows never reach the controls below it.         *)
Blocks(h) == h.shown /\ ~h.covered
=============================================================================
