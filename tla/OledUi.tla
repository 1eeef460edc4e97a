------------------------------- MODULE OledUi -------------------------------
(***************************************************************************)
(* The front panel: the oled-ui task (oled_ui.c, oled_ui_logic.c) and what *)
(* it makes of the display (oled_display.c).  The task polls two keys,     *)
(* steps the brightness, pauses the page rotation, shows an overlay for a  *)
(* while after each key, and switches the panel off when the overlay that  *)
(* announces it expires.  Every call to the display may fail, which ends   *)
(* the task and releases the SPI bus.                                      *)
(*                                                                         *)
(* One tick is one poll, OLED_UI_POLL_MS.  The deadlines next_rotation_us, *)
(* overlay_until_us and next_frame_us are kept relative to the now_us of   *)
(* the current poll, so that the model needs no bound on time.             *)
(***************************************************************************)
EXTENDS Integers

CONSTANTS
  Pages,          \* OLED_UI_PAGE_COUNT
  DebouncePolls,  \* OLED_UI_DEBOUNCE_MS, in polls
  Rotation,       \* OLED_UI_ROTATION_INTERVAL_US, in polls
  Overlay,        \* OLED_UI_OVERLAY_INTERVAL_US, in polls
  Frame,          \* OLED_UI_FRAME_INTERVAL_US, in polls
  MaxStall        \* bound: most ticks the task can fall behind

ASSUME PeriodAssumption ==
  /\ {Pages, DebouncePolls, Rotation, Overlay, Frame} \subseteq Nat \ {0}
  /\ MaxStall \in Nat

VARIABLES
  task,     \* the task's program counter, and how far it is behind last_wake
  ui,       \* state of oled_ui_task
  panel,    \* the display: availability, power, contrast, what it shows
  sinceKey  \* history: ticks since the last accepted key, up to Rotation

uiVars == <<task, ui, panel, sinceKey>>

Brightnesses == {"100", "35", "OFF"}
Overlays == {"NONE", "BRIGHT_100", "BRIGHT_35", "DISPLAY_OFF",
             "ROTATION_PAUSED", "ROTATION_AUTO"}
\* What is in the frame: an overlay, or else a page.
Shows(overlay, page) == [overlay |-> overlay, page |-> page]
Cleared == Shows("CLEARED", 0)
ReleasedKey == [stable |-> FALSE, candidate |-> FALSE, polls |-> 0]

\* oled_ui_task starts only after oled_display_init succeeded.
UiInit ==
  /\ \E buttons \in BOOLEAN : task = [pc |-> "key0", buttons |-> buttons, late |-> 0]
  /\ ui = [page |-> 0, brightness |-> "100", paused |-> FALSE, powered |-> TRUE,
           redraw |-> TRUE, overlay |-> "NONE", overlayLeft |-> 0,
           rotationLeft |-> Rotation, frameLeft |-> 0,
           key0 |-> ReleasedKey, key1 |-> ReleasedKey]
  /\ panel = [available |-> TRUE, on |-> TRUE, contrast |-> "100", shows |-> Cleared]
  /\ sinceKey = 0

Goto(pc) == task' = [task EXCEPT !.pc = pc]

\* oled_fail, and the task leaves its loop.
DisplayFails ==
  /\ panel' = [panel EXCEPT !.available = FALSE]
  /\ Goto("stopped")

-----------------------------------------------------------------------------
(***************************************************************************)
(* The keys.                                                               *)
(***************************************************************************)

\* oled_ui_debounce_update: a level is stable once it was read in DebouncePolls
\* polls in a row; a level that becomes stably pressed is a press.
Candidate(key, pressed) ==
  IF pressed # key.candidate THEN [key EXCEPT !.candidate = pressed, !.polls = 1]
  ELSE [key EXCEPT !.polls = IF @ < DebouncePolls THEN @ + 1 ELSE @]
Settles(key) == key.candidate # key.stable /\ key.polls >= DebouncePolls
Debounced(key, pressed) ==
  LET c == Candidate(key, pressed)
  IN  IF Settles(c) THEN [c EXCEPT !.stable = c.candidate] ELSE c
Press(key, pressed) == Settles(Candidate(key, pressed)) /\ pressed

NextBrightness == [b \in Brightnesses |->
  CASE b = "100" -> "35" [] b = "35" -> "OFF" [] b = "OFF" -> "100"]

\* set_overlay
WithOverlay(u, overlay) ==
  [u EXCEPT !.overlay = overlay, !.overlayLeft = Overlay, !.redraw = TRUE]

SampleKey0 ==
  /\ task.pc = "key0"
  /\ IF task.buttons
     THEN \E pressed \in BOOLEAN :
            /\ ui' = [ui EXCEPT !.key0 = Debounced(@, pressed)]
            /\ Goto(IF Press(ui.key0, pressed) THEN "brightness" ELSE "key1")
     ELSE Goto("expire") /\ UNCHANGED ui
  /\ UNCHANGED <<panel, sinceKey>>

\* The state after handle_key0's first two assignments.
Stepped ==
  [ui EXCEPT !.rotationLeft = Rotation, !.brightness = NextBrightness[@]]

\* handle_key0: the next brightness, and an overlay that names it.
Dim ==
  /\ task.pc = "brightness"
  /\ Stepped.brightness = "35"
  /\ sinceKey' = 0
  /\ \/ /\ panel' = [panel EXCEPT !.contrast = "35"]
        /\ ui' = WithOverlay(Stepped, "BRIGHT_35")
        /\ Goto("key1")
     \/ DisplayFails /\ ui' = Stepped

AnnounceOff ==
  /\ task.pc = "brightness"
  /\ Stepped.brightness = "OFF"
  /\ sinceKey' = 0
  /\ ui' = WithOverlay(Stepped, "DISPLAY_OFF")
  /\ Goto("key1")
  /\ UNCHANGED panel

\* Mutant: the panel is not switched on again.
BrightenDark ==
  /\ task.pc = "brightness"
  /\ Stepped.brightness = "100"
  /\ sinceKey' = 0
  /\ \/ /\ panel' = [panel EXCEPT !.contrast = "100"]
        /\ ui' = WithOverlay([Stepped EXCEPT !.powered = TRUE], "BRIGHT_100")
        /\ Goto("key1")
     \/ DisplayFails /\ ui' = Stepped

\* The panel is switched on first if it is dark; either command may fail.
Brighten ==
  /\ task.pc = "brightness"
  /\ Stepped.brightness = "100"
  /\ sinceKey' = 0
  /\ \/ /\ panel' = [panel EXCEPT !.on = TRUE, !.contrast = "100"]
        /\ ui' = WithOverlay([Stepped EXCEPT !.powered = TRUE], "BRIGHT_100")
        /\ Goto("key1")
     \/ ~ui.powered /\ DisplayFails /\ ui' = Stepped
     \/ /\ panel' = [panel EXCEPT !.on = TRUE, !.available = FALSE]
        /\ ui' = [Stepped EXCEPT !.powered = TRUE]
        /\ Goto("stopped")

\* Mutant: the rotation's deadline is left where it was.
ToggleRotationLate(u) ==
  WithOverlay([u EXCEPT !.paused = ~@],
              IF u.paused THEN "ROTATION_AUTO" ELSE "ROTATION_PAUSED")

\* handle_key1
ToggleRotation(u) ==
  WithOverlay([u EXCEPT !.paused = ~@, !.rotationLeft = Rotation],
              IF u.paused THEN "ROTATION_AUTO" ELSE "ROTATION_PAUSED")

SampleKey1 ==
  /\ task.pc = "key1"
  /\ \E pressed \in BOOLEAN :
       LET u == [ui EXCEPT !.key1 = Debounced(@, pressed)]
       IN  IF Press(ui.key1, pressed)
           THEN ui' = ToggleRotation(u) /\ sinceKey' = 0
           ELSE ui' = u /\ UNCHANGED sinceKey
  /\ Goto("expire")
  /\ UNCHANGED panel

-----------------------------------------------------------------------------
(***************************************************************************)
(* The rest of a poll.                                                     *)
(***************************************************************************)
OverlayDue == ui.overlay # "NONE" /\ ui.overlayLeft = 0
SwitchesOff == ui.brightness = "OFF" /\ ui.powered

OverlayStays ==
  /\ task.pc = "expire"
  /\ ~OverlayDue
  /\ Goto("render")
  /\ UNCHANGED <<ui, panel, sinceKey>>

OverlayExpires ==
  /\ task.pc = "expire"
  /\ OverlayDue /\ ~SwitchesOff
  /\ ui' = [ui EXCEPT !.overlay = "NONE", !.redraw = TRUE]
  /\ Goto("render")
  /\ UNCHANGED <<panel, sinceKey>>

\* Mutant: the page is drawn and the panel stays on.
SwitchOffDraws ==
  /\ task.pc = "expire"
  /\ OverlayDue /\ SwitchesOff
  /\ ui' = [ui EXCEPT !.overlay = "NONE", !.redraw = TRUE]
  /\ Goto("render")
  /\ UNCHANGED <<panel, sinceKey>>

\* DISPLAY OFF has been shown long enough.
SwitchOff ==
  /\ task.pc = "expire"
  /\ OverlayDue /\ SwitchesOff
  /\ \/ /\ panel' = [panel EXCEPT !.on = FALSE]
        /\ ui' = [ui EXCEPT !.overlay = "NONE", !.powered = FALSE]
        /\ Goto("render")
     \/ DisplayFails /\ ui' = [ui EXCEPT !.overlay = "NONE"]
  /\ UNCHANGED sinceKey

\* advance_pages: one page for every rotation interval that has passed.
Turns == IF ui.paused \/ ui.rotationLeft > 0 THEN 0
         ELSE (-ui.rotationLeft) \div Rotation + 1
\* Mutant: the new page waits for the next frame.
AdvancedUndrawn ==
  [ui EXCEPT !.page = (@ + Turns) % Pages,
             !.rotationLeft = @ + Turns * Rotation]

Advanced ==
  [ui EXCEPT !.page = (@ + Turns) % Pages,
             !.rotationLeft = @ + Turns * Rotation,
             !.redraw = @ \/ Turns > 0]

Content(u) == Shows(u.overlay, IF u.overlay = "NONE" THEN u.page ELSE 0)

\* advance_pages and render_if_needed.
Render ==
  /\ task.pc = "render"
  /\ IF Advanced.powered /\ (Advanced.redraw \/ Advanced.frameLeft = 0)
     THEN \/ /\ panel' = [panel EXCEPT !.shows = Content(Advanced)]
             /\ ui' = [Advanced EXCEPT !.redraw = FALSE, !.frameLeft = Frame]
             /\ Goto("delay")
          \/ DisplayFails /\ ui' = Advanced
     ELSE ui' = Advanced /\ Goto("delay") /\ UNCHANGED panel
  /\ UNCHANGED sinceKey

AtLeast(bound, n) == IF n < bound THEN bound ELSE n

\* vTaskDelayUntil.  The poll has taken stall ticks; a task that is behind goes
\* on at once, poll after poll, until it has caught up.
Delay ==
  /\ task.pc = "delay"
  /\ \E stall \in 0 .. MaxStall - task.late :
       LET behind  == task.late + stall
           elapsed == IF behind > 0 THEN stall ELSE 1
       IN  /\ task' = [task EXCEPT !.pc = "key0", !.late = AtLeast(0, behind - 1)]
           /\ ui' = [ui EXCEPT !.overlayLeft = AtLeast(0, @ - elapsed),
                               !.frameLeft = AtLeast(0, @ - elapsed),
                               !.rotationLeft = AtLeast(-MaxStall, @ - elapsed)]
           /\ sinceKey' = IF sinceKey + elapsed > Rotation THEN Rotation
                          ELSE sinceKey + elapsed
  /\ UNCHANGED panel

\* The task has stopped; the rest of the device goes on.
Stopped == task.pc = "stopped" /\ UNCHANGED uiVars

TaskStep ==
  \/ SampleKey0 \/ Dim \/ AnnounceOff \/ Brighten \/ SampleKey1
  \/ OverlayStays \/ OverlayExpires \/ SwitchOff \/ Render \/ Delay

UiNext == TaskStep \/ Stopped

UiSpec == UiInit /\ [][UiNext]_uiVars

\* The task has the lowest priority but the idle task's, and all tasks above it
\* block for most of the time.
FairUiSpec == UiSpec /\ WF_uiVars(TaskStep)

-----------------------------------------------------------------------------
(***************************************************************************)
(* Properties.                                                             *)
(***************************************************************************)

\* Between two polls the panel is in the state that the brightness names: it is
\* dark only when it was switched off by KEY0, and comes back at full contrast.
BetweenPolls == task.pc \in {"delay", "key0"}
PanelFollows ==
  BetweenPolls =>
    /\ panel.on = ui.powered
    /\ ~panel.on => ui.brightness = "OFF" /\ ui.overlay # "DISPLAY_OFF"
    /\ ui.brightness # "OFF" => panel.contrast = ui.brightness

\* A lit panel never goes on showing an overlay that has expired or a page that
\* has been left, whatever happened while it was dark.
ShowsCurrent ==
  task.pc = "delay" /\ panel.on => panel.shows = Content(ui)

\* After any key the page stays for a whole rotation interval: the rotation does
\* not catch up on the time it was paused.
PageHeldAfterKey == [][ui'.page # ui.page => sinceKey >= Rotation]_uiVars

\* A panel that KEY0 is switching off goes dark, unless KEY0 is pressed again,
\* KEY1 keeps bringing up its overlay, or the display fails.
GoesDark ==
  (ui.brightness = "OFF" /\ ui.powered)
    ~> \/ ~panel.on
       \/ ui.brightness # "OFF"
       \/ ui.overlay \in {"ROTATION_PAUSED", "ROTATION_AUTO"}
       \/ task.pc = "stopped"

=============================================================================
