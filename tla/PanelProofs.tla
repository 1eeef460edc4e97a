----------------------------- MODULE PanelProofs -----------------------------
(* Proofs about the settings, the hostname and the front panel. *)
EXTENDS AppConfig, Hostname, OledUi, SettingsRequest, FiniteSetTheorems, TLAPS

\* A configuration record has the right type, its Boolean field included.
LEMMA ConfigTyped ==
  ASSUME NEW name \in Names
  PROVE  [active |-> name, configured |-> name, restartPending |-> FALSE]
           \in [active: Names, configured: Names, restartPending: BOOLEAN]
OBVIOUS

\* Down, whoever causes it, keeps the inductive invariant: nothing is running.
LEMMA DownKeeps ==
  ASSUME ConfigInv, Down
  PROVE  ConfigInv'
<1> USE DEF Names, NoConfig, Idle, HttpdPc
<1>1. ConfigTypeOK'
  <2>1. config' \in [active: Names, configured: Names, restartPending: BOOLEAN]
    BY ConfigTyped DEF Down
  <2>2. httpd' \in [pc: HttpdPc, name: Names]
    BY DEF Down
  <2>3. nvs' \in [stored: Names, staged: Names]
    BY DEF ConfigInv, ConfigTypeOK, Down
  <2> QED
    BY <2>1, <2>2, <2>3 DEF ConfigInv, ConfigTypeOK, Down
<1>2. SaveInv'
  BY DEF Down, SaveInv
<1>3. ConfiguredIsStored' /\ PendingExact'
  BY DEF Down, ConfiguredIsStored, PendingExact
<1> QED
  BY <1>1, <1>2, <1>3 DEF ConfigInv

LEMMA InitEstablishes == ConfigInit => ConfigInv
<1> SUFFICES ASSUME ConfigInit PROVE ConfigInv
  OBVIOUS
<1> USE DEF ConfigInit, Names, NoConfig, Idle, HttpdPc
<1>1. config \in [active: Names, configured: Names, restartPending: BOOLEAN]
  BY ConfigTyped
<1>2. httpd \in [pc: HttpdPc, name: Names]
  OBVIOUS
<1>3. nvs \in [stored: Names, staged: Names]
  OBVIOUS
<1>4. ConfigTypeOK
  BY <1>1, <1>2, <1>3 DEF ConfigTypeOK
<1> QED
  BY <1>4 DEF ConfigInv, SaveInv, ConfiguredIsStored, PendingExact

\* A boot starts from what is stored.
LEMMA BootKeeps ==
  ASSUME ConfigInv, Boot \/ BootErased
  PROVE  ConfigInv'
<1> USE HostnameAssumption DEF Names, Idle, HttpdPc, Loaded, BootWith
<1>1. ConfigTypeOK'
  <2>1. config' \in [active: Names, configured: Names, restartPending: BOOLEAN]
    BY ConfigTyped DEF ConfigInv, ConfigTypeOK, Boot, BootErased
  <2>2. nvs' \in [stored: Names, staged: Names] /\ acknowledged' \in Names
    BY DEF ConfigInv, ConfigTypeOK, Boot, BootErased
  <2>3. running' = TRUE /\ httpd' = httpd /\ restartTimer' = restartTimer
    BY DEF Boot, BootErased
  <2> QED
    BY <2>1, <2>2, <2>3 DEF ConfigInv, ConfigTypeOK
<1>2. SaveInv'
  BY DEF ConfigInv, ConfigTypeOK, SaveInv, Boot, BootErased
<1>3. ConfiguredIsStored' /\ PendingExact'
  BY DEF ConfiguredIsStored, PendingExact, Boot, BootErased
<1> QED
  BY <1>1, <1>2, <1>3 DEF ConfigInv

\* The steps of the httpd task.
HandlerStep ==
  \/ SaveRequest \/ CompareEqual \/ CompareDifferent
  \/ SetName \/ Commit \/ WriteFails \/ UpdateState \/ RestartRequest

LEMMA HandlerKeeps ==
  ASSUME ConfigInv, HandlerStep
  PROVE  ConfigInv'
<1> USE HostnameAssumption
    DEF Names, Idle, HttpdPc, Reply, ConfigInv, ConfigTypeOK, SaveInv,
        ConfiguredIsStored, PendingExact
<1>1. CASE SaveRequest
  BY <1>1 DEF SaveRequest
<1>2. CASE CompareEqual
  BY <1>2 DEF CompareEqual
<1>3. CASE CompareDifferent
  BY <1>3 DEF CompareDifferent
<1>4. CASE SetName
  BY <1>4 DEF SetName
<1>5. CASE Commit
  BY <1>5 DEF Commit
<1>6. CASE WriteFails
  BY <1>6 DEF WriteFails
<1>7. CASE UpdateState
  BY <1>7 DEF UpdateState, Loaded
<1>8. CASE RestartRequest
  BY <1>8 DEF RestartRequest
<1> QED
  BY <1>1, <1>2, <1>3, <1>4, <1>5, <1>6, <1>7, <1>8 DEF HandlerStep

LEMMA ConfigurationSound == ConfigSpec => []ConfigInv
<1>1. ConfigInit => ConfigInv
  BY InitEstablishes
<1>2. ConfigInv /\ [ConfigNext]_configVars => ConfigInv'
  <2> SUFFICES ASSUME ConfigInv, [ConfigNext]_configVars
               PROVE  ConfigInv'
    OBVIOUS
  <2>1. CASE Boot \/ BootErased
    BY <2>1, BootKeeps
  <2>2. CASE HandlerStep
    BY <2>2, HandlerKeeps
  <2>3. CASE TimerFires \/ PowerLoss
    BY <2>3, DownKeeps DEF TimerFires, PowerLoss
  <2>4. CASE UNCHANGED configVars
    BY <2>4 DEF configVars, ConfigInv, ConfigTypeOK, SaveInv, ConfiguredIsStored, PendingExact
  <2> QED
    BY <2>1, <2>2, <2>3, <2>4 DEF ConfigNext, HandlerStep
<1> QED
  BY <1>1, <1>2, PTL DEF ConfigSpec

\* Whatever the hostnames are, and however saves, failed writes, restarts and
\* power losses interleave (app_config_save_hostname), while no failed write is
\* left in flash the next boot loads the configured name.
THEOREM ConfiguredAlwaysStored == ConfigSpec => []ConfiguredIsStored
<1>1. ConfigInv => ConfiguredIsStored
  BY DEF ConfigInv
<1> QED
  BY <1>1, ConfigurationSound, PTL

\* In all of these behaviours a restart is pending exactly while the configured
\* and the active name differ (restart_pending in app_config.c).
THEOREM PendingAlwaysExact == ConfigSpec => []PendingExact
<1>1. ConfigInv => PendingExact
  BY DEF ConfigInv
<1> QED
  BY <1>1, ConfigurationSound, PTL


-----------------------------------------------------------------------------
(***************************************************************************)
(* The hostname.                                                           *)
(***************************************************************************)
InputTypeOK == input \in Seq(CharacterClasses)

\* What hostname_validation.c makes of a name has its length and its characters,
\* upper case aside.
LEMMA NormalizedName ==
  ASSUME NEW s \in Seq(CharacterClasses)
  PROVE  /\ Normalized(s) \in Seq(CharacterClasses)
         /\ Len(Normalized(s)) = Len(s) /\ DOMAIN Normalized(s) = 1 .. Len(s)
         /\ \A i \in 1 .. Len(s) :
              /\ Normalized(s)[i] = IF s[i] = "upper" THEN "lower" ELSE s[i]
              /\ Normalized(s)[i] \in LettersAndDigits <=> s[i] \in LettersAndDigits
              /\ Normalized(s)[i] = "hyphen" <=> s[i] = "hyphen"
<1>1. DOMAIN s = 1 .. Len(s) /\ Len(s) \in Nat /\ \A i \in 1 .. Len(s) : s[i] \in CharacterClasses
  OBVIOUS
<1>2. Normalized(s) = [i \in 1 .. Len(s) |-> IF s[i] = "upper" THEN "lower" ELSE s[i]]
  BY <1>1 DEF Normalized
<1>3. \A i \in 1 .. Len(s) : (IF s[i] = "upper" THEN "lower" ELSE s[i]) \in CharacterClasses
  BY <1>1 DEF CharacterClasses
<1>4. Normalized(s) \in Seq(CharacterClasses) /\ Len(Normalized(s)) = Len(s)
  BY <1>1, <1>2, <1>3
<1> QED  BY <1>2, <1>4 DEF LettersAndDigits

\* The checks accept exactly the names that pass each of them.
LEMMA ValidName ==
  ASSUME NEW s
  PROVE  Validation(s) = "VALID" <=>
           s # <<>> /\ ~TooLong(s) /\ Edges(s) /\ Characters(s)
BY Zenon DEF Validation

LEMMA InputTyped == HostnameSpec => []InputTypeOK
<1>1. HostnameInit => InputTypeOK
  BY DEF HostnameInit, InputTypeOK
<1>2. InputTypeOK /\ [TypeCharacter]_input => InputTypeOK'
  BY DEF InputTypeOK, TypeCharacter
<1> QED  BY <1>1, <1>2, PTL DEF HostnameSpec

LEMMA AcceptedAsDocumented == InputTypeOK => AcceptsDocumented
<1> SUFFICES ASSUME InputTypeOK PROVE AcceptsDocumented
  OBVIOUS
<1> DEFINE n == Len(input)
<1>1. DOMAIN input = 1 .. n /\ n \in Nat /\ (input # <<>> <=> n >= 1)
  BY DEF InputTypeOK
<1>2. input # <<>> /\ ~TooLong(input) <=> n \in 1 .. MaxLength
  BY <1>1, LengthAssumption DEF TooLong
<1>3. ASSUME n \in 1 .. MaxLength
      PROVE  Edges(input) /\ Characters(input) <=>
               \A i \in DOMAIN input :
                 \/ input[i] \in LettersAndDigits
                 \/ input[i] = "hyphen" /\ i \notin {1, n}
  <2>1. 1 \in 1 .. n /\ n \in 1 .. n
    BY <1>1, <1>3
  <2>2. "hyphen" \notin LettersAndDigits
    BY DEF LettersAndDigits
  <2> HIDE DEF n
  <2>3. Edges(input) <=> input[1] \in LettersAndDigits /\ input[n] \in LettersAndDigits
    BY DEF Edges, n
  <2>4. Characters(input) <=>
          \A i \in 1 .. n : input[i] \in LettersAndDigits \/ input[i] = "hyphen"
    BY <1>1, Zenon DEF Characters
  <2> QED  BY <1>1, <2>1, <2>2, <2>3, <2>4, Zenon
<1> QED  BY <1>2, <1>3, ValidName DEF AcceptsDocumented

LEMMA SavedLoads == InputTypeOK => SavedNameLoads
<1> SUFFICES ASSUME InputTypeOK, Validation(input) = "VALID" PROVE
      /\ Validation(Normalized(input)) = "VALID"
      /\ Normalized(Normalized(input)) = Normalized(input)
      /\ "upper" \notin {Normalized(input)[i] : i \in DOMAIN input}
  BY DEF SavedNameLoads
<1> DEFINE n == Len(input)
           name == Normalized(input)
<1>1. DOMAIN input = 1 .. n /\ n \in Nat
  BY DEF InputTypeOK
<1>2. /\ name \in Seq(CharacterClasses) /\ Len(name) = n /\ DOMAIN name = 1 .. n
      /\ \A i \in 1 .. n :
           /\ name[i] = IF input[i] = "upper" THEN "lower" ELSE input[i]
           /\ name[i] \in LettersAndDigits <=> input[i] \in LettersAndDigits
           /\ name[i] = "hyphen" <=> input[i] = "hyphen"
  BY NormalizedName DEF InputTypeOK
<1>3. input # <<>> /\ ~TooLong(input) /\ Edges(input) /\ Characters(input)
  BY ValidName
<1>4. n >= 1
  BY <1>3 DEF InputTypeOK
<1> HIDE DEF name
<1>5. \A i \in 1 .. n : name[i] # "upper"
  BY <1>2
<1>6. name # <<>> /\ ~TooLong(name)
  BY <1>1, <1>2, <1>3, <1>4 DEF TooLong
<1>7. Edges(name) /\ Characters(name)
  BY <1>1, <1>2, <1>3, <1>4 DEF Edges, Characters
<1>8. Validation(name) = "VALID"
  BY <1>6, <1>7, ValidName
<1>9. Normalized(name) = name
  <2>1. Normalized(name) = [i \in 1 .. n |-> name[i]]
    BY <1>2, <1>5 DEF Normalized
  <2> QED  BY <1>2, <2>1
<1> QED  BY <1>1, <1>5, <1>8, <1>9 DEF name

\* What the web page accepts is what is documented, and what the next boot loads
\* (app_hostname_normalize, load_hostname), for names of every length.
THEOREM NamesAlwaysKept == HostnameSpec => []NamesKept
<1>1. InputTypeOK => NamesKept
  BY AcceptedAsDocumented, SavedLoads DEF NamesKept
<1> QED  BY <1>1, InputTyped, PTL


-----------------------------------------------------------------------------
(***************************************************************************)
(* The front panel.                                                        *)
(***************************************************************************)
UiPc == {"key0", "brightness", "key1", "expire", "render", "delay", "stopped"}
Keys == [stable : BOOLEAN, candidate : BOOLEAN, polls : Nat]
UiStates ==
  [page : 0 .. Pages - 1, brightness : Brightnesses, paused : BOOLEAN,
   powered : BOOLEAN, redraw : BOOLEAN, overlay : Overlays, overlayLeft : Int,
   rotationLeft : Int, frameLeft : Int, key0 : Keys, key1 : Keys]

Contents == [overlay : Overlays \cup {"CLEARED"}, page : Int]

UiTypeOK ==
  /\ task \in [pc : UiPc, buttons : BOOLEAN, late : Int]
  /\ ui \in UiStates
  /\ panel \in [available : BOOLEAN, on : BOOLEAN, contrast : Brightnesses, shows : Contents]
  /\ sinceKey \in Int

\* The panel is as ui says, at every step of a poll.
PanelInv ==
  task.pc # "stopped" =>
    /\ panel.on = ui.powered
    /\ ~ui.powered => ui.brightness = "OFF" /\ ui.overlay # "DISPLAY_OFF"
    /\ ui.brightness # "OFF" => panel.contrast = ui.brightness

\* What is not to be redrawn is shown, and nothing is left to redraw at the end
\* of a poll.
ShownInv ==
  /\ task.pc # "stopped" /\ ui.powered /\ ~ui.redraw => panel.shows = Content(ui)
  /\ task.pc = "delay" /\ ui.powered => ~ui.redraw

\* The rotation is due no earlier than a whole interval after a key.
HeldInv ==
  /\ sinceKey <= Rotation
  /\ sinceKey < Rotation => ui.rotationLeft >= Rotation - sinceKey

UiInv == UiTypeOK /\ PanelInv /\ ShownInv /\ HeldInv

LEMMA PeriodFacts ==
  Pages \in Nat \ {0} /\ Rotation \in Nat \ {0} /\ Overlay \in Nat /\ Frame \in Nat
  /\ DebouncePolls \in Nat /\ MaxStall \in Nat
BY PeriodAssumption

LEMMA DebouncedKey ==
  ASSUME NEW key \in Keys, NEW pressed \in BOOLEAN
  PROVE  Debounced(key, pressed) \in Keys
<1> DEFINE c == Candidate(key, pressed)
<1>1. c \in Keys
  <2>1. key.polls + 1 \in Nat /\ 1 \in Nat
    BY DEF Keys
  <2>2. /\ [key EXCEPT !.candidate = pressed, !.polls = 1] \in Keys
        /\ [key EXCEPT !.polls = key.polls + 1] \in Keys
        /\ [key EXCEPT !.polls = key.polls] \in Keys
    BY <2>1 DEF Keys
  <2> QED  BY <2>2, Zenon DEF Candidate
<1> HIDE DEF c
<1>2. [c EXCEPT !.stable = c.candidate] \in Keys
  BY <1>1 DEF Keys
<1> QED  BY <1>1, <1>2 DEF Debounced, c

LEMMA UiStart == UiInit => UiInv
<1> SUFFICES ASSUME UiInit PROVE UiInv
  OBVIOUS
<1>1. ReleasedKey \in Keys
  BY DEF ReleasedKey, Keys
<1>2. ui \in UiStates
  BY <1>1, PeriodFacts DEF UiInit, UiStates, Brightnesses, Overlays
<1>3. task.pc = "key0" /\ task \in [pc : UiPc, buttons : BOOLEAN, late : Int]
  BY DEF UiInit, UiPc
<1>4. panel.on = TRUE /\ panel.contrast = "100" /\ sinceKey = 0
  BY DEF UiInit
<1>5. /\ ui.powered = TRUE /\ ui.brightness = "100" /\ ui.redraw = TRUE
      /\ ui.rotationLeft = Rotation
  BY DEF UiInit
<1>6. UiTypeOK
  <2>1. sinceKey \in Int
    BY <1>4
  <2>2. panel \in [available : BOOLEAN, on : BOOLEAN, contrast : Brightnesses, shows : Contents]
    BY DEF UiInit, Brightnesses, Contents, Cleared, Shows
  <2> QED  BY <1>2, <1>3, <2>1, <2>2, Zenon DEF UiTypeOK
<1>7. PanelInv /\ ShownInv
  BY <1>3, <1>4, <1>5, Zenon DEF PanelInv, ShownInv
<1>8. HeldInv
  BY <1>4, <1>5, PeriodFacts DEF HeldInv
<1> QED  BY <1>6, <1>7, <1>8 DEF UiInv

LEMMA Key0Keeps == UiInv /\ SampleKey0 => UiInv'
<1> SUFFICES ASSUME UiInv, SampleKey0 PROVE UiInv'
  OBVIOUS
<1> USE DEF UiInv
<1>1. UNCHANGED <<panel, sinceKey>> /\ task.pc = "key0"
  BY DEF SampleKey0
<1>2. \E pc \in UiPc \ {"delay", "stopped"} : task' = [task EXCEPT !.pc = pc]
  BY DEF SampleKey0, Goto, UiPc
<1>3. \E key \in Keys : ui' = [ui EXCEPT !.key0 = key]
  <2>1. CASE UNCHANGED ui
    <3>1. ui.key0 \in Keys /\ ui' = [ui EXCEPT !.key0 = ui.key0]
      BY <2>1 DEF UiTypeOK, UiStates
    <3> QED  BY <3>1
  <2>2. CASE \E pressed \in BOOLEAN : ui' = [ui EXCEPT !.key0 = Debounced(@, pressed)]
    <3>1. ui.key0 \in Keys
      BY DEF UiTypeOK, UiStates
    <3> QED  BY <2>2, <3>1, DebouncedKey
  <2> QED  BY <2>1, <2>2 DEF SampleKey0
<1>4. /\ task'.pc \notin {"delay", "stopped"}
      /\ task' \in [pc : UiPc, buttons : BOOLEAN, late : Int]
  BY <1>2 DEF UiTypeOK
<1>5. ui' \in UiStates
  BY <1>3 DEF UiTypeOK, UiStates
<1>6. /\ ui'.powered = ui.powered /\ ui'.brightness = ui.brightness
      /\ ui'.overlay = ui.overlay /\ ui'.redraw = ui.redraw /\ ui'.page = ui.page
      /\ ui'.rotationLeft = ui.rotationLeft
  BY <1>3 DEF UiTypeOK, UiStates
<1>7. UiTypeOK'
  BY <1>1, <1>4, <1>5 DEF UiTypeOK
<1>8. PanelInv' /\ ShownInv' /\ HeldInv'
  BY <1>1, <1>4, <1>6 DEF PanelInv, ShownInv, HeldInv, Content
<1> QED  BY <1>7, <1>8

\* What an overlay leaves of the state.
LEMMA OverlaySet ==
  ASSUME NEW u \in UiStates, NEW overlay \in Overlays
  PROVE  /\ WithOverlay(u, overlay) \in UiStates
         /\ WithOverlay(u, overlay).overlay = overlay
         /\ WithOverlay(u, overlay).redraw = TRUE
         /\ WithOverlay(u, overlay).powered = u.powered
         /\ WithOverlay(u, overlay).brightness = u.brightness
         /\ WithOverlay(u, overlay).rotationLeft = u.rotationLeft
         /\ WithOverlay(u, overlay).page = u.page
<1>1. Overlay \in Int
  BY PeriodFacts
<1>2. WithOverlay(u, overlay) \in UiStates
  BY <1>1 DEF WithOverlay, UiStates
<1> QED  BY <1>2 DEF WithOverlay, UiStates

\* handle_key0's first two assignments.
LEMMA SteppedState ==
  ASSUME UiTypeOK
  PROVE  /\ Stepped \in UiStates
         /\ Stepped.rotationLeft = Rotation
         /\ Stepped.brightness = NextBrightness[ui.brightness]
         /\ Stepped.powered = ui.powered
         /\ Stepped.overlay = ui.overlay
         /\ Stepped.page = ui.page
         /\ [Stepped EXCEPT !.powered = TRUE] \in UiStates
         /\ [Stepped EXCEPT !.powered = TRUE].powered = TRUE
         /\ [Stepped EXCEPT !.powered = TRUE].brightness = Stepped.brightness
         /\ [Stepped EXCEPT !.powered = TRUE].rotationLeft = Rotation
         /\ [Stepped EXCEPT !.powered = TRUE].page = ui.page
<1>1. ui.brightness \in Brightnesses /\ ui \in UiStates
  BY DEF UiTypeOK, UiStates
<1>2. NextBrightness[ui.brightness] \in Brightnesses
  BY <1>1 DEF NextBrightness, Brightnesses
<1> HIDE DEF NextBrightness
<1>3. Stepped \in UiStates
  <2>1. Rotation \in Int
    BY PeriodFacts
  <2> QED  BY <1>1, <1>2, <2>1 DEF Stepped, UiStates
<1>4. /\ Stepped.rotationLeft = Rotation
      /\ Stepped.brightness = NextBrightness[ui.brightness]
      /\ Stepped.powered = ui.powered
      /\ Stepped.overlay = ui.overlay
      /\ Stepped.page = ui.page
  BY <1>1 DEF Stepped, UiStates
<1> QED  BY <1>3, <1>4 DEF UiStates

\* A panel that is dark is at OFF: the brightness before it is not dark.
LEMMA StepsFromLit ==
  ASSUME UiInv, task.pc # "stopped", Stepped.brightness # "100"
  PROVE  ui.powered = TRUE /\ panel.on = TRUE
<1>1. ui.brightness # "OFF" /\ ui.powered \in BOOLEAN
  <2>1. ui.brightness \in Brightnesses /\ ui.powered \in BOOLEAN
    BY DEF UiInv, UiTypeOK, UiStates
  <2> QED  BY <2>1, SteppedState DEF NextBrightness, UiInv
<1> QED  BY <1>1 DEF UiInv, PanelInv

\* The task goes on at another place.
LEMMA GotoTyped ==
  ASSUME UiTypeOK, NEW pc \in UiPc, Goto(pc)
  PROVE  task'.pc = pc /\ task' \in [pc : UiPc, buttons : BOOLEAN, late : Int]
BY DEF UiTypeOK, Goto

\* The display fails.
LEMMA FailureTyped ==
  ASSUME UiTypeOK, DisplayFails
  PROVE  /\ task'.pc = "stopped" /\ task' \in [pc : UiPc, buttons : BOOLEAN, late : Int]
         /\ panel' \in [available : BOOLEAN, on : BOOLEAN, contrast : Brightnesses,
                          shows : Contents]
<1>1. Goto("stopped") /\ "stopped" \in UiPc /\ panel' = [panel EXCEPT !.available = FALSE]
  BY DEF DisplayFails, UiPc
<1> QED  BY <1>1, GotoTyped DEF UiTypeOK

\* The contrast is set and, by its caller, the panel switched on.
LEMMA PanelSet ==
  ASSUME UiTypeOK, NEW contrast \in Brightnesses, NEW on \in BOOLEAN
  PROVE  /\ [panel EXCEPT !.contrast = contrast]
              \in [available : BOOLEAN, on : BOOLEAN, contrast : Brightnesses, shows : Contents]
         /\ [panel EXCEPT !.contrast = contrast].contrast = contrast
         /\ [panel EXCEPT !.contrast = contrast].on = panel.on
         /\ [panel EXCEPT !.on = on]
              \in [available : BOOLEAN, on : BOOLEAN, contrast : Brightnesses, shows : Contents]
         /\ [panel EXCEPT !.on = on].on = on
         /\ [panel EXCEPT !.on = on].contrast = panel.contrast
         /\ [panel EXCEPT !.on = on].shows = panel.shows
BY DEF UiTypeOK

LEMMA DimKeeps == UiInv /\ Dim => UiInv'
<1> SUFFICES ASSUME UiInv, Dim PROVE UiInv'
  OBVIOUS
<1> USE DEF UiInv
<1>1. task.pc = "brightness" /\ Stepped.brightness = "35" /\ sinceKey' = 0
  BY DEF Dim
<1>2. ui.powered = TRUE /\ panel.on = TRUE
  BY <1>1, StepsFromLit
<1>3. CASE /\ panel' = [panel EXCEPT !.contrast = "35"]
           /\ ui' = WithOverlay(Stepped, "BRIGHT_35")
           /\ Goto("key1")
  <2>1. "35" \in Brightnesses /\ "BRIGHT_35" \in Overlays /\ "key1" \in UiPc
    BY DEF Brightnesses, Overlays, UiPc
  <2>2. task'.pc = "key1" /\ task' \in [pc : UiPc, buttons : BOOLEAN, late : Int]
    BY <1>3, <2>1, GotoTyped
  <2>3. /\ ui' \in UiStates /\ ui'.redraw = TRUE /\ ui'.powered = TRUE
        /\ ui'.brightness = "35" /\ ui'.rotationLeft = Rotation
    BY <1>1, <1>2, <1>3, <2>1, SteppedState, OverlaySet
  <2>4. /\ panel'.on = TRUE /\ panel'.contrast = "35"
        /\ panel' \in [available : BOOLEAN, on : BOOLEAN, contrast : Brightnesses,
                         shows : Contents]
    BY <1>2, <1>3, <2>1, PanelSet
  <2>5. UiTypeOK' /\ HeldInv'
    BY <1>1, <2>2, <2>3, <2>4, PeriodFacts DEF UiTypeOK, HeldInv
  <2>6. PanelInv' /\ ShownInv'
    BY <2>2, <2>3, <2>4 DEF PanelInv, ShownInv
  <2> QED  BY <2>5, <2>6
<1>4. CASE DisplayFails /\ ui' = Stepped
  <2>1. UiTypeOK' /\ HeldInv'
    BY <1>1, <1>4, FailureTyped, SteppedState, PeriodFacts DEF UiTypeOK, HeldInv
  <2>2. PanelInv' /\ ShownInv'
    BY <1>4, FailureTyped DEF PanelInv, ShownInv
  <2> QED  BY <2>1, <2>2
<1> QED  BY <1>3, <1>4 DEF Dim

LEMMA AnnounceOffKeeps == UiInv /\ AnnounceOff => UiInv'
<1> SUFFICES ASSUME UiInv, AnnounceOff PROVE UiInv'
  OBVIOUS
<1> USE DEF UiInv
<1>1. /\ task.pc = "brightness" /\ Stepped.brightness = "OFF" /\ sinceKey' = 0
      /\ ui' = WithOverlay(Stepped, "DISPLAY_OFF") /\ Goto("key1") /\ panel' = panel
  BY DEF AnnounceOff
<1>2. ui.powered = TRUE /\ panel.on = TRUE
  BY <1>1, StepsFromLit
<1>3. "DISPLAY_OFF" \in Overlays /\ "key1" \in UiPc
  BY DEF Overlays, UiPc
<1>4. task'.pc = "key1" /\ task' \in [pc : UiPc, buttons : BOOLEAN, late : Int]
  BY <1>1, <1>3, GotoTyped
<1>5. /\ ui' \in UiStates /\ ui'.redraw = TRUE /\ ui'.powered = TRUE
      /\ ui'.brightness = "OFF" /\ ui'.rotationLeft = Rotation
  BY <1>1, <1>2, <1>3, SteppedState, OverlaySet
<1>6. UiTypeOK' /\ HeldInv'
  BY <1>1, <1>4, <1>5, PeriodFacts DEF UiTypeOK, HeldInv
<1>7. PanelInv' /\ ShownInv'
  BY <1>1, <1>2, <1>4, <1>5 DEF PanelInv, ShownInv
<1> QED  BY <1>6, <1>7

LEMMA BrightenKeeps == UiInv /\ Brighten => UiInv'
<1> SUFFICES ASSUME UiInv, Brighten PROVE UiInv'
  OBVIOUS
<1> USE DEF UiInv
<1>1. Stepped.brightness = "100" /\ sinceKey' = 0
  BY DEF Brighten
<1>2. "100" \in Brightnesses /\ "BRIGHT_100" \in Overlays /\ {"key1", "stopped"} \subseteq UiPc
  BY DEF Brightnesses, Overlays, UiPc
<1>3. CASE /\ panel' = [panel EXCEPT !.on = TRUE, !.contrast = "100"]
           /\ ui' = WithOverlay([Stepped EXCEPT !.powered = TRUE], "BRIGHT_100")
           /\ Goto("key1")
  <2>1. task'.pc = "key1" /\ task' \in [pc : UiPc, buttons : BOOLEAN, late : Int]
    BY <1>3, <1>2, GotoTyped
  <2>2. /\ ui' \in UiStates /\ ui'.redraw = TRUE /\ ui'.powered = TRUE
        /\ ui'.brightness = "100" /\ ui'.rotationLeft = Rotation
    <3> DEFINE u == [Stepped EXCEPT !.powered = TRUE]
    <3>1. /\ u \in UiStates /\ u.powered = TRUE /\ u.brightness = "100"
          /\ u.rotationLeft = Rotation
      BY <1>1, SteppedState
    <3> HIDE DEF u
    <3>2. ui' = WithOverlay(u, "BRIGHT_100")
      BY <1>3 DEF u
    <3> QED  BY <1>2, <3>1, <3>2, OverlaySet
  <2>3. /\ panel'.on = TRUE /\ panel'.contrast = "100"
        /\ panel' \in [available : BOOLEAN, on : BOOLEAN, contrast : Brightnesses,
                         shows : Contents]
    BY <1>3, <1>2 DEF UiTypeOK
  <2>4. UiTypeOK' /\ HeldInv'
    BY <1>1, <2>1, <2>2, <2>3, PeriodFacts DEF UiTypeOK, HeldInv
  <2>5. PanelInv' /\ ShownInv'
    BY <2>1, <2>2, <2>3 DEF PanelInv, ShownInv
  <2> QED  BY <2>4, <2>5
<1>4. CASE DisplayFails /\ ui' = Stepped
  <2>1. UiTypeOK' /\ HeldInv'
    BY <1>1, <1>4, FailureTyped, SteppedState, PeriodFacts DEF UiTypeOK, HeldInv
  <2>2. PanelInv' /\ ShownInv'
    BY <1>4, FailureTyped DEF PanelInv, ShownInv
  <2> QED  BY <2>1, <2>2
<1>5. CASE /\ panel' = [panel EXCEPT !.on = TRUE, !.available = FALSE]
           /\ ui' = [Stepped EXCEPT !.powered = TRUE]
           /\ Goto("stopped")
  <2>1. task'.pc = "stopped" /\ task' \in [pc : UiPc, buttons : BOOLEAN, late : Int]
    BY <1>5, <1>2, GotoTyped
  <2>2. panel' \in [available : BOOLEAN, on : BOOLEAN, contrast : Brightnesses,
                     shows : Contents]
    BY <1>5 DEF UiTypeOK
  <2>3. ui' \in UiStates /\ ui'.rotationLeft = Rotation
    BY <1>5, SteppedState
  <2>4. UiTypeOK' /\ HeldInv'
    BY <1>1, <2>1, <2>2, <2>3, PeriodFacts DEF UiTypeOK, HeldInv
  <2>5. PanelInv' /\ ShownInv'
    BY <2>1 DEF PanelInv, ShownInv
  <2> QED  BY <2>4, <2>5
<1> QED  BY <1>3, <1>4, <1>5 DEF Brighten

LEMMA Key1Keeps == UiInv /\ SampleKey1 => UiInv'
<1> SUFFICES ASSUME UiInv, SampleKey1 PROVE UiInv'
  OBVIOUS
<1> USE DEF UiInv
<1>1. task.pc = "key1" /\ panel' = panel /\ Goto("expire") /\ "expire" \in UiPc
  BY DEF SampleKey1, UiPc
<1>2. task'.pc = "expire" /\ task' \in [pc : UiPc, buttons : BOOLEAN, late : Int]
  BY <1>1, GotoTyped
<1>3. PICK pressed \in BOOLEAN :
        LET u == [ui EXCEPT !.key1 = Debounced(@, pressed)]
        IN  IF Press(ui.key1, pressed)
            THEN ui' = ToggleRotation(u) /\ sinceKey' = 0
            ELSE ui' = u /\ UNCHANGED sinceKey
  BY DEF SampleKey1
<1> DEFINE u == [ui EXCEPT !.key1 = Debounced(@, pressed)]
           v == [u EXCEPT !.paused = ~@, !.rotationLeft = Rotation]
<1>4. /\ u \in UiStates
      /\ u.powered = ui.powered /\ u.brightness = ui.brightness
      /\ u.overlay = ui.overlay /\ u.redraw = ui.redraw /\ u.page = ui.page
      /\ u.rotationLeft = ui.rotationLeft
  <2>1. ui.key1 \in Keys
    BY DEF UiTypeOK, UiStates
  <2>2. Debounced(ui.key1, pressed) \in Keys
    BY <2>1, DebouncedKey
  <2> QED  BY <2>2 DEF UiTypeOK, UiStates
<1>5. CASE ui' = u /\ sinceKey' = sinceKey
  <2>1. UiTypeOK' /\ HeldInv'
    BY <1>1, <1>2, <1>4, <1>5 DEF UiTypeOK, HeldInv
  <2>2. PanelInv' /\ ShownInv'
    BY <1>1, <1>2, <1>4, <1>5 DEF PanelInv, ShownInv, Content
  <2> QED  BY <2>1, <2>2
<1> HIDE DEF u
<1>6. CASE ui' = ToggleRotation(u) /\ sinceKey' = 0
  <2>1. PICK overlay \in {"ROTATION_AUTO", "ROTATION_PAUSED"} : ui' = WithOverlay(v, overlay)
    BY <1>6 DEF ToggleRotation
  <2>2. /\ v \in UiStates /\ v.rotationLeft = Rotation
        /\ v.powered = u.powered /\ v.brightness = u.brightness
    <3>1. Rotation \in Int
      BY PeriodFacts
    <3> DEFINE paused == ~u.paused
    <3>2. paused \in BOOLEAN /\ v = [u EXCEPT !.paused = paused, !.rotationLeft = Rotation]
      OBVIOUS
    <3> HIDE DEF paused, v
    <3> QED  BY <1>4, <3>1, <3>2 DEF UiStates
  <2> HIDE DEF v
  <2>3. overlay \in Overlays /\ overlay # "DISPLAY_OFF"
    BY DEF Overlays
  <2>4. /\ ui' \in UiStates /\ ui'.redraw = TRUE /\ ui'.powered = ui.powered
        /\ ui'.brightness = ui.brightness /\ ui'.rotationLeft = Rotation
        /\ ui'.overlay # "DISPLAY_OFF"
    BY <1>4, <2>1, <2>2, <2>3, OverlaySet
  <2>5. UiTypeOK' /\ HeldInv'
    BY <1>1, <1>2, <1>6, <2>4, PeriodFacts DEF UiTypeOK, HeldInv
  <2>6. PanelInv' /\ ShownInv'
    BY <1>1, <1>2, <2>4 DEF PanelInv, ShownInv
  <2> QED  BY <2>5, <2>6
<1> QED  BY <1>3, <1>5, <1>6, Zenon DEF u

LEMMA OverlayStaysKeeps == UiInv /\ OverlayStays => UiInv'
<1> SUFFICES ASSUME UiInv, OverlayStays PROVE UiInv'
  OBVIOUS
<1> USE DEF UiInv
<1>1. /\ task.pc = "expire" /\ Goto("render") /\ "render" \in UiPc
      /\ ui' = ui /\ panel' = panel /\ sinceKey' = sinceKey
  BY DEF OverlayStays, UiPc
<1>2. task'.pc = "render" /\ task' \in [pc : UiPc, buttons : BOOLEAN, late : Int]
  BY <1>1, GotoTyped
<1>3. UiTypeOK' /\ HeldInv'
  BY <1>1, <1>2 DEF UiTypeOK, HeldInv
<1>4. PanelInv' /\ ShownInv'
  BY <1>1, <1>2 DEF PanelInv, ShownInv, Content
<1> QED  BY <1>3, <1>4

LEMMA OverlayExpiresKeeps == UiInv /\ OverlayExpires => UiInv'
<1> SUFFICES ASSUME UiInv, OverlayExpires PROVE UiInv'
  OBVIOUS
<1> USE DEF UiInv
<1>1. /\ task.pc = "expire" /\ Goto("render") /\ "render" \in UiPc
      /\ ui' = [ui EXCEPT !.overlay = "NONE", !.redraw = TRUE]
      /\ panel' = panel /\ sinceKey' = sinceKey
  BY DEF OverlayExpires, UiPc
<1>2. task'.pc = "render" /\ task' \in [pc : UiPc, buttons : BOOLEAN, late : Int]
  BY <1>1, GotoTyped
<1>3. /\ ui' \in UiStates /\ ui'.redraw = TRUE /\ ui'.powered = ui.powered
      /\ ui'.brightness = ui.brightness /\ ui'.rotationLeft = ui.rotationLeft
      /\ ui'.overlay = "NONE"
  BY <1>1 DEF UiTypeOK, UiStates, Overlays
<1>4. UiTypeOK' /\ HeldInv'
  BY <1>1, <1>2, <1>3 DEF UiTypeOK, HeldInv
<1>5. PanelInv' /\ ShownInv'
  BY <1>1, <1>2, <1>3 DEF PanelInv, ShownInv
<1> QED  BY <1>4, <1>5

LEMMA SwitchOffKeeps == UiInv /\ SwitchOff => UiInv'
<1> SUFFICES ASSUME UiInv, SwitchOff PROVE UiInv'
  OBVIOUS
<1> USE DEF UiInv
<1>1. ui.brightness = "OFF" /\ sinceKey' = sinceKey
  BY DEF SwitchOff, SwitchesOff
<1>2. CASE /\ panel' = [panel EXCEPT !.on = FALSE]
           /\ ui' = [ui EXCEPT !.overlay = "NONE", !.powered = FALSE]
           /\ Goto("render")
  <2>1. task'.pc = "render" /\ task' \in [pc : UiPc, buttons : BOOLEAN, late : Int]
    BY <1>2, GotoTyped DEF UiPc
  <2>2. /\ ui' \in UiStates /\ ui'.powered = FALSE /\ ui'.brightness = "OFF"
        /\ ui'.overlay = "NONE" /\ ui'.rotationLeft = ui.rotationLeft
    BY <1>1, <1>2 DEF UiTypeOK, UiStates, Overlays
  <2>3. /\ panel'.on = FALSE
        /\ panel' \in [available : BOOLEAN, on : BOOLEAN, contrast : Brightnesses,
                         shows : Contents]
    BY <1>2 DEF UiTypeOK
  <2>4. UiTypeOK' /\ HeldInv'
    BY <1>1, <2>1, <2>2, <2>3 DEF UiTypeOK, HeldInv
  <2>5. PanelInv' /\ ShownInv'
    BY <2>1, <2>2, <2>3 DEF PanelInv, ShownInv
  <2> QED  BY <2>4, <2>5
<1>3. CASE DisplayFails /\ ui' = [ui EXCEPT !.overlay = "NONE"]
  <2>1. ui' \in UiStates /\ ui'.rotationLeft = ui.rotationLeft
    BY <1>3 DEF UiTypeOK, UiStates, Overlays
  <2>2. UiTypeOK' /\ HeldInv'
    BY <1>1, <1>3, <2>1, FailureTyped DEF UiTypeOK, HeldInv
  <2>3. PanelInv' /\ ShownInv'
    BY <1>3, FailureTyped DEF PanelInv, ShownInv
  <2> QED  BY <2>2, <2>3
<1> QED  BY <1>2, <1>3 DEF SwitchOff

\* advance_pages: no turn comes within an interval of a key, and a page that is
\* left is drawn anew.
LEMMA AdvancedState ==
  ASSUME UiTypeOK, HeldInv
  PROVE  /\ Advanced \in UiStates
         /\ Advanced.powered = ui.powered /\ Advanced.brightness = ui.brightness
         /\ Advanced.overlay = ui.overlay
         /\ ~Advanced.redraw => ~ui.redraw /\ Advanced.page = ui.page
         /\ sinceKey < Rotation =>
               Advanced.page = ui.page /\ Advanced.rotationLeft = ui.rotationLeft
<1>1. /\ ui.page \in 0 .. Pages - 1 /\ ui.rotationLeft \in Int /\ ui.redraw \in BOOLEAN
      /\ sinceKey \in Int
  BY DEF UiTypeOK, UiStates
<1>2. Turns \in Nat /\ (sinceKey < Rotation => Turns = 0)
  <2>1. CASE ui.rotationLeft > 0
    BY <2>1 DEF Turns
  <2>2. CASE ui.rotationLeft <= 0
    <3>1. (-ui.rotationLeft) \div Rotation \in Nat
      <4> DEFINE r == -ui.rotationLeft
      <4>1. r \in Nat
        BY <1>1, <2>2
      <4> HIDE DEF r
      <4>2. r \div Rotation \in Nat
        BY <4>1, PeriodFacts
      <4> QED  BY <4>2 DEF r
    <3>2. ~(sinceKey < Rotation)
      BY <1>1, <2>2, PeriodFacts DEF HeldInv
    <3>3. (-ui.rotationLeft) \div Rotation + 1 \in Nat
      BY <3>1
    <3> QED  BY <3>2, <3>3, Zenon DEF Turns
  <2> QED  BY <1>1, <2>1, <2>2
<1> HIDE DEF Turns
<1> DEFINE page == (ui.page + Turns) % Pages
           left == ui.rotationLeft + Turns * Rotation
           redraw == ui.redraw \/ Turns > 0
<1>3. page \in 0 .. Pages - 1 /\ (Turns = 0 => page = ui.page)
  BY <1>1, <1>2, PeriodFacts
<1>4. left \in Int /\ (Turns = 0 => left = ui.rotationLeft)
  BY <1>1, <1>2, PeriodFacts
<1>5. redraw \in BOOLEAN /\ (~redraw => ~ui.redraw /\ Turns = 0)
  BY <1>1, <1>2
<1>6. Advanced = [ui EXCEPT !.page = page, !.rotationLeft = left, !.redraw = redraw]
  BY DEF Advanced
<1> HIDE DEF page, left, redraw
<1>7. /\ Advanced \in UiStates
      /\ Advanced.powered = ui.powered /\ Advanced.brightness = ui.brightness
      /\ Advanced.overlay = ui.overlay
      /\ Advanced.page = page /\ Advanced.rotationLeft = left /\ Advanced.redraw = redraw
  BY <1>3, <1>4, <1>5, <1>6 DEF UiTypeOK, UiStates
<1> QED  BY <1>2, <1>3, <1>4, <1>5, <1>7

LEMMA RenderKeeps == UiInv /\ Render => UiInv'
<1> SUFFICES ASSUME UiInv, Render PROVE UiInv'
  OBVIOUS
<1> USE DEF UiInv
<1>1. task.pc = "render" /\ sinceKey' = sinceKey /\ "delay" \in UiPc
  BY DEF Render, UiPc
<1>2. CASE /\ panel' = [panel EXCEPT !.shows = Content(Advanced)]
           /\ ui' = [Advanced EXCEPT !.redraw = FALSE, !.frameLeft = Frame]
           /\ Goto("delay")
  <2>1. task'.pc = "delay" /\ task' \in [pc : UiPc, buttons : BOOLEAN, late : Int]
    BY <1>1, <1>2, GotoTyped
  <2>2. /\ ui' \in UiStates /\ ui'.powered = ui.powered
        /\ ui'.brightness = ui.brightness /\ ui'.overlay = ui.overlay
        /\ ui'.page = Advanced.page /\ ui'.redraw = FALSE
        /\ ui'.rotationLeft = Advanced.rotationLeft
    <3>1. Frame \in Int
      BY PeriodFacts
    <3>2. /\ Advanced \in UiStates /\ Advanced.powered = ui.powered
          /\ Advanced.brightness = ui.brightness /\ Advanced.overlay = ui.overlay
      BY AdvancedState
    <3> QED  BY <1>2, <3>1, <3>2 DEF UiStates
  <2>3. Content(Advanced) = Content(ui') /\ Content(Advanced) \in Contents
    <3>1. /\ Advanced.overlay = ui'.overlay /\ Advanced.page = ui'.page
          /\ Advanced.overlay \in Overlays /\ Advanced.page \in Int
      BY <2>2, AdvancedState, PeriodFacts DEF UiTypeOK, UiStates
    <3> QED  BY <3>1 DEF Content, Contents, Shows
  <2>4. /\ panel'.on = panel.on /\ panel'.contrast = panel.contrast
        /\ panel'.shows = Content(ui')
        /\ panel' \in [available : BOOLEAN, on : BOOLEAN, contrast : Brightnesses,
                         shows : Contents]
    BY <1>2, <2>3 DEF UiTypeOK
  <2>5. UiTypeOK'
    BY <1>1, <2>1, <2>2, <2>4 DEF UiTypeOK
  <2>6. HeldInv'
    BY <1>1, <2>2, AdvancedState DEF HeldInv
  <2>7. PanelInv' /\ ShownInv'
    BY <1>1, <2>1, <2>2, <2>4 DEF PanelInv, ShownInv
  <2> QED  BY <2>5, <2>6, <2>7
<1>3. CASE DisplayFails /\ ui' = Advanced
  <2>1. UiTypeOK'
    BY <1>1, <1>3, AdvancedState, FailureTyped DEF UiTypeOK
  <2>2. HeldInv'
    BY <1>1, <1>3, AdvancedState DEF HeldInv
  <2>3. PanelInv' /\ ShownInv'
    BY <1>3, FailureTyped DEF PanelInv, ShownInv
  <2> QED  BY <2>1, <2>2, <2>3
<1>4. CASE /\ ~(Advanced.powered /\ (Advanced.redraw \/ Advanced.frameLeft = 0))
           /\ ui' = Advanced /\ Goto("delay") /\ UNCHANGED panel
  <2>1. task'.pc = "delay" /\ task' \in [pc : UiPc, buttons : BOOLEAN, late : Int]
    BY <1>1, <1>4, GotoTyped
  <2>2. UiTypeOK'
    BY <1>1, <1>4, <2>1, AdvancedState DEF UiTypeOK
  <2>3. HeldInv'
    BY <1>1, <1>4, AdvancedState DEF HeldInv
  <2>4. PanelInv' /\ ShownInv'
    BY <1>1, <1>4, <2>1, AdvancedState DEF PanelInv, ShownInv, Content
  <2> QED  BY <2>2, <2>3, <2>4
<1> QED  BY <1>2, <1>3, <1>4, Zenon DEF Render

LEMMA DelayKeeps == UiInv /\ Delay => UiInv'
<1> SUFFICES ASSUME UiInv, Delay PROVE UiInv'
  OBVIOUS
<1> USE DEF UiInv
<1>1. task.late \in Int /\ task.pc = "delay" /\ panel' = panel
  BY DEF UiTypeOK, Delay
<1>2. PICK stall \in 0 .. MaxStall - task.late :
        LET behind  == task.late + stall
            elapsed == IF behind > 0 THEN stall ELSE 1
        IN  /\ task' = [task EXCEPT !.pc = "key0", !.late = AtLeast(0, behind - 1)]
            /\ ui' = [ui EXCEPT !.overlayLeft = AtLeast(0, @ - elapsed),
                                !.frameLeft = AtLeast(0, @ - elapsed),
                                !.rotationLeft = AtLeast(-MaxStall, @ - elapsed)]
            /\ sinceKey' = IF sinceKey + elapsed > Rotation THEN Rotation
                           ELSE sinceKey + elapsed
  BY DEF Delay
<1> DEFINE e == IF task.late + stall > 0 THEN stall ELSE 1
<1>3. e \in Nat
  BY <1>1, PeriodFacts
<1>4. task'.pc = "key0" /\ task' \in [pc : UiPc, buttons : BOOLEAN, late : Int]
  <2>1. PICK late : late = AtLeast(0, (task.late + stall) - 1) /\ task' = [task EXCEPT !.pc = "key0", !.late = late]
    BY <1>2, Zenon
  <2>2. late \in Int
    BY <1>1, <2>1, PeriodFacts DEF AtLeast
  <2> QED  BY <2>1, <2>2 DEF UiTypeOK, UiPc
<1> DEFINE overlayLeft == AtLeast(0, ui.overlayLeft - e)
           frameLeft == AtLeast(0, ui.frameLeft - e)
           rotationLeft == AtLeast(-MaxStall, ui.rotationLeft - e)
<1>5. ui' = [ui EXCEPT !.overlayLeft = overlayLeft, !.frameLeft = frameLeft,
                       !.rotationLeft = rotationLeft]
  BY <1>2
<1>6. sinceKey' = IF sinceKey + e > Rotation THEN Rotation ELSE sinceKey + e
  BY <1>2
<1> HIDE DEF e
<1>7. ui.overlayLeft \in Int /\ ui.frameLeft \in Int /\ ui.rotationLeft \in Int
  BY DEF UiTypeOK, UiStates
<1>8. /\ overlayLeft \in Int /\ frameLeft \in Int
      /\ rotationLeft \in Int /\ rotationLeft >= ui.rotationLeft - e
  BY <1>3, <1>7, PeriodFacts DEF AtLeast
<1> HIDE DEF overlayLeft, frameLeft, rotationLeft
<1>9. /\ ui' \in UiStates /\ ui'.rotationLeft = rotationLeft
      /\ ui'.powered = ui.powered /\ ui'.brightness = ui.brightness
      /\ ui'.overlay = ui.overlay /\ ui'.redraw = ui.redraw /\ ui'.page = ui.page
  BY <1>5, <1>8 DEF UiTypeOK, UiStates
<1>10. /\ sinceKey' \in Int /\ HeldInv'
  BY <1>3, <1>6, <1>7, <1>8, <1>9, PeriodFacts DEF UiTypeOK, HeldInv
<1>11. UiTypeOK'
  BY <1>1, <1>4, <1>9, <1>10 DEF UiTypeOK
<1>12. PanelInv' /\ ShownInv'
  BY <1>1, <1>4, <1>9 DEF PanelInv, ShownInv, Content
<1> QED  BY <1>10, <1>11, <1>12

LEMMA UiStepKeeps == UiInv /\ [UiNext]_uiVars => UiInv'
<1> SUFFICES ASSUME UiInv, [UiNext]_uiVars PROVE UiInv'
  OBVIOUS
<1>1. CASE UNCHANGED uiVars
  BY <1>1 DEF UiInv, UiTypeOK, PanelInv, ShownInv, HeldInv, Content, uiVars
<1>2. CASE TaskStep
  BY <1>2, Key0Keeps, DimKeeps, AnnounceOffKeeps, BrightenKeeps, Key1Keeps,
     OverlayStaysKeeps, OverlayExpiresKeeps, SwitchOffKeeps, RenderKeeps, DelayKeeps
  DEF TaskStep
<1> QED  BY <1>1, <1>2 DEF UiNext, Stopped

LEMMA UiInvariant == UiSpec => []UiInv
BY UiStart, UiStepKeeps, PTL DEF UiSpec

\* Between two polls the panel is in the state that the brightness names
\* (handle_key0, oled_ui_task).
THEOREM PanelAlwaysFollows == UiSpec => []PanelFollows
<1>1. UiInv => PanelFollows
  <2> SUFFICES ASSUME UiInv, BetweenPolls PROVE PanelFollows
    BY DEF PanelFollows
  <2>1. task.pc # "stopped"
    BY DEF BetweenPolls
  <2> QED  BY <2>1 DEF UiInv, PanelInv, PanelFollows
<1> QED  BY <1>1, UiInvariant, PTL

\* A lit panel shows the overlay or the page of the current state
\* (render_if_needed).
THEOREM PanelShowsCurrent == UiSpec => []ShowsCurrent
<1>1. UiInv => ShowsCurrent
  <2> SUFFICES ASSUME UiInv, task.pc = "delay", panel.on PROVE panel.shows = Content(ui)
    BY DEF ShowsCurrent
  <2> QED  BY DEF UiInv, PanelInv, ShownInv
<1> QED  BY <1>1, UiInvariant, PTL

LEMMA BrightnessHoldsPage ==
  ASSUME UiTypeOK, Dim \/ AnnounceOff \/ Brighten
  PROVE  ui'.page = ui.page
<1>1. {"BRIGHT_35", "DISPLAY_OFF", "BRIGHT_100"} \subseteq Overlays
  BY DEF Overlays
<1>2. Stepped.page = ui.page /\ [Stepped EXCEPT !.powered = TRUE].page = ui.page
  BY SteppedState
<1>3. CASE \E overlay \in {"BRIGHT_35", "DISPLAY_OFF"} : ui' = WithOverlay(Stepped, overlay)
  <2>1. PICK overlay \in Overlays : ui' = WithOverlay(Stepped, overlay)
    BY <1>1, <1>3
  <2> QED  BY <2>1, SteppedState, OverlaySet
<1>4. CASE ui' = WithOverlay([Stepped EXCEPT !.powered = TRUE], "BRIGHT_100")
  <2> DEFINE u == [Stepped EXCEPT !.powered = TRUE]
  <2>1. u \in UiStates /\ u.page = ui.page
    BY SteppedState
  <2> HIDE DEF u
  <2>2. WithOverlay(u, "BRIGHT_100").page = ui.page
    BY <1>1, <2>1, OverlaySet
  <2> QED  BY <1>4, <2>2 DEF u
<1>5. CASE ui' = Stepped \/ ui' = [Stepped EXCEPT !.powered = TRUE]
  BY <1>2, <1>5, Zenon
<1> QED  BY <1>3, <1>4, <1>5, Zenon DEF Dim, AnnounceOff, Brighten

LEMMA Key1HoldsPage ==
  ASSUME UiTypeOK, SampleKey1
  PROVE  ui'.page = ui.page
<1>1. PICK key : \/ ui' = [ui EXCEPT !.key1 = key]
                 \/ ui' = ToggleRotation([ui EXCEPT !.key1 = key])
  BY DEF SampleKey1
<1> QED  BY <1>1 DEF ToggleRotation, WithOverlay, UiTypeOK, UiStates

LEMMA RenderHoldsPage ==
  ASSUME UiTypeOK, HeldInv, Render
  PROVE  ui'.page # ui.page => sinceKey >= Rotation
<1>1. Advanced \in UiStates /\ (sinceKey < Rotation => Advanced.page = ui.page)
  BY AdvancedState
<1>2. ui' = Advanced \/ ui' = [Advanced EXCEPT !.redraw = FALSE, !.frameLeft = Frame]
  BY DEF Render
<1>3. ui'.page = Advanced.page
  BY <1>1, <1>2 DEF UiStates
<1> QED  BY <1>1, <1>3, PeriodFacts DEF UiTypeOK

\* No page is left within an interval of a key (advance_pages).
THEOREM PageAlwaysHeld == UiSpec => PageHeldAfterKey
<1>1. UiInv /\ [UiNext]_uiVars => [ui'.page # ui.page => sinceKey >= Rotation]_uiVars
  <2> SUFFICES ASSUME UiInv, UiNext PROVE ui'.page # ui.page => sinceKey >= Rotation
    BY Zenon
  <2>1. CASE Dim \/ AnnounceOff \/ Brighten
    BY <2>1, BrightnessHoldsPage DEF UiInv
  <2>2. CASE SampleKey1
    BY <2>2, Key1HoldsPage DEF UiInv
  <2>3. CASE Render
    BY <2>3, RenderHoldsPage DEF UiInv
  <2>4. CASE Delay \/ SampleKey0 \/ OverlayStays \/ OverlayExpires \/ SwitchOff \/ Stopped
    <3>1. ui \in UiStates
      BY DEF UiInv, UiTypeOK
    <3> QED  BY <2>4, <3>1 DEF Delay, SampleKey0, OverlayStays, OverlayExpires, SwitchOff, Stopped,
                               UiStates, uiVars
  <2> QED  BY <2>1, <2>2, <2>3, <2>4 DEF UiNext, TaskStep
<1> QED  BY <1>1, UiInvariant, PTL DEF UiSpec, PageHeldAfterKey

(***************************************************************************)
(* The request of the settings page: each part of the object is found where*)
(* the text has it, and nothing else is taken for one.                     *)
(***************************************************************************)
\* The least member of a set is found where it contains no smaller part of the set.
LEMMA LeastMember ==
  ASSUME NEW n \in Nat, NEW S \in SUBSET (0 .. n), S # {}
  PROVE  \E m \in S : \A x \in S : m <= x
<1> DEFINE Upto(m) == S \cap 0 .. m
           F == {Upto(m) : m \in S}
<1>1. IsFiniteSet(S)
  <2>1. IsFiniteSet(0 .. n)
    BY FS_Interval
  <2> QED  BY <2>1, FS_Subset
<1>2. F \subseteq FiniteSubsetsOf(S)
  <2> SUFFICES ASSUME NEW m \in S PROVE Upto(m) \in FiniteSubsetsOf(S)
    OBVIOUS
  <2> QED  BY <1>1, FS_Subset DEF FiniteSubsetsOf
<1>3. F # {}
  OBVIOUS
<1>4. IsWellFoundedOn(StrictSubsetOrdering(S), FiniteSubsetsOf(S))
  BY FS_StrictSubsetOrderingWellFounded
<1> HIDE DEF F
<1>5. PICK U \in F : \A V \in F : <<V, U>> \notin StrictSubsetOrdering(S)
  BY <1>2, <1>3, <1>4, WFMin
<1> USE DEF F
<1>6. PICK m \in S : U = Upto(m)
  OBVIOUS
<1>7. ASSUME NEW x \in S, x < m PROVE FALSE
  <2>1. Upto(x) \subseteq Upto(m)
    BY <1>7
  <2>2. m \in Upto(m) /\ m \notin Upto(x)
    BY <1>7
  <2>3. <<Upto(x), U>> \in StrictSubsetOrdering(S)
    BY <1>6, <2>1, <2>2 DEF StrictSubsetOrdering
  <2> QED  BY <1>5, <2>3
<1> QED  BY <1>7

\* Min of such a set is that member.
LEMMA MinOfSet ==
  ASSUME NEW n \in Nat, NEW S \in SUBSET (0 .. n), S # {}
  PROVE  Min(S) \in S /\ \A x \in S : Min(S) <= x
<1>1. \E m \in S : \A x \in S : m <= x
  BY LeastMember
<1> QED  BY <1>1 DEF Min

\* The place where white space ends.
LEMMA SkipSpaceIs ==
  ASSUME NEW t \in Seq(BodyCharacters), NEW i \in 1 .. Len(t) + 1
  PROVE  /\ SkipSpace(t, i) \in i .. Len(t) + 1
         /\ \A m \in i .. SkipSpace(t, i) - 1 : t[m] \in White
         /\ SkipSpace(t, i) <= Len(t) => t[SkipSpace(t, i)] \notin White
<1> DEFINE n == Len(t)
           S == {j \in i .. n + 1 : j = n + 1 \/ t[j] \notin White}
<1>1. n \in Nat
  OBVIOUS
<1> HIDE DEF n
<1>2. n + 1 \in S /\ S \in SUBSET (0 .. n + 1)
  BY <1>1 DEF n
<1>3. PICK k : k = SkipSpace(t, i)
  OBVIOUS
<1>4. k = Min(S)
  BY <1>3 DEF SkipSpace, n
<1> HIDE DEF S
<1>5. k \in S /\ \A x \in S : k <= x
  <2>1. PICK last \in Nat : last = n + 1
    BY <1>1
  <2>2. S # {} /\ S \in SUBSET (0 .. last)
    BY <1>2, <2>1
  <2> QED  BY <1>4, <2>2, MinOfSet
<1>6. k \in i .. n + 1 /\ (k <= n => t[k] \notin White)
  BY <1>1, <1>5 DEF S, n
<1>7. ASSUME NEW m \in i .. k - 1 PROVE t[m] \in White
  <2>1. m \in i .. n + 1 /\ ~(k <= m)
    BY <1>1, <1>6, <1>7
  <2>2. m \notin S
    BY <1>5, <2>1
  <2> QED  BY <2>1, <2>2 DEF S
<1> QED  BY <1>3, <1>6, <1>7 DEF n

LEMMA SkipSpaceTo ==
  ASSUME NEW t \in Seq(BodyCharacters), NEW i \in 1 .. Len(t) + 1,
         NEW k \in i .. Len(t) + 1, \A m \in i .. k - 1 : t[m] \in White,
         k <= Len(t) => t[k] \notin White
  PROVE  SkipSpace(t, i) = k
<1>1. PICK j \in i .. Len(t) + 1 :
        /\ j = SkipSpace(t, i)
        /\ \A m \in i .. j - 1 : t[m] \in White
        /\ j <= Len(t) => t[j] \notin White
  BY SkipSpaceIs
<1>2. ~(j < k) /\ ~(k < j)
  BY <1>1
<1> QED  BY <1>1, <1>2

\* The character c is at k, behind white space from i on.
Leads(t, i, k, c) ==
  i > 0 /\ k \in i .. Len(t) /\ t[k] = c /\ \A m \in i .. k - 1 : t[m] \in White

LEMMA ExpectIs ==
  ASSUME NEW t \in Seq(BodyCharacters), NEW i \in 0 .. Len(t) + 1, NEW c \in BodyCharacters \ White
  PROVE  /\ Expect(t, i, c) \in 0 .. Len(t) + 1
         /\ Expect(t, i, c) > 0 => Leads(t, i, Expect(t, i, c) - 1, c)
         /\ \A k \in Nat : Leads(t, i, k, c) => Expect(t, i, c) = k + 1
<1>1. CASE i = 0
  BY <1>1 DEF Expect, Leads
<1>2. CASE i > 0
  <2>0. i \in 1 .. Len(t) + 1 /\ Len(t) \in Nat
    BY <1>2
  <2>1. PICK j \in i .. Len(t) + 1 :
          j = SkipSpace(t, i) /\ \A m \in i .. j - 1 : t[m] \in White
    BY <2>0, SkipSpaceIs
  <2>2. PICK e : e = Expect(t, i, c)
    OBVIOUS
  <2>3. e = IF j <= Len(t) /\ t[j] = c THEN j + 1 ELSE 0
    BY <1>2, <2>1, <2>2 DEF Expect
  <2>4. e \in 0 .. Len(t) + 1 /\ (e > 0 => Leads(t, i, e - 1, c))
    BY <1>2, <2>0, <2>1, <2>3 DEF Leads
  <2>5. ASSUME NEW k \in Nat, Leads(t, i, k, c) PROVE e = k + 1
    <3>1. SkipSpace(t, i) = k
      BY <2>0, <2>5, SkipSpaceTo DEF Leads
    <3> QED  BY <2>1, <2>3, <2>5, <3>1 DEF Leads
  <2> QED  BY <2>2, <2>4, <2>5
<1> QED  BY <1>1, <1>2

\* The string that begins at i is closed at k and fits.
Closes(t, i, k, room) ==
  /\ i > 0 /\ k \in i .. Len(t) /\ t[k] = "quote" /\ k - i <= room
  /\ \A m \in i .. k - 1 : t[m] \notin Ends

LEMMA StringEndIs ==
  ASSUME NEW t \in Seq(BodyCharacters), NEW i \in 0 .. Len(t) + 1, NEW room \in Nat
  PROVE  /\ StringEnd(t, i, room) \in 0 .. Len(t)
         /\ StringEnd(t, i, room) > 0 => Closes(t, i, StringEnd(t, i, room), room)
         /\ \A k \in Nat : Closes(t, i, k, room) => StringEnd(t, i, room) = k
<1>1. CASE i = 0
  BY <1>1 DEF StringEnd, Closes
<1>2. CASE i > 0
  <2> DEFINE n == Len(t)
             S == {j \in i .. n + 1 : j = n + 1 \/ t[j] \in Ends}
  <2>1. n \in Nat /\ i \in 1 .. n + 1
    BY <1>2
  <2> HIDE DEF n
  <2>2. n + 1 \in S /\ S \in SUBSET (0 .. n + 1)
    BY <2>1
  <2>3. PICK k, e : k = Min(S) /\ e = StringEnd(t, i, room)
    OBVIOUS
  <2>4. e = IF k <= n /\ t[k] = "quote" /\ k - i <= room THEN k ELSE 0
    BY <1>2, <2>3 DEF StringEnd, n
  <2> HIDE DEF S
  <2>5. k \in S /\ \A x \in S : k <= x
    <3>1. PICK last \in Nat : last = n + 1
      BY <2>1
    <3>2. S # {} /\ S \in SUBSET (0 .. last)
      BY <2>2, <3>1
    <3> QED  BY <2>3, <3>2, MinOfSet
  <2>6. k \in i .. n + 1 /\ (k <= n => t[k] \in Ends)
    BY <2>1, <2>5 DEF S
  <2>7. ASSUME NEW m \in i .. k - 1 PROVE t[m] \notin Ends
    <3>1. m \in i .. n + 1 /\ ~(k <= m)
      BY <2>1, <2>6, <2>7
    <3>2. m \notin S
      BY <2>5, <3>1
    <3> QED  BY <3>1, <3>2 DEF S
  <2>8. e \in 0 .. n /\ (e > 0 => Closes(t, i, e, room))
    BY <1>2, <2>1, <2>4, <2>6, <2>7 DEF Closes, n
  <2>9. ASSUME NEW j \in Nat, Closes(t, i, j, room) PROVE e = j
    <3>1. j \in i .. n /\ t[j] = "quote" /\ j - i <= room /\ "quote" \in Ends
      BY <2>9 DEF Closes, Ends, n
    <3>2. ~(j < k)
      BY <2>1, <2>6, <2>7, <3>1
    <3>3. ~(k < j)
      BY <2>1, <2>6, <2>9, <3>1 DEF Closes
    <3> QED  BY <2>1, <2>4, <2>6, <3>1, <3>2, <3>3
  <2> QED  BY <2>3, <2>8, <2>9 DEF n
<1> QED  BY <1>1, <1>2

LEMMA ExpectPlace ==
  ASSUME NEW t \in Seq(BodyCharacters), NEW i \in 0 .. Len(t) + 1, NEW c \in BodyCharacters \ White,
         Expect(t, i, c) > 0
  PROVE  i > 0 /\ \E k \in 1 .. Len(t) : Expect(t, i, c) = k + 1 /\ Leads(t, i, k, c)
<1>1. PICK j \in 0 .. Len(t) + 1 : j = Expect(t, i, c) /\ j > 0 /\ Leads(t, i, j - 1, c)
  BY ExpectIs
<1>2. i > 0 /\ j - 1 \in i .. Len(t)
  BY <1>1 DEF Leads
<1>3. j - 1 \in 1 .. Len(t) /\ j = (j - 1) + 1
  BY <1>1, <1>2
<1> QED  BY <1>1, <1>2, <1>3

LEMMA StringEndPlace ==
  ASSUME NEW t \in Seq(BodyCharacters), NEW i \in 0 .. Len(t) + 1, NEW room \in Nat,
         StringEnd(t, i, room) > 0
  PROVE  i > 0 /\ StringEnd(t, i, room) \in 1 .. Len(t) /\ Closes(t, i, StringEnd(t, i, room), room)
<1>1. PICK j \in 0 .. Len(t) : j = StringEnd(t, i, room) /\ j > 0 /\ Closes(t, i, j, room)
  BY StringEndIs
<1> QED  BY <1>1 DEF Closes

\* The parser finds the parts of the object at these places.
Reads(t, o, p, q, k, r, s, e) ==
  /\ Leads(t, 1, o, "{") /\ Leads(t, o + 1, p, "quote") /\ Closes(t, p + 1, q, KeyRoom)
  /\ Leads(t, q + 1, k, ":") /\ Leads(t, k + 1, r, "quote") /\ Closes(t, r + 1, s, NameRoom)
  /\ Leads(t, s + 1, e, "}") /\ \A m \in e + 1 .. Len(t) : t[m] \in White
  /\ SubSeq(t, p + 1, q - 1) = <<"hostname">>

LEMMA ParserMarks == {"{", "}", ":", "quote"} \subseteq BodyCharacters \ White
  BY DEF BodyCharacters, White

LEMMA RequestReads ==
  ASSUME NEW t \in Seq(BodyCharacters), NEW name \in HostnameRequest(t)
  PROVE  \E o, p, q, k, r, s, e \in 1 .. Len(t) :
           Reads(t, o, p, q, k, r, s, e) /\ name = NameOf(t, r, s)
<1>0. KeyRoom \in Nat /\ NameRoom \in Nat /\ Len(t) \in Nat
  BY RoomAssumption
<1>1. PICK n \in Nat : n = Len(t)
  BY <1>0
<1>2. PICK open, key, keyEnd, colon, value, valueEnd, object :
        /\ open = Expect(t, 1, "{") /\ key = Expect(t, open, "quote")
        /\ keyEnd = StringEnd(t, key, KeyRoom)
        /\ colon = Expect(t, After(keyEnd), ":") /\ value = Expect(t, colon, "quote")
        /\ valueEnd = StringEnd(t, value, NameRoom)
        /\ object = Expect(t, After(valueEnd), "}")
  OBVIOUS
<1>3. /\ object > 0 /\ SkipSpace(t, object) = n + 1
      /\ SubSeq(t, key, keyEnd - 1) = <<"hostname">>
      /\ name = SubSeq(t, value, valueEnd - 1)
  BY <1>1, <1>2 DEF HostnameRequest
<1>4. {"{", "}", ":", "quote"} \subseteq BodyCharacters \ White /\ 1 \in 0 .. Len(t) + 1
  <2>1. 1 \in 0 .. Len(t) + 1
    BY <1>0
  <2> QED  BY <2>1, ParserMarks
<1>5. open \in 0 .. Len(t) + 1 /\ key \in 0 .. Len(t) + 1
  <2>1. open \in 0 .. Len(t) + 1
    BY <1>2, <1>4, ExpectIs
  <2> QED  BY <1>2, <1>4, <2>1, ExpectIs
<1>6. keyEnd \in 0 .. Len(t)
  BY <1>0, <1>2, <1>5, StringEndIs
<1>7. After(keyEnd) \in 0 .. Len(t) + 1 /\ (After(keyEnd) > 0 => keyEnd > 0 /\ After(keyEnd) = keyEnd + 1)
  BY <1>0, <1>6 DEF After
<1>8. colon \in 0 .. Len(t) + 1 /\ value \in 0 .. Len(t) + 1
  <2>1. colon \in 0 .. Len(t) + 1
    BY <1>2, <1>4, <1>7, ExpectIs
  <2> QED  BY <1>2, <1>4, <2>1, ExpectIs
<1>9. valueEnd \in 0 .. Len(t)
  BY <1>0, <1>2, <1>8, StringEndIs
<1>10. After(valueEnd) \in 0 .. Len(t) + 1
       /\ (After(valueEnd) > 0 => valueEnd > 0 /\ After(valueEnd) = valueEnd + 1)
  BY <1>0, <1>9 DEF After
<1>11. PICK e \in 1 .. Len(t) :
         object = e + 1 /\ After(valueEnd) > 0 /\ Leads(t, After(valueEnd), e, "}")
  BY <1>2, <1>3, <1>4, <1>10, ExpectPlace
<1>12. valueEnd \in 1 .. Len(t) /\ value > 0 /\ Closes(t, value, valueEnd, NameRoom)
  BY <1>0, <1>2, <1>8, <1>10, <1>11, StringEndPlace
<1>13. PICK r \in 1 .. Len(t) : value = r + 1 /\ colon > 0 /\ Leads(t, colon, r, "quote")
  BY <1>2, <1>4, <1>8, <1>12, ExpectPlace
<1>14. PICK k \in 1 .. Len(t) :
         colon = k + 1 /\ After(keyEnd) > 0 /\ Leads(t, After(keyEnd), k, ":")
  BY <1>2, <1>4, <1>7, <1>13, ExpectPlace
<1>15. keyEnd \in 1 .. Len(t) /\ key > 0 /\ Closes(t, key, keyEnd, KeyRoom)
  BY <1>0, <1>2, <1>5, <1>7, <1>14, StringEndPlace
<1>16. PICK p \in 1 .. Len(t) : key = p + 1 /\ open > 0 /\ Leads(t, open, p, "quote")
  BY <1>2, <1>4, <1>5, <1>15, ExpectPlace
<1>17. PICK o \in 1 .. Len(t) : open = o + 1 /\ Leads(t, 1, o, "{")
  BY <1>2, <1>4, <1>16, ExpectPlace
<1>18. \A m \in e + 1 .. Len(t) : t[m] \in White
  <2>1. e + 1 \in 1 .. Len(t) + 1
    BY <1>0
  <2>2. \A m \in e + 1 .. SkipSpace(t, e + 1) - 1 : t[m] \in White
    BY <2>1, SkipSpaceIs
  <2>3. SkipSpace(t, e + 1) - 1 = Len(t)
    <3>1. SkipSpace(t, e + 1) = n + 1
      BY <1>3, <1>11, Zenon
    <3> QED  BY <1>1, <3>1
  <2> QED  BY <2>2, <2>3
<1>19. Reads(t, o, p, keyEnd, k, r, valueEnd, e)
  <2>1. After(keyEnd) = keyEnd + 1 /\ After(valueEnd) = valueEnd + 1
    BY <1>7, <1>10, <1>11, <1>14
  <2>2. /\ Leads(t, 1, o, "{") /\ Leads(t, o + 1, p, "quote")
        /\ Closes(t, p + 1, keyEnd, KeyRoom) /\ Leads(t, keyEnd + 1, k, ":")
        /\ Leads(t, k + 1, r, "quote") /\ Closes(t, r + 1, valueEnd, NameRoom)
        /\ Leads(t, valueEnd + 1, e, "}")
    BY <1>11, <1>12, <1>13, <1>14, <1>15, <1>16, <1>17, <2>1
  <2>3. SubSeq(t, p + 1, keyEnd - 1) = <<"hostname">>
    BY <1>3, <1>16
  <2> QED  BY <1>18, <2>2, <2>3, Zenon DEF Reads
<1>20. name = NameOf(t, r, valueEnd)
  BY <1>3, <1>13 DEF NameOf
<1> QED  BY <1>12, <1>15, <1>19, <1>20

LEMMA ReadsRequest ==
  ASSUME NEW t \in Seq(BodyCharacters),
         NEW o \in 1 .. Len(t), NEW p \in 1 .. Len(t), NEW q \in 1 .. Len(t),
         NEW k \in 1 .. Len(t), NEW r \in 1 .. Len(t), NEW s \in 1 .. Len(t),
         NEW e \in 1 .. Len(t), Reads(t, o, p, q, k, r, s, e)
  PROVE  NameOf(t, r, s) \in HostnameRequest(t)
<1>0. KeyRoom \in Nat /\ NameRoom \in Nat /\ Len(t) \in Nat
  BY RoomAssumption
<1>1. Expect(t, 1, "{") = o + 1
  <2>1. 1 \in 0 .. Len(t) + 1 /\ o \in Nat
    BY <1>0
  <2>2. Leads(t, 1, o, "{")
    BY Zenon DEF Reads
  <2> QED  BY <2>1, ParserMarks, ExpectIs, <2>2
<1>2. Expect(t, o + 1, "quote") = p + 1
  <2>1. o + 1 \in 0 .. Len(t) + 1 /\ p \in Nat
    BY <1>0
  <2>2. Leads(t, o + 1, p, "quote")
    BY Zenon DEF Reads
  <2> QED  BY <2>1, ParserMarks, ExpectIs, <2>2
<1>3. StringEnd(t, p + 1, KeyRoom) = q
  <2>1. p + 1 \in 0 .. Len(t) + 1 /\ q \in Nat
    BY <1>0
  <2>2. Closes(t, p + 1, q, KeyRoom)
    BY Zenon DEF Reads
  <2> QED  BY <1>0, <2>1, StringEndIs, <2>2
<1>4. Expect(t, q + 1, ":") = k + 1
  <2>1. q + 1 \in 0 .. Len(t) + 1 /\ k \in Nat
    BY <1>0
  <2>2. Leads(t, q + 1, k, ":")
    BY Zenon DEF Reads
  <2> QED  BY <2>1, ParserMarks, ExpectIs, <2>2
<1>5. Expect(t, k + 1, "quote") = r + 1
  <2>1. k + 1 \in 0 .. Len(t) + 1 /\ r \in Nat
    BY <1>0
  <2>2. Leads(t, k + 1, r, "quote")
    BY Zenon DEF Reads
  <2> QED  BY <2>1, ParserMarks, ExpectIs, <2>2
<1>6. StringEnd(t, r + 1, NameRoom) = s
  <2>1. r + 1 \in 0 .. Len(t) + 1 /\ s \in Nat
    BY <1>0
  <2>2. Closes(t, r + 1, s, NameRoom)
    BY Zenon DEF Reads
  <2> QED  BY <1>0, <2>1, StringEndIs, <2>2
<1>7. Expect(t, s + 1, "}") = e + 1
  <2>1. s + 1 \in 0 .. Len(t) + 1 /\ e \in Nat
    BY <1>0
  <2>2. Leads(t, s + 1, e, "}")
    BY Zenon DEF Reads
  <2> QED  BY <2>1, ParserMarks, ExpectIs, <2>2
<1>8. SkipSpace(t, e + 1) = Len(t) + 1
  <2>1. e + 1 \in 1 .. Len(t) + 1 /\ Len(t) + 1 \in e + 1 .. Len(t) + 1
    BY <1>0
  <2>2. \A m \in e + 1 .. (Len(t) + 1) - 1 : t[m] \in White
    <3>1. \A m \in e + 1 .. Len(t) : t[m] \in White
      BY Zenon DEF Reads
    <3> QED  BY <1>0, <3>1
  <2>3. ~(Len(t) + 1 <= Len(t))
    BY <1>0
  <2> QED  BY <2>1, <2>2, <2>3, SkipSpaceTo
<1>9. After(q) = q + 1 /\ After(s) = s + 1
  BY DEF After
<1>10. SubSeq(t, p + 1, q - 1) = <<"hostname">>
  BY Zenon DEF Reads
<1>11. e + 1 > 0
  OBVIOUS
<1> QED  BY <1>1, <1>2, <1>3, <1>4, <1>5, <1>6, <1>7, <1>8, <1>9, <1>10,
            <1>11 DEF HostnameRequest, NameOf

LEMMA NameIs ==
  ASSUME NEW t \in Seq(BodyCharacters), NEW a \in 1 .. Len(t), NEW b \in 1 .. Len(t), a < b
  PROVE  /\ Len(NameOf(t, a, b)) = b - a - 1 /\ DOMAIN NameOf(t, a, b) = 1 .. b - a - 1
         /\ \A i \in 1 .. b - a - 1 : NameOf(t, a, b)[i] = t[a + i]
<1>1. /\ a \in Nat /\ b \in Nat /\ Len(t) \in Nat /\ a + 1 \in 1 .. Len(t) /\ b - 1 \in 0 .. Len(t)
      /\ a + 1 <= b
  OBVIOUS
<1> QED  BY <1>1 DEF NameOf

\* What is read at these places is the object, with a name that fits.
LEMMA ReadsSays ==
  ASSUME NEW t \in Seq(BodyCharacters),
         NEW o \in 1 .. Len(t), NEW p \in 1 .. Len(t), NEW q \in 1 .. Len(t),
         NEW k \in 1 .. Len(t), NEW r \in 1 .. Len(t), NEW s \in 1 .. Len(t),
         NEW e \in 1 .. Len(t), Reads(t, o, p, q, k, r, s, e)
  PROVE  /\ {p, q, r, s} \subseteq Quotes(t)
         /\ Says(t, p, q, r, s) /\ Taken(NameOf(t, r, s))
<1>0. PICK n \in Nat : n = Len(t) /\ DOMAIN t = 1 .. n
  OBVIOUS
<1>1. /\ Leads(t, 1, o, "{") /\ Leads(t, o + 1, p, "quote") /\ Closes(t, p + 1, q, KeyRoom)
      /\ Leads(t, q + 1, k, ":") /\ Leads(t, k + 1, r, "quote") /\ Closes(t, r + 1, s, NameRoom)
      /\ Leads(t, s + 1, e, "}") /\ \A m \in e + 1 .. Len(t) : t[m] \in White
      /\ SubSeq(t, p + 1, q - 1) = <<"hostname">>
  BY Zenon DEF Reads
<1>2. /\ t[o] = "{" /\ t[k] = ":" /\ t[e] = "}"
      /\ t[p] = "quote" /\ t[q] = "quote" /\ t[r] = "quote" /\ t[s] = "quote"
  BY <1>1, Zenon DEF Leads, Closes
<1>3. o < p /\ p < q /\ q < k /\ k < r /\ r < s /\ s < e /\ s - (r + 1) <= NameRoom
  <2>1. /\ p \in o + 1 .. Len(t) /\ q \in p + 1 .. Len(t) /\ k \in q + 1 .. Len(t)
        /\ r \in k + 1 .. Len(t) /\ s \in r + 1 .. Len(t) /\ e \in s + 1 .. Len(t)
        /\ s - (r + 1) <= NameRoom
    BY <1>1, Zenon DEF Leads, Closes
  <2> QED  BY <1>0, <2>1
<1>4. /\ \A m \in 1 .. o - 1 : t[m] \in White
      /\ \A m \in o + 1 .. p - 1 : t[m] \in White
      /\ \A m \in p + 1 .. q - 1 : t[m] \notin Ends
      /\ \A m \in q + 1 .. k - 1 : t[m] \in White
      /\ \A m \in k + 1 .. r - 1 : t[m] \in White
      /\ \A m \in r + 1 .. s - 1 : t[m] \notin Ends
      /\ \A m \in s + 1 .. e - 1 : t[m] \in White
      /\ \A m \in e + 1 .. n : t[m] \in White
  BY <1>0, <1>1, Zenon DEF Leads, Closes
<1>5. {p, q, r, s} \subseteq Quotes(t)
  BY <1>0, <1>2 DEF Quotes
<1>6. Quotes(t) = {p, q, r, s}
  <2> SUFFICES ASSUME NEW i \in 1 .. n, t[i] = "quote", i \notin {p, q, r, s} PROVE FALSE
    BY <1>0, <1>5 DEF Quotes
  <2>1. "quote" \notin White /\ "quote" \in Ends
    BY DEF White, Ends
  <2>2. i # o /\ i # k /\ i # e
    BY <1>2
  <2>3. \/ i \in 1 .. o - 1 \/ i \in o + 1 .. p - 1 \/ i \in p + 1 .. q - 1
        \/ i \in q + 1 .. k - 1 \/ i \in k + 1 .. r - 1 \/ i \in r + 1 .. s - 1
        \/ i \in s + 1 .. e - 1 \/ i \in e + 1 .. n
    BY <1>3, <2>2
  <2> QED  BY <1>4, <2>1, <2>3, Zenon
<1>7. Alone(t, 1, p - 1, "{")
  <2>1. o \in 1 .. p - 1 /\ \A m \in 1 .. p - 1 : m = o \/ m \in 1 .. o - 1 \/ m \in o + 1 .. p - 1
    BY <1>3
  <2> QED  BY <1>2, <1>4, <2>1, Zenon DEF Alone
<1>8. Alone(t, q + 1, r - 1, ":")
  <2>1. /\ k \in q + 1 .. r - 1
        /\ \A m \in q + 1 .. r - 1 : m = k \/ m \in q + 1 .. k - 1 \/ m \in k + 1 .. r - 1
    BY <1>3
  <2> QED  BY <1>2, <1>4, <2>1, Zenon DEF Alone
<1>9. Alone(t, s + 1, Len(t), "}")
  <2>1. /\ e \in s + 1 .. Len(t)
        /\ \A m \in s + 1 .. Len(t) : m = e \/ m \in s + 1 .. e - 1 \/ m \in e + 1 .. n
    BY <1>0, <1>3
  <2> QED  BY <1>2, <1>4, <2>1, Zenon DEF Alone
<1>10. Says(t, p, q, r, s)
  <2>1. p < q /\ q < r /\ r < s
    BY <1>3
  <2> QED  BY <1>1, <1>6, <1>7, <1>8, <1>9, <2>1, Zenon DEF Says
<1>11. Taken(NameOf(t, r, s))
  <2>1. PICK name : name = NameOf(t, r, s)
    OBVIOUS
  <2>2. /\ Len(name) = s - r - 1 /\ DOMAIN name = 1 .. s - r - 1
        /\ \A i \in 1 .. s - r - 1 : name[i] = t[r + i]
    BY <1>3, <2>1, NameIs
  <2>3. Len(name) <= NameRoom
    BY <1>3, <2>2
  <2>4. ASSUME NEW i \in DOMAIN name PROVE name[i] \notin Refused
    <3>1. r + i \in r + 1 .. s - 1 /\ name[i] = t[r + i]
      BY <2>2, <2>4
    <3> QED  BY <1>4, <3>1 DEF Ends
  <2> QED  BY <2>1, <2>3, <2>4 DEF Taken, Range
<1> QED  BY <1>5, <1>10, <1>11

\* The object with a name that fits is read at its quotes.
LEMMA SaysReads ==
  ASSUME NEW t \in Seq(BodyCharacters),
         NEW p \in 1 .. Len(t), NEW q \in 1 .. Len(t), NEW r \in 1 .. Len(t), NEW s \in 1 .. Len(t),
         Says(t, p, q, r, s), Taken(NameOf(t, r, s))
  PROVE  \E o, k, e \in 1 .. Len(t) : Reads(t, o, p, q, k, r, s, e)
<1>0. PICK n \in Nat : n = Len(t) /\ DOMAIN t = 1 .. n
  OBVIOUS
<1>1. /\ p < q /\ q < r /\ r < s /\ Quotes(t) = {p, q, r, s}
      /\ Alone(t, 1, p - 1, "{") /\ Alone(t, q + 1, r - 1, ":") /\ Alone(t, s + 1, Len(t), "}")
      /\ SubSeq(t, p + 1, q - 1) = <<"hostname">>
  BY Zenon DEF Says
<1>2. p < q /\ q < r /\ r < s
  BY <1>1
<1>3. t[p] = "quote" /\ t[q] = "quote" /\ t[r] = "quote" /\ t[s] = "quote"
  BY <1>1 DEF Quotes
<1>4. PICK o \in 1 .. p - 1 : t[o] = "{" /\ \A m \in 1 .. p - 1 : m = o \/ t[m] \in White
  BY <1>1, Zenon DEF Alone
<1>5. PICK k \in q + 1 .. r - 1 : t[k] = ":" /\ \A m \in q + 1 .. r - 1 : m = k \/ t[m] \in White
  BY <1>1, Zenon DEF Alone
<1>6. PICK e \in s + 1 .. Len(t) : t[e] = "}" /\ \A m \in s + 1 .. Len(t) : m = e \/ t[m] \in White
  BY <1>1, Zenon DEF Alone
<1>7. o \in 1 .. n /\ k \in 1 .. n /\ e \in 1 .. n
  BY <1>0, <1>2
<1>8. Leads(t, 1, o, "{") /\ Leads(t, o + 1, p, "quote")
  <2>1. /\ 1 > 0 /\ o + 1 > 0 /\ o \in 1 .. Len(t) /\ p \in o + 1 .. Len(t)
        /\ \A m \in 1 .. o - 1 : m \in 1 .. p - 1 /\ m # o
        /\ \A m \in o + 1 .. p - 1 : m \in 1 .. p - 1 /\ m # o
    BY <1>0, <1>2, <1>7
  <2> QED  BY <1>3, <1>4, <2>1, Zenon DEF Leads
<1>9. Leads(t, q + 1, k, ":") /\ Leads(t, k + 1, r, "quote")
  <2>1. /\ q + 1 > 0 /\ k + 1 > 0 /\ k \in q + 1 .. Len(t) /\ r \in k + 1 .. Len(t)
        /\ \A m \in q + 1 .. k - 1 : m \in q + 1 .. r - 1 /\ m # k
        /\ \A m \in k + 1 .. r - 1 : m \in q + 1 .. r - 1 /\ m # k
    BY <1>0, <1>2, <1>7
  <2> QED  BY <1>3, <1>5, <2>1, Zenon DEF Leads
<1>10. Leads(t, s + 1, e, "}") /\ \A m \in e + 1 .. Len(t) : t[m] \in White
  <2>1. /\ s + 1 > 0 /\ e \in s + 1 .. Len(t)
        /\ \A m \in s + 1 .. e - 1 : m \in s + 1 .. Len(t) /\ m # e
        /\ \A m \in e + 1 .. Len(t) : m \in s + 1 .. Len(t) /\ m # e
    BY <1>0, <1>2, <1>7
  <2> QED  BY <1>3, <1>6, <2>1, Zenon DEF Leads
<1>11. Closes(t, p + 1, q, KeyRoom)
  <2>1. q - 1 - (p + 1) + 1 = 1 /\ t[p + 1] = "hostname"
    <3>1. /\ Len(SubSeq(t, p + 1, q - 1)) = q - p - 1
          /\ \A i \in 1 .. q - p - 1 : SubSeq(t, p + 1, q - 1)[i] = t[p + i]
      BY <1>2, NameIs DEF NameOf
    <3>2. Len(<<"hostname">>) = 1 /\ <<"hostname">>[1] = "hostname"
      OBVIOUS
    <3>3. q - p - 1 = 1 /\ SubSeq(t, p + 1, q - 1)[1] = "hostname"
      BY <1>1, <3>1, <3>2
    <3> QED  BY <3>1, <3>3
  <2>2. q = p + 2 /\ KeyRoom >= 1
    BY <2>1, RoomAssumption
  <2>3. "hostname" \notin Ends
    BY DEF Ends, Refused
  <2>4. p + 1 > 0 /\ q \in p + 1 .. Len(t) /\ q - (p + 1) <= KeyRoom
    BY <2>2, RoomAssumption
  <2>5. \A m \in p + 1 .. q - 1 : m = p + 1
    BY <2>2
  <2> QED  BY <1>3, <2>1, <2>3, <2>4, <2>5, Zenon DEF Closes
<1>12. Closes(t, r + 1, s, NameRoom)
  <2>1. PICK name : name = NameOf(t, r, s)
    OBVIOUS
  <2>2. /\ Len(name) = s - r - 1 /\ DOMAIN name = 1 .. s - r - 1
        /\ \A i \in 1 .. s - r - 1 : name[i] = t[r + i]
    BY <1>2, <2>1, NameIs
  <2>3. Len(name) <= NameRoom /\ \A i \in DOMAIN name : name[i] \notin Refused
    BY <2>1 DEF Taken, Range
  <2>4. r + 1 > 0 /\ s \in r + 1 .. Len(t) /\ s - (r + 1) <= NameRoom
    BY <1>2, <2>2, <2>3
  <2>5. ASSUME NEW m \in r + 1 .. s - 1 PROVE t[m] \notin Ends
    <3>1. m - r \in 1 .. s - r - 1 /\ r + (m - r) = m
      BY <2>5
    <3>2. t[m] \notin Refused
      BY <2>2, <2>3, <3>1
    <3>3. m \in 1 .. n /\ m \notin {p, q, r, s}
      BY <1>0, <1>2, <2>5
    <3>4. t[m] # "quote"
      BY <1>0, <1>1, <3>3 DEF Quotes
    <3> QED  BY <3>2, <3>4 DEF Ends
  <2> QED  BY <1>3, <2>4, <2>5, Zenon DEF Closes
<1>13. Reads(t, o, p, q, k, r, s, e)
  BY <1>1, <1>8, <1>9, <1>10, <1>11, <1>12, Zenon DEF Reads
<1> QED  BY <1>0, <1>7, <1>13

-----------------------------------------------------------------------------
\* What the handler knows: the answer comes from the whole body.
RequestInv ==
  /\ body \in Seq(BodyCharacters) /\ received \in 0 .. Len(body)
  /\ answer.status = "validate" => answer.name \in HostnameRequest(CString(body))
  /\ answer.status = "malformed" => HostnameRequest(CString(body)) = {}

LEMMA AnsweredStatus ==
  ASSUME NEW CONSTANT status, NEW CONSTANT name, Answered(status, name)
  PROVE  answer'.status = status /\ answer'.name = name
BY DEF Answered

LEMMA RequestInductive == RequestSpec => []RequestInv
<1>1. RequestInit => RequestInv
  <2> SUFFICES ASSUME RequestInit PROVE RequestInv
    OBVIOUS
  <2>1. body \in Seq(BodyCharacters) /\ received \in 0 .. Len(body)
    <3>1. {"{", "quote", "hostname", ":", "x", "}"} \subseteq BodyCharacters
      BY DEF BodyCharacters
    <3>2. body \in Seq(BodyCharacters)
      <4>1. \A a, b, c, d, e, f \in BodyCharacters :
              <<a, b, c, b, d, b, e, b, f>> \in Seq(BodyCharacters)
        OBVIOUS
      <4> QED  BY <3>1, <4>1 DEF RequestInit
    <3>3. Len(body) \in Nat /\ received = 0
      BY <3>2 DEF RequestInit
    <3> QED  BY <3>2, <3>3
  <2> QED  BY <2>1 DEF RequestInit, RequestInv
<1>2. RequestInv /\ [RequestNext]_requestVars => RequestInv'
  <2> SUFFICES ASSUME RequestInv, [RequestNext]_requestVars PROVE RequestInv'
    OBVIOUS
  <2>1. CASE Edit
    <3>1. answer' = answer /\ answer.status = "none" /\ received' = 0
      BY <2>1 DEF Edit
    <3>2. body' \in Seq(BodyCharacters)
      <4>1. CASE \E i \in DOMAIN body : body' = RemoveAt(body, i)
        BY <4>1 DEF RemoveAt, RequestInv
      <4>2. CASE \E i \in 1 .. Len(body) + 1, c \in BodyCharacters : body' = InsertAt(body, i, c)
        BY <4>2 DEF InsertAt, RequestInv
      <4> QED  BY <2>1, <4>1, <4>2 DEF Edit
    <3>3. 0 \in 0 .. Len(body')
      BY <3>2
    <3> QED  BY <3>1, <3>2, <3>3 DEF RequestInv
  <2>2. CASE CheckLength
    <3>1. answer'.status \in {"required", "too large", "reading"}
      BY <2>2, AnsweredStatus DEF CheckLength
    <3> QED  BY <2>2, <3>1 DEF CheckLength, RequestInv
  <2>3. CASE ReceivePiece
    <3>1. answer'.status \in {"unreadable", "reading"} /\ received' \in 0 .. Len(body) /\ body' = body
      BY <2>3, AnsweredStatus DEF ReceivePiece, RequestInv
    <3> QED  BY <3>1 DEF RequestInv
  <2>4. CASE ParseBody
    <3>1. SubSeq(body, 1, received) = body
      BY <2>4 DEF ParseBody, RequestInv
    <3>2. body' = body /\ received' = received
      BY <2>4 DEF ParseBody
    <3>3. CASE HostnameRequest(CString(body)) = {}
      <4>1. answer'.status = "malformed"
        BY <2>4, <3>1, <3>3, AnsweredStatus DEF ParseBody
      <4> QED  BY <3>2, <3>3, <4>1 DEF RequestInv
    <3>4. CASE HostnameRequest(CString(body)) # {}
      <4>1. \E name \in HostnameRequest(CString(body)) : answer'.status = "validate" /\ answer'.name = name
        BY <2>4, <3>1, <3>4, AnsweredStatus DEF ParseBody
      <4> QED  BY <3>2, <4>1 DEF RequestInv
    <3> QED  BY <3>3, <3>4
  <2>5. CASE UNCHANGED requestVars
    BY <2>5 DEF requestVars, RequestInv
  <2> QED  BY <2>1, <2>2, <2>3, <2>4, <2>5 DEF RequestNext
<1> QED  BY <1>1, <1>2, PTL DEF RequestSpec

\* The name that goes on to the validation is the one the client wrote, and what is
\* refused as malformed is no such object (parse_hostname_request).
THEOREM RequestAlwaysRead == RequestSpec => []RequestRead
<1>1. RequestInv => RequestRead
  <2> SUFFICES ASSUME RequestInv PROVE RequestRead
    OBVIOUS
  <2>1. PICK t \in Seq(BodyCharacters) : t = CString(body)
    <3>1. body \in Seq(BodyCharacters)
      BY DEF RequestInv
    <3> DEFINE S == {i \in DOMAIN body : body[i] = "NUL"} \cup {Len(body) + 1}
    <3>2. PICK last \in Nat : last = Len(body) + 1
      BY <3>1
    <3>3. S # {} /\ S \in SUBSET (0 .. last) /\ \A x \in S : x \in 1 .. last
      BY <3>1, <3>2
    <3> HIDE DEF S
    <3>4. Min(S) \in 1 .. Len(body) + 1
      BY <3>2, <3>3, MinOfSet
    <3>5. CString(body) = SubSeq(body, 1, Min(S) - 1)
      BY DEF CString, S
    <3> CString(body) \in Seq(BodyCharacters)
      BY <3>1, <3>4, <3>5
    <3> QED  BY <3>1
  <2>2. Quotes(t) \subseteq 1 .. Len(t)
    BY DEF Quotes
  <2>3. ASSUME answer.status = "validate"
        PROVE  \E p, q, r, s \in Quotes(t) :
                 Says(t, p, q, r, s) /\ answer.name = NameOf(t, r, s) /\ Taken(answer.name)
    <3>1. answer.name \in HostnameRequest(t)
      BY <2>1, <2>3 DEF RequestInv
    <3>2. PICK o, p, q, k, r, s, e \in 1 .. Len(t) :
            Reads(t, o, p, q, k, r, s, e) /\ answer.name = NameOf(t, r, s)
      BY <3>1, RequestReads
    <3>3. {p, q, r, s} \subseteq Quotes(t) /\ Says(t, p, q, r, s) /\ Taken(NameOf(t, r, s))
      BY <3>2, ReadsSays
    <3> QED  BY <3>2, <3>3
  <2>4. ASSUME answer.status = "malformed",
               NEW p \in Quotes(t), NEW q \in Quotes(t), NEW r \in Quotes(t), NEW s \in Quotes(t),
               Says(t, p, q, r, s)
        PROVE  ~Taken(NameOf(t, r, s))
    <3> SUFFICES ASSUME Taken(NameOf(t, r, s)) PROVE FALSE
      OBVIOUS
    <3>1. p \in 1 .. Len(t) /\ q \in 1 .. Len(t) /\ r \in 1 .. Len(t) /\ s \in 1 .. Len(t)
      BY <2>2
    <3>2. PICK o, k, e \in 1 .. Len(t) : Reads(t, o, p, q, k, r, s, e)
      BY <2>4, <3>1, SaysReads
    <3>3. NameOf(t, r, s) \in HostnameRequest(t)
      BY <3>1, <3>2, ReadsRequest
    <3> QED  BY <2>1, <2>4, <3>3 DEF RequestInv
  <2> QED  BY <2>1, <2>3, <2>4, Zenon DEF RequestRead
<1> QED  BY <1>1, RequestInductive, PTL

==============================================================================
