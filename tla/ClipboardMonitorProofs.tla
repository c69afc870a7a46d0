------------------------ MODULE ClipboardMonitorProofs ------------------------
(***************************************************************************)
(* Theorems about ClipboardMonitor, for any texts and any number of polls. *)
(***************************************************************************)
EXTENDS ClipboardMonitor, TLAPS

\* The four switches agree while the process runs: the timer follows the
\* monitor, the monitor the setting (once there is a key), and so does the tray.
Agree ==
    /\ timer <=> running /\ TimerFor(listening, appInForeground)
    /\ listening => running /\ listenEnabled
    /\ running /\ page # "key" => (listening <=> listenEnabled)
    /\ running /\ isDesktop => (trayListening <=> listenEnabled)

\* A switch takes effect in all places, whatever the monitor did before.
LEMMA SwitchAgrees ==
    ASSUME TypeOK, Agree, running, NEW v \in BOOLEAN, Switch(v),
           UNCHANGED <<running, page>>
    PROVE  Agree'
<1>1. /\ listening' = v /\ listenEnabled' = v /\ trayListening' = v
      /\ isDesktop' = isDesktop /\ appInForeground' = appInForeground
      /\ running' = running /\ page' = page
  BY DEF Switch, SetMonitor
<1>2. timer' <=> TimerFor(v, appInForeground)
  <2>1. CASE v = listening
    BY <2>1, <1>1, Zenon DEF Switch, SetMonitor, Agree
  <2>2. CASE v # listening
    BY <2>2, <1>1, Zenon DEF Switch, SetMonitor, TimerFor
  <2> QED BY <2>1, <2>2
<1> QED BY <1>1, <1>2 DEF Agree, TimerFor

LEMMA GoneAgrees == Gone => Agree'
BY DEF Gone, Agree, TimerFor

\* The facts that a step leaves alone.
quiet == <<timer, running, listening, appInForeground, listenEnabled, page, isDesktop, trayListening>>

LEMMA QuietAgrees == Agree /\ UNCHANGED quiet => Agree'
BY DEF Agree, TimerFor, quiet

LEMMA AgreeStep == TypeOK /\ Agree /\ [Next]_vars => Agree'
<1> SUFFICES ASSUME TypeOK, Agree, [Next]_vars PROVE Agree'
  OBVIOUS
<1>1. CASE Start
  BY <1>1, Zenon DEF Start, Started, Agree, TimerFor, stored
<1>2. CASE Ended
  BY <1>2, GoneAgrees DEF Ended
<1>3. CASE WindowClosed
  <2>1. CASE UNCHANGED <<monitor, stored, running, trayListening, page, listen, world>>
    BY <2>1, QuietAgrees DEF quiet, monitor, stored
  <2>2. CASE Gone
    BY <2>2, GoneAgrees
  <2> QED BY <1>3, <2>1, <2>2 DEF WindowClosed
<1>4. CASE ShowWindow
  BY <1>4, QuietAgrees DEF ShowWindow, quiet, monitor, stored
<1>5. CASE KeySaved
  <2>1. /\ running /\ page = "key" /\ running' = running /\ page' = "home"
        /\ listenEnabled' = listenEnabled /\ isDesktop' = isDesktop
        /\ trayListening' = trayListening /\ appInForeground' = appInForeground
    BY <1>5 DEF KeySaved
  <2>2. CASE listenEnabled
    <3>1. listening' = TRUE
      BY <1>5, <2>2 DEF KeySaved, SetMonitor
    <3>2. timer' <=> TimerFor(TRUE, appInForeground)
      <4>1. CASE listening
        BY <1>5, <2>1, <2>2, <4>1, Zenon DEF KeySaved, SetMonitor, Agree, TimerFor, TypeOK
      <4>2. CASE ~listening
        BY <1>5, <2>1, <2>2, <4>2, Zenon DEF KeySaved, SetMonitor, TimerFor, TypeOK
      <4> QED BY <4>1, <4>2
    <3> QED BY <2>1, <2>2, <3>1, <3>2 DEF Agree, TimerFor, TypeOK
  <2>3. CASE ~listenEnabled
    BY <1>5, <2>1, <2>3 DEF KeySaved, Agree, TimerFor, TypeOK
  <2> QED BY <2>2, <2>3
<1>6. CASE OpenSettings
  BY <1>6 DEF OpenSettings, Agree, TimerFor, monitor, stored
<1>7. CASE CloseSettings
  BY <1>7 DEF CloseSettings, Agree, TimerFor, monitor, stored
<1>8. CASE SettingsSwitch
  <2>1. PICK v \in BOOLEAN : Switch(v)
    BY <1>8, Zenon DEF SettingsSwitch, TypeOK
  <2>2. running /\ UNCHANGED <<running, page>>
    BY <1>8 DEF SettingsSwitch
  <2> QED BY <2>1, <2>2, SwitchAgrees
<1>9. CASE TrayToggle
  <2>1. PICK v \in BOOLEAN : Switch(v)
    BY <1>9, Zenon DEF TrayToggle, TypeOK
  <2>2. running /\ UNCHANGED <<running, page>>
    BY <1>9 DEF TrayToggle
  <2> QED BY <2>1, <2>2, SwitchAgrees
<1>10. CASE Lifecycle
  BY <1>10 DEF Lifecycle, Agree, TimerFor, TypeOK, stored, shell
<1>11. ASSUME NEW p \in Polls, PollAsks(p) \/ PlatformAnswers(p) \/ Handle(p)
       PROVE  Agree'
  BY <1>11, QuietAgrees DEF PollAsks, PlatformAnswers, Handle, quiet, stored, shell
<1>12. ASSUME NEW text \in Texts \cup {None}, Copy(text)
       PROVE  Agree'
  BY <1>12, QuietAgrees DEF Copy, quiet, monitor, stored, shell
<1>13. CASE UNCHANGED vars
  BY <1>13, QuietAgrees DEF vars, quiet, monitor, stored, shell
<1> QED
  BY <1>1, <1>2, <1>3, <1>4, <1>5, <1>6, <1>7, <1>8, <1>9, <1>10, <1>11, <1>12, <1>13 DEF Next

----------------------------------------------------------------------------
(* Types *)

LEMMA SwitchTypes ==
    ASSUME TypeOK, NEW v \in BOOLEAN, Switch(v)
    PROVE  /\ listenEnabled' \in BOOLEAN /\ listening' \in BOOLEAN
           /\ timer' \in BOOLEAN /\ trayListening' \in BOOLEAN
           /\ isDesktop' = isDesktop /\ hasKey' = hasKey
           /\ appInForeground' = appInForeground /\ lastSeen' = lastSeen
           /\ poll' = poll /\ handed' = handed
<1>1. TimerFor(v, appInForeground) \in BOOLEAN
  BY DEF TimerFor
<1> QED BY <1>1 DEF Switch, SetMonitor, TypeOK

LEMMA PollTypes ==
    ASSUME TypeOK, NEW p \in Polls, NEW at \in {"idle", "asked", "answered"},
           NEW text \in Texts \cup {None}
    PROVE  [poll EXCEPT ![p] = [at |-> at, text |-> text]] \in [Polls -> Poll]
BY DEF TypeOK, Poll

LEMMA GoneTypes == TypeOK /\ Gone => TypeOK'
<1> SUFFICES ASSUME TypeOK, Gone PROVE TypeOK'
  OBVIOUS
<1>1. poll' \in [Polls -> Poll]
  BY DEF Gone, NoPoll, Poll
<1> QED BY <1>1 DEF Gone, TypeOK, stored, world

LEMMA TypeStep == TypeOK /\ [Next]_vars => TypeOK'
<1> SUFFICES ASSUME TypeOK, [Next]_vars PROVE TypeOK'
  OBVIOUS
<1>1. CASE Start
  <2>1. poll' \in [Polls -> Poll]
    BY <1>1 DEF Start, Started, NoPoll, Poll
  <2>2. TimerFor(hasKey /\ listenEnabled, TRUE) \in BOOLEAN
    BY DEF TimerFor
  <2>3. starts' \in 0..MaxStarts
    BY <1>1, MonitorAssumption DEF Start, TypeOK
  <2> QED BY <1>1, <2>1, <2>2, <2>3 DEF Start, Started, TypeOK, stored
<1>2. CASE Ended
  BY <1>2, GoneTypes DEF Ended
<1>3. CASE WindowClosed
  <2>1. CASE /\ window' = "hidden"
             /\ UNCHANGED <<monitor, stored, running, trayListening, page, listen, world>>
    BY <2>1 DEF TypeOK, monitor, stored, world
  <2>2. CASE Gone
    BY <2>2, GoneTypes
  <2> QED BY <1>3, <2>1, <2>2 DEF WindowClosed
<1>4. CASE ShowWindow
  BY <1>4 DEF ShowWindow, TypeOK, monitor, stored, world
<1>5. CASE KeySaved
  <2>1. TimerFor(TRUE, appInForeground) \in BOOLEAN
    BY DEF TimerFor
  <2>2. listening' \in BOOLEAN /\ timer' \in BOOLEAN
    BY <1>5, <2>1 DEF KeySaved, SetMonitor, TypeOK
  <2> QED BY <1>5, <2>2 DEF KeySaved, TypeOK, world
<1>6. CASE OpenSettings
  BY <1>6 DEF OpenSettings, TypeOK, monitor, stored, world
<1>7. CASE CloseSettings
  BY <1>7 DEF CloseSettings, TypeOK, monitor, stored, world
<1>8. CASE SettingsSwitch
  <2>1. PICK v \in BOOLEAN : Switch(v)
    BY <1>8, Zenon DEF SettingsSwitch, TypeOK
  <2>2. listen' \in BOOLEAN
    BY <1>8 DEF SettingsSwitch, TypeOK
  <2> QED BY <1>8, <2>1, <2>2, SwitchTypes DEF SettingsSwitch, TypeOK, world
<1>9. CASE TrayToggle
  <2>1. PICK v \in BOOLEAN : Switch(v)
    BY <1>9, Zenon DEF TrayToggle, TypeOK
  <2>2. listen' \in BOOLEAN
    BY <1>9 DEF TrayToggle, TypeOK
  <2> QED BY <1>9, <2>1, <2>2, SwitchTypes DEF TrayToggle, TypeOK, world
<1>10. CASE Lifecycle
  <2>1. TimerFor(listening, ~appInForeground) \in BOOLEAN
    BY DEF TimerFor
  <2> QED BY <1>10, <2>1 DEF Lifecycle, TypeOK, stored, shell, world
<1>11. ASSUME NEW p \in Polls, PollAsks(p) PROVE TypeOK'
  BY <1>11, PollTypes DEF PollAsks, TypeOK, stored, shell, world
<1>12. ASSUME NEW p \in Polls, PlatformAnswers(p) PROVE TypeOK'
  BY <1>12, PollTypes DEF PlatformAnswers, TypeOK, stored, shell, world
<1>13. ASSUME NEW p \in Polls, Handle(p) PROVE TypeOK'
  <2>1. poll' \in [Polls -> Poll] /\ poll[p].text \in Texts \cup {None}
    BY <1>13, PollTypes DEF Handle, NoPoll, TypeOK, Poll
  <2> QED BY <1>13, <2>1 DEF Handle, TypeOK, stored, shell, world
<1>14. ASSUME NEW text \in Texts \cup {None}, Copy(text) PROVE TypeOK'
  <2>1. copies' \in 0..MaxCopies
    BY <1>14, MonitorAssumption DEF Copy, TypeOK
  <2> QED BY <1>14, <2>1 DEF Copy, TypeOK, monitor, stored, shell
<1>15. CASE UNCHANGED vars
  BY <1>15 DEF vars, TypeOK, monitor, stored, shell, world
<1> QED
  BY <1>1, <1>2, <1>3, <1>4, <1>5, <1>6, <1>7, <1>8, <1>9, <1>10, <1>11, <1>12,
     <1>13, <1>14, <1>15 DEF Next

LEMMA MonitorInit == Init => TypeOK /\ Agree
<1> SUFFICES ASSUME Init PROVE TypeOK /\ Agree
  OBVIOUS
<1>1. poll \in [Polls -> Poll]
  BY DEF Init, NoPoll, Poll
<1>2. copies \in 0..MaxCopies /\ starts \in 0..MaxStarts
  BY MonitorAssumption DEF Init
<1>3. TypeOK
  BY <1>1, <1>2 DEF Init, TypeOK
<1>4. Agree
  BY DEF Init, Agree, TimerFor
<1> QED BY <1>3, <1>4

----------------------------------------------------------------------------
(* Theorems *)

\* Every variable keeps its type, whatever is switched, polled and restarted.
THEOREM MonitorTypes == Spec => []TypeOK
<1>1. Init => TypeOK
  BY MonitorInit
<1> QED BY <1>1, TypeStep, PTL DEF Spec

\* The timer, the monitor, the setting and the tray agree in every state.
THEOREM SwitchesAgree == Spec => []Agree
<1>1. Init => Agree
  BY MonitorInit
<1> QED BY <1>1, AgreeStep, MonitorTypes, PTL DEF Spec

\* Once there is a key, the clipboard is polled exactly as the setting says
\* (clipboard_monitor.dart:55-61, settings_screen.dart:37-47, main.dart:117-119).
THEOREM PollingFollowsSetting == Spec => []PollsAsSet
<1>1. TypeOK /\ Agree => PollsAsSet
  BY DEF TypeOK, Agree, PollsAsSet, TimerFor
<1> QED BY <1>1, MonitorTypes, SwitchesAgree, PTL
=============================================================================
