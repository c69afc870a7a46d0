--------------------------- MODULE ClipboardMonitor ---------------------------
(***************************************************************************)
(* Listening to the clipboard: the monitor (services/clipboard_monitor.dart)*)
(* with everything that starts and stops it: the start of the app and a    *)
(* saved key (main.dart), the switch in the settings (settings_screen.dart)*)
(* and, on a desktop, the tray and the closed window                       *)
(* (services/desktop_integration.dart).                                    *)
(*                                                                         *)
(* A poll asks the platform for the clipboard and goes on when the answer  *)
(* is there; the timer fires again meanwhile, so polls overlap and their   *)
(* answers may come in any order.  What happens to a text that is handed   *)
(* over is in UploadClient.                                                *)
(***************************************************************************)
EXTENDS Integers

CONSTANTS
    Texts, None, \* what may be copied; None stands for an empty clipboard too
    Polls,       \* polls under way at one time
    MaxCopies, MaxStarts \* bounds of the model

ASSUME MonitorAssumption ==
    /\ None \notin Texts
    /\ MaxCopies \in Nat /\ MaxStarts \in Nat

VARIABLES
    running,       \* the process runs
    isDesktop,
    hasKey,        \* settings.apiKey is stored
    listenEnabled, \* stored
    listening, timer, appInForeground, lastSeen, \* the monitor
    poll,          \* poll -> text the platform answered, if it has
    trayListening, \* DesktopIntegration._listening
    window,        \* "shown" or "hidden"
    page,          \* "key" asks for a key, then "home" and "settings"
    listen,        \* _listen of an open settings page
    clipboard,
    handed,        \* history: texts handed over since the monitor exists
    copies, starts

monitor == <<listening, timer, appInForeground, lastSeen, poll, handed>>
stored == <<isDesktop, hasKey, listenEnabled>>
shell == <<running, trayListening, window, page, listen>>
world == <<clipboard, copies, starts>>
vars == <<monitor, stored, shell, world>>

Poll == [at : {"idle", "asked", "answered"}, text : Texts \cup {None}]

NoPoll == [at |-> "idle", text |-> None]

TypeOK ==
    /\ running \in BOOLEAN /\ isDesktop \in BOOLEAN /\ hasKey \in BOOLEAN /\ listenEnabled \in BOOLEAN
    /\ listening \in BOOLEAN /\ timer \in BOOLEAN /\ appInForeground \in BOOLEAN
    /\ lastSeen \in Texts \cup {None}
    /\ poll \in [Polls -> Poll]
    /\ trayListening \in BOOLEAN
    /\ window \in {"shown", "hidden"}
    /\ page \in {"key", "home", "settings"}
    /\ listen \in BOOLEAN
    /\ clipboard \in Texts \cup {None}
    /\ handed \subseteq Texts
    /\ copies \in 0..MaxCopies /\ starts \in 0..MaxStarts

----------------------------------------------------------------------------
(* The monitor *)

\* _syncTimer: a desktop polls always, a phone in the foreground only.
TimerFor(on, foreground) == on /\ (isDesktop \/ foreground)

\* start and stop; a monitor that listens is not started again.
SetMonitor(on) ==
    /\ listening' = on
    /\ timer' = IF on = listening THEN timer ELSE TimerFor(on, appInForeground)

\* Faulty variant: the timer is left alone.
LifecycleLeavingTimer ==
    /\ running /\ appInForeground' = ~appInForeground
    /\ UNCHANGED <<listening, timer, lastSeen, poll, handed, stored, shell, world>>

\* handleAppLifecycle.
Lifecycle ==
    /\ running /\ appInForeground' = ~appInForeground
    /\ timer' = IF isDesktop THEN timer ELSE TimerFor(listening, ~appInForeground)
    /\ UNCHANGED <<listening, lastSeen, poll, handed, stored, shell, world>>

\* The timer fires, and goes on firing while the platform is slow.
PollAsks(p) ==
    /\ timer /\ poll[p].at = "idle"
    /\ poll' = [poll EXCEPT ![p] = [at |-> "asked", text |-> None]]
    /\ UNCHANGED <<listening, timer, appInForeground, lastSeen, handed, stored, shell, world>>

PlatformAnswers(p) ==
    /\ poll[p].at = "asked"
    /\ poll' = [poll EXCEPT ![p] = [at |-> "answered", text |-> clipboard]]
    /\ UNCHANGED <<listening, timer, appInForeground, lastSeen, handed, stored, shell, world>>

\* Faulty variant: what was handed over once is never handed over again.
HandleOnce(p) ==
    /\ poll[p].at = "answered"
    /\ poll' = [poll EXCEPT ![p] = NoPoll]
    /\ LET text == poll[p].text
       IN IF text = None \/ text \in handed THEN UNCHANGED <<lastSeen, handed>>
          ELSE lastSeen' = text /\ handed' = handed \cup {text}
    /\ UNCHANGED <<listening, timer, appInForeground, stored, shell, world>>

\* handleClipboardText: a text is noted before uploadText is awaited; a monitor
\* that was stopped meanwhile hands it over all the same.
Handle(p) ==
    /\ poll[p].at = "answered"
    /\ poll' = [poll EXCEPT ![p] = NoPoll]
    /\ LET text == poll[p].text
       IN IF text = None \/ text = lastSeen THEN UNCHANGED <<lastSeen, handed>>
          ELSE lastSeen' = text /\ handed' = handed \cup {text}
    /\ UNCHANGED <<listening, timer, appInForeground, stored, shell, world>>

----------------------------------------------------------------------------
(* What starts and stops it *)

\* The user switches listening on or off, in the settings or in the tray.
Switch(v) ==
    /\ listenEnabled' = v
    /\ SetMonitor(v)
    /\ trayListening' = v
    /\ UNCHANGED <<isDesktop, hasKey, appInForeground, lastSeen, poll, handed>>

\* The page shows the setting as it was when the page was opened, or as it was
\* last switched here: not what the tray has done since.
SettingsSwitch ==
    /\ running /\ page = "settings" /\ window = "shown"
    /\ listen' = ~listen
    /\ Switch(~listen)
    /\ UNCHANGED <<running, window, page, world>>

\* Also without a key.
TrayToggle ==
    /\ running /\ isDesktop
    /\ Switch(~trayListening)
    /\ UNCHANGED <<running, window, page, listen, world>>

OpenSettings ==
    /\ running /\ page = "home" /\ window = "shown"
    /\ page' = "settings" /\ listen' = listenEnabled
    /\ UNCHANGED <<monitor, stored, running, trayListening, window, world>>

CloseSettings ==
    /\ running /\ page = "settings" /\ window = "shown"
    /\ page' = "home"
    /\ UNCHANGED <<monitor, stored, running, trayListening, window, listen, world>>

\* The key that was entered has been stored (saveConnection), and _onKeySaved.
KeySaved ==
    /\ running /\ page = "key" /\ window = "shown"
    /\ hasKey' = TRUE /\ page' = "home"
    /\ IF listenEnabled THEN SetMonitor(TRUE) ELSE UNCHANGED <<listening, timer>>
    /\ UNCHANGED <<isDesktop, listenEnabled, appInForeground, lastSeen, poll, handed,
                   running, trayListening, window, listen, world>>

----------------------------------------------------------------------------
(* The process *)

\* The process is gone, with the monitor and its polls.
Gone ==
    /\ running' = FALSE
    /\ listening' = FALSE /\ timer' = FALSE
    /\ poll' = [p \in Polls |-> NoPoll]
    /\ UNCHANGED <<appInForeground, lastSeen, handed, stored, trayListening, window, page, listen, world>>

\* onWindowClose: into the tray, or away, when listening is off and also when the
\* window cannot be hidden (the exception of hide is caught).
WindowClosed ==
    /\ running /\ isDesktop /\ window = "shown"
    /\ \/ /\ trayListening /\ window' = "hidden"
          /\ UNCHANGED <<monitor, stored, running, trayListening, page, listen, world>>
       \/ Gone

ShowWindow ==
    /\ running /\ window = "hidden" /\ window' = "shown"
    /\ UNCHANGED <<monitor, stored, running, trayListening, page, listen, world>>

\* The tray quits, or the system ends the app.
Ended == running /\ Gone

\* initState of HomeShell, and init of the desktop integration up to its await.
Started(key, enabled) ==
    /\ running' = TRUE
    /\ listening' = (key /\ enabled)
    /\ appInForeground' = TRUE
    /\ timer' = TimerFor(key /\ enabled, TRUE)
    /\ lastSeen' = None /\ handed' = {}
    /\ poll' = [p \in Polls |-> NoPoll]
    /\ trayListening' = (isDesktop /\ enabled)
    /\ window' = "shown"
    /\ page' = IF key THEN "home" ELSE "key"
    /\ listen' = FALSE

Start ==
    /\ ~running /\ starts < MaxStarts /\ starts' = starts + 1
    /\ Started(hasKey, listenEnabled)
    /\ UNCHANGED <<stored, clipboard, copies>>

Copy(text) ==
    /\ copies < MaxCopies /\ copies' = copies + 1
    /\ text # clipboard /\ clipboard' = text
    /\ UNCHANGED <<monitor, stored, shell, starts>>

----------------------------------------------------------------------------
\* Nothing is stored yet, and the process does not run.
Init ==
    /\ running = FALSE
    /\ isDesktop \in BOOLEAN
    /\ hasKey = FALSE /\ listenEnabled = FALSE
    /\ listening = FALSE /\ timer = FALSE /\ appInForeground = TRUE
    /\ lastSeen = None /\ handed = {}
    /\ poll = [p \in Polls |-> NoPoll]
    /\ trayListening = FALSE /\ window = "shown" /\ page = "key" /\ listen = FALSE
    /\ clipboard = None
    /\ copies = 0 /\ starts = 0

Next ==
    \/ Start \/ Ended \/ WindowClosed \/ ShowWindow
    \/ KeySaved \/ OpenSettings \/ CloseSettings \/ SettingsSwitch \/ TrayToggle
    \/ Lifecycle
    \/ \E p \in Polls : PollAsks(p) \/ PlatformAnswers(p) \/ Handle(p)
    \/ \E text \in Texts \cup {None} : Copy(text)

Spec == Init /\ [][Next]_vars

\* The timer fires every two seconds, the platform answers, and the event loop
\* gets to the answer.
FairSpec ==
    /\ Spec
    /\ \A p \in Polls : WF_vars(PollAsks(p)) /\ WF_vars(PlatformAnswers(p)) /\ WF_vars(Handle(p))

----------------------------------------------------------------------------
\* Once there is a key, the clipboard is polled exactly while the stored setting
\* says so and the app may, however it was switched and restarted, and the tray
\* shows what the setting says.
PollsAsSet ==
    running =>
        /\ page # "key" => timer = TimerFor(listenEnabled, appInForeground)
        /\ isDesktop => trayListening = listenEnabled

\* A text that stays in the clipboard while it is polled is handed over, past
\* polls that were slow and read something older, and also if it was copied before.
CopiedIsHandedOver ==
    \A text \in Texts : <>[](timer /\ clipboard = text) => <>[](lastSeen = text)
=============================================================================
