-------------------------------- MODULE Desktop --------------------------------
(***************************************************************************)
(* The desktop application (internal/desktop): the user starts and stops   *)
(* the background server and a Cloudflare tunnel to it, and a watchdog     *)
(* restarts both when the public address fails twice in a row.             *)
(*                                                                         *)
(* A click of the user and a recovery of the watchdog are lists of steps   *)
(* that run beside each other: nothing in the application excludes two of  *)
(* them.  What they share is the tunnel configuration with the wish that   *)
(* the tunnel runs, the record of the tunnel process, the configuration of *)
(* the server, and the processes themselves.  `mcpx -d` and `mcpx stop`    *)
(* are one step here (see Daemon.tla).                                     *)
(***************************************************************************)
EXTENDS Integers, Sequences, FiniteSets

CONSTANTS
  Clicks,            \* clicks of the user
  Actions,           \* what a click may be
  Modes,             \* kinds of tunnel: quick, named
  NamedOrigin,       \* the public address of a named tunnel
  MaxTunnels,        \* bound: tunnel processes
  MaxDesktopFaults,  \* bound: steps that fail
  MaxDesktopDeaths   \* bound: deaths of the server, the tunnel and the application

ASSUME DesktopConstants ==
  /\ Actions \subseteq {"start tunnel", "stop tunnel", "start", "stop", "restart"}
  /\ Modes \subseteq {"quick", "named"} /\ "watchdog" \notin Clicks /\ NamedOrigin \notin 0..MaxTunnels
  /\ {MaxTunnels, MaxDesktopFaults, MaxDesktopDeaths} \subseteq Nat

Actors == Clicks \cup {"watchdog"}
NoOrigin == 0

VARIABLES
  mode,         \* of the tunnel
  linked,       \* manage_with_mcpx: the tunnel goes with the server
  wish,         \* desired_running
  tunnels,      \* tunnel processes that live
  made,         \* tunnel processes so far
  tunnelRecord, \* the process of cloudflare-desktop-state.json, 0 for none
  settings,     \* config.yaml: the proxy settings are on, and the origin for OAuth
  service,      \* the background server and the settings it read at its start
  todo,         \* steps each actor still takes
  notes,        \* what an actor has loaded, started and joined errors of
  watchdog,     \* where the watchdog is, the failures it counted, its cooldown
  outage,       \* the public address does not answer
  clicked,      \* the action of each click
  aloneStop,    \* a stop of the tunnel with nothing else at work: none, under way, done
  stray,        \* tunnels whose start overlapped another or ended before the record
  desktopFaults, desktopDeaths

confVars == <<mode, linked>>
tunnelVars == <<tunnels, made, tunnelRecord>>
userVars == <<clicked, aloneStop>>
desktopBounds == <<desktopFaults, desktopDeaths>>
desktopVars == <<confVars, wish, tunnelVars, settings, service, todo, notes, watchdog, outage, userVars, stray, desktopBounds>>

NoSettings == [proxy |-> FALSE, origin |-> NoOrigin]
NoNotes == [wish |-> FALSE, tunnel |-> 0, erred |-> FALSE]
StepNames == {"look", "service", "proxy", "spawn", "record", "url", "origin", "arm", "disarm", "terminate",
              "stopService", "startService", "stopServiceOn", "check", "start"}

DesktopTypeOK ==
  /\ mode \in Modes /\ {linked, wish, outage} \subseteq BOOLEAN
  /\ aloneStop \in {"none", "underway", "done"}
  /\ tunnels \cup stray \subseteq 1..MaxTunnels /\ made \in 0..MaxTunnels /\ tunnelRecord \in 0..MaxTunnels
  /\ settings \in [proxy : BOOLEAN, origin : 0..MaxTunnels \cup {NamedOrigin}]
  /\ service.status \in {"stopped", "starting", "running"}
  /\ \A a \in Actors : \A i \in DOMAIN todo[a] : todo[a][i] \in StepNames
  /\ notes \in [Actors -> [wish : BOOLEAN, tunnel : 0..MaxTunnels, erred : BOOLEAN]]
  /\ watchdog.step \in {"waiting", "looking", "probing", "deciding", "recovering"}
  /\ watchdog.failures \in 0..2
  /\ clicked \in [Clicks -> Actions \cup {"none"}]
  /\ desktopFaults \in 0..MaxDesktopFaults /\ desktopDeaths \in 0..MaxDesktopDeaths

WatchdogInit == [step |-> "waiting", failures |-> 0, cooling |-> FALSE]
DesktopInit ==
  /\ mode \in Modes /\ linked \in BOOLEAN /\ wish = FALSE
  /\ tunnels = {} /\ made = 0 /\ tunnelRecord = 0 /\ settings = NoSettings
  /\ service \in {[status |-> s, read |-> NoSettings] : s \in {"stopped", "running"}}
  /\ todo = [a \in Actors |-> <<>>] /\ notes = [a \in Actors |-> NoNotes]
  /\ watchdog = WatchdogInit /\ outage = FALSE
  /\ clicked = [c \in Clicks |-> "none"] /\ aloneStop = "none" /\ stray = {}
  /\ desktopFaults = 0 /\ desktopDeaths = 0

-----------------------------------------------------------------------------
\* The procedures, as lists of steps

\* currentCloudflareState: the recorded process lives
TunnelRuns == tunnelRecord \in tunnels

\* startCloudflareTunnel
StartTunnel ==
  <<"look", "service", "proxy", "spawn", "record">> \o
  (IF mode = "quick" THEN <<"url", "origin">> ELSE <<>>) \o <<"arm">>

\* stopCloudflareTunnelWithDesired: the wish is written before and after, and
\* what fails is reported at the end
StopTunnel == <<"disarm", "terminate", "disarm">>
StopForRecovery == <<"arm", "terminate", "arm", "check">>

\* startMCPXStack, stopMCPXStack and restartMCPXStack
StartStack ==
  IF ~linked THEN <<"startService">> ELSE IF TunnelRuns THEN <<"service">> ELSE StartTunnel
StopStack == IF linked THEN StopTunnel \o <<"stopServiceOn">> ELSE <<"stopService">>
RestartStack == IF linked THEN StopStack \o <<"check", "start">> ELSE <<"stopService", "startService">>

\* restartCloudflareAndMCP
Recovery == StopForRecovery \o <<"stopService", "startService">> \o StartTunnel

Work(action) ==
  CASE action = "start tunnel" -> StartTunnel [] action = "stop tunnel" -> StopTunnel
    [] action = "start" -> StartStack [] action = "stop" -> StopStack [] OTHER -> RestartStack

-----------------------------------------------------------------------------
\* Helpers

Next1(a, step) == todo[a] # <<>> /\ Head(todo[a]) = step
GoesOn(a) == todo' = [todo EXCEPT ![a] = Tail(@)]
Instead(a, steps) == todo' = [todo EXCEPT ![a] = steps]
Busy(a) == todo[a] # <<>>
WatchdogAt(step) == watchdog.step = step

Fails == desktopFaults < MaxDesktopFaults /\ desktopFaults' = desktopFaults + 1
Erred(a) == notes' = [notes EXCEPT ![a].erred = TRUE]

\* A procedure ends with an error; one that has started a quick tunnel stops it.
GivesUp(a) == Erred(a) /\ Instead(a, IF notes[a].tunnel # 0 /\ mode = "quick" THEN StopTunnel ELSE <<>>)

\* Another actor is between looking for a tunnel and recording its own.
StartsToo(a) == \E o \in Actors \ {a} : \E i \in DOMAIN todo[o] : todo[o][i] \in {"spawn", "record"}

-----------------------------------------------------------------------------
\* Steps

\* A running tunnel is all that is asked for; otherwise the configuration is
\* loaded.  A record of a dead process is cleared on the way.
Look(a) ==
  /\ Next1(a, "look")
  /\ IF TunnelRuns
     THEN Instead(a, <<"arm">>) /\ UNCHANGED <<notes, tunnelRecord>>
     ELSE GoesOn(a) /\ notes' = [notes EXCEPT ![a].wish = wish] /\ tunnelRecord' = 0
  /\ UNCHANGED <<wish, tunnels, made, settings, service, stray, desktopFaults>>

\* ensureMCPServiceForCloudflare: a stopped server is started; it must run by then
EnsureService(a) ==
  /\ Next1(a, "service")
  /\ CASE service.status = "running" -> GoesOn(a) /\ UNCHANGED <<service, notes, desktopFaults>>
       [] service.status = "starting" -> GivesUp(a) /\ UNCHANGED <<service, desktopFaults>>
       [] OTHER -> \/ service' = [status |-> "running", read |-> settings] /\ GoesOn(a) /\ UNCHANGED <<notes, desktopFaults>>
                   \/ Fails /\ GivesUp(a) /\ service' \in {service, [status |-> "starting", read |-> settings]}
  /\ UNCHANGED <<wish, tunnelVars, settings, stray>>

\* ensureCloudflareRuntimeConfig, and a restart when it changed something
Restart(a) == Instead(a, <<"stopService", "startService">> \o Tail(todo[a]))
WriteSettings(a, next) ==
  /\ \/ next = settings /\ GoesOn(a) /\ UNCHANGED <<settings, notes, desktopFaults>>
     \/ next # settings /\ settings' = next /\ Restart(a) /\ UNCHANGED <<notes, desktopFaults>>
     \/ next # settings /\ Fails /\ GivesUp(a) /\ UNCHANGED settings
  /\ UNCHANGED <<wish, tunnelVars, service, stray>>

EnsureProxy(a) ==
  /\ Next1(a, "proxy")
  /\ WriteSettings(a, [proxy |-> TRUE, origin |-> IF mode = "named" THEN NamedOrigin ELSE settings.origin])

EnsureOrigin(a) ==
  /\ Next1(a, "origin")
  /\ WriteSettings(a, [proxy |-> TRUE, origin |-> notes[a].tunnel])

\* stopService and startService, with an error that ends the procedure or not;
\* a server that is slow to start is not an error
StopService(a) ==
  /\ Next1(a, "stopService") \/ Next1(a, "stopServiceOn")
  /\ \/ service' = [service EXCEPT !.status = "stopped"] /\ GoesOn(a) /\ UNCHANGED <<notes, desktopFaults>>
     \/ /\ Fails /\ UNCHANGED service
        /\ IF Next1(a, "stopService") THEN GivesUp(a)
           ELSE GoesOn(a) /\ Erred(a)
  /\ UNCHANGED <<wish, tunnelVars, settings, stray>>

StartService(a) ==
  /\ Next1(a, "startService")
  /\ \/ /\ \E s \in {"starting", "running"} : service' = [status |-> s, read |-> settings]
        /\ GoesOn(a) /\ UNCHANGED <<notes, desktopFaults>>
     \/ Fails /\ GivesUp(a) /\ service' = [service EXCEPT !.status = "stopped"]
  /\ UNCHANGED <<wish, tunnelVars, settings, stray>>

\* spawnCloudflared: the process, installed before if it was not, then its record
Spawn1(a) ==
  /\ Next1(a, "spawn") /\ made < MaxTunnels
  /\ \/ /\ made' = made + 1 /\ tunnels' = tunnels \cup {made + 1} /\ GoesOn(a)
        /\ notes' = [notes EXCEPT ![a].tunnel = made + 1]
        /\ stray' = IF StartsToo(a) \/ TunnelRuns THEN stray \cup tunnels \cup {made + 1} ELSE stray
        /\ UNCHANGED desktopFaults
     \/ Fails /\ GivesUp(a) /\ UNCHANGED <<made, tunnels, stray>>
  /\ UNCHANGED <<wish, tunnelRecord, settings, service>>

\* a record that cannot be written leaves the process alone
RecordOnly(a) ==
  /\ Next1(a, "record")
  /\ \/ tunnelRecord' = notes[a].tunnel /\ GoesOn(a) /\ UNCHANGED <<notes, desktopFaults>>
     \/ Fails /\ Erred(a) /\ Instead(a, <<>>) /\ UNCHANGED tunnelRecord
  /\ UNCHANGED <<wish, tunnels, made, settings, service, stray>>

Record(a) ==
  /\ Next1(a, "record")
  /\ \/ tunnelRecord' = notes[a].tunnel /\ GoesOn(a) /\ UNCHANGED <<tunnels, notes, desktopFaults>>
     \/ Fails /\ Erred(a) /\ Instead(a, <<>>) /\ tunnels' = tunnels \ {notes[a].tunnel} /\ UNCHANGED tunnelRecord
  /\ UNCHANGED <<wish, made, settings, service, stray>>

\* waitForTryCloudflareURL: with an address the configuration is saved as it was
\* loaded at the start; without one the tunnel is stopped as if by the user
AwaitURL(a) ==
  /\ Next1(a, "url")
  /\ \/ notes[a].tunnel \in tunnels /\ ~outage /\ wish' = notes[a].wish /\ GoesOn(a) /\ UNCHANGED <<notes, desktopFaults>>
     \/ (outage \/ notes[a].tunnel \notin tunnels) /\ GivesUp(a) /\ UNCHANGED <<wish, desktopFaults>>
     \/ Fails /\ GivesUp(a) /\ UNCHANGED wish
  /\ UNCHANGED <<tunnelVars, settings, service, stray>>

\* setCloudflareDesiredRunning; an error is reported at the end
Arm(a) ==
  /\ Next1(a, "arm") \/ Next1(a, "disarm")
  /\ \/ wish' = Next1(a, "arm") /\ UNCHANGED <<notes, desktopFaults>>
     \/ wish # Next1(a, "arm") /\ Fails /\ Erred(a) /\ UNCHANGED wish
  /\ GoesOn(a) /\ UNCHANGED <<tunnelVars, settings, service, stray>>

\* stopCloudflareTunnelProcess: the recorded process ends, or survives
Terminate1(a) ==
  /\ Next1(a, "terminate") /\ GoesOn(a)
  /\ \/ tunnels' = tunnels \ {tunnelRecord} /\ tunnelRecord' = 0 /\ UNCHANGED <<notes, desktopFaults>>
     \/ TunnelRuns /\ Fails /\ Erred(a) /\ UNCHANGED <<tunnels, tunnelRecord>>
  /\ UNCHANGED <<wish, made, settings, service, stray>>

Check(a) ==
  /\ Next1(a, "check") /\ (IF notes[a].erred THEN Instead(a, <<>>) ELSE GoesOn(a))
  /\ UNCHANGED <<wish, tunnelVars, settings, service, notes, stray, desktopFaults>>

StartAgain(a) ==
  /\ Next1(a, "start") /\ Instead(a, StartStack)
  /\ UNCHANGED <<wish, tunnelVars, settings, service, notes, stray, desktopFaults>>

Takes(a) ==
  \/ Look(a) \/ EnsureService(a) \/ EnsureProxy(a) \/ EnsureOrigin(a) \/ StopService(a) \/ StartService(a)
  \/ Spawn1(a) \/ Record(a) \/ AwaitURL(a) \/ Arm(a) \/ Terminate1(a) \/ Check(a) \/ StartAgain(a)

\* A stop of the tunnel ends with its last step; nothing else at work, it is done.
Stops(action) == action = "stop tunnel" \/ (action = "stop" /\ linked)
Step(a) ==
  /\ Takes(a)
  /\ aloneStop' = IF aloneStop = "underway" /\ todo'[a] = <<>>
                  THEN (IF notes'[a].erred THEN "none" ELSE "done") ELSE aloneStop
  /\ UNCHANGED <<confVars, watchdog, outage, clicked, desktopDeaths>>

-----------------------------------------------------------------------------
\* The user and the watchdog

Click(c, action) ==
  /\ clicked[c] = "none" /\ clicked' = [clicked EXCEPT ![c] = action]
  /\ Instead(c, Work(action))
  /\ aloneStop' = IF Stops(action) /\ WatchdogAt("waiting") /\ \A o \in Actors : ~Busy(o) THEN "underway" ELSE "none"
  /\ UNCHANGED <<confVars, wish, tunnelVars, settings, service, notes, watchdog, outage, stray, desktopBounds>>

WatchdogGoes(step, failures) == watchdog' = [watchdog EXCEPT !.step = step, !.failures = failures]

\* pollCloudflareHealth: the configuration is loaded first ...
Tick ==
  /\ WatchdogAt("waiting") /\ WatchdogGoes("looking", watchdog.failures)
  /\ notes' = [notes EXCEPT !["watchdog"] = [NoNotes EXCEPT !.wish = wish]]
  /\ aloneStop' = IF aloneStop = "underway" THEN "none" ELSE aloneStop
  /\ UNCHANGED <<confVars, wish, tunnelVars, settings, service, todo, outage, clicked, stray, desktopBounds>>

\* ... then the state; a tunnel that runs unwished is adopted
Adopt ==
  LET adopts == TunnelRuns /\ ~notes["watchdog"].wish IN
  /\ WatchdogAt("looking")
  /\ wish' = (wish \/ adopts)
  /\ IF notes["watchdog"].wish \/ adopts THEN WatchdogGoes("probing", watchdog.failures) ELSE WatchdogGoes("waiting", 0)
  /\ tunnelRecord' = IF TunnelRuns THEN tunnelRecord ELSE 0
  /\ UNCHANGED <<confVars, tunnels, made, settings, service, todo, notes, outage, userVars, stray, desktopBounds>>

\* runCloudflareHealthCheck
Healthy == service.status = "running" /\ TunnelRuns /\ ~outage
Probe ==
  /\ WatchdogAt("probing")
  /\ IF Healthy THEN WatchdogGoes("waiting", 0)
     ELSE IF watchdog.failures < 1 THEN WatchdogGoes("waiting", watchdog.failures + 1)
     ELSE IF watchdog.cooling THEN WatchdogGoes("waiting", 2) ELSE WatchdogGoes("deciding", 2)
  /\ UNCHANGED <<confVars, wish, tunnelVars, settings, service, todo, notes, outage, userVars, stray, desktopBounds>>

\* the wish is read once more, and the recovery begins
Decide ==
  /\ WatchdogAt("deciding")
  /\ IF wish
     THEN /\ watchdog' = [step |-> "recovering", failures |-> 2, cooling |-> TRUE]
          /\ Instead("watchdog", Recovery)
     ELSE WatchdogGoes("waiting", 0) /\ UNCHANGED todo
  /\ notes' = [notes EXCEPT !["watchdog"] = NoNotes]
  /\ UNCHANGED <<confVars, wish, tunnelVars, settings, service, outage, userVars, stray, desktopBounds>>

Recovered ==
  /\ WatchdogAt("recovering") /\ ~Busy("watchdog")
  /\ WatchdogGoes("waiting", IF notes["watchdog"].erred THEN 2 ELSE 0)
  /\ UNCHANGED <<confVars, wish, tunnelVars, settings, service, todo, notes, outage, userVars, stray, desktopBounds>>

CoolsDown ==
  /\ watchdog.cooling /\ watchdog' = [watchdog EXCEPT !.cooling = FALSE]
  /\ UNCHANGED <<confVars, wish, tunnelVars, settings, service, todo, notes, outage, userVars, stray, desktopBounds>>

-----------------------------------------------------------------------------
\* Surroundings

DeathHappens == desktopDeaths < MaxDesktopDeaths /\ desktopDeaths' = desktopDeaths + 1

\* The tunnel's process ends: the goroutine that waits for it clears its record.
TunnelDies(t) ==
  /\ t \in tunnels /\ DeathHappens /\ tunnels' = tunnels \ {t}
  /\ tunnelRecord' \in {tunnelRecord, IF tunnelRecord = t THEN 0 ELSE tunnelRecord}
  /\ UNCHANGED <<confVars, wish, made, settings, service, todo, notes, watchdog, outage, userVars, stray, desktopFaults>>

ServiceDies ==
  /\ service.status # "stopped" /\ DeathHappens /\ service' = [service EXCEPT !.status = "stopped"]
  /\ UNCHANGED <<confVars, wish, tunnelVars, settings, todo, notes, watchdog, outage, userVars, stray, desktopFaults>>

ServiceIsUp ==
  /\ service.status = "starting" /\ service' = [service EXCEPT !.status = "running"]
  /\ UNCHANGED <<confVars, wish, tunnelVars, settings, todo, notes, watchdog, outage, userVars, stray, desktopBounds>>

OutageBegins ==
  /\ ~outage /\ DeathHappens /\ outage' = TRUE
  /\ UNCHANGED <<confVars, wish, tunnelVars, settings, service, todo, notes, watchdog, userVars, stray, desktopFaults>>
OutageEnds ==
  /\ outage /\ outage' = FALSE
  /\ UNCHANGED <<confVars, wish, tunnelVars, settings, service, todo, notes, watchdog, userVars, stray, desktopBounds>>

\* The application ends and starts again; the processes go on.
DesktopRestarts ==
  /\ DeathHappens /\ todo' = [a \in Actors |-> <<>>] /\ notes' = [a \in Actors |-> NoNotes]
  /\ watchdog' = WatchdogInit
  /\ stray' = stray \cup {notes[a].tunnel : a \in {o \in Actors : Next1(o, "record")}}
  /\ aloneStop' = IF aloneStop = "underway" THEN "none" ELSE aloneStop
  /\ UNCHANGED <<confVars, wish, tunnelVars, settings, service, outage, clicked, desktopFaults>>

DesktopNext ==
  \/ \E a \in Actors : Step(a)
  \/ \E c \in Clicks, action \in Actions : Click(c, action)
  \/ Tick \/ Adopt \/ Probe \/ Decide \/ Recovered \/ CoolsDown
  \/ \E t \in 1..MaxTunnels : TunnelDies(t)
  \/ ServiceDies \/ ServiceIsUp \/ OutageBegins \/ OutageEnds \/ DesktopRestarts

DesktopSpec == DesktopInit /\ [][DesktopNext]_desktopVars

-----------------------------------------------------------------------------
\* Properties

\* A tunnel that runs is the recorded one, or its start is about to record it:
\* a start that fails takes its process with it, and a stop finds what it must
\* stop.  Starts beside each other, and an application that ends before the
\* record, are the exceptions.
TunnelIsRecorded ==
  \A t \in tunnels \ stray : tunnelRecord = t \/ \E a \in Actors : Next1(a, "record") /\ notes[a].tunnel = t

\* A stop during which the watchdog rested is final: nothing wishes the tunnel
\* back, and none runs, until the user acts again.
StopIsFinal == aloneStop = "done" => ~wish /\ tunnels \subseteq stray

\* The tunnel can always be found and stopped.
TunnelHolds == TunnelIsRecorded /\ StopIsFinal

\* What README.md and pollCloudflareHealth say: a stop of the user ends the
\* automatic recovery.  Only the user, and the adoption of a tunnel that runs,
\* bring the wish back.
WatchdogRespectsStop ==
  [][~wish /\ wish' => todo'["watchdog"] = todo["watchdog"]]_desktopVars

\* What startCloudflareTunnel says: the settings are on before the port is public.
PublicServerIsConfigured ==
  tunnels # {} /\ stray = {} /\ service.status = "running" => service.read.proxy
================================================================================
