------------------------------ MODULE Extensions ------------------------------
(***************************************************************************)
(* Tools of other programs: skills (skill_tool, internal/skill) and tools  *)
(* of upstream MCP servers (mcp_tool, internal/mcpproxy).  A client reads  *)
(* a definition ("describe"), for which the server keeps a lease, and      *)
(* calls it later; the call is refused when the definition is another one  *)
(* than its session was shown.  Under an idempotency key the call passes   *)
(* withCleanIdempotency, here by its contract: one owner, who abandons the *)
(* key when its preflight refuses.                                         *)
(*                                                                         *)
(* One skill, one upstream tool; a restart loses leases and calls.         *)
(***************************************************************************)
EXTENDS Naturals, Sequences, SequencesExt, FiniteSets

CONSTANTS
  ExtCalls,       \* calls of skill_tool and mcp_tool
  ExtSessions,    \* remote sessions
  ExtPlans,       \* what the calls ask: functions from ExtCalls to plans
  SkillDirs,      \* the scan directories, in the order they are scanned
  LastVersion,    \* versions of a definition are 1..LastVersion
  MaxExtChanges,  \* bound: changes of definitions and configuration
  MaxExtRestarts, \* bound: restarts of the server
  MaxDeadlines    \* bound: upstream processes ended by a deadline

ExtensionKinds == {"skill", "mcp"}

(* A plan: describe or call, the kind, the session, whether the call has a *)
(* key, and the versions whose schema its arguments satisfy.               *)
ASSUME ExtensionsAssumption ==
  /\ "none" \notin ExtCalls /\ SkillDirs \in Seq(ToSet(SkillDirs))
  /\ LastVersion \in Nat \ {0} /\ {MaxExtChanges, MaxExtRestarts, MaxDeadlines} \subseteq Nat
  /\ \A plans \in ExtPlans : \A c \in ExtCalls :
       LET p == plans[c]
       IN /\ p.ask \in {"describe", "call"} /\ p.kind \in ExtensionKinds /\ p.session \in ExtSessions
          /\ p.keyed \in BOOLEAN /\ p.fits \subseteq 1..LastVersion

VARIABLES
  extPlan,     \* call -> its plan
  extStep,     \* call -> how far it is
  extAnswer,   \* call -> what it answers
  upstream,    \* the merged configuration and the program it names: a state, and
               \* the version of the tool a process of it lists (0: none)
  skillFiles,  \* directory -> versions of manifest and entry (manifest 0: no package)
  skillsOn,    \* Discovery.Skills.Enabled
  leases,      \* Runtime.discoveries: session and kind -> the revision described
  instance,    \* call -> the upstream process it opened
  picked,      \* call -> the definition its preflight, or describe, found
  held,        \* call -> the lease its preflight compared with
  keyRow,      \* session and kind -> the idempotency record of the key
  ran,         \* call -> the definition that was carried out
  touched,     \* calls during which skills changed after their preflight looked
  pulse,       \* call -> the heartbeat of its upstream call
  extChanges, extRestarts, deadlines

extVars == <<extPlan, extStep, extAnswer, upstream, skillFiles, skillsOn, leases, instance, picked, held, keyRow, ran,
             touched, pulse, extChanges, extRestarts, deadlines>>

Rev(dir, manifest, entry) == [dir |-> dir, manifest |-> manifest, entry |-> entry]
NoRev == Rev("none", 0, 0)
NoInstance == [state |-> "none", tool |-> 0]
NoKeyRow == [state |-> "none", by |-> "none"]
DirSet == ToSet(SkillDirs)
Revisions == [dir : DirSet \cup {"none", "upstream"}, manifest : 0..LastVersion, entry : 0..LastVersion]
EndOf(c) == extStep[c] \in {"answered", "lost"}
Owner(c) == <<extPlan[c].session, extPlan[c].kind>>

Recorded == {"replay", "conflict", "in_progress"}
ExtRefusals == {"not_found", "unavailable", "disabled", "changed", "arguments"}

ExtensionsTypeOK ==
  /\ extPlan \in ExtPlans
  /\ extStep \in [ExtCalls -> {"out", "claim", "waiting", "open", "list", "lease", "load", "revise", "ready", "calling",
                               "starting", "returned", "refused", "close", "answered", "lost"}]
  /\ upstream \in [state : {"up", "disabled", "absent", "down"}, tool : 0..LastVersion]
  /\ skillFiles \in [DirSet -> [manifest : 0..LastVersion, entry : 1..LastVersion]] /\ skillsOn \in BOOLEAN
  /\ leases \in [ExtSessions \X ExtensionKinds -> Revisions]
  /\ instance \in [ExtCalls -> [state : {"none", "open", "killed", "closed"}, tool : 0..LastVersion]]
  /\ {picked, held, ran} \subseteq [ExtCalls -> Revisions]
  /\ keyRow \in [ExtSessions \X ExtensionKinds ->
                   [state : {"none", "pending", "succeeded", "failed"}, by : ExtCalls \cup {"none"}]]
  /\ extAnswer \in [ExtCalls -> {"none", "described", "result", "failed"} \cup Recorded \cup ExtRefusals]
  /\ touched \subseteq ExtCalls /\ pulse \in [ExtCalls -> {"off", "on", "sending"}]

ExtensionsInit ==
  /\ extPlan \in ExtPlans
  /\ extStep = [c \in ExtCalls |-> "out"] /\ extAnswer = [c \in ExtCalls |-> "none"]
  /\ upstream = [state |-> "up", tool |-> 1]
  /\ skillFiles = [d \in DirSet |-> [manifest |-> IF d = Last(SkillDirs) THEN 1 ELSE 0, entry |-> 1]]
  /\ skillsOn = TRUE
  /\ leases = [o \in ExtSessions \X ExtensionKinds |-> NoRev]
  /\ instance = [c \in ExtCalls |-> NoInstance]
  /\ picked = [c \in ExtCalls |-> NoRev] /\ held = picked /\ ran = picked
  /\ keyRow = [o \in ExtSessions \X ExtensionKinds |-> NoKeyRow]
  /\ touched = {} /\ pulse = [c \in ExtCalls |-> "off"]
  /\ extChanges = 0 /\ extRestarts = 0 /\ deadlines = 0

ExtGoes(c, from, to) == extStep[c] = from /\ extStep' = [extStep EXCEPT ![c] = to]
Says(c, a) == extAnswer' = [extAnswer EXCEPT ![c] = a]
world == <<extPlan, upstream, skillFiles, skillsOn, extChanges, extRestarts, deadlines>>

(***************************************************************************)
(* The idempotency key: withCleanIdempotency and its preflight.            *)
(***************************************************************************)
\* A describe goes to its tool; a call without a key to its preflight.
ExtCallArrives(c) ==
  /\ LET p == extPlan[c]
         first == IF p.kind = "mcp" THEN "open" ELSE "load"
     IN ExtGoes(c, "out", IF p.ask = "call" /\ p.keyed THEN "claim" ELSE first)
  /\ UNCHANGED <<world, extAnswer, leases, instance, picked, held, keyRow, ran, touched, pulse>>

\* validateDiscoveryArguments: the arguments of the call satisfy the schema of the
\* definition.
ExtArgumentsFit(c, rev) == rev.manifest \in extPlan[c].fits

\* The fingerprint of the request is that of its arguments.
SameRequest(c, d) == extPlan[c].fits = extPlan[d].fits

\* Lookup and Claim.  The record of a call that died answers "in progress" until
\* its lease is over, and is taken over then.
ClaimExtKey(c) ==
  /\ extStep[c] = "claim"
  /\ LET row == keyRow[Owner(c)]
         first == IF extPlan[c].kind = "mcp" THEN "open" ELSE "load"
         owned == keyRow' = [keyRow EXCEPT ![Owner(c)] = [state |-> "pending", by |-> c]] /\ ExtGoes(c, "claim", first)
                  /\ UNCHANGED extAnswer
         told(a) == Says(c, a) /\ ExtGoes(c, "claim", "answered") /\ UNCHANGED keyRow
     IN \/ row.state = "none" /\ owned
        \/ row.state # "none" /\ ~SameRequest(c, row.by) /\ told("conflict")
        \/ row.state \in {"succeeded", "failed"} /\ SameRequest(c, row.by) /\ told("replay")
        \/ /\ row.state = "pending" /\ SameRequest(c, row.by)
           /\ IF extStep[row.by] = "lost"
              THEN owned \/ told("in_progress")
              ELSE ExtGoes(c, "claim", "waiting") /\ UNCHANGED <<extAnswer, keyRow>>
  /\ UNCHANGED <<world, leases, instance, picked, held, ran, touched, pulse>>

\* Wait: the flight is over; what the row says then.
EndExtWait(c) ==
  /\ ExtGoes(c, "waiting", "answered")
  /\ LET row == keyRow[Owner(c)]
     IN /\ row.state # "pending"
        /\ Says(c, IF row.state = "none" THEN "in_progress" ELSE "replay")
  /\ UNCHANGED <<world, leases, instance, picked, held, keyRow, ran, touched, pulse>>

\* The owner's preflight refused: Abandon, so that a retry is not blocked.
RefuseExtCall(c) ==
  /\ ExtGoes(c, "refused", "close")
  /\ keyRow' = IF keyRow[Owner(c)] = [state |-> "pending", by |-> c]
               THEN [keyRow EXCEPT ![Owner(c)] = NoKeyRow] ELSE keyRow
  /\ UNCHANGED <<world, extAnswer, leases, instance, picked, held, ran, touched, pulse>>

\* Complete, with a failure when the tool failed or its answer is too large.
CompleteExtCall(c) ==
  /\ ExtGoes(c, "returned", "close")
  /\ keyRow' = IF keyRow[Owner(c)] = [state |-> "pending", by |-> c]
               THEN [keyRow EXCEPT ![Owner(c)].state = IF extAnswer[c] = "result" THEN "succeeded" ELSE "failed"]
               ELSE keyRow
  /\ UNCHANGED <<world, extAnswer, leases, instance, picked, held, ran, touched, pulse>>

\* The upstream process of the call ends with it.
CloseExtCall(c) ==
  /\ ExtGoes(c, "close", "answered")
  /\ instance' = [instance EXCEPT ![c].state = IF @ = "open" THEN "closed" ELSE @]
  /\ UNCHANGED <<world, extAnswer, leases, picked, held, keyRow, ran, touched, pulse>>

\* Nothing is called: a describe ends, a call is refused.
StopsWith(c, code) ==
  /\ Says(c, code)
  /\ extStep' = [extStep EXCEPT ![c] = IF extPlan[c].ask = "call" THEN "refused" ELSE "close"]

(***************************************************************************)
(* Upstream MCP servers.                                                   *)
(***************************************************************************)
\* ensureClient: the merged configuration is read now, and a process started.
OpenClientSession(c) ==
  /\ extStep[c] = "open"
  /\ IF upstream.state = "up"
     THEN /\ instance' = [instance EXCEPT ![c] = [state |-> "open", tool |-> upstream.tool]]
          /\ ExtGoes(c, "open", "list") /\ UNCHANGED extAnswer
     ELSE StopsWith(c, IF upstream.state = "absent" THEN "not_found" ELSE "unavailable") /\ UNCHANGED instance
  /\ UNCHANGED <<world, leases, picked, held, keyRow, ran, touched, pulse>>

\* Mutant: the lease is not compared.
PreflightedUnleased(c, rev) ==
  /\ held' = [held EXCEPT ![c] = leases[Owner(c)]]
  /\ IF ~ExtArgumentsFit(c, rev) THEN StopsWith(c, "arguments")
     ELSE extStep' = [extStep EXCEPT ![c] = "ready"] /\ UNCHANGED extAnswer

\* What a preflight finds out about a definition, with the lease of its session:
\* the definition changed, the arguments do not fit, or the call may go on.
Preflighted(c, rev) ==
  LET lease == leases[Owner(c)]
  IN /\ held' = [held EXCEPT ![c] = lease]
     /\ IF lease \notin {NoRev, rev} THEN StopsWith(c, "changed")
        ELSE IF ~ExtArgumentsFit(c, rev) THEN StopsWith(c, "arguments")
        ELSE extStep' = [extStep EXCEPT ![c] = "ready"] /\ UNCHANGED extAnswer

\* tools/list on that process, for a describe and for a preflight.
ListUpstreamTools(c) ==
  /\ extStep[c] = "list"
  /\ LET found == Rev("upstream", instance[c].tool, 0)
     IN IF instance[c].state = "killed" THEN StopsWith(c, "unavailable") /\ UNCHANGED <<picked, held>>
        ELSE IF instance[c].tool = 0 THEN StopsWith(c, "not_found") /\ UNCHANGED <<picked, held>>
        ELSE /\ picked' = [picked EXCEPT ![c] = found]
             /\ IF extPlan[c].ask = "call" THEN Preflighted(c, found)
                ELSE ExtGoes(c, "list", "lease") /\ UNCHANGED <<extAnswer, held>>
  /\ UNCHANGED <<world, leases, instance, keyRow, ran, touched, pulse>>

\* toolMCPCallOnSession: the tool is called, by its name, on the same process.
CallUpstream(c) ==
  /\ extStep[c] = "ready" /\ extPlan[c].kind = "mcp"
  /\ IF instance[c].state = "killed"
     THEN ExtGoes(c, "ready", "returned") /\ Says(c, "failed") /\ UNCHANGED <<ran, pulse>>
     ELSE /\ ExtGoes(c, "ready", "calling") /\ UNCHANGED extAnswer
          /\ ran' = [ran EXCEPT ![c] = Rev("upstream", instance[c].tool, 0)]
          /\ pulse' = [pulse EXCEPT ![c] = "on"]
  /\ UNCHANGED <<world, leases, instance, picked, held, keyRow, touched>>

\* The heartbeat of the client while the upstream says nothing.
Heartbeat(c) ==
  /\ \/ pulse[c] = "on" /\ extStep[c] = "calling" /\ pulse' = [pulse EXCEPT ![c] = "sending"]
     \/ pulse[c] = "sending" /\ pulse' = [pulse EXCEPT ![c] = "on"]
  /\ UNCHANGED <<world, extStep, extAnswer, leases, instance, picked, held, keyRow, ran, touched>>

\* It answers, too much for the budget perhaps, reports an error, takes longer
\* than two minutes, or its process is gone.  stopHeartbeat waits for a heartbeat
\* under way.
UpstreamReturns(c) ==
  /\ ExtGoes(c, "calling", "returned")
  /\ \E a \in IF instance[c].state = "killed" THEN {"failed"} ELSE {"result", "failed"} : Says(c, a)
  /\ pulse[c] = "on" /\ pulse' = [pulse EXCEPT ![c] = "off"]
  /\ UNCHANGED <<world, leases, instance, picked, held, keyRow, ran, touched>>

\* The process is started under a context that ends 30 seconds later, whatever
\* the call is doing.
ConnectDeadline(c) ==
  /\ instance[c].state = "open" /\ ~EndOf(c) /\ deadlines < MaxDeadlines
  /\ instance' = [instance EXCEPT ![c].state = "killed"] /\ deadlines' = deadlines + 1
  /\ UNCHANGED <<extPlan, upstream, skillFiles, skillsOn, extChanges, extRestarts, extStep, extAnswer, leases, picked,
                 held, keyRow, ran, touched, pulse>>

(***************************************************************************)
(* Skills.                                                                 *)
(***************************************************************************)
\* LoadAll: where, in the order of the scan, there is the package.
Packages == {i \in DOMAIN SkillDirs : skillFiles[SkillDirs[i]].manifest # 0}

\* Find: of packages with one name the first that is scanned counts.
SkillDir ==
  IF Packages = {} THEN "none" ELSE SkillDirs[CHOOSE i \in Packages : \A j \in Packages : i <= j]

\* ResolveEntry and what is read there.
EntryOf(dir) == skillFiles[dir].entry

\* The manifest is read with the scan, the entry only for the revision.
LoadSkill(c) ==
  /\ extStep[c] = "load"
  /\ IF ~skillsOn THEN StopsWith(c, "disabled") /\ UNCHANGED <<picked, touched>>
     ELSE IF SkillDir = "none" THEN StopsWith(c, "not_found") /\ UNCHANGED <<picked, touched>>
     ELSE /\ picked' = [picked EXCEPT ![c] = Rev(SkillDir, skillFiles[SkillDir].manifest, 0)]
          /\ touched' = touched \ {c}
          /\ ExtGoes(c, "load", "revise") /\ UNCHANGED extAnswer
  /\ UNCHANGED <<world, leases, instance, held, keyRow, ran, pulse>>

\* skillDefinitionRevision: manifest, path and content of the entry.
SkillRevision(c) == [picked[c] EXCEPT !.entry = EntryOf(picked[c].dir)]

ReviseSkill(c) ==
  /\ extStep[c] = "revise"
  /\ picked' = [picked EXCEPT ![c] = SkillRevision(c)]
  /\ IF extPlan[c].ask = "call" THEN Preflighted(c, SkillRevision(c))
     ELSE ExtGoes(c, "revise", "lease") /\ UNCHANGED <<extAnswer, held>>
  /\ UNCHANGED <<world, leases, instance, keyRow, ran, touched, pulse>>

\* toolSkillExecute scans again; nothing is compared any more.
ReloadSkill(c) ==
  /\ extStep[c] = "ready" /\ extPlan[c].kind = "skill"
  /\ IF ~skillsOn \/ SkillDir = "none"
     THEN ExtGoes(c, "ready", "returned") /\ Says(c, "failed") /\ UNCHANGED ran
     ELSE /\ ExtGoes(c, "ready", "starting") /\ UNCHANGED extAnswer
          /\ ran' = [ran EXCEPT ![c] = Rev(SkillDir, skillFiles[SkillDir].manifest, 0)]
  /\ UNCHANGED <<world, leases, instance, picked, held, keyRow, touched, pulse>>

\* Execute: the entry, as it is now, is read or run.
RunSkill(c) ==
  /\ ExtGoes(c, "starting", "returned")
  /\ ran' = [ran EXCEPT ![c].entry = EntryOf(ran[c].dir)]
  /\ \E a \in {"result", "failed"} : Says(c, a)
  /\ UNCHANGED <<world, leases, instance, picked, held, keyRow, touched, pulse>>

(***************************************************************************)
(* Leases.                                                                 *)
(***************************************************************************)
\* upsertDiscoveryLease: one lease of a session and an object, the latest.
KeepLease(c) ==
  /\ ExtGoes(c, "lease", "close")
  /\ leases' = [leases EXCEPT ![Owner(c)] = picked[c]]
  /\ Says(c, "described")
  /\ UNCHANGED <<world, instance, picked, held, keyRow, ran, touched, pulse>>

(***************************************************************************)
(* The world outside, and restarts.                                        *)
(***************************************************************************)
\* Another release of the upstream program, or another configuration.
ChangeUpstream ==
  /\ extChanges < MaxExtChanges /\ extChanges' = extChanges + 1
  /\ \/ \E v \in 0..LastVersion : upstream' = [upstream EXCEPT !.tool = v]
     \/ \E s \in {"up", "disabled", "absent", "down"} : upstream' = [upstream EXCEPT !.state = s]
  /\ upstream' # upstream
  /\ UNCHANGED <<extPlan, skillFiles, skillsOn, extRestarts, deadlines, extStep, extAnswer, leases, instance, picked,
                 held, keyRow, ran, touched, pulse>>

\* Somebody installs, edits or removes a package, or turns skills off.
ChangeSkills ==
  /\ extChanges < MaxExtChanges /\ extChanges' = extChanges + 1
  /\ \/ \E d \in DirSet : UNCHANGED skillsOn /\
          \/ \E v \in 0..LastVersion : skillFiles' = [skillFiles EXCEPT ![d].manifest = v]
          \/ \E v \in 1..LastVersion : skillFiles' = [skillFiles EXCEPT ![d].entry = v]
     \/ skillsOn' = ~skillsOn /\ UNCHANGED skillFiles
  /\ <<skillFiles, skillsOn>>' # <<skillFiles, skillsOn>>
  /\ touched' = touched \cup {c \in ExtCalls : ~EndOf(c)}
  /\ UNCHANGED <<extPlan, upstream, extRestarts, deadlines, extStep, extAnswer, leases, instance, picked, held, keyRow,
                 ran, pulse>>

RestartServer ==
  /\ extRestarts < MaxExtRestarts /\ extRestarts' = extRestarts + 1
  /\ leases' = [o \in ExtSessions \X ExtensionKinds |-> NoRev]
  /\ extStep' = [c \in ExtCalls |-> IF extStep[c] \in {"out", "answered"} THEN extStep[c] ELSE "lost"]
  /\ instance' = [c \in ExtCalls |-> IF instance[c].state = "open" THEN [instance[c] EXCEPT !.state = "killed"]
                                     ELSE instance[c]]
  /\ pulse' = [c \in ExtCalls |-> "off"]
  /\ UNCHANGED <<extPlan, upstream, skillFiles, skillsOn, extChanges, deadlines, extAnswer, picked, held, keyRow, ran,
                 touched>>

ExtensionsNext ==
  \/ \E c \in ExtCalls :
       \/ ExtCallArrives(c) \/ ClaimExtKey(c) \/ EndExtWait(c) \/ RefuseExtCall(c) \/ CompleteExtCall(c)
       \/ CloseExtCall(c) \/ OpenClientSession(c) \/ ListUpstreamTools(c) \/ CallUpstream(c) \/ Heartbeat(c)
       \/ UpstreamReturns(c) \/ ConnectDeadline(c) \/ LoadSkill(c) \/ ReviseSkill(c) \/ ReloadSkill(c) \/ RunSkill(c)
       \/ KeepLease(c)
  \/ ChangeUpstream \/ ChangeSkills \/ RestartServer

ExtensionsSpec == ExtensionsInit /\ [][ExtensionsNext]_extVars

(***************************************************************************)
(* What is promised.                                                       *)
(***************************************************************************)
\* An upstream tool is carried out as its preflight found it, on the process whose
\* list was read: with arguments that fit it, and as the session was shown it, if
\* this server showed it (toolMCPCallOnSession after
\* preflightMCPToolCallOnSession).
UpstreamCalledAsChecked ==
  \A c \in ExtCalls : extPlan[c].kind = "mcp" /\ ran[c] # NoRev =>
    ran[c] = picked[c] /\ held[c] \in {NoRev, ran[c]} /\ ran[c].manifest \in extPlan[c].fits

\* A skill, too, unless somebody changed skills after the preflight looked
\* (preflightSkillToolCall, toolSkillExecute).
SkillRunAsChecked ==
  \A c \in ExtCalls : extPlan[c].kind = "skill" /\ extStep[c] # "starting" /\ ran[c].entry # 0 /\ c \notin touched =>
    ran[c] = picked[c] /\ held[c] \in {NoRev, ran[c]} /\ ran[c].manifest \in extPlan[c].fits

\* Under one key nothing is carried out twice, unless the call that began it died
\* (withCleanIdempotency: Claim before the preflight, Abandon only before the
\* handler).
CarriedOutOncePerKey ==
  \A c, d \in ExtCalls :
    c # d /\ Owner(c) = Owner(d) /\ extPlan[c].keyed /\ extPlan[d].keyed /\ ran[c] # NoRev /\ ran[d] # NoRev =>
      "lost" \in {extStep[c], extStep[d]}

\* A call answered from the record starts no process, and neither it nor a call
\* that is refused carries anything out; the key of a refused call is free again
\* (the comment of ensureClient, Abandon after the preflight).
AnsweredWithoutEffect ==
  \A c \in ExtCalls : extStep[c] = "answered" =>
    /\ extAnswer[c] \in Recorded => instance[c] = NoInstance /\ ran[c] = NoRev
    /\ extAnswer[c] \notin Recorded \cup {"result", "failed"} => ran[c] = NoRev
    /\ keyRow[Owner(c)].by = c => keyRow[Owner(c)].state \in {"succeeded", "failed"}

\* No process and no heartbeat outlives the call they are for (client.Close,
\* stopHeartbeat).
ProcessesEnd ==
  \A c \in ExtCalls :
    /\ instance[c].state = "open" => ~EndOf(c)
    /\ pulse[c] # "off" => extStep[c] = "calling"

ExtensionsHold ==
  UpstreamCalledAsChecked /\ SkillRunAsChecked /\ CarriedOutOncePerKey /\ AnsweredWithoutEffect /\ ProcessesEnd

\* Violated: an upstream call may take the two minutes of mcpCallTimeout (its
\* process is killed by the context of the connection after 30 seconds).
CallsMayTakeTheirTime ==
  \A c \in ExtCalls : extStep[c] = "calling" => instance[c].state = "open"
================================================================================
