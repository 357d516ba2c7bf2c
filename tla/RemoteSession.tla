----------------------------- MODULE RemoteSession -----------------------------
(***************************************************************************)
(* Remote sessions: internal/remotesession/service.go, the session tool of *)
(* internal/server (tools_remote_session.go, tools_session_open.go), the   *)
(* environment snapshot and the Git baseline a new session gets            *)
(* (tools_environment.go, workspacechanges/service.go), and the bindings   *)
(* of connections to sessions (runtime_context.go).                        *)
(*                                                                         *)
(* One principal opens, uses and closes the sessions of one workspace.  A  *)
(* creation is one transaction on the only database connection, so it is   *)
(* one step; what a call does before and after it are steps of their own.  *)
(***************************************************************************)
EXTENDS Integers, Sequences, FiniteSets

CONSTANTS
  OpenCalls,          \* session open without an id: creates or replays
  OpenKey,            \* [OpenCalls -> key]: the client_request_id of each
  CloseCalls,         \* session close
  UseCalls,           \* commands without an id, in the session of the connection
  ConnOf,             \* the connection each call comes in on
  SessionIds,         \* ids, given in ascending order
  MaxSessionFaults,   \* bound: failing statements
  MaxSessionCrashes   \* bound: crashes

SessionCalls == OpenCalls \cup CloseCalls \cup UseCalls
OpenKeys == {OpenKey[c] : c \in OpenCalls}
Connections == {ConnOf[c] : c \in SessionCalls}
NoSession == 0

ASSUME SessionConstants ==
  /\ OpenCalls \cap CloseCalls = {} /\ UseCalls \cap (OpenCalls \cup CloseCalls) = {}
  /\ DOMAIN OpenKey = OpenCalls /\ DOMAIN ConnOf = SessionCalls
  /\ IsFiniteSet(OpenCalls) /\ SessionIds = 1..Cardinality(OpenCalls)
  /\ "none" \notin OpenKeys
  /\ MaxSessionFaults \in Nat /\ MaxSessionCrashes \in Nat

VARIABLES
  sessions,      \* remote_sessions: status, version, environment snapshot, baseline
  creation,      \* idempotency_records of remote_session_create, one per key
  sessionEvents, \* remote_session_events
  snapshots,     \* environment_snapshots: how many there are
  bindings,      \* sessionBindings
  running,       \* the sessions with a running task
  userChange,    \* the user has changed a file MCPX has not
  sessionAt,     \* what a call is about to do, and what it has read
  sessionAnswer, \* how a call has ended
  madeFor,       \* history: the key each session was created for
  changedBefore, \* history: sessions created when the user's change was there
  sessionFaults, sessionCrashes

sessionStore == <<sessions, creation, sessionEvents, snapshots>>
sessionHistory == <<madeFor, changedBefore>>
sessionBounds == <<sessionFaults, sessionCrashes>>
sessionVars == <<sessionStore, bindings, running, userChange, sessionAt, sessionAnswer, sessionHistory, sessionBounds>>

SessionTypeOK ==
  /\ sessions \in [SessionIds -> [status : {"none", "active", "closed", "archived"}, version : Nat,
                                  environment : Nat, baseline : {"none", "clean", "changed"}]]
  /\ creation \in [OpenKeys -> [session : SessionIds \cup {NoSession}, expired : BOOLEAN]]
  /\ sessionEvents \in Seq(SessionIds \X {"created", "updated", "command"}) /\ snapshots \in Nat
  /\ bindings \in [Connections -> SessionIds \cup {NoSession}]
  /\ running \subseteq SessionIds /\ changedBefore \subseteq SessionIds /\ userChange \in BOOLEAN
  /\ DOMAIN sessionAt = SessionCalls
  /\ \A c \in SessionCalls : sessionAt[c].session \in SessionIds \cup {NoSession}
  /\ \A c \in SessionCalls : sessionAnswer[c] \in {"none", "opened", "closed", "started", "refused", "conflict", "error", "lost"}
  /\ madeFor \in [SessionIds -> OpenKeys \cup {"none"}]
  /\ sessionFaults \in 0..MaxSessionFaults /\ sessionCrashes \in 0..MaxSessionCrashes

SessionInit ==
  /\ sessions = [s \in SessionIds |-> [status |-> "none", version |-> 0, environment |-> 0, baseline |-> "none"]]
  /\ creation = [k \in OpenKeys |-> [session |-> NoSession, expired |-> FALSE]]
  /\ sessionEvents = <<>> /\ snapshots = 0
  /\ bindings = [n \in Connections |-> NoSession]
  /\ running = {} /\ userChange \in BOOLEAN
  /\ sessionAt = [c \in SessionCalls |-> [step |-> "idle", session |-> NoSession, seen |-> 0, replayed |-> FALSE]]
  /\ sessionAnswer = [c \in SessionCalls |-> "none"]
  /\ madeFor = [s \in SessionIds |-> "none"] /\ changedBefore = {}
  /\ sessionFaults = 0 /\ sessionCrashes = 0

-----------------------------------------------------------------------------
\* Helpers

Exists(s) == s # NoSession /\ sessions[s].status # "none"
NextId == CHOOSE s \in SessionIds : ~Exists(s) /\ \A t \in SessionIds : t < s => Exists(t)

SessionFault == sessionFaults < MaxSessionFaults /\ sessionFaults' = sessionFaults + 1 /\ UNCHANGED sessionCrashes

SessionGo(c, step) == sessionAt' = [sessionAt EXCEPT ![c].step = step] /\ UNCHANGED sessionAnswer

SessionReply(c, answer) ==
  /\ sessionAt' = [sessionAt EXCEPT ![c].step = "done"]
  /\ sessionAnswer' = [sessionAnswer EXCEPT ![c] = answer]

\* AddEvent and insertEventTx append in the order of the transactions.
AddEvent(s, type) == sessionEvents' = Append(sessionEvents, <<s, type>>)

-----------------------------------------------------------------------------
\* toolSessionOpen without a session id: createRemoteSession

\* Create.  A record that has not expired is replayed; one that has expired
\* is not, yet its row is there and the INSERT of another one fails: the
\* whole creation is rolled back.
Create(c) ==
  LET record == creation[OpenKey[c]] IN
  /\ sessionAt[c].step = "idle"
  /\ \/ /\ record.session # NoSession /\ ~record.expired
        /\ sessionAt' = [sessionAt EXCEPT ![c] = [@ EXCEPT !.step = "environment", !.session = record.session, !.replayed = TRUE]]
        /\ UNCHANGED <<sessionStore, sessionHistory, sessionAnswer, sessionBounds>>
     \/ /\ record.session # NoSession /\ record.expired
        /\ SessionReply(c, "error") /\ UNCHANGED <<sessionStore, sessionHistory, sessionBounds>>
     \/ /\ record.session = NoSession
        /\ sessions' = [sessions EXCEPT ![NextId] = [@ EXCEPT !.status = "active", !.version = 1]]
        /\ creation' = [creation EXCEPT ![OpenKey[c]] = [session |-> NextId, expired |-> FALSE]]
        /\ AddEvent(NextId, "created")
        /\ madeFor' = [madeFor EXCEPT ![NextId] = OpenKey[c]]
        /\ changedBefore' = IF userChange THEN changedBefore \cup {NextId} ELSE changedBefore
        /\ sessionAt' = [sessionAt EXCEPT ![c] = [@ EXCEPT !.step = "environment", !.session = NextId]]
        /\ UNCHANGED <<snapshots, sessionAnswer, sessionBounds>>
     \/ SessionFault /\ SessionReply(c, "error") /\ UNCHANGED <<sessionStore, sessionHistory>>
  /\ UNCHANGED <<bindings, running, userChange>>

AfterEnvironment(c) == IF sessionAt[c].replayed THEN "bind" ELSE "baseline"

\* ensureSessionEnvironment: a session that has a snapshot keeps it; an error
\* goes to the audit log and the session is opened without one.
LookAtEnvironment(c) ==
  /\ sessionAt[c].step = "environment"
  /\ \/ SessionGo(c, IF sessions[sessionAt[c].session].environment = 0 THEN "snapshot" ELSE AfterEnvironment(c))
        /\ UNCHANGED sessionBounds
     \/ SessionFault /\ SessionGo(c, AfterEnvironment(c))
  /\ UNCHANGED <<sessionStore, bindings, running, userChange, sessionHistory>>

\* environment.Save
SaveSnapshot(c) ==
  /\ sessionAt[c].step = "snapshot"
  /\ \/ /\ snapshots' = snapshots + 1
        /\ sessionAt' = [sessionAt EXCEPT ![c].step = "set", ![c].seen = snapshots + 1]
        /\ UNCHANGED <<sessionAnswer, sessionBounds>>
     \/ SessionFault /\ SessionGo(c, AfterEnvironment(c)) /\ UNCHANGED snapshots
  /\ UNCHANGED <<sessions, creation, sessionEvents, bindings, running, userChange, sessionHistory>>

\* SetEnvironmentSnapshot: no version is compared, the last one wins.
SetEnvironment(c) ==
  LET s == sessionAt[c].session IN
  /\ sessionAt[c].step = "set"
  /\ \/ /\ sessions' = [sessions EXCEPT ![s] = [@ EXCEPT !.environment = sessionAt[c].seen, !.version = sessions[s].version + 1]]
        /\ UNCHANGED sessionBounds
     \/ SessionFault /\ UNCHANGED sessions
  /\ SessionGo(c, AfterEnvironment(c))
  /\ UNCHANGED <<creation, sessionEvents, snapshots, bindings, running, userChange, sessionHistory>>

\* CaptureBaseline: what is uncommitted now; an error goes to the audit log.
CaptureBaseline(c) ==
  /\ sessionAt[c].step = "baseline"
  /\ \/ /\ sessions' = [sessions EXCEPT ![sessionAt[c].session].baseline = IF userChange THEN "changed" ELSE "clean"]
        /\ UNCHANGED sessionBounds
     \/ SessionFault /\ UNCHANGED sessions
  /\ SessionGo(c, "bind")
  /\ UNCHANGED <<creation, sessionEvents, snapshots, bindings, running, userChange, sessionHistory>>

\* bindRemoteSession, then the answer
Bind(c) ==
  /\ sessionAt[c].step = "bind"
  /\ bindings' = [bindings EXCEPT ![ConnOf[c]] = sessionAt[c].session]
  /\ SessionReply(c, "opened")
  /\ UNCHANGED <<sessionStore, running, userChange, sessionHistory, sessionBounds>>

-----------------------------------------------------------------------------
\* toolRemoteSessionClose

\* A session with a running task is refused; an error of the list is not.
CheckTasks(c) ==
  /\ sessionAt[c].step = "idle"
  /\ \E s \in {t \in SessionIds : Exists(t)} :
       IF s \in running
       THEN SessionReply(c, "refused") /\ UNCHANGED sessionBounds
       ELSE /\ sessionAt' = [sessionAt EXCEPT ![c].step = "read", ![c].session = s]
            /\ UNCHANGED <<sessionAnswer, sessionBounds>>
  /\ UNCHANGED <<sessionStore, bindings, running, userChange, sessionHistory>>

\* Close reads the session, Update writes it if the version is still the same.
ReadVersion(c) ==
  /\ sessionAt[c].step = "read"
  /\ \/ /\ sessionAt' = [sessionAt EXCEPT ![c].step = "update", ![c].seen = sessions[sessionAt[c].session].version]
        /\ UNCHANGED <<sessionAnswer, sessionBounds>>
     \/ SessionFault /\ SessionReply(c, "error")
  /\ UNCHANGED <<sessionStore, bindings, running, userChange, sessionHistory>>

\* Update without the comparison of versions
UpdateAny(c) ==
  LET s == sessionAt[c].session IN
  /\ sessionAt[c].step = "update"
  /\ sessions' = [sessions EXCEPT ![s] = [@ EXCEPT !.status = "closed", !.version = sessions[s].version + 1]]
  /\ SessionGo(c, "event")
  /\ UNCHANGED <<creation, sessionEvents, snapshots, bindings, running, userChange, sessionHistory, sessionBounds>>

Update(c) ==
  LET s == sessionAt[c].session IN
  /\ sessionAt[c].step = "update"
  /\ \/ /\ sessions[s].version = sessionAt[c].seen
        /\ \E mode \in {"closed", "archived"} :
             sessions' = [sessions EXCEPT ![s] = [@ EXCEPT !.status = mode, !.version = sessions[s].version + 1]]
        /\ SessionGo(c, "event") /\ UNCHANGED sessionBounds
     \/ /\ sessions[s].version # sessionAt[c].seen
        /\ SessionReply(c, "conflict") /\ UNCHANGED <<sessions, sessionBounds>>
     \/ SessionFault /\ SessionReply(c, "error") /\ UNCHANGED sessions
  /\ UNCHANGED <<creation, sessionEvents, snapshots, bindings, running, userChange, sessionHistory>>

\* The event is best effort; the connection lets go of this session only.
Unbind(c) ==
  LET s == sessionAt[c].session
      n == ConnOf[c] IN
  /\ sessionAt[c].step = "event"
  /\ \/ AddEvent(s, "updated") /\ UNCHANGED sessionBounds
     \/ SessionFault /\ UNCHANGED sessionEvents
  /\ bindings' = IF bindings[n] = s THEN [bindings EXCEPT ![n] = NoSession] ELSE bindings
  /\ SessionReply(c, "closed")
  /\ UNCHANGED <<sessions, creation, snapshots, running, userChange, sessionHistory>>

-----------------------------------------------------------------------------
\* A command in the session of the connection: changeRequest looks the session
\* up, not at its status, and the task starts later.

Resolve(c) ==
  /\ sessionAt[c].step = "idle"
  /\ IF bindings[ConnOf[c]] = NoSession
     THEN SessionReply(c, "refused")
     ELSE sessionAt' = [sessionAt EXCEPT ![c].step = "start", ![c].session = bindings[ConnOf[c]]] /\ UNCHANGED sessionAnswer
  /\ UNCHANGED <<sessionStore, bindings, running, userChange, sessionHistory, sessionBounds>>

StartCommand(c) ==
  LET s == sessionAt[c].session IN
  /\ sessionAt[c].step = "start"
  /\ running' = running \cup {s}
  /\ \/ AddEvent(s, "command") /\ UNCHANGED sessionBounds
     \/ SessionFault /\ UNCHANGED sessionEvents
  /\ SessionReply(c, "started")
  /\ UNCHANGED <<sessions, creation, snapshots, bindings, userChange, sessionHistory>>

-----------------------------------------------------------------------------
\* The world: tasks end, records expire and are deleted (retention), the user
\* changes a file, the server restarts.

CommandEnds(s) ==
  /\ s \in running /\ running' = running \ {s}
  /\ UNCHANGED <<sessionStore, bindings, userChange, sessionAt, sessionAnswer, sessionHistory, sessionBounds>>

RecordExpires(k) ==
  /\ creation[k].session # NoSession /\ ~creation[k].expired
  /\ creation' = [creation EXCEPT ![k].expired = TRUE]
  /\ UNCHANGED <<sessions, sessionEvents, snapshots, bindings, running, userChange, sessionAt, sessionAnswer, sessionHistory, sessionBounds>>

DeleteRecord(k) ==
  /\ creation[k].expired
  /\ creation' = [creation EXCEPT ![k] = [session |-> NoSession, expired |-> FALSE]]
  /\ UNCHANGED <<sessions, sessionEvents, snapshots, bindings, running, userChange, sessionAt, sessionAnswer, sessionHistory, sessionBounds>>

UserChanges ==
  /\ ~userChange /\ userChange' = TRUE
  /\ UNCHANGED <<sessionStore, bindings, running, sessionAt, sessionAnswer, sessionHistory, sessionBounds>>

SessionCrash ==
  /\ sessionCrashes < MaxSessionCrashes /\ sessionCrashes' = sessionCrashes + 1
  /\ bindings' = [n \in Connections |-> NoSession] /\ running' = {}
  /\ sessionAt' = [c \in SessionCalls |-> IF sessionAt[c].step = "idle" THEN sessionAt[c] ELSE [sessionAt[c] EXCEPT !.step = "done"]]
  /\ sessionAnswer' = [c \in SessionCalls |-> IF sessionAt[c].step \in {"idle", "done"} THEN sessionAnswer[c] ELSE "lost"]
  /\ UNCHANGED <<sessionStore, userChange, sessionHistory, sessionFaults>>

OpenStep(c) == Create(c) \/ LookAtEnvironment(c) \/ SaveSnapshot(c) \/ SetEnvironment(c) \/ CaptureBaseline(c) \/ Bind(c)
CloseStep(c) == CheckTasks(c) \/ ReadVersion(c) \/ Update(c) \/ Unbind(c)
UseStep(c) == Resolve(c) \/ StartCommand(c)

SessionNext ==
  \/ \E c \in OpenCalls : OpenStep(c)
  \/ \E c \in CloseCalls : CloseStep(c)
  \/ \E c \in UseCalls : UseStep(c)
  \/ \E s \in SessionIds : CommandEnds(s)
  \/ \E k \in OpenKeys : RecordExpires(k) \/ DeleteRecord(k)
  \/ UserChanges
  \/ SessionCrash

SessionSpec == SessionInit /\ [][SessionNext]_sessionVars

-----------------------------------------------------------------------------
\* Properties

\* A retry finds the session of the first attempt: while a record is there,
\* whoever was opened under its key after it was made got its session, however
\* the attempts interleaved and whichever of them died (Create).
RepliesAgree ==
  \A k \in OpenKeys : creation[k].session # NoSession =>
    /\ madeFor[creation[k].session] = k
    /\ \A s \in SessionIds : madeFor[s] = k => s <= creation[k].session

\* Every session is found under one key and has one creation event, its first.
CreatedOnce ==
  \A s \in SessionIds :
    LET mine == {i \in DOMAIN sessionEvents : sessionEvents[i][1] = s}
        made == {i \in mine : sessionEvents[i][2] = "created"}
    IN IF Exists(s) THEN \E i \in made : made = {i} /\ \A j \in mine : i <= j ELSE mine = {}

\* A session that does not exist is bound to no connection and has no task, and
\* every environment and baseline belongs to a session that was created.
NothingWithoutSession ==
  /\ \A n \in Connections : bindings[n] # NoSession => Exists(bindings[n])
  /\ \A s \in SessionIds : ~Exists(s) => s \notin running /\ sessions[s].environment = 0

SessionsHold == RepliesAgree /\ CreatedOnce /\ NothingWithoutSession

\* A session is closed only by a call that has read its current version, stays
\* closed, and never goes back to an earlier version: a snapshot that is set
\* while a close is on its way makes the close fail, not the other way round.
ClosedByItsReader ==
  \A s \in SessionIds :
    /\ sessions'[s].version >= sessions[s].version
    /\ sessions[s].status \in {"closed", "archived"} => sessions'[s].status \in {"closed", "archived"}
    /\ sessions'[s].status \notin {sessions[s].status, "active"} =>
         \E c \in CloseCalls : /\ sessionAt[c].step = "update" /\ sessionAt[c].session = s
                               /\ sessionAt[c].seen = sessions[s].version

\* A closed session has no running task ("task must be stopped before closing",
\* tools_remote_session.go).  It does not hold: the tasks are looked at before
\* the session is closed, and no command looks at its status.
ClosedIsQuiet == \A s \in running : sessions[s].status = "active"

\* An opened session knows what was uncommitted when it was created
\* ("CaptureBaseline records files already dirty when a Remote Session
\* starts").  It does not hold: a replay does not take the baseline of a
\* session whose creator died before it did.
BaselineKnown ==
  \A c \in OpenCalls : sessionAnswer[c] = "opened" /\ sessionFaults = 0 /\ sessionAt[c].session \in changedBefore
    => sessions[sessionAt[c].session].baseline = "changed"


\* Sessions are found again by those who opened them and closed by those who have
\* seen their last state.
SessionsKept == [][SessionsHold' /\ ClosedByItsReader]_sessionVars
=============================================================================
