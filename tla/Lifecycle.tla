------------------------------- MODULE Lifecycle -------------------------------
(***************************************************************************)
(* Servers that start on one home: internal/server/runtime.go (New, Start, *)
(* Close), internal/state (Open, applyMigrations), the sweeps of           *)
(* internal/terminal and internal/operation over what a dead server left   *)
(* running, and internal/observation (listenObserverSocket, the start and  *)
(* the end of the SocketServer).                                           *)
(*                                                                         *)
(* A server opens the database and brings its schema up to date one        *)
(* migration at a time, marks everything that runs as interrupted, then    *)
(* takes the observer socket and the port.  What keeps two servers apart   *)
(* is the socket and the port only, and both come last.  Nothing handles   *)
(* the signal that ends a server: it stops like in a crash, and its Close  *)
(* runs when it cannot serve.                                              *)
(***************************************************************************)
EXTENDS Naturals, FiniteSets

CONSTANTS
  Servers,
  LastMigration,     \* how many migrations the program has
  OnceOnly,          \* the migrations whose statements fail when they are executed again
  NoServer,
  MaxStarts,         \* bound: starts of servers
  MaxStartFaults     \* bound: steps that fail though nothing is wrong

Migrations == 1..LastMigration

ASSUME LifecycleAssumption ==
  /\ LastMigration \in Nat \ {0}
  /\ OnceOnly \subseteq Migrations
  /\ NoServer \notin Servers
  /\ MaxStarts \in Nat /\ MaxStartFaults \in Nat

VARIABLES
  stage,        \* where each server is in its life
  migration,    \* the migration it is at
  schema,       \* how often the statements of a migration took effect, and which are recorded
  socket,       \* the server that made the file of the socket, or none
  port,         \* the server that has the port
  running,      \* the servers whose tasks, and whose operations, the database calls running
  starts, startFaults,
  robbed,       \* history: servers whose work was marked interrupted while they lived
  alongside,    \* history: two servers lived at one time since one last did
  together      \* history: two of them were on their way up or down at one time

lifecycleVars == <<stage, migration, schema, socket, port, running, starts, startFaults, robbed, alongside, together>>

Stages == {"down", "prepare", "check", "apply", "sweep_tasks", "sweep_operations", "look", "remove", "listen", "bind",
           "serving", "unlink", "remove_file", "close"}
WorkKinds == {"task", "operation"}

Alive(now) == {s \in Servers : now[s] # "down"}
InPassing(now) == {s \in Servers : now[s] \notin {"down", "serving"}}

Enters(s, to) ==
  /\ stage' = [stage EXCEPT ![s] = to]
  /\ alongside' = (Alive(stage') # {} /\ (alongside \/ Cardinality(Alive(stage')) > 1))
  /\ together' = (Alive(stage') # {} /\ (together \/ Cardinality(InPassing(stage')) > 1))

history == <<robbed, alongside, together>>
startBounds == <<starts, startFaults>>

----------------------------------------------------------------------------
(* The schema. *)

\* The statements and the record of a migration are one transaction.
ApplyMigration(v) ==
  schema' = [effects |-> [schema.effects EXCEPT ![v] = IF v \in schema.recorded THEN @ ELSE @ + 1],
             recorded |-> schema.recorded \cup {v}]

\* Tables are made when they do not exist; a column that is added, a table that
\* is filled and a trigger fail the second time, and the record fails in any case.
MigrationFails(v) == (v \in OnceOnly /\ schema.effects[v] > 0) \/ v \in schema.recorded

----------------------------------------------------------------------------
(* New. *)

LifecycleInit ==
  /\ stage = [s \in Servers |-> "down"]
  /\ migration = [s \in Servers |-> 1]
  /\ schema = [effects |-> [v \in Migrations |-> 0], recorded |-> {}]
  /\ socket = NoServer /\ port = NoServer
  /\ running = [k \in WorkKinds |-> {}]
  /\ starts = 0 /\ startFaults = 0
  /\ robbed = {} /\ alongside = FALSE /\ together = FALSE

StartServer(s) ==
  /\ stage[s] = "down" /\ starts < MaxStarts
  /\ Enters(s, "prepare")
  /\ starts' = starts + 1
  /\ migration' = [migration EXCEPT ![s] = 1]
  /\ UNCHANGED <<schema, socket, port, running, startFaults, robbed>>

\* A step before the server has anything to close ends the program.
StartFails(s, at) ==
  /\ stage[s] = at /\ startFaults < MaxStartFaults
  /\ Enters(s, "down")
  /\ startFaults' = startFaults + 1
  /\ UNCHANGED <<migration, schema, socket, port, running, starts, robbed>>

\* The configuration, the workspaces, the audit log, the credentials of OAuth.
Prepare(s) ==
  /\ stage[s] = "prepare"
  /\ Enters(s, "check")
  /\ UNCHANGED <<migration, schema, socket, port, running, startBounds, robbed>>

\* The migration is looked up before its transaction begins.
CheckMigration(s) ==
  LET v == migration[s]
  IN /\ stage[s] = "check"
     /\ \/ v > LastMigration /\ Enters(s, "sweep_tasks") /\ UNCHANGED migration
        \/ v <= LastMigration /\ v \in schema.recorded
             /\ migration' = [migration EXCEPT ![s] = v + 1] /\ Enters(s, "check")
        \/ v <= LastMigration /\ v \notin schema.recorded /\ Enters(s, "apply") /\ UNCHANGED migration
     /\ UNCHANGED <<schema, socket, port, running, startBounds, robbed>>

\* Another server may have applied it in between: the start fails.
Migrate(s) ==
  LET v == migration[s]
  IN /\ stage[s] = "apply"
     /\ \/ /\ ~MigrationFails(v)
           /\ ApplyMigration(v)
           /\ migration' = [migration EXCEPT ![s] = v + 1]
           /\ Enters(s, "check")
        \/ MigrationFails(v) /\ Enters(s, "down") /\ UNCHANGED <<schema, migration>>
     /\ UNCHANGED <<socket, port, running, startBounds, robbed>>

\* Every task that is not finished becomes interrupted, whoever runs it; then,
\* in a transaction of its own, every operation.
Sweep(s, at, kind, to) ==
  /\ stage[s] = at
  /\ running' = [running EXCEPT ![kind] = {}]
  /\ robbed' = robbed \cup (running[kind] \cap Alive(stage))
  /\ Enters(s, to)
  /\ UNCHANGED <<migration, schema, socket, port, startBounds>>

SweepTasks(s) == Sweep(s, "sweep_tasks", "task", "sweep_operations")
SweepOperations(s) == Sweep(s, "sweep_operations", "operation", "look")

----------------------------------------------------------------------------
(* Start. *)

\* The listener behind the file is open from the moment it is made until its
\* server closes it or ends.
SocketAnswers == socket # NoServer /\ stage[socket] \in {"bind", "serving"}

\* A file that answers belongs to another server; one that does not is stale.
LookAtSocket(s) ==
  /\ stage[s] = "look"
  /\ Enters(s, IF socket = NoServer THEN "listen" ELSE IF SocketAnswers THEN "close" ELSE "remove")
  /\ UNCHANGED <<migration, schema, socket, port, running, startBounds, robbed>>

\* Whatever file is there by now is removed; none is an error.
RemoveStale(s) ==
  /\ stage[s] = "remove"
  /\ Enters(s, IF socket = NoServer THEN "close" ELSE "listen")
  /\ socket' = NoServer
  /\ UNCHANGED <<migration, schema, port, running, startBounds, robbed>>

ListenOnSocket(s) ==
  /\ stage[s] = "listen"
  /\ \/ socket = NoServer /\ socket' = s /\ Enters(s, "bind")
     \/ socket # NoServer /\ UNCHANGED socket /\ Enters(s, "close")
  /\ UNCHANGED <<migration, schema, port, running, startBounds, robbed>>

\* The port comes last; without it Start returns and Close runs.
BindPort(s) ==
  /\ stage[s] = "bind"
  /\ \/ port = NoServer /\ port' = s /\ Enters(s, "serving")
     \/ port # NoServer /\ UNCHANGED port /\ Enters(s, "unlink")
  /\ UNCHANGED <<migration, schema, socket, running, startBounds, robbed>>

\* A command or an operation is accepted.
AcceptWork(s) ==
  /\ stage[s] = "serving"
  /\ \E k \in WorkKinds : s \notin running[k] /\ running' = [running EXCEPT ![k] = @ \cup {s}]
  /\ UNCHANGED <<stage, migration, schema, socket, port, startBounds, history>>

----------------------------------------------------------------------------
(* Close. *)

\* Closing a listener removes the file at its path, and the server removes it
\* once more: neither looks whose file it is.
CloseListener(s) ==
  /\ \/ stage[s] = "unlink" /\ Enters(s, "remove_file")
     \/ stage[s] = "remove_file" /\ Enters(s, "down")
  /\ socket' = NoServer
  /\ UNCHANGED <<migration, schema, port, running, startBounds, robbed>>

\* The file is removed also by a server that never listened.
CloseAndRemove(s) ==
  /\ stage[s] = "close"
  /\ Enters(s, "down")
  /\ socket' = NoServer
  /\ UNCHANGED <<migration, schema, port, running, startBounds, robbed>>

\* A server that never listened leaves the file alone.
CloseServer(s) ==
  /\ stage[s] = "close"
  /\ Enters(s, "down")
  /\ UNCHANGED <<migration, schema, socket, port, running, startBounds, robbed>>

\* A signal or a crash ends a server at any step.  Its listener and its port
\* are gone with it; the file, the rows and the schema stay.
ServerEnds(s) ==
  /\ stage[s] # "down"
  /\ Enters(s, "down")
  /\ port' = IF port = s THEN NoServer ELSE port
  /\ UNCHANGED <<migration, schema, socket, running, startBounds, robbed>>

LifecycleNext ==
  \E s \in Servers :
    \/ StartServer(s) \/ Prepare(s) \/ CheckMigration(s) \/ Migrate(s)
    \/ \E at \in {"prepare", "check", "apply", "sweep_tasks", "sweep_operations"} : StartFails(s, at)
    \/ SweepTasks(s) \/ SweepOperations(s)
    \/ LookAtSocket(s) \/ RemoveStale(s) \/ ListenOnSocket(s) \/ BindPort(s) \/ AcceptWork(s)
    \/ CloseListener(s) \/ CloseServer(s) \/ ServerEnds(s)

LifecycleSpec == LifecycleInit /\ [][LifecycleNext]_lifecycleVars

----------------------------------------------------------------------------
(* Properties. *)

LifecycleTypeOK ==
  /\ stage \in [Servers -> Stages]
  /\ migration \in [Servers -> 1..(LastMigration + 1)]
  /\ schema \in [effects : [Migrations -> Nat], recorded : SUBSET Migrations]
  /\ socket \in Servers \cup {NoServer} /\ port \in Servers \cup {NoServer}
  /\ running \in [WorkKinds -> SUBSET Servers] /\ robbed \subseteq Servers
  /\ starts \in 0..MaxStarts /\ startFaults \in 0..MaxStartFaults
  /\ alongside \in BOOLEAN /\ together \in BOOLEAN

ServingServers == {s \in Servers : stage[s] = "serving"}

\* Whatever servers migrate at once and wherever they stop, the statements of
\* each migration take effect once, in order, and exactly when it is recorded.
SchemaIsWhole ==
  /\ \A v \in Migrations : schema.effects[v] = IF v \in schema.recorded THEN 1 ELSE 0
  /\ \A v \in schema.recorded : 1..v \subseteq schema.recorded

\* No server touches a row, or serves, before the schema is complete.
ServesTheWholeSchema ==
  \A s \in Servers : stage[s] \notin {"down", "prepare", "check", "apply"} => schema.recorded = Migrations

\* A server that lives alone comes up, whatever the ones before it left behind:
\* a part of the migrations, a stale file, work called running.
AloneComesUp ==
  ~alongside => \A s \in Servers :
    /\ stage[s] \notin {"close", "unlink", "remove_file"}
    /\ stage[s] = "apply" => ~MigrationFails(migration[s])

\* The socket of a serving server stays its own: those that start meanwhile
\* find it taken and leave it, unless two start or close at one time.
SocketIsKept == ~together => \A s \in ServingServers : socket = s

\* What the database calls running is run by the server that serves, unless two
\* servers lived at one time.
RunningIsRun == (~alongside /\ ServingServers # {}) => \A k \in WorkKinds : running[k] \subseteq ServingServers

LifecycleHolds == SchemaIsWhole /\ ServesTheWholeSchema /\ AloneComesUp /\ SocketIsKept /\ RunningIsRun

\* Violated: only the work of servers that are gone is marked interrupted.  A
\* second server marks the work of the first before it finds that the socket or
\* the port is taken.
LiveWorkIsKept == robbed = {}

\* Violated: a serving server keeps its socket whatever else starts.  Of two
\* servers that both found a stale file, the second removes the first's new one.
SocketIsAlwaysKept == \A s \in ServingServers : socket = s
================================================================================
