------------------------------- MODULE MCRuntime -------------------------------
(***************************************************************************)
(* Instances for TLC of what a session is made of and what runs in it:     *)
(* sessions and their connections, the Git identity of a run, terminal     *)
(* tasks, the observation pipeline, the housekeeping of their rows.  They  *)
(* share no variable, so a behaviour is about one of them, its subject,    *)
(* and the others stay as they are.                                        *)
(***************************************************************************)
EXTENDS RemoteSession, WorkspaceRun, Terminal, Observation, Retention

CONSTANTS t1, t2, t3, o1, o2, x1, u1, n1, n2, k0, k1, k2, c1, c2, c3

VARIABLE subject

Subjects == {"session", "run", "task", "step", "observation", "retention"}

\* Two opens with one key on two connections, a close and a command on the first.
SameKey == [c \in OpenCalls |-> "key"]
Conns == [c \in SessionCalls |-> IF c = o2 THEN n2 ELSE n1]

\* A chain of three commits; two commands of one transition and one ordinary one.
Chain == [k \in Commits |-> CASE k = k0 -> NoCommit [] k = k1 -> k0 [] k = k2 -> k1]
DepthInChain == [k \in Commits |-> CASE k = k0 -> 0 [] k = k1 -> 1 [] k = k2 -> 2]
ExpectedCommit == [c \in RunCommands |-> IF c = c3 THEN k1 ELSE k0]
CandidateCommit == [c \in RunCommands |-> IF c = c3 THEN k2 ELSE k1]
OneTransition == [c \in RunCommands |-> IF c = c3 THEN NoTransition ELSE "transition"]

\* Three chunks of output of the first task.
Output == [t \in Tasks |-> [s \in Streams |-> IF t = t1 THEN IF s = "stdout" THEN 2 ELSE 1 ELSE 0]]

\* A limited task; or the task of an operation step and one that finds the table full.
TasksOf(s) == CASE s = "task" -> {t1} [] s = "step" -> {t2, t3} [] OTHER -> {}

\* At most two troubles; the user's change comes before or after the sessions; rows
\* of tasks are made and age in order.
FewSessionTroubles ==
  /\ userChange' # userChange => sessionEvents = <<>>
  /\ sessionFaults' + sessionCrashes' <= 1
FewRunTroubles == foreignMoves' + runFaults' + runCrashes' <= 2
FewTaskTroubles == taskStep'[t3] \in {"idle", "admitted", "refused"}
RowsInOrder ==
  /\ \A r, o \in TaskRows : o < r => (rows'[r] # "none" => rows'[o] # "none") /\ (r \in aged' => o \in aged')
  /\ \A r \in TaskRows : rows'[r] # "failed"

RuntimeVars == <<sessionVars, runVars, taskVars, obsVars, retentionVars, subject>>

RuntimeInit ==
  /\ subject \in Subjects
  /\ SessionInit /\ RunInit /\ TaskInitOf(TasksOf(subject)) /\ ObsInit /\ RetentionInit
  /\ subject # "session" => ~userChange
  /\ subject # "retention" => current = {}

RuntimeNext ==
  /\ \/ subject = "session" /\ SessionNext /\ FewSessionTroubles
        /\ UNCHANGED <<runVars, taskVars, obsVars, retentionVars>>
     \/ subject = "run" /\ RunNext /\ FewRunTroubles
        /\ UNCHANGED <<sessionVars, taskVars, obsVars, retentionVars>>
     \/ subject \in {"task", "step"} /\ TaskNext /\ FewTaskTroubles
        /\ UNCHANGED <<sessionVars, runVars, obsVars, retentionVars>>
     \/ subject = "observation" /\ ObsNext
        /\ UNCHANGED <<sessionVars, runVars, taskVars, retentionVars>>
     \/ subject = "retention" /\ RetentionNext /\ RowsInOrder
        /\ UNCHANGED <<sessionVars, runVars, taskVars, obsVars>>
  /\ UNCHANGED subject

RuntimeSpec == RuntimeInit /\ [][RuntimeNext]_RuntimeVars

\* The type invariant of the subject.
RuntimeTypeOK ==
  CASE subject = "session" -> SessionTypeOK
    [] subject = "run" -> RunTypeOK
    [] subject \in {"task", "step"} -> TaskTypeOK
    [] subject = "observation" -> ObsTypeOK
    [] subject = "retention" -> RetentionTypeOK
================================================================================
