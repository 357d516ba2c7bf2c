------------------------------- MODULE MCServing -------------------------------
(***************************************************************************)
(* Instances for TLC of what must happen in the end: calls with a key are  *)
(* answered, tasks that were stopped are done, observers catch up, what is *)
(* out of date is collected.  A behaviour is about one of them, its        *)
(* subject, and the others stay as they are; the fairness of each is that  *)
(* of its own module, for its own steps.                                   *)
(***************************************************************************)
EXTENDS Idempotency, Terminal, Observation, Retention

CONSTANTS p1, r1, r2, r3, f1, f2, t1

VARIABLES
  subject,
  stranded   \* history: owners whose done channel nobody is to close

Subjects == {"key", "task", "observation", "retention"}

\* Three calls of one process, the third with other parameters.
OneProc == [r \in Reqs |-> p1]
OneDiffers == [r \in Reqs |-> IF r = r3 THEN f2 ELSE f1]

\* The owner ends with its flight registered, because it panics or because the
\* DELETE of Abandon fails or matches nothing; or its flight is replaced.
Strands(r) ==
  \/ CallPanics(r)
  \/ pc[r] = "abandon" /\ pc'[r] = "done" /\ UNCHANGED rec
  \/ flight[Home[r]] = r /\ flight'[Home[r]] \notin {r, None}

\* Three chunks of output.
Output == [t \in Tasks |-> [s \in Streams |-> IF s = "stdout" THEN 2 ELSE 1]]

\* Rows of tasks are made and age in order, and succeed but for the last.
RowsInOrder ==
  /\ \A r, o \in TaskRows : o < r => (rows'[r] # "none" => rows'[o] # "none") /\ (r \in aged' => o \in aged')
  /\ \A r \in Rows \ {3} : rows'[r] # "failed"

ServingVars == <<vars, stranded, taskVars, obsVars, retentionVars, subject>>

ServingInit ==
  /\ subject \in Subjects
  /\ Init /\ stranded = {} /\ TaskInitOf(IF subject = "task" THEN Tasks ELSE {}) /\ ObsInit /\ RetentionInit

ServingNext ==
  /\ \/ subject = "key" /\ Next /\ UNCHANGED <<taskVars, obsVars, retentionVars>>
     \/ subject = "task" /\ TaskNext /\ UNCHANGED <<vars, obsVars, retentionVars>>
     \/ subject = "observation" /\ ObsNext /\ UNCHANGED <<vars, taskVars, retentionVars>>
     \/ subject = "retention" /\ RetentionNext /\ RowsInOrder /\ UNCHANGED <<vars, taskVars, obsVars>>
  /\ stranded' = stranded \cup {r \in Reqs : Strands(r)}
  /\ UNCHANGED subject

\* Fairness of Idempotency, TaskFairness, ObsFairness and RetentionFairness, each
\* for the behaviours about its component.
ServingFairness ==
  /\ \A r \in Reqs : WF_vars(subject = "key" /\ CallStep(r))
  /\ \A t \in Tasks :
       /\ WF_taskVars(subject = "task" /\ TaskEnding(t))
       /\ \A p \in Processes : WF_taskVars(subject = "task" /\ p \in doomed[t] /\ ProcessDies(t, p))
  /\ WF_obsVars(subject = "observation" /\ ObsServing)
  /\ WF_obsVars(subject = "observation" /\ Connect)
  /\ WF_obsVars(subject = "observation" /\ ReadFrame)
  /\ WF_obsVars(subject = "observation" /\ SendEvent)
  /\ WF_obsVars(subject = "observation" /\ SendGap)
  /\ WF_retentionVars(subject = "retention" /\ PassStep)

ServingSpec == ServingInit /\ [][ServingNext]_ServingVars
ServingFairSpec == ServingSpec /\ ServingFairness

-----------------------------------------------------------------------------
\* Properties

\* Every call is answered: each path of an owner that is none of the three of
\* Strands, failing statements of Complete and MarkInDoubt included, closes the
\* very channel that the others wait on (finishFlight, the deferred function of
\* MarkInDoubt).  Who waits for a stranded owner waits until its client gives up.
EveryCallAnswered ==
  \A r \in Reqs : pc[r] # "idle" ~> pc[r] = "done" \/ (pc[r] = "waiting" /\ waitOn[r] \in stranded \ closed)

\* "the pending placeholder is abandoned so a retry is not blocked by a stale
\* pending state" (clean_idempotency.go:204): who waits for a call that the
\* preflight rejects is let go.  Not so: another claimant inserts its row between
\* Abandon's DELETE and finishFlight, and replaces the flight they wait on.
RetryNotBlocked ==
  \A r, q \in Reqs : (pc[q] = "waiting" /\ waitOn[q] = r /\ answer[r] = "rejected") ~> pc[q] # "waiting"
================================================================================
