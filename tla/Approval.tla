------------------------------- MODULE Approval -------------------------------
(***************************************************************************)
(* Confirmation of commands: the approval store (internal/approval/        *)
(* store.go) and its use by the execute tool (toolCommandExecute in        *)
(* internal/server/tools_command_execute.go) for commands whose policy is  *)
(* "confirm".                                                              *)
(*                                                                         *)
(* Approvals are rows of SQLite, which several processes may share, and    *)
(* entries of byID, a map of one process under its mutex.  Each call of    *)
(* the store is one critical section of its process; its prune, its        *)
(* queries and its update are one action, except that processes do not     *)
(* share the mutex: the look-up and the INSERT of PutPending are two.      *)
(*                                                                         *)
(* An approval is named by the call that creates it: a call creates one at *)
(* most.                                                                   *)
(***************************************************************************)
EXTENDS Integers, FiniteSets

CONSTANTS
  Procs,       \* processes that share the database
  Reqs,        \* calls of execute(action="run")
  Home,        \* the process that serves a call
  Commands,    \* digests of session, command, purpose and scope
  Command,     \* the digest of a call
  Confirmed,   \* calls that carry user_confirmed=true
  None,
  MaxOld,      \* bound: approvals that outlive pendingTTL (30 min)
  MaxCrashes,  \* bound: process crashes
  MaxFaults    \* bound: failing database statements

Answers == {"waiting", "executed", "state_error", "store_error", "lost"}

ASSUME ConstantsAssumption ==
  /\ Home \in [Reqs -> Procs] /\ Command \in [Reqs -> Commands]
  /\ Confirmed \subseteq Reqs /\ None \notin Reqs \cup Answers
  /\ MaxOld \in Nat /\ MaxCrashes \in Nat /\ MaxFaults \in Nat

RowStates == {"none", "pending", "consumed", "expired", "deleted"}
PC == {"idle", "put", "insert", "consume", "run", "done"}

VARIABLES
  row,     \* approvals.status
  old,     \* approvals created pendingTTL ago or earlier
  cache,   \* Store.byID
  owns,    \* the call that holds Store.mu between look-up and INSERT
  pc, found, answer,
  used,    \* executions an approval has authorized
  crashes, faults

calls == <<pc, found, answer>>
bounds == <<crashes, faults>>
vars == <<row, old, cache, owns, calls, used, bounds>>

TypeOK ==
  /\ row \in [Reqs -> RowStates] /\ old \subseteq Reqs
  /\ cache \in [Procs -> SUBSET Reqs]
  /\ owns \in [Procs -> Reqs \cup {None}]
  /\ pc \in [Reqs -> PC]
  /\ found \in [Reqs -> Reqs \cup {None}]
  /\ \A r \in Reqs : pc[r] \in {"consume", "run"} => found[r] \in Reqs
  /\ answer \in [Reqs -> Answers \cup {None}]
  /\ used \in [Reqs -> Nat]
  /\ crashes \in Nat /\ faults \in Nat

Init ==
  /\ row = [a \in Reqs |-> "none"] /\ old = {}
  /\ cache = [p \in Procs |-> {}]
  /\ owns = [p \in Procs |-> None]
  /\ pc = [r \in Reqs |-> "idle"]
  /\ found = [r \in Reqs |-> None]
  /\ answer = [r \in Reqs |-> None]
  /\ used = [a \in Reqs |-> 0]
  /\ crashes = 0 /\ faults = 0

-----------------------------------------------------------------------------
\* Helpers

Goto(r, l) == pc' = [pc EXCEPT ![r] = l]

\* The call returns; `a` is the approval its answer is about.
Answer(r, what, a) ==
  /\ Goto(r, "done")
  /\ answer' = [answer EXCEPT ![r] = what]
  /\ found' = [found EXCEPT ![r] = a]

Fault == faults < MaxFaults /\ faults' = faults + 1

\* Rows and cache after pruneLocked.
PrunedRow == [a \in Reqs |-> IF a \in old /\ row[a] = "pending" THEN "expired" ELSE row[a]]
PrunedCache(p) == cache[p] \ old

\* The rows `status = 'pending' AND expires_at > now`, of the command of r.
Live(r) == {a \in Reqs : row[a] = "pending" /\ a \notin old /\ Command[a] = Command[r]}

\* Store.mu of a process is free.
Free(p) == owns[p] = None

\* INSERT OR REPLACE: a pending row of the same session and content key, which
\* the unique index forbids beside the new one, is deleted.
Inserted(r) ==
  [a \in Reqs |-> IF a = r THEN "pending"
                  ELSE IF row[a] = "pending" /\ Command[a] = Command[r] THEN "deleted"
                  ELSE row[a]]

-----------------------------------------------------------------------------
\* Bugs the properties must notice: each replaces the definition of its name.

\* user_confirmed is believed without a pending approval.
FindConfirmed(r) ==
  LET p == Home[r] IN
  /\ pc[r] = "idle" /\ Free(p)
  /\ row' = PrunedRow
  /\ cache' = [cache EXCEPT ![p] = PrunedCache(p)]
  /\ \/ r \in Confirmed /\ Goto(r, "consume") /\ UNCHANGED <<found, answer>>
     \/ r \notin Confirmed /\ Goto(r, "put") /\ UNCHANGED <<found, answer>>
  /\ UNCHANGED <<old, owns, used, bounds>>

\* PutPending looks at byID alone.
DedupeCached(r) ==
  LET p == Home[r]
      cached == {a \in PrunedCache(p) : Command[a] = Command[r]}
  IN
  /\ pc[r] = "put" /\ Free(p)
  /\ row' = PrunedRow
  /\ cache' = [cache EXCEPT ![p] = PrunedCache(p)]
  /\ \/ /\ \E a \in cached : Answer(r, "waiting", a)
        /\ UNCHANGED owns
     \/ /\ cached = {}
        /\ owns' = [owns EXCEPT ![p] = r]
        /\ Goto(r, "insert") /\ UNCHANGED <<found, answer>>
  /\ UNCHANGED <<old, used, bounds>>

\* Consume does not look at the number of rows its UPDATE changed.
ConsumeUnchecked(r) ==
  LET p == Home[r] IN
  /\ pc[r] = "consume" /\ Free(p)
  /\ row' = [PrunedRow EXCEPT ![found[r]] = IF @ = "pending" THEN "consumed" ELSE @]
  /\ cache' = [cache EXCEPT ![p] = PrunedCache(p) \ {found[r]}]
  /\ Goto(r, "run")
  /\ UNCHANGED <<old, owns, found, answer, used, bounds>>

-----------------------------------------------------------------------------
\* The calls

\* pendingCommandConfirmation: ListRemoteSession, and what the call makes of it.
Find(r) ==
  LET p == Home[r] IN
  /\ pc[r] = "idle" /\ Free(p)
  /\ row' = PrunedRow
  /\ cache' = [cache EXCEPT ![p] = PrunedCache(p)]
  /\ \/ /\ Live(r) = {}
        /\ Goto(r, "put") /\ UNCHANGED <<found, answer>>
     \/ /\ r \in Confirmed
        /\ \E a \in Live(r) : found' = [found EXCEPT ![r] = a]
        /\ Goto(r, "consume") /\ UNCHANGED answer
     \/ /\ r \notin Confirmed
        /\ \E a \in Live(r) : Answer(r, "waiting", a)
  /\ UNCHANGED <<old, owns, used, bounds>>

\* The query of ListRemoteSession fails: the list is taken for empty.
FindNothing(r) ==
  /\ pc[r] = "idle" /\ Free(Home[r])
  /\ Fault
  /\ Goto(r, "put")
  /\ UNCHANGED <<row, old, cache, owns, found, answer, used, crashes>>

\* PutPending, look-up: byID first, then the rows.
Dedupe(r) ==
  LET p == Home[r]
      cached == {a \in PrunedCache(p) : Command[a] = Command[r]}
  IN
  /\ pc[r] = "put" /\ Free(p)
  /\ row' = PrunedRow
  /\ cache' = [cache EXCEPT ![p] = PrunedCache(p)]
  /\ \/ /\ \E a \in cached : Answer(r, "waiting", a)
        /\ UNCHANGED owns
     \/ /\ cached = {}
        /\ \E a \in Live(r) : Answer(r, "waiting", a)
        /\ UNCHANGED owns
     \/ /\ cached = {} /\ Live(r) = {}
        /\ owns' = [owns EXCEPT ![p] = r]
        /\ Goto(r, "insert") /\ UNCHANGED <<found, answer>>
  /\ UNCHANGED <<old, used, bounds>>

\* The same when the query fails: no row is taken for none.
DedupeNothing(r) ==
  LET p == Home[r] IN
  /\ pc[r] = "put" /\ Free(p)
  /\ Fault
  /\ \A a \in PrunedCache(p) : Command[a] # Command[r]
  /\ cache' = [cache EXCEPT ![p] = PrunedCache(p)]
  /\ owns' = [owns EXCEPT ![p] = r]
  /\ Goto(r, "insert")
  /\ UNCHANGED <<row, old, found, answer, used, crashes>>

\* PutPending, INSERT: the approval is stored, cached and shown.
Insert(r) ==
  LET p == Home[r] IN
  /\ pc[r] = "insert"
  /\ owns' = [owns EXCEPT ![p] = None]
  /\ \/ /\ row' = Inserted(r)
        /\ cache' = [cache EXCEPT ![p] = @ \cup {r}]
        /\ Answer(r, "waiting", r)
        /\ UNCHANGED faults
     \/ /\ Fault
        /\ Answer(r, "store_error", None)
        /\ UNCHANGED <<row, cache>>
  /\ UNCHANGED <<old, used, crashes>>

\* Consume: the UPDATE that changes one pending row authorizes the call.
Consume(r) ==
  LET p == Home[r]
      a == found[r]
  IN
  /\ pc[r] = "consume" /\ Free(p)
  /\ \/ /\ row[a] = "pending" /\ a \notin old
        /\ row' = [PrunedRow EXCEPT ![a] = "consumed"]
        /\ cache' = [cache EXCEPT ![p] = PrunedCache(p) \ {a}]
        /\ Goto(r, "run") /\ UNCHANGED <<found, answer, faults>>
     \/ /\ ~(row[a] = "pending" /\ a \notin old)
        /\ row' = PrunedRow
        /\ cache' = [cache EXCEPT ![p] = PrunedCache(p)]
        /\ Answer(r, "state_error", a)
        /\ UNCHANGED faults
     \/ /\ Fault
        /\ Answer(r, "state_error", a)
        /\ UNCHANGED <<row, cache>>
  /\ UNCHANGED <<old, owns, used, crashes>>

\* executeApproved: the command runs.
Run(r) ==
  LET a == found[r] IN
  /\ pc[r] = "run"
  /\ used' = [used EXCEPT ![a] = @ + 1]
  /\ Answer(r, "executed", a)
  /\ UNCHANGED <<row, old, cache, owns, bounds>>

-----------------------------------------------------------------------------
\* An approval reaches its TTL.
Age(a) ==
  /\ row[a] # "none" /\ a \notin old
  /\ Cardinality(old) < MaxOld
  /\ old' = old \cup {a}
  /\ UNCHANGED <<row, cache, owns, calls, used, bounds>>

\* Retention deletes the row of an approval that is over.
DeleteExpired(a) ==
  /\ a \in old /\ row[a] \notin {"none", "deleted"}
  /\ row' = [row EXCEPT ![a] = "deleted"]
  /\ UNCHANGED <<old, cache, owns, calls, used, bounds>>

\* A process dies with its calls and its map.
Crash(p) ==
  LET dead == {r \in Reqs : Home[r] = p /\ pc[r] \notin {"idle", "done"}} IN
  /\ crashes < MaxCrashes
  /\ crashes' = crashes + 1
  /\ cache' = [cache EXCEPT ![p] = {}]
  /\ owns' = [owns EXCEPT ![p] = None]
  /\ pc' = [r \in Reqs |-> IF r \in dead THEN "done" ELSE pc[r]]
  /\ answer' = [r \in Reqs |-> IF r \in dead THEN "lost" ELSE answer[r]]
  /\ UNCHANGED <<row, old, found, used, faults>>

CallStep(r) ==
  \/ Find(r) \/ FindNothing(r) \/ Dedupe(r) \/ DedupeNothing(r)
  \/ Insert(r) \/ Consume(r) \/ Run(r)

Next ==
  \/ \E r \in Reqs : CallStep(r) \/ Age(r) \/ DeleteExpired(r)
  \/ \E p \in Procs : Crash(p)

Spec == Init /\ [][Next]_vars

-----------------------------------------------------------------------------
\* Properties

\* The inductive form of OncePerApproval: whoever may run holds an approval
\* of its own, consumed and not yet used.
Reserved ==
  /\ \A r \in Reqs : pc[r] = "run" =>
       /\ row[found[r]] \in {"consumed", "deleted"}
       /\ used[found[r]] = 0
       /\ \A q \in Reqs : pc[q] = "run" /\ found[q] = found[r] => q = r
  /\ \A a \in Reqs : row[a] \in {"none", "pending"} => used[a] = 0
  /\ \A a \in Reqs : used[a] <= 1

\* An approval authorizes one execution, whatever the retries, processes,
\* crashes and failing statements (Consume before executeApproved).
OncePerApproval == \A a \in Reqs : used[a] <= 1

\* An execution rests on an approval of the very same session, command,
\* purpose and scope, and on a confirmed call.
ExecutesWhatWasShown ==
  \A r \in Reqs : answer[r] = "executed" =>
    r \in Confirmed /\ found[r] # r /\ Command[found[r]] = Command[r]

\* A command has at most one pending approval, even when two processes ask for
\* it at once: one confirmation cannot leave another approval behind that a
\* later call finds (findPendingLocked, INSERT OR REPLACE, the unique index).
OneLiveApproval ==
  \A a, b \in Reqs :
    row[a] = "pending" /\ row[b] = "pending" /\ Command[a] = Command[b] => a = b

\* No call replaces the approval another call of its process has shown, a restart
\* in between included: the row of an approval that has not expired is deleted by
\* another process at most.  It takes two failing queries of one call to do that.
NotReplaced ==
  faults' <= 1 =>
    \A a \in Reqs : row[a] = "pending" /\ a \notin old /\ row'[a] = "deleted" =>
      \E r \in Reqs : pc[r] = "insert" /\ pc'[r] = "done" /\ Home[r] # Home[a]

\* What the user is asked to confirm can be confirmed: as long as one process
\* serves the calls, the approval a call shows is pending in the database, or was
\* until it expired meanwhile.
ShownIsPending ==
  (\A q, r \in Reqs : pc'[q] # "idle" /\ pc'[r] # "idle" => Home[q] = Home[r]) =>
    \A r \in Reqs : answer[r] = None /\ answer'[r] = "waiting"
      => row'[found'[r]] = "pending" \/ found'[r] \in old'

\* What a confirmation authorizes: one execution, of what was shown, and no
\* other approval stays behind.
ApprovalsHold == OncePerApproval /\ ExecutesWhatWasShown /\ OneLiveApproval

\* What is shown can be confirmed when it is shown and stays so.
ShownCanBeConfirmed == [][ShownIsPending /\ NotReplaced]_vars
==============================================================================
