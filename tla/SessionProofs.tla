---------------------------- MODULE SessionProofs ----------------------------
(***************************************************************************)
(* Sessions and their observers, for any number of calls, connections,     *)
(* events and crashes, and every capacity: what stays of a session while   *)
(* it is opened, used and closed (RemoteSession), and what an observer is  *)
(* shown of its events (Observation).                                      *)
(*                                                                         *)
(* SessionsKept is about single steps; SessionInv says which sessions      *)
(* there can be, and what a call between two of its steps has seen of its  *)
(* own.                                                                    *)
(*                                                                         *)
(* ObserverServed says nothing of what is under way. ObsInv follows every  *)
(* event from the table over the buffer and the wire to the client: none   *)
(* is skipped without an excuse on any of them, and what the connection    *)
(* counts as sent is on the wire.                                          *)
(*                                                                         *)
(* The last part is about the calls of a session at the edge of the server *)
(* (Calls): CallsInv says which turns the agent has begun, and how what is *)
(* published goes on in what is accepted and not published yet.            *)
(***************************************************************************)
EXTENDS RemoteSession, Observation, Calls, FiniteSetTheorems, SequenceTheorems, TLAPS

-----------------------------------------------------------------------------
(* Sessions: SessionInv is inductive. *)

SessionRows == [status : {"none", "active", "closed", "archived"}, version : Nat, environment : Nat,
                baseline : {"none", "clean", "changed"}]
SessionSteps == {"idle", "environment", "snapshot", "set", "baseline", "bind", "read", "update", "event", "start", "done"}
SessionAts == [step : SessionSteps, session : SessionIds \cup {NoSession}, seen : Nat, replayed : BOOLEAN]
SessionAnswers == {"none", "opened", "closed", "started", "refused", "conflict", "error", "lost"}

\* The calls that may have created a session.
Begun == {c \in OpenCalls : sessionAt[c].step # "idle"}

\* The sessions there are have the first ids, and are no more than the calls that
\* may have created one.
IdsInOrder == \E n \in 0..Cardinality(Begun) : \A s \in SessionIds : Exists(s) <=> s <= n

\* A call that works on a session works on one that exists.
KnownSessions ==
  \A c \in SessionCalls :
    /\ sessionAt[c].step \notin {"idle", "done"} => sessionAt[c].session # NoSession
    /\ sessionAt[c].session # NoSession => Exists(sessionAt[c].session)

SessionInv ==
  /\ SessionTypeOK /\ sessionAt \in [SessionCalls -> SessionAts] /\ sessionAnswer \in [SessionCalls -> SessionAnswers]
  /\ SessionsHold /\ IdsInOrder /\ KnownSessions
  /\ \A s \in SessionIds : ~Exists(s) => madeFor[s] = "none" /\ sessions[s].version = 0

\* A step that creates no session: those there are stay, and whatever it changes
\* is of one of them.
CreatesNothing ==
  /\ sessions' \in [SessionIds -> SessionRows] /\ snapshots' \in Nat
  /\ \A s \in SessionIds : (sessions'[s].status = "none" <=> sessions[s].status = "none")
                           /\ (~Exists(s) => sessions'[s] = sessions[s])
  /\ creation' \in [OpenKeys -> [session : SessionIds \cup {NoSession}, expired : BOOLEAN]]
  /\ \A k \in OpenKeys : creation'[k].session \in {creation[k].session, NoSession}
  /\ \/ sessionEvents' = sessionEvents
     \/ \E s \in SessionIds, type \in {"updated", "command"} : Exists(s) /\ AddEvent(s, type)
  /\ bindings' \in [Connections -> SessionIds \cup {NoSession}]
  /\ \A n \in Connections : bindings'[n] # NoSession => Exists(bindings'[n])
  /\ running' \subseteq SessionIds /\ \A s \in running' : Exists(s)
  /\ userChange' \in BOOLEAN /\ UNCHANGED sessionHistory
  /\ sessionFaults' \in 0..MaxSessionFaults /\ sessionCrashes' \in 0..MaxSessionCrashes

\* What the calls do then: none begins anew, each works on a session there is.
CallsGoOn ==
  /\ sessionAt' \in [SessionCalls -> SessionAts] /\ sessionAnswer' \in [SessionCalls -> SessionAnswers]
  /\ \A c \in SessionCalls :
       /\ sessionAt[c].step # "idle" => sessionAt'[c].step # "idle"
       /\ sessionAt'[c].step \notin {"idle", "done"} => sessionAt'[c].session # NoSession
       /\ sessionAt'[c].session # NoSession => Exists(sessionAt'[c].session)

LEMMA EventsStay ==
  ASSUME SessionInv, CreatesNothing
  PROVE  CreatedOnce' /\ sessionEvents' \in Seq(SessionIds \X {"created", "updated", "command"})
<1>1. \A s \in SessionIds : Exists(s)' <=> Exists(s)
  BY DEF CreatesNothing, Exists
<1>2. sessionEvents \in Seq(SessionIds \X {"created", "updated", "command"}) /\ CreatedOnce
  BY DEF SessionInv, SessionTypeOK, SessionsHold
<1>3. CASE sessionEvents' = sessionEvents
  BY <1>1, <1>2, <1>3 DEF CreatedOnce
<1>4. ASSUME NEW s \in SessionIds, NEW type \in {"updated", "command"}, Exists(s), AddEvent(s, type)
      PROVE  CreatedOnce' /\ sessionEvents' \in Seq(SessionIds \X {"created", "updated", "command"})
  <2> DEFINE l == Len(sessionEvents)
  <2>1. /\ sessionEvents' \in Seq(SessionIds \X {"created", "updated", "command"})
        /\ l \in Nat /\ DOMAIN sessionEvents = 1..l /\ DOMAIN sessionEvents' = 1..(l + 1)
        /\ \A i \in 1..l : sessionEvents'[i] = sessionEvents[i]
        /\ sessionEvents'[l + 1] = <<s, type>>
    <3>1. <<s, type>> \in SessionIds \X {"created", "updated", "command"}
      OBVIOUS
    <3> QED
      BY <1>2, <1>4, <3>1, AppendProperties, LenProperties DEF AddEvent
  <2>2. ASSUME NEW r \in SessionIds
        PROVE  LET mine == {i \in DOMAIN sessionEvents' : sessionEvents'[i][1] = r}
                   made == {i \in mine : sessionEvents'[i][2] = "created"}
               IN IF Exists(r)' THEN \E i \in made : made = {i} /\ \A j \in mine : i <= j ELSE mine = {}
    <3> DEFINE mine == {i \in DOMAIN sessionEvents : sessionEvents[i][1] = r}
               made == {i \in mine : sessionEvents[i][2] = "created"}
               mineNow == {i \in DOMAIN sessionEvents' : sessionEvents'[i][1] = r}
               madeNow == {i \in mineNow : sessionEvents'[i][2] = "created"}
    <3>1. \A i \in 1..l : i \in 1..(l + 1) /\ i # l + 1 /\ i <= l + 1
      BY <2>1
    <3>2. \A i \in 1..(l + 1) : i \in 1..l \/ i = l + 1
      BY <2>1
    <3>3. mineNow = IF r = s THEN mine \cup {l + 1} ELSE mine
      BY <2>1, <3>1, <3>2
    <3>4. madeNow = made
      BY <2>1, <3>1, <3>2
    <3>5. IF Exists(r) THEN \E i \in made : made = {i} /\ \A j \in mine : i <= j ELSE mine = {}
      BY <1>2 DEF CreatedOnce
    <3>6. made \subseteq 1..l
      BY <2>1
    <3> HIDE DEF mine, made, mineNow, madeNow
    <3>7. IF Exists(r)' THEN \E i \in madeNow : madeNow = {i} /\ \A j \in mineNow : i <= j ELSE mineNow = {}
      BY <1>1, <1>4, <3>1, <3>3, <3>4, <3>5, <3>6
    <3> QED
      BY <3>7 DEF mineNow, madeNow
  <2> QED
    BY <2>1, <2>2 DEF CreatedOnce
<1> QED
  BY <1>2, <1>3, <1>4 DEF CreatesNothing

LEMMA BegunGrows ==
  ASSUME \A c \in OpenCalls : sessionAt[c].step # "idle" => sessionAt'[c].step # "idle"
  PROVE  /\ Cardinality(Begun) \in Nat /\ Cardinality(Begun') \in Nat
         /\ Cardinality(Begun) <= Cardinality(Begun') /\ Cardinality(Begun') <= Cardinality(OpenCalls)
         /\ IsFiniteSet(Begun) /\ Cardinality(OpenCalls) \in Nat
<1>1. IsFiniteSet(OpenCalls)
  BY SessionConstants
<1>2. Begun \subseteq Begun' /\ Begun' \subseteq OpenCalls
  BY DEF Begun
<1>3. IsFiniteSet(Begun') /\ Cardinality(Begun') <= Cardinality(OpenCalls)
  BY <1>1, <1>2, FS_Subset
<1>4. IsFiniteSet(Begun) /\ Cardinality(Begun) <= Cardinality(Begun')
  BY <1>2, <1>3, FS_Subset
<1> QED
  BY <1>1, <1>3, <1>4, FS_CardinalityType

LEMMA SessionKeeps ==
  ASSUME SessionInv, CreatesNothing, CallsGoOn
  PROVE  SessionInv'
<1>1. \A s \in SessionIds : Exists(s)' <=> Exists(s)
  BY DEF CreatesNothing, Exists
<1>2. CreatedOnce' /\ sessionEvents' \in Seq(SessionIds \X {"created", "updated", "command"})
  BY EventsStay
<1>3. NoSession \notin SessionIds
  <2>1. SessionIds = 1..Cardinality(OpenCalls)
    BY SessionConstants
  <2> QED
    BY <2>1 DEF NoSession
<1>4. SessionTypeOK'
  <2>1. madeFor' \in [SessionIds -> OpenKeys \cup {"none"}] /\ changedBefore' \subseteq SessionIds
    BY DEF CreatesNothing, sessionHistory, SessionInv, SessionTypeOK
  <2>2. \A c \in SessionCalls : sessionAt'[c] \in SessionAts /\ sessionAnswer'[c] \in SessionAnswers
    BY DEF CallsGoOn
  <2>3. \A c \in SessionCalls : /\ sessionAt'[c].session \in SessionIds \cup {NoSession}
                                /\ sessionAnswer'[c] \in {"none", "opened", "closed", "started", "refused", "conflict", "error", "lost"}
    BY <2>2 DEF SessionAts, SessionAnswers
  <2>4. DOMAIN sessionAt' = SessionCalls
    BY DEF CallsGoOn
  <2> QED
    BY <1>2, <2>1, <2>3, <2>4 DEF SessionTypeOK, CreatesNothing, SessionRows
<1>5. RepliesAgree'
  <2>1. UNCHANGED madeFor
    BY DEF CreatesNothing, sessionHistory
  <2>2. \A k \in OpenKeys : creation'[k].session # NoSession => creation'[k].session = creation[k].session
    BY DEF CreatesNothing
  <2> QED
    BY <2>1, <2>2 DEF SessionInv, SessionsHold, RepliesAgree
<1>6. NothingWithoutSession'
  <2>1. \A n \in Connections : bindings'[n] # NoSession =>
          bindings'[n] \in SessionIds /\ sessions'[bindings'[n]].status # "none"
    BY DEF CreatesNothing, Exists
  <2>2. \A s \in SessionIds : ~Exists(s)' => s \notin running' /\ sessions'[s].environment = 0
    BY <1>1 DEF CreatesNothing, SessionInv, SessionsHold, NothingWithoutSession
  <2> QED
    BY <2>1, <2>2 DEF NothingWithoutSession, Exists
<1>7. IdsInOrder'
  <2>1. PICK n \in 0..Cardinality(Begun) : \A s \in SessionIds : Exists(s) <=> s <= n
    BY DEF SessionInv, IdsInOrder
  <2>2. n \in 0..Cardinality(Begun')
    <3>1. \A c \in OpenCalls : sessionAt[c].step # "idle" => sessionAt'[c].step # "idle"
      BY DEF CallsGoOn, SessionCalls
    <3> QED
      BY <2>1, <3>1, BegunGrows
  <2> QED
    BY <1>1, <2>1, <2>2 DEF IdsInOrder
<1>8. KnownSessions'
  <2>1. \A c \in SessionCalls : sessionAt'[c].session \in SessionIds \cup {NoSession}
    BY <1>4 DEF SessionTypeOK
  <2> QED
    BY <1>1, <2>1 DEF CallsGoOn, KnownSessions
<1>9. \A s \in SessionIds : ~Exists(s)' => madeFor'[s] = "none" /\ sessions'[s].version = 0
  BY <1>1 DEF CreatesNothing, sessionHistory, SessionInv
<1>10. SessionsHold'
  BY <1>2, <1>5, <1>6 DEF SessionsHold
<1> QED
  BY <1>4, <1>7, <1>8, <1>9, <1>10 DEF SessionInv, CallsGoOn

\* One call goes on or ends; the others stay where they are.
SessionMoves(c, step, session, answer) ==
  /\ sessionAt' \in [SessionCalls -> SessionAts] /\ sessionAnswer' \in [SessionCalls -> SessionAnswers]
  /\ sessionAt'[c].step = step /\ sessionAt'[c].session = session /\ sessionAnswer'[c] = answer
  /\ \A d \in SessionCalls : d # c => sessionAt'[d] = sessionAt[d] /\ sessionAnswer'[d] = sessionAnswer[d]

LEMMA SessionGoes ==
  ASSUME SessionInv, NEW c \in SessionCalls, NEW step \in SessionSteps, SessionGo(c, step)
  PROVE  SessionMoves(c, step, sessionAt[c].session, sessionAnswer[c])
BY DEF SessionInv, SessionGo, SessionMoves, SessionAts

LEMMA SessionReplies ==
  ASSUME SessionInv, NEW c \in SessionCalls, NEW answer \in SessionAnswers, SessionReply(c, answer)
  PROVE  SessionMoves(c, "done", sessionAt[c].session, answer)
BY DEF SessionInv, SessionReply, SessionMoves, SessionAts, SessionSteps

LEMMA MovesGoOn ==
  ASSUME SessionInv, NEW c \in SessionCalls, NEW step \in SessionSteps \ {"idle"},
         NEW session \in SessionIds \cup {NoSession}, NEW answer,
         SessionMoves(c, step, session, answer), step # "done" => session # NoSession, session # NoSession => Exists(session)
  PROVE  CallsGoOn
<1>1. KnownSessions
  BY DEF SessionInv
<1> QED
  BY <1>1 DEF SessionMoves, CallsGoOn, KnownSessions

\* The same for the step of a call on a session it has had already.
LEMMA SameSessionGoesOn ==
  ASSUME SessionInv, NEW c \in SessionCalls, NEW step \in SessionSteps \ {"idle"}, NEW answer,
         SessionMoves(c, step, sessionAt[c].session, answer), step = "done" \/ sessionAt[c].step \notin {"idle", "done"}
  PROVE  CallsGoOn
<1>1. /\ sessionAt[c].session \in SessionIds \cup {NoSession} /\ (step # "done" => sessionAt[c].session # NoSession)
      /\ (sessionAt[c].session # NoSession => Exists(sessionAt[c].session))
  BY DEF SessionInv, SessionTypeOK, KnownSessions
<1> QED
  BY <1>1, MovesGoOn

\* A step that leaves the store alone, or fails, creates nothing.
LEMMA NothingCreated ==
  ASSUME SessionInv, UNCHANGED <<sessionStore, bindings, running, userChange, sessionHistory, sessionCrashes>>,
         sessionFaults' = sessionFaults \/ SessionFault
  PROVE  CreatesNothing
<1>1. UNCHANGED <<sessions, creation, sessionEvents, snapshots, bindings, running, userChange, sessionCrashes>>
  BY DEF sessionStore
<1>2. /\ sessions' \in [SessionIds -> SessionRows] /\ snapshots' \in Nat
      /\ creation' \in [OpenKeys -> [session : SessionIds \cup {NoSession}, expired : BOOLEAN]]
      /\ bindings' \in [Connections -> SessionIds \cup {NoSession}]
      /\ running' \subseteq SessionIds /\ userChange' \in BOOLEAN /\ sessionCrashes' \in 0..MaxSessionCrashes
  BY <1>1 DEF SessionInv, SessionTypeOK, SessionRows
<1>3. sessionFaults' \in 0..MaxSessionFaults
  <2>1. MaxSessionFaults \in Nat /\ sessionFaults \in 0..MaxSessionFaults
    BY SessionConstants DEF SessionInv, SessionTypeOK
  <2> QED
    BY <2>1 DEF SessionFault
<1>4. (\A n \in Connections : bindings'[n] # NoSession => Exists(bindings'[n])) /\ \A s \in running' : Exists(s)
  BY <1>1, <1>2 DEF SessionInv, SessionsHold, NothingWithoutSession
<1> QED
  BY <1>1, <1>2, <1>3, <1>4 DEF CreatesNothing

-----------------------------------------------------------------------------
\* One lemma for each action.

\* A new session has the next id, under which there is no event, no environment
\* and no task yet; its key had no session that is still on record.
LEMMA NewSession ==
  ASSUME SessionInv, NEW c \in OpenCalls, sessionAt[c].step = "idle"
  PROVE  /\ NextId \in SessionIds /\ NextId \in Nat /\ NextId # NoSession /\ ~Exists(NextId)
         /\ \A s \in SessionIds : Exists(s) <=> s < NextId
         /\ NextId - 1 \in 0..Cardinality(Begun) /\ NextId <= Cardinality(Begun \cup {c})
<1>1. PICK n \in 0..Cardinality(Begun) : \A s \in SessionIds : Exists(s) <=> s <= n
  BY DEF SessionInv, IdsInOrder
<1>2. IsFiniteSet(OpenCalls) /\ SessionIds = 1..Cardinality(OpenCalls)
  BY SessionConstants
<1>3. Begun \cup {c} \subseteq OpenCalls /\ c \notin Begun /\ IsFiniteSet(Begun) /\ IsFiniteSet(Begun \cup {c})
  BY <1>2, FS_Subset DEF Begun
<1>4. /\ Cardinality(Begun \cup {c}) = Cardinality(Begun) + 1 /\ Cardinality(Begun) \in Nat
      /\ Cardinality(Begun \cup {c}) <= Cardinality(OpenCalls) /\ Cardinality(OpenCalls) \in Nat
  BY <1>2, <1>3, FS_AddElement, FS_Subset, FS_CardinalityType
<1>5. n \in Nat /\ n <= Cardinality(Begun)
  BY <1>1, <1>4
<1>6. n + 1 \in SessionIds /\ SessionIds \subseteq Nat
  BY <1>2, <1>4, <1>5
<1>7. \A s \in SessionIds : (s <= n <=> s < n + 1) /\ (s < n + 1 \/ s = n + 1 \/ n + 1 < s)
  BY <1>5, <1>6
<1>8. ~Exists(n + 1) /\ \A t \in SessionIds : t < n + 1 => Exists(t)
  BY <1>1, <1>5, <1>6, <1>7
<1>9. \A s \in SessionIds : ~Exists(s) /\ (\A t \in SessionIds : t < s => Exists(t)) => s = n + 1
  BY <1>1, <1>6, <1>7, <1>8
<1>10. NextId = n + 1
  BY <1>6, <1>8, <1>9 DEF NextId
<1> QED
  BY <1>1, <1>4, <1>5, <1>6, <1>7, <1>8, <1>10 DEF NoSession

LEMMA CreateKeeps ==
  ASSUME SessionInv, NEW c \in OpenCalls, Create(c)
  PROVE  SessionInv'
<1> DEFINE key == OpenKey[c]
<1>1. /\ sessionAt[c].step = "idle" /\ c \in SessionCalls /\ key \in OpenKeys /\ SessionTypeOK
      /\ UNCHANGED <<bindings, running, userChange>>
      /\ sessionAt \in [SessionCalls -> SessionAts] /\ sessionAnswer \in [SessionCalls -> SessionAnswers]
      /\ creation[key].session \in SessionIds \cup {NoSession}
  BY DEF Create, SessionCalls, OpenKeys, SessionInv, SessionTypeOK
<1>2. CASE SessionReply(c, "error") /\ UNCHANGED <<sessionStore, sessionHistory>>
           /\ (UNCHANGED sessionBounds \/ SessionFault)
  <2>1. CreatesNothing
    BY <1>1, <1>2, NothingCreated DEF sessionBounds, SessionFault
  <2>2. CallsGoOn
    BY <1>1, <1>2, SessionReplies, SameSessionGoesOn DEF SessionAnswers, SessionSteps
  <2> QED
    BY <2>1, <2>2, SessionKeeps
<1>3. CASE /\ creation[key].session # NoSession
           /\ sessionAt' = [sessionAt EXCEPT ![c] = [sessionAt[c] EXCEPT !.step = "environment",
                                                     !.session = creation[key].session, !.replayed = TRUE]]
           /\ UNCHANGED <<sessionStore, sessionHistory, sessionAnswer, sessionBounds>>
  <2>1. CreatesNothing
    BY <1>1, <1>3, NothingCreated DEF sessionBounds
  <2>2. SessionMoves(c, "environment", creation[key].session, sessionAnswer[c])
    BY <1>1, <1>3 DEF SessionMoves, SessionAts, SessionSteps
  <2>3. Exists(creation[key].session)
    <3>1. madeFor[creation[key].session] = key /\ key # "none"
      BY <1>1, <1>3, SessionConstants DEF SessionInv, SessionsHold, RepliesAgree
    <3> QED
      BY <1>1, <1>3, <3>1 DEF SessionInv
  <2>4. CallsGoOn
    BY <1>1, <1>3, <2>2, <2>3, MovesGoOn DEF SessionSteps
  <2> QED
    BY <2>1, <2>4, SessionKeeps
<1>4. CASE /\ creation[key].session = NoSession
           /\ sessions' = [sessions EXCEPT ![NextId] = [sessions[NextId] EXCEPT !.status = "active", !.version = 1]]
           /\ creation' = [creation EXCEPT ![key] = [session |-> NextId, expired |-> FALSE]]
           /\ AddEvent(NextId, "created")
           /\ madeFor' = [madeFor EXCEPT ![NextId] = key]
           /\ changedBefore' = (IF userChange THEN changedBefore \cup {NextId} ELSE changedBefore)
           /\ sessionAt' = [sessionAt EXCEPT ![c] = [sessionAt[c] EXCEPT !.step = "environment", !.session = NextId]]
           /\ UNCHANGED <<snapshots, sessionAnswer, sessionBounds>>
  <2> DEFINE new == NextId
  <2>1. /\ new \in SessionIds /\ new \in Nat /\ new # NoSession /\ ~Exists(new)
        /\ \A s \in SessionIds : Exists(s) <=> s < new
        /\ new \in 0..Cardinality(Begun \cup {c}) /\ SessionIds \subseteq Nat
    <3>1. Cardinality(Begun \cup {c}) \in Nat
      <4>1. IsFiniteSet(OpenCalls)
        BY SessionConstants
      <4> QED
        BY <4>1, FS_Subset, FS_CardinalityType DEF Begun
    <3>2. SessionIds = 1..Cardinality(OpenCalls)
      BY SessionConstants
    <3> QED
      BY <1>1, <3>1, <3>2, NewSession
  <2>2. /\ sessions' = [sessions EXCEPT ![new] = [sessions[new] EXCEPT !.status = "active", !.version = 1]]
        /\ creation' = [creation EXCEPT ![key] = [session |-> new, expired |-> FALSE]]
        /\ AddEvent(new, "created")
        /\ madeFor' = [madeFor EXCEPT ![new] = key]
        /\ changedBefore' = (IF userChange THEN changedBefore \cup {new} ELSE changedBefore)
        /\ sessionAt' = [sessionAt EXCEPT ![c] = [sessionAt[c] EXCEPT !.step = "environment", !.session = new]]
    BY <1>4
  <2> HIDE DEF new
  <2>3. /\ sessions' \in [SessionIds -> SessionRows] /\ sessions'[new].status = "active"
        /\ sessions'[new].environment = sessions[new].environment
        /\ \A s \in SessionIds : s # new => sessions'[s] = sessions[s]
    <3>1. sessions \in [SessionIds -> SessionRows]
      BY <1>1 DEF SessionTypeOK, SessionRows
    <3>2. [sessions[new] EXCEPT !.status = "active", !.version = 1] \in SessionRows
      BY <2>1, <3>1 DEF SessionRows
    <3> QED
      BY <2>1, <2>2, <3>1, <3>2 DEF SessionRows
  <2>4. /\ creation' \in [OpenKeys -> [session : SessionIds \cup {NoSession}, expired : BOOLEAN]]
        /\ creation'[key].session = new /\ \A k \in OpenKeys : k # key => creation'[k] = creation[k]
    BY <1>1, <2>1, <2>2 DEF SessionTypeOK
  <2>5. /\ madeFor' \in [SessionIds -> OpenKeys \cup {"none"}] /\ madeFor'[new] = key
        /\ \A s \in SessionIds : s # new => madeFor'[s] = madeFor[s]
    BY <1>1, <2>1, <2>2 DEF SessionTypeOK
  <2>6. SessionMoves(c, "environment", new, sessionAnswer[c])
    <3>1. [sessionAt[c] EXCEPT !.step = "environment", !.session = new] \in SessionAts
      BY <1>1, <2>1 DEF SessionAts, SessionSteps
    <3>2. UNCHANGED sessionAnswer
      BY <1>4
    <3> QED
      BY <1>1, <2>1, <2>2, <3>1, <3>2 DEF SessionMoves, SessionAts
  <2>7. \A s \in SessionIds : Exists(s)' <=> Exists(s) \/ s = new
    BY <2>1, <2>3 DEF Exists
  <2>8. sessionEvents' \in Seq(SessionIds \X {"created", "updated", "command"}) /\ CreatedOnce'
    <3> DEFINE l == Len(sessionEvents)
    <3>1. /\ sessionEvents \in Seq(SessionIds \X {"created", "updated", "command"}) /\ CreatedOnce
      BY <1>1 DEF SessionTypeOK, SessionInv, SessionsHold
    <3>2. /\ sessionEvents' \in Seq(SessionIds \X {"created", "updated", "command"})
          /\ l \in Nat /\ DOMAIN sessionEvents = 1..l /\ DOMAIN sessionEvents' = 1..(l + 1)
          /\ \A i \in 1..l : sessionEvents'[i] = sessionEvents[i]
          /\ sessionEvents'[l + 1] = <<new, "created">>
      <4>1. <<new, "created">> \in SessionIds \X {"created", "updated", "command"}
        BY <2>1
      <4> QED
        BY <2>2, <3>1, <4>1, AppendProperties, LenProperties DEF AddEvent
    <3>3. ASSUME NEW r \in SessionIds
          PROVE  LET mine == {i \in DOMAIN sessionEvents' : sessionEvents'[i][1] = r}
                     made == {i \in mine : sessionEvents'[i][2] = "created"}
                 IN IF Exists(r)' THEN \E i \in made : made = {i} /\ \A j \in mine : i <= j ELSE mine = {}
      <4> DEFINE mine == {i \in DOMAIN sessionEvents : sessionEvents[i][1] = r}
                 made == {i \in mine : sessionEvents[i][2] = "created"}
                 mineNow == {i \in DOMAIN sessionEvents' : sessionEvents'[i][1] = r}
                 madeNow == {i \in mineNow : sessionEvents'[i][2] = "created"}
      <4>1. \A i \in 1..l : i \in 1..(l + 1) /\ i # l + 1 /\ i <= l + 1
        BY <3>2
      <4>2. \A i \in 1..(l + 1) : i \in 1..l \/ i = l + 1
        BY <3>2
      <4>3. IF Exists(r) THEN \E i \in made : made = {i} /\ \A j \in mine : i <= j ELSE mine = {}
        BY <3>1 DEF CreatedOnce
      <4>4. CASE r = new
        <5>1. mine = {}
          BY <2>1, <4>3, <4>4
        <5>2. mineNow = {l + 1} /\ madeNow = {l + 1} /\ l + 1 \in Int
          BY <3>2, <4>1, <4>2, <4>4, <5>1
        <5> HIDE DEF mineNow, madeNow
        <5>3. \E i \in madeNow : madeNow = {i} /\ \A j \in mineNow : i <= j
          BY <5>2
        <5> QED
          BY <2>7, <4>4, <5>3 DEF mineNow, madeNow
      <4>5. CASE r # new
        <5>1. mineNow = mine /\ madeNow = made
          BY <3>2, <4>1, <4>2, <4>5
        <5> HIDE DEF mine, made, mineNow, madeNow
        <5>2. IF Exists(r)' THEN \E i \in madeNow : madeNow = {i} /\ \A j \in mineNow : i <= j ELSE mineNow = {}
          BY <2>7, <4>3, <4>5, <5>1
        <5> QED
          BY <5>2 DEF mineNow, madeNow
      <4> QED
        BY <4>4, <4>5
    <3> QED
      BY <3>2, <3>3 DEF CreatedOnce
  <2>9. key # "none"
    BY <1>1, SessionConstants
  <2>10. RepliesAgree'
    <3>1. \A s \in SessionIds : madeFor[s] # "none" => s < new
      BY <2>1 DEF SessionInv
    <3>2. ASSUME NEW k \in OpenKeys, creation'[k].session # NoSession
          PROVE  /\ madeFor'[creation'[k].session] = k
                 /\ \A s \in SessionIds : madeFor'[s] = k => s <= creation'[k].session
      <4>1. k # "none"
        BY SessionConstants
      <4>2. CASE k = key
        <5>1. creation'[k].session = new /\ madeFor'[new] = k
          BY <2>4, <2>5, <4>2
        <5>2. \A s \in SessionIds : s # new /\ madeFor'[s] = k => s < new
          BY <2>5, <3>1, <4>1
        <5>3. \A s \in SessionIds : s \in Nat /\ (s < new \/ s = new => s <= new)
          BY <2>1
        <5> QED
          BY <5>1, <5>2, <5>3
      <4>3. CASE k # key
        <5>1. /\ creation'[k].session = creation[k].session /\ madeFor[creation[k].session] = k
              /\ \A s \in SessionIds : madeFor[s] = k => s <= creation[k].session
              /\ creation[k].session \in SessionIds
          BY <2>4, <3>2, <4>3, <1>1 DEF SessionInv, SessionsHold, RepliesAgree, SessionTypeOK
        <5>2. creation[k].session # new
          BY <2>1, <3>1, <4>1, <5>1
        <5> QED
          BY <2>5, <4>3, <5>1, <5>2
      <4> QED
        BY <4>2, <4>3
    <3> QED
      BY <3>2 DEF RepliesAgree
  <2>11. NothingWithoutSession'
    <3>1. \A n \in Connections : bindings'[n] # NoSession => sessions'[bindings'[n]].status # "none"
      <4>1. \A n \in Connections : bindings[n] # NoSession => bindings[n] \in SessionIds /\ Exists(bindings[n])
        BY <1>1 DEF SessionTypeOK, SessionInv, SessionsHold, NothingWithoutSession
      <4> QED
        BY <1>1, <2>3, <4>1 DEF Exists
    <3>2. \A s \in SessionIds : ~Exists(s)' => s \notin running' /\ sessions'[s].environment = 0
      BY <1>1, <2>3, <2>7 DEF SessionInv, SessionsHold, NothingWithoutSession
    <3> QED
      BY <3>1, <3>2 DEF NothingWithoutSession, Exists
  <2>12. IdsInOrder'
    <3>1. Begun' = Begun \cup {c}
      <4>1. \A d \in OpenCalls : d \in SessionCalls
        BY DEF SessionCalls
      <4> QED
        BY <2>6, <4>1 DEF Begun, SessionMoves
    <3>2. \A s \in SessionIds : Exists(s)' <=> s <= new
      <4>1. \A s \in SessionIds : (s <= new <=> s < new \/ s = new)
        BY <2>1
      <4> QED
        BY <2>1, <2>7, <4>1
    <3> QED
      BY <2>1, <3>1, <3>2 DEF IdsInOrder
  <2>13. KnownSessions'
    <3>1. \A d \in SessionCalls : sessionAt[d].session \in SessionIds \cup {NoSession}
      BY <1>1 DEF SessionTypeOK
    <3>2. \A d \in SessionCalls : d # c => sessionAt'[d] = sessionAt[d]
      BY <2>6 DEF SessionMoves
    <3>3. sessionAt'[c].session = new
      BY <2>6 DEF SessionMoves
    <3>4. \A d \in SessionCalls : sessionAt[d].session # NoSession => sessions'[sessionAt[d].session].status # "none"
      BY <2>3, <3>1 DEF SessionInv, KnownSessions, Exists
    <3> QED
      BY <2>1, <2>3, <3>2, <3>3, <3>4 DEF SessionInv, KnownSessions, Exists
  <2>14. SessionTypeOK'
    <3>1. changedBefore' \subseteq SessionIds /\ snapshots' \in Nat
          /\ sessionFaults' \in 0..MaxSessionFaults /\ sessionCrashes' \in 0..MaxSessionCrashes
      BY <1>1, <1>4, <2>1, <2>2 DEF SessionTypeOK, sessionBounds
    <3>2. bindings' \in [Connections -> SessionIds \cup {NoSession}] /\ running' \subseteq SessionIds /\ userChange' \in BOOLEAN
      BY <1>1 DEF SessionTypeOK
    <3>3. \A d \in SessionCalls : sessionAt'[d] \in SessionAts /\ sessionAnswer'[d] \in SessionAnswers
      BY <2>6 DEF SessionMoves
    <3>4. \A d \in SessionCalls : /\ sessionAt'[d].session \in SessionIds \cup {NoSession}
                                  /\ sessionAnswer'[d] \in {"none", "opened", "closed", "started", "refused", "conflict", "error", "lost"}
      BY <3>3 DEF SessionAts, SessionAnswers
    <3> QED
      BY <2>3, <2>4, <2>5, <2>6, <2>8, <3>1, <3>2, <3>4 DEF SessionTypeOK, SessionRows, SessionMoves
  <2>15. \A s \in SessionIds : ~Exists(s)' => madeFor'[s] = "none" /\ sessions'[s].version = 0
    BY <2>3, <2>5, <2>7 DEF SessionInv
  <2> QED
    BY <2>6, <2>8, <2>10, <2>11, <2>12, <2>13, <2>14, <2>15 DEF SessionInv, SessionsHold, SessionMoves
<1> QED
  BY <1>2, <1>3, <1>4 DEF Create, sessionBounds

\* A call that goes on with its session, after a statement or after its failure.
Continues(c) ==
  \/ \E step \in SessionSteps \ {"idle"} : SessionGo(c, step) /\ sessionAt[c].step \notin {"idle", "done"}
  \/ \E answer \in SessionAnswers : SessionReply(c, answer)

LEMMA ContinuesGoOn ==
  ASSUME SessionInv, NEW c \in SessionCalls, Continues(c)
  PROVE  CallsGoOn
<1>1. ASSUME NEW step \in SessionSteps \ {"idle"}, SessionGo(c, step), sessionAt[c].step \notin {"idle", "done"}
      PROVE  CallsGoOn
  BY <1>1, SessionGoes, SameSessionGoesOn
<1>2. ASSUME NEW answer \in SessionAnswers, SessionReply(c, answer)
      PROVE  CallsGoOn
  <2>1. "done" \in SessionSteps \ {"idle"}
    BY DEF SessionSteps
  <2> QED
    BY <1>2, <2>1, SessionReplies, SameSessionGoesOn
<1> QED
  BY <1>1, <1>2 DEF Continues

\* A call that works on a session.
LEMMA ItsSession ==
  ASSUME SessionInv, NEW c \in SessionCalls, sessionAt[c].step \notin {"idle", "done"}
  PROVE  /\ sessionAt[c].session \in SessionIds /\ Exists(sessionAt[c].session)
         /\ sessionAt[c] \in SessionAts /\ sessions[sessionAt[c].session] \in SessionRows
BY DEF SessionInv, SessionTypeOK, KnownSessions, SessionRows, SessionAts

\* The row of one session changes: what is said of it stays.
LEMMA RowChanges ==
  ASSUME SessionInv, NEW s \in SessionIds, Exists(s), NEW row \in SessionRows, row.status # "none",
         sessions' = [sessions EXCEPT ![s] = row],
         UNCHANGED <<creation, sessionEvents, snapshots, bindings, running, userChange, sessionHistory, sessionBounds>>
  PROVE  CreatesNothing
<1>1. /\ sessions \in [SessionIds -> SessionRows] /\ snapshots' \in Nat
      /\ creation' \in [OpenKeys -> [session : SessionIds \cup {NoSession}, expired : BOOLEAN]]
      /\ bindings' \in [Connections -> SessionIds \cup {NoSession}]
      /\ running' \subseteq SessionIds /\ userChange' \in BOOLEAN /\ sessionCrashes' \in 0..MaxSessionCrashes
      /\ sessionFaults' \in 0..MaxSessionFaults
  BY DEF SessionInv, SessionTypeOK, SessionRows, sessionBounds
<1>2. (\A n \in Connections : bindings'[n] # NoSession => Exists(bindings'[n])) /\ \A t \in running' : Exists(t)
  BY <1>1 DEF SessionInv, SessionsHold, NothingWithoutSession
<1>3. sessions' \in [SessionIds -> SessionRows] /\ sessions'[s] = row /\ \A t \in SessionIds : t # s => sessions'[t] = sessions[t]
  BY <1>1
<1> QED
  BY <1>1, <1>2, <1>3 DEF CreatesNothing, Exists

LEMMA NextVersion ==
  ASSUME NEW row \in SessionRows, NEW environment \in Nat
  PROVE  [row EXCEPT !.environment = environment, !.version = row.version + 1] \in SessionRows
<1>1. row.version + 1 \in Nat
  BY DEF SessionRows
<1> QED
  BY <1>1 DEF SessionRows

LEMMA EnvironmentKeeps ==
  ASSUME SessionInv, NEW c \in OpenCalls, LookAtEnvironment(c) \/ SaveSnapshot(c) \/ SetEnvironment(c) \/ CaptureBaseline(c)
  PROVE  SessionInv'
<1> DEFINE s == sessionAt[c].session
<1>1. c \in SessionCalls /\ AfterEnvironment(c) \in SessionSteps \ {"idle"}
      /\ {"snapshot", "set", "bind"} \subseteq SessionSteps \ {"idle"}
  BY DEF SessionCalls, AfterEnvironment, SessionSteps
<1>2. sessionAt[c].step \notin {"idle", "done"}
  BY DEF LookAtEnvironment, SaveSnapshot, SetEnvironment, CaptureBaseline
<1>3. s \in SessionIds /\ Exists(s) /\ sessionAt[c] \in SessionAts /\ sessions[s] \in SessionRows
  BY <1>1, <1>2, ItsSession
<1>4. CASE LookAtEnvironment(c)
  <2>1. CreatesNothing
    BY <1>4, NothingCreated DEF LookAtEnvironment, sessionBounds, SessionFault
  <2>2. Continues(c)
    BY <1>1, <1>2, <1>4 DEF LookAtEnvironment, Continues
  <2> QED
    BY <1>1, <2>1, <2>2, ContinuesGoOn, SessionKeeps
<1>5. CASE SaveSnapshot(c)
  <2>1. CASE SessionFault /\ SessionGo(c, AfterEnvironment(c)) /\ UNCHANGED snapshots
    <3>1. CreatesNothing
      BY <1>5, <2>1, NothingCreated DEF SaveSnapshot, sessionStore, SessionFault
    <3>2. Continues(c)
      BY <1>1, <1>2, <2>1 DEF Continues
    <3> QED
      BY <1>1, <3>1, <3>2, ContinuesGoOn, SessionKeeps
  <2>2. CASE /\ snapshots' = snapshots + 1
             /\ sessionAt' = [sessionAt EXCEPT ![c].step = "set", ![c].seen = snapshots + 1]
             /\ UNCHANGED <<sessionAnswer, sessionBounds>>
    <3>1. snapshots \in Nat /\ snapshots' \in Nat /\ sessionAt \in [SessionCalls -> SessionAts]
          /\ sessionAnswer \in [SessionCalls -> SessionAnswers]
      BY <2>2 DEF SessionInv, SessionTypeOK
    <3>2. /\ sessions' \in [SessionIds -> SessionRows] /\ sessions' = sessions /\ creation' = creation
          /\ creation' \in [OpenKeys -> [session : SessionIds \cup {NoSession}, expired : BOOLEAN]]
          /\ sessionEvents' = sessionEvents /\ bindings' = bindings /\ running' = running
          /\ bindings' \in [Connections -> SessionIds \cup {NoSession}]
          /\ running' \subseteq SessionIds /\ userChange' \in BOOLEAN /\ sessionCrashes' \in 0..MaxSessionCrashes
          /\ sessionFaults' \in 0..MaxSessionFaults /\ UNCHANGED sessionHistory
      BY <1>5, <2>2 DEF SaveSnapshot, SessionInv, SessionTypeOK, SessionRows, sessionBounds
    <3>3. (\A n \in Connections : bindings'[n] # NoSession => Exists(bindings'[n])) /\ \A t \in running' : Exists(t)
      BY <3>2 DEF SessionInv, SessionsHold, NothingWithoutSession
    <3>4. CreatesNothing
      BY <3>1, <3>2, <3>3 DEF CreatesNothing
    <3>5. [sessionAt[c] EXCEPT !.step = "set", !.seen = snapshots + 1] \in SessionAts
      <4>1. snapshots + 1 \in Nat
        BY <3>1
      <4> QED
        BY <1>1, <1>3, <4>1 DEF SessionAts, SessionSteps
    <3>6. SessionMoves(c, "set", s, sessionAnswer[c])
      BY <1>1, <1>3, <2>2, <3>1, <3>5 DEF SessionMoves, SessionAts
    <3>7. CallsGoOn
      BY <1>1, <1>2, <3>6, SameSessionGoesOn
    <3> QED
      BY <3>4, <3>7, SessionKeeps
  <2> QED
    BY <1>5, <2>1, <2>2 DEF SaveSnapshot
<1>6. CASE SetEnvironment(c) \/ CaptureBaseline(c)
  <2>1. Continues(c)
    BY <1>1, <1>2, <1>6 DEF SetEnvironment, CaptureBaseline, Continues
  <2>2. CASE UNCHANGED sessions /\ SessionFault
    <3>1. CreatesNothing
      BY <1>6, <2>2, NothingCreated DEF SetEnvironment, CaptureBaseline, sessionStore, SessionFault
    <3> QED
      BY <1>1, <2>1, <3>1, ContinuesGoOn, SessionKeeps
  <2>3. ASSUME NEW row \in SessionRows, row.status = sessions[s].status, sessions' = [sessions EXCEPT ![s] = row],
               UNCHANGED sessionBounds
        PROVE  SessionInv'
    <3>1. CreatesNothing
      BY <1>3, <1>6, <2>3, RowChanges DEF SetEnvironment, CaptureBaseline, Exists
    <3> QED
      BY <1>1, <2>1, <3>1, ContinuesGoOn, SessionKeeps
  <2>4. CASE SetEnvironment(c) /\ UNCHANGED sessionBounds
             /\ sessions' = [sessions EXCEPT ![s] = [sessions[s] EXCEPT !.environment = sessionAt[c].seen,
                                                                        !.version = sessions[s].version + 1]]
    <3>1. [sessions[s] EXCEPT !.environment = sessionAt[c].seen, !.version = sessions[s].version + 1] \in SessionRows
      BY <1>3, NextVersion DEF SessionAts
    <3> QED
      BY <1>3, <2>3, <2>4, <3>1 DEF SessionRows
  <2>5. CASE CaptureBaseline(c) /\ UNCHANGED sessionBounds
             /\ sessions' = [sessions EXCEPT ![s].baseline = IF userChange THEN "changed" ELSE "clean"]
    <3>1. [sessions[s] EXCEPT !.baseline = IF userChange THEN "changed" ELSE "clean"] \in SessionRows
      BY <1>3 DEF SessionRows
    <3> QED
      BY <1>3, <2>3, <2>5, <3>1 DEF SessionRows
  <2> QED
    BY <1>6, <2>2, <2>4, <2>5 DEF SetEnvironment, CaptureBaseline
<1> QED
  BY <1>4, <1>5, <1>6

\* What the variables are, and that what is bound and runs is a session there is.
LEMMA SessionFacts ==
  ASSUME SessionInv
  PROVE  /\ sessions \in [SessionIds -> SessionRows] /\ snapshots \in Nat
         /\ creation \in [OpenKeys -> [session : SessionIds \cup {NoSession}, expired : BOOLEAN]]
         /\ bindings \in [Connections -> SessionIds \cup {NoSession}]
         /\ running \subseteq SessionIds /\ userChange \in BOOLEAN
         /\ sessionFaults \in 0..MaxSessionFaults /\ sessionCrashes \in 0..MaxSessionCrashes
         /\ (\A n \in Connections : bindings[n] # NoSession => Exists(bindings[n])) /\ \A s \in running : Exists(s)
         /\ sessionAt \in [SessionCalls -> SessionAts] /\ sessionAnswer \in [SessionCalls -> SessionAnswers]
         /\ MaxSessionFaults \in Nat /\ MaxSessionCrashes \in Nat
<1>1. /\ sessions \in [SessionIds -> SessionRows] /\ snapshots \in Nat
      /\ creation \in [OpenKeys -> [session : SessionIds \cup {NoSession}, expired : BOOLEAN]]
      /\ bindings \in [Connections -> SessionIds \cup {NoSession}]
      /\ running \subseteq SessionIds /\ userChange \in BOOLEAN
      /\ sessionFaults \in 0..MaxSessionFaults /\ sessionCrashes \in 0..MaxSessionCrashes
  BY DEF SessionInv, SessionTypeOK, SessionRows
<1>2. (\A n \in Connections : bindings[n] # NoSession => Exists(bindings[n])) /\ \A s \in running : Exists(s)
  BY <1>1 DEF SessionInv, SessionsHold, NothingWithoutSession
<1> QED
  BY <1>1, <1>2, SessionConstants DEF SessionInv

LEMMA SessionFaultFits ==
  ASSUME SessionInv, UNCHANGED sessionBounds \/ SessionFault
  PROVE  sessionFaults' \in 0..MaxSessionFaults /\ sessionCrashes' \in 0..MaxSessionCrashes
<1>1. /\ sessionFaults \in 0..MaxSessionFaults /\ sessionCrashes \in 0..MaxSessionCrashes /\ MaxSessionFaults \in Nat
  BY SessionFacts
<1> QED
  BY <1>1 DEF SessionFault, sessionBounds

LEMMA BindKeeps ==
  ASSUME SessionInv, NEW c \in OpenCalls, Bind(c)
  PROVE  SessionInv'
<1>1. c \in SessionCalls /\ sessionAt[c].step = "bind" /\ ConnOf[c] \in Connections
  BY DEF Bind, SessionCalls, Connections
<1>2. sessionAt[c].session \in SessionIds /\ Exists(sessionAt[c].session)
  BY <1>1, ItsSession
<1>3. /\ bindings' = [bindings EXCEPT ![ConnOf[c]] = sessionAt[c].session]
      /\ UNCHANGED <<sessions, creation, sessionEvents, snapshots, running, userChange, sessionHistory, sessionFaults, sessionCrashes>>
  BY DEF Bind, sessionStore, sessionBounds
<1>4. CreatesNothing
  BY <1>1, <1>2, <1>3, SessionFacts DEF CreatesNothing
<1>5. Continues(c)
  BY DEF Bind, Continues, SessionAnswers
<1> QED
  BY <1>1, <1>4, <1>5, ContinuesGoOn, SessionKeeps

LEMMA CloseKeeps ==
  ASSUME SessionInv, NEW c \in CloseCalls, CheckTasks(c) \/ ReadVersion(c)
  PROVE  SessionInv'
<1>1. c \in SessionCalls /\ sessionAt[c] \in SessionAts
  BY SessionFacts DEF SessionCalls
<1>2. CreatesNothing
  BY NothingCreated DEF CheckTasks, ReadVersion, sessionBounds, SessionFault
<1>3. CASE \E answer \in SessionAnswers : SessionReply(c, answer)
  BY <1>1, <1>2, <1>3, ContinuesGoOn, SessionKeeps DEF Continues
<1>4. ASSUME CheckTasks(c), NEW s \in SessionIds, Exists(s),
             sessionAt' = [sessionAt EXCEPT ![c].step = "read", ![c].session = s], UNCHANGED sessionAnswer
      PROVE  SessionInv'
  <2>1. [sessionAt[c] EXCEPT !.step = "read", !.session = s] \in SessionAts
    BY <1>1 DEF SessionAts, SessionSteps
  <2>2. SessionMoves(c, "read", s, sessionAnswer[c])
    BY <1>1, <1>4, <2>1, SessionFacts DEF SessionMoves, SessionAts
  <2>3. CallsGoOn
    BY <1>1, <1>4, <2>2, MovesGoOn DEF SessionSteps, Exists
  <2> QED
    BY <1>2, <2>3, SessionKeeps
<1>5. ASSUME sessionAt[c].step = "read", UNCHANGED sessionAnswer,
             sessionAt' = [sessionAt EXCEPT ![c].step = "update", ![c].seen = sessions[sessionAt[c].session].version]
      PROVE  SessionInv'
  <2>1. sessions[sessionAt[c].session].version \in Nat
    BY <1>1, <1>5, ItsSession DEF SessionRows
  <2>2. [sessionAt[c] EXCEPT !.step = "update", !.seen = sessions[sessionAt[c].session].version] \in SessionAts
    BY <1>1, <2>1 DEF SessionAts, SessionSteps
  <2>3. SessionMoves(c, "update", sessionAt[c].session, sessionAnswer[c])
    BY <1>1, <1>5, <2>2, SessionFacts DEF SessionMoves, SessionAts
  <2>4. CallsGoOn
    BY <1>1, <1>5, <2>3, SameSessionGoesOn DEF SessionSteps
  <2> QED
    BY <1>2, <2>4, SessionKeeps
<1>6. CASE CheckTasks(c)
  <2>1. {"refused", "error"} \subseteq SessionAnswers
    BY DEF SessionAnswers
  <2> QED
    BY <1>3, <1>4, <1>6, <2>1 DEF CheckTasks
<1>7. CASE ReadVersion(c)
  <2>1. {"refused", "error"} \subseteq SessionAnswers
    BY DEF SessionAnswers
  <2> QED
    BY <1>3, <1>5, <1>7, <2>1 DEF ReadVersion
<1> QED
  BY <1>6, <1>7

LEMMA UpdateKeeps ==
  ASSUME SessionInv, NEW c \in CloseCalls, Update(c)
  PROVE  SessionInv'
<1> DEFINE s == sessionAt[c].session
<1>1. c \in SessionCalls /\ sessionAt[c].step = "update"
  BY DEF Update, SessionCalls
<1>2. s \in SessionIds /\ Exists(s) /\ sessions[s] \in SessionRows
  BY <1>1, ItsSession
<1>3. Continues(c)
  BY <1>1 DEF Update, Continues, SessionSteps, SessionAnswers
<1>4. CASE UNCHANGED sessions /\ (UNCHANGED sessionBounds \/ SessionFault)
  <2>1. CreatesNothing
    BY <1>4, NothingCreated DEF Update, sessionStore, sessionBounds, SessionFault
  <2> QED
    BY <1>1, <1>3, <2>1, ContinuesGoOn, SessionKeeps
<1>5. ASSUME NEW mode \in {"closed", "archived"}, UNCHANGED sessionBounds,
             sessions' = [sessions EXCEPT ![s] = [sessions[s] EXCEPT !.status = mode, !.version = sessions[s].version + 1]]
      PROVE  SessionInv'
  <2>1. sessions[s].version + 1 \in Nat
    BY <1>2 DEF SessionRows
  <2>2. [sessions[s] EXCEPT !.status = mode, !.version = sessions[s].version + 1] \in SessionRows
    BY <1>2, <2>1 DEF SessionRows
  <2>3. [sessions[s] EXCEPT !.status = mode, !.version = sessions[s].version + 1].status # "none"
    BY <1>2 DEF SessionRows
  <2>4. CreatesNothing
    BY <1>2, <1>5, <2>2, <2>3, RowChanges DEF Update
  <2> QED
    BY <1>1, <1>3, <2>4, ContinuesGoOn, SessionKeeps
<1> QED
  BY <1>4, <1>5 DEF Update

LEMMA UnbindKeeps ==
  ASSUME SessionInv, NEW c \in CloseCalls, Unbind(c)
  PROVE  SessionInv'
<1> DEFINE s == sessionAt[c].session
<1>1. c \in SessionCalls /\ sessionAt[c].step = "event" /\ ConnOf[c] \in Connections
  BY DEF Unbind, SessionCalls, Connections
<1>2. s \in SessionIds /\ Exists(s)
  BY <1>1, ItsSession
<1>3. /\ UNCHANGED <<sessions, creation, snapshots, running, userChange, sessionHistory>>
      /\ (UNCHANGED sessionBounds \/ SessionFault) /\ (sessionEvents' = sessionEvents \/ AddEvent(s, "updated"))
      /\ bindings' = bindings \/ bindings' = [bindings EXCEPT ![ConnOf[c]] = NoSession]
  BY DEF Unbind
<1>4. CreatesNothing
  BY <1>1, <1>2, <1>3, SessionFacts, SessionFaultFits DEF CreatesNothing
<1>5. Continues(c)
  BY DEF Unbind, Continues, SessionAnswers
<1> QED
  BY <1>1, <1>4, <1>5, ContinuesGoOn, SessionKeeps

LEMMA UseKeeps ==
  ASSUME SessionInv, NEW c \in UseCalls, Resolve(c) \/ StartCommand(c)
  PROVE  SessionInv'
<1> DEFINE s == sessionAt[c].session
<1>1. c \in SessionCalls /\ ConnOf[c] \in Connections /\ sessionAt[c] \in SessionAts
  BY SessionFacts DEF SessionCalls, Connections
<1>2. CASE Resolve(c)
  <2>1. CreatesNothing
    BY <1>2, NothingCreated DEF Resolve, sessionBounds
  <2>2. CASE SessionReply(c, "refused")
    <3>1. Continues(c)
      BY <2>2 DEF Continues, SessionAnswers
    <3> QED
      BY <1>1, <2>1, <3>1, ContinuesGoOn, SessionKeeps
  <2>3. CASE /\ bindings[ConnOf[c]] # NoSession /\ UNCHANGED sessionAnswer
             /\ sessionAt' = [sessionAt EXCEPT ![c].step = "start", ![c].session = bindings[ConnOf[c]]]
    <3>1. bindings[ConnOf[c]] \in SessionIds /\ Exists(bindings[ConnOf[c]])
      BY <1>1, <2>3, SessionFacts
    <3>2. [sessionAt[c] EXCEPT !.step = "start", !.session = bindings[ConnOf[c]]] \in SessionAts
      BY <1>1, <3>1 DEF SessionAts, SessionSteps
    <3>3. SessionMoves(c, "start", bindings[ConnOf[c]], sessionAnswer[c])
      BY <1>1, <2>3, <3>2, SessionFacts DEF SessionMoves, SessionAts
    <3>4. CallsGoOn
      BY <1>1, <2>3, <3>1, <3>3, MovesGoOn DEF SessionSteps
    <3> QED
      BY <2>1, <3>4, SessionKeeps
  <2> QED
    BY <1>2, <2>2, <2>3 DEF Resolve
<1>3. CASE StartCommand(c)
  <2>1. s \in SessionIds /\ Exists(s)
    BY <1>1, <1>3, ItsSession DEF StartCommand
  <2>2. /\ UNCHANGED <<sessions, creation, snapshots, bindings, userChange, sessionHistory>> /\ running' = running \cup {s}
        /\ (UNCHANGED sessionBounds \/ SessionFault) /\ (sessionEvents' = sessionEvents \/ AddEvent(s, "command"))
    BY <1>3 DEF StartCommand
  <2>3. CreatesNothing
    BY <2>1, <2>2, SessionFacts, SessionFaultFits DEF CreatesNothing
  <2>4. Continues(c)
    BY <1>3 DEF StartCommand, Continues, SessionAnswers
  <2> QED
    BY <1>1, <2>3, <2>4, ContinuesGoOn, SessionKeeps
<1> QED
  BY <1>2, <1>3

\* Nobody moves.
LEMMA NobodyMoves ==
  ASSUME SessionInv, UNCHANGED <<sessionAt, sessionAnswer>>
  PROVE  CallsGoOn
<1>1. KnownSessions
  BY DEF SessionInv
<1> QED
  BY <1>1, SessionFacts DEF CallsGoOn, KnownSessions

LEMMA SessionWorldKeeps ==
  ASSUME SessionInv,
         \/ \E s \in SessionIds : CommandEnds(s)
         \/ \E k \in OpenKeys : RecordExpires(k) \/ DeleteRecord(k)
         \/ UserChanges
  PROVE  SessionInv'
<1>1. /\ UNCHANGED <<sessions, sessionEvents, snapshots, bindings, sessionAt, sessionAnswer, sessionHistory,
                     sessionFaults, sessionCrashes>>
      /\ running' \subseteq running
  BY DEF CommandEnds, RecordExpires, DeleteRecord, UserChanges, sessionStore, sessionBounds
<1>2. userChange' \in BOOLEAN
  BY SessionFacts DEF CommandEnds, RecordExpires, DeleteRecord, UserChanges
<1>3. /\ creation' \in [OpenKeys -> [session : SessionIds \cup {NoSession}, expired : BOOLEAN]]
      /\ \A k \in OpenKeys : creation'[k].session \in {creation[k].session, NoSession}
  <2>1. CASE creation' = creation
    BY <2>1, SessionFacts
  <2>2. ASSUME NEW k \in OpenKeys, creation' = [creation EXCEPT ![k].expired = TRUE]
        PROVE  /\ creation' \in [OpenKeys -> [session : SessionIds \cup {NoSession}, expired : BOOLEAN]]
               /\ \A l \in OpenKeys : creation'[l].session \in {creation[l].session, NoSession}
    BY <2>2, SessionFacts
  <2>3. ASSUME NEW k \in OpenKeys, creation' = [creation EXCEPT ![k] = [session |-> NoSession, expired |-> FALSE]]
        PROVE  /\ creation' \in [OpenKeys -> [session : SessionIds \cup {NoSession}, expired : BOOLEAN]]
               /\ \A l \in OpenKeys : creation'[l].session \in {creation[l].session, NoSession}
    BY <2>3, SessionFacts
  <2> QED
    BY <2>1, <2>2, <2>3 DEF CommandEnds, RecordExpires, DeleteRecord, UserChanges, sessionStore
<1>4. CreatesNothing
  BY <1>1, <1>2, <1>3, SessionFacts DEF CreatesNothing
<1> QED
  BY <1>1, <1>4, NobodyMoves, SessionKeeps

LEMMA SessionCrashKeeps ==
  ASSUME SessionInv, SessionCrash
  PROVE  SessionInv'
<1>1. /\ UNCHANGED <<sessions, creation, sessionEvents, snapshots, userChange, sessionHistory, sessionFaults>>
      /\ bindings' = [n \in Connections |-> NoSession] /\ running' = {}
      /\ sessionAt' = [c \in SessionCalls |-> IF sessionAt[c].step = "idle" THEN sessionAt[c] ELSE [sessionAt[c] EXCEPT !.step = "done"]]
      /\ sessionAnswer' = [c \in SessionCalls |-> IF sessionAt[c].step \in {"idle", "done"} THEN sessionAnswer[c] ELSE "lost"]
  BY DEF SessionCrash, sessionStore
<1>2. sessionCrashes' \in 0..MaxSessionCrashes
  <2>1. sessionCrashes \in 0..MaxSessionCrashes /\ MaxSessionCrashes \in Nat
        /\ sessionCrashes < MaxSessionCrashes /\ sessionCrashes' = sessionCrashes + 1
    BY SessionFacts DEF SessionCrash
  <2> QED
    BY <2>1
<1>3. CreatesNothing
  BY <1>1, <1>2, SessionFacts DEF CreatesNothing
<1>4. /\ sessionAt' \in [SessionCalls -> SessionAts] /\ sessionAnswer' \in [SessionCalls -> SessionAnswers]
      /\ \A c \in SessionCalls : /\ sessionAt'[c].session = sessionAt[c].session
                                 /\ sessionAt'[c].step = IF sessionAt[c].step = "idle" THEN "idle" ELSE "done"
  BY <1>1, SessionFacts DEF SessionAts, SessionSteps, SessionAnswers
<1>5. KnownSessions
  BY DEF SessionInv
<1>6. CallsGoOn
  BY <1>4, <1>5 DEF CallsGoOn, KnownSessions
<1> QED
  BY <1>3, <1>6, SessionKeeps

LEMMA SessionStarts ==
  ASSUME SessionInit
  PROVE  SessionInv
<1>1. 0 \in 0..MaxSessionFaults /\ 0 \in 0..MaxSessionCrashes
  <2>1. MaxSessionFaults \in Nat /\ MaxSessionCrashes \in Nat
    BY SessionConstants
  <2> QED
    BY <2>1
<1>2. sessionEvents \in Seq(SessionIds \X {"created", "updated", "command"}) /\ DOMAIN sessionEvents = {}
  BY EmptySeq DEF SessionInit
<1>3. /\ sessionAt \in [SessionCalls -> SessionAts] /\ sessionAnswer \in [SessionCalls -> SessionAnswers]
      /\ \A c \in SessionCalls : sessionAt[c].session = NoSession /\ sessionAt[c].step = "idle"
  BY DEF SessionInit, SessionAts, SessionSteps, SessionAnswers, NoSession
<1>4. \A s \in SessionIds : ~Exists(s) /\ madeFor[s] = "none" /\ sessions[s].environment = 0 /\ sessions[s].version = 0
  BY DEF SessionInit, Exists
<1>5. SessionTypeOK
  <2>1. 0 \in Nat
    OBVIOUS
  <2> QED
    BY <1>1, <1>2, <1>3, <2>1 DEF SessionInit, SessionTypeOK, NoSession
<1>6. SessionsHold
  BY <1>2, <1>4 DEF SessionInit, SessionsHold, RepliesAgree, CreatedOnce, NothingWithoutSession, NoSession
<1>7. IdsInOrder
  <2>1. IsFiniteSet(Begun)
    <3>1. IsFiniteSet(OpenCalls) /\ Begun \subseteq OpenCalls
      BY SessionConstants DEF Begun
    <3> QED
      BY <3>1, FS_Subset
  <2>2. Cardinality(Begun) \in Nat
    BY <2>1, FS_CardinalityType
  <2>3. SessionIds = 1..Cardinality(OpenCalls)
    BY SessionConstants
  <2>4. \A s \in SessionIds : ~(s <= 0)
    BY <2>3
  <2> QED
    BY <1>4, <2>2, <2>4 DEF IdsInOrder
<1> QED
  BY <1>3, <1>4, <1>5, <1>6, <1>7 DEF SessionInv, KnownSessions

LEMMA SessionStays ==
  ASSUME SessionInv, UNCHANGED sessionVars
  PROVE  SessionInv'
<1>1. CreatesNothing
  BY NothingCreated DEF sessionVars, sessionBounds
<1> QED
  BY <1>1, NobodyMoves, SessionKeeps DEF sessionVars

LEMMA SessionStepsKeep ==
  ASSUME SessionInv, [SessionNext]_sessionVars
  PROVE  SessionInv'
<1>1. CASE \E c \in OpenCalls : OpenStep(c)
  BY <1>1, CreateKeeps, EnvironmentKeeps, BindKeeps DEF OpenStep
<1>2. CASE \E c \in CloseCalls : CloseStep(c)
  BY <1>2, CloseKeeps, UpdateKeeps, UnbindKeeps DEF CloseStep
<1>3. CASE \E c \in UseCalls : UseStep(c)
  BY <1>3, UseKeeps DEF UseStep
<1> QED
  BY <1>1, <1>2, <1>3, SessionWorldKeeps, SessionCrashKeeps, SessionStays DEF SessionNext

\* A session that was closed stays as it is but for its environment, and who
\* closes one has read its version.
LEMMA ReadersClose ==
  ASSUME SessionInv, [SessionNext]_sessionVars
  PROVE  ClosedByItsReader
<1> DEFINE Kept(s) ==
      /\ sessions'[s].version >= sessions[s].version
      /\ sessions[s].status \in {"closed", "archived"} => sessions'[s].status \in {"closed", "archived"}
      /\ sessions'[s].status \notin {sessions[s].status, "active"} =>
           \E c \in CloseCalls : /\ sessionAt[c].step = "update" /\ sessionAt[c].session = s
                                 /\ sessionAt[c].seen = sessions[s].version
<1>1. sessions \in [SessionIds -> SessionRows] /\ \A s \in SessionIds : sessions[s].version \in Nat
  BY SessionFacts DEF SessionRows
<1>2. \A s \in SessionIds : sessions'[s] = sessions[s] => Kept(s)
  BY <1>1
<1>3. CASE UNCHANGED sessions
  BY <1>2, <1>3 DEF ClosedByItsReader
<1>4. ASSUME NEW c \in OpenCalls, Create(c), sessionAt[c].step = "idle",
             sessions' = [sessions EXCEPT ![NextId] = [sessions[NextId] EXCEPT !.status = "active", !.version = 1]]
      PROVE  ClosedByItsReader
  <2>1. NextId \in SessionIds /\ ~Exists(NextId) /\ NextId # NoSession
    BY <1>4, NewSession
  <2>2. sessions[NextId].status = "none" /\ sessions[NextId].version = 0
    BY <2>1 DEF SessionInv, Exists
  <2>3. sessions'[NextId].status = "active" /\ sessions'[NextId].version = 1
        /\ \A s \in SessionIds : s # NextId => sessions'[s] = sessions[s]
    <3>1. sessions[NextId] \in SessionRows
      BY <1>1, <2>1
    <3> QED
      BY <1>1, <1>4, <2>1, <3>1 DEF SessionRows
  <2>4. Kept(NextId)
    BY <2>2, <2>3
  <2> QED
    BY <1>2, <2>3, <2>4 DEF ClosedByItsReader
<1>5. ASSUME NEW c \in OpenCalls, sessionAt[c].step \in {"set", "baseline"}, NEW row \in SessionRows,
             sessions' = [sessions EXCEPT ![sessionAt[c].session] = row],
             row.status = sessions[sessionAt[c].session].status, row.version >= sessions[sessionAt[c].session].version
      PROVE  ClosedByItsReader
  <2> DEFINE s == sessionAt[c].session
  <2>1. s \in SessionIds
    BY <1>5, ItsSession DEF SessionCalls
  <2>2. Kept(s) /\ \A t \in SessionIds : t # s => sessions'[t] = sessions[t]
    BY <1>1, <1>5, <2>1
  <2> QED
    BY <1>2, <2>2 DEF ClosedByItsReader
<1>6. ASSUME NEW c \in CloseCalls, sessionAt[c].step = "update", NEW mode \in {"closed", "archived"},
             sessions[sessionAt[c].session].version = sessionAt[c].seen,
             sessions' = [sessions EXCEPT ![sessionAt[c].session] =
                            [sessions[sessionAt[c].session] EXCEPT !.status = mode, !.version = sessions[sessionAt[c].session].version + 1]]
      PROVE  ClosedByItsReader
  <2> DEFINE s == sessionAt[c].session
  <2>1. s \in SessionIds /\ sessions[s] \in SessionRows /\ sessions[s].version \in Nat
    BY <1>1, <1>6, ItsSession DEF SessionCalls
  <2>2. sessions'[s].version = sessions[s].version + 1 /\ sessions'[s].status = mode
        /\ \A t \in SessionIds : t # s => sessions'[t] = sessions[t]
    BY <1>1, <1>6, <2>1 DEF SessionRows
  <2>3. Kept(s)
    BY <1>6, <2>1, <2>2
  <2> QED
    BY <1>2, <2>2, <2>3 DEF ClosedByItsReader
<1>7. ASSUME NEW c \in OpenCalls, SetEnvironment(c) PROVE ClosedByItsReader
  <2> DEFINE s == sessionAt[c].session
  <2>1. sessions[s] \in SessionRows /\ sessionAt[c].seen \in Nat
    BY <1>7, ItsSession DEF SetEnvironment, SessionCalls, SessionAts
  <2>2. sessions[s].version \in Nat
    BY <2>1 DEF SessionRows
  <2>3. [sessions[s] EXCEPT !.environment = sessionAt[c].seen, !.version = sessions[s].version + 1] \in SessionRows
    BY <2>1, NextVersion
  <2>4. CASE sessions' = [sessions EXCEPT ![s] = [sessions[s] EXCEPT !.environment = sessionAt[c].seen,
                                                                     !.version = sessions[s].version + 1]]
    <3>1. /\ [sessions[s] EXCEPT !.environment = sessionAt[c].seen, !.version = sessions[s].version + 1].status = sessions[s].status
          /\ [sessions[s] EXCEPT !.environment = sessionAt[c].seen, !.version = sessions[s].version + 1].version >= sessions[s].version
      BY <2>1, <2>2 DEF SessionRows
    <3> QED
      BY <1>5, <1>7, <2>3, <2>4, <3>1 DEF SetEnvironment
  <2> QED
    BY <1>3, <1>7, <2>4 DEF SetEnvironment
<1>8. ASSUME NEW c \in OpenCalls, CaptureBaseline(c) PROVE ClosedByItsReader
  <2> DEFINE s == sessionAt[c].session
  <2>1. sessions[s] \in SessionRows
    BY <1>8, ItsSession DEF CaptureBaseline, SessionCalls
  <2>2. sessions[s].version \in Nat
    BY <2>1 DEF SessionRows
  <2>3. CASE sessions' = [sessions EXCEPT ![s].baseline = IF userChange THEN "changed" ELSE "clean"]
    <3> DEFINE row == [sessions[s] EXCEPT !.baseline = IF userChange THEN "changed" ELSE "clean"]
    <3>1. row \in SessionRows /\ row.status = sessions[s].status /\ row.version >= sessions[s].version
      BY <2>1, <2>2 DEF SessionRows
    <3>2. sessions' = [sessions EXCEPT ![s] = row]
      BY <2>3
    <3> HIDE DEF row
    <3> QED
      BY <1>5, <1>8, <3>1, <3>2 DEF CaptureBaseline
  <2> QED
    BY <1>3, <1>8, <2>3 DEF CaptureBaseline
<1>9. ASSUME NEW c \in OpenCalls, Create(c) PROVE ClosedByItsReader
  BY <1>3, <1>4, <1>9 DEF Create, sessionStore
<1>10. ASSUME NEW c \in CloseCalls, Update(c) PROVE ClosedByItsReader
  BY <1>3, <1>6, <1>10 DEF Update
<1>11. CASE \E c \in OpenCalls : LookAtEnvironment(c) \/ SaveSnapshot(c) \/ Bind(c)
  BY <1>3, <1>11 DEF LookAtEnvironment, SaveSnapshot, Bind, sessionStore
<1>12. CASE \E c \in CloseCalls : CheckTasks(c) \/ ReadVersion(c) \/ Unbind(c)
  BY <1>3, <1>12 DEF CheckTasks, ReadVersion, Unbind, sessionStore
<1>13. CASE \E c \in UseCalls : UseStep(c)
  BY <1>3, <1>13 DEF UseStep, Resolve, StartCommand, sessionStore
<1>14. CASE \/ \E s \in SessionIds : CommandEnds(s)
            \/ \E k \in OpenKeys : RecordExpires(k) \/ DeleteRecord(k)
            \/ UserChanges \/ SessionCrash \/ UNCHANGED sessionVars
  BY <1>3, <1>14 DEF CommandEnds, RecordExpires, DeleteRecord, UserChanges, SessionCrash, sessionStore, sessionVars
<1> QED
  BY <1>7, <1>8, <1>9, <1>10, <1>11, <1>12, <1>13, <1>14 DEF SessionNext, OpenStep, CloseStep

LEMMA SessionsInductive == SessionSpec => []SessionInv
BY SessionStarts, SessionStepsKeep, PTL DEF SessionSpec

(* SessionsKept: while the record of a client's key is there, every open of the *)
(* key gets the session created under it, the newest of that key; a session     *)
(* has one creation event, its first; bindings, tasks and snapshots are of      *)
(* sessions there are; a session is closed only by a call that has read its     *)
(* current version, and stays closed.  remotesession.Service.Create, Update     *)
(* and Close, toolSessionOpen and toolRemoteSessionClose.                       *)
THEOREM SessionsAreKept == SessionSpec => SessionsKept
<1>1. SessionInv => SessionsHold
  BY DEF SessionInv
<1>2. SessionInv /\ [SessionNext]_sessionVars => ClosedByItsReader
  BY ReadersClose
<1> QED
  BY <1>1, <1>2, SessionsInductive, PTL DEF SessionSpec, SessionsKept

-----------------------------------------------------------------------------
(* The observer: ObsInv is inductive. *)

\* Event e is told by one of the first k frames; event e is one of the first k of the buffer.
Told(e, k) == \E i \in 1..k : wire[i] = Frame("event", e)
Held(e, k) == \E i \in 1..k : buffer[i] = e

\* Events that have been published, or never will be.
Published == IF unpublished THEN events - 1 ELSE events

\* Frames and connections speak of stored events only.
OnlyStored ==
  /\ lastSeen \subseteq 1..events /\ client.last <= events
  /\ \A i \in 1..Len(wire) : wire[i].seq <= events
  /\ \A i \in 1..Len(buffer) : buffer[i] <= events
  /\ conn.last <= events /\ gap <= events
  /\ unpublished => events > 0

\* An open connection has carried events only, to a client that listens; before
\* the history is sent, none at all.
ConnFits ==
  /\ conn.at # "none" => /\ client.at = "connected"
                         /\ \A i \in 1..Len(wire) : wire[i].type = "event"
  /\ conn.at = "subscribed" => wire = <<>> /\ conn.last = client.last

\* What is under way skips no event without an excuse, whatever is cut off its end.
WireComplete ==
  \A i \in 1..Len(wire) : wire[i].type = "event" =>
    \A e \in client.last + 1 .. wire[i].seq : e \in excused \/ Told(e, i)

\* What the connection counts as sent is under way.
SentComplete ==
  conn.at = "live" => \A e \in client.last + 1 .. conn.last : e \in excused \/ Told(e, Len(wire))

\* So does the buffer, which has all that the connection is still to send.
BufferComplete ==
  conn.at = "live" =>
    /\ \A i \in 1..Len(buffer) : \A e \in conn.last + 1 .. buffer[i] : e \in excused \/ Held(e, i)
    /\ \A e \in conn.last + 1 .. Published : e \in excused \/ Held(e, Len(buffer))

\* The next page of history ends where the pages read so far begin.
PagesFit ==
  /\ pager.at = "idle" => paged = {}
  /\ pager.at = "paging" => pager.cursor \in 1..pager.top

\* What the observer relies on, and what the pager does.
ServedInv ==
  OnlyStored /\ ConnFits /\ WireComplete /\ SentComplete /\ BufferComplete /\ LossExplained
PagerInv == PagesFit /\ PagesComplete

ObsInv == ObsTypeOK /\ ServedInv /\ PagerInv

\* What the constants are.
LEMMA ObsBounds ==
  /\ QueueCap \in Nat /\ MaxEvents \in Nat /\ MaxCuts \in Nat
  /\ BufferCap \in Nat /\ BufferCap > 0 /\ HistoryCap \in Nat /\ HistoryCap > 0
  /\ PageCap \in Nat /\ PageCap > 0
<1>1. {QueueCap, MaxEvents, MaxCuts} \subseteq Nat
  BY ObservationConstants
<1>2. {BufferCap, HistoryCap, PageCap} \subseteq Nat \ {0}
  BY ObservationConstants
<1>3. \A n \in Nat \ {0} : n \in Nat /\ n > 0
  OBVIOUS
<1>4. BufferCap \in Nat \ {0} /\ HistoryCap \in Nat \ {0} /\ PageCap \in Nat \ {0}
  BY <1>2, Zenon
<1> QED BY <1>1, <1>3, <1>4, Zenon

\* The newest k events are the last ones of an interval, the oldest its first.
LEMMA NewestOf ==
  ASSUME NEW b \in Nat, NEW k \in Nat, k > 0
  PROVE  Newest(1..b, k) = (IF b > k THEN b - k + 1 ELSE 1) .. b
<1>1. ASSUME NEW e \in 1..b
      PROVE  Cardinality({f \in 1..b : f > e}) = b - e
  <2>1. {f \in 1..b : f > e} = e + 1 .. b
    BY <1>1
  <2>2. Cardinality(e + 1 .. b) = IF e + 1 > b THEN 0 ELSE b - (e + 1) + 1
    BY <1>1, FS_Interval
  <2>3. Cardinality(e + 1 .. b) = b - e
    BY <1>1, <2>2
  <2> QED BY <2>1, <2>3, Zenon
<1> DEFINE C(e) == Cardinality({f \in 1..b : f > e})
<1>2. Newest(1..b, k) = {e \in 1..b : C(e) < k}
  BY Zenon DEF Newest
<1>3. \A e \in 1..b : C(e) = b - e
  BY <1>1, Zenon
<1> HIDE DEF C
<1>4. \A e : e \in Newest(1..b, k) <=> e \in 1..b /\ b - e < k
  BY <1>2, <1>3
<1>5. \A e : e \in Newest(1..b, k) <=> e \in (IF b > k THEN b - k + 1 ELSE 1) .. b
  BY <1>4
<1> QED BY <1>5, Zenon

LEMMA OldestOf ==
  ASSUME NEW a \in Nat, NEW b \in Nat, NEW k \in Nat, k > 0
  PROVE  Oldest(a + 1 .. b, k) = a + 1 .. (IF b > a + k THEN a + k ELSE b)
<1>1. ASSUME NEW e \in a + 1 .. b
      PROVE  Cardinality({f \in a + 1 .. b : f < e}) = e - a - 1
  <2>1. {f \in a + 1 .. b : f < e} = a + 1 .. e - 1
    BY <1>1
  <2>2. Cardinality(a + 1 .. e - 1) = IF a + 1 > e - 1 THEN 0 ELSE e - 1 - (a + 1) + 1
    BY <1>1, FS_Interval
  <2>3. Cardinality(a + 1 .. e - 1) = e - a - 1
    BY <1>1, <2>2
  <2> QED BY <2>1, <2>3, Zenon
<1> DEFINE C(e) == Cardinality({f \in a + 1 .. b : f < e})
<1>2. Oldest(a + 1 .. b, k) = {e \in a + 1 .. b : C(e) < k}
  BY Zenon DEF Oldest
<1>3. \A e \in a + 1 .. b : C(e) = e - a - 1
  BY <1>1, Zenon
<1> HIDE DEF C
<1>4. \A e : e \in Oldest(a + 1 .. b, k) <=> e \in a + 1 .. b /\ e - a - 1 < k
  BY <1>2, <1>3
<1>5. \A e : e \in Oldest(a + 1 .. b, k) <=> e \in a + 1 .. (IF b > a + k THEN a + k ELSE b)
  BY <1>4
<1> QED BY <1>5, Zenon

\* A window of history is an interval of stored events after the given one.
LEMMA WindowOf ==
  ASSUME events \in Nat, NEW after \in Nat, after <= events
  PROVE  \E lo \in Nat, hi \in Nat :
           /\ Window(after) = lo .. hi
           /\ lo > after /\ hi <= events /\ after <= hi
<1> USE ObsBounds
<1>1. CASE after > 0
  <2> DEFINE top == IF events > after + HistoryCap THEN after + HistoryCap ELSE events
  <2>1. Window(after) = after + 1 .. top
    BY <1>1, OldestOf DEF Window
  <2>2. after + 1 \in Nat /\ top \in Nat /\ after + 1 > after /\ top <= events /\ after <= top
    OBVIOUS
  <2> QED BY <2>1, <2>2
<1>2. CASE after = 0
  <2> DEFINE bottom == IF events > HistoryCap THEN events - HistoryCap + 1 ELSE 1
  <2>1. Window(after) = bottom .. events
    BY <1>2, NewestOf DEF Window
  <2>2. bottom \in Nat /\ bottom > after /\ after <= events
    BY <1>2
  <2> QED BY <2>1, <2>2
<1> QED BY <1>1, <1>2

\* The frames of an interval of events are these events, one by one.
LEMMA FramesOf ==
  ASSUME NEW lo \in Nat, NEW hi \in Nat, lo > 0
  PROVE  EventFrames(lo .. hi) =
           [i \in 1 .. (IF lo > hi THEN 0 ELSE hi - lo + 1) |-> Frame("event", lo + i - 1)]
<1>1. Cardinality(lo .. hi) = IF lo > hi THEN 0 ELSE hi - lo + 1
  BY FS_Interval
<1>2. ASSUME NEW e \in lo .. hi
      PROVE  Cardinality({f \in lo .. hi : f < e}) = e - lo
  <2>1. {f \in lo .. hi : f < e} = lo .. e - 1
    BY <1>2
  <2>2. Cardinality(lo .. e - 1) = IF lo > e - 1 THEN 0 ELSE e - 1 - lo + 1
    BY <1>2, FS_Interval
  <2>3. Cardinality(lo .. e - 1) = e - lo
    BY <1>2, <2>2
  <2> QED BY <2>1, <2>3, Zenon
<1>3. ASSUME NEW i \in 1 .. (IF lo > hi THEN 0 ELSE hi - lo + 1)
      PROVE  (CHOOSE e \in lo .. hi : Cardinality({f \in lo .. hi : f < e}) = i - 1) = lo + i - 1
  <2> DEFINE P(e) == Cardinality({f \in lo .. hi : f < e}) = i - 1
  <2>1. lo + i - 1 \in lo .. hi /\ lo + i - 1 - lo = i - 1
    BY <1>3
  <2>2. P(lo + i - 1)
    BY <1>2, <2>1
  <2>3. \A e \in lo .. hi : P(e) => e = lo + i - 1
    BY <1>2, <1>3
  <2> HIDE DEF P
  <2>4. (CHOOSE e \in lo .. hi : P(e)) = lo + i - 1
    BY <2>1, <2>2, <2>3
  <2> QED BY <2>4 DEF P
<1> DEFINE E(i) == CHOOSE e \in lo .. hi : Cardinality({f \in lo .. hi : f < e}) = i - 1
           n == IF lo > hi THEN 0 ELSE hi - lo + 1
<1>4. EventFrames(lo .. hi) = [i \in 1..Cardinality(lo .. hi) |-> Frame("event", E(i))]
  BY Zenon DEF EventFrames
<1>5. \A i \in 1..n : E(i) = lo + i - 1
  BY <1>3, Zenon
<1>6. Cardinality(lo .. hi) = n
  BY <1>1
<1> HIDE DEF E, n
<1>7. EventFrames(lo .. hi) = [i \in 1..n |-> Frame("event", lo + i - 1)]
  BY <1>4, <1>5, <1>6, Zenon
<1> QED BY <1>7 DEF n

\* Frames.
LEMMA FrameType == \A t \in {"event", "gap", "eof", "error"}, e \in 0..MaxEvents :
                     Frame(t, e) \in Frames /\ Frame(t, e).type = t /\ Frame(t, e).seq = e
BY DEF Frame, Frames

\* The end of a connection is told after what was sent, or what is left of it.
LEMMA EndOf ==
  ASSUME NEW sent \in Seq(Frames), EndWith(sent)
  PROVE  /\ wire' \in Seq(Frames) /\ Len(wire') = Len(sent) + 1
         /\ \A i \in 1..Len(sent) : wire'[i] = sent[i]
         /\ wire'[Len(sent) + 1].type = "eof" /\ wire'[Len(sent) + 1].seq = 0
         /\ conn' = NoConn
<1>1. 0 \in 0..MaxEvents
  BY ObsBounds
<1>2. Frame("eof", 0) \in Frames /\ Frame("eof", 0).type = "eof" /\ Frame("eof", 0).seq = 0
  BY <1>1, FrameType
<1> QED BY <1>2, AppendProperties DEF EndWith

LEMMA CutOf ==
  ASSUME wire \in Seq(Frames), NEW k \in 0..Len(wire)
  PROVE  /\ SubSeq(wire, 1, k) \in Seq(Frames) /\ Len(SubSeq(wire, 1, k)) = k
         /\ \A i \in 1..k : SubSeq(wire, 1, k)[i] = wire[i]
<1>1. \A i \in 1..k : wire[i] \in Frames
  BY ElementOfSeq
<1>2. /\ SubSeq(wire, 1, k) \in Seq(Frames)
      /\ Len(SubSeq(wire, 1, k)) = IF 1 <= k THEN k - 1 + 1 ELSE 0
      /\ \A i \in 1 .. k - 1 + 1 : SubSeq(wire, 1, k)[i] = wire[1 + i - 1]
  BY <1>1, SubSeqProperties
<1> QED BY <1>2

\* The history sends the events of the window one by one; the last of them, if it
\* has any, is what the connection has sent.
LEMMA HistoryOf ==
  ASSUME ObsTypeOK, OnlyStored, ConnFits, SendHistory
  PROVE  \E lo \in 1..events + 1, hi \in 0..events :
           /\ conn.last < lo /\ conn.last <= hi
           /\ wire' = [i \in 1 .. (IF lo > hi THEN 0 ELSE hi - lo + 1) |-> Frame("event", lo + i - 1)]
           /\ conn' = [at |-> "live", last |-> IF lo > hi THEN conn.last ELSE hi]
           /\ excused' = excused \cup ((conn.last + 1 .. events) \ (lo .. hi))
<1> DEFINE window == Window(conn.last)
<1>1. /\ events \in Nat /\ conn.last \in Nat /\ conn.last <= events /\ wire = <<>>
      /\ wire' = wire \o EventFrames(window)
      /\ conn' = [at |-> "live", last |-> Max(window \cup {conn.last})]
      /\ excused' = excused \cup ((conn.last + 1 .. events) \ window)
  <2>1. events \in 0..MaxEvents /\ conn.last \in 0..MaxEvents /\ conn.last <= events
    BY Zenon DEF ObsTypeOK, OnlyStored
  <2>2. wire = <<>>
    BY Zenon DEF SendHistory, ConnFits
  <2> QED BY <2>1, <2>2, ObsBounds DEF SendHistory
<1>2. PICK lo \in Nat, hi \in Nat : window = lo .. hi /\ lo > conn.last /\ hi <= events /\ conn.last <= hi
  BY <1>1, WindowOf
<1> HIDE DEF window
<1> DEFINE low == IF lo > hi THEN hi + 1 ELSE lo
<1>3. /\ low \in 1..events + 1 /\ hi \in 0..events /\ window = low .. hi
      /\ conn.last < low /\ conn.last <= hi /\ low \in Nat /\ low > 0
  <2>1. low .. hi = lo .. hi
    OBVIOUS
  <2> QED BY <1>1, <1>2, <2>1
<1> HIDE DEF low
<1>4. Max(window \cup {conn.last}) = IF low > hi THEN conn.last ELSE hi
  BY <1>1, <1>3 DEF Max
<1> DEFINE F == [i \in 1 .. (IF low > hi THEN 0 ELSE hi - low + 1) |-> Frame("event", low + i - 1)]
<1>5. EventFrames(window) = F
  BY <1>3, FramesOf
<1>6. F \in Seq(Frames)
  <2>1. \A i \in 1 .. (IF low > hi THEN 0 ELSE hi - low + 1) : low + i - 1 \in 0..events
    BY <1>1, <1>3
  <2>2. 0..events \subseteq 0..MaxEvents
    BY ObsBounds DEF ObsTypeOK
  <2>3. \A i \in 1 .. (IF low > hi THEN 0 ELSE hi - low + 1) : Frame("event", low + i - 1) \in Frames
    BY <2>1, <2>2, FrameType
  <2>4. (IF low > hi THEN 0 ELSE hi - low + 1) \in Nat
    BY <1>1, <1>3
  <2> QED BY <2>3, <2>4, IsASeq
<1> HIDE DEF F
<1>7. wire' = F
  BY <1>1, <1>5, <1>6, ConcatEmptySeq
<1> QED BY <1>1, <1>3, <1>4, <1>7 DEF F

\* A page is what comes before the cursor, or before the end of what is stored; one
\* that is not full has the first event.
LEMMA PageOf ==
  ASSUME ObsTypeOK, PagesFit, ReadPage
  PROVE  \E lo \in 1..MaxEvents + 1, last \in 0..MaxEvents :
           /\ last = (IF pager.at = "paging" THEN pager.cursor - 1 ELSE events)
           /\ lo <= last + 1 /\ (last - lo + 1 # PageCap => lo = 1)
           /\ pager' = [at |-> IF last - lo + 1 = PageCap THEN "paging" ELSE "done",
                        cursor |-> IF lo > last THEN 0 ELSE lo,
                        top |-> IF pager.at = "idle" THEN events ELSE pager.top]
           /\ paged' = paged \cup (lo .. last)
<1> DEFINE last == IF pager.at = "paging" THEN pager.cursor - 1 ELSE events
           lo == IF last > PageCap THEN last - PageCap + 1 ELSE 1
           page == Newest(1..last, PageCap)
<1>1. last \in 0..MaxEvents
  <2>1. events \in 0..MaxEvents /\ pager.cursor \in 0..MaxEvents
    BY DEF ObsTypeOK
  <2>2. pager.at = "paging" => pager.cursor > 0
    <3>1. pager.at = "paging" => pager.cursor \in 1..pager.top
      BY Zenon DEF PagesFit
    <3>2. pager.top \in Nat
      BY ObsBounds DEF ObsTypeOK
    <3> QED BY <3>1, <3>2
  <2> QED BY <2>1, <2>2, ObsBounds
<1>2. (IF pager.at = "paging" THEN 1 .. pager.cursor - 1 ELSE 1..events) = 1..last
  OBVIOUS
<1>3. /\ paged' = paged \cup page
      /\ pager' = [at |-> IF Cardinality(page) = PageCap THEN "paging" ELSE "done",
                   cursor |-> IF page = {} THEN 0 ELSE Min(page),
                   top |-> IF pager.at = "idle" THEN events ELSE pager.top]
  <2> HIDE DEF last
  <2> QED BY <1>2 DEF ReadPage
<1> HIDE DEF last
<1>4. page = lo .. last
  BY <1>1, NewestOf, ObsBounds
<1>5. lo \in 1..MaxEvents + 1 /\ lo <= last + 1 /\ (last - lo + 1 # PageCap => lo = 1)
  BY <1>1, ObsBounds
<1>6. Cardinality(page) = last - lo + 1
  <2> HIDE DEF page, lo
  <2>1. Cardinality(lo .. last) = IF lo > last THEN 0 ELSE last - lo + 1
    BY <1>1, <1>5, FS_Interval
  <2> QED BY <1>1, <1>4, <1>5, <2>1, ObsBounds
<1> HIDE DEF page, lo
<1>7. (IF page = {} THEN 0 ELSE Min(page)) = IF lo > last THEN 0 ELSE lo
  <2>1. CASE lo > last
    BY <1>1, <1>4, <1>5, <2>1, ObsBounds
  <2>2. CASE lo <= last
    <3>1. lo \in page /\ \A e \in page : lo <= e
      BY <1>1, <1>4, <1>5, <2>2, ObsBounds
    <3>2. \A x \in page : (\A y \in page : x =< y) => x = lo
      BY <1>1, <1>4, <1>5, <2>2, <3>1, ObsBounds
    <3>3. Min(page) = lo
      BY <3>1, <3>2 DEF Min
    <3> QED BY <1>1, <1>5, <2>2, <3>1, <3>3, ObsBounds
  <2> QED BY <1>1, <1>5, <2>1, <2>2, ObsBounds
<1>8. last = (IF pager.at = "paging" THEN pager.cursor - 1 ELSE events)
  BY DEF last
<1> QED BY <1>1, <1>3, <1>4, <1>5, <1>6, <1>7, <1>8, Zenon

\* The types are kept.
LEMMA ObsTypeStep ==
  ASSUME ObsTypeOK, OnlyStored, ConnFits, PagesFit, [ObsNext]_obsVars
  PROVE  ObsTypeOK'
<1> USE ObsBounds
<1> USE DEF ObsTypeOK
<1>1. CASE Enqueue
  BY <1>1 DEF Enqueue, obsStream, obsReader
<1>2. CASE TakeQueued
  <2>1. recorder' \in [holds : BOOLEAN, open : BOOLEAN] /\ queue' \in 0..QueueCap
    <3> HIDE DEF ObsTypeOK
    <3>1. recorder \in [holds : BOOLEAN, open : BOOLEAN] /\ queue \in 0..QueueCap
      BY Zenon DEF ObsTypeOK
    <3>2. recorder' = [recorder EXCEPT !.holds = TRUE] /\ queue > 0 /\ queue' = queue - 1
      BY <1>2, Zenon DEF TakeQueued
    <3>3. recorder' \in [holds : BOOLEAN, open : BOOLEAN]
      BY <3>1, <3>2
    <3>4. queue' \in 0..QueueCap
      BY <3>1, <3>2
    <3> QED BY <3>3, <3>4
  <2> QED BY <1>2, <2>1 DEF TakeQueued, obsStream, obsReader
<1>3. CASE CloseRecorder
  BY <1>3 DEF CloseRecorder, obsStream, obsReader
<1>4. CASE RecordQueued
  <2>1. recorder' \in [holds : BOOLEAN, open : BOOLEAN]
    <3> HIDE DEF ObsTypeOK
    <3>1. recorder \in [holds : BOOLEAN, open : BOOLEAN]
      BY Zenon DEF ObsTypeOK
    <3> QED BY <1>4, <3>1 DEF RecordQueued
  <2>2. events' \in 0..MaxEvents /\ unpublished' \in BOOLEAN /\ cuts' \in 0..MaxCuts
    <3>1. CASE Store /\ UNCHANGED cuts
      BY <3>1 DEF Store
    <3>2. CASE Cut /\ UNCHANGED <<events, unpublished>>
      BY <3>2 DEF Cut
    <3> QED BY <1>4, <3>1, <3>2, Zenon DEF RecordQueued
  <2> QED BY <1>4, <2>1, <2>2 DEF RecordQueued, obsStream, obsReader
<1>5. CASE RecordDirect
  BY <1>5 DEF RecordDirect, Store, obsStream, obsReader
<1>6. CASE Publish
  <2>1. events \in 1..MaxEvents
    BY <1>6 DEF Publish, OnlyStored
  <2>2. conn.at # "none" /\ Len(buffer) < BufferCap => Append(buffer, events) \in Seq(1..MaxEvents) /\ Len(Append(buffer, events)) <= BufferCap
    BY <2>1, AppendProperties, LenProperties
  <2>3. buffer' \in Seq(1..MaxEvents) /\ Len(buffer') <= BufferCap
    BY <1>6, <2>2 DEF Publish
  <2>4. gap' \in 0..MaxEvents /\ excused' \subseteq 1..MaxEvents
    BY <1>6, <2>1 DEF Publish
  <2> QED BY <1>6, <2>3, <2>4 DEF Publish, obsReader
<1>7. CASE Connect
  <2>1. <<>> \in Seq(1..MaxEvents) /\ Len(<<>>) = 0 /\ <<>> \in Seq(Frames)
    BY EmptySeq
  <2>2. /\ client' \in [at : {"dialing", "connected", "failed"}, last : 0..MaxEvents]
        /\ conn' \in [at : {"none", "subscribed", "live"}, last : 0..MaxEvents]
    <3> HIDE DEF ObsTypeOK
    <3>1. client \in [at : {"dialing", "connected", "failed"}, last : 0..MaxEvents]
      BY Zenon DEF ObsTypeOK
    <3> QED BY <1>7, <3>1 DEF Connect
  <2>3. buffer' = <<>> /\ gap' = 0 /\ wire' = <<>>
    BY <1>7 DEF Connect
  <2>4. buffer' \in Seq(1..MaxEvents) /\ Len(buffer') <= BufferCap /\ gap' \in 0..MaxEvents /\ wire' \in Seq(Frames)
    <3> HIDE DEF ObsTypeOK
    <3> QED BY <2>1, <2>3
  <2> QED BY <1>7, <2>2, <2>4 DEF Connect, obsWriter, obsReader
<1>8. CASE SendHistory
  <2>1. PICK lo \in 1..events + 1, hi \in 0..events :
          /\ conn.last < lo /\ conn.last <= hi
          /\ wire' = [i \in 1 .. (IF lo > hi THEN 0 ELSE hi - lo + 1) |-> Frame("event", lo + i - 1)]
          /\ conn' = [at |-> "live", last |-> IF lo > hi THEN conn.last ELSE hi]
          /\ excused' = excused \cup ((conn.last + 1 .. events) \ (lo .. hi))
    BY <1>8, HistoryOf
  <2>2. wire' \in Seq(Frames)
    <3> DEFINE n == IF lo > hi THEN 0 ELSE hi - lo + 1
    <3>1. n \in Nat /\ \A i \in 1..n : lo + i - 1 \in 0..MaxEvents
      OBVIOUS
    <3>2. \A i \in 1..n : Frame("event", lo + i - 1) \in Frames
      BY <3>1, FrameType
    <3>3. wire' = [i \in 1..n |-> Frame("event", lo + i - 1)]
      BY <2>1
    <3> HIDE DEF n
    <3> QED BY <3>1, <3>2, <3>3, IsASeq
  <2>3. conn' \in [at : {"none", "subscribed", "live"}, last : 0..MaxEvents]
    BY <2>1
  <2>4. excused' \subseteq 1..MaxEvents
    <3>1. conn.last \in Nat /\ events \in 0..MaxEvents /\ excused \subseteq 1..MaxEvents
      OBVIOUS
    <3>2. conn.last + 1 .. events \subseteq 1..MaxEvents
      BY <3>1
    <3> HIDE DEF ObsTypeOK
    <3> QED BY <2>1, <3>1, <3>2, Zenon
  <2> QED BY <1>8, <2>2, <2>3, <2>4 DEF SendHistory, obsWriter, obsReader
<1>9. CASE HistoryFails
  <2>1. Append(wire, Frame("error", 0)) \in Seq(Frames)
    <3>1. Frame("error", 0) \in Frames
      BY FrameType
    <3> QED BY <3>1, AppendProperties
  <2>2. wire' \in Seq(Frames) /\ conn' = NoConn
    BY <1>9, <2>1, EndOf DEF HistoryFails
  <2> QED BY <1>9, <2>2 DEF HistoryFails, NoConn, Cut, obsWriter, obsReader
<1>10. CASE SendEvent
  <2>1. Head(buffer) \in 1..MaxEvents /\ Tail(buffer) \in Seq(1..MaxEvents) /\ Len(Tail(buffer)) = Len(buffer) - 1
    BY <1>10, HeadTailProperties DEF SendEvent
  <2>2. Len(buffer') <= BufferCap /\ buffer' \in Seq(1..MaxEvents)
    BY <1>10, <2>1, LenProperties DEF SendEvent
  <2>3. Append(wire, Frame("event", Head(buffer))) \in Seq(Frames)
    BY <2>1, FrameType, AppendProperties
  <2>4. wire' \in Seq(Frames) /\ conn' \in [at : {"none", "subscribed", "live"}, last : 0..MaxEvents]
    <3>1. wire \in Seq(Frames) /\ conn \in [at : {"none", "subscribed", "live"}, last : 0..MaxEvents]
      OBVIOUS
    <3> HIDE DEF ObsTypeOK
    <3>2. CASE Head(buffer) <= conn.last
      BY <1>10, <3>1, <3>2, Zenon DEF SendEvent
    <3>3. CASE ~(Head(buffer) <= conn.last)
      <4>1. wire' = Append(wire, Frame("event", Head(buffer))) /\ conn' = [conn EXCEPT !.last = Head(buffer)]
        BY <1>10, <3>3, Zenon DEF SendEvent
      <4>2. conn' \in [at : {"none", "subscribed", "live"}, last : 0..MaxEvents]
        BY <2>1, <3>1, <4>1
      <4> QED BY <2>3, <4>1, <4>2, Zenon
    <3> QED BY <3>2, <3>3, Zenon
  <2> QED BY <1>10, <2>2, <2>4 DEF SendEvent, obsWriter, obsReader
<1>11. CASE SendGap
  <2>1. Append(wire, Frame("gap", gap)) \in Seq(Frames)
    BY FrameType, AppendProperties
  <2>2. EndWith(Append(wire, Frame("gap", gap))) => wire' \in Seq(Frames) /\ conn' = NoConn
    BY <2>1, EndOf
  <2>3. wire' \in Seq(Frames) /\ conn' \in [at : {"none", "subscribed", "live"}, last : 0..MaxEvents]
    BY <1>11, <2>2 DEF SendGap, NoConn
  <2> QED BY <1>11, <2>3 DEF SendGap, obsWriter, obsReader
<1>12. CASE Break
  <2>1. PICK k \in 0..Len(wire) : EndWith(SubSeq(wire, 1, k))
    BY <1>12 DEF Break
  <2>2. wire' \in Seq(Frames) /\ conn' = NoConn
    BY <2>1, CutOf, EndOf
  <2> QED BY <1>12, <2>2 DEF Break, NoConn, Cut, obsWriter, obsReader
<1>13. CASE ObsRestart
  <2>1. wire' \in Seq(Frames)
    <3>1. CASE conn.at # "none"
      <4>1. PICK k \in 0..Len(wire) : wire' = Append(SubSeq(wire, 1, k), Frame("eof", 0))
        BY <1>13, <3>1 DEF ObsRestart
      <4>2. EndWith(SubSeq(wire, 1, k))
        BY <1>13, <4>1 DEF EndWith, ObsRestart
      <4> QED BY <4>2, CutOf, EndOf
    <3> QED BY <1>13, <3>1 DEF ObsRestart
  <2>2. <<>> \in Seq(1..MaxEvents) /\ Len(<<>>) = 0
    BY EmptySeq
  <2>3. buffer' \in Seq(1..MaxEvents) /\ Len(buffer') <= BufferCap
    <3> HIDE DEF ObsTypeOK
    <3>1. buffer' = <<>>
      BY <1>13 DEF ObsRestart
    <3> QED BY <2>2, <3>1
  <2>4. /\ queue' \in 0..QueueCap /\ recorder' \in [holds : BOOLEAN, open : BOOLEAN]
        /\ unpublished' \in BOOLEAN /\ conn' \in [at : {"none", "subscribed", "live"}, last : 0..MaxEvents]
        /\ gap' \in 0..MaxEvents
    <3> HIDE DEF ObsTypeOK
    <3>1. /\ queue' = 0 /\ recorder' = [holds |-> FALSE, open |-> TRUE] /\ unpublished' = FALSE
          /\ conn' = [at |-> "none", last |-> 0] /\ gap' = 0
      BY <1>13, Zenon DEF ObsRestart, NoConn
    <3>2. 0 \in 0..QueueCap /\ 0 \in 0..MaxEvents
      OBVIOUS
    <3> QED BY <3>1, <3>2
  <2> QED BY <1>13, <2>1, <2>3, <2>4 DEF ObsRestart, Cut, obsReader
<1>14. CASE ReadFrame
  <2>1. Head(wire) \in Frames /\ Tail(wire) \in Seq(Frames)
    BY <1>14, HeadTailProperties DEF ReadFrame
  <2>2. wire' \in Seq(Frames)
    BY <1>14, <2>1 DEF ReadFrame
  <2>3. Head(wire).seq \in 0..MaxEvents
    BY <2>1 DEF Frames
  <2>4. /\ client' \in [at : {"dialing", "connected", "failed"}, last : 0..MaxEvents]
        /\ lastSeen' \subseteq 1..MaxEvents
    <3>1. client \in [at : {"dialing", "connected", "failed"}, last : 0..MaxEvents] /\ lastSeen \subseteq 1..MaxEvents
      OBVIOUS
    <3> HIDE DEF ObsTypeOK
    <3> QED BY <1>14, <2>3, <3>1 DEF ReadFrame
  <2> QED BY <1>14, <2>2, <2>4 DEF ReadFrame, obsWriter, obsStream, obsReader
<1>15. CASE ReadPage
  <2>1. PICK lo \in 1..MaxEvents + 1, last \in 0..MaxEvents :
          /\ pager' = [at |-> IF last - lo + 1 = PageCap THEN "paging" ELSE "done",
                       cursor |-> IF lo > last THEN 0 ELSE lo,
                       top |-> IF pager.at = "idle" THEN events ELSE pager.top]
          /\ paged' = paged \cup (lo .. last)
    BY <1>15, PageOf
  <2>2. paged' \subseteq 1..MaxEvents
    BY <2>1
  <2>3. pager.top \in 0..MaxEvents
    OBVIOUS
  <2>4. pager' \in [at : {"idle", "paging", "done"}, cursor : 0..MaxEvents, top : 0..MaxEvents]
    BY <2>1, <2>3
  <2> QED BY <1>15, <2>2, <2>4 DEF ReadPage, obsWriter, obsStream
<1>16. CASE UNCHANGED obsVars
  BY <1>16 DEF obsVars, obsWriter, obsStream, obsReader
<1> QED
  BY <1>1, <1>2, <1>3, <1>4, <1>5, <1>6, <1>7, <1>8, <1>9, <1>10, <1>11, <1>12, <1>13, <1>14,
     <1>15, <1>16 DEF ObsNext, ObsServing

-----------------------------------------------------------------------------
(* The observer: every step keeps ServedInv. *)

\* What is quiet for the observer.
LEMMA QuietServed ==
  ASSUME ServedInv, UNCHANGED <<events, unpublished, obsStream, wire, client, lastSeen, excused>>
  PROVE  ServedInv'
BY DEF ServedInv, OnlyStored, ConnFits, WireComplete, SentComplete, BufferComplete, LossExplained,
       Told, Held, Published, obsStream

\* An event is stored.
LEMMA StoreServed ==
  ASSUME ObsTypeOK, ServedInv, Store, UNCHANGED <<obsStream, wire, client, lastSeen, excused>>
  PROVE  ServedInv'
<1>1. events \in Nat /\ events' = events + 1 /\ ~unpublished /\ unpublished' = TRUE
  BY DEF ObsTypeOK, Store
<1>2. OnlyStored'
  <2>1. /\ \A i \in 1..Len(wire) : wire[i].seq \in Nat
        /\ \A i \in 1..Len(buffer) : buffer[i] \in Nat
    <3>1. \A i \in 1..Len(wire) : wire[i] \in Frames
      BY ElementOfSeq DEF ObsTypeOK
    <3>2. \A i \in 1..Len(buffer) : buffer[i] \in 1..MaxEvents
      BY ElementOfSeq DEF ObsTypeOK
    <3> QED BY <3>1, <3>2, ObsBounds DEF Frames
  <2>2. client.last \in Nat /\ conn.last \in Nat /\ gap \in Nat
    BY ObsBounds DEF ObsTypeOK
  <2>3. UNCHANGED <<wire, buffer, client, lastSeen, conn, gap>>
    BY DEF obsStream
  <2> QED BY <1>1, <2>1, <2>2, <2>3 DEF OnlyStored, ServedInv
<1>3. Published' = Published
  BY <1>1 DEF Published
<1>4. (ConnFits /\ WireComplete /\ SentComplete /\ LossExplained)'
  BY DEF ServedInv, ConnFits, WireComplete, SentComplete, LossExplained, Told, obsStream
<1>5. BufferComplete'
  BY <1>3 DEF ServedInv, BufferComplete, Held, obsStream
<1> QED BY <1>2, <1>4, <1>5 DEF ServedInv

\* A connection ends: some of what was sent may be lost, and no event comes after it.
LEMMA EndServed ==
  ASSUME ObsTypeOK, ServedInv, NEW n \in 0..Len(wire), wire' \in Seq(Frames), Len(wire') >= n,
         \A i \in 1..n : wire'[i] = wire[i],
         \A i \in n + 1 .. Len(wire') : wire'[i].type # "event" /\ wire'[i].seq <= events,
         conn' = NoConn, gap' \in {0, gap}, buffer' \in {<<>>, buffer},
         unpublished' => unpublished,
         UNCHANGED <<events, client, lastSeen, excused>>
  PROVE  ServedInv'
<1>1. events \in Nat /\ conn'.at = "none" /\ conn'.last = 0 /\ Len(wire') \in Nat /\ Len(wire) \in Nat
  BY ObsBounds, LenProperties DEF ObsTypeOK, NoConn
<1>2. \A i \in 1..Len(wire') : i \in 1..n \/ i \in n + 1 .. Len(wire')
  BY <1>1
<1>3. OnlyStored'
  <2>1. \A i \in 1..n : wire'[i].seq <= events
    BY <1>1 DEF ServedInv, OnlyStored
  <2>2. \A i \in 1..Len(wire') : wire'[i].seq <= events
    BY <1>2, <2>1
  <2>3. \A i \in 1..Len(buffer') : buffer'[i] <= events
    <3>1. CASE buffer' = <<>>
      BY <3>1, EmptySeq
    <3>2. CASE buffer' = buffer
      BY <3>2 DEF ServedInv, OnlyStored
    <3> QED BY <3>1, <3>2
  <2>4. gap' <= events
    BY <1>1 DEF ServedInv, OnlyStored
  <2> QED BY <1>1, <2>2, <2>3, <2>4 DEF ServedInv, OnlyStored
<1>4. ConnFits' /\ SentComplete' /\ BufferComplete'
  BY <1>1 DEF ConnFits, SentComplete, BufferComplete
<1>5. WireComplete'
  <2> SUFFICES ASSUME NEW i \in 1..Len(wire'), wire'[i].type = "event",
                      NEW e \in client.last + 1 .. wire'[i].seq
               PROVE  e \in excused \/ \E j \in 1..i : wire'[j] = Frame("event", e)
    BY DEF WireComplete, Told
  <2>1. i \in 1..n /\ wire'[i] = wire[i] /\ i \in 1..Len(wire)
    BY <1>1, <1>2
  <2>2. e \in excused \/ \E j \in 1..i : wire[j] = Frame("event", e)
    BY <2>1 DEF ServedInv, WireComplete, Told
  <2>3. \A j \in 1..i : wire'[j] = wire[j]
    BY <2>1
  <2> QED BY <2>2, <2>3
<1>6. LossExplained'
  BY DEF ServedInv, LossExplained
<1> QED BY <1>3, <1>4, <1>5, <1>6 DEF ServedInv

LEMMA PublishServed ==
  ASSUME ObsTypeOK, ServedInv, Publish
  PROVE  ServedInv'
<1>1. /\ events \in 1..MaxEvents /\ unpublished /\ ~unpublished' /\ conn.last \in Nat
      /\ client.last \in Nat /\ Len(buffer) \in Nat /\ buffer \in Seq(1..MaxEvents)
      /\ UNCHANGED <<events, conn, wire, client, lastSeen>>
  BY ObsBounds, LenProperties DEF ObsTypeOK, ServedInv, OnlyStored, Publish
<1>2. excused \subseteq excused'
  BY DEF Publish
<1>3. Published = events - 1 /\ Published' = events
  BY <1>1 DEF Published
<1>4. ConnFits' /\ WireComplete' /\ SentComplete' /\ LossExplained'
  BY <1>1, <1>2 DEF ServedInv, ConnFits, WireComplete, SentComplete, LossExplained, Told
<1>5. CASE UNCHANGED buffer
  <2>1. conn.at = "live" => \A e \in conn.last + 1 .. events : e \in excused' \/ Held(e, Len(buffer))
    <3> SUFFICES ASSUME conn.at = "live", NEW e \in conn.last + 1 .. events
                 PROVE  e \in excused' \/ Held(e, Len(buffer))
      OBVIOUS
    <3>1. events \in excused'
      BY <1>5 DEF Publish, Held
    <3>2. CASE e = events
      BY <3>1, <3>2
    <3>3. CASE e # events
      <4>1. e \in conn.last + 1 .. events - 1
        BY <1>1, <3>3
      <4> QED BY <1>2, <1>3, <4>1 DEF ServedInv, BufferComplete
    <3> QED BY <3>2, <3>3
  <2>2. BufferComplete'
    BY <1>1, <1>2, <1>3, <1>5, <2>1 DEF ServedInv, BufferComplete, Held
  <2>3. gap' <= events
    BY <1>1 DEF ServedInv, OnlyStored, Publish
  <2>4. OnlyStored'
    BY <1>1, <1>5, <2>3 DEF ServedInv, OnlyStored
  <2> QED BY <1>4, <2>2, <2>4 DEF ServedInv
<1>6. CASE buffer' = Append(buffer, events) /\ UNCHANGED <<gap, excused>>
  <2>1. /\ Len(buffer') = Len(buffer) + 1 /\ buffer'[Len(buffer) + 1] = events
        /\ \A i \in 1..Len(buffer) : buffer'[i] = buffer[i]
    BY <1>1, <1>6, AppendProperties
  <2>2. OnlyStored'
    <3>1. \A i \in 1..Len(buffer') : buffer'[i] <= events
      <4> TAKE i \in 1..Len(buffer')
      <4>1. i \in 1..Len(buffer) \/ i = Len(buffer) + 1
        BY <1>1, <2>1
      <4> QED BY <1>1, <2>1, <4>1 DEF ServedInv, OnlyStored
    <3> QED BY <1>1, <1>6, <3>1 DEF ServedInv, OnlyStored
  <2>3. ASSUME conn.at = "live", NEW e \in conn.last + 1 .. events
        PROVE  e \in excused' \/ \E k \in 1..Len(buffer) + 1 : buffer'[k] = e
    <3>1. CASE e = events
      BY <1>1, <2>1, <3>1
    <3>2. CASE e # events
      <4>1. e \in conn.last + 1 .. events - 1
        BY <1>1, <2>3, <3>2
      <4>2. e \in excused \/ \E j \in 1..Len(buffer) : buffer[j] = e
        BY <1>3, <2>3, <4>1 DEF ServedInv, BufferComplete, Held
      <4>3. ASSUME NEW j \in 1..Len(buffer), buffer[j] = e
            PROVE  \E k \in 1..Len(buffer) + 1 : buffer'[k] = e
        BY <1>1, <2>1, <4>3
      <4> QED BY <1>2, <4>2, <4>3
    <3> QED BY <3>1, <3>2
  <2>4. ASSUME conn.at = "live", NEW i \in 1..Len(buffer'), NEW e \in conn.last + 1 .. buffer'[i]
        PROVE  e \in excused' \/ \E j \in 1..i : buffer'[j] = e
    <3>1. CASE i = Len(buffer) + 1
      BY <2>1, <2>3, <2>4, <3>1
    <3>2. CASE i # Len(buffer) + 1
      <4>1. i \in 1..Len(buffer) /\ buffer'[i] = buffer[i] /\ \A j \in 1..i : buffer'[j] = buffer[j]
        BY <1>1, <2>1, <3>2
      <4>2. e \in excused \/ \E j \in 1..i : buffer[j] = e
        BY <2>4, <4>1 DEF ServedInv, BufferComplete, Held
      <4> QED BY <1>2, <4>1, <4>2
    <3> QED BY <3>1, <3>2
  <2>5. BufferComplete'
    BY <1>1, <1>3, <2>1, <2>3, <2>4 DEF BufferComplete, Held
  <2> QED BY <1>4, <2>2, <2>5 DEF ServedInv
<1> QED BY <1>5, <1>6 DEF Publish

LEMMA ConnectServed ==
  ASSUME ObsTypeOK, ServedInv, Connect
  PROVE  ServedInv'
<1>1. /\ client.last \in Nat /\ events \in Nat /\ client.last <= events
      /\ client' = [client EXCEPT !.at = "connected"]
      /\ client \in [at : {"dialing", "connected", "failed"}, last : 0..MaxEvents]
      /\ conn' = [at |-> "subscribed", last |-> client.last]
      /\ buffer' = <<>> /\ gap' = 0 /\ wire' = <<>>
      /\ UNCHANGED <<events, unpublished, lastSeen, excused>>
  BY ObsBounds DEF ObsTypeOK, ServedInv, OnlyStored, Connect, obsWriter
<1>2. client'.at = "connected" /\ client'.last = client.last /\ conn'.at = "subscribed" /\ conn'.last = client.last
  BY <1>1
<1>3. Len(wire') = 0 /\ Len(buffer') = 0
  BY <1>1, EmptySeq
<1>4. OnlyStored'
  BY <1>1, <1>2, <1>3 DEF ServedInv, OnlyStored
<1>5. (ConnFits /\ WireComplete /\ SentComplete /\ BufferComplete /\ LossExplained)'
  BY <1>1, <1>2, <1>3 DEF ServedInv, ConnFits, WireComplete, SentComplete, BufferComplete, LossExplained
<1> QED BY <1>4, <1>5 DEF ServedInv

LEMMA HistoryServed ==
  ASSUME ObsTypeOK, ServedInv, SendHistory
  PROVE  ServedInv'
<1>1. PICK lo \in 1..events + 1, hi \in 0..events :
        /\ conn.last < lo /\ conn.last <= hi
        /\ wire' = [i \in 1 .. (IF lo > hi THEN 0 ELSE hi - lo + 1) |-> Frame("event", lo + i - 1)]
        /\ conn' = [at |-> "live", last |-> IF lo > hi THEN conn.last ELSE hi]
        /\ excused' = excused \cup ((conn.last + 1 .. events) \ (lo .. hi))
  BY HistoryOf DEF ServedInv
<1> DEFINE n == IF lo > hi THEN 0 ELSE hi - lo + 1
<1>2. /\ events \in Nat /\ conn.last \in Nat /\ client.last = conn.last /\ client.at = "connected"
      /\ UNCHANGED <<events, unpublished, buffer, gap, client, lastSeen>>
  BY ObsBounds DEF ObsTypeOK, ServedInv, ConnFits, SendHistory, obsWriter
<1>3. /\ n \in Nat /\ Len(wire') = n /\ \A i \in 1..n : wire'[i] = Frame("event", lo + i - 1)
  <2>1. n \in Nat
    BY <1>2
  <2>2. wire' = [i \in 1..n |-> Frame("event", lo + i - 1)]
    BY <1>1
  <2> HIDE DEF n
  <2>3. Len(wire') = n
    BY <2>1, <2>2
  <2> QED BY <2>1, <2>2, <2>3
<1>4. \A i \in 1..n : wire'[i].type = "event" /\ wire'[i].seq = lo + i - 1 /\ lo + i - 1 <= hi
  <2> TAKE i \in 1..n
  <2>1. wire'[i] = [type |-> "event", seq |-> lo + i - 1]
    BY <1>3, Zenon DEF Frame
  <2>2. lo + i - 1 <= hi
    BY <1>2
  <2> QED BY <2>1, <2>2
<1>5. conn'.at = "live" /\ conn'.last <= events /\ conn'.last \in Nat /\ conn.last <= conn'.last
  BY <1>1, <1>2
\* Events up to a sent one are sent before it, or not in the window.
<1>6. ASSUME NEW k \in 0..n, NEW e \in conn.last + 1 .. lo + k - 1, e <= events
      PROVE  e \in excused' \/ \E j \in 1..k : wire'[j] = Frame("event", e)
  <2>1. CASE e < lo
    BY <1>1, <1>2, <1>6, <2>1
  <2>2. CASE e >= lo
    <3>1. e - lo + 1 \in 1..k /\ e - lo + 1 \in 1..n /\ lo + (e - lo + 1) - 1 = e
      BY <1>2, <1>6, <2>2
    <3> QED BY <1>3, <3>1
  <2> QED BY <1>2, <2>1, <2>2
<1>7. OnlyStored'
  <2>1. \A i \in 1..Len(wire') : wire'[i].seq <= events
    BY <1>2, <1>3, <1>4
  <2> QED BY <1>2, <1>5, <2>1 DEF ServedInv, OnlyStored
<1>8. ConnFits'
  BY <1>2, <1>3, <1>4, <1>5 DEF ConnFits
<1>9. WireComplete'
  <2> SUFFICES ASSUME NEW i \in 1..n, NEW e \in conn.last + 1 .. lo + i - 1
               PROVE  e \in excused' \/ \E j \in 1..i : wire'[j] = Frame("event", e)
    BY <1>2, <1>3, <1>4 DEF WireComplete, Told
  <2>1. i \in 0..n /\ e <= events
    BY <1>2, <1>4
  <2> QED BY <1>6, <2>1
<1>10. SentComplete'
  <2> SUFFICES ASSUME NEW e \in conn.last + 1 .. conn'.last
               PROVE  e \in excused' \/ \E j \in 1..n : wire'[j] = Frame("event", e)
    BY <1>2, <1>3 DEF SentComplete, Told
  <2>1. lo <= hi /\ conn'.last = hi
    BY <1>1, <1>2
  <2>2. n \in 0..n /\ e \in conn.last + 1 .. lo + n - 1 /\ e <= events
    BY <1>1, <1>2, <2>1
  <2> QED BY <1>6, <2>2
<1>11. BufferComplete'
  <2>1. ASSUME NEW e \in conn'.last + 1 .. events
        PROVE  e \in excused'
    BY <1>1, <1>2, <2>1
  <2>2. \A i \in 1..Len(buffer) : buffer[i] \in Nat /\ buffer[i] <= events
    BY ElementOfSeq, ObsBounds DEF ObsTypeOK, ServedInv, OnlyStored
  <2>3. Published' \in Int /\ Published' <= events
    BY <1>2 DEF Published
  <2>4. \A i \in 1..Len(buffer) : \A e \in conn'.last + 1 .. buffer[i] : e \in excused'
    BY <1>2, <1>5, <2>1, <2>2
  <2>5. \A e \in conn'.last + 1 .. Published' : e \in excused'
    BY <1>2, <1>5, <2>1, <2>3
  <2> QED BY <1>2, <2>4, <2>5 DEF BufferComplete
<1>12. LossExplained'
  BY <1>1, <1>2 DEF ServedInv, LossExplained
<1> QED BY <1>7, <1>8, <1>9, <1>10, <1>11, <1>12 DEF ServedInv

LEMMA SendEventServed ==
  ASSUME ObsTypeOK, ServedInv, SendEvent
  PROVE  ServedInv'
<1> DEFINE h == Head(buffer)
           n == Len(buffer)
           w == Len(wire)
<1>1. /\ events \in Nat /\ conn.last \in Nat /\ client.last \in Nat /\ conn.last <= events /\ conn.at = "live"
      /\ conn \in [at : {"none", "subscribed", "live"}, last : 0..MaxEvents] /\ wire \in Seq(Frames) /\ w \in Nat
      /\ UNCHANGED <<events, unpublished, gap, client, lastSeen, excused>> /\ client.at = "connected"
  BY ObsBounds, LenProperties DEF ObsTypeOK, ServedInv, OnlyStored, ConnFits, SendEvent, obsWriter
<1>2. /\ n \in Nat /\ n > 0 /\ Len(buffer') = n - 1 /\ \A i \in 1..n - 1 : buffer'[i] = buffer[i + 1]
      /\ h = buffer[1] /\ h \in 1..MaxEvents /\ \A i \in 1..n : buffer[i] \in 1..MaxEvents
  <2>1. buffer \in Seq(1..MaxEvents) /\ buffer # <<>> /\ buffer' = Tail(buffer)
    BY DEF ObsTypeOK, SendEvent
  <2>2. n \in Nat /\ n > 0
    BY <2>1, LenProperties, EmptySeq
  <2>3. h \in 1..MaxEvents /\ Len(Tail(buffer)) = n - 1 /\ \A i \in 1..n - 1 : Tail(buffer)[i] = buffer[i + 1]
    BY <2>1, HeadTailProperties
  <2>4. h = buffer[1]
    BY <2>1, <2>2
  <2>5. \A i \in 1..n : buffer[i] \in 1..MaxEvents
    BY <2>1, ElementOfSeq
  <2> QED BY <2>1, <2>2, <2>3, <2>4, <2>5
<1>3. h <= events /\ h \in Nat /\ \A i \in 1..n : buffer[i] <= events
  BY <1>2, ObsBounds DEF ServedInv, OnlyStored
<1>4. /\ \A i \in 1..n : \A e \in conn.last + 1 .. buffer[i] : e \in excused \/ \E j \in 1..i : buffer[j] = e
      /\ \A e \in conn.last + 1 .. Published : e \in excused \/ \E j \in 1..n : buffer[j] = e
      /\ \A e \in client.last + 1 .. conn.last : e \in excused \/ \E j \in 1..w : wire[j] = Frame("event", e)
  BY <1>1 DEF ServedInv, BufferComplete, SentComplete, Held, Told
<1>5. Published' = Published /\ Published \in Int
  BY <1>1 DEF Published
<1>6. conn'.last \in Nat /\ conn'.last >= conn.last /\ conn'.last >= h /\ conn'.at = "live" /\ conn'.last <= events
  <2>1. CASE h <= conn.last
    BY <1>1, <1>3, <2>1 DEF SendEvent
  <2>2. CASE ~(h <= conn.last)
    <3>1. conn' = [conn EXCEPT !.last = h]
      BY <2>2 DEF SendEvent
    <3>2. conn'.last = h /\ conn'.at = "live"
      BY <1>1, <3>1
    <3> QED BY <1>1, <1>3, <2>2, <3>2
  <2> QED BY <2>1, <2>2
<1> HIDE DEF h, n, w
<1>7. BufferComplete'
  <2>1. ASSUME NEW i \in 1..n, NEW e \in conn'.last + 1 .. events, NEW j \in 1..i, buffer[j] = e
        PROVE  i - 1 \in 1..n - 1 /\ \E k \in 1..i - 1 : buffer'[k] = e
    <3>1. j # 1
      BY <1>2, <1>3, <1>6, <2>1
    <3>2. j - 1 \in 1..i - 1 /\ j - 1 \in 1..n - 1 /\ j - 1 + 1 = j /\ i - 1 \in 1..n - 1
      BY <1>2, <2>1, <3>1
    <3>3. buffer'[j - 1] = buffer[j - 1 + 1]
      BY <1>2, <3>2, Zenon
    <3>4. buffer'[j - 1] = e
      BY <2>1, <3>2, <3>3, Zenon
    <3> QED BY <3>2, <3>4, Zenon
  <2>2. ASSUME NEW i \in 1..n - 1, NEW e \in conn'.last + 1 .. buffer'[i]
        PROVE  e \in excused \/ \E k \in 1..i : buffer'[k] = e
    <3>1. i + 1 \in 1..n /\ buffer'[i] = buffer[i + 1] /\ i + 1 - 1 = i
      BY <1>2
    <3>2. e \in conn.last + 1 .. buffer[i + 1] /\ e \in conn'.last + 1 .. events
      BY <1>1, <1>2, <1>3, <1>6, <2>2, <3>1
    <3>3. e \in excused \/ \E j \in 1..i + 1 : buffer[j] = e
      BY <1>4, <3>1, <3>2
    <3> QED BY <2>1, <3>1, <3>2, <3>3
  <2>3. ASSUME NEW e \in conn'.last + 1 .. Published
        PROVE  e \in excused \/ \E k \in 1..n - 1 : buffer'[k] = e
    <3>1. e \in conn.last + 1 .. Published /\ e \in conn'.last + 1 .. events
      BY <1>1, <1>5, <1>6, <2>3 DEF Published
    <3>2. n \in 1..n
      BY <1>2
    <3> QED BY <1>4, <2>1, <3>1, <3>2
  <2> QED BY <1>1, <1>2, <1>5, <2>2, <2>3 DEF BufferComplete, Held
<1>8. \A i \in 1..Len(buffer') : buffer'[i] <= events
  BY <1>2, <1>3
<1>9. CASE h <= conn.last
  <2>1. UNCHANGED <<conn, wire>>
    BY <1>9 DEF SendEvent, h
  <2>2. OnlyStored'
    BY <1>1, <1>8, <2>1 DEF ServedInv, OnlyStored
  <2>3. ConnFits' /\ WireComplete' /\ SentComplete' /\ LossExplained'
    BY <1>1, <2>1 DEF ServedInv, ConnFits, WireComplete, SentComplete, LossExplained, Told
  <2> QED BY <1>7, <2>2, <2>3 DEF ServedInv
<1>10. CASE ~(h <= conn.last)
  <2>1. wire' = Append(wire, Frame("event", h)) /\ conn'.last = h
    BY <1>1, <1>10 DEF SendEvent, h
  <2>2. Frame("event", h) \in Frames /\ Frame("event", h).type = "event" /\ Frame("event", h).seq = h
    BY <1>2, FrameType
  <2>3. /\ Len(wire') = w + 1 /\ wire'[w + 1] = Frame("event", h)
        /\ \A i \in 1..w : wire'[i] = wire[i]
    BY <1>1, <2>1, <2>2, AppendProperties DEF w
  <2>4. \A i \in 1..Len(wire') : i \in 1..w \/ i = w + 1
    BY <1>1, <2>3
  <2>5. OnlyStored'
    <3>1. \A i \in 1..w : wire[i].seq <= events
      BY DEF ServedInv, OnlyStored, w
    <3>2. \A i \in 1..Len(wire') : wire'[i].seq <= events
      BY <1>3, <2>2, <2>3, <2>4, <3>1
    <3> QED BY <1>1, <1>6, <1>8, <3>2 DEF ServedInv, OnlyStored
  <2>6. ConnFits'
    <3>1. \A i \in 1..w : wire[i].type = "event"
      BY <1>1 DEF ServedInv, ConnFits, w
    <3>2. \A i \in 1..Len(wire') : wire'[i].type = "event"
      BY <2>2, <2>3, <2>4, <3>1
    <3> QED BY <1>1, <1>6, <3>2 DEF ConnFits
  <2>7. ASSUME NEW e \in client.last + 1 .. h
        PROVE  e \in excused \/ \E j \in 1..w + 1 : wire'[j] = Frame("event", e)
    <3>1. CASE e = h
      BY <1>1, <2>3, <3>1
    <3>2. CASE e \in client.last + 1 .. conn.last
      BY <1>1, <1>4, <2>3, <3>2
    <3>3. CASE e \in conn.last + 1 .. h /\ e # h
      <4>1. 1 \in 1..n /\ e \in conn.last + 1 .. buffer[1]
        BY <1>2, <3>3
      <4>2. e \in excused \/ \E j \in 1..1 : buffer[j] = e
        BY <1>4, <4>1
      <4> QED BY <1>2, <3>3, <4>2
    <3>4. e = h \/ e \in client.last + 1 .. conn.last \/ (e \in conn.last + 1 .. h /\ e # h)
      BY <1>1, <1>3, <2>7
    <3> QED BY <3>1, <3>2, <3>3, <3>4
  <2>8. SentComplete'
    BY <1>1, <2>1, <2>3, <2>7 DEF SentComplete, Told
  <2>9. WireComplete'
    <3> SUFFICES ASSUME NEW i \in 1..w + 1, wire'[i].type = "event", NEW e \in client.last + 1 .. wire'[i].seq
                 PROVE  e \in excused \/ \E j \in 1..i : wire'[j] = Frame("event", e)
      BY <1>1, <2>3 DEF WireComplete, Told
    <3>1. CASE i = w + 1
      BY <2>2, <2>3, <2>7, <3>1
    <3>2. CASE i # w + 1
      <4>1. i \in 1..w /\ wire'[i] = wire[i] /\ \A j \in 1..i : wire'[j] = wire[j]
        BY <1>1, <2>3, <3>2
      <4>2. e \in excused \/ \E j \in 1..i : wire[j] = Frame("event", e)
        BY <4>1 DEF ServedInv, WireComplete, Told, w
      <4> QED BY <4>1, <4>2
    <3> QED BY <3>1, <3>2
  <2>10. LossExplained'
    BY <1>1 DEF ServedInv, LossExplained
  <2> QED BY <1>7, <2>5, <2>6, <2>8, <2>9, <2>10 DEF ServedInv
<1> QED BY <1>9, <1>10

LEMMA ReadFrameServed ==
  ASSUME ObsTypeOK, ServedInv, ReadFrame
  PROVE  ServedInv'
<1> DEFINE f == Head(wire)
           w == Len(wire)
<1>1. /\ events \in Nat /\ client.last \in Nat /\ client.last <= events
      /\ client \in [at : {"dialing", "connected", "failed"}, last : 0..MaxEvents]
      /\ client.at = "connected" /\ conn.last \in Nat
      /\ UNCHANGED <<events, unpublished, conn, buffer, gap, excused>>
  BY ObsBounds DEF ObsTypeOK, ServedInv, OnlyStored, ReadFrame, obsWriter, obsStream
<1>2. /\ w \in Nat /\ w > 0 /\ Len(wire') = w - 1 /\ \A i \in 1..w - 1 : wire'[i] = wire[i + 1]
      /\ f = wire[1] /\ f \in Frames /\ f.seq \in Nat /\ f.seq <= events
  <2>1. wire \in Seq(Frames) /\ wire # <<>> /\ wire' = Tail(wire)
    BY DEF ObsTypeOK, ReadFrame
  <2>2. w \in Nat /\ w > 0
    BY <2>1, LenProperties, EmptySeq
  <2>3. f \in Frames /\ Len(Tail(wire)) = w - 1 /\ \A i \in 1..w - 1 : Tail(wire)[i] = wire[i + 1]
    BY <2>1, HeadTailProperties
  <2>4. f = wire[1]
    BY <2>1, <2>2
  <2>5. f.seq <= events
    BY <2>2, <2>4 DEF ServedInv, OnlyStored
  <2>6. f.seq \in Nat
    BY <2>3, ObsBounds DEF Frames
  <2> QED BY <2>1, <2>2, <2>3, <2>4, <2>5, <2>6
<1>3. /\ client'.last \in Nat /\ client'.last >= client.last /\ client'.last <= events
      /\ f.type = "event" => client'.last >= f.seq /\ client'.at = "connected"
      /\ lastSeen' \subseteq 1..events /\ lastSeen \subseteq lastSeen'
      /\ \/ client'.last = client.last
         \/ f.type = "event" /\ client'.last = f.seq /\ f.seq \in lastSeen'
  <2>1. CASE f.type = "event" /\ f.seq > client.last /\ client' = [client EXCEPT !.last = f.seq] /\ lastSeen' = lastSeen \cup {f.seq}
    <3>1. client'.last = f.seq /\ client'.at = "connected"
      BY <1>1, <2>1
    <3>2. lastSeen \subseteq 1..events
      BY DEF ServedInv, OnlyStored
    <3>3. f.seq \in 1..events
      BY <1>1, <1>2, <2>1
    <3> QED BY <1>1, <1>2, <2>1, <3>1, <3>2, <3>3
  <2>2. CASE f.type = "event" /\ f.seq <= client.last /\ UNCHANGED <<client, lastSeen>>
    BY <1>1, <1>2, <2>2 DEF ServedInv, OnlyStored
  <2>3. CASE f.type # "event" /\ (\E a \in {"dialing", "failed"} : client' = [client EXCEPT !.at = a]) /\ UNCHANGED lastSeen
    <3>1. client'.last = client.last
      BY <1>1, <2>3
    <3> QED BY <1>1, <2>3, <3>1 DEF ServedInv, OnlyStored
  <2> QED BY <2>1, <2>2, <2>3 DEF ReadFrame
<1> HIDE DEF f, w
\* An open connection has sent events only.
<1>4. conn.at # "none" => f.type = "event" /\ conn.at # "subscribed"
  <2>1. 1 \in 1..Len(wire)
    BY <1>2 DEF w
  <2>2. conn.at # "subscribed"
    BY <1>2, EmptySeq DEF ServedInv, ConnFits, w
  <2> QED BY <1>2, <2>1, <2>2 DEF ServedInv, ConnFits
<1>5. ASSUME NEW e \in client'.last + 1 .. events, NEW i \in 1..w, NEW j \in 1..i, wire[j] = Frame("event", e)
      PROVE  \E k \in 1..i - 1 : wire'[k] = Frame("event", e)
  <2>1. Frame("event", e).type = "event" /\ Frame("event", e).seq = e
    BY Zenon DEF Frame
  <2>2. j # 1
    <3> SUFFICES ASSUME j = 1 PROVE FALSE
      OBVIOUS
    <3>1. f.type = "event" /\ f.seq = e
      BY <1>2, <1>5, <2>1
    <3> QED BY <1>1, <1>3, <1>5, <3>1
  <2>3. j - 1 \in 1..i - 1 /\ j - 1 \in 1..w - 1 /\ j - 1 + 1 = j
    BY <1>2, <1>5, <2>2
  <2>4. wire'[j - 1] = wire[j - 1 + 1]
    BY <1>2, <2>3, Zenon
  <2>5. wire'[j - 1] = Frame("event", e)
    BY <1>5, <2>3, <2>4, Zenon
  <2> QED BY <2>3, <2>5, Zenon
<1>6. OnlyStored'
  <2>1. \A i \in 1..w - 1 : wire'[i].seq <= events
    BY <1>2 DEF ServedInv, OnlyStored, w
  <2> QED BY <1>1, <1>2, <1>3, <2>1 DEF ServedInv, OnlyStored
<1>7. ConnFits'
  <2>1. conn.at # "none" => \A i \in 1..w - 1 : wire'[i].type = "event"
    BY <1>2 DEF ServedInv, ConnFits, w
  <2> QED BY <1>1, <1>2, <1>3, <1>4, <2>1 DEF ConnFits
<1>8. WireComplete'
  <2> SUFFICES ASSUME NEW i \in 1..w - 1, wire'[i].type = "event", NEW e \in client'.last + 1 .. wire'[i].seq
               PROVE  e \in excused \/ \E j \in 1..i : wire'[j] = Frame("event", e)
    BY <1>1, <1>2 DEF WireComplete, Told
  <2>1. i + 1 \in 1..w /\ wire'[i] = wire[i + 1] /\ i + 1 - 1 = i
    BY <1>2
  <2>2. wire[i + 1].seq \in Nat /\ wire[i + 1].seq <= events
    <3>1. wire[i + 1] \in Frames
      BY <2>1, ElementOfSeq DEF ObsTypeOK, w
    <3> QED BY <2>1, <3>1, ObsBounds DEF ServedInv, OnlyStored, Frames, w
  <2>3. e \in client.last + 1 .. wire[i + 1].seq /\ e \in client'.last + 1 .. events
    BY <1>1, <1>3, <2>1, <2>2
  <2>4. e \in excused \/ \E j \in 1..i + 1 : wire[j] = Frame("event", e)
    BY <2>1, <2>3 DEF ServedInv, WireComplete, Told, w
  <2> QED BY <1>5, <2>1, <2>3, <2>4
<1>9. SentComplete'
  <2> SUFFICES ASSUME conn.at = "live", NEW e \in client'.last + 1 .. conn.last
               PROVE  e \in excused \/ \E j \in 1..w - 1 : wire'[j] = Frame("event", e)
    BY <1>1, <1>2 DEF SentComplete, Told
  <2>1. e \in client.last + 1 .. conn.last
    BY <1>1, <1>3
  <2>2. e \in excused \/ \E j \in 1..w : wire[j] = Frame("event", e)
    BY <2>1 DEF ServedInv, SentComplete, Told, w
  <2>3. e \in client'.last + 1 .. events /\ w \in 1..w
    BY <1>1, <1>2, <1>3 DEF ServedInv, OnlyStored
  <2> QED BY <1>5, <2>2, <2>3
<1>10. BufferComplete'
  BY <1>1 DEF ServedInv, BufferComplete, Held, Published
<1>11. LossExplained'
  <2> SUFFICES ASSUME NEW e \in 1..client'.last
               PROVE  e \in lastSeen' \cup excused
    BY <1>1 DEF LossExplained
  <2>1. CASE e \in 1..client.last
    BY <1>3, <2>1 DEF ServedInv, LossExplained
  <2>2. CASE e > client.last
    <3>1. f.type = "event" /\ client'.last = f.seq /\ f.seq \in lastSeen'
      BY <1>1, <1>3, <2>2
    <3>2. 1 \in 1..Len(wire) /\ wire[1].type = "event" /\ e \in client.last + 1 .. wire[1].seq
      BY <1>1, <1>2, <2>2, <3>1 DEF w
    <3>3. e \in excused \/ \E j \in 1..1 : wire[j] = Frame("event", e)
      BY <3>2 DEF ServedInv, WireComplete, Told
    <3>4. Frame("event", e).seq = e
      BY Zenon DEF Frame
    <3> QED BY <1>2, <3>1, <3>3, <3>4
  <2> QED BY <1>1, <1>3, <2>1, <2>2
<1> QED BY <1>6, <1>7, <1>8, <1>9, <1>10, <1>11 DEF ServedInv

LEMMA BrokenServed ==
  ASSUME ObsTypeOK, ServedInv, HistoryFails \/ SendGap \/ Break \/ ObsRestart
  PROVE  ServedInv'
<1>1. /\ wire \in Seq(Frames) /\ Len(wire) \in Nat /\ events \in 0..MaxEvents /\ events \in Nat
      /\ gap \in 0..MaxEvents /\ gap <= events
  BY ObsBounds, LenProperties DEF ObsTypeOK, ServedInv, OnlyStored
<1>2. CASE HistoryFails
  <2>1. /\ Len(Append(wire, Frame("error", 0))) = Len(wire) + 1
        /\ Append(wire, Frame("error", 0)) \in Seq(Frames)
        /\ \A i \in 1..Len(wire) : Append(wire, Frame("error", 0))[i] = wire[i]
        /\ Append(wire, Frame("error", 0))[Len(wire) + 1] = Frame("error", 0)
        /\ Frame("error", 0).type = "error" /\ Frame("error", 0).seq = 0
    <3>1. Frame("error", 0) \in Frames /\ Frame("error", 0).type = "error" /\ Frame("error", 0).seq = 0
      BY FrameType, ObsBounds
    <3> QED BY <1>1, <3>1, AppendProperties
  <2> DEFINE sent == Append(wire, Frame("error", 0))
  <2>2. EndWith(sent)
    BY <1>2 DEF HistoryFails
  <2> HIDE DEF sent
  <2>3. /\ wire' \in Seq(Frames) /\ Len(wire') = Len(sent) + 1
        /\ \A i \in 1..Len(sent) : wire'[i] = sent[i]
        /\ wire'[Len(sent) + 1].type = "eof" /\ wire'[Len(sent) + 1].seq = 0 /\ conn' = NoConn
    BY <2>1, <2>2, EndOf DEF sent
  <2>4. Len(wire) \in 0..Len(wire) /\ Len(wire') >= Len(wire) /\ \A i \in 1..Len(wire) : wire'[i] = wire[i]
    BY <1>1, <2>1, <2>3 DEF sent
  <2>5. \A i \in Len(wire) + 1 .. Len(wire') : wire'[i].type # "event" /\ wire'[i].seq <= events
    <3> TAKE i \in Len(wire) + 1 .. Len(wire')
    <3>1. i = Len(wire) + 1 \/ i = Len(sent) + 1
      BY <1>1, <2>1, <2>3 DEF sent
    <3> QED BY <1>1, <2>1, <2>3, <3>1 DEF sent
  <2>6. UNCHANGED <<events, client, lastSeen, excused, unpublished, gap, buffer>>
    BY <1>2 DEF HistoryFails, obsWriter
  <2> QED BY <2>3, <2>4, <2>5, <2>6, EndServed
<1>3. CASE SendGap
  <2>1. CASE gap <= conn.last /\ UNCHANGED <<conn, wire>>
    <3>1. gap' = 0 /\ UNCHANGED <<events, unpublished, buffer, client, lastSeen, excused>>
      BY <1>3 DEF SendGap, obsWriter
    <3>2. OnlyStored'
      BY <1>1, <2>1, <3>1 DEF ServedInv, OnlyStored
    <3> QED BY <2>1, <3>1, <3>2 DEF ServedInv, ConnFits, WireComplete, SentComplete, BufferComplete, LossExplained, Told, Held, Published
  <2>2. CASE EndWith(Append(wire, Frame("gap", gap)))
    <3>1. /\ Len(Append(wire, Frame("gap", gap))) = Len(wire) + 1
          /\ Append(wire, Frame("gap", gap)) \in Seq(Frames)
          /\ \A i \in 1..Len(wire) : Append(wire, Frame("gap", gap))[i] = wire[i]
          /\ Append(wire, Frame("gap", gap))[Len(wire) + 1] = Frame("gap", gap)
          /\ Frame("gap", gap).type = "gap" /\ Frame("gap", gap).seq = gap
      <4>1. Frame("gap", gap) \in Frames /\ Frame("gap", gap).type = "gap" /\ Frame("gap", gap).seq = gap
        BY <1>1, FrameType
      <4> QED BY <1>1, <4>1, AppendProperties
    <3> DEFINE sent == Append(wire, Frame("gap", gap))
    <3>2. EndWith(sent)
      BY <2>2
    <3> HIDE DEF sent
    <3>3. /\ wire' \in Seq(Frames) /\ Len(wire') = Len(sent) + 1
          /\ \A i \in 1..Len(sent) : wire'[i] = sent[i]
          /\ wire'[Len(sent) + 1].type = "eof" /\ wire'[Len(sent) + 1].seq = 0 /\ conn' = NoConn
      BY <3>1, <3>2, EndOf DEF sent
    <3>4. Len(wire) \in 0..Len(wire) /\ Len(wire') >= Len(wire) /\ \A i \in 1..Len(wire) : wire'[i] = wire[i]
      BY <1>1, <3>1, <3>3 DEF sent
    <3>5. \A i \in Len(wire) + 1 .. Len(wire') : wire'[i].type # "event" /\ wire'[i].seq <= events
      <4> TAKE i \in Len(wire) + 1 .. Len(wire')
      <4>1. i = Len(wire) + 1 \/ i = Len(sent) + 1
        BY <1>1, <3>1, <3>3 DEF sent
      <4> QED BY <1>1, <3>1, <3>3, <4>1 DEF sent
    <3>6. gap' = 0 /\ UNCHANGED <<events, client, lastSeen, excused, unpublished, buffer>>
      BY <1>3 DEF SendGap, obsWriter
    <3> QED BY <3>3, <3>4, <3>5, <3>6, EndServed
  <2> QED BY <1>3, <2>1, <2>2 DEF SendGap
\* What is left of the wire, and its end.
<1>4. ASSUME NEW k \in 0..Len(wire), wire' = Append(SubSeq(wire, 1, k), Frame("eof", 0)), conn' = NoConn,
             gap' \in {0, gap}, buffer' \in {<<>>, buffer}, unpublished' => unpublished,
             UNCHANGED <<events, client, lastSeen, excused>>
      PROVE  ServedInv'
  <2> DEFINE sent == SubSeq(wire, 1, k)
  <2>1. sent \in Seq(Frames) /\ Len(sent) = k /\ \A i \in 1..k : sent[i] = wire[i]
    BY <1>1, CutOf
  <2>2. EndWith(sent)
    BY <1>4 DEF EndWith
  <2> HIDE DEF sent
  <2>3. /\ wire' \in Seq(Frames) /\ Len(wire') = Len(sent) + 1
        /\ \A i \in 1..Len(sent) : wire'[i] = sent[i]
        /\ wire'[Len(sent) + 1].type = "eof" /\ wire'[Len(sent) + 1].seq = 0
    BY <2>1, <2>2, EndOf
  <2>4. k \in 0..Len(wire) /\ Len(wire') >= k /\ \A i \in 1..k : wire'[i] = wire[i]
    BY <1>1, <2>1, <2>3
  <2>5. \A i \in k + 1 .. Len(wire') : wire'[i].type # "event" /\ wire'[i].seq <= events
    BY <1>1, <2>1, <2>3
  <2> QED BY <1>4, <2>3, <2>4, <2>5, EndServed
<1>5. CASE Break
  <2>1. PICK k \in 0..Len(wire) : EndWith(SubSeq(wire, 1, k))
    BY <1>5 DEF Break
  <2> QED BY <1>4, <1>5, <2>1 DEF Break, EndWith, obsWriter
<1>6. CASE ObsRestart
  <2>1. CASE conn.at # "none"
    BY <1>4, <1>6, <2>1 DEF ObsRestart
  <2>2. CASE conn.at = "none"
    <3>1. wire' = wire /\ conn' = NoConn /\ buffer' = <<>> /\ gap' = 0 /\ ~unpublished' /\ UNCHANGED <<events, client, lastSeen, excused>>
      BY <1>6, <2>2 DEF ObsRestart
    <3>2. /\ Len(wire) \in 0..Len(wire) /\ Len(wire') >= Len(wire) /\ wire' \in Seq(Frames)
          /\ \A i \in 1..Len(wire) : wire'[i] = wire[i]
          /\ \A i \in Len(wire) + 1 .. Len(wire') : wire'[i].type # "event" /\ wire'[i].seq <= events
      BY <1>1, <3>1
    <3> QED BY <3>1, <3>2, EndServed
  <2> QED BY <2>1, <2>2
<1> QED BY <1>2, <1>3, <1>5, <1>6

-----------------------------------------------------------------------------
(* The pager, and the theorem. *)

\* A page closes up to those before it.
LEMMA PageKept ==
  ASSUME ObsTypeOK, PagerInv, ReadPage
  PROVE  PagerInv'
<1>1. PICK lo \in 1..MaxEvents + 1, last \in 0..MaxEvents :
        /\ last = (IF pager.at = "paging" THEN pager.cursor - 1 ELSE events)
        /\ lo <= last + 1 /\ (last - lo + 1 # PageCap => lo = 1)
        /\ pager' = [at |-> IF last - lo + 1 = PageCap THEN "paging" ELSE "done",
                     cursor |-> IF lo > last THEN 0 ELSE lo,
                     top |-> IF pager.at = "idle" THEN events ELSE pager.top]
        /\ paged' = paged \cup (lo .. last)
  BY PageOf DEF PagerInv
<1> DEFINE top == IF pager.at = "idle" THEN events ELSE pager.top
<1>2. pager.at \in {"idle", "paging"} /\ events \in Nat /\ pager.top \in Nat
  BY ObsBounds DEF ObsTypeOK, ReadPage
<1>3. pager.at = "idle" => paged = {} /\ last = top
  BY <1>1, <1>2 DEF PagerInv, PagesFit
<1>4. pager.at = "paging" => paged = last + 1 .. top /\ last < top
  BY <1>1, <1>2 DEF PagerInv, PagesFit, PagesComplete
<1>5. paged' = lo .. top /\ last <= top
  BY <1>1, <1>2, <1>3, <1>4
<1>6. CASE last - lo + 1 = PageCap
  <2>1. lo <= last
    BY <1>6, ObsBounds
  <2>2. pager'.at = "paging" /\ pager'.cursor = lo /\ pager'.top = top
    BY <1>1, <1>6, <2>1, ObsBounds
  <2> QED BY <1>2, <1>5, <2>1, <2>2, ObsBounds DEF PagerInv, PagesFit, PagesComplete
<1>7. CASE last - lo + 1 # PageCap
  <2>1. lo = 1 /\ pager'.at = "done" /\ pager'.top = top
    BY <1>1, <1>7
  <2> QED BY <1>5, <2>1 DEF PagerInv, PagesFit, PagesComplete
<1> QED BY <1>6, <1>7

LEMMA ObsInvStart == ObsInit => ObsInv
<1> SUFFICES ASSUME ObsInit PROVE ObsInv
  OBVIOUS
<1>1. <<>> \in Seq(1..MaxEvents) /\ <<>> \in Seq(Frames) /\ Len(<<>>) = 0
  BY EmptySeq
<1>2. ObsTypeOK
  <2>1. buffer \in Seq(1..MaxEvents) /\ Len(buffer) <= BufferCap /\ wire \in Seq(Frames)
    BY <1>1, ObsBounds DEF ObsInit
  <2>2. /\ queue \in 0..QueueCap /\ events \in 0..MaxEvents /\ gap \in 0..MaxEvents /\ cuts \in 0..MaxCuts
        /\ client \in [at : {"dialing", "connected", "failed"}, last : 0..MaxEvents]
        /\ pager \in [at : {"idle", "paging", "done"}, cursor : 0..MaxEvents, top : 0..MaxEvents]
        /\ lastSeen \subseteq 1..MaxEvents /\ excused \subseteq 1..MaxEvents /\ paged \subseteq 1..MaxEvents
    BY ObsBounds DEF ObsInit
  <2>3. /\ recorder \in [holds : BOOLEAN, open : BOOLEAN] /\ unpublished \in BOOLEAN
        /\ conn \in [at : {"none", "subscribed", "live"}, last : 0..MaxEvents]
    <3>1. 0 \in 0..MaxEvents
      BY ObsBounds
    <3> QED BY <3>1 DEF ObsInit, NoConn
  <2> QED BY <2>1, <2>2, <2>3 DEF ObsTypeOK
<1>3. ServedInv /\ PagerInv
  BY <1>1 DEF ObsInit, NoConn, ServedInv, OnlyStored, ConnFits, WireComplete, SentComplete, BufferComplete,
     LossExplained, PagerInv, PagesFit, PagesComplete
<1> QED BY <1>2, <1>3 DEF ObsInv

LEMMA ObsInvStep == ObsInv /\ [ObsNext]_obsVars => ObsInv'
<1> SUFFICES ASSUME ObsInv, [ObsNext]_obsVars PROVE ObsInv'
  OBVIOUS
<1>1. ObsTypeOK /\ ServedInv /\ PagerInv
  BY DEF ObsInv
<1>2. ObsTypeOK'
  BY <1>1, ObsTypeStep DEF ServedInv, PagerInv
<1>3. ServedInv'
  <2>1. CASE Enqueue \/ TakeQueued \/ CloseRecorder \/ ReadPage \/ UNCHANGED obsVars
    <3>1. UNCHANGED <<events, unpublished, obsStream, wire, client, lastSeen, excused>>
      BY <2>1 DEF Enqueue, TakeQueued, CloseRecorder, ReadPage, obsVars, obsWriter
    <3> QED BY <1>1, <3>1, QuietServed
  <2>2. CASE RecordQueued \/ RecordDirect
    <3>1. CASE Store /\ UNCHANGED <<obsStream, wire, client, lastSeen, excused>>
      BY <1>1, <3>1, StoreServed
    <3>2. CASE UNCHANGED <<events, unpublished, obsStream, wire, client, lastSeen, excused>>
      BY <1>1, <3>2, QuietServed
    <3> QED BY <2>2, <3>1, <3>2 DEF RecordQueued, RecordDirect
  <2>3. CASE Publish \/ Connect \/ SendHistory \/ SendEvent \/ ReadFrame
    BY <1>1, <2>3, PublishServed, ConnectServed, HistoryServed, SendEventServed, ReadFrameServed
  <2>4. CASE HistoryFails \/ SendGap \/ Break \/ ObsRestart
    BY <1>1, <2>4, BrokenServed
  <2> QED BY <2>1, <2>2, <2>3, <2>4 DEF ObsNext, ObsServing
<1>4. PagerInv'
  <2>1. CASE ReadPage
    BY <1>1, <2>1, PageKept
  <2>2. CASE UNCHANGED obsReader
    BY <1>1, <2>2 DEF obsReader, PagerInv, PagesFit, PagesComplete
  <2>3. ReadPage \/ UNCHANGED obsReader
    BY DEF ObsNext, ObsServing, Enqueue, TakeQueued, CloseRecorder, RecordQueued, RecordDirect, Publish, Connect,
       SendHistory, SendEvent, ReadFrame, HistoryFails, SendGap, Break, ObsRestart, obsVars
  <2> QED BY <2>1, <2>2, <2>3
<1> QED BY <1>2, <1>3, <1>4 DEF ObsInv

\* The types of the observation pipeline hold (Observation).
THEOREM ObservationTypes == ObsSpec => []ObsTypeOK
<1>1. ObsInv => ObsTypeOK
  BY DEF ObsInv
<1> QED BY <1>1, ObsInvStart, ObsInvStep, PTL DEF ObsSpec

\* A local observer has every event up to its last one but those that a full buffer or
\* the history window has cut, is shown only what is stored, and the pages of history
\* are whole, for every size of queue, buffer, window and page, and any number of
\* broken connections and restarts (broker.go, socket.go, client.go, history.go).
THEOREM ObserversAreServed == ObsSpec => []ObserverServed
<1>1. ObsInv => ObserverServed
  BY DEF ObsInv, ServedInv, PagerInv, OnlyStored, ObserverServed, ObservedIsStored
<1> QED BY <1>1, ObsInvStart, ObsInvStep, PTL DEF ObsSpec

-----------------------------------------------------------------------------
(* Calls at the edge of the server: CallsInv is inductive. *)

\* A turn has begun when something was accepted in it; the latest is later than all
\* others.
Opened == {t \in 1..LastRequest : turns[t].sequence > 0}
IsLatest(t) == t \in Opened /\ \A u \in Opened : u # t => turns[u].seen < turns[t].seen
LatestIsOne == Opened = {} \/ \E t \in Opened : IsLatest(t)

\* How many activities of the latest turn are accepted and not published.
LeftToSay == IF activityMu = NoHolder THEN 0 ELSE Len(toAnnounce[activityMu])

\* Who accepts is the one who announces, until it has announced all.
OneAnnounces ==
  \A c \in ToolCalls :
    /\ callStep[c] = "announcing" <=> activityMu = c
    /\ activityMu = c => toAnnounce[c] # <<>>

\* A turn was begun by a call that was received before; what is published, or will
\* be, is of a turn that has begun, and of a call that has got so far.
TurnsAreBegun ==
  /\ \A t \in Opened : \E c \in ToolCalls : planOf[c].request = t /\ callStep[c] \notin {"out", "received"}
  /\ \A i \in 1..Len(activities) :
       activities[i].of.turn \in Opened /\ callStep[activities[i].call] \notin {"out", "received", "refused"}
  /\ \A c \in ToolCalls : \A i \in 1..Len(toAnnounce[c]) : toAnnounce[c][i].turn \in Opened

\* What is published ends where what is pending of the latest turn begins.
PublishedIsJoined ==
  /\ Opened = {} => activities = <<>> /\ activityMu = NoHolder
  /\ \A t \in 1..LastRequest : IsLatest(t) =>
       LET done == turns[t].sequence - LeftToSay
       IN /\ \/ done = 0 /\ \A i \in 1..Len(activities) : activities[i].of.turn # t
             \/ done > 0 /\ activities # <<>> /\ activities[Len(activities)].of = [turn |-> t, sequence |-> done]
          /\ activityMu # NoHolder =>
               \A i \in 1..LeftToSay : toAnnounce[activityMu][i] = [turn |-> t, sequence |-> done + i]

\* How far a call is, and its heartbeat and its step.
CallsFit ==
  \A c \in ToolCalls :
    /\ callStep[c] \in {"announcing", "observed", "running"} => ~planOf[c].oversize
    /\ callStep[c] = "out" => beat[c] = "off"
    /\ callStep[c] = "answered" => beat[c] \in {"off", "gone"}
    /\ callStep[c] = "refused" => planOf[c].oversize
    /\ callStep[c] \in {"out", "received", "refused"} => ~callResult[c].transparent
    /\ beat[c] = "sending" => beats[c] < MaxBeats

CallsInv ==
  /\ CallsTypeOK /\ LatestIsOne /\ OneAnnounces /\ TurnsAreBegun /\ CallsFit
  /\ SilentAfterAnswer /\ StepIsItsTool /\ TurnsInOrder /\ AnswerKnowsItsActivity
  /\ DistinctRequests => PublishedIsJoined

CallSteps(c) ==
  \/ CallReceived(c) \/ NoActivity(c) \/ AcceptActivity(c) \/ AnnounceActivity(c) \/ CallStarts(c)
  \/ ToolReturns(c) \/ WrapResult(c) \/ Complete(c) \/ AnswerCall(c)
  \/ StepRunStarts(c) \/ StepRunEnds(c) \/ Beat(c) \/ BeatSent(c) \/ BeatEnds(c) \/ PublishNext(c)

\* The latest turn is the one with the latest time, if there is one.
LEMMA LatestTurnIs ==
  ASSUME CallsTypeOK, LatestIsOne
  PROVE  IF Opened = {} THEN LatestTurn = 0 ELSE LatestTurn \in Opened /\ IsLatest(LatestTurn)
<1>1. turns \in [1..LastRequest -> [sequence : Nat, seen : Nat]] /\ LastRequest \in Nat
  BY CallsAssumption DEF CallsTypeOK
<1>2. \A t \in 1..LastRequest : turns[t].seen \in Nat /\ t \in Nat
  BY <1>1
<1> DEFINE later(t, u) == turns[t].seen > turns[u].seen \/ (turns[t].seen = turns[u].seen /\ t >= u)
<1>3. Opened = {t \in DOMAIN turns : turns[t].sequence > 0}
  BY <1>1 DEF Opened
<1>4. LatestTurn = IF Opened = {} THEN 0 ELSE CHOOSE t \in Opened : \A u \in Opened : later(t, u)
  BY <1>3 DEF LatestTurn
<1>5. CASE Opened # {}
  <2>1. PICK t \in Opened : IsLatest(t)
    BY <1>5 DEF LatestIsOne
  <2>2. \A u \in Opened : later(t, u)
    BY <1>2, <2>1 DEF IsLatest, Opened
  <2>3. \A s \in Opened : (\A u \in Opened : later(s, u)) => s = t
    BY <1>2, <2>1 DEF IsLatest, Opened
  <2>4. (CHOOSE s \in Opened : \A u \in Opened : later(s, u)) = t
    BY <2>2, <2>3
  <2> QED
    BY <1>4, <1>5, <2>1, <2>4
<1> QED
  BY <1>4, <1>5

LEMMA OneLatest ==
  ASSUME CallsTypeOK, NEW t \in Opened, NEW u \in Opened, IsLatest(t), IsLatest(u)
  PROVE  t = u
<1>1. turns[t].seen \in Nat /\ turns[u].seen \in Nat
  BY DEF CallsTypeOK, Opened
<1> QED
  BY <1>1 DEF IsLatest

\* What is published has the type of an activity.
LEMMA PublishedTypes ==
  ASSUME CallsTypeOK
  PROVE  /\ Len(activities) \in Nat /\ activities \in Seq([call : ToolCalls, of : ActivityOf])
         /\ \A i \in 1..Len(activities) :
              /\ activities[i].call \in ToolCalls /\ activities[i].of \in ActivityOf
              /\ activities[i].of.turn \in Nat /\ activities[i].of.sequence \in Nat
<1> DEFINE Entry == [call : ToolCalls, of : ActivityOf]
<1>1. activities \in Seq(Entry)
  BY DEF CallsTypeOK
<1>2. \A p \in Entry : p.call \in ToolCalls /\ p.of \in ActivityOf /\ p.of.turn \in Nat /\ p.of.sequence \in Nat
  BY DEF ActivityOf
<1> HIDE DEF Entry
<1>3. Len(activities) \in Nat /\ \A i \in 1..Len(activities) : activities[i] \in Entry
  BY <1>1
<1> QED
  BY <1>1, <1>2, <1>3 DEF Entry

\* What a step that accepts and announces nothing leaves alone.
QuietStep ==
  /\ UNCHANGED <<planOf, activityMu, turns, toAnnounce, activities>>
  /\ \A c \in ToolCalls :
       /\ callStep'[c] = "announcing" <=> callStep[c] = "announcing"
       /\ callStep[c] \notin {"out", "received"} => callStep'[c] \notin {"out", "received"}
       /\ callStep[c] \notin {"out", "received", "refused"} => callStep'[c] \notin {"out", "received", "refused"}

LEMMA StepsAreQuiet ==
  ASSUME CallsTypeOK,
         \/ \E c \in ToolCalls : CallSteps(c) /\ ~AcceptActivity(c) /\ ~AnnounceActivity(c)
         \/ ClockMoves \/ UNCHANGED callsVars
  PROVE  QuietStep
<1>1. callStep \in [ToolCalls -> {"out", "received", "announcing", "observed", "running", "refused", "returned",
                                  "wrapped", "stopping", "answered"}]
  BY DEF CallsTypeOK
<1>2. CASE ClockMoves \/ UNCHANGED callsVars
  BY <1>2 DEF ClockMoves, callsVars, QuietStep
<1>3. ASSUME NEW c \in ToolCalls, CallReceived(c) \/ NoActivity(c) PROVE QuietStep
  BY <1>1, <1>3 DEF CallReceived, NoActivity, CallMoves, QuietStep
<1>4. ASSUME NEW c \in ToolCalls, CallStarts(c) \/ ToolReturns(c) \/ Complete(c) \/ AnswerCall(c) PROVE QuietStep
  BY <1>1, <1>4 DEF CallStarts, ToolReturns, Complete, AnswerCall, CallMoves, QuietStep
<1>5. ASSUME NEW c \in ToolCalls, WrapResult(c) PROVE QuietStep
  BY <1>1, <1>5 DEF WrapResult, QuietStep
<1>6. ASSUME NEW c \in ToolCalls,
             StepRunStarts(c) \/ StepRunEnds(c) \/ Beat(c) \/ BeatSent(c) \/ BeatEnds(c) \/ PublishNext(c)
      PROVE  QuietStep
  BY <1>1, <1>6 DEF StepRunStarts, StepRunEnds, Beat, BeatSent, BeatEnds, PublishNext, QuietStep
<1> QED
  BY <1>2, <1>3, <1>4, <1>5, <1>6 DEF CallSteps

LEMMA QuietKeeps ==
  ASSUME CallsInv, QuietStep
  PROVE  /\ LatestIsOne' /\ OneAnnounces' /\ TurnsAreBegun' /\ TurnsInOrder'
         /\ DistinctRequests' => PublishedIsJoined'
<1>1. UNCHANGED <<planOf, activityMu, turns, toAnnounce, activities>> /\ Opened' = Opened /\ LeftToSay' = LeftToSay
      /\ \A t : IsLatest(t)' <=> IsLatest(t)
  BY DEF QuietStep, Opened, LeftToSay, IsLatest
<1>2. LatestIsOne' /\ OneAnnounces' /\ TurnsInOrder'
  BY <1>1 DEF CallsInv, LatestIsOne, OneAnnounces, TurnsInOrder, DistinctRequests, QuietStep
<1>3. TurnsAreBegun'
  <2>1. \A i \in 1..Len(activities) : activities[i].call \in ToolCalls
    BY PublishedTypes DEF CallsInv
  <2> QED
    BY <1>1, <2>1 DEF CallsInv, TurnsAreBegun, QuietStep
<1>4. DistinctRequests' => PublishedIsJoined'
  BY <1>1 DEF CallsInv, PublishedIsJoined, DistinctRequests
<1> QED
  BY <1>2, <1>3, <1>4


LEMMA MadeASequence ==
  ASSUME NEW S, NEW n \in Nat, NEW f \in [1..n -> S]
  PROVE  f \in Seq(S) /\ Len(f) = n /\ (n > 0 => f # <<>>)
<1>1. f \in Seq(S)
  OBVIOUS
<1>2. Len(f) = n
  BY <1>1, LenProperties
<1> QED
  BY <1>1, <1>2

\* The turn that is accepted in, and how far it was.
LEMMA AcceptsIn ==
  ASSUME CallsInv, NEW c \in ToolCalls, AcceptActivity(c)
  PROVE  \E turn \in 1..LastRequest, first, seenAt \in Nat :
           /\ turns' = [turns EXCEPT ![turn] = [sequence |-> first + planOf[c].updates, seen |-> seenAt]]
           /\ toAnnounce' = [toAnnounce EXCEPT ![c] =
                [i \in 1..planOf[c].updates |-> [turn |-> turn, sequence |-> first + i]]]
           /\ \A u \in Opened : turns[u].seen < seenAt
           /\ \/ turn \in Opened /\ IsLatest(turn) /\ first = turns[turn].sequence
              \/ first = 0 /\ turn = planOf[c].request
<1> DEFINE goesOn == ~planOf[c].intent /\ LatestTurn # 0
           turn == IF goesOn THEN LatestTurn ELSE planOf[c].request
           first == IF goesOn THEN turns[turn].sequence ELSE 0
<1>1. CallsTypeOK /\ LatestIsOne
  BY DEF CallsInv
<1>2. /\ turns \in [1..LastRequest -> [sequence : Nat, seen : Nat]] /\ LastRequest \in Nat /\ LastMs \in Nat
      /\ receivedMs[c] \in Nat /\ planOf[c].request \in 1..LastRequest
  BY <1>1, CallsAssumption DEF CallsTypeOK
<1>3. \A t \in 1..LastRequest : turns[t].seen \in Nat /\ turns[t].sequence \in Nat
  BY <1>2
<1>4. \/ LatestTurn = 0 /\ Opened = {}
      \/ LatestTurn # 0 /\ LatestTurn \in 1..LastRequest /\ LatestTurn \in Opened /\ IsLatest(LatestTurn)
  BY <1>1, LatestTurnIs DEF Opened
<1>5. SeenAt(c) \in Nat /\ \A u \in Opened : turns[u].seen < SeenAt(c)
  <2>1. CASE LatestTurn = 0
    BY <1>2, <1>4, <2>1 DEF SeenAt
  <2>2. CASE LatestTurn # 0
    <3>1. SeenAt(c) \in Nat /\ turns[LatestTurn].seen < SeenAt(c)
      BY <1>2, <1>3, <1>4, <2>2 DEF SeenAt
    <3>2. turns[LatestTurn].seen \in Nat /\ \A u \in Opened : turns[u].seen \in Nat /\ turns[u].seen <= turns[LatestTurn].seen
      BY <1>3, <1>4, <2>2 DEF IsLatest, Opened
    <3> QED
      BY <3>1, <3>2
  <2> QED
    BY <2>1, <2>2
<1>6. turn \in 1..LastRequest /\ first \in Nat
  BY <1>2, <1>3, <1>4
<1>7. \/ turn \in Opened /\ IsLatest(turn) /\ first = turns[turn].sequence
      \/ first = 0 /\ turn = planOf[c].request
  BY <1>4
<1>8. /\ turns' = [turns EXCEPT ![turn] = [sequence |-> first + planOf[c].updates, seen |-> SeenAt(c)]]
      /\ toAnnounce' = [toAnnounce EXCEPT ![c] =
           [i \in 1..planOf[c].updates |-> [turn |-> turn, sequence |-> first + i]]]
  BY DEF AcceptActivity
<1> HIDE DEF turn, first
<1> QED
  BY <1>5, <1>6, <1>7, <1>8

LEMMA AcceptKeeps ==
  ASSUME CallsInv, NEW c \in ToolCalls, AcceptActivity(c)
  PROVE  /\ LatestIsOne' /\ OneAnnounces' /\ TurnsAreBegun' /\ TurnsInOrder'
         /\ DistinctRequests' => PublishedIsJoined'
         /\ turns' \in [1..LastRequest -> [sequence : Nat, seen : Nat]]
         /\ toAnnounce' \in [ToolCalls -> Seq(ActivityOf)]
<1> DEFINE updates == planOf[c].updates
<1>1. PICK turn \in 1..LastRequest, first \in Nat, seenAt \in Nat :
           /\ turns' = [turns EXCEPT ![turn] = [sequence |-> first + updates, seen |-> seenAt]]
           /\ toAnnounce' = [toAnnounce EXCEPT ![c] = [i \in 1..updates |-> [turn |-> turn, sequence |-> first + i]]]
           /\ \A u \in Opened : turns[u].seen < seenAt
           /\ \/ turn \in Opened /\ IsLatest(turn) /\ first = turns[turn].sequence
              \/ first = 0 /\ turn = planOf[c].request
  BY AcceptsIn
<1>2. updates \in Nat /\ updates > 0
  BY CallsAssumption DEF CallsInv, CallsTypeOK, AcceptActivity
<1>3. /\ callStep[c] = "received" /\ callStep' = [callStep EXCEPT ![c] = "announcing"] /\ activityMu = NoHolder
      /\ activityMu' = c /\ UNCHANGED <<planOf, activities>> /\ c # NoHolder
  BY CallsAssumption DEF AcceptActivity, CallMoves
<1>4. /\ turns \in [1..LastRequest -> [sequence : Nat, seen : Nat]] /\ toAnnounce \in [ToolCalls -> Seq(ActivityOf)]
      /\ callStep \in [ToolCalls -> {"out", "received", "announcing", "observed", "running", "refused", "returned",
                                     "wrapped", "stopping", "answered"}]
  BY DEF CallsInv, CallsTypeOK
<1> HIDE DEF updates
<1> DEFINE said == [i \in 1..updates |-> [turn |-> turn, sequence |-> first + i]]
<1>5. said \in Seq(ActivityOf) /\ Len(said) = updates /\ said # <<>> /\ turn \in Nat
  <2>1. turn \in Nat /\ \A i \in 1..updates : [turn |-> turn, sequence |-> first + i] \in ActivityOf
    BY <1>2, CallsAssumption DEF ActivityOf
  <2>2. said \in [1..updates -> ActivityOf]
    BY <2>1
  <2> HIDE DEF said
  <2> QED
    BY <1>2, <2>1, <2>2, MadeASequence
<1>6. toAnnounce' = [toAnnounce EXCEPT ![c] = said]
  BY <1>1
<1>7. \A i \in 1..updates : said[i] = [turn |-> turn, sequence |-> first + i]
  OBVIOUS
<1> HIDE DEF said
<1>8. /\ turns' \in [1..LastRequest -> [sequence : Nat, seen : Nat]] /\ toAnnounce' \in [ToolCalls -> Seq(ActivityOf)]
      /\ toAnnounce'[c] = said
  <2>1. first + updates \in Nat
    BY <1>2
  <2> QED
    BY <1>1, <1>4, <1>5, <1>6, <2>1
<1>9. /\ turns'[turn].sequence = first + updates /\ turns'[turn].seen = seenAt
      /\ \A u \in 1..LastRequest : u # turn => turns'[u] = turns[u]
  BY <1>1, <1>4
<1>10. Opened' = Opened \cup {turn} /\ Opened \subseteq 1..LastRequest
  BY <1>2, <1>9 DEF Opened
<1>11. IsLatest(turn)'
  BY <1>1, <1>9, <1>10 DEF IsLatest
<1>12. LatestIsOne'
  BY <1>10, <1>11 DEF LatestIsOne
<1>13. OneAnnounces'
  <2>1. \A d \in ToolCalls : callStep[d] # "announcing" /\ d # NoHolder
    BY <1>3, CallsAssumption DEF CallsInv, OneAnnounces
  <2> QED
    BY <1>3, <1>4, <1>5, <1>8, <2>1 DEF OneAnnounces
<1>14. TurnsAreBegun'
  <2>1. \A i \in 1..Len(activities) : activities[i].call \in ToolCalls
    BY PublishedTypes DEF CallsInv
  <2>2. \A t \in Opened : \E d \in ToolCalls : planOf[d].request = t /\ callStep'[d] \notin {"out", "received"}
    BY <1>3, <1>4 DEF CallsInv, TurnsAreBegun
  <2>3. \E d \in ToolCalls : planOf[d].request = turn /\ callStep'[d] \notin {"out", "received"}
    BY <1>1, <1>3, <1>4, <2>2
  <2>4. \A d \in ToolCalls : \A i \in 1..Len(toAnnounce'[d]) : toAnnounce'[d][i].turn \in Opened'
    <3> SUFFICES ASSUME NEW d \in ToolCalls, NEW i \in 1..Len(toAnnounce'[d])
                 PROVE  toAnnounce'[d][i].turn \in Opened'
      OBVIOUS
    <3>1. CASE d = c
      BY <1>5, <1>7, <1>8, <1>10, <3>1
    <3>2. CASE d # c
      <4>1. toAnnounce'[d] = toAnnounce[d]
        BY <1>4, <1>6, <3>2
      <4> QED
        BY <1>10, <4>1 DEF CallsInv, TurnsAreBegun
    <3> QED
      BY <3>1, <3>2
  <2> QED
    BY <1>3, <1>4, <1>10, <2>1, <2>2, <2>3, <2>4 DEF CallsInv, TurnsAreBegun
<1>15. TurnsInOrder'
  BY <1>3 DEF CallsInv, TurnsInOrder, DistinctRequests
<1>16. ASSUME DistinctRequests' PROVE PublishedIsJoined'
  <2>1. DistinctRequests /\ PublishedIsJoined
    BY <1>3, <1>16 DEF DistinctRequests, CallsInv
  <2>2. turn \in Opened \/ (turn \notin Opened /\ first = 0 /\ turn = planOf[c].request)
    BY <1>1
  <2>3. LeftToSay' = updates
    BY <1>3, <1>5, <1>8 DEF LeftToSay
  <2>4. first + updates - updates = first
    BY <1>2
  <2>5. \/ first = 0 /\ \A i \in 1..Len(activities) : activities[i].of.turn # turn
        \/ first > 0 /\ activities # <<>> /\ activities[Len(activities)].of = [turn |-> turn, sequence |-> first]
    <3>1. CASE turn \notin Opened
      BY <2>2, <3>1 DEF CallsInv, TurnsAreBegun
    <3>2. CASE turn \in Opened
      <4>1. IsLatest(turn)
        BY <1>1, <1>3, <2>1, <3>2 DEF CallsInv, TurnsAreBegun, DistinctRequests
      <4>2. first = turns[turn].sequence
        BY <1>1, <1>3, <2>1, <3>2 DEF CallsInv, TurnsAreBegun, DistinctRequests
      <4>3. LeftToSay = 0 /\ turns[turn].sequence - 0 = first
        BY <1>3, <4>2 DEF LeftToSay
      <4> QED
        BY <2>1, <4>1, <4>3 DEF PublishedIsJoined
    <3> QED
      BY <3>1, <3>2
  <2>6. \A t \in 1..LastRequest : IsLatest(t)' => t = turn
    <3> SUFFICES ASSUME NEW t \in 1..LastRequest, IsLatest(t)', t # turn PROVE FALSE
      OBVIOUS
    <3>1. t \in Opened' /\ turn \in Opened' /\ turns'[turn].seen < turns'[t].seen /\ turns'[t].seen < turns'[turn].seen
      BY <1>11 DEF IsLatest
    <3>2. turns'[turn].seen \in Nat /\ turns'[t].seen \in Nat
      BY <1>8
    <3> QED
      BY <3>1, <3>2
  <2>7. Opened' # {}
    BY <1>10
  <2>8. activities' = activities /\ activityMu' = c
    BY <1>3
  <2>9. turns'[turn].sequence - LeftToSay' = first
    BY <1>2, <1>9, <2>3
  <2> QED
    BY <1>7, <1>8, <2>3, <2>5, <2>6, <2>7, <2>8, <2>9 DEF PublishedIsJoined
<1> QED
  BY <1>8, <1>12, <1>13, <1>14, <1>15, <1>16

\* What is announced is put at the end of what is published.
LEMMA Announces ==
  ASSUME CallsInv, NEW c \in ToolCalls, AnnounceActivity(c)
  PROVE  /\ activities' \in Seq([call : ToolCalls, of : ActivityOf]) /\ toAnnounce' \in [ToolCalls -> Seq(ActivityOf)]
         /\ Len(activities') = Len(activities) + 1 /\ Len(activities) \in Nat
         /\ \A i \in 1..Len(activities) : activities'[i] = activities[i]
         /\ activities'[Len(activities) + 1] = [call |-> c, of |-> toAnnounce[c][1]]
         /\ toAnnounce[c] \in Seq(ActivityOf) /\ Len(toAnnounce[c]) \in Nat \ {0}
         /\ Len(toAnnounce'[c]) = Len(toAnnounce[c]) - 1
         /\ \A i \in 1..Len(toAnnounce'[c]) : toAnnounce'[c][i] = toAnnounce[c][i + 1]
         /\ \A d \in ToolCalls : d # c => toAnnounce'[d] = toAnnounce[d]
<1> DEFINE Entry == [call : ToolCalls, of : ActivityOf]
           told == toAnnounce[c]
<1>1. activities \in Seq(Entry) /\ toAnnounce \in [ToolCalls -> Seq(ActivityOf)]
  BY DEF CallsInv, CallsTypeOK
<1>2. told \in Seq(ActivityOf) /\ told # <<>>
  BY <1>1 DEF AnnounceActivity
<1>3. /\ activities' = Append(activities, [call |-> c, of |-> Head(told)])
      /\ toAnnounce' = [toAnnounce EXCEPT ![c] = Tail(told)]
  BY <1>1 DEF AnnounceActivity
<1> HIDE DEF told
<1> DEFINE A == ActivityOf
<1>4. \A a \in A : [call |-> c, of |-> a] \in Entry
  OBVIOUS
<1> HIDE DEF A, Entry
<1>5. told \in Seq(A)
  BY <1>2 DEF A
<1>6. /\ Len(told) \in Nat \ {0} /\ Head(told) = told[1] /\ Head(told) \in A /\ Tail(told) \in Seq(A)
      /\ Len(Tail(told)) = Len(told) - 1 /\ \A i \in 1..Len(Tail(told)) : Tail(told)[i] = told[i + 1]
  BY <1>2, <1>5
<1>7. [call |-> c, of |-> Head(told)] \in Entry
  BY <1>4, <1>6
<1> DEFINE new == [call |-> c, of |-> Head(told)]
<1> HIDE DEF new
<1>8. /\ Append(activities, new) \in Seq(Entry) /\ Len(Append(activities, new)) = Len(activities) + 1
      /\ Len(activities) \in Nat /\ \A i \in 1..Len(activities) : Append(activities, new)[i] = activities[i]
      /\ Append(activities, new)[Len(activities) + 1] = new
  BY <1>1, <1>7, AppendProperties DEF new
<1>9. activities' = Append(activities, new) /\ new = [call |-> c, of |-> told[1]]
  BY <1>3, <1>6 DEF new
<1>10. /\ toAnnounce' \in [ToolCalls -> Seq(ActivityOf)] /\ toAnnounce'[c] = Tail(told)
       /\ \A d \in ToolCalls : d # c => toAnnounce'[d] = toAnnounce[d]
  BY <1>1, <1>3, <1>6 DEF A
<1>11. Len(toAnnounce'[c]) = Len(told) - 1 /\ \A i \in 1..Len(toAnnounce'[c]) : toAnnounce'[c][i] = told[i + 1]
  BY <1>6, <1>10
<1>12. toAnnounce[c] = told
  BY DEF told
<1> QED
  BY <1>2, <1>6, <1>8, <1>9, <1>10, <1>11, <1>12 DEF Entry

LEMMA AnnounceKeeps ==
  ASSUME CallsInv, NEW c \in ToolCalls, AnnounceActivity(c)
  PROVE  /\ LatestIsOne' /\ OneAnnounces' /\ TurnsAreBegun' /\ TurnsInOrder'
         /\ DistinctRequests' => PublishedIsJoined'
<1> DEFINE n == Len(activities)
           k == Len(toAnnounce[c])
<1>1. /\ Len(activities') = n + 1 /\ n \in Nat /\ k \in Nat \ {0} /\ Len(toAnnounce'[c]) = k - 1
      /\ \A i \in 1..n : activities'[i] = activities[i]
      /\ activities'[n + 1] = [call |-> c, of |-> toAnnounce[c][1]]
      /\ \A i \in 1..(k - 1) : toAnnounce'[c][i] = toAnnounce[c][i + 1]
      /\ \A d \in ToolCalls : d # c => toAnnounce'[d] = toAnnounce[d]
  BY Announces
<1>2. /\ callStep[c] = "announcing" /\ activityMu = c /\ c # NoHolder /\ UNCHANGED <<planOf, turns>>
      /\ \A d \in ToolCalls : callStep[d] = "announcing" => d = c
  BY CallsAssumption DEF CallsInv, OneAnnounces, AnnounceActivity
<1>3. IF k = 1
      THEN activityMu' = NoHolder /\ callStep' = [callStep EXCEPT ![c] = "observed"]
      ELSE activityMu' = c /\ callStep' = callStep
  BY <1>2 DEF AnnounceActivity, CallMoves
<1>4. /\ callStep \in [ToolCalls -> {"out", "received", "announcing", "observed", "running", "refused", "returned",
                                     "wrapped", "stopping", "answered"}]
      /\ turns \in [1..LastRequest -> [sequence : Nat, seen : Nat]] /\ toAnnounce[c] \in Seq(ActivityOf)
      /\ toAnnounce'[c] \in Seq(ActivityOf)
  BY Announces DEF CallsInv, CallsTypeOK
<1>5. \A i \in 1..n : activities[i].call \in ToolCalls
  BY PublishedTypes DEF CallsInv
<1>6. toAnnounce'[c] # <<>> <=> k # 1
  <2> DEFINE rest == toAnnounce'[c]
  <2>1. rest \in Seq(ActivityOf) /\ Len(rest) = k - 1 /\ k \in Nat
    BY <1>1, <1>4
  <2> HIDE DEF rest
  <2>2. rest # <<>> <=> Len(rest) # 0
    BY <2>1, EmptySeq
  <2>3. rest # <<>> <=> k # 1
    BY <2>1, <2>2
  <2> QED
    BY <2>3 DEF rest
<1>7. LeftToSay = k /\ LeftToSay' = k - 1
  <2>1. LeftToSay = k
    BY <1>2 DEF LeftToSay
  <2>2. LeftToSay' = k - 1
    BY <1>1, <1>2, <1>3 DEF LeftToSay
  <2> QED
    BY <2>1, <2>2
<1> HIDE DEF n, k
<1>8. Opened' = Opened /\ (\A t : IsLatest(t)' <=> IsLatest(t)) /\ LatestIsOne'
  BY <1>2 DEF Opened, IsLatest, LatestIsOne, CallsInv
<1>9. OneAnnounces'
  BY <1>2, <1>3, <1>4, <1>6, CallsAssumption DEF OneAnnounces
<1>10. n + 1 \in Nat /\ 1..(n + 1) = 1..n \cup {n + 1} /\ n + 1 \notin 1..n /\ DOMAIN activities = 1..n
       /\ DOMAIN activities' = 1..(n + 1)
  <2>1. DOMAIN activities = 1..n
    BY PublishedTypes DEF CallsInv, n
  <2>2. DOMAIN activities' = 1..(n + 1)
    BY <1>1, Announces, LenProperties
  <2> QED
    BY <1>1, <2>1, <2>2
<1>11. toAnnounce[c][1].turn \in Opened
  BY <1>1 DEF CallsInv, TurnsAreBegun, k
<1>12. \A i \in 1..n :
         activities[i].of.turn \in Opened /\ callStep[activities[i].call] \notin {"out", "received", "refused"}
  BY DEF CallsInv, TurnsAreBegun, n
<1>13. TurnsAreBegun'
  <2>1. \A i \in 1..Len(activities') :
          activities'[i].of.turn \in Opened /\ callStep'[activities'[i].call] \notin {"out", "received", "refused"}
    <3> SUFFICES ASSUME NEW i \in 1..(n + 1)
                 PROVE  /\ activities'[i].of.turn \in Opened
                        /\ callStep'[activities'[i].call] \notin {"out", "received", "refused"}
      BY <1>1
    <3>1. CASE i \in 1..n
      <4>1. activities'[i] = activities[i]
        BY <1>1, <3>1
      <4>2. activities[i].call \in ToolCalls /\ callStep[activities[i].call] \notin {"out", "received", "refused"}
        BY <1>5, <1>12, <3>1
      <4>3. callStep'[activities[i].call] \notin {"out", "received", "refused"}
        BY <1>3, <1>4, <4>2
      <4> QED
        BY <1>12, <3>1, <4>1, <4>3
    <3>2. CASE i = n + 1
      BY <1>1, <1>2, <1>3, <1>4, <1>11, <3>2
    <3> QED
      BY <1>10, <3>1, <3>2
  <2>2. \A d \in ToolCalls : \A i \in 1..Len(toAnnounce'[d]) : toAnnounce'[d][i].turn \in Opened
    <3> SUFFICES ASSUME NEW d \in ToolCalls, NEW i \in 1..Len(toAnnounce'[d])
                 PROVE  toAnnounce'[d][i].turn \in Opened
      OBVIOUS
    <3>1. CASE d = c
      <4>1. i \in 1..(k - 1) /\ i + 1 \in 1..k
        BY <1>1, <3>1
      <4>2. toAnnounce'[c][i] = toAnnounce[c][i + 1] /\ toAnnounce[c][i + 1].turn \in Opened
        BY <1>1, <4>1 DEF CallsInv, TurnsAreBegun, k
      <4> QED
        BY <3>1, <4>2
    <3>2. CASE d # c
      <4>1. toAnnounce'[d] = toAnnounce[d]
        BY <1>1, <3>2
      <4> QED
        BY <4>1 DEF CallsInv, TurnsAreBegun
    <3> QED
      BY <3>1, <3>2
  <2>3. \A t \in Opened : \E d \in ToolCalls : planOf[d].request = t /\ callStep'[d] \notin {"out", "received"}
    BY <1>3, <1>4 DEF CallsInv, TurnsAreBegun
  <2> QED
    BY <1>2, <1>8, <2>1, <2>2, <2>3 DEF TurnsAreBegun
<1>14. ASSUME DistinctRequests' PROVE TurnsInOrder' /\ PublishedIsJoined'
  <2>1. DistinctRequests /\ PublishedIsJoined /\ TurnsInOrder
    BY <1>2, <1>14 DEF DistinctRequests, CallsInv
  <2>2. PICK t \in Opened : IsLatest(t)
    BY <1>11 DEF LatestIsOne, CallsInv
  <2> DEFINE done == turns[t].sequence - k
  <2>3. t \in 1..LastRequest /\ turns[t].sequence \in Nat /\ done \in Int /\ (turns[t].sequence - (k - 1)) = done + 1
    <3>1. t \in 1..LastRequest /\ turns[t].sequence \in Nat
      BY <1>4, <2>2 DEF Opened
    <3>2. k \in Nat
      BY <1>1
    <3> QED
      BY <3>1, <3>2
  <2>4. /\ \/ done = 0 /\ \A i \in 1..n : activities[i].of.turn # t
           \/ done > 0 /\ activities # <<>> /\ activities[n].of = [turn |-> t, sequence |-> done]
        /\ \A i \in 1..k : toAnnounce[c][i] = [turn |-> t, sequence |-> done + i]
    BY <1>2, <1>7, <2>1, <2>2, <2>3 DEF PublishedIsJoined, n
  <2> HIDE DEF done
  <2>5. activities # <<>> => n > 0
    BY Announces, EmptySeq DEF n
  <2>6. activities'[n + 1].of = [turn |-> t, sequence |-> done + 1]
    BY <1>1, <2>4
  <2>7. TurnsInOrder'
    <3> SUFFICES ASSUME NEW i \in 1..(n + 1)
                 PROVE  \/ /\ activities'[i].of.sequence = 1
                           /\ \A j \in 1..(i - 1) : activities'[j].of.turn # activities'[i].of.turn
                        \/ i > 1 /\ activities'[i].of = [activities'[i - 1].of EXCEPT !.sequence = @ + 1]
      BY <1>10 DEF TurnsInOrder
    <3>1. CASE i \in 1..n
      <4>1. \A j \in 1..i : activities'[j] = activities[j]
        BY <1>1, <3>1
      <4>2. i \in Nat /\ (i > 1 => i - 1 \in 1..i) /\ i \in 1..i /\ 1..(i - 1) \subseteq 1..i
        BY <1>1, <3>1
      <4>3. \/ activities[i].of.sequence = 1 /\ \A j \in 1..(i - 1) : activities[j].of.turn # activities[i].of.turn
            \/ i > 1 /\ activities[i].of = [activities[i - 1].of EXCEPT !.sequence = @ + 1]
        BY <1>10, <2>1, <3>1 DEF TurnsInOrder
      <4> QED
        BY <4>1, <4>2, <4>3
    <3>2. CASE i = n + 1 /\ done = 0
      <4>1. \A j \in 1..n : activities'[j].of.turn # t
        BY <1>1, <2>4, <3>2
      <4> QED
        BY <1>1, <2>6, <3>2, <4>1
    <3>3. CASE i = n + 1 /\ done > 0
      <4>1. n > 0 /\ n \in 1..n /\ i - 1 = n /\ i > 1
        BY <1>1, <2>4, <2>5, <3>3
      <4>2. activities'[n].of = [turn |-> t, sequence |-> done]
        BY <1>1, <2>4, <3>3, <4>1
      <4> QED
        BY <2>6, <3>3, <4>1, <4>2
    <3> QED
      BY <1>10, <2>4, <3>1, <3>2, <3>3
  <2>8. \A u \in 1..LastRequest : IsLatest(u) => u = t
    BY <2>2, OneLatest DEF CallsInv, IsLatest
  <2>9. turns'[t].sequence - LeftToSay' = done + 1
    BY <1>2, <1>7, <2>3
  <2>10. done + 1 > 0 /\ activities' # <<>> /\ activities'[Len(activities')].of = [turn |-> t, sequence |-> done + 1]
    <3>1. activities' # <<>>
      BY <1>1, Announces, EmptySeq
    <3>2. done + 1 > 0
      BY <2>3, <2>4
    <3> QED
      BY <1>1, <2>6, <3>1, <3>2
  <2>11. activityMu' # NoHolder =>
           \A i \in 1..LeftToSay' : toAnnounce'[activityMu'][i] = [turn |-> t, sequence |-> (done + 1) + i]
    <3> SUFFICES ASSUME activityMu' # NoHolder, NEW i \in 1..(k - 1)
                 PROVE  toAnnounce'[activityMu'][i] = [turn |-> t, sequence |-> (done + 1) + i]
      BY <1>7
    <3>1. activityMu' = c
      BY <1>3
    <3>2. i \in Nat /\ i + 1 \in 1..k /\ done + (i + 1) = (done + 1) + i
      <4>1. k \in Nat /\ done \in Int
        BY <1>1, <2>3
      <4>2. i \in Nat /\ i + 1 \in 1..k
        BY <4>1
      <4> QED
        BY <4>1, <4>2
    <3>3. toAnnounce'[c][i] = toAnnounce[c][i + 1] /\ toAnnounce[c][i + 1] = [turn |-> t, sequence |-> done + (i + 1)]
      BY <1>1, <2>4, <3>2
    <3> QED
      BY <3>1, <3>2, <3>3
  <2>12. PublishedIsJoined'
    <3>1. Opened' # {}
      BY <1>8, <2>2
    <3> QED
      BY <1>8, <2>8, <2>9, <2>10, <2>11, <3>1 DEF PublishedIsJoined
  <2> QED
    BY <2>7, <2>12
<1>15. TurnsInOrder'
  BY <1>14 DEF TurnsInOrder
<1> QED
  BY <1>8, <1>9, <1>13, <1>14, <1>15

\* Every result has the shape of one.
LEMMA ResultsAre ==
  /\ NoResult \in ResultOf
  /\ \A answer : ToolAnswer(answer) \in ResultOf
  /\ \A result \in ResultOf : Wrapped(result) \in ResultOf /\ Wrapped(result).transparent = result.transparent
  /\ \A c : RefusedResult(c) \in ResultOf /\ ~RefusedResult(c).transparent
<1>1. NoResult \in ResultOf
  BY DEF NoResult, NoTurn, ResultOf, ActivityOf
<1>2. ASSUME NEW answer PROVE ToolAnswer(answer) \in ResultOf
  <2> DEFINE failing == answer \in {"error", "panic", "none", "upstream_error"}
             says == CASE answer = "confirm" -> "waiting_confirmation"
                       [] answer = "upstream_failed" -> "failed" [] OTHER -> ""
             passed == answer \in {"upstream_error", "upstream_failed"}
  <2>1. failing \in BOOLEAN /\ passed \in BOOLEAN /\ says \in {"waiting_confirmation", "failed", ""}
    OBVIOUS
  <2>2. ToolAnswer(answer) = [NoResult EXCEPT !.isError = failing, !.status = says, !.transparent = passed]
    BY DEF ToolAnswer
  <2> HIDE DEF failing, says, passed
  <2>3. ToolAnswer(answer) = [isError |-> failing, status |-> says, transparent |-> passed, activity |-> NoTurn]
    BY <2>2 DEF NoResult
  <2>4. \A f \in BOOLEAN : \A p \in BOOLEAN : \A s \in {"waiting_confirmation", "failed", ""} :
          [isError |-> f, status |-> s, transparent |-> p, activity |-> NoTurn] \in ResultOf
    BY DEF NoTurn, ResultOf, ActivityOf
  <2> QED
    BY <2>1, <2>3, <2>4, Zenon
<1>3. \A result \in ResultOf : Wrapped(result) \in ResultOf /\ Wrapped(result).transparent = result.transparent
  BY DEF Wrapped, ResultOf
<1>4. \A c : RefusedResult(c) \in ResultOf /\ ~RefusedResult(c).transparent
  BY DEF RefusedResult, NoResult, NoTurn, ResultOf, ActivityOf
<1> QED
  BY <1>1, <1>2, <1>3, <1>4

\* The activity that is current has a turn and a number.
LEMMA CurrentIs ==
  ASSUME CallsTypeOK, LatestIsOne
  PROVE  CurrentActivity \in ActivityOf
<1>1. turns \in [1..LastRequest -> [sequence : Nat, seen : Nat]] /\ LastRequest \in Nat
  BY CallsAssumption DEF CallsTypeOK
<1>2. LatestTurn = 0 \/ LatestTurn \in 1..LastRequest
  BY LatestTurnIs DEF Opened
<1> QED
  BY <1>1, <1>2 DEF CurrentActivity, NoTurn, ActivityOf

\* A result is wrapped with the activity that is current, or it is passed on.
LEMMA WrappedIs ==
  ASSUME CallsInv, NEW c \in ToolCalls, WrapResult(c)
  PROVE  /\ callResult' \in [ToolCalls -> ResultOf]
         /\ \A d \in ToolCalls : d # c => callResult'[d] = callResult[d]
         /\ \/ planOf[c].answer = "unrenderable"
            \/ callResult'[c].transparent
            \/ activityMu = NoHolder /\ callResult'[c].activity = CurrentActivity
<1>1. callResult \in [ToolCalls -> ResultOf] /\ CallsTypeOK /\ LatestIsOne
  BY DEF CallsInv, CallsTypeOK
<1>2. CASE callStep[c] = "returned" /\ planOf[c].answer = "unrenderable" /\ planOf[c].mode = "sync"
  BY <1>1, <1>2, ResultsAre DEF WrapResult
<1>3. CASE ~(callStep[c] = "returned" /\ planOf[c].answer = "unrenderable" /\ planOf[c].mode = "sync")
  <2> DEFINE result == IF callStep[c] = "refused" THEN RefusedResult(c) ELSE callResult[c]
             wrapped == Wrapped(result)
             named == IF result.transparent THEN NoTurn ELSE CurrentActivity
  <2>1. callResult' = [callResult EXCEPT ![c] = [wrapped EXCEPT !.activity = named]]
    BY <1>3 DEF WrapResult
  <2>2. result \in ResultOf
    BY <1>1, ResultsAre
  <2>3. wrapped \in ResultOf /\ wrapped.transparent = result.transparent
    BY <2>2, ResultsAre
  <2>4. named \in ActivityOf
    BY <1>1, CurrentIs DEF NoTurn, ActivityOf
  <2>5. result.transparent \/ activityMu = NoHolder
    BY ResultsAre DEF WrapResult, CallsInv, CallsFit
  <2>6. result.transparent \/ named = CurrentActivity
    OBVIOUS
  <2> HIDE DEF result, wrapped, named
  <2> DEFINE end == [wrapped EXCEPT !.activity = named]
  <2>7. end \in ResultOf /\ end.transparent = wrapped.transparent /\ end.activity = named
    BY <2>3, <2>4 DEF ResultOf
  <2> HIDE DEF end
  <2>8. callResult' = [callResult EXCEPT ![c] = end]
    BY <2>1 DEF end
  <2> QED
    BY <1>1, <2>3, <2>5, <2>6, <2>7, <2>8
<1> QED
  BY <1>2, <1>3

\* The last published activity is the current one when nobody is announcing.
LEMMA CurrentIsPublished ==
  ASSUME CallsInv, DistinctRequests, activityMu = NoHolder, activities # <<>>
  PROVE  Len(activities) \in DOMAIN activities /\ activities[Len(activities)].of = CurrentActivity
<1>1. PublishedIsJoined /\ CallsTypeOK /\ LatestIsOne
  BY DEF CallsInv
<1>2. Opened # {}
  BY <1>1, PublishedTypes, EmptySeq DEF PublishedIsJoined, CallsInv, TurnsAreBegun
<1>3. PICK n \in Nat \ {0} : n = Len(activities) /\ DOMAIN activities = 1..n
  BY <1>1, PublishedTypes, EmptySeq, LenProperties
<1>4. Opened # {}
  BY <1>3 DEF CallsInv, TurnsAreBegun
<1> DEFINE t == LatestTurn
<1>5. t \in Opened /\ IsLatest(t)
  BY <1>1, <1>4, LatestTurnIs
<1>6. t \in 1..LastRequest /\ turns[t].sequence \in Nat /\ turns[t].sequence > 0 /\ t # 0
  BY <1>1, <1>5, CallsAssumption DEF Opened, CallsTypeOK
<1>7. LeftToSay = 0 /\ turns[t].sequence - 0 = turns[t].sequence
  BY <1>6 DEF LeftToSay
<1>8. activities[Len(activities)].of = [turn |-> t, sequence |-> turns[t].sequence]
  BY <1>1, <1>5, <1>6, <1>7 DEF PublishedIsJoined
<1> QED
  BY <1>3, <1>6, <1>8 DEF CurrentActivity

\* No step but these two names an activity or publishes one.
LEMMA AnswersKeepTheirActivity ==
  ASSUME CallsInv, CallsNext \/ UNCHANGED callsVars
  PROVE  AnswerKnowsItsActivity'
<1> DEFINE Answered == {"wrapped", "stopping", "answered"}
<1> SUFFICES ASSUME DistinctRequests', NEW d \in ToolCalls, callStep'[d] \in Answered,
                    NEW j0 \in DOMAIN activities', activities'[j0].call = d,
                    ~callResult'[d].transparent, planOf'[d].answer # "unrenderable"
             PROVE  \E i \in DOMAIN activities' :
                      /\ activities'[i].of = callResult'[d].activity
                      /\ \A j \in DOMAIN activities' : activities'[j].call = d => j <= i
  BY DEF AnswerKnowsItsActivity
<1>1. planOf' = planOf /\ DistinctRequests
  BY DEF CallsNext, CallReceived, NoActivity, AcceptActivity, AnnounceActivity, CallStarts, ToolReturns, WrapResult,
         Complete, AnswerCall, StepRunStarts, StepRunEnds, Beat, BeatSent, BeatEnds, PublishNext, ClockMoves, callsVars,
         DistinctRequests
<1>2. /\ callStep \in [ToolCalls -> {"out", "received", "announcing", "observed", "running", "refused", "returned",
                                     "wrapped", "stopping", "answered"}]
      /\ Len(activities) \in Nat /\ DOMAIN activities = 1..Len(activities)
  BY PublishedTypes, LenProperties DEF CallsInv, CallsTypeOK
<1>3. CASE callStep[d] \in Answered /\ callResult'[d] = callResult[d] /\ activities' = activities
  BY <1>1, <1>3 DEF CallsInv, AnswerKnowsItsActivity
<1>4. ASSUME NEW c \in ToolCalls, AnnounceActivity(c)
      PROVE  callStep[d] \in Answered /\ callResult'[d] = callResult[d] /\ c # d
  BY <1>2, <1>4 DEF AnnounceActivity, CallMoves
<1>5. ASSUME NEW c \in ToolCalls, AnnounceActivity(c)
      PROVE  \E i \in DOMAIN activities' :
               /\ activities'[i].of = callResult'[d].activity
               /\ \A j \in DOMAIN activities' : activities'[j].call = d => j <= i
  <2> DEFINE n == Len(activities)
  <2>1. /\ n \in Nat /\ DOMAIN activities' = 1..(n + 1) /\ \A i \in 1..n : activities'[i] = activities[i]
        /\ activities'[n + 1].call = c
    <3>1. /\ Len(activities') = n + 1 /\ n \in Nat /\ \A i \in 1..n : activities'[i] = activities[i]
          /\ activities'[n + 1] = [call |-> c, of |-> toAnnounce[c][1]]
      BY <1>5, Announces
    <3>2. DOMAIN activities' = 1..Len(activities')
      BY <1>5, Announces, LenProperties
    <3> QED
      BY <3>1, <3>2
  <2>2. DOMAIN activities = 1..n
    BY <1>2
  <2> HIDE DEF n
  <2>3. 1..(n + 1) = 1..n \cup {n + 1} /\ 1..n \subseteq 1..(n + 1)
    BY <2>1
  <2>4. j0 \in 1..n /\ activities[j0].call = d
    BY <1>4, <1>5, <2>1, <2>3
  <2>5. PICK i \in 1..n : activities[i].of = callResult[d].activity /\ \A j \in 1..n : activities[j].call = d => j <= i
    BY <1>1, <1>4, <1>5, <2>2, <2>4 DEF CallsInv, AnswerKnowsItsActivity
  <2>6. \A j \in 1..(n + 1) : activities'[j].call = d => j <= i
    BY <1>4, <1>5, <2>1, <2>3, <2>5
  <2> QED
    BY <1>4, <1>5, <2>1, <2>3, <2>5, <2>6
<1>6. CASE WrapResult(d)
  <2>1. activities' = activities /\ activities # <<>>
    BY <1>2, <1>6, EmptySeq DEF WrapResult
  <2>2. activityMu = NoHolder /\ callResult'[d].activity = CurrentActivity
    BY <1>1, <1>6, WrappedIs
  <2>3. Len(activities) \in DOMAIN activities /\ activities[Len(activities)].of = CurrentActivity
    BY <1>1, <2>1, <2>2, CurrentIsPublished
  <2> QED
    BY <1>2, <2>1, <2>2, <2>3
<1>7. ASSUME NEW c \in ToolCalls, WrapResult(c), c # d
      PROVE  callStep[d] \in Answered /\ callResult'[d] = callResult[d] /\ activities' = activities
  BY <1>2, <1>7, WrappedIs DEF WrapResult
<1>8. ASSUME NEW c \in ToolCalls, CallStarts(c) \/ ToolReturns(c)
      PROVE  callStep[d] \in Answered /\ callResult'[d] = callResult[d] /\ activities' = activities
  <2>1. CASE ToolReturns(c)
    BY <1>2, <2>1 DEF ToolReturns, CallMoves
  <2>2. CASE CallStarts(c)
    <3>1. c # d /\ callStep'[d] = callStep[d] /\ activities' = activities
      BY <1>2, <2>2 DEF CallStarts, CallMoves
    <3>2. callResult'[d] = callResult[d]
      BY <2>2, <3>1 DEF CallStarts, CallsInv, CallsTypeOK
    <3> QED
      BY <3>1, <3>2
  <2> QED
    BY <1>8, <2>1, <2>2
<1>9. ASSUME NEW c \in ToolCalls,
             CallReceived(c) \/ NoActivity(c) \/ AcceptActivity(c) \/ Complete(c) \/ AnswerCall(c)
      PROVE  callStep[d] \in Answered /\ callResult'[d] = callResult[d] /\ activities' = activities
  BY <1>2, <1>9 DEF CallReceived, NoActivity, AcceptActivity, Complete, AnswerCall, CallMoves
<1>10. ASSUME NEW c \in ToolCalls,
              StepRunStarts(c) \/ StepRunEnds(c) \/ Beat(c) \/ BeatSent(c) \/ BeatEnds(c) \/ PublishNext(c)
       PROVE  callStep[d] \in Answered /\ callResult'[d] = callResult[d] /\ activities' = activities
  BY <1>10 DEF StepRunStarts, StepRunEnds, Beat, BeatSent, BeatEnds, PublishNext
<1>11. CASE ClockMoves \/ UNCHANGED callsVars
  BY <1>3, <1>11 DEF ClockMoves, callsVars
<1> QED
  BY <1>3, <1>5, <1>6, <1>7, <1>8, <1>9, <1>10, <1>11 DEF CallsNext

\* The part of the types that only some steps touch.
StepTypes ==
  /\ callStep \in [ToolCalls -> {"out", "received", "announcing", "observed", "running", "refused", "returned",
                                 "wrapped", "stopping", "answered"}]
  /\ receivedMs \in [ToolCalls -> 0..LastMs]
  /\ activityMu \in ToolCalls \cup {NoHolder}
  /\ callResult \in [ToolCalls -> ResultOf]
  /\ stepState \in [ToolCalls -> {"none", "queued", "running", "succeeded", "failed", "waiting"}]
  /\ beat \in [ToolCalls -> {"off", "waiting", "sending", "gone"}]
  /\ beats \in [ToolCalls -> 0..MaxBeats] /\ beatAfter \in BOOLEAN /\ clockMs \in 1..LastMs

\* A step keeps the types, how far calls are, and what is said of their step and heartbeat.
StepKeeps == planOf' = planOf /\ StepTypes' /\ CallsFit' /\ SilentAfterAnswer' /\ StepIsItsTool'

LEMMA CallGoesKeeps ==
  ASSUME CallsInv, NEW c \in ToolCalls,
         \/ CallReceived(c) \/ NoActivity(c) \/ AcceptActivity(c) \/ AnnounceActivity(c) \/ CallStarts(c)
         \/ ToolReturns(c) \/ WrapResult(c) \/ Complete(c) \/ AnswerCall(c) \/ PublishNext(c)
  PROVE  StepKeeps
<1>1. StepTypes /\ CallsFit /\ SilentAfterAnswer /\ StepIsItsTool /\ LastMs \in Nat /\ LastMs > 0
  BY CallsAssumption DEF CallsInv, CallsTypeOK, StepTypes
<1>2. CASE CallReceived(c)
  BY <1>1, <1>2 DEF CallReceived, CallMoves, StepKeeps, StepTypes, CallsFit, SilentAfterAnswer, StepIsItsTool
<1>3. CASE NoActivity(c)
  BY <1>1, <1>3 DEF NoActivity, CallMoves, StepKeeps, StepTypes, CallsFit, SilentAfterAnswer, StepIsItsTool
<1>4. CASE AcceptActivity(c)
  <2>1. /\ ~planOf[c].oversize /\ callStep[c] = "received" /\ callStep' = [callStep EXCEPT ![c] = "announcing"]
        /\ activityMu' = c
        /\ UNCHANGED <<planOf, receivedMs, callResult, stepState, beat, beats, beatAfter, clockMs>>
    BY <1>4 DEF AcceptActivity, CallMoves
  <2> QED
    BY <1>1, <2>1 DEF StepKeeps, StepTypes, CallsFit, SilentAfterAnswer, StepIsItsTool
<1>5. CASE AnnounceActivity(c)
  <2>1. /\ callStep[c] = "announcing"
        /\ callStep' = callStep \/ callStep' = [callStep EXCEPT ![c] = "observed"]
        /\ activityMu' = activityMu \/ activityMu' = NoHolder
        /\ UNCHANGED <<planOf, receivedMs, callResult, stepState, beat, beats, beatAfter, clockMs>>
    BY <1>5 DEF AnnounceActivity, CallMoves
  <2> QED
    BY <1>1, <2>1 DEF StepKeeps, StepTypes, CallsFit, SilentAfterAnswer, StepIsItsTool
<1>6. CASE CallStarts(c)
  <2>1. planOf[c].mode \in {"sync", "async"}
    BY CallsAssumption DEF CallsInv, CallsTypeOK
  <2> DEFINE accepted == [NoResult EXCEPT !.status = "accepted"]
  <2>2. accepted \in ResultOf
    BY DEF NoResult, NoTurn, ResultOf, ActivityOf
  <2>3. /\ callStep[c] = "observed"
        /\ callStep' = [callStep EXCEPT ![c] = IF planOf[c].mode = "async" THEN "returned" ELSE "running"]
        /\ IF planOf[c].mode = "async"
           THEN stepState' = [stepState EXCEPT ![c] = "queued"] /\ callResult' = [callResult EXCEPT ![c] = accepted]
           ELSE UNCHANGED <<stepState, callResult>>
        /\ UNCHANGED <<planOf, receivedMs, activityMu, beat, beats, beatAfter, clockMs>>
    BY <1>6 DEF CallStarts, CallMoves
  <2> HIDE DEF accepted
  <2>4. StepTypes'
    BY <1>1, <2>2, <2>3 DEF StepTypes
  <2>5. CallsFit' /\ SilentAfterAnswer' /\ StepIsItsTool'
    BY <1>1, <2>3 DEF StepTypes, CallsFit, SilentAfterAnswer, StepIsItsTool
  <2> QED
    BY <2>3, <2>4, <2>5 DEF StepKeeps
<1>7. CASE ToolReturns(c)
  <2>1. ToolAnswer(planOf[c].answer) \in ResultOf
    BY ResultsAre
  <2> QED
    BY <1>1, <1>7, <2>1 DEF ToolReturns, CallMoves, StepKeeps, StepTypes, CallsFit, SilentAfterAnswer, StepIsItsTool
<1>8. CASE WrapResult(c)
  <2>1. /\ callStep[c] \in {"returned", "refused"}
        /\ \/ callStep' = [callStep EXCEPT ![c] = "stopping"]
           \/ callStep' = [callStep EXCEPT ![c] = "wrapped"]
        /\ UNCHANGED <<planOf, receivedMs, activityMu, stepState, beat, beats, beatAfter, clockMs>>
    BY <1>8 DEF WrapResult
  <2>2. callResult' \in [ToolCalls -> ResultOf] /\ \A d \in ToolCalls : d # c => callResult'[d] = callResult[d]
    BY <1>8, WrappedIs
  <2> QED
    BY <1>1, <2>1, <2>2 DEF StepKeeps, StepTypes, CallsFit, SilentAfterAnswer, StepIsItsTool
<1>9. CASE Complete(c) \/ AnswerCall(c)
  <2>1. CASE Complete(c)
    BY <1>1, <2>1 DEF Complete, CallMoves, StepKeeps, StepTypes, CallsFit, SilentAfterAnswer, StepIsItsTool
  <2>2. CASE AnswerCall(c)
    BY <1>1, <2>2 DEF AnswerCall, CallMoves, StepKeeps, StepTypes, CallsFit, SilentAfterAnswer, StepIsItsTool
  <2> QED
    BY <1>9, <2>1, <2>2
<1>10. CASE PublishNext(c)
  BY <1>1, <1>10 DEF PublishNext, StepKeeps, StepTypes, CallsFit, SilentAfterAnswer, StepIsItsTool
<1> QED
  BY <1>2, <1>3, <1>4, <1>5, <1>6, <1>7, <1>8, <1>9, <1>10

\* A step has succeeded only with an answer that was not a failure of the tool.
LEMMA OutcomeIs ==
  \A answer \in ToolAnswers :
    /\ StepOutcome(answer) \in {"succeeded", "failed", "waiting"}
    /\ StepOutcome(answer) = "succeeded" => answer \in {"fine", "upstream_error", "unrenderable"}
<1> SUFFICES ASSUME NEW answer \in ToolAnswers
             PROVE  /\ StepOutcome(answer) \in {"succeeded", "failed", "waiting"}
                    /\ StepOutcome(answer) = "succeeded" => answer \in {"fine", "upstream_error", "unrenderable"}
  OBVIOUS
<1>1. StepOutcome(answer) \in {"succeeded", "failed", "waiting"}
  BY DEF StepOutcome
<1>2. answer \in {"error", "panic"} => StepOutcome(answer) = "failed"
  BY DEF StepOutcome, Wrapped, ToolAnswer, NoResult
<1>3. answer = "none" => StepOutcome(answer) = "failed"
  BY DEF StepOutcome
<1>4. answer = "confirm" => StepOutcome(answer) = "waiting"
  BY DEF StepOutcome, Wrapped, ToolAnswer, NoResult
<1>5. answer = "upstream_failed" => StepOutcome(answer) = "failed"
  BY DEF StepOutcome, Wrapped, ToolAnswer, NoResult
<1> QED
  BY <1>1, <1>2, <1>3, <1>4, <1>5 DEF ToolAnswers

LEMMA BeatKeeps ==
  ASSUME CallsInv,
         \/ \E c \in ToolCalls : StepRunStarts(c) \/ StepRunEnds(c) \/ Beat(c) \/ BeatSent(c) \/ BeatEnds(c)
         \/ ClockMoves \/ UNCHANGED callsVars
  PROVE  StepKeeps
<1>1. StepTypes /\ CallsFit /\ SilentAfterAnswer /\ StepIsItsTool /\ MaxBeats \in Nat
  BY CallsAssumption DEF CallsInv, CallsTypeOK, StepTypes
<1>2. ASSUME NEW c \in ToolCalls, StepRunStarts(c) PROVE StepKeeps
  BY <1>1, <1>2 DEF StepRunStarts, StepKeeps, StepTypes, CallsFit, SilentAfterAnswer, StepIsItsTool
<1>3. ASSUME NEW c \in ToolCalls, StepRunEnds(c) PROVE StepKeeps
  <2> DEFINE end == StepOutcome(planOf[c].answer)
  <2>1. planOf[c].answer \in ToolAnswers
    BY CallsAssumption DEF CallsInv, CallsTypeOK
  <2>2. /\ end \in {"succeeded", "failed", "waiting"}
        /\ end = "succeeded" => planOf[c].answer \in {"fine", "upstream_error", "unrenderable"}
    BY <2>1, OutcomeIs
  <2>3. /\ stepState[c] = "running" /\ stepState' = [stepState EXCEPT ![c] = end]
        /\ UNCHANGED <<planOf, callStep, receivedMs, callResult, activityMu, beat, beats, beatAfter, clockMs>>
    BY <1>3 DEF StepRunEnds
  <2> HIDE DEF end
  <2>4. StepTypes' /\ CallsFit' /\ SilentAfterAnswer'
    BY <1>1, <2>2, <2>3 DEF StepTypes, CallsFit, SilentAfterAnswer
  <2>5. StepIsItsTool'
    BY <1>1, <2>2, <2>3 DEF StepTypes, StepIsItsTool
  <2> QED
    BY <2>3, <2>4, <2>5 DEF StepKeeps
<1>4. ASSUME NEW c \in ToolCalls, Beat(c) \/ BeatEnds(c) PROVE StepKeeps
  BY <1>1, <1>4 DEF Beat, BeatEnds, StepKeeps, StepTypes, CallsFit, SilentAfterAnswer, StepIsItsTool
<1>5. ASSUME NEW c \in ToolCalls, BeatSent(c) PROVE StepKeeps
  <2>1. /\ beat[c] = "sending" /\ beat' = [beat EXCEPT ![c] = "waiting"]
        /\ UNCHANGED <<planOf, callStep, receivedMs, callResult, activityMu, stepState, clockMs>>
        /\ \/ beats' = [beats EXCEPT ![c] = beats[c] + 1] /\ beatAfter' = (beatAfter \/ callStep[c] = "answered")
           \/ UNCHANGED <<beats, beatAfter>>
    BY <1>1, <1>5 DEF BeatSent, StepTypes
  <2>2. callStep[c] # "answered" /\ beats[c] \in Nat /\ beats[c] + 1 \in 0..MaxBeats
    BY <1>1, <2>1 DEF CallsFit, StepTypes
  <2>3. ~beatAfter'
    BY <1>1, <2>1, <2>2 DEF SilentAfterAnswer
  <2>4. beatAfter' \in BOOLEAN
    BY <1>1, <2>1 DEF StepTypes
  <2>5. beats' \in [ToolCalls -> 0..MaxBeats]
    BY <1>1, <2>1, <2>2 DEF StepTypes
  <2>6. StepTypes'
    BY <1>1, <2>1, <2>4, <2>5 DEF StepTypes
  <2>7. CallsFit'
    BY <1>1, <2>1 DEF StepTypes, CallsFit
  <2> QED
    BY <1>1, <2>1, <2>3, <2>6, <2>7 DEF StepKeeps, SilentAfterAnswer, StepIsItsTool
<1>6. CASE ClockMoves \/ UNCHANGED callsVars
  BY <1>1, <1>6 DEF ClockMoves, callsVars, StepKeeps, StepTypes, CallsFit, SilentAfterAnswer, StepIsItsTool
<1> QED
  BY <1>2, <1>3, <1>4, <1>5, <1>6

LEMMA CallsStep == CallsInv /\ [CallsNext]_callsVars => CallsInv'
<1> SUFFICES ASSUME CallsInv, [CallsNext]_callsVars PROVE CallsInv'
  OBVIOUS
<1>1. AnswerKnowsItsActivity'
  BY AnswersKeepTheirActivity
<1>2. StepKeeps
  BY CallGoesKeeps, BeatKeeps DEF CallsNext
<1>3. LatestIsOne' /\ OneAnnounces' /\ TurnsAreBegun' /\ TurnsInOrder' /\ (DistinctRequests' => PublishedIsJoined')
  <2>1. CASE \E c \in ToolCalls : AcceptActivity(c) \/ AnnounceActivity(c)
    BY <2>1, AcceptKeeps, AnnounceKeeps
  <2>2. CASE ~\E c \in ToolCalls : AcceptActivity(c) \/ AnnounceActivity(c)
    <3>1. QuietStep
      BY <2>2, StepsAreQuiet DEF CallsNext, CallsInv, CallSteps
    <3> QED
      BY <3>1, QuietKeeps
  <2> QED
    BY <2>1, <2>2
<1>4. /\ turns' \in [1..LastRequest -> [sequence : Nat, seen : Nat]] /\ toAnnounce' \in [ToolCalls -> Seq(ActivityOf)]
      /\ activities' \in Seq([call : ToolCalls, of : ActivityOf])
  <2>1. CASE \E c \in ToolCalls : AcceptActivity(c)
    <3>1. activities' = activities
      BY <2>1 DEF AcceptActivity
    <3> QED
      BY <2>1, <3>1, AcceptKeeps DEF CallsInv, CallsTypeOK
  <2>2. CASE \E c \in ToolCalls : AnnounceActivity(c)
    <3>1. turns' = turns
      BY <2>2 DEF AnnounceActivity
    <3> QED
      BY <2>2, <3>1, Announces DEF CallsInv, CallsTypeOK
  <2>3. CASE ~\E c \in ToolCalls : AcceptActivity(c) \/ AnnounceActivity(c)
    <3>1. QuietStep
      BY <2>3, StepsAreQuiet DEF CallsNext, CallsInv, CallSteps
    <3> QED
      BY <3>1 DEF QuietStep, CallsInv, CallsTypeOK
  <2> QED
    BY <2>1, <2>2, <2>3
<1>5. CallsTypeOK'
  BY <1>2, <1>4 DEF StepKeeps, StepTypes, CallsTypeOK, CallsInv
<1> QED
  BY <1>1, <1>2, <1>3, <1>5 DEF CallsInv, StepKeeps

LEMMA CallsInitially == CallsInit => CallsInv
<1> SUFFICES ASSUME CallsInit PROVE CallsInv
  OBVIOUS
<1> USE DEF CallsInit
<1> DEFINE Entry == [call : ToolCalls, of : ActivityOf]
           A == ActivityOf
<1>1. activities \in Seq(Entry) /\ Len(activities) = 0 /\ DOMAIN activities = {}
  <2> HIDE DEF Entry
  <2> QED
    OBVIOUS
<1>2. toAnnounce \in [ToolCalls -> Seq(A)] /\ \A c \in ToolCalls : Len(toAnnounce[c]) = 0 /\ toAnnounce[c] = <<>>
  <2> HIDE DEF A
  <2> QED
    OBVIOUS
<1>3. turns \in [1..LastRequest -> [sequence : Nat, seen : Nat]] /\ Opened = {}
  BY DEF Opened
<1>4. CallsTypeOK
  <2>1. NoResult \in ResultOf
    BY ResultsAre
  <2>2. activities \in Seq([call : ToolCalls, of : ActivityOf]) /\ toAnnounce \in [ToolCalls -> Seq(ActivityOf)]
    BY <1>1, <1>2
  <2>3. callResult \in [ToolCalls -> ResultOf]
    BY <2>1
  <2>4. 1 \in 1..LastMs /\ 0 \in 0..LastMs /\ 0 \in 0..MaxBeats
    BY CallsAssumption
  <2> QED
    BY <1>3, <2>2, <2>3, <2>4 DEF CallsTypeOK
<1>5. LatestIsOne /\ OneAnnounces /\ TurnsAreBegun /\ CallsFit
  <2>1. LatestIsOne /\ OneAnnounces
    BY <1>3, CallsAssumption DEF LatestIsOne, OneAnnounces
  <2>2. TurnsAreBegun
    BY <1>1, <1>2, <1>3 DEF TurnsAreBegun
  <2>3. CallsFit
    BY CallsAssumption DEF CallsFit, NoResult
  <2> QED
    BY <2>1, <2>2, <2>3
<1>6. SilentAfterAnswer /\ StepIsItsTool
  BY DEF SilentAfterAnswer, StepIsItsTool
<1>7. TurnsInOrder /\ AnswerKnowsItsActivity
  BY <1>1 DEF TurnsInOrder, AnswerKnowsItsActivity
<1>8. PublishedIsJoined
  BY <1>1, <1>3 DEF PublishedIsJoined, IsLatest
<1> QED
  BY <1>4, <1>5, <1>6, <1>7, <1>8 DEF CallsInv

\* In every state of every instance, whatever calls overlap, are refused, panic or run
\* as operations, and whatever the clock shows: activities are published in the order
\* they were accepted, an answer names an activity that is not from before its call,
\* nothing is sent for a call that has answered, and a step ends as its tool did
\* (instrumentTool).  What an observer is told in sum (StreamTellsTheCall) is left to
\* TLC: it selects from a sequence.
THEOREM CallsAreTold ==
  CallsSpec => [](TurnsInOrder /\ AnswerKnowsItsActivity /\ SilentAfterAnswer /\ StepIsItsTool)
<1>1. CallsInv => TurnsInOrder /\ AnswerKnowsItsActivity /\ SilentAfterAnswer /\ StepIsItsTool
  BY DEF CallsInv
<1> QED
  BY <1>1, CallsInitially, CallsStep, PTL DEF CallsSpec
===============================================================================
