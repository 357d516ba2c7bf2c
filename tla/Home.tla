---------------------------------- MODULE Home ----------------------------------
(***************************************************************************)
(* The configuration file of the home directory (internal/config, the      *)
(* handlers of internal/desktop/api_windows, `mcpx workspace register`     *)
(* and the start of the server).                                           *)
(*                                                                         *)
(* Everyone who changes it loads it, changes what was loaded and writes    *)
(* the whole file in place: it is truncated first, and an empty file       *)
(* loads as the defaults.  The desktop application copies it to a backup   *)
(* first.  The server prunes at its start what is no directory any more,   *)
(* and waits for volumes that are not mounted yet.                         *)
(***************************************************************************)
EXTENDS Integers, Sequences, FiniteSets

CONSTANTS
  Editors,         \* those who change the file, one job each
  Workspaces,
  MaxVolumeMoves,  \* bound: directories that go, volumes that come and go
  MaxHomeFaults    \* bound: file operations that fail, processes that end

ASSUME HomeConstants == {MaxVolumeMoves, MaxHomeFaults} \subseteq Nat

VARIABLES
  confFile,    \* config.yaml
  confBackup,  \* config.yaml.bak
  volume,      \* where the directory of each workspace is
  editor,      \* job, steps to do and loaded configuration of each editor
  promised,    \* workspaces whose registration was confirmed
  guarded,     \* the user has set a token
  disturbed,   \* someone read the file between another's first and last use of
               \* it, or after a write that had not ended
  tornBy,      \* whose write of the file did not end: nobody, desktop, other
  volumeMoves, homeFaults

fileVars == <<confFile, confBackup>>
promiseVars == <<promised, guarded, disturbed, tornBy>>
homeBounds == <<volumeMoves, homeFaults>>
homeVars == <<fileVars, volume, editor, promiseVars, homeBounds>>

Defaults == [workspaces |-> {}, token |-> FALSE]
Configs == [workspaces : SUBSET Workspaces, token : BOOLEAN]
Files == [state : {"absent", "empty", "whole"}, conf : Configs]
Absent == [state |-> "absent", conf |-> Defaults]
Empty == [state |-> "empty", conf |-> Defaults]
Whole(conf) == [state |-> "whole", conf |-> conf]

Jobs == [kind : {"register", "add", "describe", "delete"}, workspace : Workspaces]
          \cup [kind : {"token", "start"}, workspace : {"none"}]
NoJob == [kind |-> "none", workspace |-> "none"]
Done == [kind |-> "done", workspace |-> "none"]
Idler == [job |-> NoJob, steps |-> <<>>, conf |-> Defaults, holds |-> FALSE, gone |-> {}, pending |-> FALSE]

HomeTypeOK ==
  /\ confFile \in Files /\ confBackup \in Files
  /\ volume \in [Workspaces -> {"there", "missing", "unmounted"}]
  /\ \A e \in Editors : editor[e].conf \in Configs /\ editor[e].job \in Jobs \cup {NoJob, Done}
  /\ promised \subseteq Workspaces /\ guarded \in BOOLEAN
  /\ disturbed \in BOOLEAN /\ tornBy \in {"nobody", "desktop", "other"}
  /\ volumeMoves \in 0..MaxVolumeMoves /\ homeFaults \in 0..MaxHomeFaults

HomeInit ==
  /\ confFile = Absent /\ confBackup = Absent
  /\ volume = [w \in Workspaces |-> "there"] /\ editor = [e \in Editors |-> Idler]
  /\ promised = {} /\ guarded = FALSE /\ disturbed = FALSE /\ tornBy = "nobody"
  /\ volumeMoves = 0 /\ homeFaults = 0

-----------------------------------------------------------------------------
\* Helpers

\* The steps of a job: `mcpx workspace register`, the handlers of the desktop
\* application, the start of a server.
StepsOf(kind) ==
  CASE kind = "register" -> <<"load", "truncate", "write">>
    [] kind = "add" -> <<"backup", "load", "truncate", "write", "load", "truncate", "write">>
    [] kind = "describe" -> <<"backup", "load", "truncate", "write">>
    [] kind \in {"delete", "token"} -> <<"load", "backup", "truncate", "write">>
    [] OTHER -> <<"ensure", "load", "prune">>

Turn(e, step) == editor[e].steps # <<>> /\ Head(editor[e].steps) = step
After(e) == [editor[e] EXCEPT !.steps = Tail(@)]
Becomes(e, next) == editor' = [editor EXCEPT ![e] = next]
Quits(e) == Becomes(e, [Idler EXCEPT !.job = Done])
Torn == confFile.state = "empty"
Reads(e) == disturbed' = (disturbed \/ Torn \/ \E o \in Editors \ {e} : editor[o].holds)
HomeFails == homeFaults < MaxHomeFaults /\ homeFaults' = homeFaults + 1
Whose(e) == IF editor[e].job.kind \in {"register", "start"} THEN "other" ELSE "desktop"

\* LoadGlobal: a file that is absent or empty gives the defaults
Loaded == IF confFile.state = "whole" THEN confFile.conf ELSE Defaults

\* What the job makes of the configuration it has loaded.
Changed(job, conf) ==
  CASE job.kind \in {"register", "add"} -> [conf EXCEPT !.workspaces = @ \cup {job.workspace}]
    [] job.kind = "delete" -> [conf EXCEPT !.workspaces = @ \ {job.workspace}]
    [] job.kind = "token" -> [conf EXCEPT !.token = TRUE]
    [] OTHER -> conf

\* A job that names a workspace that is not registered ends with an error.
Unknown(job, conf) == job.kind \in {"describe", "delete"} /\ job.workspace \notin conf.workspaces

-----------------------------------------------------------------------------
\* Editors

\* the desktop application adds directories that are there
TakeJob(e, job) ==
  /\ editor[e].job = NoJob
  /\ job.kind = "add" => volume[job.workspace] = "there"
  /\ Becomes(e, [Idler EXCEPT !.job = job, !.steps = StepsOf(job.kind)])
  /\ UNCHANGED <<fileVars, volume, promiseVars, homeBounds>>

LoadConf(e) ==
  LET job == editor[e].job IN
  /\ Turn(e, "load")
  /\ IF Unknown(job, Loaded) THEN Quits(e)
     ELSE Becomes(e, [After(e) EXCEPT !.conf = Changed(job, Loaded), !.holds = TRUE])
  /\ Reads(e)
  /\ UNCHANGED <<fileVars, volume, promised, guarded, tornBy, homeBounds>>

\* the backup is made of what is written
BackUpNew(e) ==
  /\ Turn(e, "backup")
  /\ \/ confBackup' = Whole(editor[e].conf)
        /\ Becomes(e, [After(e) EXCEPT !.holds = TRUE]) /\ UNCHANGED homeFaults
     \/ HomeFails /\ Quits(e) /\ confBackup' \in {confBackup, Empty}
  /\ Reads(e)
  /\ UNCHANGED <<confFile, volume, promised, guarded, tornBy, volumeMoves>>

\* backupGlobalConfig: a file that is absent needs none
BackUp(e) ==
  /\ Turn(e, "backup")
  /\ \/ confBackup' = (IF confFile.state = "absent" THEN confBackup ELSE confFile)
        /\ Becomes(e, [After(e) EXCEPT !.holds = TRUE]) /\ UNCHANGED homeFaults
     \/ HomeFails /\ Quits(e) /\ confBackup' \in {confBackup, Empty}
  /\ Reads(e)
  /\ UNCHANGED <<confFile, volume, promised, guarded, tornBy, volumeMoves>>

\* WriteGlobal: os.WriteFile truncates the file ...
Truncate(e) ==
  /\ Turn(e, "truncate")
  /\ \/ confFile' = Empty /\ Becomes(e, After(e)) /\ UNCHANGED homeFaults
     \/ HomeFails /\ Quits(e) /\ UNCHANGED confFile
  /\ UNCHANGED <<confBackup, volume, promiseVars, volumeMoves>>

\* ... and writes it.  The answer of the job follows its last write; the write
\* may do it all and report that it failed.
WriteConf(e) ==
  LET job == editor[e].job
      left == Tail(editor[e].steps)
      removed == IF job.kind = "delete" THEN {job.workspace} ELSE editor[e].gone
      added == IF job.kind \in {"register", "add"} /\ left = <<>> THEN {job.workspace} ELSE {}
      Written == confFile' = Whole(editor[e].conf) /\ tornBy' = "nobody" IN
  /\ Turn(e, "write")
  /\ \/ /\ Written
        /\ IF left = <<>> THEN Quits(e) ELSE Becomes(e, After(e))
        /\ promised' = (promised \ removed) \cup added
        /\ guarded' = (guarded \/ job.kind = "token")
        /\ UNCHANGED homeFaults
     \/ /\ HomeFails /\ Quits(e) /\ UNCHANGED guarded
        /\ \/ Written /\ promised' = promised \ removed
           \/ tornBy' = Whose(e) /\ UNCHANGED <<confFile, promised>>
  /\ UNCHANGED <<confBackup, volume, disturbed, volumeMoves>>

\* EnsureGlobalLayout
Ensure(e) ==
  /\ Turn(e, "ensure")
  /\ Becomes(e, [After(e) EXCEPT
       !.steps = IF confFile.state = "absent" THEN <<"truncate", "write">> \o @ ELSE @,
       !.holds = confFile.state = "absent"])
  /\ Reads(e)
  /\ UNCHANGED <<fileVars, volume, promised, guarded, tornBy, homeBounds>>

\* what is not there is removed
PruneAll(e) ==
  LET kept == {w \in editor[e].conf.workspaces : volume[w] = "there"} IN
  /\ Turn(e, "prune")
  /\ Becomes(e, [editor[e] EXCEPT
       !.conf.workspaces = kept, !.gone = {w \in Workspaces : volume[w] = "missing"}, !.pending = FALSE,
       !.steps = IF kept # editor[e].conf.workspaces THEN <<"truncate", "write", "settle">> ELSE <<"settle">>])
  /\ UNCHANGED <<fileVars, volume, promiseVars, homeBounds>>

\* PruneMissingWorkspaces, of the configuration that was loaded at the start:
\* a directory is gone when its parent is there
Prune(e) ==
  LET kept == {w \in editor[e].conf.workspaces : volume[w] # "missing"} IN
  /\ Turn(e, "prune")
  /\ Becomes(e, [editor[e] EXCEPT
       !.conf.workspaces = kept, !.gone = editor[e].conf.workspaces \ kept,
       !.pending = \E w \in kept : volume[w] = "unmounted",
       !.steps = IF kept # editor[e].conf.workspaces THEN <<"truncate", "write", "settle">> ELSE <<"settle">>])
  /\ UNCHANGED <<fileVars, volume, promiseVars, homeBounds>>

\* the server waits for what is pending, half a minute at most, and starts
Settle(e) ==
  /\ Turn(e, "settle")
  /\ \/ editor[e].pending /\ Becomes(e, [editor[e] EXCEPT !.steps = <<"prune">>, !.gone = {}])
     \/ Quits(e)
  /\ UNCHANGED <<fileVars, volume, promiseVars, homeBounds>>

\* The process of an editor ends.
EditorDies(e) ==
  /\ editor[e].steps # <<>> /\ HomeFails /\ Quits(e)
  /\ tornBy' = IF Turn(e, "write") THEN Whose(e) ELSE tornBy
  /\ UNCHANGED <<fileVars, volume, promised, guarded, disturbed, volumeMoves>>

\* A directory is removed, a volume is unmounted or mounted.
VolumeMoves(w, where) ==
  /\ volumeMoves < MaxVolumeMoves /\ volumeMoves' = volumeMoves + 1
  /\ volume[w] # where /\ volume' = [volume EXCEPT ![w] = where]
  /\ UNCHANGED <<fileVars, editor, promiseVars, homeFaults>>

HomeNext ==
  \/ \E e \in Editors :
       \/ \E job \in Jobs : TakeJob(e, job)
       \/ Ensure(e) \/ LoadConf(e) \/ BackUp(e) \/ Truncate(e) \/ WriteConf(e)
       \/ Prune(e) \/ Settle(e) \/ EditorDies(e)
  \/ \E w \in Workspaces, where \in {"there", "missing", "unmounted"} : VolumeMoves(w, where)

HomeSpec == HomeInit /\ [][HomeNext]_homeVars

-----------------------------------------------------------------------------
\* Properties

\* A workspace that was registered stays registered, and a token set, until the
\* user removes it or its directory goes: a volume that is not mounted while a
\* server starts costs nothing.
RegistrationsKept ==
  ~disturbed /\ ~Torn => promised \subseteq Loaded.workspaces /\ (guarded => Loaded.token)

\* What a write of the desktop application leaves when it does not end, its
\* backup has.
BackupHasIt ==
  ~disturbed /\ tornBy = "desktop" =>
    confBackup.state = "absent" \/ (promised \subseteq confBackup.conf.workspaces /\ (guarded => confBackup.conf.token))

\* The home directory keeps what the user has configured, as long as one changes
\* it at a time.
ConfigurationKept == RegistrationsKept /\ BackupHasIt

\* Not so without that condition: changes beside each other, the wait of a
\* starting server included, lose one of them.
NoUpdateLost == ~Torn => promised \subseteq Loaded.workspaces

\* Nor does a server always start with what the user has set: after a write that
\* did not end, and during one, it loads the defaults, without the token.
StartsAsConfigured ==
  [][\A e \in Editors :
       editor[e].job.kind = "start" /\ ~editor[e].holds /\ editor'[e].holds /\ Turn(e, "load") /\ guarded
         => editor'[e].conf.token]_homeVars
================================================================================
