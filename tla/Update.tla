--------------------------------- MODULE Update ---------------------------------
(***************************************************************************)
(* `mcpx update` (cmd/mcpx-server/update.go, internal/update/update.go):   *)
(* a process asks for a release, compares its version with the one it was  *)
(* built from, downloads the checksums and the archive, extracts the       *)
(* program, runs it, copies it beside the installed one and renames it     *)
(* over that.  Releases are published and their files replaced meanwhile,  *)
(* downloads are cut, steps fail, processes end.                           *)
(*                                                                         *)
(* A file is a build and the version its program prints; its checksum is   *)
(* the file itself.  That the printed text begins with the version of the  *)
(* release is all verifyExecutable looks at (strings.Contains).            *)
(***************************************************************************)
EXTENDS Integers, Sequences, FiniteSets

CONSTANTS
  Updaters,          \* runs of the command
  Releases,          \* versions, in the order semver.org gives them, after those that do not parse
  TextBegins,        \* <<i, j>>: the text of version i begins with that of version j
  MaxReuploads,      \* bound: releases whose files are replaced
  MaxUpdateFaults    \* bound: failing steps, cut downloads, ends of processes

Indices == DOMAIN Releases

ASSUME UpdateConstants ==
  /\ \A i \in Indices : <<i, i>> \in TextBegins
  /\ {MaxReuploads, MaxUpdateFaults} \subseteq Nat

VARIABLES
  site,       \* state, archive and checksum of each release
  program,    \* the installed program, a file
  updater,    \* step, own version, release and files of each process
  overlapped, \* two processes have been at work at once
  reuploads, updateFaults

updateBounds == <<reuploads, updateFaults>>
updateVars == <<site, program, updater, overlapped, updateBounds>>

\* A build of a release, a later one, what is left of a cut download, nothing.
Builds == {"build", "rebuild", "cut", "none"}
Files == [build : Builds, reports : Indices]
NoDownload == [build |-> "none", reports |-> 1]
CutFile == [build |-> "cut", reports |-> 1]
UpdateSteps == {"idle", "query", "sums", "archive", "extract", "stage", "rename", "done"}

UpdateTypeOK ==
  /\ site \in [Indices -> [state : {"absent", "draft", "published"}, archive : Files, sums : Files]]
  /\ program \in Files
  /\ updater \in [Updaters -> [step : UpdateSteps, own : Indices, target : Indices,
                               sums : Files, archive : Files, staged : Files]]
  /\ overlapped \in BOOLEAN /\ reuploads \in 0..MaxReuploads /\ updateFaults \in 0..MaxUpdateFaults

Unused == [step |-> "idle", own |-> 1, target |-> 1, sums |-> NoDownload, archive |-> NoDownload, staged |-> NoDownload]

UpdateInit ==
  /\ site = [i \in Indices |-> [state |-> "absent", archive |-> NoDownload, sums |-> NoDownload]]
  /\ program \in [build : {"build"}, reports : Indices]
  /\ updater = [u \in Updaters |-> Unused] /\ overlapped = FALSE
  /\ reuploads = 0 /\ updateFaults = 0

-----------------------------------------------------------------------------
\* Versions: three numbers and the identifiers of a pre-release, each a number
\* or a word; one that does not parse has no numbers.

Parses(v) == Len(v.core) = 3

Identifier(a, b) ==
  CASE a.number /\ b.number -> IF a.value < b.value THEN -1 ELSE 1
    [] a.number /\ ~b.number -> -1
    [] ~a.number /\ b.number -> 1
    [] OTHER -> IF a.value < b.value THEN -1 ELSE 1

FirstDifference(s, t, n) ==
  LET differ == {k \in 1..n : s[k] # t[k]} IN
  IF differ = {} THEN 0 ELSE CHOOSE k \in differ : \A j \in differ : k <= j

\* a version without a pre-release is one whose pre-release is shorter
ComparePrereleaseShort(s, t) ==
  LET n == IF Len(s) < Len(t) THEN Len(s) ELSE Len(t)
      k == FirstDifference(s, t, n) IN
  CASE k # 0 -> Identifier(s[k], t[k])
    [] Len(s) < Len(t) -> -1
    [] Len(s) > Len(t) -> 1
    [] OTHER -> 0

ComparePrerelease(s, t) ==
  LET n == IF Len(s) < Len(t) THEN Len(s) ELSE Len(t)
      k == FirstDifference(s, t, n) IN
  CASE s = <<>> /\ t = <<>> -> 0
    [] s = <<>> /\ t # <<>> -> 1
    [] s # <<>> /\ t = <<>> -> -1
    [] s # <<>> /\ t # <<>> /\ k # 0 -> Identifier(s[k], t[k])
    [] s # <<>> /\ t # <<>> /\ k = 0 /\ Len(s) < Len(t) -> -1
    [] s # <<>> /\ t # <<>> /\ k = 0 /\ Len(s) > Len(t) -> 1
    [] OTHER -> 0

CompareVersions(v, w) ==
  LET k == FirstDifference(v.core, w.core, 3) IN
  IF k = 0 THEN ComparePrerelease(v.pre, w.pre) ELSE IF v.core[k] < w.core[k] THEN -1 ELSE 1

\* What semver.org says of two of them: the numbers decide, then who has no
\* pre-release, then the first identifier that differs, then who has more.
LowerIdentifier(a, b) == (a.number /\ ~b.number) \/ (a.number = b.number /\ a.value < b.value)
LowerPrerelease(s, t) ==
  /\ s # <<>>
  /\ \/ t = <<>>
     \/ \E k \in DOMAIN s \cap DOMAIN t : LowerIdentifier(s[k], t[k]) /\ \A j \in 1..(k - 1) : s[j] = t[j]
     \/ Len(s) < Len(t) /\ \A j \in DOMAIN s : s[j] = t[j]
Precedes(v, w) ==
  \/ \E k \in 1..3 : v.core[k] < w.core[k] /\ \A j \in 1..(k - 1) : v.core[j] = w.core[j]
  \/ v.core = w.core /\ LowerPrerelease(v.pre, w.pre)

Versioned == [core : [1..3 -> Nat] \cup {<<>>}, pre : Seq([number : BOOLEAN, value : Nat])]

ASSUME ReleasesInOrder ==
  /\ Releases \in Seq(Versioned) /\ Releases # <<>>
  /\ \A i, j \in Indices : i < j /\ Parses(Releases[i]) => Parses(Releases[j]) /\ Precedes(Releases[i], Releases[j])

\* What a run makes of the release it found: nothing to do, an error, or go on.
Verdict(own, target) ==
  IF Parses(Releases[own]) /\ Parses(Releases[target])
  THEN CASE CompareVersions(Releases[own], Releases[target]) = 0 -> "current"
         [] CompareVersions(Releases[own], Releases[target]) > 0 -> "older"
         [] OTHER -> "newer"
  ELSE IF Releases[own] = Releases[target] THEN "current" ELSE "newer"

-----------------------------------------------------------------------------
\* The command

AtUpdateStep(u, step) == updater[u].step = step
Proceeds(u, next) == updater' = [updater EXCEPT ![u] = next]
EndsUpdate(u) == Proceeds(u, [Unused EXCEPT !.step = "done"])
Working(u) == updater[u].step \notin {"idle", "done"}
UpdateFault == updateFaults < MaxUpdateFaults /\ updateFaults' = updateFaults + 1

RunUpdate(u) ==
  /\ AtUpdateStep(u, "idle")
  /\ Proceeds(u, [updater[u] EXCEPT !.step = "query", !.own = program.reports])
  /\ overlapped' = (overlapped \/ \E o \in Updaters : Working(o))
  /\ UNCHANGED <<site, program, updateBounds>>

\* fetchRelease: the latest release, or the one that was asked for; --check
\* stops here
Query(u, i) ==
  /\ AtUpdateStep(u, "query") /\ site[i].state # "absent"
  /\ \/ /\ site[i].state = "published" /\ Verdict(updater[u].own, i) = "newer"
        /\ Proceeds(u, [updater[u] EXCEPT !.step = "sums", !.target = i])
     \/ EndsUpdate(u)
  /\ UNCHANGED <<site, program, overlapped, updateBounds>>

\* What a download gives: the file of the release, or what was left of it.
DownloadSums(u) ==
  /\ AtUpdateStep(u, "sums")
  /\ \/ /\ Proceeds(u, [updater[u] EXCEPT !.step = "archive", !.sums = site[updater[u].target].sums])
        /\ UNCHANGED updateFaults
     \/ UpdateFault /\ EndsUpdate(u)
  /\ UNCHANGED <<site, program, overlapped, reuploads>>

DownloadArchive(u) ==
  /\ AtUpdateStep(u, "archive")
  /\ \/ /\ Proceeds(u, [updater[u] EXCEPT !.step = "extract", !.archive = site[updater[u].target].archive])
        /\ UNCHANGED updateFaults
     \/ /\ UpdateFault
        /\ \/ Proceeds(u, [updater[u] EXCEPT !.step = "extract", !.archive = CutFile])
           \/ EndsUpdate(u)
  /\ UNCHANGED <<site, program, overlapped, reuploads>>

\* verifyExecutable: the program of the archive runs, and "mcpx" and the version
\* are in what it prints
Verified(u) ==
  /\ updater[u].archive.build \in {"build", "rebuild"}
  /\ <<updater[u].archive.reports, updater[u].target>> \in TextBegins

\* Bug: the checksum is not looked at.
ExtractUnchecked(u) ==
  /\ AtUpdateStep(u, "extract")
  /\ IF Verified(u) THEN Proceeds(u, [updater[u] EXCEPT !.step = "stage"]) ELSE EndsUpdate(u)
  /\ UNCHANGED <<site, program, overlapped, updateBounds>>

\* verifyChecksum, extractBinary, verifyExecutable: the archive is the one of
\* the checksum
Extract(u) ==
  /\ AtUpdateStep(u, "extract")
  /\ IF updater[u].archive = updater[u].sums /\ Verified(u)
     THEN Proceeds(u, [updater[u] EXCEPT !.step = "stage"]) ELSE EndsUpdate(u)
  /\ UNCHANGED <<site, program, overlapped, updateBounds>>

\* replaceExecutable: a copy beside the installed program, which is removed
\* when it cannot be made whole ...
StageProgram(u) ==
  /\ AtUpdateStep(u, "stage")
  /\ \/ Proceeds(u, [updater[u] EXCEPT !.step = "rename", !.staged = updater[u].archive]) /\ UNCHANGED updateFaults
     \/ UpdateFault /\ EndsUpdate(u)
  /\ UNCHANGED <<site, program, overlapped, reuploads>>

\* ... takes its name
RenameProgram(u) ==
  /\ AtUpdateStep(u, "rename")
  /\ \/ program' = updater[u].staged /\ UNCHANGED updateFaults
     \/ UpdateFault /\ UNCHANGED program
  /\ EndsUpdate(u)
  /\ UNCHANGED <<site, overlapped, reuploads>>

UpdaterDies(u) ==
  /\ Working(u) /\ UpdateFault /\ EndsUpdate(u)
  /\ UNCHANGED <<site, program, overlapped, reuploads>>

-----------------------------------------------------------------------------
\* The releases

FileOf(build, reports) == [build |-> build, reports |-> reports]

\* releases have versions that parse; their programs may report other ones
Draft(i, reports) ==
  /\ site[i].state = "absent" /\ Parses(Releases[i])
  /\ site' = [site EXCEPT ![i] = [state |-> "draft", archive |-> FileOf("build", reports), sums |-> FileOf("build", reports)]]
  /\ UNCHANGED <<program, updater, overlapped, updateBounds>>

PublishRelease(i) ==
  /\ site[i].state = "draft" /\ site' = [site EXCEPT ![i].state = "published"]
  /\ UNCHANGED <<program, updater, overlapped, updateBounds>>

\* The archive of a release is replaced, and its checksum afterwards.
Reupload(i, reports) ==
  /\ site[i].state = "published"
  /\ \/ /\ reuploads < MaxReuploads /\ reuploads' = reuploads + 1
        /\ site[i].archive.build = "build" /\ site' = [site EXCEPT ![i].archive = FileOf("rebuild", reports)]
     \/ /\ site[i].archive # site[i].sums /\ site' = [site EXCEPT ![i].sums = site[i].archive]
        /\ UNCHANGED reuploads
  /\ UNCHANGED <<program, updater, overlapped, updateFaults>>

UpdateNext ==
  \/ \E u \in Updaters :
       \/ RunUpdate(u) \/ DownloadSums(u) \/ DownloadArchive(u) \/ Extract(u)
       \/ StageProgram(u) \/ RenameProgram(u) \/ UpdaterDies(u)
       \/ \E i \in Indices : Query(u, i)
  \/ \E i \in Indices : PublishRelease(i) \/ \E reports \in Indices : Draft(i, reports) \/ Reupload(i, reports)

UpdateSpec == UpdateInit /\ [][UpdateNext]_updateVars

-----------------------------------------------------------------------------
\* Properties

\* An update installs the file that has the checksum of a published release, and
\* its program prints a text that begins with the version of that release.  As
\* long as one process updates at a time the release is a later one than the
\* program is, in the order semver.org gives the versions; from a version that
\* does not parse it may be any.
UpdatesHold ==
  [][program' # program =>
       \E u \in Updaters :
         LET target == updater[u].target IN
         /\ Working(u) /\ program' = updater[u].sums /\ program'.build \in {"build", "rebuild"}
         /\ site[target].state = "published" /\ <<program'.reports, target>> \in TextBegins
         /\ ~overlapped => target > program.reports]_updateVars

\* Not so: a program that reports 1.10.0-rc.1 passes for 1.10.0.
InstallsItsVersion == [][program' # program => \E u \in Updaters : program'.reports = updater[u].target]_updateVars

\* Two at a time may go back: each compares with the program it was started as.
NeverDowngraded == [][program'.reports >= program.reports]_updateVars
=================================================================================
