----------------------------- MODULE Lifecycle -----------------------------
(***************************************************************************)
(* The life of containers: create, fastrun, resume and destroy, each an    *)
(* operating system process of its own, all of them working on the same    *)
(* files with no lock.  One action is one access to a file or one system   *)
(* call: this is where another command, a crash of the command (SIGKILL,   *)
(* SIGHUP, power) or the end of a shell comes in between.                  *)
(*                                                                         *)
(* The files are .lpmxsys/.info (the registry), and for each container its *)
(* root folder with rw and the layer links, <root>/.lpmx/.info (its        *)
(* record), <root>/container.pid and the folder sync/<id>.  A record is    *)
(* reduced to whether the set-up of the container completed: only then     *)
(* does it name the shell to start (UserShell).                            *)
(***************************************************************************)
EXTENDS PidFile

CONSTANTS
    Ids,          \* container ids (RandomString: a fresh one each time)
    Procs,        \* lpmx commands that may be in progress at once
    Torn,         \* a registry truncated by ioutil.WriteFile, not yet written
    Discipline,   \* which commands overlap, see MayRun
    Crashes,      \* may a command be killed
    Failures,     \* may a write fail
    Foreigners    \* pids that processes other than shells may take

KernelStates == {"free", "foreign", "zombie"}

ASSUME LifecycleAssumption ==
    /\ Ids \cap KernelStates = {}
    /\ \A S \in SUBSET Ids : Torn # S
    /\ Discipline \in {"none", "container", "command"}
    /\ Crashes \in BOOLEAN /\ Failures \in BOOLEAN
    /\ Foreigners \subseteq Pids

VARIABLES
    sys,        \* the registry: the set of registered ids, or Torn
    disk,       \* the root folder: "none", "hollow" (no rw in it) or "full"
    info,       \* <root>/.lpmx: "none", "dir" (no .info in it), or its .info:
                \* "torn", "raw" (set-up did not complete) or "ready"
    pidFile,    \* <root>/container.pid
    sync,       \* the ids that have a folder sync/<id>
    used,       \* the ids handed out so far
    kernel,     \* kernel[r]: the container whose shell has pid r, or a state
    recorded,   \* history: live shells for which PidCreateByPid returned nil
    pc,         \* pc[p]: the next step of command p
    cmd         \* cmd[p]: its memory, see Commands

files == <<sys, disk, info, pidFile, sync, used>>
os    == <<kernel, recorded>>
vars  == <<files, os, pc, cmd>>

Commands ==
    [cid   : Ids \cup {None},           \* the container it works on
     fast  : BOOLEAN,                   \* is it a fastrun
     snap  : SUBSET Ids,                \* its copy of sys.Containers
     con   : {"raw", "ready"},          \* its copy of the record
     then  : {"run", "shell", "end"},   \* where appendToSys returns to
     shell : Pids \cup {None}]          \* a child it has not waited for

NoCommand ==
    [cid |-> None, fast |-> FALSE, snap |-> {}, con |-> "raw",
     then |-> "run", shell |-> None]

Labels ==
    {"idle", "gen", "resume", "load", "setup", "appRead", "appTrunc",
     "appWrite", "shell", "record", "open", "write", "wait", "defer",
     "deferWrite", "end", "dRead", "dCheck", "dRoot", "dSync", "dTrunc",
     "dWrite"}

TypeOK ==
    /\ sys \in {Torn} \cup SUBSET Ids
    /\ disk \in [Ids -> {"none", "hollow", "full"}]
    /\ info \in [Ids -> {"none", "dir", "torn", "raw", "ready"}]
    /\ pidFile \in [Ids -> Contents]
    /\ sync \in SUBSET Ids
    /\ used \in SUBSET Ids
    /\ kernel \in [Pids -> Ids \cup KernelStates]
    /\ recorded \in SUBSET Pids
    /\ pc \in [Procs -> Labels]
    /\ cmd \in [Procs -> Commands]

Init ==
    /\ sys = {}
    /\ disk = [c \in Ids |-> "none"]
    /\ info = [c \in Ids |-> "none"]
    /\ pidFile = [c \in Ids |-> None]
    /\ sync = {}
    /\ used = {}
    /\ kernel = [r \in Pids |-> "free"]
    /\ recorded = {}
    /\ pc = [p \in Procs |-> "idle"]
    /\ cmd = [p \in Procs |-> NoCommand]

Goto(p, label) == pc' = [pc EXCEPT ![p] = label]

Begin(p, c, fast) ==
    cmd' = [cmd EXCEPT ![p] = [NoCommand EXCEPT !.cid = c, !.fast = fast]]

\* The command ends, or is killed.  A child it has not waited for is left to
\* init, which waits for it.
Leave(p) ==
    /\ Goto(p, "idle")
    /\ cmd' = [cmd EXCEPT ![p] = NoCommand]
    /\ kernel' = [r \in Pids |->
                     IF r = cmd[p].shell /\ kernel[r] = "zombie"
                     THEN "free" ELSE kernel[r]]
    /\ UNCHANGED recorded

Finish(p) == Leave(p) /\ UNCHANGED files

\* A command is at rest when it has ended or is blocked in cmd.Wait.
AtRest(p) == pc[p] \in {"idle", "wait"}

(***************************************************************************)
(* Which commands overlap.  The code excludes nothing: that is "none".     *)
(* "container": no two commands work on one container at the same time.    *)
(* "command": commands overlap only while one waits for its shell, the     *)
(* normal use of one person in several terminals.                          *)
(***************************************************************************)
MayRun(p, c) ==
    \A q \in Procs \ {p} :
        \/ AtRest(q)
        \/ Discipline = "none"
        \/ Discipline = "container" /\ cmd[q].cid # c

-----------------------------------------------------------------------------
(* Plausible bugs, none of them in the code: no action of Next uses them.  *)
(* Each stands in for one action to show that a property would notice.     *)

\* Run reads the record without asking whether there is one.
BugLoadMissing(p) ==
    /\ pc[p] = "load"
    /\ cmd' = [cmd EXCEPT ![p].con = info[cmd[p].cid], ![p].then = "shell"]
    /\ Goto(p, "appRead")
    /\ UNCHANGED <<files, os>>

\* appendToSys starts from an empty Sys and loses the other containers.
BugAppendAlone(p) ==
    /\ pc[p] = "appRead"
    /\ cmd' = [cmd EXCEPT ![p].snap = {cmd[p].cid}]
    /\ Goto(p, "appTrunc")
    /\ UNCHANGED <<files, os>>

\* appendToSys tries again until the registry can be read.
BugAppendWaits(p) ==
    /\ pc[p] = "appRead"
    /\ sys # Torn
    /\ cmd' = [cmd EXCEPT ![p].snap = sys \cup {cmd[p].cid}]
    /\ Goto(p, "appTrunc")
    /\ UNCHANGED <<files, os>>

\* PidCreateByPid creates the file and leaves it empty.
BugWriteNothing(p) ==
    /\ pc[p] = "write"
    /\ Goto(p, "wait")
    /\ recorded' = IF kernel[cmd[p].shell] = cmd[p].cid
                   THEN recorded \cup {cmd[p].shell} ELSE recorded
    /\ UNCHANGED <<files, kernel, cmd>>

\* Run's defer writes the record and registers nothing.
BugDeferForgets(p) ==
    LET c == cmd[p].cid IN
    /\ pc[p] = "deferWrite"
    /\ info' = [info EXCEPT ![c] =
                    IF @ \in {"none", "dir"} THEN @ ELSE cmd[p].con]
    /\ Goto(p, "end")
    /\ UNCHANGED <<sys, disk, pidFile, sync, used, os, cmd>>

\* fastrun returns Run's error before it destroys the container.
BugFastRunReturns(p) ==
    /\ pc[p] = "end"
    /\ \/ /\ cmd[p].fast /\ cmd[p].con = "ready"
          /\ Goto(p, "dRead")
          /\ UNCHANGED <<files, os, cmd>>
       \/ /\ ~cmd[p].fast \/ cmd[p].con = "raw"
          /\ Finish(p)

\* Destroy does not look at container.pid.
BugDestroyBlindly(p) ==
    /\ pc[p] = "dCheck"
    /\ Goto(p, "dRoot")
    /\ UNCHANGED <<files, os, cmd>>

\* Destroy takes the container off the registry before it removes it.
BugDestroyUnlists(p) ==
    /\ pc[p] = "dCheck"
    /\ IF PidIsActive(pidFile[cmd[p].cid], kernel)
       THEN Goto(p, "dTrunc") /\ UNCHANGED sys
       ELSE Goto(p, "dRoot") /\ sys' = sys \ {cmd[p].cid}
    /\ UNCHANGED <<disk, info, pidFile, sync, used, os, cmd>>

\* Destroy leaves the container in the registry.
BugDestroyKeepsListed(p) ==
    /\ pc[p] = "dSync"
    /\ sync' = sync \ {cmd[p].cid}
    /\ Goto(p, "dTrunc")
    /\ UNCHANGED <<sys, disk, info, pidFile, used, os, cmd>>

-----------------------------------------------------------------------------
(* generateContainer: a fresh id, its root folder, links to the layers, rw *)
(* and the sync folder.  An early return leaves what was made so far.      *)

Create(p, c, fast) ==
    /\ pc[p] = "idle"
    /\ c \notin used
    /\ MayRun(p, c)
    /\ used' = used \cup {c}
    /\ disk' = [disk EXCEPT ![c] = "hollow"]
    /\ Begin(p, c, fast)
    /\ Goto(p, "gen")
    /\ UNCHANGED <<sys, info, pidFile, sync, os>>

GenerateDone(p) ==
    /\ pc[p] = "gen"
    /\ disk' = [disk EXCEPT ![cmd[p].cid] = "full"]
    /\ sync' = sync \cup {cmd[p].cid}
    /\ Goto(p, "load")
    /\ UNCHANGED <<sys, info, pidFile, used, os, cmd>>

GenerateFails(p) ==
    LET c == cmd[p].cid IN
    /\ pc[p] = "gen"
    /\ \/ UNCHANGED <<disk, sync>>
       \/ /\ disk' = [disk EXCEPT ![c] = "full"]
          /\ sync' \in {sync, sync \cup {c}}
    /\ Leave(p)
    /\ UNCHANGED <<sys, info, pidFile, used>>

-----------------------------------------------------------------------------
(* Resume: the registry, then the record and the pid file.                 *)

Resume(p, c) ==
    /\ pc[p] = "idle"
    /\ MayRun(p, c)
    /\ sys # Torn
    /\ c \in sys
    /\ Begin(p, c, FALSE)
    /\ Goto(p, "resume")
    /\ UNCHANGED <<files, os>>

ResumeCheck(p) ==
    LET c == cmd[p].cid IN
    /\ pc[p] = "resume"
    /\ \/ /\ info[c] \in {"raw", "ready"}
          /\ ~PidIsActive(pidFile[c], kernel)
          /\ Goto(p, "load")
          /\ UNCHANGED <<files, os, cmd>>
       \/ /\ \/ info[c] \notin {"raw", "ready"}
             \/ PidIsActive(pidFile[c], kernel)
          /\ Finish(p)

-----------------------------------------------------------------------------
(* Run.  The record is loaded if there is one.  If its folder is there     *)
(* without it the folder is removed and made again; MakeDir makes the      *)
(* parents too, the root folder among them.                                *)

RunLoad(p) ==
    LET c == cmd[p].cid IN
    /\ pc[p] = "load"
    /\ \/ /\ info[c] \in {"raw", "ready"}
          /\ cmd' = [cmd EXCEPT ![p].con = info[c], ![p].then = "shell"]
          /\ Goto(p, "appRead")
          /\ UNCHANGED <<info, disk>>
       \/ /\ info[c] = "torn"
          /\ Goto(p, "defer")
          /\ UNCHANGED <<info, disk, cmd>>
       \/ /\ info[c] \in {"none", "dir"}
          /\ info' = [info EXCEPT ![c] = "dir"]
          /\ disk' = [disk EXCEPT ![c] = IF @ = "none" THEN "hollow" ELSE @]
          /\ Goto(p, "setup")
          /\ UNCHANGED cmd
    /\ UNCHANGED <<sys, pidFile, sync, used, os>>

\* createContainer and patchBineries, then setupContainer calls appendToSys.
SetupDone(p) ==
    /\ pc[p] = "setup"
    /\ cmd' = [cmd EXCEPT ![p].con = "ready", ![p].then = "run"]
    /\ Goto(p, "appRead")
    /\ UNCHANGED <<files, os>>

\* setting.yml is unreadable, its user_shell is in no layer, a binary cannot
\* be patched (then UserShell is already set).
SetupFails(p) ==
    /\ pc[p] = "setup"
    /\ \E k \in {"raw", "ready"} : cmd' = [cmd EXCEPT ![p].con = k]
    /\ Goto(p, "defer")
    /\ UNCHANGED <<files, os>>

(* appendToSys, called by setupContainer, by Run and by Run's defer.  An   *)
(* error ends the first two, the defer ignores it.                         *)
AppendRead(p) ==
    /\ pc[p] = "appRead"
    /\ \/ /\ sys = Torn
          /\ Goto(p, IF cmd[p].then = "end" THEN "end" ELSE "defer")
          /\ UNCHANGED cmd
       \/ /\ sys # Torn
          /\ cmd' = [cmd EXCEPT ![p].snap = sys \cup {cmd[p].cid}]
          /\ Goto(p, "appTrunc")
    /\ UNCHANGED <<files, os>>

AppendTruncate(p) ==
    /\ pc[p] = "appTrunc"
    /\ sys' = Torn
    /\ Goto(p, "appWrite")
    /\ UNCHANGED <<disk, info, pidFile, sync, used, os, cmd>>

AppendWrite(p) ==
    /\ pc[p] = "appWrite"
    /\ sys' = cmd[p].snap
    /\ Goto(p, CASE cmd[p].then = "run"   -> "appRead"
                 [] cmd[p].then = "shell" -> "shell"
                 [] cmd[p].then = "end"   -> "end")
    /\ cmd' = [cmd EXCEPT ![p].snap = {},
                          ![p].then = IF @ = "run" THEN "shell" ELSE @]
    /\ UNCHANGED <<disk, info, pidFile, sync, used, os>>

-----------------------------------------------------------------------------
(* bashShell and ShellEnvPid: the shell is started first, its pid recorded *)
(* afterwards.  When that fails the shell is neither killed nor waited for.*)

StartShell(p, r) ==
    LET c == cmd[p].cid IN
    /\ pc[p] = "shell"
    /\ disk[c] = "full"
    /\ cmd[p].con = "ready"
    /\ kernel[r] = "free"
    /\ kernel' = [kernel EXCEPT ![r] = c]
    /\ cmd' = [cmd EXCEPT ![p].shell = r]
    /\ Goto(p, "record")
    /\ UNCHANGED <<files, recorded>>

\* No rw folder, no shell in the record, faked-sysv or cmd.Start fails.
ShellFails(p) ==
    /\ pc[p] = "shell"
    /\ Goto(p, "defer")
    /\ UNCHANGED <<files, os, cmd>>

\* PidCreateByPid returns nil: from here on the shell counts as recorded.
Record(p) ==
    /\ Goto(p, "wait")
    /\ recorded' = IF kernel[cmd[p].shell] = cmd[p].cid
                   THEN recorded \cup {cmd[p].shell} ELSE recorded
    /\ UNCHANGED kernel

RecordCheck(p) ==
    LET file == pidFile[cmd[p].cid] IN
    /\ pc[p] = "record"
    /\ \/ /\ \/ file = None
             \/ ~PidValueFails(file) /\ ~PidIsActive(file, kernel)
          /\ Goto(p, "open")
          /\ UNCHANGED os
       \/ /\ \/ file = <<>>
             \/ PidIsActive(file, kernel) /\ file # cmd[p].shell
          /\ Goto(p, "defer")
          /\ UNCHANGED os
       \/ /\ PidIsActive(file, kernel) /\ file = cmd[p].shell
          /\ Record(p)
    /\ UNCHANGED <<files, cmd>>

\* O_RDWR|O_CREATE without O_TRUNC.
OpenPid(p) ==
    LET c == cmd[p].cid IN
    /\ pc[p] = "open"
    /\ IF disk[c] = "none"
       THEN Goto(p, "defer") /\ UNCHANGED pidFile
       ELSE /\ pidFile' = [pidFile EXCEPT ![c] = IF @ = None THEN <<>> ELSE @]
            /\ Goto(p, "write")
    /\ UNCHANGED <<sys, disk, info, sync, used, os, cmd>>

\* A file that was removed after it was opened stays removed.
WritePid(p) ==
    /\ pc[p] = "write"
    /\ pidFile' = [pidFile EXCEPT ![cmd[p].cid] =
                      IF @ = None THEN None ELSE Overlay(@, cmd[p].shell)]
    /\ Record(p)
    /\ UNCHANGED <<sys, disk, info, sync, used, cmd>>

WaitReturns(p) ==
    LET r == cmd[p].shell IN
    /\ pc[p] = "wait"
    /\ kernel[r] = "zombie"
    /\ MayRun(p, cmd[p].cid)
    /\ kernel' = [kernel EXCEPT ![r] = "free"]
    /\ cmd' = [cmd EXCEPT ![p].shell = None]
    /\ Goto(p, "defer")
    /\ UNCHANGED <<files, recorded>>

-----------------------------------------------------------------------------
(* Run's defer, on every return: the record is written, with what the      *)
(* command holds of it, then the container is registered.  Without its     *)
(* folder the record cannot be written, which is ignored.                  *)

DeferTruncate(p) ==
    LET c == cmd[p].cid IN
    /\ pc[p] = "defer"
    /\ info' = [info EXCEPT ![c] = IF @ = "none" THEN @ ELSE "torn"]
    /\ Goto(p, "deferWrite")
    /\ UNCHANGED <<sys, disk, pidFile, sync, used, os, cmd>>

DeferWrite(p) ==
    LET c == cmd[p].cid IN
    /\ pc[p] = "deferWrite"
    /\ info' = [info EXCEPT ![c] =
                    IF @ \in {"none", "dir"} THEN @ ELSE cmd[p].con]
    /\ cmd' = [cmd EXCEPT ![p].then = "end"]
    /\ Goto(p, "appRead")
    /\ UNCHANGED <<sys, disk, pidFile, sync, used, os>>

\* CommonFastRun destroys the container whatever Run returned.
RunEnds(p) ==
    /\ pc[p] = "end"
    /\ \/ /\ cmd[p].fast
          /\ Goto(p, "dRead")
          /\ UNCHANGED <<files, os, cmd>>
       \/ /\ ~cmd[p].fast
          /\ Finish(p)

-----------------------------------------------------------------------------
(* Destroy.  Its defer writes the registry back on every path.  (After an  *)
(* unreadable registry sys.RootDir is empty and the write misses the file.)*)

Destroy(p, c) ==
    /\ pc[p] = "idle"
    /\ c \in used
    /\ MayRun(p, c)
    /\ Begin(p, c, FALSE)
    /\ Goto(p, "dRead")
    /\ UNCHANGED <<files, os>>

DestroyRead(p) ==
    /\ pc[p] = "dRead"
    /\ \/ /\ sys = Torn
          /\ Finish(p)
       \/ /\ sys # Torn
          /\ cmd' = [cmd EXCEPT ![p].snap = sys]
          /\ Goto(p, IF cmd[p].cid \in sys THEN "dCheck" ELSE "dTrunc")
          /\ UNCHANGED <<files, os>>

DestroyCheck(p) ==
    /\ pc[p] = "dCheck"
    /\ IF PidIsActive(pidFile[cmd[p].cid], kernel)
       THEN Goto(p, "dTrunc")
       ELSE Goto(p, "dRoot")
    /\ UNCHANGED <<files, os, cmd>>

\* RemoveAll takes the entries of the root folder one by one, in any order.
DestroyRootPart(p) ==
    LET c == cmd[p].cid IN
    /\ pc[p] = "dRoot"
    /\ \/ /\ disk[c] = "full"
          /\ disk' = [disk EXCEPT ![c] = "hollow"]
          /\ UNCHANGED <<info, pidFile>>
       \/ /\ info[c] # "none"
          /\ info' = [info EXCEPT ![c] = "none"]
          /\ UNCHANGED <<disk, pidFile>>
       \/ /\ pidFile[c] # None
          /\ pidFile' = [pidFile EXCEPT ![c] = None]
          /\ UNCHANGED <<disk, info>>
    /\ UNCHANGED <<sys, sync, used, os, pc, cmd>>

DestroyRoot(p) ==
    LET c == cmd[p].cid IN
    /\ pc[p] = "dRoot"
    /\ disk' = [disk EXCEPT ![c] = "none"]
    /\ info' = [info EXCEPT ![c] = "none"]
    /\ pidFile' = [pidFile EXCEPT ![c] = None]
    /\ Goto(p, "dSync")
    /\ UNCHANGED <<sys, sync, used, os, cmd>>

\* RemoveAll has met a folder that is read-only, say, and removed what else it
\* could.  Destroy drops the error.
DestroyRootFails(p) ==
    /\ pc[p] = "dRoot"
    /\ disk[cmd[p].cid] # "none"
    /\ Goto(p, "dSync")
    /\ UNCHANGED <<files, os, cmd>>

\* This error is dropped as well: the container is unregistered either way.
DestroySync(p) ==
    /\ pc[p] = "dSync"
    /\ sync' \in {sync, sync \ {cmd[p].cid}}
    /\ cmd' = [cmd EXCEPT ![p].snap = @ \ {cmd[p].cid}]
    /\ Goto(p, "dTrunc")
    /\ UNCHANGED <<sys, disk, info, pidFile, used, os>>

DestroyTruncate(p) ==
    /\ pc[p] = "dTrunc"
    /\ sys' = Torn
    /\ Goto(p, "dWrite")
    /\ UNCHANGED <<disk, info, pidFile, sync, used, os, cmd>>

DestroyWrite(p) ==
    /\ pc[p] = "dWrite"
    /\ sys' = cmd[p].snap
    /\ Leave(p)
    /\ UNCHANGED <<disk, info, pidFile, sync, used>>

-----------------------------------------------------------------------------
(* The environment.                                                        *)

Crash(p) ==
    /\ Crashes
    /\ pc[p] # "idle"
    /\ Finish(p)

\* A file cannot be opened for writing, or not be written.  appendToSys says
\* so; the defers of Run and of Destroy drop the error.
WriteFails(p) ==
    /\ Failures
    /\ \/ /\ pc[p] \in {"appTrunc", "appWrite"}
          /\ Goto(p, IF cmd[p].then = "end" THEN "end" ELSE "defer")
          /\ UNCHANGED <<files, os, cmd>>
       \/ /\ pc[p] \in {"defer", "deferWrite"}
          /\ cmd' = [cmd EXCEPT ![p].then = "end"]
          /\ Goto(p, "appRead")
          /\ UNCHANGED <<files, os>>
       \/ pc[p] \in {"dTrunc", "dWrite"} /\ Finish(p)

ShellExits(r) ==
    /\ kernel[r] \in Ids
    /\ kernel' = [kernel EXCEPT ![r] =
                     IF \E p \in Procs : cmd[p].shell = r THEN "zombie" ELSE "free"]
    /\ recorded' = recorded \ {r}
    /\ UNCHANGED <<files, pc, cmd>>

ForeignStarts(r) ==
    /\ r \in Foreigners
    /\ kernel[r] = "free"
    /\ kernel' = [kernel EXCEPT ![r] = "foreign"]
    /\ UNCHANGED <<files, recorded, pc, cmd>>

ForeignEnds(r) ==
    /\ kernel[r] = "foreign"
    /\ kernel' = [kernel EXCEPT ![r] = "free"]
    /\ UNCHANGED <<files, recorded, pc, cmd>>

Work(p) ==
    \/ GenerateDone(p) \/ GenerateFails(p)
    \/ ResumeCheck(p)
    \/ RunLoad(p) \/ SetupDone(p) \/ SetupFails(p)
    \/ AppendRead(p) \/ AppendTruncate(p) \/ AppendWrite(p)
    \/ (\E r \in Pids : StartShell(p, r)) \/ ShellFails(p)
    \/ RecordCheck(p) \/ OpenPid(p) \/ WritePid(p)
    \/ WaitReturns(p)
    \/ DeferTruncate(p) \/ DeferWrite(p) \/ RunEnds(p)
    \/ DestroyRead(p) \/ DestroyCheck(p)
    \/ DestroyRootPart(p) \/ DestroyRoot(p) \/ DestroyRootFails(p)
    \/ DestroySync(p) \/ DestroyTruncate(p) \/ DestroyWrite(p)

Command(p, c) ==
    \/ \E fast \in BOOLEAN : Create(p, c, fast)
    \/ Resume(p, c)
    \/ Destroy(p, c)

Environment ==
    \/ \E p \in Procs : Crash(p) \/ WriteFails(p)
    \/ \E r \in Pids : ShellExits(r) \/ ForeignStarts(r) \/ ForeignEnds(r)

Next ==
    \/ \E p \in Procs : Work(p) \/ \E c \in Ids : Command(p, c)
    \/ Environment

Spec == Init /\ [][Next]_vars

(* The scheduler runs every command that can run, and RemoveAll returns    *)
(* even if another command keeps adding entries.  Nothing makes a shell    *)
(* exit or a user type a command.                                          *)
FairSpec ==
    /\ Spec
    /\ \A p \in Procs : /\ WF_vars(Work(p))
                        /\ WF_vars(DestroyRoot(p) \/ DestroyRootFails(p))

-----------------------------------------------------------------------------
(* A shell that lpmx recorded stays known: container.pid holds its number  *)
(* and the folder it runs in is there, whatever commands are killed,       *)
(* whichever steps fail and whatever numbers other processes take.  It is  *)
(* what resume, destroy, list and update rest on when they ask PidIsActive.*)
RecordedFound ==
    \A r \in recorded :
        /\ kernel[r] \in Ids
        /\ pidFile[kernel[r]] = r
        /\ disk[kernel[r]] = "full"

(* Why it is preserved when the pids have equal widths and no two commands *)
(* work on one container: from the look at container.pid until the new pid *)
(* is in it (or the root is removed) no recorded shell is in the container.*)
Unoccupied(c) == \A r \in recorded : kernel[r] # c

NeedsUnoccupied(p) ==
    \/ pc[p] \in {"gen", "load", "setup", "shell", "record", "open", "write",
                  "dRoot"}
    \/ pc[p] \in {"appRead", "appTrunc", "appWrite"} /\ cmd[p].then # "end"

CommandOK(p) ==
    LET c == cmd[p].cid
        r == cmd[p].shell
    IN  /\ pc[p] = "idle" => cmd[p] = NoCommand
        /\ pc[p] # "idle" => c \in used
        /\ NeedsUnoccupied(p) => Unoccupied(c)
        /\ r # None => kernel[r] \in {c, "zombie"}
        /\ pc[p] \in {"record", "open", "write", "wait"} => r # None
        /\ pc[p] \in {"record", "open", "write"} => disk[c] = "full"
        /\ pc[p] = "write" => pidFile[c] # None

Apart(p, q) ==
    /\ ~AtRest(p) /\ ~AtRest(q) => cmd[p].cid # cmd[q].cid
    /\ cmd[p].shell # None => cmd[p].shell # cmd[q].shell

IndInv ==
    /\ TypeOK
    /\ RecordedFound
    /\ \A r \in recorded : kernel[r] \in used
    /\ \A c \in Ids : pidFile[c] \in Pids \cup {None, <<>>}
    /\ \A p \in Procs : CommandOK(p)
    /\ \A p, q \in Procs : p # q => Apart(p, q)

(* The commands keep the promise of ContainerPromise: no second recorded   *)
(* shell in a container, no root folder removed from under one.            *)
Shell(mine) == IF mine = {} THEN None ELSE CHOOSE r \in mine : TRUE

Running(c) == Shell({r \in recorded : kernel[r] = c})

Promise == INSTANCE ContainerPromise WITH
    roots   <- {c \in Ids : disk[c] # "none"},
    running <- [c \in Ids |-> Running(c)]

PromiseKept == Promise!Spec

(* A container with a recorded shell is in the registry, unless a command  *)
(* was killed while it wrote it: update and delete look for running        *)
(* containers nowhere else.                                                *)
RunningRegistered ==
    \A r \in recorded : sys = Torn \/ kernel[r] \in sys

(* What a killed destroy leaves half removed is still registered, so that  *)
(* the destroy can be repeated.  Destroys that have come upon what they    *)
(* could not remove, stuck, have unregistered it all the same.             *)
HalfDestroyedListed(stuck) ==
    \A c \in sync \ stuck :
        disk[c] # "full" => sys = Torn \/ c \in sys

(* Between commands, if none was killed: every registered container has    *)
(* its folders and, but for one in its first run, its record (update and   *)
(* delete give up at the first container without one) ...                  *)
RegisteredWhole ==
    (\A p \in Procs : AtRest(p)) =>
        /\ sys # Torn
        /\ \A c \in sys :
              /\ disk[c] = "full"
              /\ c \in sync
              /\ \/ info[c] \in {"raw", "ready"}
                 \/ \E p \in Procs : pc[p] = "wait" /\ cmd[p].cid = c

(* ... and every container that has a record is registered: list shows it, *)
(* resume and destroy accept its id.                                       *)
ContainersListed(stuck) ==
    (\A p \in Procs : AtRest(p)) =>
        \A c \in Ids \ stuck : info[c] \in {"raw", "ready"} => c \in sys

(* "remove container": once Run has been called, fastrun does not end      *)
(* before the container is off the registry and its folders are gone, but  *)
(* for those that are stuck.                                               *)
FastRunEndsClean(stuck) ==
    \A p \in Procs :
        /\ cmd[p].fast
        /\ pc[p] \notin {"gen", "idle"}
        /\ pc'[p] = "idle"
        => LET c == cmd[p].cid
           IN  /\ c \notin sys'
               /\ c \in stuck \/ (disk'[c] = "none" /\ c \notin sync')

(* Every command whose shell has ended comes to its end, fastrun's destroy *)
(* included, and every other one gets as far as its shell.                 *)
CommandsEnd ==
    \A p \in Procs :
        /\ pc[p] \notin {"idle", "wait"} ~> pc[p] \in {"idle", "wait"}
        /\ (pc[p] = "wait" /\ kernel[cmd[p].shell] = "zombie")
               ~> pc[p] = "idle"

(* "conatiner with id: ... is running with pid: ..., can't resume": the    *)
(* code means to run one shell at a time in a container.                   *)
OneShell ==
    \A q, r \in Pids : kernel[q] \in Ids /\ kernel[q] = kernel[r] => q = r
=============================================================================
