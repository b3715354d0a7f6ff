---------------------------- MODULE Maintenance ----------------------------
(***************************************************************************)
(* .lpmxsys: the registry (.info), the tarball of the libraries that are   *)
(* preloaded into containers (dependency.tar.gz) and these libraries; and  *)
(* the commands that set it up, renew and remove it: init, reset, update,  *)
(* uninstall.  One of them is in progress at a time; each may be killed.   *)
(*                                                                         *)
(* Containers are created and destroyed as in Lifecycle, in one step each, *)
(* while no such command is in progress; shells start and end at any time. *)
(***************************************************************************)
EXTENDS Naturals, FiniteSets

CONSTANTS
    Ids,      \* container ids
    Libs,     \* the libraries in the tarball, main.go's checklist
    Swapped,  \* libfakechroot.so, the one that update replaces
    Missing,  \* no .info
    Torn,     \* an .info truncated by WriteFile, not yet written
    NilMap    \* an .info whose Containers is nil

ASSUME MaintenanceAssumption ==
    /\ IsFiniteSet(Ids)
    /\ Swapped \in Libs
    /\ \A S \in SUBSET Ids : S \notin {Missing, Torn, NilMap}
    /\ Missing # Torn /\ Torn # NilMap /\ Missing # NilMap

VARIABLES
    sys,      \* the registry: Missing, Torn, NilMap or the registered ids
    dep,      \* the tarball: "none", "part" (or a server's error page), "whole"
    lib,      \* the libraries, by the same three words
    left,     \* has a killed update left its temporary folder
    con,      \* containers: "none", "half" (set-up not done), "whole",
              \* "stray" (whole, and the registry removed by request)
    running,  \* the containers in which a shell runs
    pc,       \* the next step of the command
    job       \* its memory

files == <<sys, dep, lib, left>>
users == <<con, running>>
vars  == <<files, users, pc, job>>

Registries == {Missing, Torn, NilMap} \cup SUBSET Ids

Jobs ==
    [kind  : {"init", "reset", "update", "uninstall"},
     force : BOOLEAN,        \* init with -r or -g
     given : BOOLEAN,        \* init with -d and a tarball that exists
     snap  : Registries,     \* Sys in memory
     ok    : BOOLEAN,        \* is there no error yet
     todo  : SUBSET Libs]    \* libraries still to be extracted

NoJob == [kind |-> "init", force |-> FALSE, given |-> FALSE, snap |-> NilMap,
          ok |-> TRUE, todo |-> {}]

TypeOK ==
    /\ sys \in Registries
    /\ dep \in {"none", "part", "whole"}
    /\ lib \in [Libs -> {"none", "part", "whole"}]
    /\ left \in BOOLEAN
    /\ con \in [Ids -> {"none", "half", "whole", "stray"}]
    /\ running \subseteq Ids
    /\ pc \in {"idle", "wipe", "look", "remove", "fetch", "download", "untar",
               "temp", "rename", "truncate", "write", "ready", "data"}
    /\ job \in Jobs

Init ==
    /\ sys = Missing /\ dep = "none" /\ lib = [l \in Libs |-> "none"]
    /\ left = FALSE
    /\ con = [c \in Ids |-> "none"] /\ running = {}
    /\ pc = "idle" /\ job = NoJob

Goto(label) == pc' = label

Return == pc' = "idle" /\ job' = NoJob

\* The defer of init writes the registry whatever has failed.
Fail ==
    IF job.kind = "init"
    THEN pc' = "truncate" /\ job' = [job EXCEPT !.ok = FALSE, !.todo = {}]
    ELSE Return

Usable == sys \notin {Missing, Torn, NilMap}

-----------------------------------------------------------------------------
(* Plausible bugs, no part of Next: each takes the place of the action it  *)
(* names, to see that a property notices.                                  *)

\* UntarFails, its error ignored.
BugUntarErrorDropped ==
    /\ pc = "untar"
    /\ Goto("truncate")
    /\ job' = [job EXCEPT !.todo = {}]
    /\ UNCHANGED <<files, users>>

\* InitFinds, making a map where none could be read.
BugInitStartsAfresh ==
    /\ pc = "look" /\ sys # Missing
    /\ Goto("truncate")
    /\ job' = [job EXCEPT !.snap = IF sys \in {Torn, NilMap} THEN {} ELSE sys]
    /\ UNCHANGED <<files, users>>

\* UpdateTemp, extracting to where the libraries are.
BugUpdateInPlace ==
    /\ pc = "temp" /\ dep = "whole"
    /\ Goto("untar")
    /\ job' = [job EXCEPT !.todo = Libs]
    /\ UNCHANGED <<files, users>>

\* Download, with no word for what it saves when it fails.
BugDownloadPage ==
    /\ pc = "download"
    /\ \E d \in {"page", "whole"} : dep' = d
    /\ Goto(IF job.kind = "update" THEN "temp" ELSE "untar")
    /\ job' = [job EXCEPT !.todo = IF job.kind = "update" THEN {} ELSE Libs]
    /\ UNCHANGED <<sys, lib, left, users>>

-----------------------------------------------------------------------------
(* Init *)

StartInit(force, given) ==
    /\ pc = "idle"
    /\ Goto(IF force THEN "wipe" ELSE "look")
    /\ job' = [NoJob EXCEPT !.force = force, !.given = given]
    /\ UNCHANGED <<files, users>>

Strays == [c \in Ids |-> IF con[c] = "whole" THEN "stray" ELSE con[c]]

\* RemoveAll is at work on .lpmxsys.
WipePart ==
    /\ pc = "wipe"
    /\ \/ sys' = Missing /\ con' = Strays /\ UNCHANGED <<dep, lib>>
       \/ dep' = "none" /\ UNCHANGED <<sys, lib, con>>
       \/ \E l \in Libs : lib' = [lib EXCEPT ![l] = "none"]
          /\ UNCHANGED <<sys, dep, con>>
    /\ UNCHANGED <<left, running, pc, job>>

Wipe ==
    /\ pc = "wipe"
    /\ sys' = Missing /\ dep' = "none" /\ lib' = [l \in Libs |-> "none"]
    /\ left' = FALSE /\ con' = Strays
    /\ Goto(IF job.kind = "init" THEN "look" ELSE "data")
    /\ UNCHANGED <<running, job>>

\* With an .info, init reads it and writes it back, and nothing else; what
\* cannot be read is written back with a nil map.
InitFinds ==
    /\ pc = "look" /\ sys # Missing
    /\ Goto("truncate")
    /\ job' = [job EXCEPT !.snap = IF sys = Torn THEN NilMap ELSE sys,
                          !.ok = sys # Torn]
    /\ UNCHANGED <<files, users>>

InitLook ==
    /\ pc = "look" /\ sys = Missing
    /\ Goto("fetch")
    /\ job' = [job EXCEPT !.snap = {}]
    /\ UNCHANGED <<files, users>>

\* A folder cannot be made.
InitMakesNoFolder ==
    /\ pc = "look" /\ sys = Missing
    /\ Fail
    /\ UNCHANGED <<files, users>>

\* Any tarball that is there will do; one given with -d may hold anything.
InitTakesTarball ==
    /\ pc = "fetch" /\ job.kind = "init"
    /\ job.given \/ dep # "none"
    /\ Goto("untar")
    /\ \E found \in IF job.given THEN SUBSET Libs ELSE {Libs} :
          job' = [job EXCEPT !.todo = found]
    /\ UNCHANGED <<files, users>>

Truncate ==
    /\ pc = "truncate"
    /\ sys' = Torn
    /\ Goto("write")
    /\ UNCHANGED <<dep, lib, left, users, job>>

\* The end of init, whose error is that of the steps before its defer.
Done == IF job.ok THEN Goto("ready") /\ UNCHANGED job ELSE Return

Write ==
    /\ pc = "write"
    /\ sys' = job.snap
    /\ Done
    /\ UNCHANGED <<dep, lib, left, users>>

\* The defer drops the error of WriteToFile, whether it could not open .info
\* or not write it.
WriteFails ==
    /\ pc \in {"truncate", "write"}
    /\ Done
    /\ UNCHANGED <<files, users>>

Exit ==
    /\ pc = "ready"
    /\ Return
    /\ UNCHANGED <<files, users>>

-----------------------------------------------------------------------------
(* Reset and update *)

Reset ==
    /\ pc = "idle" /\ sys \notin {Missing, Torn}
    /\ Goto("remove")
    /\ job' = [NoJob EXCEPT !.kind = "reset"]
    /\ UNCHANGED <<files, users>>

\* A container that runs is an error, and so is one whose record cannot be
\* read, as that of a container that is half made may or may not be.
UpdateLook ==
    /\ pc = "idle" /\ sys \notin {Missing, Torn}
    /\ sys # NilMap => \A c \in sys : con[c] # "none" /\ c \notin running
    /\ Goto("remove")
    /\ job' = [NoJob EXCEPT !.kind = "update"]
    /\ UNCHANGED <<files, users>>

Remove ==
    /\ pc = "remove"
    /\ dep' = "none"
    /\ Goto("fetch")
    /\ UNCHANGED <<sys, lib, left, users, job>>

FetchOpen ==
    /\ pc = "fetch"
    /\ job.kind = "init" => ~job.given /\ dep = "none"
    /\ dep' = "part"
    /\ Goto("download")
    /\ UNCHANGED <<sys, lib, left, users, job>>

\* An error page other than 404 is saved as the tarball, without an error.
Download ==
    /\ pc = "download"
    /\ \E d \in {"part", "whole"} : dep' = d
    /\ Goto(IF job.kind = "update" THEN "temp" ELSE "untar")
    /\ job' = [job EXCEPT !.todo = IF job.kind = "update" THEN {} ELSE Libs]
    /\ UNCHANGED <<sys, lib, left, users>>

FetchFails ==
    /\ pc \in {"fetch", "download"}
    /\ Fail
    /\ UNCHANGED <<files, users>>

\* Untar writes into the files that are there.
UntarPart(l) ==
    /\ pc = "untar" /\ l \in job.todo /\ lib[l] # "part"
    /\ lib' = [lib EXCEPT ![l] = "part"]
    /\ UNCHANGED <<sys, dep, left, users, pc, job>>

UntarFile(l) ==
    /\ pc = "untar" /\ l \in job.todo /\ lib[l] = "part"
    /\ lib' = [lib EXCEPT ![l] = "whole"]
    /\ job' = [job EXCEPT !.todo = @ \ {l}]
    /\ UNCHANGED <<sys, dep, left, users, pc>>

\* The tarball ends early, or a library cannot be written.
UntarFails ==
    /\ pc = "untar"
    /\ Fail
    /\ UNCHANGED <<files, users>>

UntarDone ==
    /\ pc = "untar" /\ job.todo = {}
    /\ job.given \/ dep = "whole"
    /\ IF job.kind = "init" THEN Goto("truncate") /\ UNCHANGED job ELSE Return
    /\ UNCHANGED <<files, users>>

UpdateTemp ==
    /\ pc = "temp" /\ dep = "whole"
    /\ Goto("rename")
    /\ UNCHANGED <<files, users, job>>

UpdateFails ==
    /\ pc \in {"temp", "rename"}
    /\ Return
    /\ UNCHANGED <<files, users>>

UpdateRename ==
    /\ pc = "rename"
    /\ lib' = [lib EXCEPT ![Swapped] = "whole"]
    /\ Return
    /\ UNCHANGED <<sys, dep, left, users>>

-----------------------------------------------------------------------------
(* Uninstall *)

Uninstall ==
    /\ pc = "idle"
    /\ Goto("wipe")
    /\ job' = [NoJob EXCEPT !.kind = "uninstall"]
    /\ UNCHANGED <<files, users>>

\* sync, bin, .lpmxdata with the containers, and package.
UninstallData ==
    /\ pc = "data"
    /\ con' = [c \in Ids |-> "none"]
    /\ Return
    /\ UNCHANGED <<files, running>>

-----------------------------------------------------------------------------
(* Kills, containers and shells *)

Kill ==
    /\ pc # "idle"
    /\ left' = (left \/ pc \in {"temp", "rename"})
    /\ Return
    /\ UNCHANGED <<sys, dep, lib, users>>

\* checkCompleteness: files with these names, in whichever folder.
Complete == sys # Missing /\ (left \/ \A l \in Libs : lib[l] # "none")

Create(c) ==
    /\ pc = "idle" /\ Complete /\ Usable
    /\ con[c] = "none" /\ c \notin running
    /\ con' = [con EXCEPT ![c] = "whole"]
    /\ sys' = sys \cup {c}
    /\ UNCHANGED <<dep, lib, left, running, pc, job>>

\* A create that is killed, or panics on a nil map.
CreateDies(c) ==
    /\ pc = "idle" /\ Complete
    /\ con[c] = "none" /\ c \notin running
    /\ con' = [con EXCEPT ![c] = "half"]
    /\ \/ UNCHANGED sys
       \/ Usable /\ sys' \in {Torn, sys \cup {c}}
    /\ UNCHANGED <<dep, lib, left, running, pc, job>>

ShellStarts(c) ==
    /\ Complete /\ Usable
    /\ c \in sys /\ con[c] = "whole" /\ c \notin running
    /\ running' = running \cup {c}
    /\ UNCHANGED <<files, con, pc, job>>

ShellEnds(c) ==
    /\ c \in running
    /\ running' = running \ {c}
    /\ UNCHANGED <<files, con, pc, job>>

Destroy(c) ==
    /\ pc = "idle" /\ Complete /\ Usable
    /\ c \in sys /\ c \notin running
    /\ sys' = sys \ {c}
    /\ con' = [con EXCEPT ![c] = "none"]
    /\ UNCHANGED <<dep, lib, left, running, pc, job>>

Next ==
    \/ \E force, given \in BOOLEAN : StartInit(force, given)
    \/ WipePart \/ Wipe \/ InitFinds \/ InitLook \/ InitMakesNoFolder
    \/ InitTakesTarball \/ Truncate \/ Write \/ WriteFails \/ Exit
    \/ Reset \/ UpdateLook \/ Remove \/ FetchOpen \/ Download \/ FetchFails
    \/ \E l \in Libs : UntarPart(l) \/ UntarFile(l)
    \/ UntarFails \/ UntarDone \/ UpdateTemp \/ UpdateFails \/ UpdateRename
    \/ Uninstall \/ UninstallData \/ Kill
    \/ \E c \in Ids : \/ Create(c) \/ CreateDies(c) \/ ShellStarts(c)
                      \/ ShellEnds(c) \/ Destroy(c)

Spec == Init /\ [][Next]_vars

-----------------------------------------------------------------------------
(* Properties *)

\* Whatever killed and failed commands have left behind, an init with -r that
\* returns no error leaves all libraries, unless it was told which tarball to
\* take, and a registry that is empty, or cannot be read if the write failed
\* that init does not look at: never one that names containers removed, and
\* never the nil map on which the next create panics.
ForcedInitReady ==
    pc = "ready" /\ job.force =>
        /\ sys \in {{}, Missing, Torn}
        /\ job.given \/ \A l \in Libs : lib[l] = "whole"

\* Update never damages a library that was whole, however it fails or is
\* killed: it extracts to a folder of its own and renames.
UpdateKeepsLibraries ==
    [][job.kind = "update" =>
          \A l \in Libs : lib[l] = "whole" => lib'[l] = "whole"]_vars

\* A registry that can be read names every container that is whole, whatever
\* was killed: nothing but a removal on request (init -r, uninstall) forgets a
\* container and then goes on as if nothing had happened.
RegistryForgetsNothing ==
    Usable => \A c \in Ids : con[c] = "whole" => c \in sys
=============================================================================
