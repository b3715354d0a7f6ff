------------------------- MODULE MaintenanceProofs -------------------------
(***************************************************************************)
(* Theorems about Maintenance, for every set of containers and libraries.  *)
(***************************************************************************)
EXTENDS Maintenance, TLAPS

USE DEF Goto, Return, files, users

-----------------------------------------------------------------------------
(* The variables keep their types.                                         *)

LEMMA NoJobType == NoJob \in Jobs
BY DEF NoJob, Jobs, Registries

LEMMA FailType ==
    ASSUME TypeOK, Fail
    PROVE  /\ pc' \in {"idle", "truncate"}
           /\ job' \in Jobs
BY NoJobType DEF TypeOK, Fail, Jobs

LEMMA InitType == Init => TypeOK
BY NoJobType DEF Init, TypeOK, Registries

LEMMA TypeStep == TypeOK /\ [Next]_vars => TypeOK'
<1>. SUFFICES ASSUME TypeOK, [Next]_vars
              PROVE  TypeOK'
  OBVIOUS
<1>1. ASSUME NEW force \in BOOLEAN, NEW given \in BOOLEAN,
             StartInit(force, given)
      PROVE  TypeOK'
  BY <1>1, NoJobType DEF StartInit, TypeOK, Jobs
<1>2. CASE WipePart \/ Wipe
  BY <1>2 DEF WipePart, Wipe, Strays, TypeOK, Registries
<1>3. CASE InitFinds \/ InitLook
  BY <1>3 DEF InitFinds, InitLook, TypeOK, Jobs, Registries
<1>4. CASE InitMakesNoFolder \/ FetchFails \/ UntarFails
  BY <1>4, FailType DEF InitMakesNoFolder, FetchFails, UntarFails, TypeOK
<1>5. CASE InitTakesTarball
  BY <1>5 DEF InitTakesTarball, TypeOK, Jobs
<1>6. CASE Truncate \/ Write \/ WriteFails \/ Exit
  BY <1>6, NoJobType DEF Truncate, Write, WriteFails, Done, Exit, TypeOK,
     Jobs, Registries
<1>7. CASE Reset \/ UpdateLook
  BY <1>7, NoJobType DEF Reset, UpdateLook, TypeOK, Jobs
<1>8. CASE Remove \/ FetchOpen \/ Download
  BY <1>8 DEF Remove, FetchOpen, Download, TypeOK, Jobs
<1>9. ASSUME NEW l \in Libs, UntarPart(l) \/ UntarFile(l)
      PROVE  TypeOK'
  BY <1>9 DEF UntarPart, UntarFile, TypeOK, Jobs
<1>10. CASE UntarDone \/ UpdateTemp \/ UpdateFails \/ UpdateRename
  BY <1>10, NoJobType DEF UntarDone, UpdateTemp, UpdateFails, UpdateRename,
                          TypeOK
<1>11. CASE Uninstall \/ UninstallData \/ Kill
  BY <1>11, NoJobType DEF Uninstall, UninstallData, Kill, TypeOK, Jobs
<1>12. ASSUME NEW c \in Ids,
              \/ Create(c) \/ CreateDies(c) \/ ShellStarts(c)
              \/ ShellEnds(c) \/ Destroy(c)
       PROVE  TypeOK'
  BY <1>12 DEF Create, CreateDies, ShellStarts, ShellEnds, Destroy, Usable,
     TypeOK, Registries
<1>13. CASE UNCHANGED vars
  BY <1>13 DEF vars, TypeOK
<1>. QED
  BY <1>1, <1>2, <1>3, <1>4, <1>5, <1>6, <1>7, <1>8, <1>9, <1>10, <1>11,
     <1>12, <1>13 DEF Next

(* Every variable keeps its type (the structs Sys and the files that init, *)
(* reset, update and uninstall work on).                                   *)
THEOREM TypeCorrect == Spec => []TypeOK
BY InitType, TypeStep, PTL DEF Spec

-----------------------------------------------------------------------------
(* The inductive invariant.                                                *)

\* Which command takes which steps.
Phase ==
    /\ job.force => job.kind = "init"
    /\ pc \in {"look", "truncate", "write", "ready"} => job.kind = "init"
    /\ pc = "remove" => job.kind # "init"
    /\ job.kind = "update" =>
          pc \in {"remove", "fetch", "download", "temp", "rename"}

\* An init that goes on to the tarball has found no registry; the libraries
\* that are no longer to be extracted are whole, unless the tarball was given;
\* an init -r that writes the registry without an error writes an empty one,
\* over one that is missing or torn, and has all libraries.
Progress ==
    /\ pc = "look" /\ job.force => sys = Missing
    /\ pc \in {"wipe", "look"} => job.snap = NilMap
    /\ pc \in {"fetch", "download", "untar"} /\ job.kind = "init" =>
          job.snap = {} /\ sys = Missing
    /\ pc = "untar" /\ ~job.given =>
          \A l \in Libs \ job.todo : lib[l] = "whole"
    /\ pc \in {"truncate", "write"} /\ job.force /\ job.ok =>
          /\ job.snap = {} /\ sys \in {Missing, Torn}
          /\ job.given \/ \A l \in Libs : lib[l] = "whole"

Names(registry) ==
    registry \notin {Missing, Torn, NilMap} =>
        \A c \in Ids : con[c] = "whole" => c \in registry

\* The registry, in the file and as init will write it, names the containers
\* that are whole, and a registry is missing only if there are none.
Named ==
    /\ Names(sys)
    /\ sys = Missing => \A c \in Ids : con[c] # "whole"
    /\ pc \in {"truncate", "write"} => job.snap # Missing /\ Names(job.snap)

IndInv == TypeOK /\ Phase /\ Progress /\ ForcedInitReady /\ Named

LEMMA InitInd == Init => IndInv
BY InitType DEF Init, IndInv, Phase, Progress, ForcedInitReady, Named, Names,
   NoJob

\* A command that ends, and one that has yet to look at the registry, claims
\* nothing.
LEMMA NoJobIs ==
    /\ NoJob.kind = "init" /\ NoJob.force = FALSE
    /\ NoJob.snap = NilMap /\ NoJob.ok = TRUE /\ NoJob.todo = {}
BY DEF NoJob

\* An init that fails writes what it has, and claims no more than that it
\* forgets no container.
LEMMA FailInd ==
    ASSUME TypeOK, Phase, Progress, Named, Fail, UNCHANGED <<files, users>>,
           pc \notin {"truncate", "write"},
           job.kind = "init" => job.snap # Missing /\ sys = Missing
    PROVE  Phase' /\ Progress' /\ ForcedInitReady' /\ Named'
<1>1. CASE job.kind = "init"
  <2>1. /\ pc' = "truncate" /\ job' = [job EXCEPT !.ok = FALSE, !.todo = {}]
    BY <1>1 DEF Fail
  <2>2. /\ job'.kind = "init" /\ job'.ok = FALSE /\ job'.snap = job.snap
    BY <1>1, <2>1 DEF TypeOK, Jobs
  <2>3. Phase' /\ Progress' /\ ForcedInitReady'
    BY <2>1, <2>2 DEF Phase, Progress, ForcedInitReady
  <2>4. Named'
    BY <1>1, <2>1, <2>2 DEF Named, Names
  <2>. QED  BY <2>3, <2>4
<1>2. CASE job.kind # "init"
  <2>1. pc' = "idle" /\ job' = NoJob
    BY <1>2 DEF Fail
  <2>. QED
    BY <2>1, NoJobIs DEF Phase, Progress, ForcedInitReady, Named, Names
<1>. QED  BY <1>1, <1>2

\* The steps of init, but those in which it fails.
LEMMA InitCommandStep ==
    ASSUME IndInv,
           \/ \E force, given \in BOOLEAN : StartInit(force, given)
           \/ WipePart \/ Wipe \/ InitFinds \/ InitLook \/ InitTakesTarball
           \/ Truncate \/ Write \/ WriteFails \/ Exit
    PROVE  Phase' /\ Progress' /\ ForcedInitReady' /\ Named'
<1>. USE DEF IndInv, TypeOK, Jobs, Phase, Progress, ForcedInitReady, Named,
             Names, Usable
<1>1. ASSUME NEW force \in BOOLEAN, NEW given \in BOOLEAN,
             StartInit(force, given)
      PROVE  Phase' /\ Progress' /\ ForcedInitReady' /\ Named'
  <2>1. /\ job'.kind = "init" /\ job'.force = force /\ job'.snap = NilMap
        /\ pc' = IF force THEN "wipe" ELSE "look"
    BY <1>1, NoJobIs, NoJobType DEF StartInit
  <2>. QED  BY <1>1, <2>1 DEF StartInit
<1>2. CASE WipePart
  BY <1>2, MaintenanceAssumption DEF WipePart, Strays
<1>3. CASE Wipe
  BY <1>3, MaintenanceAssumption DEF Wipe, Strays
<1>4. CASE InitFinds
  <2>1. ~job.force /\ job.kind = "init"
    BY <1>4 DEF InitFinds
  <2>2. /\ pc' = "truncate" /\ job'.kind = job.kind /\ job'.force = job.force
        /\ job'.snap = IF sys = Torn THEN NilMap ELSE sys
    BY <1>4 DEF InitFinds
  <2>. QED  BY <1>4, <2>1, <2>2, MaintenanceAssumption DEF InitFinds
<1>5. CASE InitLook
  <2>1. /\ pc' = "fetch" /\ job'.kind = "init" /\ job'.snap = {}
        /\ sys' = Missing
    BY <1>5 DEF InitLook
  <2>. QED  BY <1>5, <2>1 DEF InitLook
<1>6. CASE InitTakesTarball
  <2>1. /\ pc' = "untar" /\ job'.kind = "init" /\ job'.snap = job.snap
        /\ job'.given = job.given
        /\ ~job.given => job'.todo = Libs
    BY <1>6 DEF InitTakesTarball
  <2>. QED  BY <1>6, <2>1 DEF InitTakesTarball
<1>7. CASE Truncate
  BY <1>7, MaintenanceAssumption DEF Truncate
<1>8. CASE Write
  <2>1. CASE job.ok
    BY <1>8, <2>1, MaintenanceAssumption DEF Write, Done
  <2>2. CASE ~job.ok
    BY <1>8, <2>2, NoJobIs, MaintenanceAssumption DEF Write, Done
  <2>. QED  BY <2>1, <2>2
<1>9. CASE WriteFails
  <2>1. CASE job.ok
    BY <1>9, <2>1 DEF WriteFails, Done
  <2>2. CASE ~job.ok
    BY <1>9, <2>2, NoJobIs DEF WriteFails, Done
  <2>. QED  BY <2>1, <2>2
<1>10. CASE Exit
  BY <1>10, NoJobIs DEF Exit
<1>. QED  BY <1>1, <1>2, <1>3, <1>4, <1>5, <1>6, <1>7, <1>8, <1>9, <1>10

\* Reset, update, the tarball and uninstall.
LEMMA OtherCommandStep ==
    ASSUME IndInv,
           \/ Reset \/ UpdateLook \/ Remove \/ FetchOpen \/ Download
           \/ \E l \in Libs : UntarPart(l) \/ UntarFile(l)
           \/ UntarDone \/ UpdateTemp \/ UpdateFails \/ UpdateRename
           \/ Uninstall \/ UninstallData
    PROVE  Phase' /\ Progress' /\ ForcedInitReady' /\ Named'
<1>. USE DEF IndInv, TypeOK, Jobs, Phase, Progress, ForcedInitReady, Named,
             Names, Usable
<1>1. CASE Reset \/ UpdateLook
  <2>1. /\ job'.kind \in {"reset", "update"} /\ job'.force = FALSE
        /\ pc' = "remove"
    BY <1>1, NoJobIs, NoJobType DEF Reset, UpdateLook
  <2>. QED  BY <1>1, <2>1 DEF Reset, UpdateLook
<1>2. CASE Remove \/ FetchOpen
  BY <1>2 DEF Remove, FetchOpen
<1>3. CASE Download
  <2>1. /\ job'.kind = job.kind /\ job'.snap = job.snap
        /\ job'.force = job.force /\ job'.given = job.given
        /\ job.kind = "update" => pc' = "temp"
        /\ job.kind # "update" => pc' = "untar" /\ job'.todo = Libs
    BY <1>3 DEF Download
  <2>. QED  BY <1>3, <2>1 DEF Download
<1>4. ASSUME NEW l \in Libs, UntarPart(l)
      PROVE  Phase' /\ Progress' /\ ForcedInitReady' /\ Named'
  BY <1>4 DEF UntarPart
<1>5. ASSUME NEW l \in Libs, UntarFile(l)
      PROVE  Phase' /\ Progress' /\ ForcedInitReady' /\ Named'
  <2>1. /\ job'.kind = job.kind /\ job'.snap = job.snap
        /\ job'.force = job.force /\ job'.given = job.given
        /\ job'.todo = job.todo \ {l}
    BY <1>5 DEF UntarFile
  <2>. QED  BY <1>5, <2>1 DEF UntarFile
<1>6. CASE UntarDone
  <2>1. CASE job.kind = "init"
    BY <1>6, <2>1, MaintenanceAssumption DEF UntarDone
  <2>2. CASE job.kind # "init"
    BY <1>6, <2>2, NoJobIs DEF UntarDone
  <2>. QED  BY <2>1, <2>2
<1>7. CASE UpdateTemp
  BY <1>7 DEF UpdateTemp
<1>8. CASE UpdateFails \/ UpdateRename \/ UninstallData
  BY <1>8, NoJobIs DEF UpdateFails, UpdateRename, UninstallData
<1>9. CASE Uninstall
  <2>1. /\ job'.kind = "uninstall" /\ job'.force = FALSE /\ job'.snap = NilMap
        /\ pc' = "wipe"
    BY <1>9, NoJobIs, NoJobType DEF Uninstall
  <2>. QED  BY <1>9, <2>1 DEF Uninstall
<1>. QED  BY <1>1, <1>2, <1>3, <1>4, <1>5, <1>6, <1>7, <1>8, <1>9

\* Containers and shells beside the commands.
LEMMA UserStep ==
    ASSUME IndInv, NEW c \in Ids,
           \/ Create(c) \/ CreateDies(c) \/ ShellStarts(c)
           \/ ShellEnds(c) \/ Destroy(c)
    PROVE  Phase' /\ Progress' /\ ForcedInitReady' /\ Named'
<1>. USE DEF IndInv, TypeOK, Phase, Progress, ForcedInitReady, Named, Names,
             Usable
<1>1. CASE Create(c)
  <2>1. sys \in SUBSET Ids /\ sys \cup {c} \notin {Missing, Torn, NilMap}
    BY <1>1, MaintenanceAssumption DEF Create, Registries
  <2>. QED  BY <1>1, <2>1 DEF Create
<1>2. CASE CreateDies(c)
  <2>1. CASE UNCHANGED sys
    BY <1>2, <2>1 DEF CreateDies
  <2>2. CASE Usable /\ sys' = Torn
    BY <1>2, <2>2, MaintenanceAssumption DEF CreateDies
  <2>3. CASE Usable /\ sys' = sys \cup {c}
    <3>1. sys \in SUBSET Ids /\ sys \cup {c} \notin {Missing, Torn, NilMap}
      BY <2>3, MaintenanceAssumption DEF Registries
    <3>. QED  BY <1>2, <2>3, <3>1 DEF CreateDies
  <2>. QED  BY <1>2, <2>1, <2>2, <2>3 DEF CreateDies
<1>3. CASE ShellStarts(c) \/ ShellEnds(c)
  BY <1>3 DEF ShellStarts, ShellEnds
<1>4. CASE Destroy(c)
  <2>1. sys \in SUBSET Ids /\ sys \ {c} \notin {Missing, Torn, NilMap}
    BY <1>4, MaintenanceAssumption DEF Destroy, Registries
  <2>. QED  BY <1>4, <2>1 DEF Destroy
<1>. QED  BY <1>1, <1>2, <1>3, <1>4

LEMMA IndStep == IndInv /\ [Next]_vars => IndInv'
<1>. SUFFICES ASSUME IndInv, [Next]_vars
              PROVE  Phase' /\ Progress' /\ ForcedInitReady' /\ Named'
  BY TypeStep DEF IndInv
<1>1. CASE \/ \E force, given \in BOOLEAN : StartInit(force, given)
           \/ WipePart \/ Wipe \/ InitFinds \/ InitLook \/ InitTakesTarball
           \/ Truncate \/ Write \/ WriteFails \/ Exit
  BY <1>1, InitCommandStep
<1>2. CASE InitMakesNoFolder \/ FetchFails \/ UntarFails
  <2>1. /\ Fail /\ UNCHANGED <<files, users>>
        /\ pc \in {"look", "fetch", "download", "untar"}
        /\ pc = "look" => sys = Missing
    BY <1>2 DEF InitMakesNoFolder, FetchFails, UntarFails
  <2>2. job.kind = "init" => job.snap # Missing /\ sys = Missing
    BY <2>1, MaintenanceAssumption DEF IndInv, Progress
  <2>. QED  BY <2>1, <2>2, FailInd DEF IndInv
<1>3. CASE \/ Reset \/ UpdateLook \/ Remove \/ FetchOpen \/ Download
           \/ \E l \in Libs : UntarPart(l) \/ UntarFile(l)
           \/ UntarDone \/ UpdateTemp \/ UpdateFails \/ UpdateRename
           \/ Uninstall \/ UninstallData
  BY <1>3, OtherCommandStep
<1>4. CASE Kill
  BY <1>4, NoJobIs DEF Kill, IndInv, Phase, Progress, ForcedInitReady, Named,
     Names
<1>5. CASE \E c \in Ids : \/ Create(c) \/ CreateDies(c) \/ ShellStarts(c)
                          \/ ShellEnds(c) \/ Destroy(c)
  BY <1>5, UserStep
<1>6. CASE UNCHANGED vars
  BY <1>6 DEF vars, IndInv, Phase, Progress, ForcedInitReady, Named, Names,
     Usable
<1>. QED  BY <1>1, <1>2, <1>3, <1>4, <1>5, <1>6 DEF Next

LEMMA Inductive == Spec => []IndInv
BY InitInd, IndStep, PTL DEF Spec

-----------------------------------------------------------------------------
(* The theorems.                                                           *)

\* Whatever killed and failed commands have left behind, an init with -r that
\* returns no error leaves all libraries, but for a tarball that was given, and
\* a registry that is empty or, if writing it failed, cannot be read.
THEOREM ForcedInitRepairs == Spec => []ForcedInitReady
<1>1. IndInv => ForcedInitReady
  BY DEF IndInv
<1>. QED  BY <1>1, Inductive, PTL

\* No killed or failed init, reset, update or uninstall makes the registry
\* forget a container without a word: a registry that can be read names every
\* container that is whole.
THEOREM NothingForgotten == Spec => []RegistryForgetsNothing
<1>1. IndInv => RegistryForgetsNothing
  BY DEF IndInv, Named, Names, Usable, RegistryForgetsNothing
<1>. QED  BY <1>1, Inductive, PTL

\* Every step of update leaves a library whole that was.
THEOREM UpdateHarmless == Spec => UpdateKeepsLibraries
<1>1. ASSUME IndInv, [Next]_vars, job.kind = "update", NEW l \in Libs,
             lib[l] = "whole"
      PROVE  lib'[l] = "whole"
  <2>1. pc \in {"remove", "fetch", "download", "temp", "rename"}
    BY <1>1 DEF IndInv, Phase
  <2>2. CASE UNCHANGED lib
    BY <1>1, <2>2
  <2>3. CASE UpdateRename
    BY <1>1, <2>3 DEF UpdateRename, IndInv, TypeOK
  <2>4. UNCHANGED lib \/ UpdateRename
    BY <1>1, <2>1 DEF Next, vars, StartInit, WipePart, Wipe, InitFinds,
       InitLook, InitMakesNoFolder, InitTakesTarball, Truncate, Write,
       WriteFails, Done, Exit,
       Reset, UpdateLook, Remove, FetchOpen, Download, FetchFails, UntarPart,
       UntarFile, UntarFails, UntarDone, UpdateTemp, UpdateFails, Uninstall,
       UninstallData, Kill, Create, CreateDies, ShellStarts, ShellEnds,
       Destroy
  <2>. QED  BY <2>2, <2>3, <2>4
<1>2. IndInv /\ [Next]_vars =>
         [job.kind = "update" =>
             \A l \in Libs : lib[l] = "whole" => lib'[l] = "whole"]_vars
  BY <1>1
<1>. QED  BY <1>2, Inductive, PTL DEF Spec, UpdateKeepsLibraries
=============================================================================
