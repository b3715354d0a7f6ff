------------------------------ MODULE Compose ------------------------------
(***************************************************************************)
(* lpmx compose: a yaml file lists apps; the command orders them by the    *)
(* number of their dependents and, one after the other, gets the image of  *)
(* an app, makes a container of it, runs its command there to the end and  *)
(* puts scripts for the programs it exposes into bin/.                     *)
(*                                                                         *)
(* ImageStore has the steps of a download, Lifecycle those of a container; *)
(* here each is one step with its lasting effect.  As under "command" in   *)
(* Lifecycle, other commands come while compose waits for an app's command *)
(* or when it is over.  What another compose does that then runs, or run   *)
(* and expose from another terminal, is among them: it downloads images    *)
(* and exposes programs of containers that were made before.               *)
(***************************************************************************)
EXTENDS Integers, Sequences, FiniteSets, SequencesExt

CONSTANTS
    Apps,       \* names of apps
    Images,     \* what image fields say: names with or without tag, sif files
    Names,      \* names in the table of images
    Tagged,     \* an image field with ":latest" appended if it has no tag
    Latest,     \* "<app>:latest"
    Programs,   \* names of scripts in bin/
    Ids,        \* container ids
    Files,      \* the compose files in use
    Others,     \* images that other commands download and delete
    Limit,      \* a counter holds -Limit..Limit-1; 128 for int8
    None,       \* no container, no script, the empty image name
    Broken      \* a script that is empty, cut or mixed with an older one

AppLevels ==
    [name    : Apps,
     valid   : BOOLEAN,        \* fields are there and have their separators
     image   : Images,
     type    : {"docker", "singularity"},
     depends : Seq(Apps),
     expose  : Seq(Programs)]

TopLevels == [valid : BOOLEAN,  \* is read and parsed, and has version 1
              apps  : Seq(AppLevels)]

Containers ==
    [app   : Apps,
     image : Names,
     reg   : BOOLEAN,  \* is in the registry
     state : {"made", "running", "ended", "gone"}]

ASSUME ComposeAssumption ==
    /\ Files \subseteq TopLevels
    /\ Tagged \in [Images -> Names]
    /\ Latest \in [Apps -> Names]
    /\ Others \subseteq Names
    /\ Limit \in Nat \ {0}
    /\ None \notin Apps \cup Images \cup Names \cup Ids \cup Containers
    /\ Broken \notin Ids \cup {None}
    /\ IsFiniteSet(Apps)

VARIABLES
    table,   \* names listed as images
    con,     \* containers: None or one of Containers
    bin,     \* bin[n]: the container that script n resumes
    pc,      \* the next step of compose
    order,   \* the apps, in the order in which they are run
    file,    \* the file it works on
    k,       \* it is at order[k]
    name,    \* what autoDownload returned
    cid,     \* the container of order[k]
    todo,    \* programs of order[k] still to be exposed
    mine,    \* containers that this compose has made
    strayed  \* programs whose script was not made, though no error says so,
             \* or is of another command, since this compose made it; like
             \* mine this is history, which no guard reads

memory == <<pc, order, file, k, name, cid, todo, mine, strayed>>
vars   == <<table, con, bin, memory>>

NoFile == [valid |-> FALSE, apps |-> <<>>]

TypeOK ==
    /\ table \subseteq Names
    /\ con \in [Ids -> Containers \cup {None}]
    /\ bin \in [Programs -> Ids \cup {None, Broken}]
    /\ pc \in {"idle", "download", "generate", "run", "shell", "expose",
           "ok"}
    /\ file \in Files \cup {NoFile}
    /\ order \in Seq(Apps)
    /\ k \in Nat
    /\ name \in Images \cup Names \cup {None}
    /\ cid \in Ids \cup {None}
    /\ todo \in Seq(Programs)
    /\ mine \subseteq Ids
    /\ strayed \subseteq Programs

Init ==
    /\ table = {} /\ con = [c \in Ids |-> None]
    /\ bin = [n \in Programs |-> None]
    /\ pc = "idle" /\ order = <<>> /\ file = NoFile /\ k = 0
    /\ name = None /\ cid = None /\ todo = <<>> /\ mine = {} /\ strayed = {}

-----------------------------------------------------------------------------
(* Validate *)

AppNames(f) == {f.apps[i].name : i \in DOMAIN f.apps}

App(f, a) == f.apps[CHOOSE i \in DOMAIN f.apps : f.apps[i].name = a]

Valid(f) ==
    /\ f.valid
    /\ \A i \in DOMAIN f.apps :
          /\ f.apps[i].valid
          /\ ToSet(f.apps[i].depends) \subseteq AppNames(f)
          /\ \A j \in DOMAIN f.apps : f.apps[i].name = f.apps[j].name => i = j

\* How often the apps name a in their depends.
Dependents(f, a) ==
    Cardinality({ij \in UNION {{i} \X DOMAIN f.apps[i].depends :
                                   i \in DOMAIN f.apps} :
                    f.apps[ij[1]].depends[ij[2]] = a})

\* The counter wraps.
Counter(f, a) == ((Dependents(f, a) + Limit) % (2 * Limit)) - Limit

-----------------------------------------------------------------------------
(* Plausible bugs, no part of Next: each takes the place of the definition *)
(* it names, to see that a property notices.                               *)

\* Depended, without the apps on which one app only depends.
BugDepended(f) == {a \in AppNames(f) : Dependents(f, a) > 1}

\* Before, the wrong way round.
BugBefore(f, a, b) == Counter(f, a) <= Counter(f, b)

\* Generate, with CommonComposeRun returning the image instead of the id.
BugGenerateReturnsImage(c) ==
    /\ pc = "generate" /\ name \in table /\ con[c] = None
    /\ con' = [con EXCEPT ![c] = [app |-> order[k], image |-> name,
                                  reg |-> FALSE, state |-> "made"]]
    /\ pc' = "run" /\ cid' = name /\ mine' = mine \cup {c}
    /\ UNCHANGED <<table, bin, order, file, k, name, todo, strayed>>

\* GenerateFails, going on with the next app.
BugGenerateGoesOn ==
    /\ pc = "generate"
    /\ pc' = "expose" /\ todo' = <<>>
    /\ UNCHANGED <<table, con, bin, order, file, k, name, cid, mine, strayed>>

-----------------------------------------------------------------------------
(* The order *)

Depended(f) == UNION {ToSet(f.apps[i].depends) : i \in DOMAIN f.apps}

Before(f, a, b) == Counter(f, a) >= Counter(f, b)

\* sort.Slice is not stable, and maps and sets are enumerated in any order.
Sorted(f) == {s \in SetToSeqs(Depended(f)) :
                 \A i, j \in DOMAIN s : i < j => Before(f, s[i], s[j])}

Orders(f) ==
    {s[1] \o s[2] : s \in Sorted(f) \X SetToSeqs(AppNames(f) \ Depended(f))}

-----------------------------------------------------------------------------
(* Compose and runComposeApp *)

Current == App(file, order[k])

Return ==
    /\ pc' = "idle" /\ order' = <<>> /\ file' = NoFile /\ k' = 0
    /\ name' = None /\ cid' = None /\ todo' = <<>> /\ mine' = {}
    /\ strayed' = {}

Goto(label) ==
    pc' = label /\ UNCHANGED <<order, file, k, name, cid, todo, mine, strayed>>

\* On to app n of the file, or to the end.
StartApp(f, o, n) ==
    /\ pc' = "download" /\ order' = o /\ file' = f /\ k' = n
    /\ name' = None /\ cid' = None
    /\ todo' = App(f, o[n]).expose

\* What Validate rejects changes nothing.
Compose(f) ==
    /\ pc = "idle" /\ Valid(f)
    /\ \E o \in Orders(f) : IF o = <<>> THEN Goto("ok") ELSE StartApp(f, o, 1)
    /\ UNCHANGED <<table, con, bin, mine, strayed>>

-----------------------------------------------------------------------------
(* autoDownload *)

\* The name under which the image will be listed.
Target ==
    IF Current.type = "docker" THEN Tagged[Current.image] ELSE Latest[order[k]]

\* The image is there: the empty name is returned, and no error.
AutoDownloadFinds ==
    /\ pc = "download" /\ Current.image \in table
    /\ pc' = "generate" /\ name' = None
    /\ UNCHANGED <<table, con, bin, order, file, k, cid, todo, mine, strayed>>

\* DockerDownload appends the tag, but the name is returned without it.
AutoDownload ==
    /\ pc = "download" /\ Current.image \notin table /\ Target \notin table
    /\ table' = table \cup {Target}
    /\ pc' = "generate"
    /\ name' = IF Current.type = "docker" THEN Current.image ELSE Target
    /\ UNCHANGED <<con, bin, order, file, k, cid, todo, mine, strayed>>

\* The target is listed, or the image is not to be had.
AutoDownloadFails ==
    /\ pc = "download" /\ Current.image \notin table
    /\ Return
    /\ UNCHANGED <<table, con, bin>>

-----------------------------------------------------------------------------
(* CommonComposeRun *)

Generate(c) ==
    /\ pc = "generate" /\ name \in table /\ con[c] = None
    /\ con' = [con EXCEPT ![c] = [app |-> order[k], image |-> name,
                                  reg |-> FALSE, state |-> "made"]]
    /\ pc' = "run" /\ cid' = c /\ mine' = mine \cup {c}
    /\ UNCHANGED <<table, bin, order, file, k, name, todo, strayed>>

\* The name is not listed, or a folder cannot be made.
GenerateFails ==
    /\ pc = "generate"
    /\ Return
    /\ UNCHANGED <<table, con, bin>>

RunStarts ==
    /\ pc = "run"
    /\ con' = [con EXCEPT ![cid].reg = TRUE, ![cid].state = "running"]
    /\ Goto("shell")
    /\ UNCHANGED <<table, bin>>

\* The error of Run is dropped.  Its defer has registered the container,
\* unless it is the registry that cannot be used.
RunFails ==
    /\ pc = "run"
    /\ \E r \in BOOLEAN :
          con' = [con EXCEPT ![cid].reg = r, ![cid].state = "ended"]
    /\ Goto("expose")
    /\ UNCHANGED <<table, bin>>

\* The app's command ends, whatever it returns.
RunEnds ==
    /\ pc = "shell"
    /\ con' = [con EXCEPT ![cid].state = "ended"]
    /\ Goto("expose")
    /\ UNCHANGED <<table, bin>>

-----------------------------------------------------------------------------
(* Expose *)

\* A script of that name that is there is removed first, whoever has it.
Expose ==
    /\ pc = "expose" /\ todo # <<>> /\ con[cid].reg
    /\ bin' = [bin EXCEPT ![Head(todo)] = cid]
    /\ todo' = Tail(todo) /\ strayed' = strayed \ {Head(todo)}
    /\ UNCHANGED <<table, con, pc, order, file, k, name, cid, mine>>

\* What goes wrong without an error: the record cannot be read, which leaves
\* everything as it is, or the old script cannot be removed and is written
\* over without being cut, or the new one cannot be written.
ExposeSilent ==
    /\ pc = "expose" /\ todo # <<>> /\ con[cid].reg
    /\ bin' \in {bin, [bin EXCEPT ![Head(todo)] = Broken]}
    /\ todo' = Tail(todo) /\ strayed' = strayed \cup {Head(todo)}
    /\ UNCHANGED <<table, con, pc, order, file, k, name, cid, mine>>

\* The container is not registered, its record is not there or makes no sense,
\* or the script cannot be made, when that of the same name has been removed.
ExposeFails ==
    /\ pc = "expose" /\ todo # <<>>
    /\ \/ UNCHANGED bin
       \/ con[cid].reg /\ bin' = [bin EXCEPT ![Head(todo)] = None]
    /\ Return
    /\ UNCHANGED <<table, con>>

NextApp ==
    /\ pc = "expose" /\ todo = <<>> /\ k < Len(order)
    /\ StartApp(file, order, k + 1)
    /\ UNCHANGED <<table, con, bin, mine, strayed>>

ComposeEnds ==
    /\ pc = "expose" /\ todo = <<>> /\ k = Len(order)
    /\ Goto("ok")
    /\ UNCHANGED <<table, con, bin>>

Exit ==
    /\ pc = "ok"
    /\ Return
    /\ UNCHANGED <<table, con, bin>>

-----------------------------------------------------------------------------
(* Other commands, and the end of compose by a signal *)

Download(n) ==
    /\ pc \in {"idle", "shell"}
    /\ n \notin table
    /\ table' = table \cup {n}
    /\ UNCHANGED <<con, bin, memory>>

\* Containers that are in no registry go with the folder of their image.
Delete(n) ==
    /\ pc \in {"idle", "shell"}
    /\ n \in table
    /\ \A c \in Ids : con[c] # None /\ con[c].reg => con[c].image # n
    /\ table' = table \ {n}
    /\ con' = [c \in Ids |-> IF con[c] # None /\ con[c].image = n
                             THEN [con[c] EXCEPT !.state = "gone"] ELSE con[c]]
    /\ UNCHANGED <<bin, memory>>

\* The scripts in bin stay.
Destroy(c) ==
    /\ pc \in {"idle", "shell"}
    /\ con[c] # None /\ con[c].reg /\ con[c].state # "running"
    /\ con' = [con EXCEPT ![c].reg = FALSE, ![c].state = "gone"]
    /\ UNCHANGED <<table, bin, memory>>

\* lpmx expose of a program of any registered container, whose ways to go
\* wrong are those of compose: it has the script, spoils it or removes it.
OtherExpose(c, n) ==
    /\ pc \in {"idle", "shell"}
    /\ con[c] # None /\ con[c].reg
    /\ bin' \in {[bin EXCEPT ![n] = s] : s \in {c, Broken, None}}
    /\ strayed' = IF pc = "idle" THEN {} ELSE strayed \cup {n}
    /\ UNCHANGED <<table, con, pc, order, file, k, name, cid, todo, mine>>

\* The app's command, if any, ends with lpmx's terminal.
Kill ==
    /\ pc \notin {"idle", "ok"}
    /\ con' = IF pc = "shell" THEN [con EXCEPT ![cid].state = "ended"] ELSE con
    /\ Return
    /\ UNCHANGED <<table, bin>>

Next ==
    \/ \E f \in Files : Compose(f)
    \/ AutoDownloadFinds \/ AutoDownload \/ AutoDownloadFails
    \/ \E c \in Ids : Generate(c) \/ Destroy(c)
    \/ GenerateFails \/ RunStarts \/ RunFails \/ RunEnds
    \/ Expose \/ ExposeSilent \/ ExposeFails
    \/ NextApp \/ ComposeEnds \/ Exit \/ Kill
    \/ \E n \in Others : Download(n) \/ Delete(n)
    \/ \E c \in Ids, n \in Programs : OtherExpose(c, n)

Spec == Init /\ [][Next]_vars
-----------------------------------------------------------------------------
(* Properties *)

\* a's command has run, or could not be run, in this compose.
Over(a) == \E c \in mine : con[c].app = a /\ con[c].state \in {"ended", "gone"}

Running(a) == \E c \in mine : con[c].app = a /\ con[c].state = "running"

\* While the command of an app runs on which no app depends, those of all apps
\* on which some app depends are over, whatever happened to their images and
\* containers meanwhile and however the counters wrapped (Compose runs depends
\* before remains).
NeededBeforeLeaves ==
    \A a, b \in AppNames(file) :
        Running(a) /\ Dependents(file, a) = 0 /\ Dependents(file, b) > 0
            => Over(b)

\* While the command of an app runs, those of all apps with more dependents
\* are over, if their counters have not wrapped (Validate's sort).
MostNeededFirst ==
    \A a, b \in AppNames(file) :
        /\ Running(a)
        /\ Dependents(file, a) < Dependents(file, b)
        /\ Dependents(file, b) < Limit
        => Over(b)

\* A compose that returns no error has made a container for every app, and
\* every script its file asks for resumes one of these containers, of an app
\* that exposes it, but for those that another command has replaced since and
\* those whose failure Expose has kept to itself (runComposeApp returns the
\* errors of autoDownload, of generateContainer and of Expose).
OkMeansAll ==
    pc = "ok" => \A i \in DOMAIN file.apps :
        LET a == file.apps[i] IN
        /\ \E c \in mine : con[c].app = a.name
        /\ \A n \in ToSet(a.expose) \ strayed :
              /\ bin[n] \in mine
              /\ n \in ToSet(App(file, con[bin[n]].app).expose)

\* autoDownload returns no error only with the name of a listed image.
ImageFound == pc = "generate" => name \in table
=============================================================================
