------------------------ MODULE ImageStoreCalmProofs ------------------------
(***************************************************************************)
(* Theorems about ImageStore used one command at a time, each to its end,  *)
(* without deletes and with a folder for every image: listed images and    *)
(* registered containers stay whole (ListedWhole, ContainersWhole), with a *)
(* reset, merge or commit as well.                                         *)
(***************************************************************************)
EXTENDS ImageStoreProofs
-----------------------------------------------------------------------------
(* The use in which listed images and containers stay whole: one command   *)
(* at a time, to its end, no deletes, and no two images with one folder (a *)
(* commit to the folder of another image fails when it finds the other's   *)
(* setting.yml there, with the container's rw folder already gone).        *)
Calm ==
    /\ Overlap = {}
    /\ Stops = FALSE
    /\ Kinds \cap {"delete", "permanent"} = {}
    /\ \A i, j \in Images : Folder[i] = Folder[j] => i = j

(* What the store is like for the table t, but for the layer that is being *)
(* copied or extracted, extracted again in a reset (redone), the container *)
(* that is being committed (frozen) and the image folder that is complete  *)
(* before the image is listed (made).                                      *)
ListedOK(t, redone) ==
    \A i \in Images : t[i] # None =>
        /\ dir[Folder[i]] = "set"
        /\ \A l \in ToSet(t[i]) :
              file[l] = Whole /\ (folder[l] = "whole" \/ l \in Squash \cup redone)

FoldersListed(t, made) ==
    \A i \in Images : dir[Folder[i]] = "set" => t[i] # None \/ i \in made

FilesOK(copied) == \A l \in Layers : file[l] \in {None, Whole} \/ l \in copied

FoldersOK(extracted) ==
    \A l \in Layers : folder[l] = "part" => l \in Squash \cup extracted

ContainersOK(redone, frozen) ==
    \A c \in Ids :
        /\ reg[c] # None => dir[reg[c]] = "set"
        /\ con[c] # None =>
              /\ con[c].rw \/ c \in frozen
              /\ \A l \in ToSet(con[c].layers) :
                    folder[l] = "whole" \/ l \in Squash \cup redone

Copied(p) == {l \in Layers : pc[p] = "copy" /\ l = Head(job[p].todo)}

Untarred(p) == {l \in Layers : pc[p] = "untar" /\ l = Head(job[p].todo)}

Redone(p) == IF job[p].kind = "reset" THEN Untarred(p) ELSE {}

Frozen(p) ==
    {c \in Ids : pc[p] \in {"move", "copySetting", "thaw"} /\ c = job[p].cid}

Sets(p) ==
    \/ pc[p] \in {"mergeFolder", "mergeFile", "thaw", "record", "register",
                  "table", "write"}
    \/ job[p].kind = "add" /\ pc[p] \in {"extract", "untar"}

Made(p) == {i \in Images : Sets(p) /\ Folder[i] = Folder[job[p].img]}

StoreOK(p) ==
    /\ ListedOK(job[p].snap, Redone(p))
    /\ FoldersListed(job[p].snap, Made(p))
    /\ FilesOK(Copied(p))
    /\ FoldersOK(Untarred(p))
    /\ ContainersOK(Redone(p), Frozen(p))

RestOK ==
    /\ table # Torn
    /\ ListedOK(table, {})
    /\ FoldersListed(table, {})
    /\ FilesOK({})
    /\ FoldersOK({})
    /\ ContainersOK({}, {})

(* What the command at work has done so far.                               *)
CopyOK(p) ==
    /\ pc[p] = "fetch" => job[p].off = 0
    /\ pc[p] = "copy" =>
          file[Head(job[p].todo)] = [k \in 1..job[p].off |-> TRUE]

ImportOK(p) ==
    LET k == job[p].kind
        layers == ToSet(job[p].layers)
        todo == ToSet(job[p].todo)
    IN
    /\ k \in Imports =>
          IF k = "singularity" THEN layers \subseteq Squash
                               ELSE layers \cap Squash = {}
    /\ pc[p] \in {"fetch", "copy"} =>
          /\ todo \subseteq layers
          /\ \A l \in layers : file[l] = Whole \/ l \in todo
    /\ pc[p] \in {"extract", "untar"} /\ k # "reset" =>
          /\ todo \subseteq layers
          /\ \A l \in layers :
                file[l] = Whole /\ (folder[l] = "whole" \/ l \in todo)
    /\ pc[p] \in {"extract", "untar"} /\ k = "reset" =>
          /\ job[p].snap[job[p].img] # None
          /\ todo \subseteq ToSet(job[p].snap[job[p].img])
    /\ pc[p] = "setting" /\ k # "merge" =>
          \A l \in layers : file[l] = Whole /\ folder[l] = "whole"

Usable(l) == file[l] = Whole /\ (folder[l] = "whole" \/ l \in Squash)

MadeOK(p) ==
    LET layers == ToSet(job[p].layers) IN
    /\ Sets(p) => dir[Folder[job[p].img]] = "set"
    /\ pc[p] = "mergeFile" =>
          \A l \in layers : l = Head(job[p].layers) /\ folder[l] = "whole"
    /\ pc[p] \in {"table", "write"} => \A l \in layers : Usable(l)

CommitOK(p) ==
    LET layers == ToSet(job[p].layers)
        new == ToSet(job[p].todo)
    IN
    /\ pc[p] \in {"tar", "freeze", "move", "copySetting"} =>
          dir[Folder[job[p].img]] # "set"
    /\ pc[p] = "freeze" =>
          /\ new = {Head(job[p].todo)}
          /\ \A l \in layers : file[l] = Whole /\ (l \in new \/ Usable(l))
    /\ pc[p] \in CommitSteps \ {"tar", "freeze"} =>
          /\ \A l \in layers : Usable(l)
          /\ \A l \in new : folder[l] = "whole"

CalmFor(p) ==
    /\ job[p].img # None
    /\ table = IF pc[p] = "write" THEN Torn ELSE job[p].snap
    /\ StoreOK(p)
    /\ CopyOK(p) /\ ImportOK(p) /\ MadeOK(p) /\ CommitOK(p)

CalmInv ==
    /\ AtRest => RestOK
    /\ \A p \in Procs : pc[p] # "idle" => CalmFor(p)

-----------------------------------------------------------------------------
(* From one command to all, and between commands *)

\* The only command at work moves, or one starts when none is at work.
LEMMA CalmStep ==
    ASSUME Calm, IndInv, NEW p \in Procs, StepOK(p), Alone(p),
           pc'[p] = "idle" => RestOK',
           pc'[p] # "idle" => CalmFor(p)'
    PROVE  CalmInv'
BY DEF CalmInv, AtRest, StepOK, Others, Alone

LEMMA AtWorkAlone ==
    ASSUME Calm, IndInv, NEW p \in Procs, pc[p] # "idle"
    PROVE  Alone(p)
BY DEF Calm, IndInv, Beside, Alone

LEMMA StartsAlone ==
    ASSUME Calm, IndInv, CalmInv, NEW p \in Procs, NEW kind, MayStart(p, kind)
    PROVE  Alone(p) /\ RestOK
BY DEF Calm, MayStart, CalmInv, AtRest, Alone

LEMMA SnapType ==
    ASSUME IndInv, NEW p \in Procs
    PROVE  /\ job[p] \in Jobs /\ job[p].snap \in [Images -> Entries]
           /\ job[p].snap # Torn
           /\ job[p].layers \in Seq(Layers) /\ job[p].todo \in Seq(Layers)
<1>1. /\ job[p] \in Jobs /\ job[p].snap \in [Images -> Entries]
      /\ job[p].layers \in Seq(Layers) /\ job[p].todo \in Seq(Layers)
  BY DEF IndInv, TypeOK, Jobs
<1>. QED  BY <1>1, ImageStoreAssumption DEF Entries

LEMMA NextOff ==
    ASSUME IndInv, NEW p \in Procs, NextLayer(p)
    PROVE  job'[p].off = 0 /\ job'[p].todo = Tail(job[p].todo)
<1>1. job \in [Procs -> Jobs] /\ job[p] \in Jobs
  BY DEF IndInv, TypeOK
<1>2. job'[p] = [job[p] EXCEPT !.todo = Tail(job[p].todo), !.off = 0]
  BY <1>1 DEF NextLayer
<1>. QED  BY <1>1, <1>2 DEF Jobs

\* Nothing that the store promises to the images listed is taken back.
Grows(p) ==
    /\ job'[p].snap = job[p].snap
    /\ \A l \in Layers :
          /\ file[l] = Whole => file'[l] = Whole
          /\ folder[l] = "whole" => folder'[l] = "whole"
    /\ \A f \in Folders : dir[f] = "set" => dir'[f] = "set"

\* The command gets on with its work but for the files, folders and
\* containers that it says are not what they should be.
LEMMA StoreGrows ==
    ASSUME IndInv, NEW p \in Procs, StoreOK(p), Grows(p),
           Redone(p) = {}, UNCHANGED <<con, reg>>,
           Frozen(p) \subseteq Frozen(p)',
           FilesOK(Copied(p))', FoldersOK(Untarred(p))',
           \A i \in Images : dir'[Folder[i]] = "set" =>
               i \in Made(p)' \/ (dir[Folder[i]] = "set" /\ i \notin Made(p))
    PROVE  StoreOK(p)'
<1>1. \A i \in Images : ToSet(job[p].snap[i]) \subseteq Layers \/ job[p].snap[i] = None
  BY SnapType, ToSetType DEF Entries
<1>2. \A c \in Ids : con[c] # None => ToSet(con[c].layers) \subseteq Layers
  BY ToSetType DEF IndInv, TypeOK, Records
<1>3. \A c \in Ids : reg[c] \in Folders \cup {None}
  BY DEF IndInv, TypeOK
<1>4. ListedOK(job[p].snap, Redone(p))'
  BY <1>1, FolderType DEF StoreOK, Grows, ListedOK
<1>5. FoldersListed(job[p].snap, Made(p))'
  BY DEF StoreOK, Grows, FoldersListed
<1>6. ContainersOK(Redone(p), Frozen(p))'
  BY <1>2, <1>3 DEF StoreOK, Grows, ContainersOK
<1>. QED  BY <1>4, <1>5, <1>6 DEF StoreOK

\* A command that has nothing unfinished returns.
LEMMA StoreAtRest ==
    ASSUME IndInv, NEW p \in Procs, StoreOK(p),
           table' = job[p].snap, UNCHANGED <<file, folder, con, reg>>,
           \A f \in Folders : dir'[f] = "set" <=> dir[f] = "set",
           Made(p) = {}, Copied(p) = {}, Frozen(p) = {},
           Untarred(p) \subseteq Squash
    PROVE  RestOK'
<1>1. table' # Torn
  BY SnapType
<1>2. Redone(p) \subseteq Squash
  BY DEF Redone
<1>3. \A c \in Ids : reg[c] \in Folders \cup {None}
  BY DEF IndInv, TypeOK
<1>4. ListedOK(table, {})'
  BY <1>2, FolderType DEF StoreOK, ListedOK
<1>5. FoldersListed(table, {})'
  BY FolderType DEF StoreOK, FoldersListed
<1>6. FilesOK({})' /\ FoldersOK({})'
  BY DEF StoreOK, FilesOK, FoldersOK
<1>7. ContainersOK({}, {})'
  BY <1>2, <1>3 DEF StoreOK, ContainersOK
<1>. QED  BY <1>1, <1>4, <1>5, <1>6, <1>7 DEF RestOK

-----------------------------------------------------------------------------
(* The commands start *)

LEMMA CalmBegins ==
    ASSUME IndInv, RestOK, NEW p \in Procs, NEW kind \in AllKinds,
           NEW i \in Images, NEW layers \in Seq(Layers),
           NEW label \in {"fetch", "merge", "extract"},
           Begin(p, kind, i, layers, label),
           kind = "add" => label = "fetch",
           UNCHANGED <<table, file, folder, con, reg>>,
           table # Torn,
           UNCHANGED dir \/ MakeDir(Folder[i])
    PROVE  /\ job'[p].kind = kind /\ job'[p].img = i /\ job'[p].snap = table
           /\ job'[p].layers = layers /\ job'[p].todo = layers
           /\ pc'[p] = label
           /\ ImportOK(p)' => CalmFor(p)'
<1>. DEFINE j == [NoJob EXCEPT !.kind = kind, !.img = i, !.layers = layers,
                               !.todo = layers, !.snap = table]
<1>1. /\ job'[p] = j /\ pc'[p] = label
  BY DEF Begin, Goto, IndInv, TypeOK
<1>2. /\ j.kind = kind /\ j.img = i /\ j.snap = table /\ j.off = 0
      /\ j.layers = layers /\ j.todo = layers
  BY DEF NoJob
<1>3. /\ \A f \in Folders : dir'[f] = "set" <=> dir[f] = "set"
      /\ i # None
  BY NoneIn DEF MakeDir, IndInv, TypeOK
<1>. HIDE DEF j
<1>4. Redone(p)' = {} /\ Copied(p)' = {} /\ Untarred(p)' = {} /\ Frozen(p)' = {}
  BY <1>1, <1>2 DEF Redone, Copied, Untarred, Frozen
<1>5. Made(p)' = {}
  BY <1>1, <1>2 DEF Made, Sets
<1>6. \A c \in Ids : reg[c] \in Folders \cup {None}
  BY DEF IndInv, TypeOK
<1>7. StoreOK(p)'
  <2>1. ListedOK(job[p].snap, Redone(p))'
    BY <1>1, <1>2, <1>3, FolderType DEF RestOK, ListedOK
  <2>2. FoldersListed(job[p].snap, Made(p))'
    BY <1>1, <1>2, <1>3, FolderType DEF RestOK, FoldersListed
  <2>3. FilesOK(Copied(p))' /\ FoldersOK(Untarred(p))'
    BY DEF RestOK, FilesOK, FoldersOK
  <2>4. ContainersOK(Redone(p), Frozen(p))'
    BY <1>3, <1>6 DEF RestOK, ContainersOK
  <2>. QED  BY <2>1, <2>2, <2>3, <2>4 DEF StoreOK
<1>8. CopyOK(p)' /\ MadeOK(p)' /\ CommitOK(p)'
  BY <1>1, <1>2 DEF CopyOK, MadeOK, CommitOK, Sets, CommitSteps
<1>. QED  BY <1>1, <1>2, <1>3, <1>7, <1>8 DEF CalmFor

LEMMA ManifestLayers ==
    ASSUME NEW i \in DOMAIN Manifest
    PROVE  IF Singular(i) THEN ToSet(Manifest[i]) \subseteq Squash
                          ELSE ToSet(Manifest[i]) \cap Squash = {}
<1>1. CASE Manifest[i] \in Seq(Squash)
  BY <1>1, ToSetType DEF Singular
<1>2. CASE Manifest[i] \in Seq(Layers \ (Fresh \cup Squash))
  <2>1. ToSet(Manifest[i]) \subseteq Layers \ (Fresh \cup Squash)
    BY <1>2, ToSetType
  <2>. QED  BY <2>1 DEF Singular
<1>. QED  BY <1>1, <1>2, ImageStoreAssumption

LEMMA CalmImport ==
    ASSUME Calm, IndInv, CalmInv, NEW p \in Procs,
           NEW k \in {"download", "load", "skopeo", "add"},
           NEW i \in DOMAIN Manifest, Import(p, k, i)
    PROVE  CalmInv'
<1>1. StepOK(p) /\ Alone(p) /\ RestOK
  BY ImportStep, StartsAlone DEF Import
<1>2. /\ job'[p].kind = k
      /\ job'[p].layers = Manifest[i] /\ job'[p].todo = Manifest[i]
      /\ pc'[p] = "fetch"
      /\ ImportOK(p)' => CalmFor(p)'
  <2>. SUFFICES /\ Begin(p, k, i, Manifest[i], "fetch")
                /\ UNCHANGED dir \/ MakeDir(Folder[i])
                /\ UNCHANGED <<table, file, folder, con, reg>>
    BY <1>1, CalmBegins, ManifestType DEF AllKinds, RestOK
  <2>. QED  BY DEF Import
<1>3. ToSet(Manifest[i]) \cap Squash = {}
  BY ManifestLayers DEF Import
<1>4. ImportOK(p)'
  BY <1>2, <1>3 DEF ImportOK
<1>. QED  BY <1>1, <1>2, <1>4, CalmStep

LEMMA CalmLoadSingularity ==
    ASSUME Calm, IndInv, CalmInv, NEW p \in Procs,
           NEW i \in DOMAIN Manifest, LoadSingularity(p, i)
    PROVE  CalmInv'
<1>1. StepOK(p) /\ Alone(p) /\ RestOK
  BY LoadSingularityStep, StartsAlone DEF LoadSingularity
<1>2. /\ job'[p].kind = "singularity"
      /\ job'[p].layers = Manifest[i] /\ job'[p].todo = Manifest[i]
      /\ pc'[p] = "fetch"
      /\ ImportOK(p)' => CalmFor(p)'
  <2>. SUFFICES /\ Begin(p, "singularity", i, Manifest[i], "fetch")
                /\ UNCHANGED <<table, file, folder, dir, con, reg>>
    BY <1>1, CalmBegins, ManifestType DEF AllKinds, RestOK
  <2>. QED  BY <1>1 DEF LoadSingularity, RestOK, store
<1>3. ToSet(Manifest[i]) \subseteq Squash
  BY ManifestLayers DEF LoadSingularity
<1>4. ImportOK(p)'
  BY <1>2, <1>3 DEF ImportOK
<1>. QED  BY <1>1, <1>2, <1>4, CalmStep

LEMMA CalmMerge ==
    ASSUME Calm, IndInv, CalmInv, NEW p \in Procs,
           NEW i \in DOMAIN MergeName, Merge(p, i)
    PROVE  CalmInv'
<1>1. StepOK(p) /\ Alone(p) /\ RestOK
  BY MergeStep, StartsAlone DEF Merge
<1>2. /\ i \in DOMAIN Manifest /\ i \in Images /\ MergeName[i] \in Images
      /\ table[i] \in Entries
  BY ImageStoreAssumption, ManifestType DEF IndInv, TypeOK, Merge
<1>3. UNCHANGED <<table, file, folder, dir, con, reg>>
  BY DEF Merge, store
<1>4. CASE table[i] = None
  <2>1. Begin(p, "merge", MergeName[i], Manifest[i], "fetch")
    BY <1>4 DEF Merge
  <2>2. /\ job'[p].kind = "merge"
        /\ job'[p].layers = Manifest[i] /\ job'[p].todo = Manifest[i]
        /\ pc'[p] = "fetch"
        /\ ImportOK(p)' => CalmFor(p)'
    BY <1>1, <1>2, <1>3, <2>1, CalmBegins, ManifestType DEF AllKinds, RestOK
  <2>3. ImportOK(p)'
    BY <2>2 DEF ImportOK, Imports
  <2>. QED  BY <1>1, <2>2, <2>3, CalmStep
<1>5. CASE table[i] # None
  <2>1. Begin(p, "merge", MergeName[i], table[i], "merge")
    BY <1>5 DEF Merge
  <2>2. table[i] \in Seq(Layers)
    BY <1>2, <1>5 DEF Entries
  <2>3. /\ job'[p].kind = "merge" /\ pc'[p] = "merge"
        /\ ImportOK(p)' => CalmFor(p)'
    BY <1>1, <1>2, <1>3, <2>1, <2>2, CalmBegins DEF AllKinds, RestOK
  <2>4. ImportOK(p)'
    BY <2>3 DEF ImportOK, Imports
  <2>. QED  BY <1>1, <2>3, <2>4, CalmStep
<1>. QED  BY <1>4, <1>5

LEMMA CalmReset ==
    ASSUME Calm, IndInv, CalmInv, NEW p \in Procs, NEW i \in Images, Reset(p, i)
    PROVE  CalmInv'
<1>1. StepOK(p) /\ Alone(p) /\ RestOK
  BY ResetStep, StartsAlone DEF Reset
<1>2. /\ Begin(p, "reset", i, table[i], "extract")
      /\ UNCHANGED <<table, file, folder, dir, con, reg>>
  BY DEF Reset, store
<1>3. table[i] \in Seq(Layers) /\ table[i] # None
  BY DEF Reset, IndInv, TypeOK, Entries
<1>4. /\ job'[p].kind = "reset" /\ job'[p].img = i /\ job'[p].snap = table
      /\ job'[p].todo = table[i] /\ pc'[p] = "extract"
      /\ ImportOK(p)' => CalmFor(p)'
  BY <1>1, <1>2, <1>3, CalmBegins DEF AllKinds, RestOK
<1>5. ImportOK(p)'
  BY <1>3, <1>4 DEF ImportOK, Imports
<1>. QED  BY <1>1, <1>4, <1>5, CalmStep

LEMMA CalmCommit ==
    ASSUME Calm, IndInv, CalmInv, NEW p \in Procs, NEW c \in Ids,
           NEW n \in CommitNames, Commit(p, c, n)
    PROVE  CalmInv'
<1>. DEFINE j == [NoJob EXCEPT !.kind = "commit", !.img = n, !.cid = c,
                               !.snap = table]
<1>1. StepOK(p) /\ Alone(p) /\ RestOK
  BY CommitStep, StartsAlone DEF Commit
<1>2. /\ job'[p] = j /\ pc'[p] = "tar" /\ table[n] = None /\ n \in Images
      /\ UNCHANGED <<table, file, folder, dir, con, reg>>
  BY ImageStoreAssumption DEF Commit, Goto, IndInv, TypeOK, store
<1>3. j.kind = "commit" /\ j.img = n /\ j.cid = c /\ j.snap = table /\ n # None
  BY <1>2, NoneIn DEF NoJob
<1>. HIDE DEF j
<1>4. Redone(p)' = {} /\ Copied(p)' = {} /\ Untarred(p)' = {} /\ Frozen(p)' = {}
  BY <1>2, <1>3 DEF Redone, Copied, Untarred, Frozen
<1>5. Made(p)' = {}
  BY <1>2, <1>3 DEF Made, Sets
<1>6. StoreOK(p)'
  <2>1. ListedOK(job[p].snap, Redone(p))'
    BY <1>1, <1>2, <1>3 DEF RestOK, ListedOK
  <2>2. FoldersListed(job[p].snap, Made(p))'
    BY <1>1, <1>2, <1>3 DEF RestOK, FoldersListed
  <2>3. FilesOK(Copied(p))' /\ FoldersOK(Untarred(p))'
    BY <1>1, <1>2 DEF RestOK, FilesOK, FoldersOK
  <2>4. ContainersOK(Redone(p), Frozen(p))'
    BY <1>1, <1>2 DEF RestOK, ContainersOK
  <2>. QED  BY <2>1, <2>2, <2>3, <2>4 DEF StoreOK
<1>7. dir[Folder[n]] # "set"
  BY <1>1, <1>2 DEF RestOK, FoldersListed
<1>8. CopyOK(p)' /\ ImportOK(p)' /\ MadeOK(p)' /\ CommitOK(p)'
  BY <1>2, <1>3, <1>7 DEF CopyOK, ImportOK, MadeOK, CommitOK, Sets, Imports
<1>. QED  BY <1>1, <1>2, <1>3, <1>6, <1>8, CalmStep DEF CalmFor

(* A container appears or goes in one step.                                *)
LEMMA CalmContainers ==
    ASSUME Calm, IndInv, CalmInv, NEW p \in Procs, StepOK(p), Alone(p), RestOK,
           pc'[p] = "idle", UNCHANGED store,
           \A c \in Ids :
              /\ reg'[c] # None => dir[reg'[c]] = "set"
              /\ con'[c] # None =>
                    \/ con'[c] = con[c]
                    \/ /\ con'[c].rw
                       /\ \A l \in ToSet(con'[c].layers) :
                             folder[l] = "whole" \/ l \in Squash
    PROVE  CalmInv'
<1>1. ContainersOK({}, {})'
  BY DEF ContainersOK, RestOK, store
<1>2. RestOK'
  BY <1>1 DEF RestOK, ListedOK, FoldersListed, FilesOK, FoldersOK, store
<1>. QED  BY <1>2, CalmStep

LEMMA CalmCreate ==
    ASSUME Calm, IndInv, CalmInv, NEW p \in Procs, NEW c \in Ids,
           NEW i \in Images, Create(p, c, i)
    PROVE  CalmInv'
<1>. DEFINE r == [home |-> Folder[i], base |-> i,
                  layers |-> Reverse(table[i]), rw |-> TRUE]
<1>1. StepOK(p) /\ Alone(p) /\ RestOK
  BY CreateStep, StartsAlone DEF Create
<1>2. /\ con' = [con EXCEPT ![c] = r] /\ reg' = [reg EXCEPT ![c] = Folder[i]]
      /\ pc'[p] = "idle" /\ UNCHANGED store
      /\ dir[Folder[i]] = "set" /\ table[i] # None /\ table # Torn
  BY DEF Create, MayStart
<1>3. table[i] \in Seq(Layers)
  BY <1>2 DEF IndInv, TypeOK, Entries
<1>4. r.rw = TRUE /\ ToSet(r.layers) = ToSet(table[i])
  BY <1>3, ReverseType
<1>. HIDE DEF r
<1>5. \A l \in ToSet(r.layers) : folder[l] = "whole" \/ l \in Squash
  BY <1>1, <1>2, <1>4 DEF RestOK, ListedOK
<1>6. \A d \in Ids : reg[d] # None => dir[reg[d]] = "set"
  BY <1>1 DEF RestOK, ContainersOK
<1>7. \A d \in Ids :
         /\ reg'[d] # None => dir[reg'[d]] = "set"
         /\ con'[d] # None => con'[d] = con[d] \/ con'[d] = r
  BY <1>2, <1>6 DEF IndInv, TypeOK
<1>. QED  BY <1>1, <1>2, <1>4, <1>5, <1>7, CalmContainers

LEMMA CalmDestroy ==
    ASSUME Calm, IndInv, CalmInv, NEW p \in Procs, NEW c \in Ids, Destroy(p, c)
    PROVE  CalmInv'
<1>1. StepOK(p) /\ Alone(p) /\ RestOK
  BY DestroyStep, StartsAlone DEF Destroy
<1>2. pc'[p] = "idle" /\ UNCHANGED store
  BY DEF Destroy, MayStart
<1>3. \A d \in Ids : reg[d] # None => dir[reg[d]] = "set"
  BY <1>1 DEF RestOK, ContainersOK
<1>4. \A d \in Ids :
         /\ reg'[d] # None => dir[reg'[d]] = "set"
         /\ con'[d] # None => con'[d] = con[d]
  BY <1>3 DEF Destroy, IndInv, TypeOK
<1>. QED  BY <1>1, <1>2, <1>4, CalmContainers

-----------------------------------------------------------------------------
(* The layer files *)

\* The next layer of a loop, with the store as it is but for one file or folder.
LEMMA NextInLoop ==
    ASSUME IndInv, NEW p \in Procs, NextLayer(p), job[p].todo # <<>>
    PROVE  /\ Head(job[p].todo) \in Layers /\ Head(job[p].todo) \in ToSet(job[p].todo)
           /\ ToSet(job[p].todo) = {Head(job[p].todo)} \cup ToSet(job'[p].todo)
           /\ job'[p].kind = job[p].kind /\ job'[p].img = job[p].img
           /\ job'[p].layers = job[p].layers /\ job'[p].snap = job[p].snap
           /\ job'[p].off = 0
BY NextLayers, NextOff, HeadAndTail, SnapType DEF IndInv

LEMMA CalmFetchSkip ==
    ASSUME IndInv, NEW p \in Procs, CalmFor(p), FetchSkip(p)
    PROVE  CalmFor(p)'
<1>. DEFINE l == Head(job[p].todo)
<1>1. /\ pc[p] = "fetch" /\ pc'[p] = "fetch" /\ NextLayer(p)
      /\ job[p].todo # <<>> /\ file[l] # None
      /\ UNCHANGED <<table, file, folder, dir, con, reg>>
  BY DEF FetchSkip, Fetching, Present, store
<1>2. l \in Layers /\ file[l] = Whole
  BY <1>1, NextInLoop DEF CalmFor, StoreOK, FilesOK, Copied
<1>3. StoreOK(p)'
  <2>1. Grows(p) /\ Redone(p) = {} /\ Frozen(p) = {}
    BY <1>1, NextInLoop DEF Grows, Redone, Frozen, Untarred
  <2>2. FilesOK(Copied(p))' /\ FoldersOK(Untarred(p))'
    BY <1>1 DEF CalmFor, StoreOK, FilesOK, FoldersOK, Copied, Untarred
  <2>3. Made(p) = {}
    BY <1>1 DEF Made, Sets
  <2>. QED  BY <1>1, <2>1, <2>2, <2>3, StoreGrows DEF CalmFor
<1>4. CopyOK(p)' /\ MadeOK(p)' /\ CommitOK(p)'
  BY <1>1, NextInLoop DEF CopyOK, MadeOK, CommitOK, Sets, CommitSteps
<1>5. ImportOK(p)'
  BY <1>1, <1>2, NextInLoop DEF CalmFor, ImportOK
<1>. QED  BY <1>1, <1>3, <1>4, <1>5, NextInLoop DEF CalmFor

LEMMA CalmFetchRefused ==
    ASSUME IndInv, NEW p \in Procs, CalmFor(p), FetchRefused(p)
    PROVE  pc'[p] = "idle" /\ RestOK'
<1>1. /\ pc[p] = "fetch" /\ pc'[p] = "idle"
      /\ UNCHANGED <<table, file, folder, dir, con, reg>>
  BY DEF FetchRefused, Fetching, store, Return, Goto, IndInv, TypeOK
<1>2. /\ Made(p) = {} /\ Copied(p) = {} /\ Frozen(p) = {} /\ Untarred(p) = {}
      /\ table = job[p].snap
  BY <1>1 DEF Made, Sets, Copied, Frozen, Untarred, CalmFor
<1>. QED  BY <1>1, <1>2, StoreAtRest DEF CalmFor

LEMMA CalmFetchOpen ==
    ASSUME IndInv, NEW p \in Procs, CalmFor(p), FetchOpen(p)
    PROVE  CalmFor(p)'
<1>. DEFINE l == Head(job[p].todo)
<1>1. /\ pc[p] = "fetch" /\ pc'[p] = "copy" /\ job[p].todo # <<>>
      /\ file' = [file EXCEPT ![l] = <<>>] /\ ~Present(p)
      /\ job[p].kind \in {"download", "merge", "skopeo"}
      /\ UNCHANGED <<table, folder, dir, con, reg, job>>
  BY DEF FetchOpen, Fetching, Goto, IndInv, TypeOK
<1>2. l \in Layers /\ l \in ToSet(job[p].todo)
  BY <1>1, HeadAndTail, SnapType
<1>3. file[l] # Whole /\ file'[l] = <<>> /\ \A k \in Layers \ {l} : file'[k] = file[k]
  BY <1>1, <1>2, WholeType, NoneIn DEF Present, IndInv, TypeOK
<1>4. StoreOK(p)'
  <2>1. Grows(p) /\ Redone(p) = {} /\ Frozen(p) = {}
    BY <1>1, <1>2, <1>3 DEF Grows, Redone, Frozen, Untarred
  <2>2. FilesOK(Copied(p))' /\ FoldersOK(Untarred(p))'
    BY <1>1, <1>2, <1>3 DEF CalmFor, StoreOK, FilesOK, FoldersOK, Copied,
       Untarred
  <2>3. Made(p) = {}
    BY <1>1 DEF Made, Sets
  <2>. QED  BY <1>1, <2>1, <2>2, <2>3, StoreGrows DEF CalmFor
<1>5. CopyOK(p)'
  <2>1. job[p].off = 0
    BY <1>1 DEF CalmFor, CopyOK
  <2>2. <<>> = [k \in 1..0 |-> TRUE]
    OBVIOUS
  <2>. QED  BY <1>1, <1>3, <2>1, <2>2 DEF CopyOK
<1>6. ImportOK(p)'
  BY <1>1, <1>2, <1>3, SnapType, ToSetType DEF CalmFor, ImportOK
<1>7. MadeOK(p)' /\ CommitOK(p)'
  BY <1>1 DEF MadeOK, CommitOK, Sets, CommitSteps
<1>. QED  BY <1>1, <1>4, <1>5, <1>6, <1>7 DEF CalmFor

\* The file grows by a chunk: nobody else is at work on it.
LEMMA CalmFetchCopy ==
    ASSUME IndInv, NEW p \in Procs, CalmFor(p), FetchCopy(p)
    PROVE  CalmFor(p)'
<1>. DEFINE l == Head(job[p].todo)
            n == job[p].off + 1
            old == file[l]
            new == [k \in 1..(IF Len(old) > n THEN Len(old) ELSE n) |->
                       k = n \/ (k <= Len(old) /\ old[k])]
<1>1. /\ pc[p] = "copy" /\ pc'[p] = "copy" /\ job[p].off < Size
      /\ file' = [file EXCEPT ![l] = new]
      /\ job' = [job EXCEPT ![p].off = n]
      /\ UNCHANGED <<table, folder, dir, con, reg>>
  BY DEF FetchCopy
<1>2. /\ job[p].todo # <<>> /\ l \in Layers /\ l \in ToSet(job[p].todo)
      /\ job[p] \in Jobs /\ job[p].off \in Nat
  BY <1>1, HeadAndTail, SnapType DEF IndInv, MemoryOK, Jobs
<1>3. /\ job'[p].kind = job[p].kind /\ job'[p].img = job[p].img
      /\ job'[p].layers = job[p].layers /\ job'[p].snap = job[p].snap
      /\ job'[p].todo = job[p].todo /\ job'[p].off = n
  <2>1. job'[p] = [job[p] EXCEPT !.off = n]
    BY <1>1 DEF IndInv, TypeOK
  <2>. QED  BY <1>2, <2>1 DEF Jobs
<1>4. old = [k \in 1..job[p].off |-> TRUE]
  BY <1>1 DEF CalmFor, CopyOK
<1>5. new = [k \in 1..n |-> TRUE]
  <2>1. Len(old) = job[p].off
    BY <1>2, <1>4
  <2>2. new = [k \in 1..n |-> k = n \/ (k <= job[p].off /\ old[k])]
    BY <1>2, <2>1
  <2>3. \A k \in 1..n : (k = n \/ (k <= job[p].off /\ old[k])) = TRUE
    BY <1>2, <1>4
  <2>. QED  BY <2>2, <2>3, Zenon
<1>6. old # Whole
  <2>1. Len(old) = job[p].off
    BY <1>2, <1>4
  <2>. QED  BY <1>1, <1>2, <2>1, WholeType, ImageStoreAssumption
<1>. HIDE DEF new, old
<1>7. file'[l] = [k \in 1..n |-> TRUE] /\ \A k \in Layers \ {l} : file'[k] = file[k]
  BY <1>1, <1>2, <1>5 DEF IndInv, TypeOK
<1>8. StoreOK(p)'
  <2>1. Grows(p) /\ Redone(p) = {} /\ Frozen(p) = {}
    BY <1>1, <1>3, <1>6, <1>7 DEF Grows, Redone, Frozen, Untarred, old
  <2>2. FilesOK(Copied(p))' /\ FoldersOK(Untarred(p))'
    BY <1>1, <1>3, <1>7 DEF CalmFor, StoreOK, FilesOK, FoldersOK, Copied,
       Untarred
  <2>3. Made(p) = {}
    BY <1>1 DEF Made, Sets, IndInv, KindOK, Imports
  <2>. QED  BY <1>1, <2>1, <2>2, <2>3, StoreGrows DEF CalmFor
<1>9. CopyOK(p)'
  BY <1>1, <1>3, <1>7 DEF CopyOK
<1>10. ImportOK(p)'
  BY <1>1, <1>2, <1>3, <1>7 DEF CalmFor, ImportOK
<1>11. MadeOK(p)' /\ CommitOK(p)'
  BY <1>1, <1>3 DEF MadeOK, CommitOK, Sets, CommitSteps
<1>. QED  BY <1>1, <1>3, <1>8, <1>9, <1>10, <1>11 DEF CalmFor

LEMMA CalmFetchCopied ==
    ASSUME Calm, IndInv, NEW p \in Procs, CalmFor(p), FetchCopied(p)
    PROVE  CalmFor(p)'
<1>. DEFINE l == Head(job[p].todo)
<1>1. /\ pc[p] = "copy" /\ pc'[p] = "fetch" /\ NextLayer(p)
      /\ job[p].todo # <<>> /\ job[p].off = Size
      /\ UNCHANGED <<table, file, folder, dir, con, reg>>
  BY DEF Calm, FetchCopied, Goto, store, IndInv, TypeOK, MemoryOK
<1>2. l \in Layers /\ file[l] = Whole
  BY <1>1, NextInLoop DEF CalmFor, CopyOK, Whole
<1>3. StoreOK(p)'
  <2>1. Grows(p) /\ Redone(p) = {} /\ Frozen(p) = {}
    BY <1>1, NextInLoop DEF Grows, Redone, Frozen, Untarred
  <2>2. FilesOK(Copied(p))' /\ FoldersOK(Untarred(p))'
    BY <1>1, <1>2 DEF CalmFor, StoreOK, FilesOK, FoldersOK, Copied, Untarred
  <2>3. Made(p) = {}
    BY <1>1 DEF Made, Sets, IndInv, KindOK, Imports
  <2>. QED  BY <1>1, <2>1, <2>2, <2>3, StoreGrows DEF CalmFor
<1>4. CopyOK(p)' /\ MadeOK(p)' /\ CommitOK(p)'
  BY <1>1, NextInLoop DEF CopyOK, MadeOK, CommitOK, Sets, CommitSteps
<1>5. ImportOK(p)'
  BY <1>1, <1>2, NextInLoop DEF CalmFor, ImportOK
<1>. QED  BY <1>1, <1>3, <1>4, <1>5, NextInLoop DEF CalmFor

LEMMA CalmFetchWhole ==
    ASSUME IndInv, NEW p \in Procs, CalmFor(p), FetchRename(p) \/ FetchSquash(p)
    PROVE  CalmFor(p)'
<1>. DEFINE l == Head(job[p].todo)
<1>1. /\ pc[p] = "fetch" /\ pc'[p] = "fetch" /\ NextLayer(p)
      /\ job[p].todo # <<>>
      /\ file' = [file EXCEPT ![l] = Whole]
      /\ UNCHANGED <<table, folder, dir, con, reg>>
  BY DEF FetchRename, FetchSquash, Fetching
<1>2. /\ l \in Layers /\ file'[l] = Whole
      /\ \A k \in Layers \ {l} : file'[k] = file[k]
  BY <1>1, NextInLoop DEF IndInv, TypeOK
<1>3. StoreOK(p)'
  <2>1. Grows(p) /\ Redone(p) = {} /\ Frozen(p) = {}
    BY <1>1, <1>2, NextInLoop DEF Grows, Redone, Frozen, Untarred
  <2>2. FilesOK(Copied(p))' /\ FoldersOK(Untarred(p))'
    BY <1>1, <1>2 DEF CalmFor, StoreOK, FilesOK, FoldersOK, Copied, Untarred
  <2>3. Made(p) = {}
    BY <1>1 DEF Made, Sets
  <2>. QED  BY <1>1, <2>1, <2>2, <2>3, StoreGrows DEF CalmFor
<1>4. CopyOK(p)' /\ MadeOK(p)' /\ CommitOK(p)'
  BY <1>1, NextInLoop DEF CopyOK, MadeOK, CommitOK, Sets, CommitSteps
<1>5. ImportOK(p)'
  <2>1. ToSet(job[p].layers) \subseteq Layers
    BY SnapType, ToSetType
  <2>2. /\ ToSet(job[p].todo) = {l} \cup ToSet(job'[p].todo)
        /\ job'[p].kind = job[p].kind /\ job'[p].layers = job[p].layers
    BY <1>1, NextInLoop
  <2>3. /\ ToSet(job[p].todo) \subseteq ToSet(job[p].layers)
        /\ \A x \in ToSet(job[p].layers) : file[x] = Whole \/ x \in ToSet(job[p].todo)
    BY <1>1 DEF CalmFor, ImportOK
  <2>4. \A x \in ToSet(job[p].layers) : file'[x] = Whole \/ x \in ToSet(job'[p].todo)
    BY <1>2, <2>1, <2>2, <2>3
  <2>. QED  BY <1>1, <2>2, <2>3, <2>4 DEF CalmFor, ImportOK
<1>. QED  BY <1>1, <1>3, <1>4, <1>5, NextInLoop DEF CalmFor

\* A load returns if its copy of the table has the name; any other command
\* goes on with the folder of the image, which add completes.
LEMMA CalmFetchDone ==
    ASSUME IndInv, NEW p \in Procs, CalmFor(p), FetchDone(p)
    PROVE  IF pc'[p] = "idle" THEN RestOK' ELSE CalmFor(p)'
<1>. DEFINE i == job[p].img
            k == job[p].kind
<1>1. /\ pc[p] = "fetch" /\ job[p].todo = <<>> /\ i \in Images
      /\ k \in Imports \cup {"merge"} /\ table = job[p].snap
      /\ UNCHANGED <<table, file, folder, con, reg>>
  BY SnapType DEF FetchDone, IndInv, KindOK, CalmFor, Jobs
<1>2. ToSet(<<>>) = {}
  BY DEF ToSet
<1>3. \A l \in ToSet(job[p].layers) : file[l] = Whole
  BY <1>1, <1>2 DEF CalmFor, ImportOK
<1>4. /\ Made(p) = {} /\ Copied(p) = {} /\ Frozen(p) = {} /\ Untarred(p) = {}
      /\ Redone(p) = {}
  BY <1>1 DEF Made, Sets, Copied, Frozen, Untarred, Redone
<1>5. CASE Return(p) /\ UNCHANGED dir
  <2>1. pc'[p] = "idle"
    BY <1>5 DEF Return, Goto, IndInv, TypeOK
  <2>. QED  BY <1>1, <1>4, <1>5, <2>1, StoreAtRest DEF CalmFor
<1>6. ASSUME ~(Return(p) /\ UNCHANGED dir)
      PROVE  CalmFor(p)' /\ pc'[p] # "idle"
  <2>1. /\ pc' = [pc EXCEPT ![p] = IF k = "merge" THEN "merge" ELSE "extract"]
        /\ job' = [job EXCEPT ![p].todo = job[p].layers]
        /\ IF k = "add" THEN dir' = [dir EXCEPT ![Folder[i]] = "set"]
                        ELSE MakeDir(Folder[i])
    BY <1>6 DEF FetchDone, Goto
  <2>2. pc'[p] = IF k = "merge" THEN "merge" ELSE "extract"
    BY <2>1 DEF IndInv, TypeOK
  <2>3. /\ job'[p].kind = k /\ job'[p].img = i
        /\ job'[p].layers = job[p].layers /\ job'[p].snap = job[p].snap
        /\ job'[p].todo = job[p].layers
    <3>1. job'[p] = [job[p] EXCEPT !.todo = job[p].layers]
      BY <2>1 DEF IndInv, TypeOK
    <3>. QED  BY <3>1, SnapType DEF Jobs
  <2>4. /\ k = "add" => dir'[Folder[i]] = "set"
        /\ k # "add" => (dir'[Folder[i]] = "set" <=> dir[Folder[i]] = "set")
        /\ \A f \in Folders \ {Folder[i]} : dir'[f] = "set" <=> dir[f] = "set"
    BY <1>1, <2>1, FolderType DEF MakeDir, IndInv, TypeOK
  <2>5. k = "add" => Made(p)' = {n \in Images : Folder[n] = Folder[i]}
    BY <1>1, <2>2, <2>3 DEF Made, Sets
  <2>6. StoreOK(p)'
    <3>1. Grows(p)
      BY <1>1, <2>3, <2>4 DEF Grows
    <3>2. FilesOK(Copied(p))' /\ FoldersOK(Untarred(p))'
      BY <1>1, <1>4 DEF CalmFor, StoreOK, FilesOK, FoldersOK
    <3>3. \A n \in Images : dir'[Folder[n]] = "set" =>
              n \in Made(p)' \/ (dir[Folder[n]] = "set" /\ n \notin Made(p))
      BY <1>4, <2>4, <2>5, FolderType
    <3>. QED  BY <1>1, <1>4, <3>1, <3>2, <3>3, StoreGrows DEF CalmFor
  <2>7. CopyOK(p)' /\ MadeOK(p)' /\ CommitOK(p)'
    BY <2>2, <2>3, <2>4 DEF CopyOK, MadeOK, CommitOK, Sets, CommitSteps
  <2>8. ImportOK(p)'
    BY <1>1, <1>3, <2>2, <2>3 DEF CalmFor, ImportOK, Imports
  <2>. QED  BY <1>1, <2>2, <2>3, <2>6, <2>7, <2>8 DEF CalmFor
<1>. QED  BY <1>5, <1>6

-----------------------------------------------------------------------------
(* The layer folders *)

LEMMA CalmExtractSkip ==
    ASSUME IndInv, NEW p \in Procs, CalmFor(p), ExtractSkip(p)
    PROVE  CalmFor(p)'
<1>. DEFINE l == Head(job[p].todo)
<1>1. /\ pc[p] = "extract" /\ pc'[p] = "extract" /\ NextLayer(p)
      /\ job[p].todo # <<>> /\ job[p].kind = "add" /\ folder[l] # "none"
      /\ UNCHANGED <<table, file, folder, dir, con, reg>>
  BY DEF ExtractSkip, Extracting, store
<1>2. l \in Layers /\ l \in ToSet(job[p].layers) /\ l \notin Squash
  BY <1>1, NextInLoop DEF CalmFor, ImportOK, Imports
<1>3. folder[l] = "whole"
  BY <1>1, <1>2 DEF IndInv, TypeOK, CalmFor, StoreOK, FoldersOK, Untarred
<1>4. StoreOK(p)'
  <2>1. Grows(p) /\ Redone(p) = {} /\ Frozen(p) = {}
    BY <1>1, NextInLoop DEF Grows, Redone, Frozen, Untarred
  <2>2. FilesOK(Copied(p))' /\ FoldersOK(Untarred(p))'
    BY <1>1 DEF CalmFor, StoreOK, FilesOK, FoldersOK, Copied, Untarred
  <2>3. Made(p)' = Made(p)
    BY <1>1, NextInLoop DEF Made, Sets
  <2>4. \A i \in Images : dir'[Folder[i]] = "set" =>
            i \in Made(p)' \/ (dir[Folder[i]] = "set" /\ i \notin Made(p))
    BY <1>1, <2>3
  <2>. QED  BY <1>1, <2>1, <2>2, <2>4, StoreGrows DEF CalmFor
<1>5. CopyOK(p)' /\ MadeOK(p)' /\ CommitOK(p)'
  BY <1>1, NextInLoop DEF CalmFor, CopyOK, MadeOK, CommitOK, Sets, CommitSteps
<1>6. ImportOK(p)'
  BY <1>1, <1>3, NextInLoop DEF CalmFor, ImportOK
<1>. QED  BY <1>1, <1>4, <1>5, <1>6, NextInLoop DEF CalmFor

LEMMA CalmExtractInto ==
    ASSUME IndInv, NEW p \in Procs, CalmFor(p), ExtractInto(p)
    PROVE  CalmFor(p)'
<1>. DEFINE l == Head(job[p].todo)
            k == job[p].kind
<1>1. /\ pc[p] = "extract" /\ pc'[p] = "untar" /\ job[p].todo # <<>>
      /\ folder' = [folder EXCEPT ![l] =
                       IF @ = "none" \/ k = "reset" THEN "part" ELSE @]
      /\ UNCHANGED <<table, file, dir, con, reg, job>>
  BY DEF ExtractInto, Extracting, Goto, IndInv, TypeOK
<1>2. l \in Layers /\ l \in ToSet(job[p].todo)
  BY <1>1, HeadAndTail, SnapType
<1>3. /\ k # "reset" /\ folder[l] = "whole" => folder'[l] = "whole"
      /\ \A m \in Layers \ {l} : folder'[m] = folder[m]
  BY <1>1, <1>2 DEF IndInv, TypeOK
<1>4. Untarred(p)' = {l} /\ Redone(p) = {} /\ Frozen(p) = {} /\ Frozen(p)' = {}
  BY <1>1, <1>2 DEF Untarred, Redone, Frozen
<1>5. FilesOK(Copied(p))' /\ FoldersOK(Untarred(p))'
  BY <1>1, <1>3, <1>4 DEF CalmFor, StoreOK, FilesOK, FoldersOK, Copied,
     Untarred
<1>6. Made(p)' = Made(p)
  BY <1>1 DEF Made, Sets
<1>7. \A i \in Images : dir'[Folder[i]] = "set" =>
            i \in Made(p)' \/ (dir[Folder[i]] = "set" /\ i \notin Made(p))
  BY <1>1, <1>6
<1>8. StoreOK(p)'
  <2>1. CASE k # "reset"
    <3>1. Grows(p)
      BY <1>1, <1>3, <2>1 DEF Grows
    <3>. QED  BY <1>1, <1>4, <1>5, <1>7, <3>1, StoreGrows DEF CalmFor
  <2>2. CASE k = "reset"
    <3>1. Redone(p)' = {l}
      BY <1>1, <1>4, <2>2 DEF Redone
    <3>2. \A i \in Images :
             job[p].snap[i] # None => ToSet(job[p].snap[i]) \subseteq Layers
      BY SnapType, ToSetType DEF Entries
    <3>3. \A c \in Ids : con[c] # None => ToSet(con[c].layers) \subseteq Layers
      BY ToSetType DEF IndInv, TypeOK, Records
    <3>4. ListedOK(job[p].snap, Redone(p))'
      BY <1>1, <1>3, <1>4, <3>1, <3>2 DEF CalmFor, StoreOK, ListedOK
    <3>5. FoldersListed(job[p].snap, Made(p))'
      BY <1>1, <1>6 DEF CalmFor, StoreOK, FoldersListed
    <3>6. ContainersOK(Redone(p), Frozen(p))'
      BY <1>1, <1>3, <1>4, <3>1, <3>3 DEF CalmFor, StoreOK, ContainersOK
    <3>. QED  BY <1>5, <3>4, <3>5, <3>6 DEF StoreOK
  <2>. QED  BY <2>1, <2>2
<1>9. ImportOK(p)'
  <2>1. \A m \in ToSet(job[p].layers) : m \in Layers
    BY SnapType, ToSetType
  <2>. QED  BY <1>1, <1>2, <1>3, <2>1 DEF CalmFor, ImportOK
<1>10. CopyOK(p)' /\ MadeOK(p)' /\ CommitOK(p)'
  BY <1>1 DEF CalmFor, CopyOK, MadeOK, CommitOK, Sets, CommitSteps
<1>. QED  BY <1>1, <1>8, <1>9, <1>10 DEF CalmFor

LEMMA CalmLayerDone ==
    ASSUME IndInv, NEW p \in Procs, CalmFor(p), pc[p] = "untar", LayerDone(p),
           UNCHANGED <<table, file, dir, con, reg>>
    PROVE  CalmFor(p)'
<1>. DEFINE l == Head(job[p].todo)
<1>1. /\ pc'[p] = "extract" /\ NextLayer(p) /\ job[p].todo # <<>>
      /\ folder' = [folder EXCEPT ![l] = "whole"]
  BY DEF LayerDone, Goto, IndInv, TypeOK, MemoryOK
<1>2. /\ l \in Layers /\ folder'[l] = "whole"
      /\ \A m \in Layers \ {l} : folder'[m] = folder[m]
  BY <1>1, NextInLoop DEF IndInv, TypeOK
<1>3. Untarred(p) = {l} /\ Untarred(p)' = {} /\ Redone(p)' = {}
      /\ Redone(p) \subseteq {l} /\ Frozen(p) = {} /\ Frozen(p)' = {}
  BY <1>1, <1>2 DEF Untarred, Redone, Frozen
<1>4. FilesOK(Copied(p))' /\ FoldersOK(Untarred(p))'
  BY <1>1, <1>2, <1>3 DEF CalmFor, StoreOK, FilesOK, FoldersOK, Copied
<1>5. Made(p)' = Made(p)
  BY <1>1, NextInLoop DEF Made, Sets
<1>6. StoreOK(p)'
  <2>1. \A i \in Images :
           job[p].snap[i] # None => ToSet(job[p].snap[i]) \subseteq Layers
    BY SnapType, ToSetType DEF Entries
  <2>2. \A c \in Ids : con[c] # None => ToSet(con[c].layers) \subseteq Layers
    BY ToSetType DEF IndInv, TypeOK, Records
  <2>3. ListedOK(job[p].snap, Redone(p))'
    BY <1>1, <1>2, <1>3, <2>1, NextInLoop DEF CalmFor, StoreOK, ListedOK
  <2>4. FoldersListed(job[p].snap, Made(p))'
    BY <1>1, <1>5, NextInLoop DEF CalmFor, StoreOK, FoldersListed
  <2>5. ContainersOK(Redone(p), Frozen(p))'
    BY <1>1, <1>2, <1>3, <2>2 DEF CalmFor, StoreOK, ContainersOK
  <2>. QED  BY <1>4, <2>3, <2>4, <2>5 DEF StoreOK
<1>7. ImportOK(p)'
  <2>1. \A m \in ToSet(job[p].layers) : m \in Layers
    BY SnapType, ToSetType
  <2>. QED  BY <1>1, <1>2, <2>1, NextInLoop DEF CalmFor, ImportOK
<1>8. CopyOK(p)' /\ MadeOK(p)' /\ CommitOK(p)'
  BY <1>1, NextInLoop DEF CalmFor, CopyOK, MadeOK, CommitOK, Sets, CommitSteps
<1>. QED  BY <1>1, <1>6, <1>7, <1>8, NextInLoop DEF CalmFor

\* Only the reset of a squash file fails: an import has made its files whole.
LEMMA CalmUntar ==
    ASSUME IndInv, NEW p \in Procs, CalmFor(p), Untar(p) \/ Unsquash(p)
    PROVE  IF pc'[p] = "idle" THEN RestOK' ELSE CalmFor(p)'
<1>. DEFINE l == Head(job[p].todo)
            k == job[p].kind
<1>1. /\ pc[p] = "untar" /\ UNCHANGED <<table, file, dir, con, reg>>
      /\ LayerDone(p) \/ (Return(p) /\ UNCHANGED folder)
      /\ ~LayerDone(p) =>
            file[l] # Whole \/ (k # "singularity" /\ l \in Squash)
  BY DEF Untar, Unsquash
<1>2. CASE LayerDone(p)
  <2>1. pc'[p] = "extract"
    BY <1>2 DEF LayerDone, Goto, IndInv, TypeOK
  <2>. QED  BY <1>1, <1>2, <2>1, CalmLayerDone
<1>3. CASE ~LayerDone(p)
  <2>1. job[p].todo # <<>> /\ k \in Imports \cup {"reset"} /\ job[p].img \in Images
    BY <1>1, SnapType DEF IndInv, KindOK, MemoryOK, CalmFor, Jobs
  <2>2. l \in Layers /\ l \in ToSet(job[p].todo)
    BY <2>1, HeadAndTail, SnapType
  <2>3. k = "reset"
    BY <1>1, <1>3, <2>1, <2>2 DEF CalmFor, ImportOK
  <2>4. file[l] = Whole
    BY <1>1, <2>1, <2>2, <2>3 DEF CalmFor, ImportOK, StoreOK, ListedOK
  <2>5. Untarred(p) \subseteq Squash
    BY <1>1, <1>3, <2>3, <2>4 DEF Untarred
  <2>6. Made(p) = {} /\ Copied(p) = {} /\ Frozen(p) = {}
    BY <1>1, <2>3 DEF Made, Sets, Copied, Frozen
  <2>7. pc'[p] = "idle" /\ table' = job[p].snap
    BY <1>1, <1>3 DEF Return, Goto, IndInv, TypeOK, CalmFor
  <2>. QED  BY <1>1, <1>3, <2>5, <2>6, <2>7, StoreAtRest DEF CalmFor
<1>. QED  BY <1>2, <1>3

LEMMA CalmExtractDone ==
    ASSUME IndInv, NEW p \in Procs, CalmFor(p), ExtractDone(p)
    PROVE  IF pc'[p] = "idle" THEN RestOK' ELSE CalmFor(p)'
<1>. DEFINE k == job[p].kind
<1>1. /\ pc[p] = "extract" /\ job[p].todo = <<>>
      /\ k \in Imports \cup {"reset"}
      /\ UNCHANGED <<table, file, folder, dir, con, reg>>
  BY DEF ExtractDone, store, IndInv, KindOK
<1>2. ToSet(<<>>) = {}
  BY DEF ToSet
<1>3. /\ Copied(p) = {} /\ Frozen(p) = {} /\ Untarred(p) = {} /\ Redone(p) = {}
      /\ table = job[p].snap
  BY <1>1 DEF Copied, Frozen, Untarred, Redone, CalmFor
<1>4. CASE k = "reset"
  <2>1. pc'[p] = "idle" /\ Made(p) = {}
    BY <1>1, <1>4 DEF ExtractDone, Return, Goto, Made, Sets, IndInv, TypeOK
  <2>. QED  BY <1>1, <1>3, <2>1, StoreAtRest DEF CalmFor
<1>5. CASE k # "reset"
  <2>1. UNCHANGED job /\ pc'[p] = (IF k = "add" THEN "table" ELSE "setting")
    BY <1>5 DEF ExtractDone, Goto, IndInv, TypeOK
  <2>2. \A l \in ToSet(job[p].layers) : file[l] = Whole /\ folder[l] = "whole"
    BY <1>1, <1>2, <1>5 DEF CalmFor, ImportOK
  <2>3. Made(p)' = Made(p)
    BY <1>1, <2>1 DEF Made, Sets
  <2>4. StoreOK(p)'
    <3>1. Grows(p)
      BY <1>1, <2>1 DEF Grows
    <3>2. FilesOK(Copied(p))' /\ FoldersOK(Untarred(p))'
      BY <1>1, <1>3 DEF CalmFor, StoreOK, FilesOK, FoldersOK
    <3>3. \A n \in Images : dir'[Folder[n]] = "set" =>
              n \in Made(p)' \/ (dir[Folder[n]] = "set" /\ n \notin Made(p))
      BY <1>1, <2>3
    <3>. QED  BY <1>1, <1>3, <3>1, <3>2, <3>3, StoreGrows DEF CalmFor
  <2>5. CopyOK(p)' /\ CommitOK(p)'
    BY <2>1 DEF CopyOK, CommitOK, CommitSteps
  <2>6. MadeOK(p)'
    BY <1>1, <2>1, <2>2 DEF CalmFor, MadeOK, Sets, Usable
  <2>7. ImportOK(p)'
    BY <1>1, <2>1, <2>2 DEF CalmFor, ImportOK
  <2>. QED  BY <1>1, <2>1, <2>4, <2>5, <2>6, <2>7 DEF CalmFor
<1>. QED  BY <1>4, <1>5

LEMMA CalmSetting ==
    ASSUME IndInv, NEW p \in Procs, CalmFor(p), Setting(p)
    PROVE  CalmFor(p)'
<1>. DEFINE i == job[p].img
            k == job[p].kind
<1>1. /\ pc[p] = "setting" /\ i \in Images
      /\ k \in (Imports \cup {"merge"}) \ {"add"}
      /\ dir' = [dir EXCEPT ![Folder[i]] = "set"]
      /\ pc'[p] = (IF k = "merge" THEN "mergeFolder" ELSE "table")
      /\ UNCHANGED <<table, file, folder, con, reg, job>>
  BY SnapType DEF Setting, Goto, IndInv, TypeOK, KindOK, Jobs
<1>2. /\ dir'[Folder[i]] = "set"
      /\ \A f \in Folders \ {Folder[i]} : dir'[f] = dir[f]
  BY <1>1, FolderType DEF IndInv, TypeOK
<1>3. /\ Made(p)' = {n \in Images : Folder[n] = Folder[i]}
      /\ Redone(p) = {} /\ Frozen(p) = {}
  BY <1>1 DEF Made, Sets, Redone, Untarred, Frozen
<1>4. StoreOK(p)'
  <2>1. Grows(p)
    BY <1>1, <1>2 DEF Grows
  <2>2. FilesOK(Copied(p))' /\ FoldersOK(Untarred(p))'
    BY <1>1 DEF CalmFor, StoreOK, FilesOK, FoldersOK, Copied, Untarred
  <2>3. Made(p) = {}
    BY <1>1 DEF Made, Sets
  <2>4. \A n \in Images : dir'[Folder[n]] = "set" =>
            n \in Made(p)' \/ (dir[Folder[n]] = "set" /\ n \notin Made(p))
    BY <1>2, <1>3, <2>3, FolderType
  <2>. QED  BY <1>1, <1>3, <2>1, <2>2, <2>4, StoreGrows DEF CalmFor
<1>5. CopyOK(p)' /\ CommitOK(p)'
  BY <1>1 DEF CopyOK, CommitOK, CommitSteps
<1>6. MadeOK(p)'
  BY <1>1, <1>2 DEF CalmFor, ImportOK, MadeOK, Usable
<1>7. ImportOK(p)'
  BY <1>1 DEF CalmFor, ImportOK
<1>. QED  BY <1>1, <1>4, <1>5, <1>6, <1>7 DEF CalmFor

-----------------------------------------------------------------------------
(* Merge, and the table *)

LEMMA CalmMergeLayers ==
    ASSUME IndInv, NEW p \in Procs, CalmFor(p), MergeLayers(p)
    PROVE  IF pc'[p] = "idle" THEN RestOK' ELSE CalmFor(p)'
<1>1. /\ pc[p] = "merge" /\ job[p].kind = "merge" /\ table = job[p].snap
      /\ UNCHANGED <<table, file, folder, con, reg>>
  BY DEF MergeLayers, IndInv, KindOK, CalmFor
<1>2. \A f \in Folders : dir'[f] = "set" <=> dir[f] = "set"
  BY DEF MergeLayers, MakeDir, IndInv, TypeOK
<1>3. /\ Made(p) = {} /\ Copied(p) = {} /\ Frozen(p) = {} /\ Untarred(p) = {}
      /\ Redone(p) = {}
  BY <1>1 DEF Made, Sets, Copied, Frozen, Untarred, Redone
<1>4. CASE Return(p)
  <2>1. pc'[p] = "idle"
    BY <1>4 DEF Return, Goto, IndInv, TypeOK
  <2>. QED  BY <1>1, <1>2, <1>3, <2>1, StoreAtRest DEF CalmFor
<1>5. CASE ~Return(p)
  <2>1. UNCHANGED job /\ pc'[p] = "setting"
    BY <1>5 DEF MergeLayers, Goto, IndInv, TypeOK
  <2>2. StoreOK(p)'
    <3>1. Grows(p)
      BY <1>1, <1>2, <2>1 DEF Grows
    <3>2. FilesOK(Copied(p))' /\ FoldersOK(Untarred(p))'
      BY <1>1, <1>3 DEF CalmFor, StoreOK, FilesOK, FoldersOK
    <3>. QED  BY <1>1, <1>2, <1>3, <3>1, <3>2, StoreGrows,
                 FolderType DEF CalmFor
  <2>3. CopyOK(p)' /\ ImportOK(p)' /\ MadeOK(p)' /\ CommitOK(p)'
    BY <1>1, <2>1 DEF CopyOK, ImportOK, MadeOK, CommitOK, Sets, CommitSteps,
       Imports
  <2>. QED  BY <1>1, <2>1, <2>2, <2>3 DEF CalmFor
<1>. QED  BY <1>4, <1>5

LEMMA CalmMergeFolder ==
    ASSUME IndInv, NEW p \in Procs, CalmFor(p), MergeFolder(p)
    PROVE  CalmFor(p)'
<1>1. PICK l \in Layers :
         /\ folder' = [folder EXCEPT ![l] = "whole"]
         /\ job' = [job EXCEPT ![p].layers = <<l>>]
  BY DEF MergeFolder
<1>2. /\ pc[p] = "mergeFolder" /\ pc'[p] = "mergeFile"
      /\ job[p].kind = "merge" /\ job[p].img \in Images
      /\ UNCHANGED <<table, file, dir, con, reg>>
  BY DEF MergeFolder, Goto, IndInv, TypeOK, KindOK, MemoryOK
<1>3. /\ job'[p].kind = "merge" /\ job'[p].img = job[p].img
      /\ job'[p].snap = job[p].snap /\ job'[p].layers = <<l>>
  <2>1. job'[p] = [job[p] EXCEPT !.layers = <<l>>]
    BY <1>1 DEF IndInv, TypeOK
  <2>. QED  BY <1>2, <2>1, SnapType DEF Jobs
<1>4. folder'[l] = "whole" /\ \A m \in Layers \ {l} : folder'[m] = folder[m]
  BY <1>1 DEF IndInv, TypeOK
<1>5. ToSet(<<l>>) = {l} /\ Head(<<l>>) = l
  BY DEF ToSet
<1>6. StoreOK(p)'
  <2>1. Grows(p) /\ Redone(p) = {} /\ Frozen(p) = {}
    BY <1>2, <1>3, <1>4 DEF Grows, Redone, Frozen, Untarred
  <2>2. FilesOK(Copied(p))' /\ FoldersOK(Untarred(p))'
    BY <1>2, <1>4 DEF CalmFor, StoreOK, FilesOK, FoldersOK, Copied, Untarred
  <2>3. Made(p)' = Made(p)
    BY <1>2, <1>3 DEF Made, Sets
  <2>4. \A n \in Images : dir'[Folder[n]] = "set" =>
            n \in Made(p)' \/ (dir[Folder[n]] = "set" /\ n \notin Made(p))
    BY <1>2, <2>3
  <2>. QED  BY <1>2, <2>1, <2>2, <2>4, StoreGrows DEF CalmFor
<1>7. MadeOK(p)'
  BY <1>2, <1>3, <1>4, <1>5 DEF CalmFor, MadeOK, Sets
<1>8. CopyOK(p)' /\ ImportOK(p)' /\ CommitOK(p)'
  BY <1>2, <1>3 DEF CopyOK, ImportOK, CommitOK, CommitSteps, Imports
<1>. QED  BY <1>2, <1>3, <1>6, <1>7, <1>8 DEF CalmFor

LEMMA CalmMergeFile ==
    ASSUME IndInv, NEW p \in Procs, CalmFor(p), MergeFile(p)
    PROVE  CalmFor(p)'
<1>. DEFINE l == Head(job[p].layers)
<1>1. /\ pc[p] = "mergeFile" /\ pc'[p] = "table" /\ job[p].kind = "merge"
      /\ file' = [file EXCEPT ![l] = Whole]
      /\ UNCHANGED <<table, folder, dir, con, reg, job>>
  BY DEF MergeFile, Goto, IndInv, TypeOK, KindOK
<1>2. \A m \in Layers : file'[m] = IF m = l THEN Whole ELSE file[m]
  BY <1>1 DEF IndInv, TypeOK
<1>3. StoreOK(p)'
  <2>1. Grows(p) /\ Redone(p) = {} /\ Frozen(p) = {}
    BY <1>1, <1>2 DEF Grows, Redone, Frozen, Untarred
  <2>2. FilesOK(Copied(p))' /\ FoldersOK(Untarred(p))'
    BY <1>1, <1>2 DEF CalmFor, StoreOK, FilesOK, FoldersOK, Copied, Untarred
  <2>3. Made(p)' = Made(p)
    BY <1>1 DEF Made, Sets
  <2>4. \A n \in Images : dir'[Folder[n]] = "set" =>
            n \in Made(p)' \/ (dir[Folder[n]] = "set" /\ n \notin Made(p))
    BY <1>1, <2>3
  <2>. QED  BY <1>1, <2>1, <2>2, <2>4, StoreGrows DEF CalmFor
<1>4. MadeOK(p)'
  <2>1. \A m \in ToSet(job[p].layers) : m \in Layers
    BY SnapType, ToSetType
  <2>. QED  BY <1>1, <1>2, <2>1 DEF CalmFor, MadeOK, Sets, Usable
<1>5. CopyOK(p)' /\ ImportOK(p)' /\ CommitOK(p)'
  BY <1>1 DEF CopyOK, ImportOK, CommitOK, CommitSteps, Imports
<1>. QED  BY <1>1, <1>3, <1>4, <1>5 DEF CalmFor

LEMMA CalmTableTruncate ==
    ASSUME IndInv, NEW p \in Procs, CalmFor(p), TableTruncate(p)
    PROVE  CalmFor(p)'
<1>1. /\ pc[p] = "table" /\ pc'[p] = "write" /\ table' = Torn
      /\ UNCHANGED <<file, folder, dir, con, reg, job>>
  BY DEF TableTruncate, Goto, IndInv, TypeOK
<1>2. StoreOK(p)'
  <2>1. Grows(p) /\ Redone(p) = {} /\ Frozen(p) = {}
    BY <1>1 DEF Grows, Redone, Frozen, Untarred
  <2>2. FilesOK(Copied(p))' /\ FoldersOK(Untarred(p))'
    BY <1>1 DEF CalmFor, StoreOK, FilesOK, FoldersOK, Copied, Untarred
  <2>3. Made(p)' = Made(p)
    BY <1>1 DEF Made, Sets
  <2>4. \A n \in Images : dir'[Folder[n]] = "set" =>
            n \in Made(p)' \/ (dir[Folder[n]] = "set" /\ n \notin Made(p))
    BY <1>1, <2>3
  <2>. QED  BY <1>1, <2>1, <2>2, <2>4, StoreGrows DEF CalmFor
<1>3. CopyOK(p)' /\ ImportOK(p)' /\ MadeOK(p)' /\ CommitOK(p)'
  BY <1>1 DEF CalmFor, CopyOK, ImportOK, MadeOK, CommitOK, Sets, CommitSteps,
     Usable
<1>. QED  BY <1>1, <1>2, <1>3 DEF CalmFor

\* The image whose folder is complete joins the table, and nothing else changes.
LEMMA CalmTableWrite ==
    ASSUME Calm, IndInv, NEW p \in Procs, CalmFor(p), TableWrite(p)
    PROVE  pc'[p] = "idle" /\ RestOK'
<1>. DEFINE n == job[p].img
            layers == job[p].layers
<1>1. /\ pc[p] = "write" /\ pc'[p] = "idle" /\ n \in Images
      /\ UNCHANGED <<file, folder, dir, con, reg>>
  BY DEF TableWrite, Return, Goto, IndInv, TypeOK, MemoryOK
<1>2. job[p].kind \notin {"delete", "permanent"}
  BY <1>1 DEF Calm, IndInv, KindOK
<1>3. table' = [job[p].snap EXCEPT ![n] = layers]
  BY <1>2 DEF TableWrite
<1>4. /\ \A i \in Images \ {n} : table'[i] = job[p].snap[i]
      /\ table'[n] = layers /\ layers # None
      /\ table' \in [Images -> Entries]
  BY <1>1, <1>3, SnapType, NoneIn DEF Entries
<1>5. table' # Torn
  BY <1>4, ImageStoreAssumption DEF Entries
<1>6. /\ Copied(p) = {} /\ Frozen(p) = {} /\ Untarred(p) = {} /\ Redone(p) = {}
      /\ Made(p) = {n}
  BY <1>1 DEF Calm, Made, Sets, Copied, Frozen, Untarred, Redone
<1>7. dir[Folder[n]] = "set" /\ \A l \in ToSet(layers) : Usable(l)
  BY <1>1 DEF CalmFor, MadeOK, Sets
<1>8. ListedOK(table, {})'
  BY <1>1, <1>4, <1>6, <1>7 DEF CalmFor, StoreOK, ListedOK, Usable
<1>9. FoldersListed(table, {})'
  BY <1>1, <1>4, <1>6 DEF CalmFor, StoreOK, FoldersListed
<1>10. FilesOK({})' /\ FoldersOK({})'
  BY <1>1, <1>6 DEF CalmFor, StoreOK, FilesOK, FoldersOK
<1>11. ContainersOK({}, {})'
  BY <1>1, <1>6 DEF CalmFor, StoreOK, ContainersOK
<1>. QED  BY <1>1, <1>5, <1>8, <1>9, <1>10, <1>11 DEF RestOK

-----------------------------------------------------------------------------
(* Commit *)

LEMMA CommitAt ==
    ASSUME IndInv, NEW p \in Procs, pc[p] \in CommitSteps
    PROVE  /\ job[p].kind = "commit" /\ job[p].img \in Images
           /\ job[p].cid \in Ids
           /\ con[job[p].cid] \in Records /\ con[job[p].cid] # None
           /\ reg[job[p].cid] \in Folders
           /\ Redone(p) = {} /\ Copied(p) = {} /\ Untarred(p) = {}
<1>1. /\ job[p].kind = "commit" /\ job[p].img \in Images /\ job[p].cid \in Ids
      /\ con[job[p].cid] # None /\ reg[job[p].cid] # None
  BY DEF IndInv, KindOK, MemoryOK, CommitSteps
<1>2. con[job[p].cid] \in Records /\ reg[job[p].cid] \in Folders
  BY <1>1 DEF IndInv, TypeOK
<1>. QED  BY <1>1, <1>2 DEF Redone, Copied, Untarred, CommitSteps

LEMMA AppendSet ==
    ASSUME NEW s \in Seq(Layers), NEW l \in Layers
    PROVE  Append(s, l) \in Seq(Layers) /\ ToSet(Append(s, l)) = ToSet(s) \cup {l}
<1>1. /\ Append(s, l) \in Seq(Layers) /\ Len(Append(s, l)) = Len(s) + 1
      /\ Len(s) \in Nat
      /\ DOMAIN Append(s, l) = 1..(Len(s) + 1) /\ DOMAIN s = 1..Len(s)
      /\ Append(s, l)[Len(s) + 1] = l
      /\ \A k \in 1..Len(s) : Append(s, l)[k] = s[k]
  OBVIOUS
<1>2. ASSUME NEW m \in ToSet(Append(s, l)) PROVE m \in ToSet(s) \cup {l}
  <2>1. PICK k \in 1..(Len(s) + 1) : m = Append(s, l)[k]
    BY <1>1 DEF ToSet
  <2>2. k = Len(s) + 1 \/ k \in 1..Len(s)
    BY <1>1
  <2>. QED  BY <1>1, <2>1, <2>2 DEF ToSet
<1>3. ASSUME NEW m \in ToSet(s) PROVE m \in ToSet(Append(s, l))
  <2>1. PICK k \in 1..Len(s) : m = s[k]
    BY <1>1 DEF ToSet
  <2>2. k \in 1..(Len(s) + 1)
    BY <1>1
  <2>. QED  BY <1>1, <2>1, <2>2 DEF ToSet
<1>4. l \in ToSet(Append(s, l))
  <2>1. Len(s) + 1 \in 1..(Len(s) + 1)
    BY <1>1
  <2>. QED  BY <1>1, <2>1 DEF ToSet
<1>. QED  BY <1>1, <1>2, <1>3, <1>4

LEMMA ConcatSet ==
    ASSUME NEW s \in Seq(Layers), NEW t \in Seq(Layers)
    PROVE  s \o t \in Seq(Layers) /\ ToSet(s \o t) \subseteq ToSet(s) \cup ToSet(t)
<1>1. /\ s \o t \in Seq(Layers) /\ Len(s) \in Nat /\ Len(t) \in Nat
      /\ DOMAIN (s \o t) = 1..(Len(s) + Len(t))
      /\ DOMAIN s = 1..Len(s) /\ DOMAIN t = 1..Len(t)
      /\ \A k \in 1..(Len(s) + Len(t)) :
            (s \o t)[k] = IF k <= Len(s) THEN s[k] ELSE t[k - Len(s)]
  OBVIOUS
<1>2. ASSUME NEW m \in ToSet(s \o t) PROVE m \in ToSet(s) \cup ToSet(t)
  <2>1. PICK k \in 1..(Len(s) + Len(t)) : m = (s \o t)[k]
    BY <1>1 DEF ToSet
  <2>2. CASE k <= Len(s)
    BY <1>1, <2>1, <2>2 DEF ToSet
  <2>3. CASE ~(k <= Len(s))
    <3>1. k - Len(s) \in 1..Len(t) /\ m = t[k - Len(s)]
      BY <1>1, <2>1, <2>3
    <3>. QED  BY <1>1, <3>1 DEF ToSet
  <2>. QED  BY <2>2, <2>3
<1>. QED  BY <1>1, <1>2

\* The new layer's file is there; below it are the layers of the image that
\* the container was made from, which is listed or taken to have none.
LEMMA CalmCommitTar ==
    ASSUME IndInv, NEW p \in Procs, CalmFor(p), CommitTar(p)
    PROVE  CalmFor(p)'
<1>. DEFINE base == job[p].snap[con[job[p].cid].base]
            order(l) == IF base = None THEN <<>> ELSE Append(base, l)
<1>1. PICK l \in Layers :
         /\ file' = [file EXCEPT ![l] = Whole]
         /\ job' = [job EXCEPT ![p].layers = order(l), ![p].todo = <<l>>]
  BY DEF CommitTar, LayerOrder
<1>2. /\ pc[p] = "tar" /\ pc'[p] = "freeze"
      /\ UNCHANGED <<table, folder, dir, con, reg>>
  BY DEF CommitTar, Goto, IndInv, TypeOK
<1>3. /\ job[p].kind = "commit" /\ Redone(p) = {} /\ Copied(p) = {}
      /\ Untarred(p) = {} /\ con[job[p].cid].base \in Images
  BY <1>2, CommitAt DEF CommitSteps, Records
<1>4. /\ order(l) \in Seq(Layers)
      /\ \A m \in ToSet(order(l)) : m \in Layers /\ (m = l \/ Usable(m))
  <2>1. CASE base = None
    <3>1. order(l) = <<>>
      BY <2>1
    <3>. HIDE DEF order
    <3>2. ToSet(<<>>) = {} /\ <<>> \in Seq(Layers)
      BY DEF ToSet
    <3>. QED  BY <3>1, <3>2
  <2>2. CASE base # None
    <3>1. base \in Seq(Layers) /\ \A m \in ToSet(base) : Usable(m)
      BY <1>3, <2>2, SnapType DEF Entries, CalmFor, StoreOK, ListedOK, Usable
    <3>2. order(l) = Append(base, l)
      BY <2>2
    <3>. HIDE DEF order, base
    <3>. QED  BY <3>1, <3>2, AppendSet, ToSetType
  <2>. QED  BY <2>1, <2>2
<1>. HIDE DEF order
<1>5. /\ job'[p].kind = "commit" /\ job'[p].img = job[p].img
      /\ job'[p].snap = job[p].snap /\ job'[p].layers = order(l)
      /\ job'[p].todo = <<l>>
  <2>1. job'[p] = [job[p] EXCEPT !.layers = order(l), !.todo = <<l>>]
    BY <1>1 DEF IndInv, TypeOK
  <2>. QED  BY <1>3, <2>1, SnapType DEF Jobs
<1>6. file'[l] = Whole /\ \A m \in Layers \ {l} : file'[m] = file[m]
  BY <1>1 DEF IndInv, TypeOK
<1>7. ToSet(<<l>>) = {l} /\ Head(<<l>>) = l
  BY DEF ToSet
<1>8. StoreOK(p)'
  <2>1. Grows(p) /\ Frozen(p) = {} /\ Made(p) = {}
    BY <1>2, <1>3, <1>5, <1>6 DEF Grows, Frozen, Made, Sets
  <2>2. FilesOK(Copied(p))' /\ FoldersOK(Untarred(p))'
    BY <1>2, <1>3, <1>6 DEF CalmFor, StoreOK, FilesOK, FoldersOK
  <2>. QED  BY <1>2, <1>3, <2>1, <2>2, StoreGrows DEF CalmFor
<1>9. CommitOK(p)'
  <2>1. dir'[Folder[job'[p].img]] # "set"
    BY <1>2, <1>5 DEF CalmFor, CommitOK
  <2>3. \A m \in ToSet(order(l)) : file'[m] = Whole /\ (m = l \/ Usable(m)')
    BY <1>2, <1>4, <1>6 DEF Usable
  <2>. QED  BY <1>2, <1>5, <1>7, <2>1, <2>3 DEF CommitOK, CommitSteps
<1>10. CopyOK(p)' /\ ImportOK(p)' /\ MadeOK(p)'
  BY <1>2, <1>5 DEF CopyOK, ImportOK, MadeOK, Sets, Imports
<1>. QED  BY <1>2, <1>5, <1>8, <1>9, <1>10 DEF CalmFor

\* The steps that change the container only.
LEMMA CalmContainer ==
    ASSUME IndInv, NEW p \in Procs, CalmFor(p), pc[p] \in CommitSteps,
           NEW r \in Records, con' = [con EXCEPT ![job[p].cid] = r],
           NEW label \in CommitSteps \ {"freeze"}, pc'[p] = label,
           UNCHANGED <<table, file, reg, job>>,
           \A l \in Layers : folder'[l] = folder[l] \/ folder'[l] = "whole",
           \A f \in Folders : dir'[f] = "set" <=> dir[f] = "set",
           Made(p)' = Made(p),
           r.rw \/ label \in {"move", "copySetting", "thaw"},
           \A l \in ToSet(r.layers) : folder'[l] = "whole" \/ l \in Squash
    PROVE  StoreOK(p)'
<1>. DEFINE c == job[p].cid
<1>1. /\ c \in Ids /\ Redone(p) = {} /\ Copied(p) = {} /\ Untarred(p) = {}
      /\ Redone(p)' = {} /\ Copied(p)' = {} /\ Untarred(p)' = {}
      /\ job[p].kind = "commit"
  BY CommitAt DEF Redone, Copied, Untarred, CommitSteps
<1>2. \A i \in Images :
         job[p].snap[i] # None => ToSet(job[p].snap[i]) \subseteq Layers
  BY SnapType, ToSetType DEF Entries
<1>3. \A d \in Ids : con[d] # None => ToSet(con[d].layers) \subseteq Layers
  BY ToSetType DEF IndInv, TypeOK, Records
<1>4. ListedOK(job[p].snap, Redone(p))'
  BY <1>1, <1>2, FolderType DEF CalmFor, StoreOK, ListedOK
<1>5. FoldersListed(job[p].snap, Made(p))'
  BY <1>1, FolderType DEF CalmFor, StoreOK, FoldersListed
<1>6. FilesOK(Copied(p))' /\ FoldersOK(Untarred(p))'
  BY <1>1 DEF CalmFor, StoreOK, FilesOK, FoldersOK
<1>7. ContainersOK(Redone(p), Frozen(p))'
  <2>1. con'[c] = r /\ \A d \in Ids \ {c} : con'[d] = con[d]
    BY <1>1 DEF IndInv, TypeOK
  <2>2. \A d \in Ids : reg[d] # None => reg[d] \in Folders /\ dir[reg[d]] = "set"
    BY DEF CalmFor, StoreOK, ContainersOK, IndInv, TypeOK
  <2>3. \A d \in Ids \ {c} : d \notin Frozen(p)
    BY DEF Frozen
  <2>4. r.rw \/ c \in Frozen(p)'
    BY <1>1 DEF Frozen
  <2>5. \A d \in Ids \ {c} : con'[d] # None =>
           /\ con'[d].rw
           /\ \A l \in ToSet(con'[d].layers) : folder'[l] = "whole" \/ l \in Squash
    BY <1>1, <1>3, <2>1, <2>3 DEF CalmFor, StoreOK, ContainersOK
  <2>. QED  BY <1>1, <2>1, <2>2, <2>4, <2>5 DEF ContainersOK
<1>. QED  BY <1>4, <1>5, <1>6, <1>7 DEF StoreOK

LEMMA CalmCommitFreeze ==
    ASSUME IndInv, NEW p \in Procs, CalmFor(p), CommitFreeze(p)
    PROVE  CalmFor(p)'
<1>. DEFINE l == Head(job[p].todo)
            c == job[p].cid
            r == [con[c] EXCEPT !.rw = FALSE]
<1>1. /\ pc[p] = "freeze" /\ pc'[p] = "move" /\ job[p].todo # <<>>
      /\ folder' = [folder EXCEPT ![l] = "whole"]
      /\ con' = [con EXCEPT ![c].rw = FALSE]
      /\ UNCHANGED <<table, file, dir, reg, job>>
  BY DEF CommitFreeze, Goto, IndInv, TypeOK, MemoryOK
<1>2. c \in Ids /\ con[c] \in Records /\ con[c] # None /\ job[p].kind = "commit"
  BY <1>1, CommitAt DEF CommitSteps
<1>3. /\ r \in Records /\ r.layers = con[c].layers
      /\ con' = [con EXCEPT ![c] = r]
  BY <1>1, <1>2 DEF Records
<1>. HIDE DEF r
<1>4. /\ l \in Layers /\ folder'[l] = "whole"
      /\ \A m \in Layers \ {l} : folder'[m] = folder[m]
  BY <1>1, HeadAndTail, SnapType DEF IndInv, TypeOK
<1>5. \A m \in ToSet(r.layers) : folder'[m] = "whole" \/ m \in Squash
  <2>1. ToSet(r.layers) \subseteq Layers
    BY <1>3, ToSetType DEF Records
  <2>2. Redone(p) = {}
    BY <1>2 DEF Redone
  <2>. QED  BY <1>2, <1>3, <1>4, <2>1, <2>2 DEF CalmFor, StoreOK, ContainersOK
<1>6. StoreOK(p)'
  <2>1. Made(p) = {} /\ Made(p)' = {}
    BY <1>1, <1>2 DEF Made, Sets
  <2>. QED  BY <1>1, <1>3, <1>4, <1>5, <2>1, CalmContainer DEF CommitSteps
<1>7. CommitOK(p)'
  <2>1. \A m \in ToSet(job[p].layers) : m \in Layers
    BY SnapType, ToSetType
  <2>. QED  BY <1>1, <1>4, <2>1 DEF CalmFor, CommitOK, CommitSteps, Usable
<1>8. CopyOK(p)' /\ ImportOK(p)' /\ MadeOK(p)'
  BY <1>1, <1>2 DEF CopyOK, ImportOK, MadeOK, Sets, Imports
<1>. QED  BY <1>1, <1>6, <1>7, <1>8 DEF CalmFor

\* The layers of the container are whole in a commit as well.
LEMMA CommitLayers ==
    ASSUME IndInv, NEW p \in Procs, CalmFor(p), pc[p] \in CommitSteps
    PROVE  \A l \in ToSet(con[job[p].cid].layers) :
              folder[l] = "whole" \/ l \in Squash
BY CommitAt DEF CalmFor, StoreOK, ContainersOK

LEMMA CalmCommitMove ==
    ASSUME IndInv, NEW p \in Procs, CalmFor(p), CommitMove(p)
    PROVE  CalmFor(p)'
<1>. DEFINE c == job[p].cid
            r == [con[c] EXCEPT !.home = Folder[job[p].img]]
<1>1. /\ pc[p] = "move" /\ pc'[p] = "copySetting"
      /\ con' = [con EXCEPT ![c].home = Folder[job[p].img]]
      /\ UNCHANGED <<table, file, folder, reg, job>>
  BY DEF CommitMove, Goto, IndInv, TypeOK
<1>2. \A f \in Folders : dir'[f] = "set" <=> dir[f] = "set"
  BY DEF CommitMove, MakeDir, IndInv, TypeOK
<1>3. /\ c \in Ids /\ con[c] \in Records /\ job[p].kind = "commit"
      /\ job[p].img \in Images
  BY <1>1, CommitAt DEF CommitSteps
<1>4. /\ r \in Records /\ r.layers = con[c].layers
      /\ con' = [con EXCEPT ![c] = r]
  BY <1>1, <1>3, FolderType DEF Records
<1>. HIDE DEF r
<1>5. StoreOK(p)'
  <2>1. Made(p) = {} /\ Made(p)' = {}
    BY <1>1, <1>3 DEF Made, Sets
  <2>. QED  BY <1>1, <1>2, <1>4, <2>1, CalmContainer, CommitLayers DEF CommitSteps
<1>6. CommitOK(p)'
  BY <1>1, <1>2, <1>3, FolderType DEF CalmFor, CommitOK, CommitSteps, Usable
<1>7. CopyOK(p)' /\ ImportOK(p)' /\ MadeOK(p)'
  BY <1>1, <1>3 DEF CopyOK, ImportOK, MadeOK, Sets, Imports
<1>. QED  BY <1>1, <1>5, <1>6, <1>7 DEF CalmFor

\* It finds a setting.yml in the workspace that the registry names, and none
\* in the new one.
LEMMA CalmCommitSetting ==
    ASSUME IndInv, NEW p \in Procs, CalmFor(p), CommitSetting(p)
    PROVE  CalmFor(p)' /\ pc'[p] # "idle"
<1>. DEFINE n == job[p].img
            c == job[p].cid
<1>1. /\ pc[p] = "copySetting" /\ UNCHANGED <<table, file, folder, con, reg>>
  BY DEF CommitSetting
<1>2. /\ c \in Ids /\ reg[c] \in Folders /\ reg[c] # None /\ n \in Images
      /\ job[p].kind = "commit" /\ Redone(p) = {}
  BY <1>1, CommitAt, NoneIn DEF CommitSteps
<1>3. dir[Folder[n]] # "set" /\ dir[reg[c]] = "set"
  BY <1>1, <1>2 DEF CalmFor, CommitOK, StoreOK, ContainersOK
<1>4. /\ dir' = [dir EXCEPT ![Folder[n]] = "set"] /\ pc'[p] = "thaw"
      /\ UNCHANGED job
  BY <1>3 DEF CommitSetting, Goto, IndInv, TypeOK
<1>5. /\ dir'[Folder[n]] = "set"
      /\ \A f \in Folders \ {Folder[n]} : dir'[f] = dir[f]
  BY <1>2, <1>4, FolderType DEF IndInv, TypeOK
<1>6. StoreOK(p)'
  <2>1. /\ Grows(p) /\ Made(p) = {}
        /\ Made(p)' = {i \in Images : Folder[i] = Folder[n]}
    BY <1>1, <1>2, <1>4, <1>5 DEF Grows, Made, Sets
  <2>2. Frozen(p)' = Frozen(p)
    BY <1>1, <1>4 DEF Frozen
  <2>3. FilesOK(Copied(p))' /\ FoldersOK(Untarred(p))'
    BY <1>1, <1>4 DEF CalmFor, StoreOK, FilesOK, FoldersOK, Copied, Untarred
  <2>4. \A i \in Images : dir'[Folder[i]] = "set" =>
            i \in Made(p)' \/ (dir[Folder[i]] = "set" /\ i \notin Made(p))
    BY <1>5, <2>1, FolderType
  <2>. QED  BY <1>1, <1>2, <2>1, <2>2, <2>3, <2>4, StoreGrows DEF CalmFor
<1>7. MadeOK(p)' /\ CommitOK(p)'
  BY <1>1, <1>4, <1>5 DEF CalmFor, MadeOK, CommitOK, CommitSteps, Usable
<1>8. CopyOK(p)' /\ ImportOK(p)'
  BY <1>2, <1>4 DEF CopyOK, ImportOK, Imports
<1>. QED  BY <1>1, <1>4, <1>6, <1>7, <1>8 DEF CalmFor

LEMMA CalmCommitThaw ==
    ASSUME IndInv, NEW p \in Procs, CalmFor(p), CommitThaw(p)
    PROVE  CalmFor(p)'
<1>. DEFINE c == job[p].cid
            r == [con[c] EXCEPT !.rw = TRUE]
<1>1. /\ pc[p] = "thaw" /\ pc'[p] = "record"
      /\ con' = [con EXCEPT ![c].rw = TRUE]
      /\ UNCHANGED <<table, file, folder, dir, reg, job>>
  BY DEF CommitThaw, Goto, store, IndInv, TypeOK
<1>2. c \in Ids /\ con[c] \in Records /\ job[p].kind = "commit"
  BY <1>1, CommitAt DEF CommitSteps
<1>3. /\ r \in Records /\ r.layers = con[c].layers /\ r.rw
      /\ con' = [con EXCEPT ![c] = r]
  BY <1>1, <1>2 DEF Records
<1>. HIDE DEF r
<1>4. StoreOK(p)'
  <2>1. Made(p)' = Made(p)
    BY <1>1 DEF Made, Sets
  <2>. QED  BY <1>1, <1>3, <2>1, CalmContainer, CommitLayers DEF CommitSteps
<1>5. MadeOK(p)' /\ CommitOK(p)'
  BY <1>1, <1>2 DEF CalmFor, MadeOK, CommitOK, Sets, CommitSteps, Usable
<1>6. CopyOK(p)' /\ ImportOK(p)'
  BY <1>1, <1>2 DEF CopyOK, ImportOK, Imports
<1>. QED  BY <1>1, <1>4, <1>5, <1>6 DEF CalmFor

LEMMA CalmCommitRecord ==
    ASSUME IndInv, NEW p \in Procs, CalmFor(p), CommitRecord(p)
    PROVE  CalmFor(p)'
<1>. DEFINE c == job[p].cid
            r == [con[c] EXCEPT !.layers = job[p].todo \o @]
<1>1. /\ pc[p] = "record" /\ pc'[p] = "register"
      /\ con' = [con EXCEPT ![c].layers = job[p].todo \o @]
      /\ UNCHANGED <<table, file, folder, dir, reg, job>>
  BY DEF CommitRecord, Goto, store, IndInv, TypeOK
<1>2. /\ c \in Ids /\ con[c] \in Records /\ con[c] # None
      /\ con[c].layers \in Seq(Layers) /\ job[p].kind = "commit"
  BY <1>1, CommitAt DEF CommitSteps, Records
<1>3. /\ job[p].todo \o con[c].layers \in Seq(Layers)
      /\ \A l \in ToSet(job[p].todo \o con[c].layers) :
            folder[l] = "whole" \/ l \in Squash
  <2>1. \A l \in ToSet(job[p].todo) : folder[l] = "whole"
    BY <1>1 DEF CalmFor, CommitOK, CommitSteps
  <2>. QED  BY <1>1, <1>2, <2>1, SnapType, ConcatSet, CommitLayers DEF CommitSteps
<1>4. /\ r \in Records /\ r.layers = job[p].todo \o con[c].layers
      /\ r.rw = con[c].rw /\ con' = [con EXCEPT ![c] = r]
  BY <1>1, <1>2, <1>3 DEF Records
<1>5. r.rw
  BY <1>1, <1>2, <1>4 DEF CalmFor, StoreOK, ContainersOK, Frozen
<1>. HIDE DEF r
<1>6. StoreOK(p)'
  <2>1. Made(p)' = Made(p)
    BY <1>1 DEF Made, Sets
  <2>. QED  BY <1>1, <1>3, <1>4, <1>5, <2>1, CalmContainer DEF CommitSteps
<1>7. MadeOK(p)' /\ CommitOK(p)'
  BY <1>1, <1>2 DEF CalmFor, MadeOK, CommitOK, Sets, CommitSteps, Usable
<1>8. CopyOK(p)' /\ ImportOK(p)'
  BY <1>1, <1>2 DEF CopyOK, ImportOK, Imports
<1>. QED  BY <1>1, <1>6, <1>7, <1>8 DEF CalmFor

LEMMA CalmCommitRegister ==
    ASSUME IndInv, NEW p \in Procs, CalmFor(p), CommitRegister(p)
    PROVE  CalmFor(p)'
<1>. DEFINE c == job[p].cid
<1>1. /\ pc[p] = "register" /\ pc'[p] = "table"
      /\ reg' = [reg EXCEPT ![c] = Folder[job[p].img]]
      /\ UNCHANGED <<table, file, folder, dir, con, job>>
  BY DEF CommitRegister, Goto, store, IndInv, TypeOK
<1>2. /\ Redone(p) = {} /\ Copied(p) = {} /\ Untarred(p) = {} /\ Frozen(p) = {}
      /\ Redone(p)' = {} /\ Copied(p)' = {} /\ Untarred(p)' = {} /\ Frozen(p)' = {}
      /\ Made(p)' = Made(p) /\ job[p].kind = "commit"
  BY <1>1, CommitAt DEF CommitSteps, Redone, Copied, Untarred, Frozen, Made,
     Sets
<1>3. dir[Folder[job[p].img]] = "set"
  BY <1>1 DEF CalmFor, MadeOK, Sets
<1>4. \A d \in Ids : reg'[d] # None => dir[reg'[d]] = "set"
  BY <1>1, <1>3 DEF CalmFor, StoreOK, ContainersOK, IndInv, TypeOK
<1>5. StoreOK(p)'
  <2>1. ListedOK(job[p].snap, Redone(p))'
    BY <1>1, <1>2 DEF CalmFor, StoreOK, ListedOK
  <2>2. FoldersListed(job[p].snap, Made(p))'
    BY <1>1, <1>2 DEF CalmFor, StoreOK, FoldersListed
  <2>3. FilesOK(Copied(p))' /\ FoldersOK(Untarred(p))'
    BY <1>1, <1>2 DEF CalmFor, StoreOK, FilesOK, FoldersOK
  <2>4. ContainersOK(Redone(p), Frozen(p))'
    BY <1>1, <1>2, <1>4 DEF CalmFor, StoreOK, ContainersOK
  <2>. QED  BY <2>1, <2>2, <2>3, <2>4 DEF StoreOK
<1>6. MadeOK(p)' /\ CommitOK(p)'
  BY <1>1, <1>3 DEF CalmFor, MadeOK, CommitOK, CommitSteps, Usable
<1>7. CopyOK(p)' /\ ImportOK(p)'
  BY <1>1, <1>2 DEF CopyOK, ImportOK, Imports
<1>. QED  BY <1>1, <1>5, <1>6, <1>7 DEF CalmFor

-----------------------------------------------------------------------------
(* All steps together *)

LEMMA CalmStart ==
    ASSUME Calm, IndInv, CalmInv, NEW p \in Procs, Start(p)
    PROVE  CalmInv'
<1>1. ASSUME NEW i, NEW k \in {"delete", "permanent"}, Delete(p, i, k)
      PROVE  FALSE
  BY <1>1 DEF Calm, Delete, MayStart
<1>. QED  BY <1>1, CalmImport, CalmLoadSingularity, CalmMerge, CalmReset,
             CalmCreate, CalmDestroy, CalmCommit DEF Start

LEMMA CalmWork ==
    ASSUME Calm, IndInv, CalmInv, NEW p \in Procs, Step(p) \/ Stop(p)
    PROVE  CalmInv'
<1>1. pc[p] # "idle" /\ ~Stop(p)
  <2>1. ~Stop(p)
    BY DEF Calm, Stop
  <2>2. Step(p)
    BY <2>1
  <2>. QED
    BY <2>1, <2>2 DEF Step, FetchSkip, FetchRefused, FetchOpen, FetchCopy,
       FetchCopied, FetchRename, FetchSquash, FetchDone, Fetching,
       FetchAstray, ExtractSkip, ExtractInto, Extracting, Untar, Unsquash,
       ExtractDone, Setting, SettingAstray, MergeLayers, MergeFolder,
       MergeFile, TableTruncate, TableWrite, DeleteFile, DeleteFolderPart, DeleteFolder, DeleteDir,
       CommitTar, CommitFreeze, CommitMove, CommitSetting, CommitThaw,
       CommitRecord, CommitRegister
<1>2. CalmFor(p) /\ StepOK(p) /\ Alone(p)
  BY <1>1, WorkStep, AtWorkAlone DEF CalmInv
<1>3. pc[p] \notin {"delete", "deleteFolder"} /\ job[p].img # None
  BY <1>2 DEF Calm, IndInv, KindOK, CalmFor
<1>4. IF pc'[p] = "idle" THEN RestOK' ELSE CalmFor(p)'
  <2>1. CASE \/ FetchSkip(p) \/ FetchRefused(p) \/ FetchOpen(p) \/ FetchCopy(p)
             \/ FetchCopied(p) \/ FetchRename(p) \/ FetchSquash(p) \/ FetchDone(p)
             \/ FetchAstray(p)
    <3>1. CASE FetchRefused(p) \/ FetchDone(p)
      BY <1>2, <3>1, CalmFetchRefused, CalmFetchDone
    <3>2. ASSUME ~FetchRefused(p), ~FetchDone(p)
          PROVE  CalmFor(p)' /\ pc'[p] # "idle"
      <4>1. CalmFor(p)'
        BY <1>2, <1>3, <2>1, <3>2, CalmFetchSkip, CalmFetchOpen, CalmFetchCopy,
           CalmFetchCopied, CalmFetchWhole DEF FetchAstray
      <4>2. pc'[p] # "idle"
        BY <1>1, <1>3, <2>1, <3>2 DEF FetchSkip, FetchOpen, FetchCopy,
           FetchCopied, FetchRename, FetchSquash, FetchAstray, Goto, IndInv,
           TypeOK
      <4>. QED  BY <4>1, <4>2
    <3>. QED  BY <3>1, <3>2
  <2>2. CASE Untar(p) \/ Unsquash(p) \/ ExtractDone(p)
    BY <1>2, <2>2, CalmUntar, CalmExtractDone
  <2>3. CASE ExtractSkip(p) \/ ExtractInto(p) \/ Setting(p) \/ SettingAstray(p)
    <3>1. ~SettingAstray(p)
      BY <1>3 DEF SettingAstray
    <3>2. pc'[p] # "idle"
      BY <1>1, <2>3, <3>1 DEF ExtractSkip, ExtractInto, Setting, Goto, IndInv,
         TypeOK
    <3>. QED  BY <1>2, <2>3, <3>1, <3>2, CalmExtractSkip, CalmExtractInto,
                 CalmSetting
  <2>4. CASE \/ MergeLayers(p) \/ MergeFolder(p) \/ MergeFile(p)
             \/ TableTruncate(p) \/ TableWrite(p)
    <3>1. CASE MergeLayers(p) \/ TableWrite(p)
      BY <1>2, <3>1, CalmMergeLayers, CalmTableWrite
    <3>2. CASE MergeFolder(p) \/ MergeFile(p) \/ TableTruncate(p)
      <4>1. pc'[p] # "idle"
        BY <3>2 DEF MergeFolder, MergeFile, TableTruncate, Goto, IndInv, TypeOK
      <4>. QED  BY <1>2, <3>2, <4>1, CalmMergeFolder, CalmMergeFile,
                   CalmTableTruncate
    <3>. QED  BY <2>4, <3>1, <3>2
  <2>5. CASE \/ CommitTar(p) \/ CommitFreeze(p) \/ CommitMove(p)
             \/ CommitSetting(p) \/ CommitThaw(p) \/ CommitRecord(p)
             \/ CommitRegister(p)
    <3>1. CASE CommitSetting(p)
      BY <1>2, <3>1, CalmCommitSetting
    <3>2. CASE ~CommitSetting(p)
      <4>1. pc'[p] # "idle"
        BY <2>5, <3>2 DEF CommitTar, CommitFreeze, CommitMove, CommitThaw,
           CommitRecord, CommitRegister, Goto, IndInv, TypeOK
      <4>. QED  BY <1>2, <2>5, <3>2, <4>1, CalmCommitTar, CalmCommitFreeze,
                   CalmCommitMove, CalmCommitThaw, CalmCommitRecord,
                   CalmCommitRegister
    <3>. QED  BY <3>1, <3>2
  <2>6. CASE DeleteFile(p) \/ DeleteFolderPart(p) \/ DeleteFolder(p) \/ DeleteDir(p)
    BY <1>3, <2>6 DEF DeleteFile, DeleteFolderPart, DeleteFolder, DeleteDir
  <2>. QED  BY <1>1, <2>1, <2>2, <2>3, <2>4, <2>5, <2>6 DEF Step
<1>. QED  BY <1>2, <1>4, CalmStep

LEMMA CalmInvariant ==
    ASSUME Calm
    PROVE  Spec => [](IndInv /\ CalmInv)
<1>1. Init => CalmInv
  <2>. SUFFICES ASSUME Init PROVE CalmInv
    OBVIOUS
  <2>1. table # Torn
    BY ImageStoreAssumption DEF Init
  <2>. QED  BY <2>1, FolderType DEF Init, CalmInv, RestOK, ListedOK, FoldersListed,
               FilesOK, FoldersOK, ContainersOK
<1>2. IndInv /\ CalmInv /\ [Next]_vars => CalmInv'
  <2>. SUFFICES ASSUME IndInv, CalmInv, [Next]_vars PROVE CalmInv'
    OBVIOUS
  <2>1. CASE UNCHANGED vars
    <3>1. (AtRest <=> AtRest') /\ (RestOK => RestOK')
      BY <2>1 DEF vars, store, AtRest, RestOK, ListedOK, FoldersListed,
         FilesOK, FoldersOK, ContainersOK
    <3>2. ASSUME NEW p \in Procs, StoreOK(p)
          PROVE  StoreOK(p)'
      BY <2>1, <3>2 DEF vars, store, StoreOK, ListedOK, FoldersListed,
         FilesOK, FoldersOK, ContainersOK, Copied, Untarred, Redone, Frozen,
         Made, Sets
    <3>3. ASSUME NEW p \in Procs, CopyOK(p) /\ ImportOK(p) /\ MadeOK(p) /\ CommitOK(p)
          PROVE  (CopyOK(p) /\ ImportOK(p) /\ MadeOK(p) /\ CommitOK(p))'
      BY <2>1, <3>3 DEF vars, store, CopyOK, ImportOK, MadeOK, CommitOK, Sets,
         Usable
    <3>. QED  BY <2>1, <3>1, <3>2, <3>3 DEF vars, CalmInv, CalmFor, store
  <2>. QED  BY <2>1, CalmStart, CalmWork DEF Next
<1>. QED  BY <1>1, <1>2, Initially, Inductive, PTL DEF Spec

-----------------------------------------------------------------------------
(* Without deletes, one command at a time to its end, and a folder for     *)
(* every image, each image in the table has its setting.yml, its layer     *)
(* files and its layer folders,                                            *)
(* after merges, resets and commits as well (DockerDownload, DockerAdd,    *)
(* DockerMerge, DockerReset, DockerCommit).                                *)
THEOREM ListedImagesWhole ==
    ASSUME Calm
    PROVE  Spec => []ListedWhole
<1>1. CalmInv => ListedWhole
  BY DEF CalmInv, RestOK, ListedOK, ListedWhole
<1>. QED  BY <1>1, CalmInvariant, PTL

(* And every container has its rw folder and, extracted, each layer its    *)
(* record names, those that commits have added to it as well               *)
(* (CommonCommit, CommonCreate).                                           *)
THEOREM RegisteredContainersWhole ==
    ASSUME Calm
    PROVE  Spec => []ContainersWhole
<1>1. CalmInv => ContainersWhole
  BY DEF CalmInv, RestOK, ContainersOK, ContainersWhole
<1>. QED  BY <1>1, CalmInvariant, PTL

=============================================================================
