----------------------------- MODULE ImageStore -----------------------------
(***************************************************************************)
(* The images: .lpmxdata/.info (the table), .lpmxdata/.image/<sha>.tar.gz  *)
(* (layer files), .lpmxdata/.base/<sha>.tar.gz (the same layers extracted, *)
(* shared by all images and containers) and the folder <name>/<tag> of an  *)
(* image with its setting.yml and its workspace, which is where the        *)
(* containers made from it live.  <name> and <tag> are the first two parts *)
(* of the image's name between its colons, so that several images may have *)
(* one folder, and <tag> may be a path.  One action is one access to a     *)
(* file, a folder or the table.                                            *)
(*                                                                         *)
(* Containers appear as the record (.lpmx/.info) and the registry entry    *)
(* that commit and delete work with; Lifecycle has their steps in detail.  *)
(* A container's shell has ended whenever commit is used on it here.       *)
(***************************************************************************)
EXTENDS Naturals, SequencesExt

CONSTANTS
    Images,     \* image names
    Folders,    \* image folders: <name>/<tag>
    Folder,     \* Folder[i]: the folder of image i
    Inside,     \* Inside[f]: folder f and those whose path goes through it
    Layers,     \* layer digests
    Fresh,      \* those that a merge or a commit computes
    Squash,     \* those of the file systems in Singularity images
    Manifest,   \* what a hub or a package says: images to layers, base first
    MergeName,  \* the name "<name>-merge" of the images that can be merged
    CommitNames, \* names that users give to committed images
    Ids,        \* container ids
    Procs,      \* lpmx commands that may be in progress at once
    Size,       \* chunks in a layer file
    Kinds,      \* the commands in use
    Overlap,    \* the commands that may be in progress beside each other
    Stops,      \* may a command be killed, may its system calls fail
    Torn,       \* a table truncated by ioutil.WriteFile, not yet written
    None        \* no file, no entry, no container

AllKinds == {"download", "load", "skopeo", "add", "singularity", "merge",
             "commit", "create", "destroy", "reset", "delete", "permanent"}

ASSUME ImageStoreAssumption ==
    /\ Folder \in [Images -> Folders]
    /\ Inside \in [Folders -> SUBSET Folders]
    /\ \A f \in Folders : f \in Inside[f]
    /\ Fresh \subseteq Layers
    /\ Squash \subseteq Layers \ Fresh
    /\ DOMAIN Manifest \subseteq Images
    /\ \A i \in DOMAIN Manifest :
          Manifest[i] \in Seq(Layers \ (Fresh \cup Squash)) \cup Seq(Squash)
    /\ DOMAIN MergeName \subseteq DOMAIN Manifest
    /\ \A i \in DOMAIN MergeName : MergeName[i] \in Images
    /\ CommitNames \subseteq Images
    /\ Size \in Nat \ {0}
    /\ Kinds \subseteq AllKinds
    \* FetchCopy writes to the file of that name: true of two downloads, not
    \* of a download and a rename over its file.
    /\ Overlap \subseteq {"download"}
    /\ Stops \in BOOLEAN
    /\ None \notin Images \cup Folders \cup Ids
    /\ None \notin Seq(Layers) \cup Seq(BOOLEAN)
    /\ Torn \notin [Images -> {None} \cup Seq(Layers)]

VARIABLES
    table,   \* doc.Images: name to layer_order, or Torn
    file,    \* layer files: None or chunks, FALSE where nothing was written
    folder,  \* extracted layers: "none", "part" or "whole"
    dir,     \* image folders: "none", "made", or "set" (with setting.yml)
    con,     \* records of containers, see Records
    reg,     \* the registry: the folder in whose workspace ConfigPath is
    pc,      \* pc[p]: the next step of command p
    job      \* job[p]: its memory, see Jobs

store == <<table, file, folder, dir>>
vars  == <<store, con, reg, pc, job>>

Entries == {None} \cup Seq(Layers)

Records ==
    [home   : Folders,        \* the folder in whose workspace it is
     base   : Images,         \* ImageBase
     layers : Seq(Layers),    \* Layers below "rw", top first
     rw     : BOOLEAN]        \* does RootPath exist

ASSUME NoneAssumption == None \notin Records

Jobs ==
    [kind   : AllKinds,
     img    : Images \cup {None},       \* the name it lists or deletes; None:
                                       \* it has read no table to list it in
     cid    : Ids \cup {None},          \* the container it commits
     layers : Seq(Layers),              \* the layer_order to list
     todo   : Seq(Layers),              \* layers of its loop still to come
     snap   : [Images -> Entries],      \* its copy of the table
     off    : 0..Size]                  \* chunks of the layer it has copied

NoJob ==
    [kind |-> "download", img |-> None, cid |-> None, layers |-> <<>>,
     todo |-> <<>>, snap |-> [i \in Images |-> None], off |-> 0]

Labels == {"idle", "fetch", "copy", "merge", "setting", "mergeFolder",
           "mergeFile", "extract", "untar", "table", "write", "delete",
           "deleteFolder", "tar", "freeze", "move", "copySetting", "thaw",
           "record", "register"}

TypeOK ==
    /\ table \in {Torn} \cup [Images -> Entries]
    /\ file \in [Layers -> {None} \cup Seq(BOOLEAN)]
    /\ folder \in [Layers -> {"none", "part", "whole"}]
    /\ dir \in [Folders -> {"none", "made", "set"}]
    /\ con \in [Ids -> Records \cup {None}]
    /\ reg \in [Ids -> Folders \cup {None}]
    /\ pc \in [Procs -> Labels]
    /\ job \in [Procs -> Jobs]

Init ==
    /\ table = [i \in Images |-> None]
    /\ file = [l \in Layers |-> None]
    /\ folder = [l \in Layers |-> "none"]
    /\ dir = [f \in Folders |-> "none"]
    /\ con = [c \in Ids |-> None]
    /\ reg = [c \in Ids |-> None]
    /\ pc = [p \in Procs |-> "idle"]
    /\ job = [p \in Procs |-> NoJob]

Whole == [k \in 1..Size |-> TRUE]

Goto(p, label) == pc' = [pc EXCEPT ![p] = label]

\* The command returns, with or without an error.
Return(p) == Goto(p, "idle") /\ job' = [job EXCEPT ![p] = NoJob]

\* MakeDir makes the folders above it as well.
MakeDir(f) ==
    dir' = [g \in Folders |->
               IF f \in Inside[g] /\ dir[g] = "none" THEN "made" ELSE dir[g]]

\* A command of this kind can start: nothing is at work, or only commands
\* that it may be in progress beside.
MayStart(p, kind) ==
    /\ kind \in Kinds
    /\ pc[p] = "idle"
    /\ \A q \in Procs : pc[q] # "idle" => {kind, job[q].kind} \subseteq Overlap

Begin(p, kind, i, layers, label) ==
    /\ Goto(p, label)
    /\ job' = [job EXCEPT ![p] =
                  [NoJob EXCEPT !.kind = kind, !.img = i, !.layers = layers,
                                !.todo = layers,
                                !.snap = IF table = Torn THEN @ ELSE table]]

NextLayer(p) == job' = [job EXCEPT ![p].todo = Tail(@), ![p].off = 0]

\* A digest no file, image or container mentions.
Unused(l) ==
    /\ l \in Fresh /\ file[l] = None /\ folder[l] = "none"
    /\ \A i \in Images : table[i] # None => l \notin ToSet(table[i])
    /\ \A c \in Ids : con[c] # None => l \notin ToSet(con[c].layers)

-----------------------------------------------------------------------------
(* Plausible bugs, no part of Next: each takes the place of the action it  *)
(* names, to see that a property notices.                                  *)

\* FetchCopy, one chunk too far.
BugCopyTooFar(p) ==
    /\ pc[p] = "copy" /\ job[p].off <= Size
    /\ job' = [job EXCEPT ![p].off = @ + 1]
    /\ UNCHANGED <<store, con, reg, pc>>

\* ExtractInto, taking a folder that exists for an extracted layer.
BugExtractTrustsFolder(p) ==
    LET l == Head(job[p].todo) IN
    /\ pc[p] = "extract" /\ job[p].todo # <<>>
    /\ folder' = [folder EXCEPT ![l] = IF @ = "none" THEN "part" ELSE @]
    /\ IF folder[l] = "none" THEN Goto(p, "untar") /\ UNCHANGED job
                             ELSE NextLayer(p) /\ UNCHANGED pc
    /\ UNCHANGED <<table, file, dir, con, reg>>

\* Delete, without the scan of the records.
BugDeleteBlindly(p, i, kind) ==
    /\ MayStart(p, kind)
    /\ table # Torn /\ table[i] # None
    /\ Begin(p, kind, i, IF kind = "permanent" THEN table[i] ELSE <<>>,
             "delete")
    /\ UNCHANGED <<store, con, reg>>

\* MergeFile, leaving the archive under its temporary name.
BugMergeKeepsName(p) ==
    /\ pc[p] = "mergeFile"
    /\ Goto(p, "table")
    /\ UNCHANGED <<store, con, reg, job>>

\* CommitFreeze, removing the rw folder where it should be moved.
BugCommitDropsWork(p) ==
    /\ pc[p] = "freeze"
    /\ con' = [con EXCEPT ![job[p].cid].rw = FALSE]
    /\ Goto(p, "move")
    /\ UNCHANGED <<store, reg, job>>

-----------------------------------------------------------------------------
(* Download, the loads and add: the first look at the table *)

Singular(i) == ToSet(Manifest[i]) \cap Squash # {}

\* A load asks whether the name is listed only after it has copied the layers.
\* Add makes the folder of the image before them.
Import(p, kind, i) ==
    /\ MayStart(p, kind) /\ ~Singular(i)
    /\ table # Torn
    /\ kind \in {"download", "add"} => table[i] = None
    /\ Begin(p, kind, i, Manifest[i], "fetch")
    /\ IF kind = "add" THEN MakeDir(Folder[i]) ELSE UNCHANGED dir
    /\ UNCHANGED <<table, file, folder, con, reg>>

\* It goes on with a table it cannot read, as one without RootDir and Images.
LoadSingularity(p, i) ==
    /\ MayStart(p, "singularity") /\ Singular(i)
    /\ Begin(p, "singularity", IF table = Torn THEN None ELSE i, Manifest[i],
             "fetch")
    /\ UNCHANGED <<store, con, reg>>

(* Merge: the layers of a listed image, or those of the hub.               *)
Merge(p, i) ==
    /\ MayStart(p, "merge")
    /\ table # Torn /\ table[i] # <<>>
    /\ table[i] = None => ~Singular(i)
    /\ \E l \in Layers : Unused(l)
    /\ IF table[i] = None
       THEN Begin(p, "merge", MergeName[i], Manifest[i], "fetch")
       ELSE Begin(p, "merge", MergeName[i], table[i], "merge")
    /\ UNCHANGED <<store, con, reg>>

-----------------------------------------------------------------------------
(* The layer files *)

Fetching(p) == pc[p] = "fetch" /\ job[p].todo # <<>>

\* DownloadLayers leaves a file of the right size alone, add any file.
Present(p) ==
    LET f == file[Head(job[p].todo)] IN
    /\ f # None
    /\ \/ job[p].kind \in {"add", "skopeo"}
       \/ job[p].kind \in {"download", "merge"} /\ Len(f) = Size

FetchSkip(p) ==
    /\ Fetching(p) /\ Present(p) /\ job[p].kind # "skopeo"
    /\ NextLayer(p)
    /\ UNCHANGED <<store, con, reg, pc>>

\* CopyFile does not overwrite, whatever the file holds.
FetchRefused(p) ==
    /\ Fetching(p) /\ Present(p) /\ job[p].kind = "skopeo"
    /\ Return(p)
    /\ UNCHANGED <<store, con, reg>>

\* os.Create, which truncates.
FetchOpen(p) ==
    /\ Fetching(p) /\ ~Present(p)
    /\ job[p].kind \in {"download", "merge", "skopeo"}
    /\ file' = [file EXCEPT ![Head(job[p].todo)] = <<>>]
    /\ Goto(p, "copy")
    /\ UNCHANGED <<table, folder, dir, con, reg, job>>

\* io.Copy writes at its own offset; whoever has truncated the file in the
\* meantime gets a hole below it.
FetchCopy(p) ==
    LET l == Head(job[p].todo)
        n == job[p].off + 1
        old == file[l]
    IN
    /\ pc[p] = "copy" /\ job[p].off < Size
    /\ file' = [file EXCEPT ![l] =
                   [k \in 1..(IF Len(old) > n THEN Len(old) ELSE n) |->
                       k = n \/ (k <= Len(old) /\ old[k])]]
    /\ job' = [job EXCEPT ![p].off = n]
    /\ UNCHANGED <<table, folder, dir, con, reg, pc>>

\* CopyFile looks at an older error than io.Copy's (utils.go:419): skopeo's load
\* goes on after a copy that has failed, a download does not.
FetchCopied(p) ==
    /\ pc[p] = "copy"
    /\ job[p].off = Size \/ (Stops /\ job[p].kind = "skopeo")
    /\ Goto(p, "fetch")
    /\ NextLayer(p)
    /\ UNCHANGED <<store, con, reg>>

\* A whole file from the temporary folder takes the place of any other.
FetchRename(p) ==
    /\ Fetching(p) /\ ~Present(p) /\ job[p].kind \in {"load", "add"}
    /\ file' = [file EXCEPT ![Head(job[p].todo)] = Whole]
    /\ NextLayer(p)
    /\ UNCHANGED <<table, folder, dir, con, reg, pc>>

\* So does the file system that ExtractSquashfs has copied out of the image.
FetchSquash(p) ==
    /\ Fetching(p) /\ job[p].kind = "singularity"
    /\ file' = [file EXCEPT ![Head(job[p].todo)] = Whole]
    /\ NextLayer(p)
    /\ UNCHANGED <<table, folder, dir, con, reg, pc>>

FetchDone(p) ==
    LET i == job[p].img
        known == job[p].snap[i] # None
    IN
    /\ pc[p] = "fetch" /\ job[p].todo = <<>> /\ i # None
    /\ IF job[p].kind \in {"load", "skopeo", "singularity"} /\ known
       THEN Return(p) /\ UNCHANGED dir
       ELSE /\ Goto(p, IF job[p].kind = "merge" THEN "merge" ELSE "extract")
            /\ job' = [job EXCEPT ![p].todo = job[p].layers]
            /\ IF job[p].kind = "add"
               THEN dir' = [dir EXCEPT ![Folder[i]] = "set"]
               ELSE MakeDir(Folder[i])
    /\ UNCHANGED <<table, file, folder, con, reg>>

\* Without RootDir the folder of the image is /<name>/<tag>, which only root
\* can make.
FetchAstray(p) ==
    /\ pc[p] = "fetch" /\ job[p].todo = <<>> /\ job[p].img = None
    /\ \/ Return(p)
       \/ /\ Goto(p, "extract")
          /\ job' = [job EXCEPT ![p].todo = job[p].layers]
    /\ UNCHANGED <<store, con, reg>>

-----------------------------------------------------------------------------
(* The layer folders *)

Extracting(p) == pc[p] = "extract" /\ job[p].todo # <<>>

\* Add extracts into a new folder only.
ExtractSkip(p) ==
    /\ Extracting(p)
    /\ job[p].kind = "add" /\ folder[Head(job[p].todo)] # "none"
    /\ NextLayer(p)
    /\ UNCHANGED <<store, con, reg, pc>>

\* Reset removes the folder first.
ExtractInto(p) ==
    LET l == Head(job[p].todo) IN
    /\ Extracting(p)
    /\ job[p].kind = "add" => folder[l] = "none"
    /\ folder' = [folder EXCEPT ![l] =
                     IF @ = "none" \/ job[p].kind = "reset" THEN "part" ELSE @]
    /\ Goto(p, "untar")
    /\ UNCHANGED <<table, file, dir, con, reg, job>>

LayerDone(p) ==
    /\ folder' = [folder EXCEPT ![Head(job[p].todo)] = "whole"]
    /\ Goto(p, "extract")
    /\ NextLayer(p)

\* Untar does not truncate: files that are there stay as they are under the
\* same contents.  On a damaged archive it extracts what it can and fails; it
\* reads no squash file, not even in a reset.
Untar(p) ==
    LET l == Head(job[p].todo) IN
    /\ pc[p] = "untar" /\ job[p].kind # "singularity"
    /\ IF file[l] = Whole /\ l \notin Squash
       THEN LayerDone(p)
       ELSE Return(p) /\ UNCHANGED folder
    /\ UNCHANGED <<table, file, dir, con, reg>>

\* unsquashfs -f writes over what is there.
Unsquash(p) ==
    /\ pc[p] = "untar" /\ job[p].kind = "singularity"
    /\ IF file[Head(job[p].todo)] = Whole
       THEN LayerDone(p)
       ELSE Return(p) /\ UNCHANGED folder
    /\ UNCHANGED <<table, file, dir, con, reg>>

ExtractDone(p) ==
    /\ pc[p] = "extract" /\ job[p].todo = <<>>
    /\ IF job[p].kind = "reset"
       THEN Return(p)
       ELSE /\ Goto(p, IF job[p].kind = "add" THEN "table" ELSE "setting")
            /\ UNCHANGED job
    /\ UNCHANGED <<store, con, reg>>

\* DownloadFilefromGithubPlus creates the file before it downloads.
Setting(p) ==
    /\ pc[p] = "setting" /\ job[p].img # None
    /\ dir' = [dir EXCEPT ![Folder[job[p].img]] = "set"]
    /\ Goto(p, IF job[p].kind = "merge" THEN "mergeFolder" ELSE "table")
    /\ UNCHANGED <<table, file, folder, con, reg, job>>

\* Without a table the entry goes to a nil map, which panics.
SettingAstray(p) ==
    /\ pc[p] = "setting" /\ job[p].img = None
    /\ Return(p)
    /\ UNCHANGED <<store, con, reg>>

Reset(p, i) ==
    /\ MayStart(p, "reset")
    /\ table # Torn /\ table[i] \notin {None, <<>>}
    /\ Begin(p, "reset", i, table[i], "extract")
    /\ UNCHANGED <<store, con, reg>>

-----------------------------------------------------------------------------
(* The rest of merge: extract all layers to a new temporary folder, make   *)
(* one layer of it, and move the folder and the archive to their places.   *)

MergeLayers(p) ==
    /\ pc[p] = "merge"
    /\ MakeDir(Folder[job[p].img])
    /\ IF \A l \in ToSet(job[p].layers) : file[l] = Whole /\ l \notin Squash
       THEN Goto(p, "setting") /\ UNCHANGED job
       ELSE Return(p)
    /\ UNCHANGED <<table, file, folder, con, reg>>

MergeFolder(p) ==
    /\ pc[p] = "mergeFolder"
    /\ \E l \in Layers :
          /\ Unused(l)
          /\ folder' = [folder EXCEPT ![l] = "whole"]
          /\ job' = [job EXCEPT ![p].layers = <<l>>]
    /\ Goto(p, "mergeFile")
    /\ UNCHANGED <<table, file, dir, con, reg>>

MergeFile(p) ==
    /\ pc[p] = "mergeFile"
    /\ file' = [file EXCEPT ![Head(job[p].layers)] = Whole]
    /\ Goto(p, "table")
    /\ UNCHANGED <<table, folder, dir, con, reg, job>>

-----------------------------------------------------------------------------
(* The table: every command writes back the whole of what it read.         *)

TableTruncate(p) ==
    /\ pc[p] = "table"
    /\ table' = Torn
    /\ Goto(p, "write")
    /\ UNCHANGED <<file, folder, dir, con, reg, job>>

TableWrite(p) ==
    /\ pc[p] = "write"
    /\ table' = [job[p].snap EXCEPT ![job[p].img] =
                    IF job[p].kind \in {"delete", "permanent"}
                    THEN None ELSE job[p].layers]
    /\ Return(p)
    /\ UNCHANGED <<file, folder, dir, con, reg>>

-----------------------------------------------------------------------------
(* Delete *)

Delete(p, i, kind) ==
    /\ MayStart(p, kind)
    /\ \A c \in Ids : reg[c] # None =>
          con[c] # None /\ con[c].home = reg[c] /\ con[c].base # i
    /\ table # Torn /\ table[i] # None
    /\ kind = "permanent" => table[i] # <<>>
    /\ Begin(p, kind, i, IF kind = "permanent" THEN table[i] ELSE <<>>,
             "delete")
    /\ UNCHANGED <<store, con, reg>>

DeleteFile(p) ==
    /\ pc[p] = "delete" /\ job[p].todo # <<>>
    /\ file' = [file EXCEPT ![Head(job[p].todo)] = None]
    /\ Goto(p, "deleteFolder")
    /\ UNCHANGED <<table, folder, dir, con, reg, job>>

\* RemoveAll is at work on the folder.
DeleteFolderPart(p) ==
    /\ pc[p] = "deleteFolder" /\ folder[Head(job[p].todo)] = "whole"
    /\ folder' = [folder EXCEPT ![Head(job[p].todo)] = "part"]
    /\ UNCHANGED <<table, file, dir, con, reg, pc, job>>

DeleteFolder(p) ==
    /\ pc[p] = "deleteFolder"
    /\ folder' = [folder EXCEPT ![Head(job[p].todo)] = "none"]
    /\ Goto(p, "delete")
    /\ NextLayer(p)
    /\ UNCHANGED <<table, file, dir, con, reg>>

\* The folder of the image goes, and with it all that is in it: the folders of
\* other images and the containers in the workspaces.
DeleteDir(p) ==
    LET gone == Inside[Folder[job[p].img]] IN
    /\ pc[p] = "delete" /\ job[p].todo = <<>>
    /\ dir' = [f \in Folders |-> IF f \in gone THEN "none" ELSE dir[f]]
    /\ con' = [c \in Ids |->
                  IF con[c] # None /\ con[c].home \in gone THEN None ELSE con[c]]
    /\ Goto(p, "table")
    /\ UNCHANGED <<table, file, folder, reg, job>>

-----------------------------------------------------------------------------
(* Containers: the lasting effect of a create whose set-up succeeds and of *)
(* a destroy, each as one step; Lifecycle has the steps.                   *)

Create(p, c, i) ==
    /\ MayStart(p, "create")
    /\ table # Torn /\ table[i] # None
    /\ dir[Folder[i]] = "set"
    /\ \E l \in ToSet(table[i]) : folder[l] # "none"
    /\ con[c] = None /\ reg[c] = None
    /\ con' = [con EXCEPT ![c] =
                  [home |-> Folder[i], base |-> i,
                   layers |-> Reverse(table[i]), rw |-> TRUE]]
    /\ reg' = [reg EXCEPT ![c] = Folder[i]]
    /\ UNCHANGED <<store, pc, job>>

Destroy(p, c) ==
    /\ MayStart(p, "destroy")
    /\ reg[c] # None
    /\ con' = [con EXCEPT ![c] =
                  IF @ # None /\ @.home = reg[c] THEN None ELSE @]
    /\ reg' = [reg EXCEPT ![c] = None]
    /\ UNCHANGED <<store, pc, job>>

-----------------------------------------------------------------------------
(* Commit: the rw folder becomes a layer, the container moves to the       *)
(* workspace of the new image and gets a new rw folder.                    *)

Commit(p, c, n) ==
    /\ MayStart(p, "commit")
    /\ reg[c] # None /\ con[c] # None /\ con[c].home = reg[c] /\ con[c].rw
    /\ table # Torn /\ table[n] = None
    /\ \E l \in Layers : Unused(l)
    /\ Goto(p, "tar")
    /\ job' = [job EXCEPT ![p] =
                  [NoJob EXCEPT !.kind = "commit", !.img = n, !.cid = c,
                                !.snap = table]]
    /\ UNCHANGED <<store, con, reg>>

\* The layer_order of the new image: that of ImageBase and the new layer, or
\* none at all if ImageBase has been deleted.
LayerOrder(p, l) ==
    LET base == job[p].snap[con[job[p].cid].base]
    IN IF base = None THEN <<>> ELSE Append(base, l)

CommitTar(p) ==
    /\ pc[p] = "tar"
    /\ \E l \in Layers :
          /\ Unused(l)
          /\ file' = [file EXCEPT ![l] = Whole]
          /\ job' = [job EXCEPT
                        ![p].layers = LayerOrder(p, l), ![p].todo = <<l>>]
    /\ Goto(p, "freeze")
    /\ UNCHANGED <<table, folder, dir, con, reg>>

CommitFreeze(p) ==
    /\ pc[p] = "freeze"
    /\ folder' = [folder EXCEPT ![Head(job[p].todo)] = "whole"]
    /\ con' = [con EXCEPT ![job[p].cid].rw = FALSE]
    /\ Goto(p, "move")
    /\ UNCHANGED <<table, file, dir, reg, job>>

CommitMove(p) ==
    /\ pc[p] = "move"
    /\ MakeDir(Folder[job[p].img])
    /\ con' = [con EXCEPT ![job[p].cid].home = Folder[job[p].img]]
    /\ Goto(p, "copySetting")
    /\ UNCHANGED <<table, file, folder, reg, job>>

\* CopyFile wants a source and no target.
CommitSetting(p) ==
    LET f == Folder[job[p].img] IN
    /\ pc[p] = "copySetting"
    /\ IF dir[f] = "set" \/ dir[reg[job[p].cid]] # "set"
       THEN Return(p) /\ UNCHANGED dir
       ELSE /\ dir' = [dir EXCEPT ![f] = "set"]
            /\ Goto(p, "thaw")
            /\ UNCHANGED job
    /\ UNCHANGED <<table, file, folder, con, reg>>

CommitThaw(p) ==
    /\ pc[p] = "thaw"
    /\ con' = [con EXCEPT ![job[p].cid].rw = TRUE]
    /\ Goto(p, "record")
    /\ UNCHANGED <<store, reg, job>>

\* The record is written before ImageBase is set: base stays what it was.
CommitRecord(p) ==
    /\ pc[p] = "record"
    /\ con' = [con EXCEPT ![job[p].cid].layers = job[p].todo \o @]
    /\ Goto(p, "register")
    /\ UNCHANGED <<store, reg, job>>

CommitRegister(p) ==
    /\ pc[p] = "register"
    /\ reg' = [reg EXCEPT ![job[p].cid] = Folder[job[p].img]]
    /\ Goto(p, "table")
    /\ UNCHANGED <<store, con, job>>

-----------------------------------------------------------------------------
\* The command is killed, or a system call fails and it returns the error.
Stop(p) ==
    /\ Stops
    /\ pc[p] # "idle"
    /\ Return(p)
    /\ UNCHANGED <<store, con, reg>>

Step(p) ==
    \/ FetchSkip(p) \/ FetchRefused(p) \/ FetchOpen(p) \/ FetchCopy(p)
    \/ FetchCopied(p) \/ FetchRename(p) \/ FetchSquash(p) \/ FetchDone(p)
    \/ FetchAstray(p)
    \/ ExtractSkip(p) \/ ExtractInto(p) \/ Untar(p) \/ Unsquash(p)
    \/ ExtractDone(p)
    \/ Setting(p) \/ SettingAstray(p)
    \/ MergeLayers(p) \/ MergeFolder(p) \/ MergeFile(p)
    \/ TableTruncate(p) \/ TableWrite(p)
    \/ DeleteFile(p) \/ DeleteFolderPart(p) \/ DeleteFolder(p) \/ DeleteDir(p)
    \/ CommitTar(p) \/ CommitFreeze(p) \/ CommitMove(p) \/ CommitSetting(p)
    \/ CommitThaw(p) \/ CommitRecord(p) \/ CommitRegister(p)

Start(p) ==
    \/ \E k \in {"download", "load", "skopeo", "add"}, i \in DOMAIN Manifest :
          Import(p, k, i)
    \/ \E i \in DOMAIN Manifest : LoadSingularity(p, i)
    \/ \E i \in DOMAIN MergeName : Merge(p, i)
    \/ \E i \in Images : Reset(p, i)
    \/ \E k \in {"delete", "permanent"}, i \in Images : Delete(p, i, k)
    \/ \E c \in Ids, i \in Images : Create(p, c, i)
    \/ \E c \in Ids : Destroy(p, c)
    \/ \E c \in Ids, n \in CommitNames : Commit(p, c, n)

Next == \E p \in Procs : Start(p) \/ Step(p) \/ Stop(p)

Spec == Init /\ [][Next]_vars

-----------------------------------------------------------------------------
(* Properties *)

AtRest == \A p \in Procs : pc[p] = "idle"

\* Whatever killed and failed commands have left behind in the layer files
\* and folders, and while other downloads are at work on the same layers,
\* an image that download, a load or merge lists (DockerDownload, DockerLoad,
\* SkopeoLoad, SingularityLoad, DockerMerge) has all its layers extracted.
NewImagesExtracted ==
    [][\A p \in Procs :
          /\ pc[p] = "write" /\ pc'[p] = "idle" /\ table' # table
          /\ job[p].kind \in {"download", "load", "skopeo", "singularity",
                              "merge"}
          => \A l \in ToSet(table'[job[p].img]) : folder[l] = "whole"]_vars

\* No image has its folder in that of another image.
FoldersApart ==
    \A i, j \in Images : Folder[j] \in Inside[Folder[i]] => i = j

\* Between commands, the record of every registered container is where the
\* registry says: CommonDelete removes no image folder with a registered
\* container in it, and is not kept from its work by a record it misses.  It
\* takes FoldersApart: CommonDelete compares the image names in the records,
\* not the folders.
RegisteredFound ==
    AtRest => \A c \in Ids :
        reg[c] # None => con[c] # None /\ con[c].home = reg[c]

\* Between commands, a listed image has what create, package, merge and reset
\* need of it: its setting.yml, its layer files and its layer folders.  (The
\* folder of a squash file is lost in a docker reset.)
ListedWhole ==
    AtRest /\ table # Torn => \A i \in Images :
        table[i] # None =>
            /\ dir[Folder[i]] = "set"
            /\ \A l \in ToSet(table[i]) :
                  file[l] = Whole /\ (folder[l] = "whole" \/ l \in Squash)

\* Between commands, a registered container has its rw folder, and every layer
\* that its record names is extracted: commit and merge take nothing away.
ContainersWhole ==
    AtRest => \A c \in Ids :
        reg[c] # None /\ con[c] # None =>
            /\ con[c].rw
            /\ \A l \in ToSet(con[c].layers) \ Squash : folder[l] = "whole"
=============================================================================
