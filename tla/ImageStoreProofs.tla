-------------------------- MODULE ImageStoreProofs --------------------------
(***************************************************************************)
(* Theorems about ImageStore: its types, that a new image is listed with   *)
(* all its layers extracted (NewImagesExtracted), whatever is killed and   *)
(* with downloads at work beside each other, and, where there is no        *)
(* commit, that registered containers are found (RegisteredFound).         *)
(***************************************************************************)
EXTENDS ImageStore, TLAPS
-----------------------------------------------------------------------------
(* Why they hold.  First whatever the commands in use: which command takes *)
(* which steps, what its memory says of the files, and what it has already *)
(* extracted, which no download beside it takes away.                      *)

Imports == {"download", "load", "skopeo", "add", "singularity"}

NewKinds == {"download", "load", "skopeo", "singularity", "merge"}

CommitSteps == {"tar", "freeze", "move", "copySetting", "thaw", "record",
                "register"}

KindOK(p) ==
    LET k == job[p].kind IN
    /\ pc[p] # "idle" => k \in Kinds
    /\ pc[p] \in {"fetch", "copy"} => k \in Imports \cup {"merge"}
    /\ pc[p] \in {"extract", "untar"} => k \in Imports \cup {"reset"}
    /\ pc[p] = "setting" => k \in (Imports \cup {"merge"}) \ {"add"}
    /\ pc[p] \in {"merge", "mergeFolder", "mergeFile"} => k = "merge"
    /\ pc[p] \in {"delete", "deleteFolder"} => k \in {"delete", "permanent"}
    /\ pc[p] \in CommitSteps => k = "commit"

MemoryOK(p) ==
    LET todo == job[p].todo
        c == job[p].cid
    IN  /\ pc[p] \notin {"idle", "fetch", "extract", "untar", "setting"} =>
              job[p].img \in Images
        /\ pc[p] # "idle" /\ job[p].img = None => job[p].kind = "singularity"
        /\ pc[p] \in {"copy", "untar", "deleteFolder", "freeze"} => todo # <<>>
        /\ pc[p] = "copy" => file[Head(todo)] # None
        /\ pc[p] \in CommitSteps =>
              c \in Ids /\ con[c] # None /\ reg[c] # None

ExtractedOK(p) ==
    LET extracted(l) == folder[l] = "whole" IN
    job[p].kind \in NewKinds =>
        /\ pc[p] \in {"extract", "untar"} =>
              \A l \in ToSet(job[p].layers) :
                  extracted(l) \/ l \in ToSet(job[p].todo)
        /\ \/ pc[p] \in {"mergeFile", "table", "write"}
           \/ pc[p] = "setting" /\ job[p].kind # "merge"
           => \A l \in ToSet(job[p].layers) : extracted(l)

Beside(p, q) ==
    pc[p] # "idle" /\ pc[q] # "idle" => {job[p].kind, job[q].kind} \subseteq Overlap

IndInv ==
    /\ TypeOK
    /\ \A p \in Procs : KindOK(p) /\ MemoryOK(p) /\ ExtractedOK(p)
    /\ \A p, q \in Procs : p # q => Beside(p, q)

(* Without commit a container stays in the workspace of the image it was   *)
(* made from, and that is not in the folder which is being deleted.        *)
FoundInv ==
    /\ \A c \in Ids : reg[c] # None => con[c] # None /\ con[c].home = reg[c]
    /\ \A c \in Ids : con[c] # None => con[c].home = Folder[con[c].base]
    /\ \A p \in Procs : pc[p] \in {"delete", "deleteFolder"} =>
          \A c \in Ids : reg[c] \notin Inside[Folder[job[p].img]]

-----------------------------------------------------------------------------
(* Sequences of layers *)

LEMMA HeadAndTail ==
    ASSUME NEW s \in Seq(Layers), s # <<>>
    PROVE  /\ Head(s) \in Layers /\ Head(s) \in ToSet(s)
           /\ Tail(s) \in Seq(Layers)
           /\ ToSet(s) = {Head(s)} \cup ToSet(Tail(s))
<1>1. Len(s) \in Nat \ {0} /\ s[1] = Head(s) /\ Head(s) \in Layers
  OBVIOUS
<1>2. /\ Tail(s) \in Seq(Layers)
      /\ Len(Tail(s)) = Len(s) - 1
      /\ \A i \in 1..Len(Tail(s)) : Tail(s)[i] = s[i + 1]
  OBVIOUS
<1>3. DOMAIN s = 1..Len(s) /\ DOMAIN Tail(s) = 1..Len(Tail(s))
  BY <1>2
<1>4. Head(s) \in ToSet(s)
  BY <1>1, <1>3 DEF ToSet
<1>5. ASSUME NEW l \in ToSet(Tail(s)) PROVE l \in ToSet(s)
  <2>1. PICK i \in 1..Len(Tail(s)) : l = Tail(s)[i]
    BY <1>3 DEF ToSet
  <2>. QED  BY <2>1, <1>1, <1>2, <1>3 DEF ToSet
<1>6. ASSUME NEW l \in ToSet(s), l # Head(s) PROVE l \in ToSet(Tail(s))
  <2>1. PICK i \in 1..Len(s) : l = s[i]
    BY <1>3 DEF ToSet
  <2>2. i # 1 /\ i - 1 \in 1..Len(Tail(s)) /\ l = Tail(s)[i - 1]
    BY <2>1, <1>1, <1>2, <1>6
  <2>. QED  BY <2>2, <1>3 DEF ToSet
<1>. QED  BY <1>1, <1>2, <1>4, <1>5, <1>6

LEMMA ToSetType ==
    ASSUME NEW S, NEW s \in Seq(S)
    PROVE  ToSet(s) \subseteq S
BY DEF ToSet

LEMMA ReverseType ==
    ASSUME NEW s \in Seq(Layers)
    PROVE  Reverse(s) \in Seq(Layers) /\ ToSet(Reverse(s)) = ToSet(s)
<1>1. DOMAIN s = 1..Len(s) /\ Len(s) \in Nat
  OBVIOUS
<1>2. \A k \in 1..Len(s) : (Len(s) - k) + 1 \in 1..Len(s) /\ s[(Len(s) - k) + 1] \in Layers
  BY <1>1
<1>3. Reverse(s) = [k \in 1..Len(s) |-> s[(Len(s) - k) + 1]]
  BY DEF Reverse
<1>4. Reverse(s) \in [1..Len(s) -> Layers]
  BY <1>2, <1>3
<1>5. Reverse(s) \in Seq(Layers) /\ DOMAIN Reverse(s) = 1..Len(s)
  BY <1>1, <1>4
<1>6. ASSUME NEW l \in ToSet(Reverse(s)) PROVE l \in ToSet(s)
  BY <1>1, <1>2, <1>3, <1>5 DEF ToSet
<1>7. ASSUME NEW l \in ToSet(s) PROVE l \in ToSet(Reverse(s))
  <2>1. PICK k \in 1..Len(s) : l = s[k]
    BY <1>1 DEF ToSet
  <2>2. (Len(s) - k) + 1 \in 1..Len(s) /\ Reverse(s)[(Len(s) - k) + 1] = l
    BY <1>1, <1>3, <2>1
  <2>. QED  BY <1>5, <2>2 DEF ToSet
<1>. QED  BY <1>5, <1>6, <1>7

LEMMA NoneIn ==
    /\ None \notin Seq(Layers) /\ None \notin Seq(BOOLEAN)
    /\ None \notin Images /\ None \notin Folders
BY ImageStoreAssumption

LEMMA FolderType ==
    /\ \A i \in Images : Folder[i] \in Folders
    /\ \A f \in Folders : f \in Inside[f]
BY ImageStoreAssumption

LEMMA WholeType == Whole \in Seq(BOOLEAN) /\ Len(Whole) = Size
BY ImageStoreAssumption DEF Whole

LEMMA CopyType ==
    ASSUME NEW old \in Seq(BOOLEAN), NEW n \in Nat
    PROVE  [k \in 1..(IF Len(old) > n THEN Len(old) ELSE n) |->
               k = n \/ (k <= Len(old) /\ old[k])] \in Seq(BOOLEAN)
<1>. DEFINE m == IF Len(old) > n THEN Len(old) ELSE n
            f == [k \in 1..m |-> k = n \/ (k <= Len(old) /\ old[k])]
<1>1. m \in Nat
  OBVIOUS
<1>. HIDE DEF m
<1>2. \A k \in 1..m : (k = n \/ (k <= Len(old) /\ old[k])) \in BOOLEAN
  BY Zenon
<1>3. f \in [1..m -> BOOLEAN]
  BY <1>2, Zenon
<1>. HIDE DEF f
<1>4. f \in Seq(BOOLEAN)
  BY <1>1, <1>3
<1>. QED  BY <1>4 DEF f, m

-----------------------------------------------------------------------------
(* The steps of one command, seen by the others *)

Others(p) == \A q \in Procs \ {p} : pc'[q] = pc[q] /\ job'[q] = job[q]

Alone(p) == \A q \in Procs \ {p} : pc[q] = "idle"

Gentle ==
    /\ \A l \in Layers :
          /\ file[l] # None => file'[l] # None
          /\ folder[l] = "whole" => folder'[l] = "whole"
    /\ UNCHANGED <<con, reg>>

Joins(p) ==
    \/ pc'[p] = "idle"
    \/ pc[p] # "idle" /\ job'[p].kind = job[p].kind
    \/ \A q \in Procs : pc[q] # "idle" => {job'[p].kind, job[q].kind} \subseteq Overlap

OwnOK(p) == KindOK(p) /\ MemoryOK(p) /\ ExtractedOK(p)

StepOK(p) ==
    /\ TypeOK'
    /\ Others(p) /\ Joins(p)
    /\ KindOK(p)' /\ MemoryOK(p)' /\ ExtractedOK(p)'
    /\ Alone(p) \/ Gentle

LEMMA Returns ==
    ASSUME TypeOK, NEW p \in Procs, Return(p)
    PROVE  /\ pc' \in [Procs -> Labels] /\ job' \in [Procs -> Jobs]
           /\ Others(p) /\ Joins(p)
           /\ KindOK(p)' /\ MemoryOK(p)' /\ ExtractedOK(p)'
<1>1. NoJob \in Jobs
  <2>1. [i \in Images |-> None] \in [Images -> Entries]
    BY DEF Entries
  <2>. QED  BY <2>1, ImageStoreAssumption DEF NoJob, Jobs, AllKinds
<1>2. /\ pc' = [pc EXCEPT ![p] = "idle"]
      /\ job' = [job EXCEPT ![p] = NoJob]
  BY DEF Return, Goto
<1>3. pc'[p] = "idle" /\ pc' \in [Procs -> Labels] /\ job' \in [Procs -> Jobs]
  BY <1>1, <1>2 DEF TypeOK, Labels
<1>. QED  BY <1>2, <1>3 DEF Others, Joins, KindOK, MemoryOK, ExtractedOK,
             CommitSteps

LEMMA NextLayers ==
    ASSUME TypeOK, NEW p \in Procs, NextLayer(p), job[p].todo # <<>>
    PROVE  /\ job' \in [Procs -> Jobs]
           /\ \A q \in Procs \ {p} : job'[q] = job[q]
           /\ Head(job[p].todo) \in Layers
           /\ ToSet(job[p].todo) = {Head(job[p].todo)} \cup ToSet(job'[p].todo)
           /\ job'[p].kind = job[p].kind /\ job'[p].img = job[p].img
           /\ job'[p].cid = job[p].cid /\ job'[p].layers = job[p].layers
           /\ job'[p].snap = job[p].snap
<1>. DEFINE j == job[p]
            k == [j EXCEPT !.todo = Tail(j.todo), !.off = 0]
<1>1. job' = [job EXCEPT ![p] = k]
  BY DEF NextLayer
<1>2. /\ job \in [Procs -> Jobs] /\ j \in Jobs /\ j.todo \in Seq(Layers)
      /\ Tail(j.todo) \in Seq(Layers) /\ 0 \in 0..Size
  BY HeadAndTail, ImageStoreAssumption DEF TypeOK, Jobs
<1>3. k \in Jobs /\ k.todo = Tail(j.todo)
  BY <1>2 DEF Jobs
<1>4. /\ k.kind = j.kind /\ k.img = j.img /\ k.cid = j.cid
      /\ k.layers = j.layers /\ k.snap = j.snap
  BY <1>2 DEF Jobs
<1>. HIDE DEF k
<1>. QED  BY <1>1, <1>2, <1>3, <1>4, HeadAndTail

LEMMA OnlyDownloadsOverlap ==
    ASSUME IndInv, NEW p \in Procs, pc[p] # "idle", job[p].kind # "download"
    PROVE  Alone(p)
BY ImageStoreAssumption DEF IndInv, Beside, Alone

LEMMA CommitContainer ==
    ASSUME IndInv, NEW p \in Procs, pc[p] \in CommitSteps,
           NEW r \in Records, con' = [con EXCEPT ![job[p].cid] = r],
           NEW label \in CommitSteps \ {"freeze"}, Goto(p, label),
           folder' \in [Layers -> {"none", "part", "whole"}],
           dir' \in [Folders -> {"none", "made", "set"}],
           UNCHANGED <<table, file, reg, job>>
    PROVE  StepOK(p)
<1>1. /\ job[p].kind = "commit" /\ job[p].img \in Images
      /\ job[p].cid \in Ids /\ reg[job[p].cid] # None
      /\ pc[p] # "idle" /\ pc' = [pc EXCEPT ![p] = label] /\ label \in Labels
  BY DEF IndInv, KindOK, MemoryOK, CommitSteps, Goto, Labels
<1>2. r # None
  BY NoneAssumption
<1>3. TypeOK' /\ Others(p) /\ Joins(p)
  BY <1>1 DEF IndInv, TypeOK, Others, Joins
<1>4. KindOK(p)' /\ MemoryOK(p)' /\ ExtractedOK(p)'
  BY <1>1, <1>2 DEF IndInv, KindOK, MemoryOK, ExtractedOK, CommitSteps
<1>. QED  BY <1>1, <1>3, <1>4, OnlyDownloadsOverlap DEF StepOK

LEMMA FetchSkipStep ==
    ASSUME IndInv, NEW p \in Procs, FetchSkip(p)
    PROVE  StepOK(p)
<1>1. TypeOK'
  BY NextLayers DEF IndInv, TypeOK, store, FetchSkip, Fetching
<1>2. Others(p) /\ Joins(p)
  BY NextLayers DEF IndInv, Others, Joins, FetchSkip, Fetching
<1>3. KindOK(p)'
  BY NextLayers DEF IndInv, KindOK, FetchSkip, Fetching
<1>4. MemoryOK(p)'
  BY NextLayers DEF IndInv, MemoryOK, FetchSkip, Fetching
<1>5. ExtractedOK(p)'
  BY DEF ExtractedOK, FetchSkip, Fetching
<1>6. Alone(p) \/ Gentle
  BY DEF Gentle, store, FetchSkip
<1>. QED  BY <1>1, <1>2, <1>3, <1>4, <1>5, <1>6 DEF StepOK

LEMMA FetchRefusedStep ==
    ASSUME IndInv, NEW p \in Procs, FetchRefused(p)
    PROVE  StepOK(p)
<1>1. TypeOK'
  BY Returns DEF IndInv, TypeOK, store, FetchRefused
<1>2. Others(p) /\ Joins(p)
  BY Returns DEF IndInv, FetchRefused
<1>3. KindOK(p)'
  BY Returns DEF IndInv, FetchRefused
<1>4. MemoryOK(p)'
  BY Returns DEF IndInv, FetchRefused
<1>5. ExtractedOK(p)'
  BY Returns DEF IndInv, FetchRefused
<1>6. Alone(p) \/ Gentle
  BY DEF Gentle, store, FetchRefused
<1>. QED  BY <1>1, <1>2, <1>3, <1>4, <1>5, <1>6 DEF StepOK

LEMMA FetchOpenStep ==
    ASSUME IndInv, NEW p \in Procs, FetchOpen(p)
    PROVE  StepOK(p)
<1>. DEFINE l == Head(job[p].todo)
<1>1. /\ pc[p] = "fetch" /\ job[p].todo # <<>>
      /\ file' = [file EXCEPT ![l] = <<>>]
      /\ pc' = [pc EXCEPT ![p] = "copy"]
      /\ UNCHANGED <<table, folder, dir, con, reg, job>>
  BY DEF FetchOpen, Fetching, Goto
<1>2. l \in Layers /\ <<>> \in Seq(BOOLEAN) /\ <<>> # None
  <2>1. job[p].todo \in Seq(Layers) /\ <<>> \in Seq(BOOLEAN)
    BY DEF IndInv, TypeOK, Jobs
  <2>. QED  BY <1>1, <2>1, HeadAndTail, NoneIn
<1>3. TypeOK'
  BY <1>1, <1>2 DEF IndInv, TypeOK, Labels
<1>4. Others(p) /\ Joins(p) /\ KindOK(p)'
  BY <1>1 DEF IndInv, Others, Joins, KindOK, CommitSteps
<1>5. job[p].img \in Images
  BY <1>1 DEF FetchOpen, IndInv, TypeOK, Jobs, MemoryOK
<1>6. MemoryOK(p)' /\ ExtractedOK(p)'
  BY <1>1, <1>2, <1>5 DEF IndInv, TypeOK, MemoryOK, ExtractedOK, CommitSteps
<1>7. Gentle
  BY <1>1, <1>2 DEF IndInv, TypeOK, Gentle
<1>. QED  BY <1>3, <1>4, <1>6, <1>7 DEF StepOK

LEMMA FetchCopiedStep ==
    ASSUME IndInv, NEW p \in Procs, FetchCopied(p)
    PROVE  StepOK(p)
<1>1. TypeOK'
  BY NextLayers DEF IndInv, TypeOK, MemoryOK, Labels, store, FetchCopied, Goto
<1>2. Others(p) /\ Joins(p)
  BY NextLayers DEF IndInv, MemoryOK, Others, Joins, FetchCopied, Goto
<1>3. KindOK(p)'
  BY NextLayers DEF IndInv, KindOK, MemoryOK, CommitSteps, FetchCopied, Goto
<1>4. MemoryOK(p)'
  BY NextLayers DEF IndInv, TypeOK, MemoryOK, CommitSteps, FetchCopied, Goto
<1>5. ExtractedOK(p)'
  BY DEF ExtractedOK, FetchCopied, Goto
<1>6. Alone(p) \/ Gentle
  BY DEF Gentle, store, FetchCopied
<1>. QED  BY <1>1, <1>2, <1>3, <1>4, <1>5, <1>6 DEF StepOK

LEMMA FetchRenameStep ==
    ASSUME IndInv, NEW p \in Procs, FetchRename(p)
    PROVE  StepOK(p)
<1>1. TypeOK'
  BY NextLayers, WholeType DEF IndInv, TypeOK, FetchRename, Fetching
<1>2. Others(p) /\ Joins(p)
  BY NextLayers DEF IndInv, Others, Joins, FetchRename, Fetching
<1>3. KindOK(p)'
  BY NextLayers DEF IndInv, KindOK, FetchRename, Fetching
<1>4. MemoryOK(p)'
  BY NextLayers DEF IndInv, MemoryOK, FetchRename, Fetching
<1>5. ExtractedOK(p)'
  BY DEF ExtractedOK, FetchRename, Fetching
<1>6. Alone(p) \/ Gentle
  BY NoneIn, WholeType DEF Gentle, FetchRename
<1>. QED  BY <1>1, <1>2, <1>3, <1>4, <1>5, <1>6 DEF StepOK

LEMMA FetchSquashStep ==
    ASSUME IndInv, NEW p \in Procs, FetchSquash(p)
    PROVE  StepOK(p)
<1>1. TypeOK'
  BY NextLayers, WholeType DEF IndInv, TypeOK, FetchSquash, Fetching
<1>2. Others(p) /\ Joins(p)
  BY NextLayers DEF IndInv, Others, Joins, FetchSquash, Fetching
<1>3. KindOK(p)'
  BY NextLayers DEF IndInv, KindOK, FetchSquash, Fetching
<1>4. MemoryOK(p)'
  BY NextLayers DEF IndInv, MemoryOK, FetchSquash, Fetching
<1>5. ExtractedOK(p)'
  BY DEF ExtractedOK, FetchSquash, Fetching
<1>6. Alone(p) \/ Gentle
  BY NoneIn, WholeType DEF Gentle, FetchSquash
<1>. QED  BY <1>1, <1>2, <1>3, <1>4, <1>5, <1>6 DEF StepOK

LEMMA FetchDoneStep ==
    ASSUME IndInv, NEW p \in Procs, FetchDone(p)
    PROVE  StepOK(p)
<1>1. Gentle /\ UNCHANGED <<table, file, folder, con, reg>>
  BY DEF FetchDone, Gentle
<1>2. dir' \in [Folders -> {"none", "made", "set"}]
  BY DEF FetchDone, MakeDir, IndInv, TypeOK
<1>3. CASE Return(p)
  BY <1>1, <1>2, <1>3, Returns DEF StepOK, IndInv, TypeOK
<1>4. CASE ~Return(p)
  <2>. DEFINE j == [job[p] EXCEPT !.todo = job[p].layers]
              label == IF job[p].kind = "merge" THEN "merge" ELSE "extract"
  <2>1. /\ pc[p] = "fetch"
        /\ pc' = [pc EXCEPT ![p] = label]
        /\ job' = [job EXCEPT ![p] = j]
    BY <1>4 DEF FetchDone, Goto
  <2>2. job[p] \in Jobs /\ label \in Labels
    BY DEF IndInv, TypeOK, Labels
  <2>3. /\ j \in Jobs
        /\ j.kind = job[p].kind /\ j.img = job[p].img /\ j.cid = job[p].cid
        /\ j.layers = job[p].layers /\ j.todo = j.layers
    BY <2>2 DEF Jobs
  <2>. HIDE DEF j
  <2>4. TypeOK' /\ Others(p) /\ job'[p] = j /\ pc'[p] = label
    BY <1>1, <1>2, <2>1, <2>2, <2>3 DEF IndInv, TypeOK, Others
  <2>5. job[p].kind \in Imports \cup {"merge"} /\ job[p].img \in Images
    BY <2>1, <2>2 DEF IndInv, KindOK, FetchDone, Jobs
  <2>6. Joins(p) /\ KindOK(p)' /\ MemoryOK(p)'
    BY <2>1, <2>3, <2>4, <2>5 DEF IndInv, Joins, KindOK, MemoryOK, CommitSteps
  <2>7. ExtractedOK(p)'
    BY <2>3, <2>4 DEF ExtractedOK
  <2>. QED  BY <1>1, <2>4, <2>6, <2>7 DEF StepOK
<1>. QED  BY <1>3, <1>4

LEMMA FetchAstrayStep ==
    ASSUME IndInv, NEW p \in Procs, FetchAstray(p)
    PROVE  StepOK(p)
<1>1. Gentle /\ UNCHANGED <<store, con, reg>> /\ pc[p] = "fetch"
      /\ job[p].img = None
  BY DEF FetchAstray, Gentle, store
<1>2. CASE Return(p)
  BY <1>1, <1>2, Returns DEF StepOK, IndInv, TypeOK, store
<1>3. CASE ~Return(p)
  <2>. DEFINE j == [job[p] EXCEPT !.todo = job[p].layers]
  <2>1. pc' = [pc EXCEPT ![p] = "extract"] /\ job' = [job EXCEPT ![p] = j]
    BY <1>3 DEF FetchAstray, Goto
  <2>2. /\ j \in Jobs
        /\ j.kind = job[p].kind /\ j.img = job[p].img /\ j.layers = job[p].layers
        /\ j.todo = j.layers
    BY DEF IndInv, TypeOK, Jobs
  <2>. HIDE DEF j
  <2>3. TypeOK' /\ Others(p) /\ job'[p] = j /\ pc'[p] = "extract"
    BY <1>1, <2>1, <2>2 DEF IndInv, TypeOK, Labels, Others, store
  <2>4. job[p].kind = "singularity"
    BY <1>1 DEF IndInv, MemoryOK
  <2>5. Joins(p) /\ KindOK(p)' /\ MemoryOK(p)' /\ ExtractedOK(p)'
    BY <1>1, <2>2, <2>3, <2>4 DEF IndInv, Joins, KindOK, MemoryOK, ExtractedOK,
       Imports, CommitSteps
  <2>. QED  BY <1>1, <2>3, <2>5 DEF StepOK
<1>. QED  BY <1>2, <1>3

LEMMA SettingAstrayStep ==
    ASSUME IndInv, NEW p \in Procs, SettingAstray(p)
    PROVE  StepOK(p)
BY Returns DEF SettingAstray, StepOK, IndInv, TypeOK, Gentle, store

LEMMA ExtractSkipStep ==
    ASSUME IndInv, NEW p \in Procs, ExtractSkip(p)
    PROVE  StepOK(p)
<1>1. TypeOK'
  BY NextLayers DEF IndInv, TypeOK, store, ExtractSkip, Extracting
<1>2. Others(p) /\ Joins(p)
  BY NextLayers DEF IndInv, Others, Joins, ExtractSkip, Extracting
<1>3. KindOK(p)'
  BY NextLayers DEF IndInv, KindOK, ExtractSkip, Extracting
<1>4. MemoryOK(p)'
  BY NextLayers DEF IndInv, MemoryOK, ExtractSkip, Extracting
<1>5. ExtractedOK(p)'
  BY NextLayers DEF IndInv, ExtractedOK, NewKinds, ExtractSkip, Extracting
<1>6. Alone(p) \/ Gentle
  BY DEF Gentle, store, ExtractSkip
<1>. QED  BY <1>1, <1>2, <1>3, <1>4, <1>5, <1>6 DEF StepOK

LEMMA ExtractIntoStep ==
    ASSUME IndInv, NEW p \in Procs, ExtractInto(p)
    PROVE  StepOK(p)
<1>. DEFINE l == Head(job[p].todo)
<1>1. /\ pc[p] = "extract" /\ job[p].todo # <<>>
      /\ folder' = [folder EXCEPT ![l] =
                       IF @ = "none" \/ job[p].kind = "reset" THEN "part" ELSE @]
      /\ pc' = [pc EXCEPT ![p] = "untar"]
      /\ UNCHANGED <<table, file, dir, con, reg, job>>
  BY DEF ExtractInto, Extracting, Goto
<1>2. TypeOK' /\ Others(p) /\ Joins(p)
  BY <1>1 DEF IndInv, TypeOK, Labels, Others, Joins
<1>3. KindOK(p)' /\ MemoryOK(p)'
  BY <1>1 DEF IndInv, TypeOK, KindOK, MemoryOK, CommitSteps
<1>4. ExtractedOK(p)'
  BY <1>1 DEF IndInv, TypeOK, KindOK, ExtractedOK, NewKinds
<1>5. CASE job[p].kind = "reset"
  BY <1>1, <1>2, <1>3, <1>4, <1>5, OnlyDownloadsOverlap DEF StepOK
<1>6. CASE job[p].kind # "reset"
  <2>1. Gentle
    BY <1>1, <1>6 DEF IndInv, TypeOK, Gentle
  <2>. QED  BY <1>2, <1>3, <1>4, <2>1 DEF StepOK
<1>. QED  BY <1>5, <1>6

LEMMA LayerDoneStep ==
    ASSUME IndInv, NEW p \in Procs, pc[p] = "untar", LayerDone(p),
           UNCHANGED <<table, file, dir, con, reg>>
    PROVE  StepOK(p)
<1>. DEFINE l == Head(job[p].todo)
<1>1. /\ folder' = [folder EXCEPT ![l] = "whole"]
      /\ pc' = [pc EXCEPT ![p] = "extract"]
      /\ NextLayer(p) /\ job[p].todo # <<>>
  BY DEF LayerDone, Goto, IndInv, MemoryOK
<1>2. TypeOK' /\ Others(p) /\ Joins(p)
  BY <1>1, NextLayers DEF IndInv, TypeOK, Labels, Others, Joins
<1>3. KindOK(p)' /\ MemoryOK(p)'
  BY <1>1, NextLayers DEF IndInv, TypeOK, KindOK, MemoryOK, CommitSteps
<1>4. /\ ToSet(job[p].todo) = {l} \cup ToSet(job'[p].todo) /\ l \in Layers
      /\ job'[p].kind = job[p].kind /\ job'[p].layers = job[p].layers
  BY <1>1, NextLayers DEF IndInv
<1>5. /\ folder'[l] = "whole" /\ pc'[p] = "extract"
      /\ \A k : folder[k] = "whole" => folder'[k] = "whole"
  BY <1>1, <1>4 DEF IndInv, TypeOK
<1>6. ExtractedOK(p)'
  BY <1>4, <1>5 DEF IndInv, ExtractedOK
<1>7. Gentle
  BY <1>5 DEF Gentle
<1>. QED  BY <1>2, <1>3, <1>6, <1>7 DEF StepOK

LEMMA UntarStep ==
    ASSUME IndInv, NEW p \in Procs, Untar(p) \/ Unsquash(p)
    PROVE  StepOK(p)
<1>1. /\ pc[p] = "untar" /\ UNCHANGED <<table, file, dir, con, reg>>
      /\ LayerDone(p) \/ (Return(p) /\ UNCHANGED folder)
  BY Zenon DEF Untar, Unsquash
<1>2. CASE Return(p) /\ UNCHANGED folder
  BY <1>1, <1>2, Returns DEF StepOK, IndInv, TypeOK, Gentle
<1>. QED  BY <1>1, <1>2, LayerDoneStep

LEMMA ExtractDoneStep ==
    ASSUME IndInv, NEW p \in Procs, ExtractDone(p)
    PROVE  StepOK(p)
<1>1. Gentle /\ UNCHANGED <<store, con, reg>>
  BY DEF ExtractDone, Gentle, store
<1>2. CASE Return(p)
  BY <1>1, <1>2, Returns DEF StepOK, IndInv, TypeOK, store
<1>3. CASE ~Return(p)
  <2>1. /\ pc[p] = "extract" /\ job[p].todo = <<>> /\ job[p].kind # "reset"
        /\ pc' = [pc EXCEPT ![p] =
                      IF job[p].kind = "add" THEN "table" ELSE "setting"]
        /\ UNCHANGED job
    BY <1>3 DEF ExtractDone, Goto
  <2>2. TypeOK' /\ Others(p) /\ Joins(p)
    BY <1>1, <2>1 DEF IndInv, TypeOK, Labels, store, Others, Joins
  <2>3. KindOK(p)' /\ MemoryOK(p)'
    <3>1. job[p].img \in Images \cup {None}
      BY DEF IndInv, TypeOK, Jobs
    <3>. QED  BY <1>1, <2>1, <3>1 DEF IndInv, TypeOK, KindOK, MemoryOK, CommitSteps
  <2>4. ToSet(job[p].todo) = {}
    BY <2>1 DEF ToSet
  <2>5. ExtractedOK(p)'
    BY <1>1, <2>1, <2>4 DEF IndInv, ExtractedOK, store
  <2>. QED  BY <1>1, <2>2, <2>3, <2>5 DEF StepOK
<1>. QED  BY <1>2, <1>3

LEMMA SettingStep ==
    ASSUME IndInv, NEW p \in Procs, Setting(p)
    PROVE  StepOK(p)
<1>1. TypeOK'
  BY DEF IndInv, TypeOK, Labels, Setting, Goto
<1>2. Others(p) /\ Joins(p)
  BY DEF Others, Joins, Setting, Goto
<1>3. KindOK(p)'
  BY DEF IndInv, KindOK, CommitSteps, Setting, Goto
<1>4. MemoryOK(p)'
  <2>1. job[p].img \in Images
    BY DEF IndInv, TypeOK, Jobs, Setting
  <2>. QED  BY <2>1 DEF IndInv, TypeOK, MemoryOK, CommitSteps, Setting, Goto
<1>5. ExtractedOK(p)'
  BY DEF IndInv, ExtractedOK, Setting, Goto
<1>6. Alone(p) \/ Gentle
  BY DEF Gentle, Setting
<1>. QED  BY <1>1, <1>2, <1>3, <1>4, <1>5, <1>6 DEF StepOK

LEMMA MergeLayersStep ==
    ASSUME IndInv, NEW p \in Procs, MergeLayers(p)
    PROVE  StepOK(p)
<1>1. TypeOK'
  BY Returns DEF IndInv, TypeOK, Labels, MergeLayers, MakeDir, Goto
<1>2. Others(p) /\ Joins(p)
  BY Returns DEF IndInv, TypeOK, Others, Joins, MergeLayers, Goto
<1>3. KindOK(p)'
  BY Returns DEF IndInv, TypeOK, KindOK, CommitSteps, MergeLayers, Goto
<1>4. MemoryOK(p)'
  BY Returns DEF IndInv, TypeOK, MemoryOK, CommitSteps, MergeLayers, Goto
<1>5. ExtractedOK(p)'
  BY Returns DEF IndInv, TypeOK, KindOK, ExtractedOK, MergeLayers, Goto
<1>6. Alone(p) \/ Gentle
  BY ImageStoreAssumption DEF IndInv, KindOK, Beside, Alone, MergeLayers
<1>. QED  BY <1>1, <1>2, <1>3, <1>4, <1>5, <1>6 DEF StepOK

LEMMA MergeFolderStep ==
    ASSUME IndInv, NEW p \in Procs, MergeFolder(p)
    PROVE  StepOK(p)
<1>1. PICK l \in Layers :
         /\ folder' = [folder EXCEPT ![l] = "whole"]
         /\ job' = [job EXCEPT ![p].layers = <<l>>]
  BY DEF MergeFolder
<1>2. /\ pc[p] = "mergeFolder" /\ pc' = [pc EXCEPT ![p] = "mergeFile"]
      /\ UNCHANGED <<table, file, dir, con, reg>>
  BY DEF MergeFolder, Goto
<1>. DEFINE j == [job[p] EXCEPT !.layers = <<l>>]
<1>3. j \in Jobs /\ j.kind = job[p].kind /\ j.img = job[p].img /\ j.layers = <<l>>
  <2>1. <<l>> \in Seq(Layers)
    OBVIOUS
  <2>. QED  BY <2>1 DEF IndInv, TypeOK, Jobs
<1>. HIDE DEF j
<1>4. job' = [job EXCEPT ![p] = j]
  BY <1>1 DEF j
<1>5. TypeOK' /\ Others(p) /\ job'[p] = j /\ pc'[p] = "mergeFile"
  BY <1>1, <1>2, <1>3, <1>4 DEF IndInv, TypeOK, Labels, Others
<1>6. Joins(p) /\ KindOK(p)' /\ MemoryOK(p)'
  BY <1>2, <1>3, <1>5 DEF IndInv, Joins, KindOK, MemoryOK, CommitSteps
<1>7. ToSet(<<l>>) = {l} /\ folder'[l] = "whole"
  BY <1>1 DEF ToSet, IndInv, TypeOK
<1>8. ExtractedOK(p)'
  BY <1>3, <1>5, <1>7 DEF ExtractedOK
<1>9. Gentle
  BY <1>1, <1>2 DEF IndInv, TypeOK, Gentle
<1>. QED  BY <1>5, <1>6, <1>8, <1>9 DEF StepOK

LEMMA MergeFileStep ==
    ASSUME IndInv, NEW p \in Procs, MergeFile(p)
    PROVE  StepOK(p)
<1>1. TypeOK'
  BY WholeType DEF IndInv, TypeOK, Labels, MergeFile, Goto
<1>2. Others(p) /\ Joins(p)
  BY DEF Others, Joins, MergeFile, Goto
<1>3. KindOK(p)'
  BY DEF IndInv, KindOK, CommitSteps, MergeFile, Goto
<1>4. MemoryOK(p)'
  BY DEF IndInv, MemoryOK, CommitSteps, MergeFile, Goto
<1>5. ExtractedOK(p)'
  BY DEF IndInv, ExtractedOK, MergeFile
<1>6. Alone(p) \/ Gentle
  BY ImageStoreAssumption DEF IndInv, KindOK, Beside, Alone, MergeFile
<1>. QED  BY <1>1, <1>2, <1>3, <1>4, <1>5, <1>6 DEF StepOK

LEMMA TableTruncateStep ==
    ASSUME IndInv, NEW p \in Procs, TableTruncate(p)
    PROVE  StepOK(p)
<1>1. TypeOK'
  BY DEF IndInv, TypeOK, Labels, TableTruncate, Goto
<1>2. Others(p) /\ Joins(p)
  BY DEF Others, Joins, TableTruncate, Goto
<1>3. KindOK(p)'
  BY DEF IndInv, KindOK, CommitSteps, TableTruncate, Goto
<1>4. MemoryOK(p)'
  BY DEF IndInv, MemoryOK, CommitSteps, TableTruncate, Goto
<1>5. ExtractedOK(p)'
  BY DEF IndInv, ExtractedOK, TableTruncate
<1>6. Alone(p) \/ Gentle
  BY DEF Gentle, TableTruncate
<1>. QED  BY <1>1, <1>2, <1>3, <1>4, <1>5, <1>6 DEF StepOK

LEMMA TableWriteStep ==
    ASSUME IndInv, NEW p \in Procs, TableWrite(p)
    PROVE  StepOK(p)
<1>1. TypeOK'
  BY Returns DEF IndInv, TypeOK, Jobs, Entries, TableWrite
<1>2. Others(p) /\ Joins(p)
  BY Returns DEF IndInv, TableWrite
<1>3. KindOK(p)'
  BY Returns DEF IndInv, TableWrite
<1>4. MemoryOK(p)'
  BY Returns DEF IndInv, TableWrite
<1>5. ExtractedOK(p)'
  BY Returns DEF IndInv, TableWrite
<1>6. Alone(p) \/ Gentle
  BY DEF Gentle, TableWrite
<1>. QED  BY <1>1, <1>2, <1>3, <1>4, <1>5, <1>6 DEF StepOK

LEMMA DeleteFileStep ==
    ASSUME IndInv, NEW p \in Procs, DeleteFile(p)
    PROVE  StepOK(p)
<1>1. TypeOK'
  BY DEF IndInv, TypeOK, Labels, DeleteFile, Goto
<1>2. Others(p) /\ Joins(p)
  BY DEF Others, Joins, DeleteFile, Goto
<1>3. KindOK(p)'
  BY DEF IndInv, KindOK, CommitSteps, DeleteFile, Goto
<1>4. MemoryOK(p)'
  BY DEF IndInv, MemoryOK, CommitSteps, DeleteFile, Goto
<1>5. ExtractedOK(p)'
  BY DEF IndInv, KindOK, ExtractedOK, NewKinds, DeleteFile
<1>6. Alone(p) \/ Gentle
  BY ImageStoreAssumption DEF IndInv, KindOK, Beside, Alone, DeleteFile
<1>. QED  BY <1>1, <1>2, <1>3, <1>4, <1>5, <1>6 DEF StepOK

LEMMA DeleteFolderPartStep ==
    ASSUME IndInv, NEW p \in Procs, DeleteFolderPart(p)
    PROVE  StepOK(p)
<1>1. TypeOK'
  BY DEF IndInv, TypeOK, DeleteFolderPart
<1>2. Others(p) /\ Joins(p)
  BY DEF Others, Joins, DeleteFolderPart
<1>3. KindOK(p)'
  BY DEF IndInv, KindOK, DeleteFolderPart
<1>4. MemoryOK(p)'
  BY DEF IndInv, MemoryOK, DeleteFolderPart
<1>5. ExtractedOK(p)'
  BY DEF ExtractedOK, DeleteFolderPart
<1>6. Alone(p) \/ Gentle
  BY ImageStoreAssumption DEF IndInv, KindOK, Beside, Alone, DeleteFolderPart
<1>. QED  BY <1>1, <1>2, <1>3, <1>4, <1>5, <1>6 DEF StepOK

LEMMA DeleteFolderStep ==
    ASSUME IndInv, NEW p \in Procs, DeleteFolder(p)
    PROVE  StepOK(p)
<1>1. /\ pc[p] = "deleteFolder" /\ NextLayer(p) /\ job[p].todo # <<>>
      /\ folder' = [folder EXCEPT ![Head(job[p].todo)] = "none"]
      /\ pc' = [pc EXCEPT ![p] = "delete"]
      /\ UNCHANGED <<table, file, dir, con, reg>>
  BY DEF DeleteFolder, Goto, IndInv, MemoryOK
<1>2. job[p].kind \in {"delete", "permanent"}
  BY <1>1 DEF IndInv, KindOK
<1>3. TypeOK' /\ Others(p) /\ Joins(p)
  BY <1>1, NextLayers DEF IndInv, TypeOK, Labels, Others, Joins
<1>4. KindOK(p)' /\ MemoryOK(p)' /\ ExtractedOK(p)'
  BY <1>1, <1>2, NextLayers DEF IndInv, TypeOK, KindOK, MemoryOK, ExtractedOK,
     CommitSteps
<1>. QED  BY <1>1, <1>2, <1>3, <1>4, OnlyDownloadsOverlap DEF StepOK

LEMMA DeleteDirStep ==
    ASSUME IndInv, NEW p \in Procs, DeleteDir(p)
    PROVE  StepOK(p)
<1>1. TypeOK'
  BY DEF IndInv, TypeOK, Labels, DeleteDir, Goto
<1>2. Others(p) /\ Joins(p)
  BY DEF Others, Joins, DeleteDir, Goto
<1>3. KindOK(p)'
  BY DEF IndInv, KindOK, CommitSteps, DeleteDir, Goto
<1>4. MemoryOK(p)'
  BY DEF IndInv, MemoryOK, CommitSteps, DeleteDir, Goto
<1>5. ExtractedOK(p)'
  BY DEF IndInv, KindOK, ExtractedOK, NewKinds, DeleteDir
<1>6. Alone(p) \/ Gentle
  BY ImageStoreAssumption DEF IndInv, KindOK, Beside, Alone, DeleteDir
<1>. QED  BY <1>1, <1>2, <1>3, <1>4, <1>5, <1>6 DEF StepOK

LEMMA CommitTarStep ==
    ASSUME IndInv, NEW p \in Procs, CommitTar(p)
    PROVE  StepOK(p)
<1>. DEFINE base == job[p].snap[con[job[p].cid].base]
            order(l) == IF base = None THEN <<>> ELSE Append(base, l)
<1>1. PICK l \in Layers :
         /\ file' = [file EXCEPT ![l] = Whole]
         /\ job' = [job EXCEPT ![p].layers = order(l), ![p].todo = <<l>>]
  BY DEF CommitTar, LayerOrder
<1>2. /\ pc[p] = "tar" /\ pc' = [pc EXCEPT ![p] = "freeze"]
      /\ UNCHANGED <<table, folder, dir, con, reg>>
  BY DEF CommitTar, Goto
<1>3. /\ job[p] \in Jobs /\ job[p].kind = "commit" /\ job[p].img \in Images
      /\ job[p].cid \in Ids /\ con[job[p].cid] # None /\ reg[job[p].cid] # None
  BY <1>2 DEF IndInv, TypeOK, KindOK, MemoryOK, CommitSteps
<1>4. base \in Seq(Layers) \cup {None}
  <2>1. con[job[p].cid].base \in Images /\ job[p].snap \in [Images -> Entries]
    BY <1>3 DEF IndInv, TypeOK, Records, Jobs
  <2>. QED  BY <2>1 DEF Entries
<1>5. order(l) \in Seq(Layers)
  BY <1>4
<1>. DEFINE j == [job[p] EXCEPT !.layers = order(l), !.todo = <<l>>]
<1>6. /\ j \in Jobs /\ j.kind = job[p].kind /\ j.img = job[p].img
      /\ j.cid = job[p].cid /\ j.todo = <<l>> /\ <<l>> # <<>>
  <2>1. <<l>> \in Seq(Layers) /\ <<l>> # <<>>
    OBVIOUS
  <2>. QED  BY <1>3, <1>5, <2>1 DEF Jobs
<1>7. job' = [job EXCEPT ![p] = j]
  BY <1>1
<1>. HIDE DEF j, order
<1>8. TypeOK' /\ Others(p) /\ job'[p] = j /\ pc'[p] = "freeze"
  BY <1>1, <1>2, <1>6, <1>7, WholeType DEF IndInv, TypeOK, Labels, Others
<1>9. Joins(p) /\ KindOK(p)' /\ MemoryOK(p)'
  BY <1>2, <1>3, <1>6, <1>8 DEF IndInv, Joins, KindOK, MemoryOK
<1>10. ExtractedOK(p)'
  BY <1>3, <1>6, <1>8 DEF ExtractedOK, NewKinds
<1>. QED  BY <1>2, <1>3, <1>8, <1>9, <1>10, OnlyDownloadsOverlap DEF StepOK

LEMMA CommitFreezeStep ==
    ASSUME IndInv, NEW p \in Procs, CommitFreeze(p)
    PROVE  StepOK(p)
<1>1. /\ pc[p] = "freeze" /\ Goto(p, "move")
      /\ con' = [con EXCEPT ![job[p].cid] = [@ EXCEPT !.rw = FALSE]]
      /\ folder' = [folder EXCEPT ![Head(job[p].todo)] = "whole"]
      /\ UNCHANGED <<table, file, dir, reg, job>>
  BY DEF CommitFreeze
<1>2. [con[job[p].cid] EXCEPT !.rw = FALSE] \in Records
  BY <1>1 DEF IndInv, TypeOK, MemoryOK, CommitSteps, Records
<1>3. folder' \in [Layers -> {"none", "part", "whole"}]
  BY <1>1 DEF IndInv, TypeOK
<1>. QED  BY <1>1, <1>2, <1>3, CommitContainer DEF IndInv, TypeOK, CommitSteps

LEMMA CommitMoveStep ==
    ASSUME IndInv, NEW p \in Procs, CommitMove(p)
    PROVE  StepOK(p)
<1>1. /\ pc[p] = "move" /\ Goto(p, "copySetting")
      /\ con' = [con EXCEPT ![job[p].cid] = [@ EXCEPT !.home = Folder[job[p].img]]]
      /\ MakeDir(Folder[job[p].img])
      /\ UNCHANGED <<table, file, folder, reg, job>>
  BY DEF CommitMove
<1>2. [con[job[p].cid] EXCEPT !.home = Folder[job[p].img]] \in Records
  <2>1. /\ con[job[p].cid] \in Records /\ Folder[job[p].img] \in Folders
    BY <1>1, FolderType DEF IndInv, TypeOK, MemoryOK, CommitSteps
  <2>. QED  BY <2>1 DEF Records
<1>3. dir' \in [Folders -> {"none", "made", "set"}]
  BY <1>1 DEF IndInv, TypeOK, MakeDir
<1>. QED  BY <1>1, <1>2, <1>3, CommitContainer DEF IndInv, TypeOK, CommitSteps

LEMMA CommitSettingStep ==
    ASSUME IndInv, NEW p \in Procs, CommitSetting(p)
    PROVE  StepOK(p)
<1>1. TypeOK'
  <2>1. UNCHANGED <<table, file, folder, con, reg>>
    BY DEF CommitSetting
  <2>2. dir' \in [Folders -> {"none", "made", "set"}]
    BY DEF CommitSetting, IndInv, TypeOK
  <2>3. pc' \in [Procs -> Labels] /\ job' \in [Procs -> Jobs]
    BY Returns DEF CommitSetting, Goto, IndInv, TypeOK, Labels
  <2>. QED  BY <2>1, <2>2, <2>3 DEF IndInv, TypeOK
<1>2. Others(p) /\ Joins(p)
  BY Returns DEF IndInv, TypeOK, Others, Joins, CommitSetting, Goto
<1>3. KindOK(p)'
  BY Returns DEF IndInv, TypeOK, KindOK, CommitSteps, CommitSetting, Goto
<1>4. MemoryOK(p)'
  BY Returns DEF IndInv, TypeOK, MemoryOK, CommitSteps, CommitSetting, Goto
<1>5. ExtractedOK(p)'
  BY Returns DEF IndInv, KindOK, ExtractedOK, NewKinds, CommitSteps,
     CommitSetting
<1>6. Alone(p) \/ Gentle
  BY DEF Gentle, CommitSetting
<1>. QED  BY <1>1, <1>2, <1>3, <1>4, <1>5, <1>6 DEF StepOK

LEMMA CommitThawStep ==
    ASSUME IndInv, NEW p \in Procs, CommitThaw(p)
    PROVE  StepOK(p)
<1>1. /\ pc[p] = "thaw" /\ Goto(p, "record")
      /\ con' = [con EXCEPT ![job[p].cid] = [@ EXCEPT !.rw = TRUE]]
      /\ UNCHANGED <<store, reg, job>>
  BY DEF CommitThaw
<1>2. [con[job[p].cid] EXCEPT !.rw = TRUE] \in Records
  BY <1>1 DEF IndInv, TypeOK, MemoryOK, CommitSteps, Records
<1>. QED  BY <1>1, <1>2, CommitContainer DEF IndInv, TypeOK, CommitSteps,
             store

LEMMA CommitRecordStep ==
    ASSUME IndInv, NEW p \in Procs, CommitRecord(p)
    PROVE  StepOK(p)
<1>. DEFINE r == con[job[p].cid]
            layers == job[p].todo \o r.layers
<1>1. /\ pc[p] = "record" /\ Goto(p, "register")
      /\ con' = [con EXCEPT ![job[p].cid].layers = job[p].todo \o @]
      /\ UNCHANGED <<store, reg, job>>
  BY DEF CommitRecord
<1>2. r \in Records /\ job[p].todo \in Seq(Layers) /\ job[p].cid \in Ids
  BY <1>1 DEF IndInv, TypeOK, MemoryOK, CommitSteps, Jobs
<1>3. layers \in Seq(Layers)
  BY <1>2 DEF Records
<1>. HIDE DEF layers
<1>4. [r EXCEPT !.layers = layers] \in Records
  BY <1>2, <1>3 DEF Records
<1>5. con' = [con EXCEPT ![job[p].cid] = [r EXCEPT !.layers = layers]]
  BY <1>1, <1>2 DEF layers, IndInv, TypeOK
<1>. QED  BY <1>1, <1>4, <1>5, CommitContainer DEF IndInv, TypeOK,
             CommitSteps, store

LEMMA CommitRegisterStep ==
    ASSUME IndInv, NEW p \in Procs, CommitRegister(p)
    PROVE  StepOK(p)
<1>0. Folder[job[p].img] \in Folders /\ Folder[job[p].img] # None
  BY FolderType, NoneIn DEF IndInv, MemoryOK, CommitRegister
<1>1. TypeOK'
  BY <1>0 DEF IndInv, TypeOK, MemoryOK, Labels, store, CommitRegister, Goto
<1>2. Others(p) /\ Joins(p)
  BY DEF Others, Joins, CommitRegister, Goto
<1>3. KindOK(p)'
  BY DEF IndInv, KindOK, CommitSteps, CommitRegister, Goto
<1>4. MemoryOK(p)'
  BY <1>0 DEF IndInv, TypeOK, MemoryOK, CommitSteps, CommitRegister, Goto
<1>5. ExtractedOK(p)'
  BY DEF IndInv, KindOK, ExtractedOK, NewKinds, CommitSteps, CommitRegister
<1>6. Alone(p) \/ Gentle
  BY ImageStoreAssumption DEF IndInv, KindOK, Beside, Alone, CommitSteps,
     CommitRegister
<1>. QED  BY <1>1, <1>2, <1>3, <1>4, <1>5, <1>6 DEF StepOK

LEMMA StopStep ==
    ASSUME IndInv, NEW p \in Procs, Stop(p)
    PROVE  StepOK(p)
<1>1. TypeOK'
  BY Returns DEF IndInv, TypeOK, store, Stop
<1>2. Others(p) /\ Joins(p)
  BY Returns DEF IndInv, Stop
<1>3. KindOK(p)'
  BY Returns DEF IndInv, Stop
<1>4. MemoryOK(p)'
  BY Returns DEF IndInv, Stop
<1>5. ExtractedOK(p)'
  BY Returns DEF IndInv, Stop
<1>6. Alone(p) \/ Gentle
  BY DEF Gentle, store, Stop
<1>. QED  BY <1>1, <1>2, <1>3, <1>4, <1>5, <1>6 DEF StepOK

LEMMA FetchCopyStep ==
    ASSUME IndInv, NEW p \in Procs, FetchCopy(p)
    PROVE  StepOK(p)
<1>. DEFINE l == Head(job[p].todo)
            n == job[p].off + 1
            old == file[l]
            new == [k \in 1..(IF Len(old) > n THEN Len(old) ELSE n) |->
                       k = n \/ (k <= Len(old) /\ old[k])]
<1>1. /\ pc[p] = "copy" /\ job[p].off < Size
      /\ file' = [file EXCEPT ![l] = new]
      /\ job' = [job EXCEPT ![p].off = n]
      /\ UNCHANGED <<table, folder, dir, con, reg, pc>>
  BY DEF FetchCopy
<1>2. /\ l \in Layers /\ old \in Seq(BOOLEAN) /\ job[p] \in Jobs
      /\ n \in 0..Size /\ n \in Nat
  BY <1>1, ImageStoreAssumption DEF IndInv, TypeOK, MemoryOK, Jobs
<1>3. new \in Seq(BOOLEAN)
  BY <1>2, CopyType, Zenon
<1>. HIDE DEF new
<1>4. TypeOK'
  BY <1>1, <1>2, <1>3 DEF IndInv, TypeOK, Jobs
<1>5. Others(p) /\ Joins(p) /\ KindOK(p)'
  BY <1>1, <1>2 DEF IndInv, KindOK, Others, Joins
<1>6. MemoryOK(p)' /\ ExtractedOK(p)'
  BY <1>1, <1>2, <1>3, NoneIn DEF IndInv, MemoryOK, ExtractedOK
<1>7. Gentle
  BY <1>1, <1>2, <1>3, NoneIn DEF Gentle
<1>. QED  BY <1>4, <1>5, <1>6, <1>7 DEF StepOK

-----------------------------------------------------------------------------
(* Starting a command *)

LEMMA Begins ==
    ASSUME IndInv, NEW p \in Procs, NEW kind \in AllKinds,
           NEW i \in Images \cup {None}, NEW layers \in Seq(Layers),
           NEW label \in Labels,
           MayStart(p, kind), Begin(p, kind, i, layers, label)
    PROVE  /\ pc' \in [Procs -> Labels] /\ job' \in [Procs -> Jobs]
           /\ Others(p) /\ Joins(p) /\ pc'[p] = label
           /\ job'[p].kind = kind /\ kind \in Kinds /\ job'[p].img = i
           /\ job'[p].layers = layers /\ job'[p].todo = layers
           /\ table # Torn => job'[p].snap = table
<1>. DEFINE snap == IF table = Torn THEN NoJob.snap ELSE table
            j == [NoJob EXCEPT !.kind = kind, !.img = i, !.layers = layers,
                               !.todo = layers, !.snap = snap]
<1>1. /\ pc' = [pc EXCEPT ![p] = label] /\ job' = [job EXCEPT ![p] = j]
  BY DEF Begin, Goto
<1>2. snap \in [Images -> Entries] /\ 0 \in 0..Size
  BY ImageStoreAssumption DEF IndInv, TypeOK, NoJob, Entries
<1>. HIDE DEF snap
<1>3. /\ j \in Jobs /\ j.kind = kind /\ j.img = i
      /\ j.layers = layers /\ j.todo = layers /\ j.snap = snap
  BY <1>2 DEF NoJob, Jobs
<1>. HIDE DEF j
<1>4. job'[p] = j /\ pc'[p] = label /\ Others(p)
  BY <1>1 DEF IndInv, TypeOK, Others
<1>5. pc' \in [Procs -> Labels] /\ job' \in [Procs -> Jobs]
  BY <1>1, <1>3 DEF IndInv, TypeOK
<1>6. Joins(p) /\ kind \in Kinds
  BY <1>3, <1>4 DEF MayStart, Joins
<1>. QED  BY <1>3, <1>4, <1>5, <1>6 DEF snap

LEMMA StartStep ==
    ASSUME IndInv, NEW p \in Procs, NEW kind \in AllKinds,
           NEW i \in Images \cup {None}, NEW layers \in Seq(Layers),
           NEW label \in {"fetch", "merge", "extract", "delete"},
           MayStart(p, kind), Begin(p, kind, i, layers, label),
           i = None => kind = "singularity",
           label = "fetch" => kind \in Imports \cup {"merge"},
           label = "merge" => kind = "merge",
           label = "extract" => kind = "reset",
           label = "delete" => kind \in {"delete", "permanent"},
           dir' \in [Folders -> {"none", "made", "set"}],
           UNCHANGED <<table, file, folder, con, reg>>
    PROVE  StepOK(p)
<1>1. label \in Labels
  BY DEF Labels
<1>2. TypeOK' /\ Others(p) /\ Joins(p)
  BY <1>1, Begins DEF IndInv, TypeOK
<1>3. KindOK(p)' /\ MemoryOK(p)'
  BY <1>1, Begins DEF KindOK, MemoryOK, Imports, CommitSteps
<1>4. ExtractedOK(p)'
  BY <1>1, Begins DEF ExtractedOK, NewKinds
<1>. QED  BY <1>2, <1>3, <1>4 DEF StepOK, Gentle

LEMMA ManifestType ==
    ASSUME NEW i \in DOMAIN Manifest
    PROVE  i \in Images /\ Manifest[i] \in Seq(Layers)
<1>1. /\ i \in Images
      /\ Manifest[i] \in Seq(Layers \ (Fresh \cup Squash)) \cup Seq(Squash)
      /\ Squash \subseteq Layers
  BY ImageStoreAssumption
<1>. QED  BY <1>1

LEMMA ImportStep ==
    ASSUME IndInv, NEW p \in Procs, NEW k \in {"download", "load", "skopeo", "add"},
           NEW i \in DOMAIN Manifest, Import(p, k, i)
    PROVE  StepOK(p)
<1>1. dir' \in [Folders -> {"none", "made", "set"}]
  BY DEF Import, MakeDir, IndInv, TypeOK
<1>. QED  BY <1>1, StartStep, ManifestType, NoneIn DEF Import, AllKinds, Imports

LEMMA LoadSingularityStep ==
    ASSUME IndInv, NEW p \in Procs, NEW i \in DOMAIN Manifest, LoadSingularity(p, i)
    PROVE  StepOK(p)
<1>. DEFINE img == IF table = Torn THEN None ELSE i
<1>1. img \in Images \cup {None} /\ Begin(p, "singularity", img, Manifest[i], "fetch")
  BY ManifestType DEF LoadSingularity
<1>. HIDE DEF img
<1>. QED  BY <1>1, StartStep, ManifestType DEF LoadSingularity, AllKinds,
             Imports, IndInv, TypeOK, store

LEMMA MergeStep ==
    ASSUME IndInv, NEW p \in Procs, NEW i \in DOMAIN MergeName, Merge(p, i)
    PROVE  StepOK(p)
<1>1. /\ i \in DOMAIN Manifest /\ i \in Images /\ MergeName[i] \in Images
      /\ Manifest[i] \in Seq(Layers)
  BY ManifestType, ImageStoreAssumption
<1>2. table # Torn /\ MayStart(p, "merge") /\ UNCHANGED <<store, con, reg>>
  BY DEF Merge
<1>3. table[i] # None => table[i] \in Seq(Layers)
  BY <1>1, <1>2 DEF IndInv, TypeOK, Entries
<1>4. \/ Begin(p, "merge", MergeName[i], Manifest[i], "fetch")
      \/ table[i] # None /\ Begin(p, "merge", MergeName[i], table[i], "merge")
  BY Zenon DEF Merge
<1>. QED  BY <1>1, <1>2, <1>3, <1>4, StartStep, NoneIn DEF AllKinds, IndInv,
             TypeOK, store

LEMMA ResetStep ==
    ASSUME IndInv, NEW p \in Procs, NEW i \in Images, Reset(p, i)
    PROVE  StepOK(p)
<1>1. table[i] \in Seq(Layers)
  BY DEF Reset, IndInv, TypeOK, Entries
<1>. QED  BY <1>1, StartStep, NoneIn DEF Reset, AllKinds, IndInv, TypeOK, store

LEMMA DeleteStep ==
    ASSUME IndInv, NEW p \in Procs, NEW k \in {"delete", "permanent"},
           NEW i \in Images, Delete(p, i, k)
    PROVE  StepOK(p)
<1>. DEFINE layers == IF k = "permanent" THEN table[i] ELSE <<>>
<1>1. table[i] \in Seq(Layers) /\ <<>> \in Seq(Layers)
  BY DEF Delete, IndInv, TypeOK, Entries
<1>2. layers \in Seq(Layers)
  BY <1>1
<1>. HIDE DEF layers
<1>3. /\ Begin(p, k, i, layers, "delete") /\ MayStart(p, k) /\ table # Torn
      /\ UNCHANGED <<store, con, reg>>
  BY DEF Delete, layers
<1>. QED  BY <1>2, <1>3, StartStep, NoneIn DEF AllKinds, IndInv, TypeOK, store

LEMMA AloneStep ==
    ASSUME IndInv, NEW p \in Procs, NEW k \in AllKinds \ {"download"}, MayStart(p, k),
           con' \in [Ids -> Records \cup {None}], reg' \in [Ids -> Folders \cup {None}],
           UNCHANGED <<store, pc, job>>
    PROVE  StepOK(p)
<1>1. Alone(p) /\ pc[p] = "idle"
  BY ImageStoreAssumption DEF MayStart, Alone
<1>2. TypeOK' /\ Others(p) /\ Joins(p)
  BY <1>1 DEF IndInv, TypeOK, store, Others, Joins
<1>. QED  BY <1>1, <1>2 DEF StepOK, KindOK, MemoryOK, ExtractedOK, CommitSteps

LEMMA CreateStep ==
    ASSUME IndInv, NEW p \in Procs, NEW c \in Ids, NEW i \in Images, Create(p, c, i)
    PROVE  StepOK(p)
<1>1. table[i] \in Seq(Layers)
  BY DEF Create, IndInv, TypeOK, Entries
<1>2. Reverse(table[i]) \in Seq(Layers)
  BY <1>1, ReverseType
<1>. DEFINE r == [home |-> Folder[i], base |-> i, layers |-> Reverse(table[i]),
                 rw |-> TRUE]
<1>3. r \in Records /\ Folder[i] \in Folders
  BY <1>2, FolderType DEF Records
<1>. HIDE DEF r
<1>4. con' = [con EXCEPT ![c] = r] /\ reg' = [reg EXCEPT ![c] = Folder[i]]
      /\ MayStart(p, "create") /\ UNCHANGED <<store, pc, job>>
  BY DEF Create, r
<1>. QED  BY <1>3, <1>4, AloneStep DEF IndInv, TypeOK, AllKinds

LEMMA DestroyStep ==
    ASSUME IndInv, NEW p \in Procs, NEW c \in Ids, Destroy(p, c)
    PROVE  StepOK(p)
BY AloneStep DEF Destroy, IndInv, TypeOK, AllKinds

LEMMA CommitStep ==
    ASSUME IndInv, NEW p \in Procs, NEW c \in Ids, NEW n \in CommitNames, Commit(p, c, n)
    PROVE  StepOK(p)
<1>. DEFINE j == [NoJob EXCEPT !.kind = "commit", !.img = n, !.cid = c, !.snap = table]
<1>1. /\ pc' = [pc EXCEPT ![p] = "tar"] /\ job' = [job EXCEPT ![p] = j]
      /\ MayStart(p, "commit") /\ table # Torn /\ con[c] # None /\ reg[c] # None
      /\ UNCHANGED <<store, con, reg>>
  BY DEF Commit, Goto
<1>2. n \in Images /\ table \in [Images -> Entries] /\ <<>> \in Seq(Layers) /\ 0 \in 0..Size
  BY <1>1, ImageStoreAssumption DEF IndInv, TypeOK
<1>3. j \in Jobs /\ j.kind = "commit" /\ j.img = n /\ j.cid = c
  BY <1>2 DEF NoJob, Jobs, AllKinds
<1>. HIDE DEF j
<1>4. TypeOK' /\ Others(p) /\ pc'[p] = "tar" /\ job'[p] = j
  BY <1>1, <1>3 DEF IndInv, TypeOK, Labels, store, Others
<1>5. Joins(p) /\ KindOK(p)' /\ MemoryOK(p)' /\ ExtractedOK(p)'
  BY <1>1, <1>2, <1>3, <1>4, NoneIn DEF MayStart, Joins, KindOK, MemoryOK,
     ExtractedOK
<1>. QED  BY <1>1, <1>4, <1>5 DEF StepOK, Gentle, store

-----------------------------------------------------------------------------
(* Every step *)

LEMMA WorkStep ==
    ASSUME IndInv, NEW p \in Procs, Step(p)
    PROVE  StepOK(p)
BY FetchSkipStep, FetchRefusedStep, FetchOpenStep, FetchCopyStep,
   FetchCopiedStep, FetchRenameStep, FetchSquashStep, FetchDoneStep,
   FetchAstrayStep, ExtractSkipStep, ExtractIntoStep, UntarStep,
   ExtractDoneStep, SettingStep, SettingAstrayStep, MergeLayersStep, MergeFolderStep, MergeFileStep, TableTruncateStep,
   TableWriteStep, DeleteFileStep, DeleteFolderPartStep, DeleteFolderStep,
   DeleteDirStep, CommitTarStep, CommitFreezeStep, CommitMoveStep,
   CommitSettingStep, CommitThawStep, CommitRecordStep, CommitRegisterStep
   DEF Step

LEMMA BeginStep ==
    ASSUME IndInv, NEW p \in Procs, Start(p)
    PROVE  StepOK(p)
BY ImportStep, LoadSingularityStep, MergeStep, ResetStep, DeleteStep,
   CreateStep, DestroyStep, CommitStep DEF Start

LEMMA Combined ==
    ASSUME IndInv, NEW p \in Procs, StepOK(p)
    PROVE  IndInv'
<1>1. ASSUME NEW q \in Procs, q # p
      PROVE  KindOK(q)' /\ MemoryOK(q)' /\ ExtractedOK(q)'
  <2>1. pc'[q] = pc[q] /\ job'[q] = job[q]
    BY <1>1 DEF StepOK, Others
  <2>2. KindOK(q) /\ MemoryOK(q) /\ ExtractedOK(q) /\ job[q] \in Jobs
    BY DEF IndInv, TypeOK
  <2>3. KindOK(q)'
    BY <2>1, <2>2 DEF KindOK
  <2>4. CASE pc[q] = "idle"
    BY <2>1, <2>3, <2>4 DEF MemoryOK, ExtractedOK, CommitSteps
  <2>5. CASE pc[q] # "idle"
    <3>1. Gentle
      BY <1>1, <2>5 DEF StepOK, Alone
    <3>2. MemoryOK(q)'
      <4>1. pc[q] = "copy" => Head(job[q].todo) \in Layers
        BY <2>2, HeadAndTail DEF MemoryOK, Jobs
      <4>2. /\ con' = con /\ reg' = reg
            /\ pc[q] = "copy" => file'[Head(job[q].todo)] # None
        BY <2>2, <3>1, <4>1 DEF MemoryOK, Gentle
      <4>. QED  BY <2>1, <2>2, <4>2 DEF MemoryOK
    <3>3. ExtractedOK(q)'
      <4>1. ToSet(job[q].layers) \subseteq Layers
        BY <2>2, ToSetType DEF Jobs
      <4>2. \A l \in ToSet(job[q].layers) :
                folder[l] = "whole" => folder'[l] = "whole"
        BY <3>1, <4>1 DEF Gentle
      <4>. QED  BY <2>1, <2>2, <4>2 DEF ExtractedOK
    <3>. QED  BY <2>3, <3>2, <3>3
  <2>. QED  BY <2>4, <2>5
<1>2. ASSUME NEW q \in Procs, NEW r \in Procs, q # r
      PROVE  Beside(q, r)'
  <2>1. CASE q # p /\ r # p
    BY <2>1, <1>2 DEF StepOK, Others, IndInv, Beside
  <2>2. ASSUME NEW o \in Procs, o # p
        PROVE  Beside(p, o)' /\ Beside(o, p)'
    <3>1. pc'[o] = pc[o] /\ job'[o] = job[o] /\ Beside(p, o)
      BY <2>2 DEF StepOK, Others, IndInv
    <3>. QED  BY <3>1 DEF StepOK, Joins, Beside
  <2>. QED  BY <1>2, <2>1, <2>2
<1>. QED  BY <1>1, <1>2 DEF StepOK, IndInv

LEMMA Initially == Init => IndInv
<1>1. [i \in Images |-> None] \in [Images -> Entries]
  BY DEF Entries
<1>2. NoJob \in Jobs
  BY <1>1, ImageStoreAssumption DEF NoJob, Jobs, AllKinds
<1>. QED  BY <1>1, <1>2 DEF Init, IndInv, TypeOK, Labels, KindOK, MemoryOK,
             ExtractedOK, CommitSteps, Beside

LEMMA Inductive == IndInv /\ [Next]_vars => IndInv'
<1>. SUFFICES ASSUME IndInv, [Next]_vars PROVE IndInv'
  OBVIOUS
<1>1. CASE UNCHANGED vars
  BY <1>1 DEF vars, store, IndInv, TypeOK, KindOK, MemoryOK, ExtractedOK,
     Beside
<1>2. ASSUME NEW p \in Procs, Start(p) \/ Step(p) \/ Stop(p)
      PROVE  IndInv'
  BY <1>2, BeginStep, WorkStep, StopStep, Combined
<1>. QED  BY <1>1, <1>2 DEF Next

(* Every variable keeps its type, whatever commands are in use, overlap    *)
(* and are killed (container.go, docker.go: the commands on images).       *)
THEOREM TypeCorrect == Spec => []TypeOK
<1>1. IndInv => TypeOK
  BY DEF IndInv
<1>. QED  BY <1>1, Initially, Inductive, PTL DEF Spec

(* An image that download, load or merge lists is extracted, whatever      *)
(* killed commands and downloads beside it leave (DockerDownload,          *)
(* DockerLoad, SkopeoLoad, SingularityLoad, DockerMerge).                  *)
THEOREM NewImagesWhole == Spec => NewImagesExtracted
<1>. DEFINE Listed(p) ==
       /\ pc[p] = "write" /\ pc'[p] = "idle" /\ table' # table
       /\ job[p].kind \in NewKinds
       => \A l \in ToSet(table'[job[p].img]) : folder[l] = "whole"
<1>1. ASSUME IndInv, [Next]_vars, NEW p \in Procs PROVE Listed(p)
  <2>. SUFFICES ASSUME pc[p] = "write", pc'[p] = "idle", table' # table,
                       job[p].kind \in NewKinds
                PROVE  \A l \in ToSet(table'[job[p].img]) : folder[l] = "whole"
    OBVIOUS
  <2>1. PICK q \in Procs : Start(q) \/ Step(q) \/ Stop(q)
    BY <1>1 DEF Next, vars, store
  <2>2. StepOK(q)
    BY <1>1, <2>1, BeginStep, WorkStep, StopStep
  <2>3. q = p
    BY <2>2 DEF StepOK, Others
  <2>4. TableWrite(p)
    BY <2>1, <2>3 DEF Start, Step, Stop, store, Import, LoadSingularity,
       Merge, Reset, Delete, Create, Destroy, Commit, FetchSkip, FetchRefused,
       FetchOpen, FetchCopy, FetchCopied, FetchRename, FetchSquash, FetchDone,
       FetchAstray, ExtractSkip, ExtractInto, Untar, Unsquash, ExtractDone,
       Setting, SettingAstray,
       MergeLayers, MergeFolder, MergeFile, TableTruncate, DeleteFile,
       DeleteFolderPart, DeleteFolder, DeleteDir, CommitTar, CommitFreeze,
       CommitMove, CommitSetting, CommitThaw, CommitRecord, CommitRegister
  <2>5. table'[job[p].img] = job[p].layers
    BY <1>1, <2>4 DEF TableWrite, NewKinds, IndInv, TypeOK, Jobs, MemoryOK
  <2>. QED  BY <1>1, <2>5 DEF IndInv, ExtractedOK
<1>2. IndInv /\ [Next]_vars => [\A p \in Procs : Listed(p)]_vars
  BY <1>1
<1>. QED  BY <1>2, Initially, Inductive, PTL DEF Spec, NewImagesExtracted,
             NewKinds

-----------------------------------------------------------------------------
(* Containers are found *)

LEMMA FoundKept ==
    ASSUME IndInv, FoundInv, NEW p \in Procs, StepOK(p),
           UNCHANGED <<con, reg>>,
           pc'[p] \in {"delete", "deleteFolder"} =>
               pc[p] \in {"delete", "deleteFolder"} /\ job'[p].img = job[p].img
    PROVE  FoundInv'
BY DEF FoundInv, StepOK, Others

LEMMA FoundAlone ==
    ASSUME IndInv, FoundInv, NEW p \in Procs, StepOK(p), Alone(p),
           pc'[p] \notin {"delete", "deleteFolder"},
           \A c \in Ids :
               /\ reg'[c] # None => con'[c] # None /\ con'[c].home = reg'[c]
               /\ con'[c] # None => con'[c].home = Folder[con'[c].base]
    PROVE  FoundInv'
BY DEF FoundInv, StepOK, Others, Alone

LEMMA FoundInStart ==
    ASSUME "commit" \notin Kinds, FoldersApart, IndInv, FoundInv,
           NEW p \in Procs, Start(p)
    PROVE  FoundInv'
<1>. USE BeginStep
<1>1. ASSUME NEW c \in Ids, NEW i \in Images, Create(p, c, i)
      PROVE  FoundInv'
  <2>. DEFINE r == [home |-> Folder[i], base |-> i,
                    layers |-> Reverse(table[i]), rw |-> TRUE]
  <2>1. /\ con' = [con EXCEPT ![c] = r] /\ reg' = [reg EXCEPT ![c] = Folder[i]]
        /\ Alone(p) /\ pc'[p] = "idle"
    BY <1>1, ImageStoreAssumption DEF Create, MayStart, Alone
  <2>2. table[i] \in Seq(Layers)
    BY <1>1 DEF Create, IndInv, TypeOK, Entries
  <2>3. r \in Records
    BY <2>2, ReverseType, FolderType DEF Records
  <2>4. r # None /\ r.home = Folder[i] /\ r.base = i
    BY <2>3, NoneAssumption
  <2>. HIDE DEF r
  <2>. QED  BY <2>1, <2>4, FoundAlone DEF FoundInv, IndInv, TypeOK
<1>2. ASSUME NEW c \in Ids, Destroy(p, c)
      PROVE  FoundInv'
  <2>1. /\ con' = [con EXCEPT ![c] =
                     IF @ # None /\ @.home = reg[c] THEN None ELSE @]
        /\ reg' = [reg EXCEPT ![c] = None] /\ Alone(p) /\ pc'[p] = "idle"
    BY <1>2, ImageStoreAssumption DEF Destroy, MayStart, Alone
  <2>. QED  BY <2>1, FoundAlone DEF FoundInv, IndInv, TypeOK
<1>3. ASSUME NEW k \in {"delete", "permanent"}, NEW i \in Images, Delete(p, i, k)
      PROVE  FoundInv'
  <2>1. /\ UNCHANGED <<con, reg>> /\ job'[p].img = i /\ Others(p)
        /\ \A c \in Ids : reg[c] # None =>
              con[c] # None /\ con[c].home = reg[c] /\ con[c].base # i
    BY <1>3 DEF Delete, Begin, TypeOK, StepOK
  <2>2. Alone(p)
    BY <1>3, ImageStoreAssumption DEF Delete, MayStart, Alone
  <2>3. ASSUME NEW c \in Ids PROVE reg[c] \notin Inside[Folder[i]]
    <3>1. CASE reg[c] = None
      BY <3>1, FolderType, NoneIn, ImageStoreAssumption
    <3>2. CASE reg[c] # None
      <4>1. con[c] \in Records /\ con[c].base # i /\ reg[c] = Folder[con[c].base]
        BY <2>1, <3>2 DEF FoundInv, IndInv, TypeOK
      <4>. QED  BY <4>1 DEF FoldersApart, Records
    <3>. QED  BY <3>1, <3>2
  <2>. QED  BY <2>1, <2>2, <2>3 DEF FoundInv, Others
<1>4. CASE /\ UNCHANGED <<con, reg>>
           /\ pc'[p] \notin {"delete", "deleteFolder"}
  BY <1>4, FoundKept
<1>5. ASSUME NEW k \in {"download", "load", "skopeo", "add"},
             NEW i \in DOMAIN Manifest, Import(p, k, i)
      PROVE  FoundInv'
  BY <1>4, <1>5 DEF Import, Begin, Goto, IndInv, TypeOK
<1>6. ASSUME NEW i \in DOMAIN Manifest, LoadSingularity(p, i)
      PROVE  FoundInv'
  BY <1>4, <1>6 DEF LoadSingularity, Begin, Goto, IndInv, TypeOK
<1>7. ASSUME NEW i \in DOMAIN MergeName, Merge(p, i)
      PROVE  FoundInv'
  BY <1>4, <1>7 DEF Merge, Begin, Goto, IndInv, TypeOK
<1>8. ASSUME NEW i \in Images, Reset(p, i)
      PROVE  FoundInv'
  BY <1>4, <1>8 DEF Reset, Begin, Goto, IndInv, TypeOK
<1>. QED  BY <1>1, <1>2, <1>3, <1>5, <1>6, <1>7, <1>8 DEF Start, Commit,
             MayStart

LEMMA FoundInStep ==
    ASSUME "commit" \notin Kinds, IndInv, FoundInv,
           NEW p \in Procs, Step(p) \/ Stop(p)
    PROVE  FoundInv'
<1>1. StepOK(p)
  BY WorkStep, StopStep
<1>2. pc[p] # "idle" => job[p].kind # "commit" /\ pc[p] \notin CommitSteps
  BY DEF IndInv, KindOK, CommitSteps
<1>3. CASE DeleteDir(p)
  <2>1. /\ pc[p] = "delete" /\ pc'[p] = "table" /\ UNCHANGED reg
        /\ con' = [c \in Ids |->
                      IF con[c] # None /\ con[c].home \in Inside[Folder[job[p].img]]
                      THEN None ELSE con[c]]
    BY <1>3 DEF DeleteDir, Goto, IndInv, TypeOK
  <2>2. Alone(p)
    BY <2>1, OnlyDownloadsOverlap DEF IndInv, KindOK
  <2>. QED  BY <1>1, <2>1, <2>2, FoundAlone DEF FoundInv
<1>4. CASE DeleteFile(p) \/ DeleteFolderPart(p) \/ DeleteFolder(p)
  <2>1. UNCHANGED <<con, reg>> /\ pc[p] \in {"delete", "deleteFolder"}
    BY <1>4 DEF DeleteFile, DeleteFolderPart, DeleteFolder
  <2>2. job'[p].img = job[p].img
    BY <1>4, NextLayers DEF DeleteFile, DeleteFolderPart, DeleteFolder,
       IndInv, MemoryOK
  <2>. QED  BY <1>1, <2>1, <2>2, FoundKept
<1>5. CASE ~DeleteDir(p) /\ ~DeleteFile(p) /\ ~DeleteFolderPart(p) /\ ~DeleteFolder(p)
  <2>1. UNCHANGED <<con, reg>>
    BY <1>2, <1>5 DEF Step, Stop, FetchSkip, FetchRefused, FetchOpen,
       FetchCopy, FetchCopied, FetchRename, FetchSquash, FetchDone,
       FetchAstray, ExtractSkip, ExtractInto, Untar, Unsquash, ExtractDone,
       Setting, SettingAstray,
       MergeLayers, MergeFolder, MergeFile, TableTruncate, TableWrite,
       CommitTar, CommitFreeze, CommitMove, CommitSetting, CommitThaw,
       CommitRecord, CommitRegister, CommitSteps
  <2>2. pc'[p] \notin {"delete", "deleteFolder"}
    <3>1. CASE \/ FetchSkip(p) \/ FetchRefused(p) \/ FetchOpen(p) \/ FetchCopy(p)
               \/ FetchCopied(p) \/ FetchRename(p) \/ FetchSquash(p) \/ FetchDone(p)
               \/ FetchAstray(p)
      BY <3>1 DEF FetchSkip, FetchRefused, FetchOpen, FetchCopy, FetchCopied,
         FetchRename, FetchSquash, FetchDone, FetchAstray, Fetching, Return,
         Goto, IndInv, TypeOK
    <3>2. CASE \/ ExtractSkip(p) \/ ExtractInto(p) \/ Untar(p) \/ Unsquash(p)
               \/ ExtractDone(p) \/ Setting(p) \/ SettingAstray(p)
      BY <3>2 DEF ExtractSkip, ExtractInto, Extracting, Untar, Unsquash,
         LayerDone, ExtractDone, Setting, SettingAstray, Return, Goto, IndInv,
         TypeOK
    <3>3. CASE \/ MergeLayers(p) \/ MergeFolder(p) \/ MergeFile(p)
               \/ TableTruncate(p) \/ TableWrite(p) \/ Stop(p)
      BY <3>3 DEF MergeLayers, MergeFolder, MergeFile, TableTruncate, TableWrite,
         Stop, Return, Goto, IndInv, TypeOK
    <3>4. CASE \/ CommitTar(p) \/ CommitFreeze(p) \/ CommitMove(p) \/ CommitSetting(p)
               \/ CommitThaw(p) \/ CommitRecord(p) \/ CommitRegister(p)
      BY <3>4 DEF CommitTar, CommitFreeze, CommitMove, CommitSetting, CommitThaw,
         CommitRecord, CommitRegister, Return, Goto, IndInv, TypeOK
    <3>. QED  BY <1>2, <1>5, <3>1, <3>2, <3>3, <3>4 DEF Step
  <2>. QED  BY <1>1, <2>1, <2>2, FoundKept
<1>. QED  BY <1>3, <1>4, <1>5

(* Without commit no delete takes a registered container along and none is *)
(* kept from its work by a record it misses, whatever is killed and        *)
(* whatever overlaps (CommonDelete, DockerReset, CommonCreate, Destroy).   *)
THEOREM ContainersFound ==
    ASSUME "commit" \notin Kinds, FoldersApart
    PROVE  Spec => []RegisteredFound
<1>1. Init => FoundInv
  BY DEF Init, FoundInv
<1>2. IndInv /\ FoundInv /\ [Next]_vars => FoundInv'
  <2>. SUFFICES ASSUME IndInv, FoundInv, [Next]_vars PROVE FoundInv'
    OBVIOUS
  <2>1. CASE UNCHANGED vars
    BY <2>1 DEF vars, FoundInv
  <2>. QED  BY <2>1, FoundInStart, FoundInStep DEF Next
<1>3. FoundInv => RegisteredFound
  BY DEF FoundInv, RegisteredFound
<1>. QED  BY <1>1, <1>2, <1>3, Initially, Inductive, PTL DEF Spec

=============================================================================
