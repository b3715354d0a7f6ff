-------------------------------- MODULE Hub --------------------------------
(***************************************************************************)
(* One docker search or docker merge of an image, with what it gets from   *)
(* the registry and from the settings repository:                          *)
(*                                                                         *)
(*     search: ping, pages of tags                                         *)
(*     merge:  ping, manifest, one blob after the other; the layers are    *)
(*             extracted over each other; the settings of the nearest      *)
(*             release are fetched; the folder becomes one tarball         *)
(*                                                                         *)
(* ImageStore has the other side of merge: what it does to the images that *)
(* are there, beside other commands and when it is killed.                 *)
(***************************************************************************)
EXTENDS Registry, Layers, Versions

CONSTANTS
    Manifests,   \* sequences of digests
    Contents,    \* what a layer can hold: sequences of entries
    Lists,       \* releases that distro.management.yml can list
    Wanted,      \* versions that are asked for
    MaxPages,    \* bound: pages of tags
    Unknown      \* what has not been looked at yet

\* strings.Split yields one component at least.
ASSUME HubAssumption ==
    /\ Manifests \subseteq Seq(Digests) \ {<<>>}
    /\ Contents \subseteq Seq(Entries)
    /\ Unknown \notin Contents
    /\ Wanted \subseteq Seq(Components) \ {<<>>}
    /\ Lists \subseteq Seq(Seq(Components) \ {<<>>})
    /\ MaxPages \in Nat \ {0}

VARIABLES
    pc,       \* the next step of the command
    search,   \* is it search
    tags,     \* search: the pages in the result
    paged,    \*         the pages that the registry has given, and how the
              \*         address of the next one is written
    man,      \* merge: the manifest
    order,    \*        layer_order
    k,        \*        the next place of man or order
    have,     \*        the layer files in the image folder
    content,  \*        what the layers hold
    tree,     \*        the folder they are extracted to
    tarball,  \*        what is made of it
    yaml,     \*        the releases that distro.management.yml lists
    want,     \*        the version asked for
    tag,      \*        the release chosen
    setting,  \*        setting.yml
    gave      \*        the addresses that gave a whole answer

merge == <<man, order, k, have, content, tree, tarball, yaml, want, tag,
           setting, gave>>

vars == <<req, pc, search, tags, paged, merge>>

-----------------------------------------------------------------------------

Addresses == {"release", "distro", "default"}

\* cut: the answer ended early, the file holds a part of it.
Settings ==
    [from : Addresses, cut : BOOLEAN]
      \cup [from : {"nowhere"}, cut : {FALSE}]

EmptyFile == [from |-> "nowhere", cut |-> FALSE]

Links == {"none", "absolute", "relative"}

TypeOK ==
    /\ RegistryTypeOK
    /\ pc \in {"start", "ping", "page", "manifest", "blob", "file", "copy",
               "untar", "setting", "release", "distro", "default", "tar",
               "done", "failed"}
    /\ tags \in Seq(1..MaxPages)
    /\ paged \in [given : 0..MaxPages, next : Links]
    /\ search \in BOOLEAN
    /\ man \in Manifests \cup {<<>>}
    /\ order \in Seq(Digests)
    /\ k \in Nat \ {0}
    /\ pc \in {"blob", "file", "copy"} => k \in DOMAIN man
    /\ pc = "untar" => k \in DOMAIN order
    /\ have \in [Digests -> {"none", "part", "whole"}]
    /\ content \in [Digests -> Contents \cup {Unknown}]
    /\ tree = Bad \/ IsTree(tree)
    /\ tarball \in Seq(Entries)
    /\ yaml \in Lists \cup {<<>>}
    /\ want \in Wanted \cup {<<>>}
    /\ tag \in Seq(Components)
    /\ setting \in Settings
    /\ gave \subseteq Addresses

Init ==
    /\ req = NoRequest
    /\ pc = "start"
    /\ tags = <<>>
    /\ paged = [given |-> 0, next |-> "absolute"]
    /\ search = FALSE
    /\ man = <<>> /\ order = <<>> /\ k = 1
    /\ have \in {[d \in Digests |-> IF d = 1 THEN h ELSE "none"] :
                    h \in {"none", "part", "whole"}}
    /\ content = [d \in Digests |-> Unknown]
    /\ tree = EmptyTree
    /\ tarball = <<>>
    /\ yaml = <<>>
    /\ want = <<>> /\ tag = <<>>
    /\ setting = EmptyFile
    /\ gave = {}

-----------------------------------------------------------------------------
(* The operations of the client: New pings; each sends one request.        *)

Goto(label) == pc' = label

\* The address of a next page is taken as it is, and a relative one names no host.
Sends ==
    /\ \/ pc \in {"ping", "manifest", "blob"}
       \/ pc = "page" /\ paged.next = "absolute"
    /\ req.at = "idle"
    /\ Ask
    /\ UNCHANGED <<pc, search, tags, paged, merge>>

Transport == Travels /\ UNCHANGED <<pc, search, tags, paged, merge>>

Fail ==
    /\ Goto("failed")
    /\ req' = NoRequest
    /\ tags' = <<>>
    /\ UNCHANGED <<search, paged, merge>>

CallFails == pc \in {"ping", "page", "manifest", "blob"} /\ Fails /\ Fail

NoHost == pc = "page" /\ paged.next = "relative" /\ Fail

-----------------------------------------------------------------------------
(* docker search *)

StartSearch ==
    /\ pc = "start"
    /\ search' = TRUE
    /\ Goto("ping")
    /\ UNCHANGED <<req, tags, paged, merge>>

Pinged ==
    /\ pc = "ping"
    /\ Succeeds
    /\ Goto(IF search THEN "page" ELSE "manifest")
    /\ req' = NoRequest
    /\ UNCHANGED <<search, tags, paged, merge>>

BugCollect(page, link) == IF link = "none" THEN tags ELSE Append(tags, page)

\* Tags: every page is appended, the last one on its way out of the loop.
Collect(page, link) == Append(tags, page)

Page ==
    /\ pc = "page"
    /\ Succeeds
    /\ \E link \in Links :
          LET page == paged.given + 1
          IN /\ page = MaxPages => link = "none"
             /\ tags' = Collect(page, link)
             /\ paged' = [given |-> page, next |-> link]
             /\ Goto(IF link = "none" THEN "done" ELSE "page")
    /\ req' = NoRequest
    /\ UNCHANGED <<search, merge>>

-----------------------------------------------------------------------------
(* docker merge: DownloadLayers *)

\* Each digest at its first place.
Firsts(m) ==
    LET listed[n \in 0..Len(m)] ==
            IF n = 0 THEN <<>>
            ELSE LET ds == listed[n - 1]
                 IN IF m[n] \in Range(ds) THEN ds ELSE Append(ds, m[n])
    IN listed[Len(m)]

\* The image is listed, with the layers that its download listed, or it is not.
StartMerge ==
    /\ pc = "start"
    /\ \/ /\ \E m \in Manifests : man' = m /\ order' = Firsts(m)
          /\ Goto("untar")
       \/ /\ Goto("ping")
          /\ UNCHANGED <<man, order>>
    /\ UNCHANGED <<req, search, tags, paged, k, have, content, tree, tarball,
                   yaml, want, tag, setting, gave>>

Manifest ==
    /\ pc = "manifest"
    /\ Succeeds
    /\ man' \in Manifests
    /\ Goto("blob")
    /\ req' = NoRequest
    /\ UNCHANGED <<search, tags, paged, order, k, have, content, tree, tarball,
                   yaml, want, tag, setting, gave>>

\* The blob is asked for before the file is looked at.
Blob ==
    /\ pc = "blob"
    /\ Succeeds
    /\ Goto("file")
    /\ req' = NoRequest
    /\ UNCHANGED <<search, tags, paged, merge>>

BugAdvance ==
    IF k < Len(man) THEN k' = k + 1 /\ Goto("blob")
                    ELSE Goto("untar") /\ UNCHANGED k

Advance ==
    IF k < Len(man) THEN k' = k + 1 /\ Goto("blob")
                    ELSE k' = 1 /\ Goto("untar")

\* A file of the right size is the layer, and is listed once; any other one is
\* truncated and written again.
LookForFile ==
    /\ pc = "file"
    /\ \/ /\ have[man[k]] = "whole"
          /\ order' = IF man[k] \in Range(order) THEN order
                      ELSE Append(order, man[k])
          /\ Advance
          /\ UNCHANGED have
       \/ /\ have[man[k]] # "whole"
          /\ have' = [have EXCEPT ![man[k]] = "part"]
          /\ Goto("copy")
          /\ UNCHANGED <<order, k>>
    /\ UNCHANGED <<req, search, tags, paged, man, content, tree, tarball, yaml,
                   want, tag, setting, gave>>

Copy ==
    /\ pc = "copy"
    /\ \/ /\ have' = [have EXCEPT ![man[k]] = "whole"]
          /\ order' = Append(order, man[k])
          /\ Advance
       \/ /\ Goto("failed")
          /\ UNCHANGED <<have, order, k>>
    /\ UNCHANGED <<req, search, tags, paged, man, content, tree, tarball, yaml,
                   want, tag, setting, gave>>

-----------------------------------------------------------------------------
(* docker merge: UntarLayer, one layer over the other *)

\* The layer with its digest put to the files in it.
Stamped(layer, d) ==
    [i \in DOMAIN layer |->
        IF layer[i].kind = "reg" THEN [layer[i] EXCEPT !.data = d] ELSE layer[i]]

BugNextLayer == order[Len(order) + 1 - k]

NextLayer == order[k]

UntarNext ==
    /\ pc = "untar"
    /\ have[NextLayer] = "whole"
    /\ \E layer \in Contents :
          /\ content[NextLayer] \in {Unknown, layer}
          /\ content' = [content EXCEPT ![NextLayer] = layer]
          /\ tree' = UntarLayer(tree, Stamped(layer, NextLayer))
    /\ IF tree' = Bad THEN Goto("failed") /\ UNCHANGED k
       ELSE IF k < Len(order) THEN k' = k + 1 /\ UNCHANGED pc
       ELSE Goto("setting") /\ UNCHANGED k
    /\ UNCHANGED <<req, search, tags, paged, man, order, have, tarball, yaml,
                   want, tag, setting, gave>>

\* The file is not there, or gzip finds its end too early.
UntarFails ==
    /\ pc = "untar"
    /\ have[NextLayer] # "whole"
    /\ Goto("failed")
    /\ UNCHANGED <<req, search, tags, paged, merge>>

-----------------------------------------------------------------------------
(* docker merge: DownloadFilefromGithubPlus, TarLayer *)

\* setting.yml is made empty, and the release chosen.  There are no releases to
\* choose from if distro.management.yml cannot be had or read or does not name the
\* distribution.
Choose ==
    /\ pc = "setting"
    /\ setting' = EmptyFile
    /\ want' \in Wanted
    /\ yaml' \in Lists \cup {<<>>}
    /\ tag' = Release(yaml', want')
    /\ Goto("release")
    /\ UNCHANGED <<req, search, tags, paged, man, order, k, have, content, tree,
                   tarball, gave>>

Fallback == [release |-> "distro", distro |-> "default", default |-> "failed"]

BugAfterCut(a) == "tar"

\* An answer that is cut short is an error like any other.
AfterCut(a) == Fallback[a]

\* DirectDownloadFilefromGithub: 404 and no answer leave the file as it is; any
\* other status is an answer.
Fetch(a) ==
    /\ pc = a
    /\ \/ /\ setting' = [from |-> a, cut |-> FALSE]
          /\ gave' = gave \cup {a}
          /\ Goto("tar")
       \/ /\ setting' = [from |-> a, cut |-> TRUE]
          /\ Goto(AfterCut(a))
          /\ UNCHANGED gave
       \/ /\ Goto(Fallback[a])
          /\ UNCHANGED <<setting, gave>>
    /\ UNCHANGED <<req, search, tags, paged, man, order, k, have, content, tree,
                   tarball, yaml, want, tag>>

Tar ==
    /\ pc = "tar"
    /\ tarball' = TarLayer(tree)
    /\ Goto("done")
    /\ UNCHANGED <<req, search, tags, paged, man, order, k, have, content, tree,
                   yaml, want, tag, setting, gave>>

-----------------------------------------------------------------------------

Next ==
    \/ StartSearch \/ StartMerge
    \/ Sends \/ Transport \/ CallFails \/ NoHost
    \/ Pinged \/ Page \/ Manifest \/ Blob
    \/ LookForFile \/ Copy
    \/ UntarNext \/ UntarFails
    \/ Choose \/ (\E a \in Addresses : Fetch(a)) \/ Tar

Spec == Init /\ [][Next]_vars

-----------------------------------------------------------------------------
(* Properties *)

\* A search that ends without an error returns all pages of tags, each once and in
\* the registry's order; one that fails returns none (tags.go).
TagsWhole ==
    /\ pc = "done" /\ search => tags = [i \in 1..paged.given |-> i]
    /\ pc = "failed" => tags = <<>>

Stack(digests) ==
    [i \in DOMAIN digests |-> Stamped(content[digests[i]], digests[i])]

\* The layers that the manifest lists more than once are empty.
RepeatsEmpty ==
    \A i, j \in DOMAIN man :
        i < j /\ man[i] = man[j] => content[man[i]] = <<>>

\* Where layers have nothing that UntarLayer takes for something else (Ordinary),
\* and only empty ones are listed twice, the merged folder shows what the stack of
\* layers does, and no such layer is refused (DownloadLayers, UntarLayer).
MergedAsLayered ==
    /\ pc = "setting" /\ RepeatsEmpty /\ Ordinary(Stack(man)) =>
          tree = View(Stack(man))
    /\ tree = Bad /\ (\A i \in 1..k : content[order[i]] # Unknown) =>
          ~Ordinary(Stack(SubSeq(order, 1, k)))

\* The tarball of a merge, extracted by UntarLayer, is the merged folder again,
\* though each link is in it twice and once leads to itself (TarLayer).
TarballKeepsTree ==
    pc = "done" /\ ~search => UntarLayer(EmptyTree, tarball) = tree

\* The settings are looked for at the newest listed release that is not newer than
\* the one asked for, and for "latest" at the newest (GenGithubURLfromYaml), if the
\* list has numbers only and the newest first.
ClosestRelease ==
    pc = "release" /\ NewestFirst(yaml) /\ (Numeric(want) \/ want[1] = Word) =>
        Closest(yaml, want, tag)

\* A merge goes on only with the whole of the first answer that was whole, whatever
\* came before it (DownloadFilefromGithubPlus).
SettingOfFirstAnswer ==
    pc \in {"tar", "done"} /\ ~search =>
        gave = {setting.from} /\ ~setting.cut
=============================================================================
