# LPMX in TLA+

A model of [lpmx](https://github.com/JasonYangShadow/lpmx), a rootless container
tool: TLA+ modules written from the Go source, TLC configurations that check
them on small instances, and proofs that TLAPS checks for instances of any size.

## The system

LPMX has no daemon.  Every command (`create`, `fastrun`, `resume`, `destroy`,
`list`, `update`, `compose`, `expose`, `set`, ...) is an operating system process
that reads and writes files below the configuration directory and ends.
Commands meet only in those files and in the kernel's process table, and nothing
locks any of them.  Several errors are dropped on the way, and the command goes on.

| part | state | operations | what makes it correct |
| --- | --- | --- | --- |
| registry (`.lpmxsys/.info`) | table of containers | read by every command; rewritten by `appendToSys`, by `Destroy`'s defer, by `Init` | agrees with the folders on disk; no container is lost; readable after a crash |
| container | root folder with `rw` and links to layers, record `<root>/.lpmx/.info`, `container.pid`, `sync/<id>` | `generateContainer`, `Run`, `Resume`, `Destroy`, `Expose` | one shell at a time; nothing removed from under a shell; a registered container can be resumed or destroyed |
| pid file | decimal digits | `PidIsActive`, `PidCreateByPid` | names the shell that runs, if one does |
| process launcher | shells, `faked-sysv` daemons | `ShellEnvPid`, `bashShell` | a started shell is recorded and waited for |
| image store (`.lpmxdata/.info`, `image/`, `base/`, workspaces) | table of images, layer files, layer folders shared by images | download, load, add, commit, merge, push, reset, delete | every listed image has its layers; a failed download is repaired by the next; a delete spares other images |
| executable and library maps (`filecache`, `elf`) | one file of `k=v:k=v` per container and program | `set`, `get` | implements a map, for values without separators |
| compose | a YAML file of apps | `Validate`, `Compose`, `runComposeApp`, `autoDownload` | an app starts after what it depends on |
| RPC server | map from pid to command, child processes | exec, query, delete | unreachable |
| registry client | HTTP transports | token challenge and retry, paging | refusals and faults become errors, after the token service has been asked; all pages are returned |
| layer extraction | files, whiteouts | `UntarLayer`, `TarLayer` | the merged folder shows what the stack of layers does |
| version matching, settings | `setting.yml` | `CompareVersion`, `GenGithubURLfromYaml`, `DownloadFilefromGithubPlus` | the closest release, a whole file |
| maintenance | `.lpmxsys`, `.lpmxdata` | init, reset, uninstall, update | nothing running is disturbed; what was registered survives |
| singularity, skopeo | as the image store | load | as the image store |
| environment (`genEnv`), elf patching, yaml, msgpack, log, error, command line | none | | |
| ipc, queue | unused by the program | | |

What is hard: commands of several terminals interleave at every file access; a
command can be killed between any two; `ioutil.WriteFile` truncates before it
writes; the shell is started before its pid is recorded; pids are recycled;
defers run on every error path; a removal or a write may fail unseen.  `PROJECT.json` lists these hazards line by line
with the properties that look at each.

## Modules

| module | what it is |
| --- | --- |
| `PidFile` | `pid/pid.go`: contents of `container.pid`, `PidIsActive`, the overwrite without truncation |
| `ContainerPromise` | what the lifecycle commands promise, without files or processes |
| `Lifecycle` | create, fastrun, resume, destroy as concurrent commands, one action per file access or system call |
| `MCLifecycle`, `MCLifecycleUse` | the small instances of `Lifecycle`; the second with a record of how commands overlapped |
| `LifecycleProofs` | type correctness, the inductive invariant, the refinement of `ContainerPromise` |
| `LifecycleUseProofs` | what the registry and the folders are like while commands do not overlap, and while nothing disturbs them either: five theorems |
| `ImageStore` | the image commands on the table, the layer files, the layer folders and the records of containers |
| `MCImageStore` | the small instances of `ImageStore` |
| `ImageStoreProofs` | type correctness, new images, containers without commit: three theorems |
| `ImageStoreCalmProofs` | one command at a time and no deletes: two theorems |
| `Compose`, `MCCompose` | compose files: their order, `autoDownload`, the runs, the scripts in `bin/` |
| `ComposeProofs` | the order, the inductive invariant, three theorems |
| `Maintenance`, `MCMaintenance` | init, reset, update, uninstall on `.lpmxsys`, with kills |
| `MaintenanceProofs` | type correctness, the inductive invariant, three theorems |
| `KeyValueMap` | what set, get and delete on a map promise, without a file |
| `FileCache`, `MCFileCache` | `filecache/filecache.go`: the text file of a map, one action per file access |
| `FileCacheProofs` | type correctness, unique entries, the refinement of `KeyValueMap`, what `get` shows |
| `Registry` | one request to the registry and its chain of transports |
| `Layers` | `UntarLayer`, `TarLayer` on trees of paths, and what a stack of layers shows |
| `Versions` | `CompareVersion` and the choice of a release, and what closest means |
| `Hub`, `MCHub` | docker search and the inside of docker merge, made of the three above |
| `HubProofs` | type correctness, requests, searches, releases, settings, the merged folder and its tarball: seven theorems |

`Compose` and `Maintenance` stand on the other two: a create, a run, a destroy or
a download is one step there, with the effect that `Lifecycle` and `ImageStore`
show it to have when it is not disturbed, or a failed one's.

### Lifecycle and the code

The state is the files (`sys` for the registry, `disk` for the root folder,
`info` for the record, `pidFile`, `sync`), the kernel (`kernel`, which process
number is what), and for each command `p` its next step `pc[p]` and its memory
`cmd[p]` (the container, its copy of the registry, its copy of the record, where
`appendToSys` returns to, the child it has not waited for).  `recorded` is a
history variable: the shells for which `PidCreateByPid` returned nil and that
still run.  `used` stands for the freshness of `RandomString`.

| code | actions |
| --- | --- |
| `generateContainer` | `Create`, `GenerateDone`, `GenerateFails` |
| `Resume` | `Resume` (registry), `ResumeCheck` (record and pid file) |
| `Run` | `RunLoad`, then the steps below |
| `setupContainer`, `createContainer`, `patchBineries` | `SetupDone`, `SetupFails` |
| `appendToSys` (called by `setupContainer`, by `Run`, by `Run`'s defer) | `AppendRead`, `AppendTruncate`, `AppendWrite` |
| `bashShell`, `ShellEnvPid` | `StartShell`, `ShellFails`, `WaitReturns` |
| `PidCreateByPid` | `RecordCheck`, `OpenPid`, `WritePid` |
| `Run`'s defer | `DeferTruncate`, `DeferWrite`, then `appendToSys` |
| `WriteToFile` that fails: an error for `appendToSys`, dropped by the two defers | `WriteFails` |
| `CommonFastRun` / `CommonCreate` / `CommonComposeRun` after `Run` | `RunEnds` |
| `Destroy` | `Destroy`, `DestroyRead`, `DestroyCheck`, `DestroyRootPart`, `DestroyRoot`, `DestroyRootFails`, `DestroySync` and its defer `DestroyTruncate`, `DestroyWrite` |
| a killed command | `Crash` |
| shells, and other processes that take a recycled number | `ShellExits`, `ForeignStarts`, `ForeignEnds` |

Abstractions, and what they leave out:

- A record is "raw" (written after a set-up that failed, no `UserShell` in it) or
  "ready".  Its other fields do not decide which step comes next.
- A root folder is "none", "hollow" or "full".  `generateContainer` makes it in
  one step; a kill in between leaves "hollow" through `Create` and `Crash`.
- Reading the pid file and sending signal 0 are one step, as are the record and
  the pid file of `Resume`.
- A foreign process is one of the same user: the signal reaches it.  A process of
  another user makes `PidIsActive` answer no, as a free number does.
- The RPC branch of `Run` (`passive`) is never taken: every caller sets it FALSE.
- `Destroy` drops the errors of both `RemoveAll`s and unregisters the container:
  `DestroyRootFails` leaves of the root what `DestroyRootPart` has not taken, and
  `DestroySync` removes the sync folder or not.  Failing writes, which leave what
  a kill in their place leaves or nothing, are in the runs with `Failures`.
- After a destroy that could not read the registry, its defer writes to
  `/.info`; this misses every modelled file.
- `Containers` of the registry that is missing (nil) is left to `Maintenance`:
  here the registry is torn or a table.

The operators named `Bug...` are no part of `Next`.  Each is a plausible mistake
in place of one action; a property that survived all of them would say nothing.

### Which commands overlap: `Discipline`

The code excludes nothing; that is `"none"`.  Most properties fail there (see
"Known behaviour" below), so each run says under which use a property holds:
`"container"` (no two commands work on one container at once, except that one
may wait for its shell) and `"command"` (commands overlap only while one waits
for its shell: one person, several terminals).  A command that waits for its
shell is never excluded: resume and destroy meet running containers in every
discipline.

### ImageStore and the code

The state is `table` (`.lpmxdata/.info`), `file` (`.image/<sha>.tar.gz`), `folder`
(`.base/<sha>.tar.gz`, shared by all images and containers), `dir` (the folder of
an image, with `setting.yml` and the workspace), and of the containers the record
`con` and the registry entry `reg`.  `pc` and `job` are the commands at work.

The code makes the path of that folder from the first two parts of the name, as
split at ":", below the root of the store.  So `localhost:5000/app:1` and
`localhost:5000/app:2` share one, and `app/1:x` has its own inside that of `app:1`.
The constants `Folder` and `Inside` say which folder an image has and what is in a
folder; `MakeDir` makes those above as well, `DeleteDir` takes what is inside along.
`FoldersApart` says that no image has its folder in another's; `ContainersFound`
and `RegisteredFound` in `images` are about such names, `ported` is about the others.

| code | actions |
| --- | --- |
| `DockerDownload` | `Import`, fetch, extract, `Setting`, table |
| `DockerLoad`, `SkopeoLoad` | the same; the name is looked up after the fetch |
| `DockerAdd` | the same; `setting.yml` comes with the package; present files and folders are kept |
| `DockerMerge` | `Merge`, fetch unless listed, `MergeLayers`, `Setting`, `MergeFolder`, `MergeFile`, table |
| `DownloadLayers`, `LoadDockerTar`, `LoadSkopeoTar` | fetch: `FetchSkip`, `FetchRefused`, `FetchOpen`, `FetchCopy`, `FetchCopied`, `FetchRename`, `FetchDone` |
| the loop over `Untar` | extract: `ExtractSkip`, `ExtractInto`, `Untar`, `ExtractDone` |
| `WriteToFile` of the table | table: `TableTruncate`, `TableWrite` |
| `DockerReset` | `Reset`, extract |
| `CommonDelete` | `Delete`, `DeleteFile`, `DeleteFolderPart`, `DeleteFolder`, `DeleteDir`, table |
| `DockerCommit` | `Commit`, `CommitTar`, `CommitFreeze`, `CommitMove`, `CommitSetting`, `CommitThaw`, `CommitRecord`, `CommitRegister`, table |
| create, destroy | `Create`, `Destroy`, their lasting effect in one step each |
| a kill, or a system call that fails | `Stop` |
| `SingularityLoad` | `LoadSingularity`, `FetchSquash`, `LayerDone`, `Unsquash`, `Setting`, table; its layers are the constant `Squash` |
| `SingularityLoad` with a table that cannot be read | `LoadSingularity` with no image, `FetchAstray`, `SettingAstray` |

Abstractions:

- A layer file is a sequence of `Size` chunks, `FALSE` where a writer left a hole.
  Two downloads may write one file, each at its own offset; this is the one pair
  of commands whose steps overlap (`Overlap`).  Others come one after the other.
- A folder is "part" from its making until `Untar` has succeeded.  `Untar` does
  not truncate, so extracting again over a whole folder leaves it whole.
- Digests that merge and commit compute are new: archives hold modification times.
- `CopyFile` looks at the wrong error after `io.Copy`: `FetchCopied` lets skopeo's
  load go on with a file that is too short.  `Stop` has the errors that are seen.
- A commit of a container whose image is no longer listed lists the new image
  without layers (`LayerOrder`).  Commands that would look for its layers fail.
- An absent table is an empty one: the commands that only read it return an error
  in both cases, and the others make it.
- A create whose set-up fails, and a command on a running container, are in
  `Lifecycle`.  What commit does to caches, `/etc/passwd` and `/tmp` in `rw`, the
  symlinks and the `.info` file of an image are left out; no command reads the
  latter.
- `DockerPackage` changes nothing in the store.  `CommonDelete`'s `RemoveAll` of the
  image folder is one step.
- Once the table is torn every image command returns at once; with no container
  left to destroy the system stops, so `images` does not look for deadlocks.

- A Singularity image is one layer, a squashfs cut from the sif file and
  extracted by `unsquashfs`.  It is no tarball: reset and merge fail on it, and
  reset has removed its folder by then, which `ListedWhole` and `ContainersWhole`
  leave out.  `commits` loads it among successful commands, `images` among those
  that are killed or fail.

### Compose and the code

The state is `table` (names of images), `con` (containers), `bin` (which
container a script resumes), and the memory of one compose: its step `pc`, the
file, the order of its apps, the place `k` in it, the name `autoDownload`
returned, the container, the programs left to expose, and two history variables:
`mine`, the containers that this compose has made, and `strayed`, the programs
whose script another expose has taken since, or which `Expose` has failed to
expose without an error.

| code | actions |
| --- | --- |
| `Validate` | `Valid`, `Dependents`, `Counter`, `Orders` |
| `Compose`, `runComposeApp` | `Compose`, `NextApp`, `ComposeEnds`, `Exit` |
| `autoDownload` | `AutoDownloadFinds`, `AutoDownload`, `AutoDownloadFails` |
| `CommonComposeRun` | `Generate`, `GenerateFails`, `RunStarts`, `RunFails`, `RunEnds` |
| `Expose` | `Expose`, `ExposeSilent`, `ExposeFails` |
| `lpmx expose` from another terminal | `OtherExpose` |
| a killed compose | `Kill` |
| other commands | `Download`, `Delete`, `Destroy` |

- The counter of dependents wraps at `Limit`, 128 in the code and 4 in the runs.
- `sort.Slice` is not stable and the set of remaining apps has no order: `Orders`
  has every order the code may choose.
- Other commands come while an app runs or no compose does, as under `"command"`.
- `ExposeSilent` is what `Expose` does when the record cannot be read (nothing), or
  the old script not be removed, or the new one not be written (the script is
  `Broken`): it returns nil.  `ExposeFails` has the errors it returns; the old script
  may be gone by then.

### Maintenance and the code

The state is `.lpmxsys`: the registry (`sys`, which can be missing, torn, have a
nil map or be a table), the tarball (`dep`), the libraries (`lib`), a killed
update's temporary folder (`left`); the containers and in which of them a shell
runs; and the one maintenance command in progress.

| code | actions |
| --- | --- |
| `Init` | `StartInit`, `WipePart`, `Wipe`, `InitFinds`, `InitLook`, `InitMakesNoFolder`, `InitTakesTarball`, download, untar, then its defer: `Truncate`, `Write`, `WriteFails` |
| `Reset` | `Reset`, `Remove`, download, untar |
| `Update` | `UpdateLook`, `Remove`, download, `UpdateTemp`, `UpdateRename`, `UpdateFails` |
| `DownloadFilefromGithubPlus` | `FetchOpen`, `Download`, `FetchFails` |
| `Untar` | `UntarPart`, `UntarFile`, `UntarFails`, `UntarDone` |
| `Uninstall` | `Uninstall`, `Wipe`, `UninstallData` |
| `checkCompleteness` before other commands | `Complete` |
| create, resume, destroy | `Create`, `CreateDies`, `ShellStarts`, `ShellEnds`, `Destroy` |
| a killed maintenance command | `Kill` |

- One maintenance command is in progress at a time, and no create or destroy
  beside it (they would rewrite the registry as two creates do); shells
  start and end beside it at any time.
- A tarball is "part" when it is cut short or is a server's error page: neither
  can be extracted to the end.
- "stray" is a container whose registry was removed on request (`init -r`,
  uninstall): nothing is claimed of it.
- The defer of `Init` drops the error of `WriteToFile`: after `WriteFails` the registry
  is what it was, missing or torn, and init returns what it would have returned.
- A tarball that the user names may hold any of the libraries.

### FileCache and the code

The state is the file (missing, or a non-empty sequence of items, each a name
and perhaps a value: what `strings.Split` makes of the text at ":" and then of the
item at "=") and, for each command, its next step and memory.  `.execmap` and `.mapmap` are alike; one file
is modelled.

| code | actions |
| --- | --- |
| `FileExist` in `FGetStrValue`, `FSetValue`, `FDeleteByKey` | `Look` |
| `os.Create` of a file that is not there | `Create` |
| `ioutil.ReadFile` and what is made of it | `Read`: `GetReads`, `SetReads`, `DeleteReads` |
| `ioutil.WriteFile` | `Truncate`, `Write` |
| an error, or a killed command | `Fails`, `Kill` |
| `Run`, which sets the entries of an executables map one after the other | `Begin` with a longer list, `Done` |

- A value is a sequence of parts, more than one if it has a `:`: the text then
  reads as further items.  Each part is a sequence of pieces, more than one if it
  has an `=`: `kv[1]`, the second field, is all that is read of an item.  A value in
  one piece has neither (`PlainValues`).  `With` and `Without` are done on items.
- `WritesApart` is an assumption: of two commands that both write, one has written
  before the other truncates.  What a mixture of two texts reads as is not
  modelled.
- `get` on an item that has its key but no `=` would index out of range; keys and
  pieces are distinct, so this is left out, as are keys with a `:` or `=` in them.

### Hub and the code

One command, to its end.  What it does to the table, and what other commands do
meanwhile, is in `ImageStore`, where its steps are coarser.

| code | actions |
| --- | --- |
| `WrapTransport`: `TokenTransport`, `BasicTransport`, `ErrorTransport` | `Sends` (`Ask`), `Transport`: `Answered`, `Demands`, `TokenAnswered`, `HandsOn`; `Succeeds`, `Fails` |
| `registry.New`, `ListTags`, `Tags`, `getPaginatedJson` | `StartSearch`, `Pinged`, `Page`, `NoHost`, `CallFails` |
| `DownloadLayers` | `StartMerge`, `Manifest`, `Blob`, `LookForFile`, `Copy` |
| the loop over `UntarLayer` in `DockerMerge` | `UntarNext`, `UntarFails` |
| `DownloadFilefromGithubPlus`, `GenGithubURLfromYaml` | `Choose`, `Fetch` |
| `TarLayer` | `Tar` |

- A request may be open, ask for a token, or ask for a password the user lacks,
  each request on its own (`Auths`).  `Chain` is the order of the transports: an
  answer passes them from the innermost to the outermost, and each hands it on or,
  like `TokenTransport`, sends the request again.  A token that was granted is good
  for the request it was asked for.  The token service may answer with a token,
  with 200 but no `"token"` (an empty one and no error), with another status (the
  same) or not at all.  A redirect is part of the answer.
- `tagsResponse` is decoded into again for each page: a page without a `tags` field,
  which the registry's API does not have, is not considered.
- What a layer holds is chosen when it is extracted, and the releases when the
  settings are fetched: so the run adds up the cases of registry, layers and
  releases and does not multiply them.
- The temporary folder of merge is there: `DockerMerge` drops the error of
  `CreateTempDir`, and without a folder extracts the layers into `/`.  Errors of
  `TarLayer`'s deferred `Close` calls are not modelled.
- A path is a sequence of names, a link holds the path it leads to.  Absolute
  links, and links to links, are left out (`LinksPlain`): a lookup follows each
  link once.  An extraction that ended with an error is `Bad`, which is no tree;
  what it left in the temporary folder nothing reads.  Permissions and device
  files are not modelled; `UntarLayer` skips the latter.
- `yaml` is what `distro.management.yml` lists for the distribution, nothing if it
  cannot be fetched or read.  The alias of a distribution's name is left out.

## Runs

Two containers and two commands are the least that let one container's command
disturb another container or another command of the same one; two pids let one
be recycled while the other is in use.  Every run lets each container live
through any number of commands, crashes and shells (ids are handed out once, so
a third container cannot appear).  Symmetry over containers and commands is used
for invariants and box properties, not for `CommandsEnd`.

| run | discipline | kills | checks |
| --- | --- | --- | --- |
| container | container | yes | `TypeOK`; `RecordedFound`: a recorded shell is the one `container.pid` names and its root is whole; `PromiseKept`: the commands implement `ContainerPromise`.  `RunningRegisteredApart`, `HalfDestroyedListedApart`: as long as commands have not overlapped (`use` is "plain" or "disturbed"), a container with a recorded shell is in the registry unless that was torn, and what a killed destroy left is still listed.  `RegisteredWholePlain`, `ContainersListedPlain`, `FastRunLeavesNothing`: as long as nothing was killed and no write has failed either, registry, roots, sync folders and records agree between commands, and fastrun leaves nothing but what `RemoveAll` could not remove |
| ends | none | yes | `CommandsEnd`, one container: every command gets to its shell or its end, and to its end once the shell has ended, though other processes may take the only pid and writes and removals may fail |
| digits | command | no | `OneShell` fails: `container.pid` is written over without truncation |
| images | downloads overlap | yes | `TypeOK`, `RegisteredFound`, and `NewImagesExtracted`: whatever killed commands left, and with a second download on the same layers, an image that download, load, skopeo load, singularity load or merge lists is extracted.  No commit; a folder for each image |
| commits | one at a time | no | `ListedWhole`, `ContainersWhole`: listed images have settings, layer files and folders, containers their `rw` and layers.  No delete |
| associated | one at a time | no | `RegisteredFound` fails: delete of a committed image takes its container along |
| ported | one at a time | no | `RegisteredFound` fails: two tags of an image of a registry with a port share a folder, and the delete of one takes the other's containers along |
| orders | others while an app runs | yes | `TypeOK`; `NeededBeforeLeaves`: leaves run when all needed apps are over; `MostNeededFirst`: within the counter's limit, apps with more dependents are over first; `OkMeansAll`: a compose without an error has left out no app and, but for `strayed`, no script |
| relisted | the same | yes | `ImageFound` fails: `autoDownload` finds the image and returns the empty name |
| upkeep | one at a time, with shells | yes | `TypeOK`; `ForcedInitReady`: `init -r` repairs the libraries, whatever anything left of them, and leaves an empty registry or one that cannot be read; `RegistryForgetsNothing`: a registry that can be read names every container; `UpdateKeepsLibraries`: update damages no library, however it ends |
| maps | overlap, kills | yes | `TypeOK`; `OneEntryPerKey`; `GetShowsSet`: between commands that did not overlap, `get` shows what was set; `MapKept`: the commands implement `KeyValueMap`, where a change may be lost but none made up.  Values in one piece, with neither `:` nor `=` |
| merge | one command | no | `TypeOK`; `GoodAnswerOrError`: what a caller takes for an answer is one, and a refusal it gets where a token would help means that none was granted; `TagsWhole`; `MergedAsLayered`: the merged folder is what `Ordinary` stacks of layers show; `TarballKeepsTree`: its tarball, extracted, is the folder again; `ClosestRelease`; `SettingOfFirstAnswer` |

`use` in `MCLifecycleUse` is a history variable: how the commands have been used so
far.  With it one run checks what holds in every use of the discipline beside
what holds only in a calmer one.  `stuck` is another: the containers that a destroy
has unregistered though it could not remove them.  Four bounds keep the instance
small: other processes take a pid only while no commands have overlapped
(`ForeignersOnlyApart`); commands do not overlap after a kill or a foreign pid
(`DisturbedStayApart`); after a kill of overlapping commands the others run to
their end, but no new one starts (`BrokenRunOut`); and removals fail only while
`use` is "plain", writes after an overlap only where the command then ends
(`FailuresOnlyApart`).  What the bounds leave out of
`RecordedFound` and `PromiseKept` the theorems cover.  One pid is open to other
processes: of pids of one width none is special.  `ends` has that pid only, so that
a shell, a stale number and another process contend for it.

Known behaviour of the code that no run is spent on: a fastrun whose program has
left a folder that cannot be removed ends without an error, its root still on disk
and known to no command (`FastRunEndsClean({})` fails at once); a compose ends
without an error and without a script if `Expose` cannot read the record or write
the script (`OkMeansAll` without `strayed`); a value with a `:`, such as the lists of
files that the help of `set` describes, or with an `=`, is shown by `get` only up to there,
and leaves entries behind that no later set or delete removes (`GetShowsSet` for other
than `PlainValues`).  And what no comment or doc speaks of: two creates at once lose
a registration (`ContainersListed` under `"container"`); a destroy that has looked at `container.pid` removes the root of
a shell just started (`PromiseKept` under `"none"`); a container whose set-up
failed is registered all the same; a second commit of a container starts from
the layers its record names, which the first commit did not update, and forgets
the first (the cause is that of `associated`); a commit into a folder that another
image shares, or one killed on its way, can lose the container; resume puts a container's
executables map into its file again and undoes later sets; `get` on a map whose
file is not there makes it.

`UntarLayer` goes wrong on layers that are not `Ordinary`: an opaque mark hides
nothing; of the whiteouts that aufs layers store as hard links to the first one,
all hide what the first hides; a hard link below the root folder becomes a
symbolic link that leads nowhere; a file in the place of a link is written to
what the link leads to; a newer link is dropped if the older one is there; a
folder in the place of a file is not made; a file named `.whatever` is dropped;
a file whose folder has no entry before it fails the extraction, and a link there
is dropped, as is a second link of the same name in one layer; of a layer that is
listed twice only the first place counts.  A version with a
word in it is equal to every other.  A merge that cannot fetch its settings has
emptied those of an earlier merge of the image.  A status other than 404 makes
the error page the settings.

`maps` has two keys, two values, two commands and lists of up to two entries: the
least with an entry before, one in the place of, and one after the one changed.
`merge` has all stacks of up to three of the 15 layers in `ContentSet` (folders,
files, links, whiteouts of each, and everything that is not `Ordinary`), one
digest listed twice, three pages of tags, and versions of up to three numbers
and words.  Of the 3615 stacks 1091 are `Ordinary`.

`commits`, `associated` and `ported` have two images that share a layer; `images` has
one of two layers, which two downloads and a merge share, beside a Singularity
image.  Sharing is what lets the leftovers of one command meet another.  `ported`
has two tags with one folder, the others a folder for each image, in `commits` with
that of the merged image inside that of its source.  `Size = 2` is the least
that tells a hole from an end; the second container in `commits` is committed
after the first has changed the store.  `images` leaves out commit because a
killed or repeated one breaks `RegisteredFound` (see `associated`), `commits` leaves
out the deletes for the same reason and because a permanent delete takes shared
layers from other images, as its flag says.  `add` is no part of
`NewImagesExtracted`: it takes any folder that exists for an extracted layer.

`orders` has the 24 files of three apps with chains, fans and cycles (`Shapes`),
one whose first app is named five times so that its counter wraps at 4, the nine
pairs of image kinds with one program exposed twice, and files that `Validate`
rejects.  Three apps are the least with a chain whose middle is neither a leaf
nor the most needed.  `upkeep` has two libraries, the one that update replaces
and another, and two containers, one to run and one to be half made.

`digits` uses the pids 1 and 23, all others the pids 1 and 2.  Pids of one width
are what a system gives whose counter has not wrapped or whose `pid_max` is
small; `digits` shows what happens otherwise.

### Fairness

`FairSpec` has weak fairness of `Work(p)`: the kernel runs a process that can
run, and every step of a command but `cmd.Wait` can.  It also has weak fairness
of `DestroyRoot(p) \/ DestroyRootFails(p)`, the return of `RemoveAll`, which could otherwise be kept
busy by a command that keeps making the folder again.  No fairness makes a
shell end, a user type a command, or a set-up succeed.

## Proofs

`LifecycleProofs` proves, for any sets of containers, commands and pids:

- `TypeCorrect`: `Spec => []TypeOK`, in every discipline.  The invariant is
  `TypeInv`: `TypeOK`, and every command at work holds a container and, from
  `record` on, a pid.
- `RecordedShellsFound`: `Spec => []RecordedFound` when pids have one width and
  `Discipline # "none"`.
- `CommandsKeepPromise`: `Spec => PromiseKept` under the same two conditions.

`RecordedFound` is not inductive: nothing in it stops a second shell from being
recorded.  `IndInv` adds what does.  From the look at `container.pid` until the
new pid is in it, or the root is gone, no recorded shell is in the container
(`CommandOK`); no two commands that move are on one container and no two hold
one child (`Apart`); the pid file holds a whole pid or nothing (here the one
width is needed, by `OverlayCovers`).  `Allocated`, an invariant of its own, says
that registries hold only ids handed out, so a container just made is not
already someone's.  A step of a command preserves `IndInv` if it leaves other
containers and other commands' children alone and does right by its own
(`StepInv`); most steps touch no root, pid file or process (`LocalStep`) or end
the command (`LeaveStep`).

The refinement maps a container to its root folder and to its recorded shell.
`RunningIs` shows there is at most one; each step then makes, starts, stops,
removes, or stutters (`RootStep`, `RecordStep`, `ExitStep`).

`LifecycleUseProofs` proves what `MCLifecycleUse` says of calmer uses, for any
containers, commands and pids of one width, when `Discipline # "none"` and without
the bounds of the instance:

- `RunningStayRegistered`, `HalfDestroyedStayListed`: `RunningRegisteredApart` and
  `HalfDestroyedListedApart`, the latter of all containers that are not `stuck`.
- `RegisteredStayWhole`, `ContainersStayListed`, `FastRunsLeaveNothing`:
  `RegisteredWholePlain`, `ContainersListedPlain` and the action property
  `FastRunLeavesNothing`, the last two of all that are not `stuck`.

The registry alone does not carry the first two: a command writes back what it
read earlier.  `ApartInv` says that the registry, and the copy of a command
that will still write it, have every container that is owed a line (`Owed`: a
recorded shell, or what a destroy has begun to remove).  Without overlap only one
command is between its read and its write, so no copy is stale.  The other three
need more: `PlainInv` says what holds when all commands rest (`RestOK`); what the one
at work has done to its container by each of its steps (`OwnOK`, `SnapOK`, `FastOK`),
and that it has left the others alone (`OthersOK`); and of a command that waits
that the pid file names its shell (`WaiterOK`), which is why resume and destroy
turn back at `PidIsActive` and never meet a container in use.

`ImageStoreProofs` proves, for any images, layers, commit and merge names,
commands in use and kills, with downloads beside each other or not (the module
lets no other commands overlap):

- `TypeCorrect`: `Spec => []TypeOK`.
- `NewImagesWhole`: `Spec => NewImagesExtracted`.  The step that writes the table
  says nothing of the layers: `IndInv` carries for every step of a command which of
  its layers are extracted and which still stand in `todo` (`ExtractedOK`), what
  its memory holds (`MemoryOK`), and that only kinds that may overlap do (`Beside`).
  A download extracts over folders but never removes one, so the layers of another
  stay extracted.
- `ContainersFound`: `Spec => []RegisteredFound` if no command commits and no image
  has its folder in that of another (`FoldersApart`).  `FoundInv`:
  a container stays in the workspace it was made in, and the image that a delete
  has begun to remove has no container.  With
  commit it is false (`associated`), and so it is with a shared folder (`ported`).

`ImageStoreCalmProofs` proves `ListedImagesWhole` and `RegisteredContainersWhole`
(`ListedWhole`, `ContainersWhole`) under `Calm`: nothing overlaps, nothing is
killed or fails, nothing is deleted, and no two images have one folder.  Both fail in the middle of a command, so `CalmInv` says
what the store is like at each step of the one at work (`CalmFor`): whole but for
the layer just copied or extracted (`CopyOK`, `ImportOK`), those that a reset
extracts again, the image folder a merge or commit has made and not yet listed
(`MadeOK`), and the container that a commit has moved the folder of (`CommitOK`).

`MaintenanceProofs` proves, for any sets of containers and libraries,
`ForcedInitReady`, `RegistryForgetsNothing` and `UpdateKeepsLibraries`, the first with
the exceptions the code makes: a tarball that the user gave holds what it holds, and
a registry that could not be written is torn or missing.  None is
inductive: the registry is rewritten at the end of init from a copy taken at its
start.  `IndInv` says which command takes which steps (`Phase`), that an init
which goes on to the tarball has found no registry, and that libraries no longer
to be extracted are whole (`Progress`), and that the copy, too, names the whole
containers, of which there are none while the registry is missing (`Named`).

`ComposeProofs` proves, for any finite set of apps, any compose files and any
width of the counters, `NeededBeforeLeaves`, `MostNeededFirst` and `OkMeansAll`.
About the order alone: a permutation has every app (`AllInSequence`, by counting),
an app has dependents iff some app names it (`DependentsType`), a counter below the
limit is exact (`CounterExact`), and so what an app must wait for stands before
it (`OrderPrecedes`).  About the run: `IndInv` says that apps before place `k` are
over and their programs exposed (`PastInv`), but for those in `strayed`
(`Exposed`), that those of the current app which
are not left are (`TodoInv`), and that only the current container is at work
(`MineInv`): other commands cannot touch it, and what they do to others
leaves them over (`Kept`).

The assumptions are those of the modules: pids are non-empty sequences of
digits, apps are finitely many, a version has at least one component
(`strings.Split`), and the markers (`None`, `Torn`, `NilMap`, `Unknown`, the
kernel's states) are no values of the sets they are added to.

Type correctness (`TypeCorrect`, `HubTypes`) is proved of every module that a run
checks: `Lifecycle`, `ImageStore`, `Maintenance`, `Compose`, `FileCache` and `Hub`.

`FileCacheProofs` proves, for any keys, pieces, loads and commands,
`UniqueEntries` and, for values in one piece, `CommandsKeepMap`.  A text is
changed at the first item of its name; the lemmas about `With` and `Without` say
what every key shows afterwards (`OneEntry` is what makes the swap with the last
item safe), and each step of a command then maps to a step of `KeyValueMap`.
`ShownAsTold` proves `GetShowsSet`, with the record of what a user was told in
`MCFileCache`: while none is `mixed` with another, the only command at work has
either not changed the file, which agrees with what was told, or holds a text that
will (`ToldInv`).

`HubProofs` proves `GoodAnswerOrError` (`AnswersGood`; `TokenInv` says what token a
request carries, what the token service has done, and that errors are made only after
the challenge was seen), `TagsWhole` for any number of pages (`TagsInv`) and
`SettingOfFirstAnswer` (`SettingInv`), and `ClosestRelease` (`ReleasesClosest`) if no
version has more than three components, the number that `Weight` looks at.  For
those `CompareVersion` compares weights (`CompareWeighs`, by `WeightOrders`: the first
component that differs decides), and the first release in a falling list that is
not greater is the greatest of those (`ReleaseClosest`).

About layers it proves, for any names, digests, manifests and entries:

- `HubTypes`: `Spec => []TypeOK`.  `Trees` are the finite trees in which every path
  stands in a folder; each entry makes of such a tree another or fails
  (`SearchTyped`, `DownloadTyped`, `TreeTyped`, `SettingTyped`).
- `MergesLayers`: `Spec => []MergedAsLayered`.  What a stack shows is what its highest
  layer makes of what the ones below show, `Over` (`ViewStep`), and an ordinary
  layer extracted over a tree gives just that, entry by entry (`OverStep`,
  `UntarOver`, `OrdinaryUntar`).  `MergedInv` says so of the first `k - 1` layers while
  a merge extracts.  The manifest and `layer_order` differ in repeated layers,
  whose places `Drops` matches; where those are empty they show nothing
  (`DropsLayers`).
- `TarballsKeepTree`: `Spec => []TarballKeepsTree`, whether layers are ordinary or not.
  The walk is in rising order and so meets a folder before what is in it
  (`WalkFacts`); after each path the part of the folder that was walked is there
  (`PartStep`), and the second header of a link changes nothing, for the link
  is there already (`TarKeeps`).

A recursive function on `0..N` is there by `Recursion`, and what it computes follows by
`Induction` over a set of numbers: both are stated about sets, which the prover can
instantiate, and not about operators.  The theorems speak of any links, but as
the model follows a link once they say something of the code for links that lead
to what is no link.

Only model-checked: `CommandsEnd`, whose fairness the prover does not reach, and the
runs that expect a violation (`digits`, `associated`, `ported`, `relisted`).

## Plan

In this order; a module joins the tables above when it is there.

1. `Lifecycle`, `ImageStore`, `Compose`, `Maintenance` with their proofs (done).
2. Proofs about `ImageStore` (done).
3. `FileCache` with `KeyValueMap` and its proofs (done).
4. `Registry`, `Layers`, `Versions`, composed in `Hub` (done).
5. Proofs about the calmer uses of `Lifecycle`, `FileCache` and `ImageStore` (done).
6. Proofs about layers: types, the merged folder, the tarball (done).
7. Properties of deletes in `ImageStore` for images that share no layer.

## Not modelled

Contents of files inside containers, library preloading (fakechroot and
fakeroot are other projects), the wire format of HTTP and archives, ELF patching, environment
strings, formatting and logging: no state of LPMX is in them.  `ipc` and `queue`
are called by nothing.  `PidCreate` and the RPC branch of `Run` are reachable
from no command, nor is the RPC client (`rpcCmd` is not added to `rootCmd`), nor
docker push (`dockerPushCmd` is not added to `dockerCmd`) with `UploadLayers` and
the writing half of the registry client.

## Running

    tlc -workers 2 -config Lifecycle_container.cfg MCLifecycleUse.tla
    tlc -workers 2 -config ImageStore_images.cfg MCImageStore.tla
    tlc -workers 2 -config Compose_orders.cfg MCCompose.tla
    tlc -workers 2 -config Maintenance_upkeep.cfg MCMaintenance.tla
    tlc -workers 2 -config FileCache_maps.cfg MCFileCache.tla
    tlc -workers 2 -config Hub_merge.cfg MCHub.tla
    tlapm LifecycleProofs.tla
    tlapm LifecycleUseProofs.tla
    tlapm ImageStoreProofs.tla
    tlapm ImageStoreCalmProofs.tla
    tlapm MaintenanceProofs.tla
    tlapm ComposeProofs.tla
    tlapm FileCacheProofs.tla
    tlapm HubProofs.tla
