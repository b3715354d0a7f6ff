------------------------- MODULE LifecycleUseProofs -------------------------
(***************************************************************************)
(* Theorems about the use of the commands (MCLifecycleUse), for every set  *)
(* of containers, of commands and of pids: what holds as long as no two    *)
(* commands overlap, even if some are killed and other processes take      *)
(* pids, and what holds as long as nothing disturbs them at all.           *)
(***************************************************************************)
EXTENDS MCLifecycleUse, LifecycleProofs

-----------------------------------------------------------------------------
(* Why they hold.  At most one command is at work: what it has read of the *)
(* registry is still what the registry should hold when it writes it back. *)

(* The containers that must not be missing in the registry: those with a   *)
(* recorded shell, and those that a destroy has left half removed and has  *)
(* not unregistered.                                                       *)
Owed ==
    {c \in Ids : (\E r \in recorded : kernel[r] = c)
                    \/ (c \in sync \ stuck /\ disk[c] # "full")}

HoldsRegistry(p) ==
    pc[p] \in {"appTrunc", "appWrite", "dCheck", "dRoot", "dSync", "dTrunc",
               "dWrite"}

ListedBy(p) ==
    LET c == cmd[p].cid IN
    /\ HoldsRegistry(p) => Owed \subseteq cmd[p].snap
    /\ pc[p] \in {"appTrunc", "appWrite", "dCheck", "dRoot", "dSync"} =>
          c \in cmd[p].snap
    /\ pc[p] \in {"shell", "record", "open", "write", "dCheck", "dRoot",
                  "dSync"} => sys # Torn /\ c \in sys
    /\ pc[p] = "dSync" => Unoccupied(c)

ApartInv ==
    /\ ~Overlap
    /\ sync \subseteq used
    /\ sys = Torn \/ Owed \subseteq sys
    /\ \A p \in Procs : ListedBy(p)

(* With nothing disturbed, the registry lists every container that has a   *)
(* record and is not stuck, and those it lists are whole but for the first *)
(* run's record.                                                           *)
HasRecord(c) == info[c] \in {"raw", "ready"}

Waiting(c) == \E p \in Procs : pc[p] = "wait" /\ cmd[p].cid = c

Sound(listed, c) ==
    /\ c \in listed =>
          disk[c] = "full" /\ c \in sync /\ (HasRecord(c) \/ Waiting(c))
    /\ HasRecord(c) => c \in listed \cup stuck

Fresh(c) == info[c] = "none" /\ pidFile[c] = None /\ c \notin sync

RestOK == sys # Torn /\ \A c \in Ids : Sound(sys, c)

(* A shell that is waited for has its number in container.pid, so that its *)
(* container is neither resumed nor destroyed.                             *)
WaiterOK(p) ==
    LET c == cmd[p].cid IN
    /\ disk[c] = "full" /\ c \in sync /\ info[c] # "none"
    /\ pidFile[c] = cmd[p].shell

Writes(p) == pc[p] \in {"appWrite", "dWrite"}

Registry(p) == IF Writes(p) THEN cmd[p].snap ELSE sys

Appends(p) == pc[p] \in {"appRead", "appTrunc", "appWrite"}

\* The containers of the others.
OthersOK(p) == \A d \in Ids \ {cmd[p].cid} : Sound(Registry(p), d)

\* What the command holds of the registry.
SnapOK(p) ==
    LET c == cmd[p].cid
        snap == cmd[p].snap
    IN
    /\ ~Writes(p) => sys # Torn
    /\ pc[p] = "appTrunc" => snap = sys \cup {c}
    /\ pc[p] = "appWrite" => c \in snap
    /\ pc[p] \in {"dCheck", "dRoot", "dSync"} => snap = sys /\ c \in sys
    /\ pc[p] = "dTrunc" => snap \ {c} = sys \ {c}

\* Its own container.
OwnOK(p) ==
    LET c == cmd[p].cid IN
    /\ pc[p] = "gen" => info[c] = "none" /\ c \notin sys /\ ~Waiting(c)
    /\ pc[p] = "resume" => c \in sys
    /\ pc[p] \in {"resume", "dRead", "dCheck"} => Sound(sys, c)
    /\ pc[p] \in {"dTrunc", "dWrite"} => Sound(cmd[p].snap, c)
    /\ \/ pc[p] \in {"load", "setup", "shell", "record", "open", "write",
                     "defer", "deferWrite", "end"}
       \/ Appends(p)
       => disk[c] = "full" /\ c \in sync /\ ~Waiting(c)
    /\ pc[p] = "load" => info[c] # "torn"
    /\ \/ pc[p] \in {"setup", "shell", "record", "open", "write", "defer",
                     "deferWrite"}
       \/ Appends(p)
       => info[c] # "none"
    /\ pc[p] = "deferWrite" => info[c] = "torn"
    /\ pc[p] = "end" \/ (Appends(p) /\ cmd[p].then = "end") => HasRecord(c)
    /\ pc[p] = "end" => c \in sys
    /\ pc[p] \in {"dRoot", "dSync"} => ~Waiting(c)
    /\ pc[p] = "dSync" =>
          c \in stuck \/ (disk[c] = "none" /\ info[c] = "none")

\* The container of a fastrun, which its destroy will not refuse to remove.
FastOK(p) ==
    LET c == cmd[p].cid IN
    cmd[p].fast =>
        /\ pc[p] # "resume"
        /\ \/ pc[p] \in {"gen", "load", "setup", "shell", "record", "open"}
           \/ Appends(p) /\ cmd[p].then # "end"
           => pidFile[c] = None
        /\ \/ pc[p] \in {"defer", "deferWrite", "end", "dRead", "dCheck"}
           \/ Appends(p) /\ cmd[p].then = "end"
           => ~PidIsActive(pidFile[c], kernel)
        /\ pc[p] = "dRead" => c \in sys
        /\ pc[p] \in {"dTrunc", "dWrite"} =>
              /\ c \notin cmd[p].snap
              /\ c \in stuck \/ (disk[c] = "none" /\ c \notin sync)

BusyOK(p) == OthersOK(p) /\ SnapOK(p) /\ OwnOK(p) /\ FastOK(p)

PlainInv ==
    /\ \A c \in Ids \ used : Fresh(c)
    /\ (\A p \in Procs : AtRest(p)) => RestOK
    /\ \A p \in Procs : pc[p] = "wait" => WaiterOK(p)
    /\ \A p \in Procs : ~AtRest(p) => BusyOK(p)

-----------------------------------------------------------------------------
(* Commands that do not overlap *)
USE DEF Goto

Alone(p) == \A q \in Procs \ {p} : AtRest(q)

LEMMA ActiveAlone ==
    ASSUME NEW p \in Procs, Others(p), ~Overlap, ~Overlap',
           ~AtRest(p) \/ ~AtRest(p)'
    PROVE  Alone(p)
BY DEF Overlap, Alone, Others, AtRest

LEMMA ApartStep ==
    ASSUME ~Overlap', NEW p \in Procs, Others(p), Alone(p),
           sync' \subseteq used', sys' = Torn \/ Owed' \subseteq sys',
           ListedBy(p)'
    PROVE  ApartInv'
<1>1. ASSUME NEW q \in Procs, q # p PROVE ListedBy(q)'
  BY <1>1 DEF Others, Alone, AtRest, ListedBy, HoldsRegistry
<1>. QED  BY <1>1 DEF ApartInv

\* No new shell is recorded, no root folder taken apart.
OwedKept ==
    /\ recorded' = recorded
    /\ \A r \in recorded : kernel'[r] = kernel[r]
    /\ stuck \subseteq stuck'
    /\ \A c \in Ids :
          c \in sync' /\ disk'[c] # "full" => c \in sync /\ disk[c] # "full"

LEMMA OwedSame == OwedKept => Owed' \subseteq Owed
BY DEF OwedKept, Owed

LEMMA LeaveKeeps ==
    ASSUME FullInv, NEW p \in Procs, Leave(p)
    PROVE  /\ pc'[p] = "idle" /\ recorded' = recorded
           /\ \A r \in recorded : kernel'[r] = kernel[r]
BY LifecycleAssumption
   DEF FullInv, IndInv, RecordedFound, TypeOK, Leave, KernelStates

\* A command that leaves the registry alone, or ends.
LEMMA QuietStep ==
    ASSUME FullInv, ApartInv, ~Overlap', NEW p \in Procs, Others(p), Alone(p),
           OwedKept, UNCHANGED <<sys, used>>, sync' \subseteq used,
           pc'[p] \notin {"appTrunc", "appWrite", "dCheck", "dRoot", "dSync",
                          "dTrunc", "dWrite"},
           pc'[p] \in {"shell", "record", "open", "write"} =>
              /\ pc[p] \in {"shell", "record", "open", "write"}
              /\ cmd'[p].cid = cmd[p].cid
    PROVE  ApartInv'
<1>1. ListedBy(p)'
  BY DEF ApartInv, ListedBy, HoldsRegistry
<1>. QED  BY <1>1, OwedSame, ApartStep DEF ApartInv

\* Only the destroy of a container makes it one that is stuck.
LEMMA StuckElsewhere ==
    ASSUME NEW p \in Procs, Others(p), Noted
    PROVE  /\ stuck \subseteq stuck'
           /\ \A d \in Ids \ {cmd[p].cid} : d \in stuck' <=> d \in stuck
           /\ pc[p] \notin {"dRoot", "dSync"} =>
                 \A d \in Ids : d \in stuck' <=> d \in stuck
BY DEF Noted, Others

LEMMA ApartBegin ==
    ASSUME FullInv, ApartInv, ~Overlap', stuck \subseteq stuck',
           NEW p \in Procs, NEW c \in Ids,
           Command(p, c), Others(p), Alone(p)
    PROVE  ApartInv'
<1>1. pc \in [Procs -> Labels] /\ disk \in [Ids -> {"none", "hollow", "full"}]
  BY DEF FullInv, TypeInv, TypeOK
<1>2. ASSUME NEW fast \in BOOLEAN, Create(p, c, fast) PROVE ApartInv'
  <2>1. /\ pc'[p] = "gen" /\ UNCHANGED <<sys, sync, os>> /\ c \notin sync
        /\ \A d \in Ids \ {c} : disk'[d] = disk[d]
        /\ used \subseteq used'
    BY <1>1, <1>2 DEF Create, ApartInv
  <2>2. OwedKept
    BY <2>1 DEF OwedKept, os
  <2>3. ListedBy(p)'
    BY <2>1 DEF ListedBy, HoldsRegistry
  <2>. QED  BY <2>1, <2>2, <2>3, OwedSame, ApartStep DEF ApartInv
<1>3. ASSUME Resume(p, c) \/ Destroy(p, c) PROVE ApartInv'
  <2>1. pc'[p] \in {"resume", "dRead"} /\ UNCHANGED <<files, os>>
    BY <1>1, <1>3 DEF Resume, Destroy
  <2>2. OwedKept
    BY <2>1 DEF OwedKept, files, os
  <2>. QED  BY <2>1, <2>2, QuietStep DEF files, ApartInv
<1>. QED  BY <1>2, <1>3 DEF Command

LEMMA ApartQuiet ==
    ASSUME FullInv, ApartInv, ~Overlap', stuck \subseteq stuck',
           NEW p \in Procs, Others(p), Alone(p)
    PROVE  /\ GenerateDone(p) => ApartInv'
           /\ GenerateFails(p) => ApartInv'
           /\ ResumeCheck(p) => ApartInv'
           /\ RunLoad(p) => ApartInv'
           /\ SetupDone(p) => ApartInv'
           /\ SetupFails(p) => ApartInv'
           /\ (\E r \in Pids : StartShell(p, r)) => ApartInv'
           /\ ShellFails(p) => ApartInv'
           /\ OpenPid(p) => ApartInv'
           /\ WaitReturns(p) => ApartInv'
           /\ DeferTruncate(p) => ApartInv'
           /\ DeferWrite(p) => ApartInv'
           /\ RunEnds(p) => ApartInv'
<1>1. /\ pc \in [Procs -> Labels] /\ cmd \in [Procs -> Commands]
      /\ disk \in [Ids -> {"none", "hollow", "full"}]
      /\ kernel \in [Pids -> Ids \cup KernelStates] /\ sync \subseteq used
      /\ recorded \subseteq Pids
      /\ \A r \in recorded : kernel[r] \in Ids
      /\ pc[p] # "idle" => cmd[p].cid \in Ids /\ cmd[p].cid \in used
  BY DEF FullInv, TypeInv, TypeOK, IndInv, RecordedFound, CommandOK, ApartInv
<1>. USE <1>1
<1>2. ASSUME OwedKept, Finish(p) PROVE ApartInv'
  BY <1>2, LeaveKeeps, QuietStep DEF Finish, files
<1>3. ASSUME Finish(p) PROVE ApartInv'
  BY <1>2, <1>3, LeaveKeeps DEF Finish, files, OwedKept
<1>4. ASSUME UNCHANGED <<files, os>>,
             pc'[p] \in {"load", "appRead", "defer", "dRead"}
      PROVE  ApartInv'
  <2>1. OwedKept
    BY <1>4 DEF OwedKept, files, os
  <2>. QED  BY <1>4, <2>1, QuietStep DEF files
<1>5. ASSUME GenerateDone(p) PROVE ApartInv'
  <2>1. OwedKept /\ sync' \subseteq used
    BY <1>5 DEF GenerateDone, OwedKept, os
  <2>. QED  BY <1>5, <2>1, QuietStep DEF GenerateDone
<1>6. ASSUME GenerateFails(p) PROVE ApartInv'
  <2>1. OwedKept /\ sync' \subseteq used
    BY <1>6, LeaveKeeps DEF GenerateFails, OwedKept
  <2>. QED  BY <1>6, <2>1, LeaveKeeps, QuietStep DEF GenerateFails
<1>7. ASSUME ResumeCheck(p) PROVE ApartInv'
  BY <1>3, <1>4, <1>7 DEF ResumeCheck
<1>8. ASSUME RunLoad(p) PROVE ApartInv'
  <2>1. OwedKept
    BY <1>8 DEF RunLoad, OwedKept, os
  <2>2. pc'[p] \in {"appRead", "defer", "setup"}
    BY <1>8 DEF RunLoad
  <2>. QED  BY <1>8, <2>1, <2>2, QuietStep DEF RunLoad
<1>9. ASSUME SetupDone(p) \/ SetupFails(p) PROVE ApartInv'
  BY <1>4, <1>9 DEF SetupDone, SetupFails
<1>10. ASSUME NEW r \in Pids, StartShell(p, r) PROVE ApartInv'
  <2>1. r \notin recorded
    BY <1>10, LifecycleAssumption DEF StartShell, KernelStates
  <2>2. OwedKept
    BY <1>10, <2>1 DEF StartShell, OwedKept, files
  <2>3. cmd'[p].cid = cmd[p].cid
    BY <1>10 DEF StartShell, Commands
  <2>. QED  BY <1>10, <2>2, <2>3, QuietStep DEF StartShell, files
<1>11. ASSUME ShellFails(p) PROVE ApartInv'
  BY <1>4, <1>11 DEF ShellFails
<1>12. ASSUME OpenPid(p) PROVE ApartInv'
  <2>1. OwedKept
    BY <1>12 DEF OpenPid, OwedKept, os
  <2>2. pc'[p] \in {"defer", "write"} /\ pc[p] = "open"
    BY <1>12 DEF OpenPid
  <2>. QED  BY <1>12, <2>1, <2>2, QuietStep DEF OpenPid
<1>13. ASSUME WaitReturns(p) PROVE ApartInv'
  <2>1. OwedKept
    BY <1>13, LifecycleAssumption DEF WaitReturns, OwedKept, files, KernelStates
  <2>. QED  BY <1>13, <2>1, QuietStep DEF WaitReturns, files
<1>14. ASSUME DeferTruncate(p) \/ DeferWrite(p) PROVE ApartInv'
  <2>1. OwedKept
    BY <1>14 DEF DeferTruncate, DeferWrite, OwedKept, os
  <2>2. pc'[p] \in {"deferWrite", "appRead"}
    BY <1>14 DEF DeferTruncate, DeferWrite
  <2>. QED  BY <1>14, <2>1, <2>2, QuietStep DEF DeferTruncate, DeferWrite
<1>15. ASSUME RunEnds(p) PROVE ApartInv'
  BY <1>3, <1>4, <1>15 DEF RunEnds
<1>. QED  BY <1>5, <1>6, <1>7, <1>8, <1>9, <1>10, <1>11, <1>12, <1>13, <1>14,
             <1>15

LEMMA ApartAppend ==
    ASSUME FullInv, ApartInv, ~Overlap', stuck \subseteq stuck',
           NEW p \in Procs, Others(p), Alone(p)
    PROVE  /\ AppendRead(p) => ApartInv'
           /\ AppendTruncate(p) => ApartInv'
           /\ AppendWrite(p) => ApartInv'
<1>. DEFINE c == cmd[p].cid
<1>1. /\ pc \in [Procs -> Labels] /\ cmd \in [Procs -> Commands]
      /\ cmd[p] \in Commands /\ cmd[p].then \in {"run", "shell", "end"}
      /\ ListedBy(p) /\ cmd[p].snap # Torn
      /\ sync \subseteq used
  BY LifecycleAssumption DEF FullInv, TypeInv, TypeOK, ApartInv, Commands
<1>2. ASSUME AppendRead(p), sys = Torn PROVE ApartInv'
  <2>1. OwedKept /\ pc'[p] \in {"end", "defer"} /\ UNCHANGED files
    BY <1>1, <1>2 DEF AppendRead, OwedKept, files, os
  <2>. QED  BY <1>1, <2>1, QuietStep DEF files
<1>3. ASSUME AppendRead(p), sys # Torn PROVE ApartInv'
  <2>1. OwedKept /\ pc'[p] = "appTrunc" /\ UNCHANGED files
    BY <1>1, <1>3 DEF AppendRead, OwedKept, files, os
  <2>2. cmd'[p].snap = sys \cup {c} /\ cmd'[p].cid = c
    BY <1>1, <1>3 DEF AppendRead, Commands
  <2>3. Owed' \subseteq Owed /\ Owed \subseteq sys
    BY <1>3, <2>1, OwedSame DEF ApartInv
  <2>4. ListedBy(p)'
    BY <2>1, <2>2, <2>3 DEF ListedBy, HoldsRegistry
  <2>. QED  BY <1>1, <2>1, <2>3, <2>4, ApartStep DEF files
<1>4. ASSUME AppendTruncate(p) PROVE ApartInv'
  <2>1. OwedKept /\ pc[p] = "appTrunc" /\ pc'[p] = "appWrite" /\ sys' = Torn
        /\ UNCHANGED <<sync, used, cmd>>
    BY <1>1, <1>4 DEF AppendTruncate, OwedKept, os
  <2>2. ListedBy(p)'
    BY <1>1, <2>1, OwedSame DEF ListedBy, HoldsRegistry
  <2>. QED  BY <1>1, <2>1, <2>2, ApartStep
<1>5. ASSUME AppendWrite(p) PROVE ApartInv'
  <2>1. OwedKept /\ pc[p] = "appWrite" /\ sys' = cmd[p].snap
        /\ UNCHANGED <<sync, used>>
    BY <1>1, <1>5 DEF AppendWrite, OwedKept, os
  <2>2. pc'[p] \in {"appRead", "shell", "end"}
    BY <1>1, <1>5 DEF AppendWrite
  <2>3. cmd'[p].cid = c
    BY <1>1, <1>5 DEF AppendWrite, Commands
  <2>4. Owed' \subseteq sys' /\ c \in sys'
    BY <1>1, <2>1, OwedSame DEF ListedBy, HoldsRegistry
  <2>5. ListedBy(p)'
    BY <1>1, <2>1, <2>2, <2>3, <2>4 DEF ListedBy, HoldsRegistry
  <2>. QED  BY <1>1, <2>1, <2>4, <2>5, ApartStep
<1>. QED  BY <1>2, <1>3, <1>4, <1>5

\* The container of a shell is registered before the shell is recorded.
LEMMA ApartRecord ==
    ASSUME FullInv, ApartInv, ~Overlap', stuck \subseteq stuck',
           NEW p \in Procs, Others(p), Alone(p)
    PROVE  /\ RecordCheck(p) => ApartInv'
           /\ WritePid(p) => ApartInv'
<1>. DEFINE c == cmd[p].cid
<1>1. /\ pc \in [Procs -> Labels] /\ ListedBy(p) /\ sync \subseteq used
  BY DEF FullInv, TypeInv, TypeOK, ApartInv
<1>2. ASSUME Record(p), pc[p] \in {"record", "write"},
             UNCHANGED <<sys, disk, sync, used, cmd>>
      PROVE  ApartInv'
  <2>1. pc'[p] = "wait" /\ sys # Torn /\ c \in sys
    BY <1>1, <1>2 DEF Record, ListedBy
  <2>2. Owed' \subseteq Owed \cup {c}
    BY <1>2 DEF Record, Owed
  <2>3. Owed' \subseteq sys'
    BY <1>2, <2>1, <2>2 DEF ApartInv
  <2>4. ListedBy(p)'
    BY <2>1 DEF ListedBy, HoldsRegistry
  <2>. QED  BY <1>1, <1>2, <2>3, <2>4, ApartStep
<1>3. ASSUME RecordCheck(p), ~Record(p) PROVE ApartInv'
  <2>1. pc'[p] \in {"open", "defer"} /\ pc[p] = "record" /\ UNCHANGED <<files, os, cmd>>
    BY <1>1, <1>3 DEF RecordCheck
  <2>2. OwedKept
    BY <2>1 DEF OwedKept, files, os
  <2>. QED  BY <1>1, <2>1, <2>2, QuietStep DEF files
<1>4. ASSUME RecordCheck(p), Record(p) PROVE ApartInv'
  BY <1>2, <1>4 DEF RecordCheck, files
<1>5. ASSUME WritePid(p) PROVE ApartInv'
  BY <1>2, <1>5 DEF WritePid
<1>. QED  BY <1>3, <1>4, <1>5

LEMMA ApartDestroy ==
    ASSUME FullInv, ApartInv, ~Overlap', Noted,
           NEW p \in Procs, Others(p), Alone(p)
    PROVE  /\ DestroyRead(p) => ApartInv'
           /\ DestroyCheck(p) => ApartInv'
           /\ DestroyRootPart(p) => ApartInv'
           /\ DestroyRoot(p) => ApartInv'
           /\ DestroyRootFails(p) => ApartInv'
           /\ DestroySync(p) => ApartInv'
           /\ DestroyTruncate(p) => ApartInv'
           /\ DestroyWrite(p) => ApartInv'
<1>. DEFINE c == cmd[p].cid
<1>1. /\ pc \in [Procs -> Labels] /\ cmd \in [Procs -> Commands]
      /\ disk \in [Ids -> {"none", "hollow", "full"}]
      /\ cmd[p] \in Commands /\ cmd[p].snap # Torn /\ cmd[p].snap \subseteq Ids
      /\ pc[p] # "idle" => c \in Ids
      /\ ListedBy(p) /\ sync \subseteq used
      /\ pc[p] = "dRoot" => Unoccupied(c)
      /\ stuck \subseteq stuck'
  BY LifecycleAssumption, StuckElsewhere DEF FullInv, TypeOK, IndInv,
     CommandOK, NeedsUnoccupied, ApartInv, Commands
<1>2. ASSUME DestroyRead(p), sys = Torn PROVE ApartInv'
  <2>1. Finish(p)
    BY <1>2 DEF DestroyRead
  <2>2. OwedKept
    BY <1>1, <2>1, LeaveKeeps DEF Finish, files, OwedKept
  <2>. QED  BY <1>1, <2>1, <2>2, LeaveKeeps, QuietStep DEF Finish, files
<1>3. ASSUME DestroyRead(p), sys # Torn PROVE ApartInv'
  <2>1. OwedKept /\ UNCHANGED files /\ cmd'[p].snap = sys /\ cmd'[p].cid = c
    BY <1>1, <1>3 DEF DestroyRead, OwedKept, files, os, Commands
  <2>2. pc'[p] = (IF c \in sys THEN "dCheck" ELSE "dTrunc")
    BY <1>1, <1>3 DEF DestroyRead
  <2>3. Owed' \subseteq sys
    BY <1>3, <2>1, OwedSame DEF ApartInv
  <2>4. ListedBy(p)'
    BY <1>3, <2>1, <2>2, <2>3 DEF ListedBy, HoldsRegistry, files
  <2>. QED  BY <1>1, <2>1, <2>3, <2>4, ApartStep DEF files
<1>4. ASSUME DestroyCheck(p) PROVE ApartInv'
  <2>1. OwedKept /\ UNCHANGED <<files, cmd>>
    BY <1>1, <1>4 DEF DestroyCheck, OwedKept, files, os
  <2>2. pc[p] = "dCheck" /\ pc'[p] \in {"dTrunc", "dRoot"}
    BY <1>1, <1>4 DEF DestroyCheck
  <2>3. ListedBy(p)'
    BY <1>1, <2>1, <2>2, OwedSame DEF ListedBy, HoldsRegistry, files
  <2>. QED  BY <1>1, <2>1, <2>3, OwedSame, ApartStep DEF files, ApartInv
\* The container that is taken apart is in the registry.
<1>5. ASSUME pc[p] = "dRoot", UNCHANGED <<sys, sync, used, os, cmd>>,
             \A d \in Ids \ {c} : disk'[d] = disk[d],
             pc'[p] \in {"dRoot", "dSync"}
      PROVE  ApartInv'
  <2>1. Owed' \subseteq Owed \cup {c} /\ Unoccupied(c)'
    BY <1>1, <1>5 DEF Owed, os, Unoccupied
  <2>2. /\ sys # Torn /\ c \in sys /\ Owed \subseteq sys
        /\ c \in cmd[p].snap /\ Owed \subseteq cmd[p].snap
    BY <1>1, <1>5 DEF ListedBy, HoldsRegistry, ApartInv
  <2>3. ListedBy(p)'
    BY <1>5, <2>1, <2>2 DEF ListedBy, HoldsRegistry
  <2>. QED  BY <1>1, <1>5, <2>1, <2>2, <2>3, ApartStep
<1>6. ASSUME DestroyRootPart(p) PROVE ApartInv'
  BY <1>1, <1>5, <1>6 DEF DestroyRootPart
<1>7. ASSUME DestroyRoot(p) \/ DestroyRootFails(p) PROVE ApartInv'
  BY <1>1, <1>5, <1>7 DEF DestroyRoot, DestroyRootFails, files
\* Afterwards its folder in sync is gone or it is stuck.
<1>8. ASSUME DestroySync(p) PROVE ApartInv'
  <2>1. /\ pc[p] = "dSync" /\ pc'[p] = "dTrunc" /\ sync' \subseteq sync
        /\ cmd'[p].snap = cmd[p].snap \ {c} /\ cmd'[p].cid = c
        /\ UNCHANGED <<sys, used, disk, os>>
    BY <1>1, <1>8 DEF DestroySync, Commands
  <2>2. c \notin sync' \ stuck'
    BY <1>1, <2>1 DEF Noted
  <2>3. Owed' \subseteq Owed \ {c}
    BY <1>1, <2>1, <2>2 DEF ListedBy, Unoccupied, Owed, os
  <2>4. ListedBy(p)'
    BY <1>1, <2>1, <2>3 DEF ListedBy, HoldsRegistry
  <2>. QED  BY <1>1, <2>1, <2>3, <2>4, ApartStep DEF ApartInv
<1>9. ASSUME DestroyTruncate(p) PROVE ApartInv'
  <2>1. /\ OwedKept /\ pc[p] = "dTrunc" /\ pc'[p] = "dWrite" /\ sys' = Torn
        /\ UNCHANGED <<sync, used, cmd>>
    BY <1>1, <1>9 DEF DestroyTruncate, OwedKept, os
  <2>2. ListedBy(p)'
    BY <1>1, <2>1, OwedSame DEF ListedBy, HoldsRegistry
  <2>. QED  BY <1>1, <2>1, <2>2, ApartStep
<1>10. ASSUME DestroyWrite(p) PROVE ApartInv'
  <2>1. /\ OwedKept /\ pc[p] = "dWrite" /\ pc'[p] = "idle"
        /\ sys' = cmd[p].snap /\ UNCHANGED <<sync, used>>
    BY <1>1, <1>10, LeaveKeeps DEF DestroyWrite, OwedKept
  <2>2. Owed' \subseteq sys'
    BY <1>1, <2>1, OwedSame DEF ListedBy, HoldsRegistry
  <2>3. ListedBy(p)'
    BY <2>1 DEF ListedBy, HoldsRegistry
  <2>. QED  BY <1>1, <2>1, <2>2, <2>3, ApartStep
<1>. QED  BY <1>2, <1>3, <1>4, <1>6, <1>7, <1>8, <1>9, <1>10

\* A shell that ends is owed no registration any more.
LEMMA ApartProcess ==
    ASSUME FullInv, ApartInv, NEW r \in Pids,
           ShellExits(r) \/ ForeignStarts(r) \/ ForeignEnds(r),
           UNCHANGED stuck
    PROVE  ApartInv'
<1>1. /\ UNCHANGED <<files, pc, cmd>> /\ recorded' \subseteq recorded
      /\ \A q \in recorded' : kernel'[q] = kernel[q] /\ q \in recorded
  <2>1. /\ kernel \in [Pids -> Ids \cup KernelStates] /\ recorded \subseteq Pids
        /\ \A q \in recorded : kernel[q] \in Ids
    BY DEF FullInv, TypeInv, TypeOK, IndInv, RecordedFound
  <2>. QED  BY <2>1, LifecycleAssumption
            DEF ShellExits, ForeignStarts, ForeignEnds, files, KernelStates
<1>2. Owed' \subseteq Owed
  BY <1>1 DEF Owed, files
<1>3. \A c \in Ids : Unoccupied(c) => Unoccupied(c)'
  BY <1>1 DEF Unoccupied
<1>4. ~Overlap'
  BY <1>1 DEF ApartInv, Overlap, AtRest
<1>5. ASSUME NEW p \in Procs PROVE ListedBy(p)'
  <2>1. pc[p] = "dSync" => cmd[p].cid \in Ids
    BY DEF FullInv, TypeInv, Knows
  <2>2. ListedBy(p)
    BY DEF ApartInv
  <2>. QED  BY <1>1, <1>2, <1>3, <2>1, <2>2 DEF ListedBy, HoldsRegistry, files
<1>. QED  BY <1>1, <1>2, <1>4, <1>5 DEF ApartInv, files

LEMMA ApartWork ==
    ASSUME FullInv, ApartInv, ~Overlap', Noted,
           NEW p \in Procs, Others(p), Alone(p),
           Work(p)
    PROVE  ApartInv'
BY StuckElsewhere, ApartQuiet, ApartAppend, ApartRecord, ApartDestroy DEF Work

-----------------------------------------------------------------------------
(* The steps of MCLifecycleUse are steps of Lifecycle.                     *)

LEMMA UseRefines == [MCNext]_<<vars, use, stuck>> => [Next]_vars
BY DEF MCNext, Next, Environment

\* Who moves, and that the others stay where they are.
LEMMA ActiveOthers ==
    ASSUME TypeInv, NEW p \in Procs,
           \/ Work(p) \/ Crash(p) \/ WriteFails(p)
           \/ \E c \in Ids : Command(p, c)
    PROVE  Others(p)
BY WorkKnows, CommandKnows, CrashKnows DEF TypeInv

LEMMA MovesBusy ==
    ASSUME TypeInv, NEW p \in Procs, Work(p) \/ (\E c \in Ids : Command(p, c))
    PROVE  ~AtRest(p) \/ ~AtRest(p)'
<1>1. pc \in [Procs -> Labels]
  BY DEF TypeInv, TypeOK
<1>2. ASSUME WaitReturns(p) PROVE ~AtRest(p)'
  BY <1>1, <1>2 DEF WaitReturns, AtRest
<1>3. ASSUME Work(p), ~WaitReturns(p) PROVE ~AtRest(p)
  BY <1>3 DEF Work, GenerateDone, GenerateFails, ResumeCheck, RunLoad,
     SetupDone, SetupFails, AppendRead, AppendTruncate, AppendWrite,
     StartShell, ShellFails, RecordCheck, OpenPid, WritePid, DeferTruncate,
     DeferWrite, RunEnds, DestroyRead, DestroyCheck, DestroyRootPart,
     DestroyRoot, DestroyRootFails, DestroySync, DestroyTruncate,
       DestroyWrite, AtRest
<1>4. ASSUME NEW c \in Ids, Command(p, c) PROVE ~AtRest(p)'
  BY <1>1, <1>4 DEF Command, Create, Resume, Destroy, AtRest
<1>. QED  BY <1>2, <1>3, <1>4

\* A killed command leaves the others to their work, one whose write fails
\* has changed nothing.
LEMMA ApartCrash ==
    ASSUME FullInv, ApartInv, NEW p \in Procs, Crash(p) \/ WriteFails(p),
           Others(p), UNCHANGED stuck
    PROVE  ApartInv'
<1>1. /\ UNCHANGED files /\ pc'[p] \in {"idle", "end", "defer", "appRead"}
      /\ recorded' = recorded /\ \A r \in recorded : kernel'[r] = kernel[r]
      /\ AtRest(p) => AtRest(p)'
  <2>1. CASE Finish(p)
    BY <2>1, LeaveKeeps DEF Finish, AtRest
  <2>2. CASE ~Finish(p)
    <3>1. pc \in [Procs -> Labels]
      BY DEF FullInv, TypeInv, TypeOK
    <3>. QED  BY <2>2, <3>1 DEF Crash, WriteFails, AtRest, files, os
  <2>. QED  BY <2>1, <2>2
<1>2. Owed' = Owed /\ \A c \in Ids : Unoccupied(c) => Unoccupied(c)'
  BY <1>1 DEF Owed, Unoccupied, files
<1>3. ~Overlap'
  BY <1>1 DEF ApartInv, Overlap, AtRest, Others
<1>4. ListedBy(p)'
  BY <1>1 DEF ListedBy, HoldsRegistry
<1>5. ASSUME NEW q \in Procs, q # p PROVE ListedBy(q)'
  <2>1. pc[q] = "dSync" => cmd[q].cid \in Ids
    BY DEF FullInv, TypeInv, Knows
  <2>2. ListedBy(q)
    BY DEF ApartInv
  <2>. QED  BY <1>1, <1>2, <1>5, <2>1, <2>2 DEF ListedBy, HoldsRegistry,
               files, Others
<1>. QED  BY <1>1, <1>2, <1>3, <1>4, <1>5 DEF ApartInv, files

LEMMA ApartNext ==
    ASSUME FullInv, use \in {"plain", "disturbed"} => ApartInv,
           [MCNext]_<<vars, use, stuck>>, use' \in {"plain", "disturbed"}
    PROVE  use \in {"plain", "disturbed"} /\ ApartInv'
<1>1. TypeInv
  BY DEF FullInv
<1>2. ASSUME NEW p \in Procs, Continued,
             \/ Work(p) /\ Noted
             \/ (\E c \in Ids : Command(p, c)) /\ UNCHANGED stuck
      PROVE  use \in {"plain", "disturbed"} /\ ApartInv'
  <2>1. ~Overlap' /\ use \in {"plain", "disturbed"}
    BY <1>2 DEF Continued
  <2>2. ApartInv /\ Others(p) /\ Alone(p)
    BY <1>1, <1>2, <2>1, ActiveOthers, MovesBusy, ActiveAlone DEF ApartInv
  <2>. QED  BY <1>2, <2>1, <2>2, ApartWork, ApartBegin
<1>3. ASSUME NEW p \in Procs, Crash(p) \/ WriteFails(p), Disturbed,
             UNCHANGED stuck
      PROVE  use \in {"plain", "disturbed"} /\ ApartInv'
  <2>1. use \in {"plain", "disturbed"} /\ Others(p)
    BY <1>1, <1>3, ActiveOthers DEF Disturbed
  <2>. QED  BY <1>3, <2>1, ApartCrash
<1>4. ASSUME NEW r \in Pids, ForeignStarts(r), Disturbed, UNCHANGED stuck
      PROVE  use \in {"plain", "disturbed"} /\ ApartInv'
  BY <1>4, ApartProcess DEF Disturbed
<1>5. ASSUME NEW r \in Pids, ShellExits(r) \/ ForeignEnds(r), UNCHANGED <<use, stuck>>
      PROVE  use \in {"plain", "disturbed"} /\ ApartInv'
  BY <1>5, ApartProcess
<1>6. ASSUME UNCHANGED <<vars, use, stuck>>
      PROVE  use \in {"plain", "disturbed"} /\ ApartInv'
  BY <1>6 DEF vars, files, os, ApartInv, Overlap, AtRest, Owed, ListedBy,
     HoldsRegistry, Unoccupied
<1>. QED  BY <1>2, <1>3, <1>4, <1>5, <1>6 DEF MCNext

DisturbedInv == FullInv /\ (use \in {"plain", "disturbed"} => ApartInv)

LEMMA DisturbedInvInit == MCInit => DisturbedInv
<1>. SUFFICES ASSUME MCInit PROVE DisturbedInv
  OBVIOUS
<1>1. FullInv
  BY FullInvInit DEF MCInit
<1>2. ApartInv
  BY DEF MCInit, Init, ApartInv, Overlap, AtRest, Owed, ListedBy
<1>. QED  BY <1>1, <1>2 DEF DisturbedInv

LEMMA DisturbedInvNext ==
    ASSUME SameWidth, Discipline # "none"
    PROVE  DisturbedInv /\ [MCNext]_<<vars, use, stuck>> => DisturbedInv'
BY FullInvNext, UseRefines, ApartNext DEF DisturbedInv

\* What container.pid names, the registry lists.
LEMMA OwedListed ==
    ASSUME FullInv, ApartInv
    PROVE  RunningRegistered /\ HalfDestroyedListed(stuck)
<1>1. RunningRegistered
  BY DEF FullInv, IndInv, RecordedFound, ApartInv, Owed, RunningRegistered
<1>2. HalfDestroyedListed(stuck)
  BY DEF FullInv, TypeInv, TypeOK, ApartInv, Owed, HalfDestroyedListed
<1>. QED  BY <1>1, <1>2

LEMMA DisturbedListed ==
    DisturbedInv => RunningRegisteredApart /\ HalfDestroyedListedApart
BY OwedListed DEF DisturbedInv, RunningRegisteredApart, HalfDestroyedListedApart

(* As long as no two commands work at once, every container whose shell is *)
(* recorded in container.pid is in the registry that appendToSys wrote, or *)
(* the registry is torn: even if commands were killed between any two      *)
(* steps and whatever pids other processes have taken.                     *)
THEOREM RunningStayRegistered ==
    ASSUME SameWidth, Discipline # "none"
    PROVE  MCSpec => []RunningRegisteredApart
<1>1. MCSpec => []DisturbedInv
  BY DisturbedInvInit, DisturbedInvNext, PTL DEF MCSpec
<1>2. DisturbedInv => RunningRegisteredApart
  BY DisturbedListed
<1>. QED  BY <1>1, <1>2, PTL

(* Under the same conditions what a killed Destroy has left half removed   *)
(* is still in the registry, because only its defer takes the container    *)
(* off, after RemoveAll has been called for the root folder and sync/<id>: *)
(* the destroy can be repeated.  Where RemoveAll has failed it cannot: the *)
(* container is stuck.                                                     *)
THEOREM HalfDestroyedStayListed ==
    ASSUME SameWidth, Discipline # "none"
    PROVE  MCSpec => []HalfDestroyedListedApart
<1>1. MCSpec => []DisturbedInv
  BY DisturbedInvInit, DisturbedInvNext, PTL DEF MCSpec
<1>2. DisturbedInv => HalfDestroyedListedApart
  BY DisturbedListed
<1>. QED  BY <1>1, <1>2, PTL

-----------------------------------------------------------------------------
(* Commands that nothing disturbs                                          *)

Elsewhere(c) ==
    \A d \in Ids \ {c} :
        /\ disk'[d] = disk[d]
        /\ info'[d] = info[d]
        /\ pidFile'[d] = pidFile[d]
        /\ d \in sync' <=> d \in sync

RootKept == UNCHANGED <<disk, info, pidFile, sync>>

LEMMA RootKeptElsewhere == ASSUME RootKept, NEW c PROVE Elsewhere(c)
BY DEF RootKept, Elsewhere

LEMMA WaitingElsewhere ==
    ASSUME NEW p \in Procs, Others(p), NEW c,
           pc[p] = "wait" => cmd[p].cid = c, pc'[p] = "wait" => cmd'[p].cid = c
    PROVE  \A d \in Ids \ {c} : Waiting(d)' <=> Waiting(d)
BY DEF Waiting, Others

LEMMA WaitingKept ==
    ASSUME NEW p \in Procs, Others(p), pc[p] # "wait", pc'[p] # "wait"
    PROVE  \A d \in Ids : Waiting(d)' <=> Waiting(d)
BY DEF Waiting, Others

\* The shell of a command that waits answers to the pid in container.pid.
LEMMA WaiterActive ==
    ASSUME FullInv, PlainInv, NEW c \in Ids, Waiting(c)
    PROVE  PidIsActive(pidFile[c], kernel)
<1>1. PICK p \in Procs : pc[p] = "wait" /\ cmd[p].cid = c
  BY DEF Waiting
<1>2. /\ pidFile[c] = cmd[p].shell /\ cmd[p].shell # None
      /\ kernel[cmd[p].shell] \in {c, "zombie"} /\ c # "free"
  BY <1>1, LifecycleAssumption DEF PlainInv, WaiterOK, FullInv, IndInv,
     CommandOK, KernelStates
<1>3. cmd[p].shell \in Pids
  BY <1>1, <1>2 DEF FullInv, IndInv, TypeOK, Commands
<1>. QED  BY <1>2, <1>3, PidsAssumption DEF PidIsActive, PidValueFails

\* No two commands wait in one container.
LEMMA WaitersApart ==
    ASSUME FullInv, PlainInv, NEW p \in Procs, NEW q \in Procs, p # q,
           pc[p] = "wait", pc[q] = "wait"
    PROVE  cmd[p].cid # cmd[q].cid
BY DEF PlainInv, WaiterOK, FullInv, IndInv, CommandOK, Apart

LEMMA SoundElsewhere ==
    ASSUME NEW p \in Procs, Others(p), NEW c, Elsewhere(c),
           pc[p] = "wait" => cmd[p].cid = c, pc'[p] = "wait" => cmd'[p].cid = c,
           \A d \in Ids \ {c} : d \in stuck' <=> d \in stuck,
           \A d \in Ids \ {c} : /\ Sound(Registry(p), d)
                                /\ d \in Registry(p)' <=> d \in Registry(p)
    PROVE  \A d \in Ids \ {c} : Sound(Registry(p), d)'
<1>1. \A d \in Ids \ {c} : Waiting(d)' <=> Waiting(d)
  BY WaitingElsewhere
<1>. QED  BY <1>1 DEF Elsewhere, Sound, HasRecord

LEMMA PlainStep ==
    ASSUME FullInv, PlainInv, NEW p \in Procs, Others(p), Alone(p),
           NEW c \in Ids, used \subseteq used', c \in used', Elsewhere(c),
           RootKept \/ ~Waiting(c),
           AtRest(p)' => RestOK',
           pc'[p] = "wait" => WaiterOK(p)',
           ~AtRest(p)' => BusyOK(p)'
    PROVE  PlainInv'
<1>1. \A d \in Ids \ used' : Fresh(d)'
  BY DEF PlainInv, Fresh, Elsewhere
<1>2. ASSUME NEW q \in Procs, q # p, pc'[q] = "wait" PROVE WaiterOK(q)'
  <2>1. pc[q] = "wait" /\ cmd'[q] = cmd[q] /\ WaiterOK(q)
    BY <1>2 DEF PlainInv, Others
  <2>2. CASE RootKept
    BY <2>1, <2>2 DEF WaiterOK, RootKept
  <2>3. CASE ~Waiting(c)
    <3>1. cmd[q].cid \in Ids \ {c}
      BY <2>1, <2>3 DEF Waiting, FullInv, TypeInv, Knows
    <3>. QED  BY <2>1, <3>1 DEF WaiterOK, Elsewhere
  <2>. QED  BY <2>2, <2>3
<1>3. ASSUME NEW q \in Procs, q # p PROVE AtRest(q)'
  BY <1>3 DEF Alone, Others, AtRest
<1>. QED  BY <1>1, <1>2, <1>3 DEF PlainInv

\* A step of a command that is at work before and after it.
LEMMA BusyStep ==
    ASSUME FullInv, PlainInv, NEW p \in Procs, Others(p), Alone(p), Noted,
           ~AtRest(p), ~AtRest(p)', NEW c \in Ids,
           cmd[p].cid = c, cmd'[p].cid = c, used' = used,
           Elsewhere(c), RootKept \/ ~Waiting(c),
           \A d \in Ids \ {c} : d \in Registry(p)' <=> d \in Registry(p),
           SnapOK(p)', OwnOK(p)', FastOK(p)'
    PROVE  PlainInv'
<1>1. BusyOK(p) /\ c \in used
  BY DEF PlainInv, FullInv, IndInv, CommandOK, AtRest
<1>2. pc[p] # "wait" /\ pc'[p] # "wait"
  BY DEF AtRest
<1>3. OthersOK(p)'
  BY <1>1, <1>2, SoundElsewhere, StuckElsewhere DEF BusyOK, OthersOK
<1>. QED  BY <1>1, <1>2, <1>3, PlainStep DEF BusyOK

\* A step by which it comes to rest.
LEMMA EndStep ==
    ASSUME FullInv, PlainInv, NEW p \in Procs, Others(p), Alone(p), Noted,
           ~AtRest(p), AtRest(p)', NEW c \in Ids,
           cmd[p].cid = c, pc'[p] = "wait" => cmd'[p].cid = c, used' = used,
           Elsewhere(c), RootKept \/ ~Waiting(c),
           \A d \in Ids \ {c} : d \in sys' <=> d \in Registry(p),
           sys' # Torn, Sound(sys, c)', pc'[p] = "wait" => WaiterOK(p)'
    PROVE  PlainInv'
<1>1. BusyOK(p) /\ c \in used
  BY DEF PlainInv, FullInv, IndInv, CommandOK, AtRest
<1>2. pc[p] # "wait" /\ Registry(p)' = sys'
  BY DEF AtRest, Registry, Writes
<1>3. \A d \in Ids \ {c} : Sound(Registry(p), d)'
  BY <1>1, <1>2, SoundElsewhere, StuckElsewhere DEF BusyOK, OthersOK
<1>4. \A d \in Ids \ {c} : Sound(sys, d)'
  BY <1>2, <1>3 DEF Sound
<1>5. RestOK'
  BY <1>4 DEF RestOK
<1>. QED  BY <1>1, <1>5, PlainStep

\* What is known of the command at work.
PlainFacts(p) ==
    LET c == cmd[p].cid IN
    /\ pc \in [Procs -> Labels] /\ cmd \in [Procs -> Commands]
    /\ cmd[p] \in Commands /\ cmd[p].snap # Torn
    /\ disk \in [Ids -> {"none", "hollow", "full"}]
    /\ info \in [Ids -> {"none", "dir", "torn", "raw", "ready"}]
    /\ DOMAIN pidFile = Ids
    /\ pidFile[c] \in Pids \cup {None, <<>>}
    /\ c \in Ids /\ CommandOK(p) /\ ListedBy(p) /\ BusyOK(p)

LEMMA PlainKnows ==
    ASSUME FullInv, ApartInv, PlainInv, NEW p \in Procs, ~AtRest(p)
    PROVE  PlainFacts(p)
BY LifecycleAssumption DEF PlainFacts, FullInv, TypeInv, TypeOK, Knows,
   IndInv, ApartInv, PlainInv, AtRest, Commands

LEMMA PlainGenerate ==
    ASSUME FullInv, PlainInv, NEW p \in Procs, Others(p), Alone(p), Noted,
           ~AtRest(p), PlainFacts(p)
    PROVE  /\ GenerateDone(p) => PlainInv'
           /\ GenerateFails(p) => PlainInv'
           /\ ResumeCheck(p) => PlainInv'
<1>0. PICK c \in Ids : cmd[p].cid = c
  BY DEF PlainFacts
<1>1. /\ cmd[p].cid = c /\ BusyOK(p) /\ pc \in [Procs -> Labels]
      /\ cmd \in [Procs -> Commands]
      /\ disk \in [Ids -> {"none", "hollow", "full"}] /\ pc[p] # "wait"
  BY <1>0 DEF PlainFacts, AtRest
<1>2. /\ pc'[p] # "wait" => \A d \in Ids : Waiting(d)' <=> Waiting(d)
      /\ stuck \subseteq stuck'
  BY <1>1, WaitingKept, StuckElsewhere
<1>3. ASSUME GenerateDone(p) PROVE PlainInv'
  <2>1. /\ pc[p] = "gen" /\ pc'[p] = "load" /\ UNCHANGED <<sys, info, pidFile, used, cmd>>
        /\ disk'[c] = "full" /\ c \in sync' /\ Elsewhere(c)
    BY <1>1, <1>3 DEF GenerateDone, Elsewhere
  <2>2. SnapOK(p)' /\ OwnOK(p)' /\ FastOK(p)' /\ ~Waiting(c)
    BY <1>1, <1>2, <2>1 DEF BusyOK, SnapOK, OwnOK, FastOK, Writes, Appends
  <2>. QED  BY <1>1, <2>1, <2>2, BusyStep DEF AtRest, Registry, Writes
<1>4. ASSUME GenerateFails(p) PROVE PlainInv'
  <2>1. /\ pc[p] = "gen" /\ pc'[p] = "idle" /\ UNCHANGED <<sys, info, pidFile, used>>
        /\ Elsewhere(c)
    BY <1>1, <1>4 DEF GenerateFails, Elsewhere, Leave
  <2>2. sys' # Torn /\ Sound(sys, c)' /\ ~Waiting(c)
    BY <1>1, <2>1 DEF BusyOK, SnapOK, OwnOK, Writes, Sound, HasRecord
  <2>. QED  BY <1>1, <2>1, <2>2, EndStep DEF AtRest, Registry, Writes
<1>5. ASSUME ResumeCheck(p) PROVE PlainInv'
  <2>1. pc[p] = "resume" /\ UNCHANGED files /\ RootKept
    BY <1>5 DEF ResumeCheck, Finish, files, RootKept
  <2>2. Elsewhere(c) /\ Sound(sys, c) /\ c \in sys
    BY <1>1, <2>1, RootKeptElsewhere DEF BusyOK, OwnOK
  <2>3. CASE pc'[p] = "load" /\ cmd' = cmd /\ kernel' = kernel /\ HasRecord(c)
             /\ ~PidIsActive(pidFile[c], kernel)
    <3>1. ~Waiting(c)
      BY <1>1, <2>3, WaiterActive
    <3>2. SnapOK(p)' /\ OwnOK(p)' /\ FastOK(p)'
      BY <1>1, <1>2, <2>1, <2>2, <2>3, <3>1 DEF BusyOK, SnapOK, OwnOK, FastOK,
         Writes, Sound, HasRecord, files
    <3>. QED  BY <1>1, <2>1, <2>2, <2>3, <3>2, BusyStep DEF AtRest, Registry,
                 Writes, files
  <2>4. CASE Finish(p)
    <3>1. pc'[p] = "idle"
      BY <1>1, <2>4 DEF Finish, Leave
    <3>2. sys' # Torn /\ Sound(sys, c)'
      BY <1>1, <1>2, <2>1, <2>2, <3>1 DEF BusyOK, SnapOK, Writes, Sound,
         HasRecord, files
    <3>. QED  BY <1>1, <2>1, <2>2, <3>1, <3>2, EndStep DEF AtRest, Registry,
                 Writes, files
  <2>. QED  BY <1>1, <1>5, <2>3, <2>4 DEF ResumeCheck, HasRecord, os
<1>. QED  BY <1>3, <1>4, <1>5

LEMMA PlainRun ==
    ASSUME FullInv, PlainInv, NEW p \in Procs, Others(p), Alone(p), Noted,
           ~AtRest(p), PlainFacts(p)
    PROVE  /\ RunLoad(p) => PlainInv'
           /\ SetupDone(p) => PlainInv'
           /\ SetupFails(p) => PlainInv'
<1>0. PICK c \in Ids : cmd[p].cid = c
  BY DEF PlainFacts
<1>1. /\ cmd[p].cid = c /\ BusyOK(p) /\ pc \in [Procs -> Labels]
      /\ cmd \in [Procs -> Commands] /\ cmd[p] \in Commands
      /\ disk \in [Ids -> {"none", "hollow", "full"}]
      /\ info \in [Ids -> {"none", "dir", "torn", "raw", "ready"}]
      /\ pc[p] # "wait"
  BY <1>0 DEF PlainFacts, AtRest
<1>2. /\ pc'[p] # "wait" => \A d \in Ids : Waiting(d)' <=> Waiting(d)
      /\ stuck \subseteq stuck'
  BY <1>1, WaitingKept, StuckElsewhere
<1>3. ASSUME RunLoad(p) PROVE PlainInv'
  <2>1. /\ pc[p] = "load" /\ UNCHANGED <<sys, pidFile, sync, used, os>>
        /\ disk[c] = "full" /\ c \in sync /\ ~Waiting(c) /\ info[c] # "torn"
        /\ sys # Torn /\ (cmd[p].fast => pidFile[c] = None)
    BY <1>1, <1>3 DEF RunLoad, BusyOK, OwnOK, SnapOK, FastOK, Writes
  <2>2. /\ disk'[c] = "full" /\ info'[c] # "none" /\ Elsewhere(c)
        /\ cmd'[p].cid = c /\ cmd'[p].fast = cmd[p].fast
        /\ \/ pc'[p] = "appRead" /\ cmd'[p].then = "shell"
           \/ pc'[p] = "setup"
    BY <1>1, <1>3, <2>1 DEF RunLoad, Elsewhere, Commands
  <2>3. SnapOK(p)' /\ OwnOK(p)' /\ FastOK(p)'
    BY <1>2, <2>1, <2>2 DEF SnapOK, OwnOK, FastOK, Appends
  <2>. QED  BY <1>1, <2>1, <2>2, <2>3, BusyStep DEF AtRest, Registry, Writes
<1>4. ASSUME SetupDone(p) \/ SetupFails(p) PROVE PlainInv'
  <2>1. /\ pc[p] = "setup" /\ UNCHANGED <<files, os>> /\ RootKept
        /\ disk[c] = "full" /\ c \in sync /\ ~Waiting(c) /\ info[c] # "none"
        /\ sys # Torn /\ (cmd[p].fast => pidFile[c] = None)
    BY <1>1, <1>4 DEF SetupDone, SetupFails, BusyOK, OwnOK, SnapOK, FastOK,
       Writes, RootKept, files
  <2>2. /\ cmd'[p].cid = c /\ cmd'[p].fast = cmd[p].fast
        /\ \/ pc'[p] = "appRead" /\ cmd'[p].then = "run"
           \/ pc'[p] = "defer"
    BY <1>1, <1>4, <2>1 DEF SetupDone, SetupFails, Commands
  <2>3. SnapOK(p)' /\ OwnOK(p)' /\ FastOK(p)'
    BY <1>2, <2>1, <2>2 DEF SnapOK, OwnOK, FastOK, Appends, files,
       PidIsActive, PidValueFails
  <2>. QED  BY <1>1, <2>1, <2>2, <2>3, BusyStep, RootKeptElsewhere DEF AtRest,
               Registry, Writes, files
<1>. QED  BY <1>3, <1>4

LEMMA PlainAppend ==
    ASSUME FullInv, PlainInv, NEW p \in Procs, Others(p), Alone(p), Noted,
           ~AtRest(p), PlainFacts(p)
    PROVE  /\ AppendRead(p) => PlainInv'
           /\ AppendTruncate(p) => PlainInv'
           /\ AppendWrite(p) => PlainInv'
<1>0. PICK c \in Ids : cmd[p].cid = c
  BY DEF PlainFacts
<1>1. /\ cmd[p].cid = c /\ BusyOK(p) /\ pc \in [Procs -> Labels]
      /\ cmd \in [Procs -> Commands] /\ cmd[p] \in Commands
      /\ pc[p] # "wait" /\ cmd[p].snap # Torn
  BY <1>0 DEF PlainFacts, AtRest
<1>2. /\ pc'[p] # "wait" => \A d \in Ids : Waiting(d)' <=> Waiting(d)
      /\ stuck \subseteq stuck'
  BY <1>1, WaitingKept, StuckElsewhere
<1>3. ASSUME AppendRead(p) \/ AppendTruncate(p) \/ AppendWrite(p)
      PROVE  /\ Appends(p) /\ UNCHANGED <<os>> /\ RootKept /\ used' = used
             /\ Elsewhere(c)
             /\ disk[c] = "full" /\ c \in sync /\ ~Waiting(c) /\ info[c] # "none"
             /\ (cmd[p].then = "end" => HasRecord(c))
             /\ cmd[p].fast => IF cmd[p].then = "end"
                               THEN ~PidIsActive(pidFile[c], kernel)
                               ELSE pidFile[c] = None
  BY <1>1, <1>3, RootKeptElsewhere DEF AppendRead, AppendTruncate,
     AppendWrite, BusyOK, OwnOK, FastOK, Appends, RootKept, files
<1>4. ASSUME AppendRead(p) PROVE PlainInv'
  <2>1. /\ pc[p] = "appRead" /\ pc'[p] = "appTrunc" /\ sys # Torn /\ sys' = sys
        /\ cmd'[p].cid = c /\ cmd'[p].fast = cmd[p].fast
        /\ cmd'[p].then = cmd[p].then /\ cmd'[p].snap = sys \cup {c}
    BY <1>1, <1>4 DEF AppendRead, BusyOK, SnapOK, Writes, Commands, files
  <2>2. SnapOK(p)' /\ OwnOK(p)' /\ FastOK(p)'
    BY <1>2, <1>3, <1>4, <2>1 DEF SnapOK, OwnOK, FastOK, RootKept, HasRecord,
       os
  <2>. QED  BY <1>1, <1>3, <1>4, <2>1, <2>2, BusyStep DEF AtRest, Registry,
               Writes
<1>5. ASSUME AppendTruncate(p) PROVE PlainInv'
  <2>1. /\ pc[p] = "appTrunc" /\ pc'[p] = "appWrite" /\ cmd' = cmd
        /\ cmd[p].snap = sys \cup {c}
    BY <1>1, <1>5 DEF AppendTruncate, BusyOK, SnapOK
  <2>2. SnapOK(p)' /\ OwnOK(p)' /\ FastOK(p)'
    BY <1>1, <1>2, <1>3, <1>5, <2>1 DEF SnapOK, OwnOK, FastOK, Writes,
       RootKept, HasRecord, os
  <2>. QED  BY <1>1, <1>3, <1>5, <2>1, <2>2, BusyStep DEF AtRest, Registry,
               Writes
<1>6. ASSUME AppendWrite(p) PROVE PlainInv'
  <2>1. /\ pc[p] = "appWrite" /\ sys' = cmd[p].snap /\ c \in cmd[p].snap
        /\ cmd'[p].cid = c /\ cmd'[p].fast = cmd[p].fast
        /\ \/ /\ cmd[p].then # "end" /\ pc'[p] = "appRead" /\ cmd'[p].then = "shell"
           \/ cmd[p].then # "end" /\ pc'[p] = "shell"
           \/ cmd[p].then = "end" /\ pc'[p] = "end"
    BY <1>1, <1>6 DEF AppendWrite, BusyOK, SnapOK, Commands
  <2>2. SnapOK(p)' /\ OwnOK(p)' /\ FastOK(p)'
    BY <1>1, <1>2, <1>3, <1>6, <2>1 DEF SnapOK, OwnOK, FastOK, Appends,
       RootKept, HasRecord, os
  <2>. QED  BY <1>1, <1>3, <1>6, <2>1, <2>2, BusyStep DEF AtRest, Registry,
               Writes
<1>. QED  BY <1>4, <1>5, <1>6

LEMMA PlainShell ==
    ASSUME FullInv, PlainInv, NEW p \in Procs, Others(p), Alone(p), Noted,
           ~AtRest(p), PlainFacts(p)
    PROVE  /\ (\E r \in Pids : StartShell(p, r)) => PlainInv'
           /\ ShellFails(p) => PlainInv'
           /\ OpenPid(p) => PlainInv'
<1>0. PICK c \in Ids : cmd[p].cid = c
  BY DEF PlainFacts
<1>1. /\ cmd[p].cid = c /\ BusyOK(p) /\ pc \in [Procs -> Labels]
      /\ cmd \in [Procs -> Commands] /\ cmd[p] \in Commands
      /\ DOMAIN pidFile = Ids /\ pc[p] # "wait"
      /\ pc[p] = "open" => disk[c] = "full"
  BY <1>0 DEF PlainFacts, AtRest, CommandOK
<1>2. /\ pc'[p] # "wait" => \A d \in Ids : Waiting(d)' <=> Waiting(d)
      /\ stuck \subseteq stuck'
  BY <1>1, WaitingKept, StuckElsewhere
<1>3. ASSUME pc[p] \in {"shell", "open"}
      PROVE  /\ disk[c] = "full" /\ c \in sync /\ ~Waiting(c)
             /\ info[c] # "none" /\ sys # Torn
             /\ (cmd[p].fast => pidFile[c] = None)
  BY <1>1, <1>3 DEF BusyOK, OwnOK, SnapOK, FastOK, Writes
<1>4. ASSUME NEW r \in Pids, StartShell(p, r) PROVE PlainInv'
  <2>1. /\ pc[p] = "shell" /\ pc'[p] = "record" /\ UNCHANGED files /\ RootKept
        /\ cmd'[p].cid = c /\ cmd'[p].fast = cmd[p].fast
    BY <1>1, <1>4 DEF StartShell, RootKept, files, Commands
  <2>2. SnapOK(p)' /\ OwnOK(p)' /\ FastOK(p)'
    BY <1>2, <1>3, <2>1 DEF SnapOK, OwnOK, FastOK, Appends, files
  <2>. QED  BY <1>1, <2>1, <2>2, BusyStep, RootKeptElsewhere DEF AtRest,
               Registry, Writes, files
<1>5. ASSUME ShellFails(p) PROVE PlainInv'
  <2>1. /\ pc[p] = "shell" /\ pc'[p] = "defer" /\ UNCHANGED <<files, cmd>>
        /\ RootKept
    BY <1>1, <1>5 DEF ShellFails, RootKept, files
  <2>2. SnapOK(p)' /\ OwnOK(p)' /\ FastOK(p)'
    BY <1>1, <1>2, <1>3, <2>1 DEF SnapOK, OwnOK, FastOK, Appends, files,
       PidIsActive, PidValueFails
  <2>. QED  BY <1>1, <2>1, <2>2, BusyStep, RootKeptElsewhere DEF AtRest,
               Registry, Writes, files
<1>6. ASSUME OpenPid(p) PROVE PlainInv'
  <2>1. /\ pc[p] = "open" /\ pc'[p] = "write" /\ Elsewhere(c)
        /\ UNCHANGED <<sys, disk, info, sync, used, os, cmd>>
    BY <1>1, <1>6 DEF OpenPid, Elsewhere
  <2>2. SnapOK(p)' /\ OwnOK(p)' /\ FastOK(p)'
    BY <1>1, <1>2, <1>3, <2>1 DEF SnapOK, OwnOK, FastOK, Appends
  <2>. QED  BY <1>1, <1>3, <2>1, <2>2, BusyStep DEF AtRest, Registry, Writes
<1>. QED  BY <1>4, <1>5, <1>6

\* The command comes to wait for its shell, whose pid is in container.pid.
LEMMA PlainRecord ==
    ASSUME SameWidth, FullInv, PlainInv, NEW p \in Procs, Others(p), Alone(p),
           Noted,
           ~AtRest(p), PlainFacts(p)
    PROVE  /\ RecordCheck(p) => PlainInv'
           /\ WritePid(p) => PlainInv'
<1>0. PICK c \in Ids : cmd[p].cid = c
  BY DEF PlainFacts
<1>1. /\ cmd[p].cid = c /\ BusyOK(p) /\ pc \in [Procs -> Labels]
      /\ DOMAIN pidFile = Ids /\ pidFile[c] \in Pids \cup {None, <<>>}
      /\ pc[p] # "wait"
  BY <1>0 DEF PlainFacts, AtRest
<1>2. /\ pc'[p] # "wait" => \A d \in Ids : Waiting(d)' <=> Waiting(d)
      /\ stuck \subseteq stuck'
  BY <1>1, WaitingKept, StuckElsewhere
<1>3. ASSUME pc[p] \in {"record", "write"}
      PROVE  /\ disk[c] = "full" /\ c \in sync /\ ~Waiting(c)
             /\ info[c] # "none" /\ sys # Torn /\ c \in sys
             /\ (cmd[p].fast /\ pc[p] = "record" => pidFile[c] = None)
             /\ cmd[p].shell \in Pids
             /\ (pc[p] = "write" => pidFile[c] # None)
  BY <1>1, <1>3 DEF BusyOK, OwnOK, FastOK, PlainFacts, ListedBy, CommandOK,
     Commands
<1>4. ASSUME Record(p), pc[p] \in {"record", "write"},
             UNCHANGED <<sys, disk, info, sync, used, cmd>>, Elsewhere(c),
             pidFile'[c] = cmd[p].shell
      PROVE  PlainInv'
  <2>1. pc'[p] = "wait" /\ Waiting(c)'
    BY <1>1, <1>4 DEF Record, Waiting
  <2>2. sys' # Torn /\ Sound(sys, c)' /\ WaiterOK(p)'
    BY <1>1, <1>3, <1>4, <2>1 DEF Sound, WaiterOK
  <2>. QED  BY <1>1, <1>3, <1>4, <2>1, <2>2, EndStep DEF AtRest, Registry,
               Writes
<1>5. ASSUME RecordCheck(p) PROVE PlainInv'
  <2>1. pc[p] = "record" /\ UNCHANGED <<files, cmd>> /\ RootKept
    BY <1>5 DEF RecordCheck, RootKept, files
  <2>2. CASE Record(p) /\ pidFile[c] = cmd[p].shell
    BY <1>1, <1>4, <2>1, <2>2, RootKeptElsewhere DEF files
  <2>3. CASE /\ pc'[p] \in {"open", "defer"} /\ UNCHANGED os
             /\ cmd[p].fast => pc'[p] = "open"
    <3>1. SnapOK(p)' /\ OwnOK(p)' /\ FastOK(p)'
      BY <1>1, <1>2, <1>3, <2>1, <2>3 DEF SnapOK, OwnOK, FastOK, Appends,
         files
    <3>. QED  BY <1>1, <2>1, <2>3, <3>1, BusyStep, RootKeptElsewhere
                 DEF AtRest, Registry, Writes, files
  <2>. QED  BY <1>1, <1>3, <1>5, <2>1, <2>2, <2>3, EmptyFile DEF RecordCheck,
               PidIsActive, PidValueFails
<1>6. ASSUME WritePid(p) PROVE PlainInv'
  <2>1. /\ pc[p] = "write" /\ Record(p) /\ Elsewhere(c)
        /\ UNCHANGED <<sys, disk, info, sync, used, cmd>>
    BY <1>1, <1>6 DEF WritePid, Elsewhere
  <2>2. pidFile'[c] = Overlay(pidFile[c], cmd[p].shell)
    BY <1>1, <1>3, <1>6, <2>1 DEF WritePid
  <2>3. pidFile'[c] = cmd[p].shell
    BY <1>1, <1>3, <2>1, <2>2, OverlayCovers
  <2>. QED  BY <1>4, <2>1, <2>3
<1>. QED  BY <1>5, <1>6

\* WaitReturns is the one step of a command at rest that puts it to work.
LEMMA PlainReturns ==
    ASSUME FullInv, PlainInv, NEW p \in Procs, Others(p), Alone(p), Noted,
           WaitReturns(p)
    PROVE  PlainInv'
<1>1. /\ pc[p] = "wait" /\ cmd[p].cid \in Ids /\ cmd[p].cid \in used
      /\ cmd[p] \in Commands /\ cmd \in [Procs -> Commands]
      /\ pc \in [Procs -> Labels] /\ kernel \in [Pids -> Ids \cup KernelStates]
      /\ cmd[p].shell \in Pids
  BY DEF WaitReturns, FullInv, TypeInv, TypeOK, Knows, IndInv, CommandOK
<1>2. PICK c \in Ids : cmd[p].cid = c
  BY <1>1
<1>3. /\ pc'[p] = "defer" /\ cmd'[p].cid = c /\ UNCHANGED files /\ RootKept
      /\ kernel'[cmd[p].shell] = "free" /\ cmd'[p].fast = cmd[p].fast
  BY <1>1, <1>2 DEF WaitReturns, RootKept, files, Commands
<1>4. /\ disk[c] = "full" /\ c \in sync /\ info[c] # "none"
      /\ pidFile[c] = cmd[p].shell
  BY <1>1, <1>2 DEF PlainInv, WaiterOK
<1>5. ~Waiting(c)'
  BY <1>1, <1>2, <1>3, WaitersApart DEF Waiting, Others
<1>6. RestOK
  BY <1>1 DEF PlainInv, Alone, AtRest
<1>7. \A d \in Ids \ {c} : Sound(Registry(p), d)'
  BY <1>1, <1>2, <1>3, <1>6, SoundElsewhere, StuckElsewhere, RootKeptElsewhere
     DEF RestOK, Registry, Writes, files
<1>8. SnapOK(p)' /\ OwnOK(p)' /\ FastOK(p)'
  BY <1>3, <1>4, <1>5, <1>6 DEF SnapOK, OwnOK, FastOK, Appends, RestOK, files,
     PidIsActive
<1>9. BusyOK(p)'
  BY <1>3, <1>7, <1>8 DEF BusyOK, OthersOK
<1>. QED  BY <1>1, <1>2, <1>3, <1>9, PlainStep, RootKeptElsewhere DEF AtRest,
             files

LEMMA PlainDefer ==
    ASSUME FullInv, PlainInv, NEW p \in Procs, Others(p), Alone(p), Noted,
           ~AtRest(p), PlainFacts(p)
    PROVE  /\ DeferTruncate(p) => PlainInv'
           /\ DeferWrite(p) => PlainInv'
           /\ RunEnds(p) => PlainInv'
<1>0. PICK c \in Ids : cmd[p].cid = c
  BY DEF PlainFacts
<1>1. /\ cmd[p].cid = c /\ BusyOK(p) /\ pc \in [Procs -> Labels]
      /\ cmd \in [Procs -> Commands] /\ cmd[p] \in Commands
      /\ info \in [Ids -> {"none", "dir", "torn", "raw", "ready"}]
      /\ pc[p] # "wait"
  BY <1>0 DEF PlainFacts, AtRest
<1>2. /\ pc'[p] # "wait" => \A d \in Ids : Waiting(d)' <=> Waiting(d)
      /\ stuck \subseteq stuck'
  BY <1>1, WaitingKept, StuckElsewhere
<1>3. ASSUME pc[p] \in {"defer", "deferWrite", "end"}
      PROVE  /\ disk[c] = "full" /\ c \in sync /\ ~Waiting(c) /\ sys # Torn
             /\ (pc[p] = "defer" => info[c] # "none")
             /\ (pc[p] = "deferWrite" => info[c] = "torn")
             /\ (pc[p] = "end" => c \in sys /\ HasRecord(c))
             /\ (cmd[p].fast => ~PidIsActive(pidFile[c], kernel))
  BY <1>1, <1>3 DEF BusyOK, OwnOK, SnapOK, FastOK, Writes
<1>4. ASSUME DeferTruncate(p) PROVE PlainInv'
  <2>1. /\ pc[p] = "defer" /\ pc'[p] = "deferWrite" /\ Elsewhere(c)
        /\ UNCHANGED <<sys, disk, pidFile, sync, used, os, cmd>>
    BY <1>1, <1>4 DEF DeferTruncate, Elsewhere
  <2>2. info'[c] = "torn"
    BY <1>1, <1>3, <1>4, <2>1 DEF DeferTruncate
  <2>3. SnapOK(p)' /\ OwnOK(p)' /\ FastOK(p)'
    BY <1>1, <1>2, <1>3, <2>1, <2>2 DEF SnapOK, OwnOK, FastOK, Appends, os
  <2>. QED  BY <1>1, <1>3, <2>1, <2>3, BusyStep DEF AtRest, Registry, Writes
<1>5. ASSUME DeferWrite(p) PROVE PlainInv'
  <2>1. /\ pc[p] = "deferWrite" /\ pc'[p] = "appRead" /\ Elsewhere(c)
        /\ UNCHANGED <<sys, disk, pidFile, sync, used, os>>
        /\ cmd'[p].cid = c /\ cmd'[p].fast = cmd[p].fast /\ cmd'[p].then = "end"
    BY <1>1, <1>5 DEF DeferWrite, Elsewhere, Commands
  <2>2. info'[c] \in {"raw", "ready"}
    BY <1>1, <1>3, <1>5, <2>1 DEF DeferWrite, Commands
  <2>3. SnapOK(p)' /\ OwnOK(p)' /\ FastOK(p)'
    BY <1>1, <1>2, <1>3, <2>1, <2>2 DEF SnapOK, OwnOK, FastOK, HasRecord, os
  <2>. QED  BY <1>1, <1>3, <2>1, <2>3, BusyStep DEF AtRest, Registry, Writes
<1>6. ASSUME RunEnds(p) PROVE PlainInv'
  <2>1. /\ pc[p] = "end" /\ UNCHANGED files /\ RootKept /\ pc'[p] # "wait"
    BY <1>1, <1>6 DEF RunEnds, RootKept, Finish, Leave, files
  <2>2. Sound(sys, c)'
    BY <1>2, <1>3, <2>1 DEF Sound, HasRecord, files
  <2>3. CASE pc'[p] = "dRead" /\ UNCHANGED <<os, cmd>>
    <3>1. SnapOK(p)' /\ OwnOK(p)' /\ FastOK(p)'
      BY <1>1, <1>3, <2>1, <2>2, <2>3 DEF SnapOK, OwnOK, FastOK, Appends,
         files, os
    <3>. QED  BY <1>1, <2>1, <2>3, <3>1, BusyStep, RootKeptElsewhere
                 DEF AtRest, Registry, Writes, files
  <2>4. CASE Finish(p)
    <3>1. pc'[p] = "idle"
      BY <1>1, <2>4 DEF Finish, Leave
    <3>. QED  BY <1>1, <1>3, <2>1, <2>2, <3>1, EndStep, RootKeptElsewhere
                 DEF AtRest, Registry, Writes, files
  <2>. QED  BY <1>1, <1>6, <2>3, <2>4 DEF RunEnds
<1>. QED  BY <1>4, <1>5, <1>6

LEMMA PlainDestroy ==
    ASSUME FullInv, PlainInv, NEW p \in Procs, Others(p), Alone(p), Noted,
           ~AtRest(p), PlainFacts(p)
    PROVE  /\ DestroyRead(p) => PlainInv'
           /\ DestroyCheck(p) => PlainInv'
           /\ DestroyRootPart(p) => PlainInv'
           /\ DestroyRoot(p) => PlainInv'
           /\ DestroyRootFails(p) => PlainInv'
<1>0. PICK c \in Ids : cmd[p].cid = c
  BY DEF PlainFacts
<1>1. /\ cmd[p].cid = c /\ BusyOK(p) /\ pc \in [Procs -> Labels]
      /\ cmd \in [Procs -> Commands] /\ cmd[p] \in Commands
      /\ disk \in [Ids -> {"none", "hollow", "full"}]
      /\ info \in [Ids -> {"none", "dir", "torn", "raw", "ready"}]
      /\ DOMAIN pidFile = Ids /\ pc[p] # "wait"
  BY <1>0 DEF PlainFacts, AtRest
<1>2. /\ pc'[p] # "wait" => \A d \in Ids : Waiting(d)' <=> Waiting(d)
      /\ stuck \subseteq stuck'
  BY <1>1, WaitingKept, StuckElsewhere
<1>3. ASSUME DestroyRead(p) PROVE PlainInv'
  <2>1. /\ pc[p] = "dRead" /\ sys # Torn /\ UNCHANGED <<files, os>> /\ RootKept
        /\ cmd'[p].cid = c /\ cmd'[p].fast = cmd[p].fast /\ cmd'[p].snap = sys
        /\ pc'[p] = IF c \in sys THEN "dCheck" ELSE "dTrunc"
    BY <1>1, <1>3 DEF DestroyRead, BusyOK, SnapOK, Writes, RootKept, files,
       Commands
  <2>2. Sound(sys, c)' /\ (cmd[p].fast => c \in sys /\ ~PidIsActive(pidFile[c], kernel))
    BY <1>1, <1>2, <2>1 DEF BusyOK, OwnOK, FastOK, Sound, HasRecord, files
  <2>3. SnapOK(p)' /\ FastOK(p)'
    BY <1>1, <2>1, <2>2 DEF SnapOK, FastOK, Appends, files, os
  <2>4. OwnOK(p)'
    BY <1>1, <2>1, <2>2 DEF OwnOK, Appends, Sound, files
  <2>. QED  BY <1>1, <2>1, <2>3, <2>4, BusyStep, RootKeptElsewhere DEF AtRest,
               Registry, Writes, files
<1>4. ASSUME DestroyCheck(p) PROVE PlainInv'
  <2>1. /\ pc[p] = "dCheck" /\ UNCHANGED <<files, os, cmd>> /\ RootKept
        /\ pc'[p] = IF PidIsActive(pidFile[c], kernel) THEN "dTrunc" ELSE "dRoot"
    BY <1>1, <1>4 DEF DestroyCheck, RootKept, files
  <2>2. /\ Sound(sys, c) /\ sys # Torn /\ cmd[p].snap = sys /\ c \in sys
        /\ (cmd[p].fast => ~PidIsActive(pidFile[c], kernel))
    BY <1>1, <2>1 DEF BusyOK, OwnOK, SnapOK, FastOK, Writes
  <2>3. SnapOK(p)' /\ FastOK(p)'
    BY <1>1, <2>1, <2>2 DEF SnapOK, FastOK, Appends, files
  <2>4. pc'[p] = "dRoot" => ~Waiting(c)'
    BY <1>2, <2>1, WaiterActive
  <2>5. OwnOK(p)'
    BY <1>1, <1>2, <2>1, <2>2, <2>4 DEF OwnOK, Appends, Sound, HasRecord,
       files
  <2>. QED  BY <1>1, <2>1, <2>3, <2>5, BusyStep, RootKeptElsewhere DEF AtRest,
               Registry, Writes, files
<1>5. ASSUME pc[p] = "dRoot", Elsewhere(c),
             UNCHANGED <<sys, sync, used, os, cmd>>,
             \/ pc'[p] = "dRoot"
             \/ /\ pc'[p] = "dSync"
                /\ c \in stuck' \/ (disk'[c] = "none" /\ info'[c] = "none")
      PROVE  PlainInv'
  <2>1. ~Waiting(c) /\ sys # Torn /\ cmd[p].snap = sys /\ c \in sys
    BY <1>1, <1>5 DEF BusyOK, OwnOK, SnapOK, Writes
  <2>2. SnapOK(p)' /\ OwnOK(p)' /\ FastOK(p)'
    BY <1>1, <1>2, <1>5, <2>1 DEF SnapOK, OwnOK, FastOK, Appends
  <2>. QED  BY <1>1, <1>5, <2>1, <2>2, BusyStep DEF AtRest, Registry
<1>6. ASSUME DestroyRootPart(p) PROVE PlainInv'
  BY <1>1, <1>5, <1>6 DEF DestroyRootPart, Elsewhere
<1>7. ASSUME DestroyRoot(p) PROVE PlainInv'
  BY <1>1, <1>5, <1>7 DEF DestroyRoot, Elsewhere
<1>8. ASSUME DestroyRootFails(p) PROVE PlainInv'
  <2>1. /\ pc[p] = "dRoot" /\ pc'[p] = "dSync" /\ disk'[c] # "none"
        /\ UNCHANGED <<files, os, cmd>>
    BY <1>1, <1>8 DEF DestroyRootFails, files
  <2>2. c \in stuck'
    BY <1>1, <2>1 DEF Noted
  <2>. QED  BY <1>5, <2>1, <2>2 DEF files, Elsewhere
<1>. QED  BY <1>3, <1>4, <1>6, <1>7, <1>8

LEMMA PlainUnlist ==
    ASSUME FullInv, PlainInv, NEW p \in Procs, Others(p), Alone(p), Noted,
           ~AtRest(p), PlainFacts(p)
    PROVE  /\ DestroySync(p) => PlainInv'
           /\ DestroyTruncate(p) => PlainInv'
           /\ DestroyWrite(p) => PlainInv'
<1>0. PICK c \in Ids : cmd[p].cid = c
  BY DEF PlainFacts
<1>1. /\ cmd[p].cid = c /\ BusyOK(p) /\ pc \in [Procs -> Labels]
      /\ cmd \in [Procs -> Commands] /\ cmd[p] \in Commands
      /\ pc[p] # "wait" /\ cmd[p].snap # Torn
  BY <1>0 DEF PlainFacts, AtRest
<1>2. /\ pc'[p] # "wait" => \A d \in Ids : Waiting(d)' <=> Waiting(d)
      /\ stuck \subseteq stuck'
  BY <1>1, WaitingKept, StuckElsewhere
<1>3. ASSUME DestroySync(p) PROVE PlainInv'
  <2>1. /\ pc[p] = "dSync" /\ pc'[p] = "dTrunc" /\ sync' \subseteq sync
        /\ cmd'[p].cid = c /\ cmd'[p].snap = cmd[p].snap \ {c}
        /\ UNCHANGED <<sys, disk, info, pidFile, used, os>> /\ Elsewhere(c)
    BY <1>1, <1>3 DEF DestroySync, Elsewhere, Commands
  <2>2. /\ sys # Torn /\ cmd[p].snap = sys /\ ~Waiting(c)
        /\ c \in stuck' \/ (disk[c] = "none" /\ info[c] = "none" /\ c \notin sync')
    BY <1>1, <1>2, <2>1 DEF BusyOK, OwnOK, SnapOK, Writes, Noted
  <2>3. SnapOK(p)' /\ OwnOK(p)' /\ FastOK(p)'
    BY <1>1, <1>2, <2>1, <2>2 DEF SnapOK, OwnOK, FastOK, Appends, Sound,
       HasRecord
  <2>. QED  BY <1>1, <2>1, <2>2, <2>3, BusyStep DEF AtRest, Registry
<1>4. ASSUME DestroyTruncate(p) PROVE PlainInv'
  <2>1. /\ pc[p] = "dTrunc" /\ pc'[p] = "dWrite" /\ RootKept
        /\ UNCHANGED <<used, os, cmd>>
    BY <1>1, <1>4 DEF DestroyTruncate, RootKept
  <2>2. cmd[p].snap \ {c} = sys \ {c} /\ Sound(cmd[p].snap, c)
    BY <1>1, <2>1 DEF BusyOK, OwnOK, SnapOK
  <2>3. OwnOK(p)'
    BY <1>1, <1>2, <2>1, <2>2 DEF OwnOK, Appends, Sound, HasRecord, RootKept
  <2>4. SnapOK(p)' /\ FastOK(p)'
    BY <1>1, <1>2, <2>1 DEF SnapOK, FastOK, Writes, Appends, BusyOK, RootKept
  <2>. QED  BY <1>1, <2>1, <2>2, <2>3, <2>4, BusyStep, RootKeptElsewhere
               DEF AtRest, Registry, Writes
<1>5. ASSUME DestroyWrite(p) PROVE PlainInv'
  <2>1. /\ pc[p] = "dWrite" /\ pc'[p] = "idle" /\ sys' = cmd[p].snap /\ RootKept
        /\ used' = used
    BY <1>1, <1>5 DEF DestroyWrite, Leave, RootKept
  <2>2. Sound(cmd[p].snap, c)
    BY <1>1, <2>1 DEF BusyOK, OwnOK
  <2>3. Sound(sys, c)'
    BY <1>2, <2>1, <2>2 DEF Sound, HasRecord, RootKept
  <2>. QED  BY <1>1, <2>1, <2>3, EndStep, RootKeptElsewhere DEF AtRest,
               Registry, Writes
<1>. QED  BY <1>3, <1>4, <1>5

\* A command starts while the others are at rest.
LEMMA PlainBegin ==
    ASSUME FullInv, PlainInv, NEW p \in Procs, NEW c \in Ids,
           Command(p, c), Others(p), Alone(p), UNCHANGED stuck
    PROVE  PlainInv'
<1>1. /\ pc \in [Procs -> Labels] /\ cmd \in [Procs -> Commands]
      /\ disk \in [Ids -> {"none", "hollow", "full"}]
      /\ pc[p] = "idle" /\ pc'[p] \notin {"idle", "wait"}
      /\ \A q \in Procs : pc[q] # "idle" => cmd[q].cid \in used
  BY DEF FullInv, TypeOK, IndInv, CommandOK, Command, Create, Resume, Destroy
<1>2. RestOK
  BY <1>1 DEF PlainInv, Alone, AtRest
<1>3. \A d \in Ids : Waiting(d)' <=> Waiting(d)
  BY <1>1, WaitingKept
<1>4. ASSUME NEW fast \in BOOLEAN, Create(p, c, fast) PROVE PlainInv'
  <2>1. /\ c \notin used /\ used' = used \cup {c} /\ pc'[p] = "gen"
        /\ cmd'[p].cid = c /\ Elsewhere(c)
        /\ UNCHANGED <<sys, info, pidFile, sync>>
    BY <1>1, <1>4 DEF Create, Begin, Elsewhere, NoCommand
  <2>2. /\ info[c] = "none" /\ pidFile[c] = None /\ c \notin sys /\ sys # Torn
        /\ ~Waiting(c)
    BY <1>1, <1>2, <2>1 DEF PlainInv, Fresh, RestOK, FullInv, Allocated,
       Waiting
  <2>3. \A d \in Ids \ {c} : Sound(Registry(p), d)'
    BY <1>1, <1>2, <2>1, SoundElsewhere DEF RestOK, Registry, Writes
  <2>4. SnapOK(p)' /\ OwnOK(p)' /\ FastOK(p)'
    BY <1>3, <2>1, <2>2 DEF SnapOK, OwnOK, FastOK, Appends
  <2>5. BusyOK(p)'
    BY <2>1, <2>3, <2>4 DEF BusyOK, OthersOK
  <2>. QED  BY <1>1, <2>1, <2>2, <2>5, PlainStep DEF AtRest
<1>5. ASSUME Resume(p, c) \/ Destroy(p, c) PROVE PlainInv'
  <2>1. /\ pc'[p] \in {"resume", "dRead"} /\ cmd'[p].cid = c /\ ~cmd'[p].fast
        /\ UNCHANGED files /\ RootKept /\ c \in used
    BY <1>1, <1>5 DEF Resume, Destroy, Begin, NoCommand, RootKept, files,
       FullInv, Allocated
  <2>2. \A d \in Ids \ {c} : Sound(Registry(p), d)'
    BY <1>1, <1>2, <2>1, SoundElsewhere, RootKeptElsewhere DEF RestOK,
       Registry, Writes, files
  <2>3. /\ Sound(sys, c)' /\ sys # Torn
        /\ pc'[p] = "resume" => c \in sys
    BY <1>1, <1>2, <1>3, <1>5, <2>1 DEF RestOK, Sound, HasRecord, files,
       Resume, Destroy
  <2>4. SnapOK(p)' /\ OwnOK(p)' /\ FastOK(p)'
    BY <2>1, <2>3 DEF SnapOK, OwnOK, FastOK, Appends, files
  <2>5. BusyOK(p)'
    BY <2>1, <2>2, <2>4 DEF BusyOK, OthersOK
  <2>. QED  BY <1>1, <2>1, <2>5, PlainStep, RootKeptElsewhere DEF AtRest, files
<1>. QED  BY <1>4, <1>5 DEF Command

\* A process that ends answers to no pid any more; nothing else changes.
LEMMA PlainProcess ==
    ASSUME FullInv, PlainInv, UNCHANGED <<files, pc, cmd, stuck>>,
           \A r \in Pids : kernel[r] = "free" => kernel'[r] = "free"
    PROVE  PlainInv'
<1>1. \A c \in Ids : Fresh(c)' <=> Fresh(c)
  BY DEF Fresh, files
<1>2. \A p \in Procs : AtRest(p)' <=> AtRest(p)
  BY DEF AtRest
<1>3. \A c \in Ids : Waiting(c)' <=> Waiting(c)
  BY DEF Waiting
<1>4. RestOK => RestOK'
  BY <1>3 DEF RestOK, Sound, HasRecord, files
<1>5. ASSUME NEW p \in Procs, pc[p] = "wait", WaiterOK(p) PROVE WaiterOK(p)'
  BY <1>5 DEF WaiterOK, files
<1>6. ASSUME NEW p \in Procs, BusyOK(p), ~AtRest(p) PROVE BusyOK(p)'
  <2>. cmd[p].cid \in Ids
    BY <1>6 DEF AtRest, FullInv, TypeInv, Knows
  <2>1. OthersOK(p)'
    BY <1>3, <1>6 DEF BusyOK, OthersOK, Sound, HasRecord, Registry, Writes,
       files
  <2>2. SnapOK(p)'
    BY <1>6 DEF BusyOK, SnapOK, Writes, files
  <2>3. OwnOK(p)'
    BY <1>3, <1>6 DEF BusyOK, OwnOK, Appends, Sound, HasRecord, files
  <2>4. \A c \in Ids : ~PidIsActive(pidFile[c], kernel) => ~PidIsActive(pidFile[c], kernel)'
    BY DEF PidIsActive, files
  <2>5. FastOK(p)'
    BY <1>6, <2>4 DEF BusyOK, FastOK, Appends, files
  <2>. QED  BY <2>1, <2>2, <2>3, <2>5 DEF BusyOK
<1>. QED  BY <1>1, <1>2, <1>4, <1>5, <1>6 DEF PlainInv, files

LEMMA PlainWork ==
    ASSUME SameWidth, FullInv, ApartInv, PlainInv, NEW p \in Procs,
           Others(p), Alone(p), Work(p), Noted
    PROVE  PlainInv'
<1>1. CASE AtRest(p)
  <2>1. WaitReturns(p)
    BY <1>1 DEF Work, GenerateDone, GenerateFails, ResumeCheck, RunLoad,
       SetupDone, SetupFails, AppendRead, AppendTruncate, AppendWrite,
       StartShell, ShellFails, RecordCheck, OpenPid, WritePid, DeferTruncate,
       DeferWrite, RunEnds, DestroyRead, DestroyCheck, DestroyRootPart,
       DestroyRoot, DestroyRootFails, DestroySync, DestroyTruncate,
       DestroyWrite, AtRest
  <2>. QED  BY <2>1, PlainReturns
<1>2. CASE ~AtRest(p)
  <2>1. PlainFacts(p)
    BY <1>2, PlainKnows
  <2>2. ~WaitReturns(p)
    BY <1>2 DEF WaitReturns, AtRest
  <2>. QED  BY <1>2, <2>1, <2>2, PlainGenerate, PlainRun, PlainAppend,
               PlainShell, PlainRecord, PlainDefer, PlainDestroy, PlainUnlist
               DEF Work
<1>. QED  BY <1>1, <1>2

PlainUse == DisturbedInv /\ (use = "plain" => PlainInv)

LEMMA PlainUseInit == MCInit => PlainUse
<1>. SUFFICES ASSUME MCInit PROVE PlainUse
  OBVIOUS
<1>1. PlainInv
  BY LifecycleAssumption DEF MCInit, Init, PlainInv, Fresh, RestOK, Sound,
     HasRecord, AtRest
<1>. QED  BY <1>1, DisturbedInvInit DEF PlainUse

LEMMA PlainUseNext ==
    ASSUME SameWidth, Discipline # "none"
    PROVE  PlainUse /\ [MCNext]_<<vars, use, stuck>> => PlainUse'
<1>. SUFFICES ASSUME PlainUse, [MCNext]_<<vars, use, stuck>>, use' = "plain"
              PROVE  PlainInv'
  BY DisturbedInvNext DEF PlainUse
<1>1. FullInv /\ TypeInv /\ kernel \in [Pids -> Ids \cup KernelStates]
  BY DEF PlainUse, DisturbedInv, FullInv, TypeInv, TypeOK
<1>2. ASSUME NEW p \in Procs, Continued,
             \/ Work(p) /\ Noted
             \/ (\E c \in Ids : Command(p, c)) /\ UNCHANGED stuck
      PROVE  PlainInv'
  <2>1. ~Overlap' /\ use = "plain"
    BY <1>2 DEF Continued
  <2>2. ApartInv /\ PlainInv
    BY <2>1 DEF PlainUse, DisturbedInv
  <2>3. Others(p) /\ Alone(p)
    BY <1>1, <1>2, <2>1, <2>2, ActiveOthers, MovesBusy, ActiveAlone
       DEF ApartInv
  <2>. QED  BY <1>1, <1>2, <2>2, <2>3, PlainWork, PlainBegin
<1>3. ~Disturbed
  BY DEF Disturbed
<1>4. ASSUME UNCHANGED <<use, stuck>>, UNCHANGED <<files, pc, cmd>>,
             \A r \in Pids : kernel[r] = "free" => kernel'[r] = "free"
      PROVE  PlainInv'
  BY <1>1, <1>4, PlainProcess DEF PlainUse
<1>5. ASSUME NEW r \in Pids, ShellExits(r) \/ ForeignEnds(r),
             UNCHANGED <<use, stuck>>
      PROVE  PlainInv'
  BY <1>1, <1>4, <1>5, LifecycleAssumption DEF ShellExits, ForeignEnds, KernelStates
<1>6. ASSUME UNCHANGED <<vars, use, stuck>> PROVE PlainInv'
  BY <1>4, <1>6 DEF vars, os
<1>. QED  BY <1>2, <1>3, <1>5, <1>6 DEF MCNext

LEMMA PlainListed ==
    PlainUse => RegisteredWholePlain /\ ContainersListedPlain
BY DEF PlainUse, PlainInv, RestOK, Sound, HasRecord, Waiting,
   RegisteredWholePlain, ContainersListedPlain, RegisteredWhole,
   ContainersListed, DisturbedInv, FullInv, TypeInv, TypeOK

(* Between commands that nothing has disturbed, every registered container *)
(* has its root folder, its folder in sync and, but for one whose first    *)
(* run still waits for its shell, its record: what update and delete need  *)
(* of every container they meet.                                           *)
THEOREM RegisteredStayWhole ==
    ASSUME SameWidth, Discipline # "none"
    PROVE  MCSpec => []RegisteredWholePlain
<1>1. MCSpec => []PlainUse
  BY PlainUseInit, PlainUseNext, PTL DEF MCSpec
<1>2. PlainUse => RegisteredWholePlain
  BY PlainListed
<1>. QED  BY <1>1, <1>2, PTL

(* Between such commands every container that has a record is registered,  *)
(* but for those that a destroy could not remove: list shows it, resume    *)
(* and destroy accept its id.                                              *)
THEOREM ContainersStayListed ==
    ASSUME SameWidth, Discipline # "none"
    PROVE  MCSpec => []ContainersListedPlain
<1>1. MCSpec => []PlainUse
  BY PlainUseInit, PlainUseNext, PTL DEF MCSpec
<1>2. PlainUse => ContainersListedPlain
  BY PlainListed
<1>. QED  BY <1>1, <1>2, PTL

\* The last step of a fastrun is the write at the end of its destroy.
LEMMA FastEnds ==
    ASSUME PlainUse, [MCNext]_<<vars, use, stuck>>, use' = "plain"
    PROVE  FastRunEndsClean(stuck)
<1>. SUFFICES ASSUME NEW q \in Procs, cmd[q].fast, pc[q] \notin {"gen", "idle"},
                     pc'[q] = "idle"
              PROVE  LET c == cmd[q].cid
                     IN  /\ c \notin sys'
                         /\ c \in stuck \/ (disk'[c] = "none" /\ c \notin sync')
  BY DEF FastRunEndsClean
<1>1. /\ FullInv /\ TypeInv /\ pc \in [Procs -> Labels]
      /\ cmd[q].then \in {"run", "shell", "end"}
  BY DEF PlainUse, DisturbedInv, FullInv, TypeInv, TypeOK, Commands
<1>2. PICK p \in Procs : (Work(p) \/ (\E c \in Ids : Command(p, c))) /\ Continued
  BY DEF MCNext, Disturbed, ShellExits, ForeignEnds, vars
<1>3. Others(p) /\ p = q
  BY <1>1, <1>2, ActiveOthers DEF Others
<1>4. ~Overlap' /\ ApartInv /\ PlainInv
  BY <1>2 DEF Continued, PlainUse, DisturbedInv
<1>5. CASE \E c \in Ids : Command(p, c)
  BY <1>3, <1>5 DEF Command, Create, Resume, Destroy
<1>6. CASE Work(p)
  <2>1. ResumeCheck(p) \/ RunEnds(p) \/ DestroyRead(p) \/ DestroyWrite(p)
    BY <1>1, <1>3, <1>6 DEF Work, GenerateDone, GenerateFails, RunLoad,
       SetupDone, SetupFails, AppendRead, AppendTruncate, AppendWrite,
       StartShell, ShellFails, RecordCheck, Record, OpenPid, WritePid,
       WaitReturns, DeferTruncate, DeferWrite, DestroyCheck, DestroyRootPart,
       DestroyRoot, DestroyRootFails, DestroySync, DestroyTruncate
  <2>2. BusyOK(p)
    BY <2>1, <1>4 DEF PlainInv, AtRest, ResumeCheck, RunEnds, DestroyRead,
       DestroyWrite
  <2>3. DestroyWrite(p)
    BY <1>1, <1>3, <2>1, <2>2 DEF BusyOK, FastOK, SnapOK, Writes, ResumeCheck,
       RunEnds, DestroyRead
  <2>. QED  BY <1>3, <2>2, <2>3 DEF BusyOK, FastOK, DestroyWrite
<1>. QED  BY <1>2, <1>5, <1>6

(* A fastrun that nothing disturbs leaves no entry of the registry and,    *)
(* unless RemoveAll failed on one of them, neither a root folder nor       *)
(* sync/<id>, whatever Run returned.                                       *)
THEOREM FastRunsLeaveNothing ==
    ASSUME SameWidth, Discipline # "none"
    PROVE  MCSpec => FastRunLeavesNothing
<1>1. MCSpec => []PlainUse
  BY PlainUseInit, PlainUseNext, PTL DEF MCSpec
<1>2. PlainUse /\ [MCNext]_<<vars, use, stuck>>
         => [use' = "plain" => FastRunEndsClean(stuck)]_<<vars, use, stuck>>
  BY FastEnds
<1>. QED  BY <1>1, <1>2, PTL DEF MCSpec, FastRunLeavesNothing

=============================================================================
