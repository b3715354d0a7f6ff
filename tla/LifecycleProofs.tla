-------------------------- MODULE LifecycleProofs --------------------------
(***************************************************************************)
(* Theorems about Lifecycle, for every set of containers, of commands and  *)
(* of pids.                                                                *)
(***************************************************************************)
EXTENDS Lifecycle, SequenceTheorems, TLAPS

(* What PidCreateByPid leaves in a file of digits is a sequence of digits. *)
LEMMA OverlayType ==
    ASSUME NEW old \in Seq(Digits), NEW r \in Seq(Digits)
    PROVE  Overlay(old, r) \in Seq(Digits)
<1>1. SubSeq(old, Len(r) + 1, Len(old)) \in Seq(Digits)
  BY DEF Digits
<1>. QED  BY <1>1 DEF Overlay

(* With pids of one width the new digits cover the old ones.               *)
LEMMA OverlayCovers ==
    ASSUME SameWidth, NEW r \in Pids, NEW old \in Pids \cup {<<>>}
    PROVE  Overlay(old, r) = r
<1>1. r \in Seq(Digits)
  BY PidsAssumption
<1>2. old \in Seq(Digits) /\ Len(old) <= Len(r)
  <2>1. CASE old = <<>>
    BY <1>1, <2>1
  <2>2. CASE old \in Pids
    BY <1>1, <2>2, PidsAssumption DEF SameWidth
  <2>. QED  BY <2>1, <2>2
<1>3. SubSeq(old, Len(r) + 1, Len(old)) = <<>>
  BY <1>1, <1>2, SubSeqEmpty
<1>4. r \o <<>> = r
  BY <1>1, ConcatEmptySeq
<1>. QED  BY <1>3, <1>4 DEF Overlay

LEMMA EmptyFile == <<>> # None
<1>1. <<>> \in Seq(Digits)
  OBVIOUS
<1>. QED  BY <1>1, PidsAssumption

LEMMA NoCommandType == NoCommand \in Commands
BY DEF NoCommand, Commands

-----------------------------------------------------------------------------
(* The variables keep their types, in every discipline.                    *)
USE DEF Goto

LEMMA InitType == Init => TypeOK
BY NoCommandType DEF Init, TypeOK, Contents, Labels, KernelStates

LEMMA LeaveType ==
    ASSUME TypeOK, NEW p \in Procs, Leave(p)
    PROVE  /\ kernel' \in [Pids -> Ids \cup KernelStates]
           /\ recorded' \in SUBSET Pids
           /\ pc' \in [Procs -> Labels]
           /\ cmd' \in [Procs -> Commands]
BY NoCommandType DEF TypeOK, Leave, KernelStates, Labels

LEMMA FinishType ==
    ASSUME TypeOK, NEW p \in Procs, Finish(p)
    PROVE  TypeOK'
BY LeaveType DEF TypeOK, Finish, files

LEMMA BeginType ==
    ASSUME TypeOK, NEW p \in Procs, NEW c \in Ids, NEW f \in BOOLEAN,
           Begin(p, c, f)
    PROVE  cmd' \in [Procs -> Commands]
BY DEF TypeOK, Begin, NoCommand, Commands

LEMMA CommandType ==
    ASSUME TypeOK, NEW p \in Procs, NEW c \in Ids, Command(p, c)
    PROVE  TypeOK'
<1>1. ASSUME NEW fast \in BOOLEAN, Create(p, c, fast) PROVE TypeOK'
  BY <1>1, BeginType DEF TypeOK, Create, os, Labels
<1>2. ASSUME Resume(p, c) PROVE TypeOK'
  BY <1>2, BeginType DEF TypeOK, Resume, files, os, Labels
<1>3. ASSUME Destroy(p, c) PROVE TypeOK'
  BY <1>3, BeginType DEF TypeOK, Destroy, files, os, Labels
<1>. QED  BY <1>1, <1>2, <1>3 DEF Command

(* A command at work knows its container, and its shell once started.      *)
Knows(p) ==
    /\ pc[p] = "idle" => cmd[p] = NoCommand
    /\ pc[p] # "idle" => cmd[p].cid \in Ids
    /\ pc[p] \in {"record", "open", "write", "wait"} => cmd[p].shell \in Pids

LEMMA RunType ==
    ASSUME TypeOK, NEW p \in Procs, Knows(p)
    PROVE  /\ GenerateDone(p) => TypeOK'
           /\ GenerateFails(p) => TypeOK'
           /\ ResumeCheck(p) => TypeOK'
           /\ RunLoad(p) => TypeOK'
           /\ SetupDone(p) => TypeOK'
           /\ SetupFails(p) => TypeOK'
           /\ AppendRead(p) => TypeOK'
           /\ AppendTruncate(p) => TypeOK'
           /\ AppendWrite(p) => TypeOK'
<1>1. ASSUME GenerateDone(p) PROVE TypeOK'
  BY <1>1 DEF TypeOK, GenerateDone, os, Labels, Knows
<1>2. ASSUME GenerateFails(p) PROVE TypeOK'
  BY <1>2, LeaveType DEF TypeOK, GenerateFails, Knows
<1>3. ASSUME ResumeCheck(p) PROVE TypeOK'
  BY <1>3, FinishType DEF TypeOK, ResumeCheck, files, os, Labels
<1>4. ASSUME RunLoad(p) PROVE TypeOK'
  <2>1. pidFile' = pidFile /\ UNCHANGED <<sys, sync, used, os>>
    BY <1>4 DEF RunLoad
  <2>2. pc' \in [Procs -> Labels]
    BY <1>4 DEF TypeOK, RunLoad, Labels
  <2>3. cmd' \in [Procs -> Commands]
    <3>1. cmd \in [Procs -> Commands] /\ cmd[p] \in Commands
      BY DEF TypeOK
    <3>2. ASSUME NEW k \in {"raw", "ready"}
          PROVE  [cmd[p] EXCEPT !.con = k, !.then = "shell"] \in Commands
      BY <3>1 DEF Commands
    <3>3. \/ cmd' = cmd
          \/ \E k \in {"raw", "ready"} :
                cmd' = [cmd EXCEPT ![p] = [@ EXCEPT !.con = k, !.then = "shell"]]
      BY <1>4, <3>1 DEF RunLoad
    <3>. QED  BY <3>1, <3>2, <3>3
  <2>4. UNCHANGED <<info, disk>> \/ \E c \in Ids :
           /\ info' = [info EXCEPT ![c] = "dir"]
           /\ disk' = [disk EXCEPT ![c] = IF @ = "none" THEN "hollow" ELSE @]
    BY <1>4 DEF RunLoad, Knows
  <2>. QED  BY <2>1, <2>2, <2>3, <2>4 DEF TypeOK, os
<1>5. ASSUME SetupDone(p) PROVE TypeOK'
  <2>1. [cmd[p] EXCEPT !.con = "ready", !.then = "run"] \in Commands
    BY DEF TypeOK, Commands
  <2>2. cmd' \in [Procs -> Commands]
    BY <1>5, <2>1 DEF TypeOK, SetupDone
  <2>. QED  BY <1>5, <2>2 DEF TypeOK, SetupDone, files, os, Labels
<1>6. ASSUME SetupFails(p) PROVE TypeOK'
  <2>1. \A k \in {"raw", "ready"} : [cmd[p] EXCEPT !.con = k] \in Commands
    BY DEF TypeOK, Commands
  <2>2. cmd' \in [Procs -> Commands]
    BY <1>6, <2>1 DEF TypeOK, SetupFails
  <2>. QED  BY <1>6, <2>2 DEF TypeOK, SetupFails, files, os, Labels
<1>7. ASSUME AppendRead(p) PROVE TypeOK'
  <2>1. CASE sys = Torn
    BY <1>7, <2>1 DEF TypeOK, AppendRead, files, os, Labels
  <2>2. CASE sys # Torn
    <3>1. sys \cup {cmd[p].cid} \in SUBSET Ids
      BY <1>7, <2>2 DEF TypeOK, AppendRead, Knows
    <3>2. [cmd[p] EXCEPT !.snap = sys \cup {cmd[p].cid}] \in Commands
      BY <3>1 DEF TypeOK, Commands
    <3>. QED  BY <1>7, <2>2, <3>2 DEF TypeOK, AppendRead, files, os, Labels
  <2>. QED  BY <2>1, <2>2
<1>8. ASSUME AppendTruncate(p) PROVE TypeOK'
  BY <1>8 DEF TypeOK, AppendTruncate, os, Labels
<1>9. ASSUME AppendWrite(p) PROVE TypeOK'
  <2>1. \A t \in {"run", "shell", "end"} :
           [cmd[p] EXCEPT !.snap = {}, !.then = t] \in Commands
    <3>1. cmd[p] \in Commands
      BY DEF TypeOK
    <3>. QED  BY <3>1 DEF Commands
  <2>2. cmd[p].snap \in SUBSET Ids /\ cmd[p].then \in {"run", "shell", "end"}
    BY DEF TypeOK, Commands
  <2>3. cmd' \in [Procs -> Commands]
    BY <1>9, <2>1, <2>2 DEF TypeOK, AppendWrite
  <2>4. pc' \in [Procs -> Labels]
    BY <1>9, <2>2 DEF TypeOK, AppendWrite, Labels
  <2>. QED  BY <1>9, <2>2, <2>3, <2>4 DEF TypeOK, AppendWrite, os
<1>. QED  BY <1>1, <1>2, <1>3, <1>4, <1>5, <1>6, <1>7, <1>8, <1>9

LEMMA ShellType ==
    ASSUME TypeOK, NEW p \in Procs, Knows(p)
    PROVE  /\ (\E r \in Pids : StartShell(p, r)) => TypeOK'
           /\ ShellFails(p) => TypeOK'
           /\ RecordCheck(p) => TypeOK'
           /\ OpenPid(p) => TypeOK'
           /\ WritePid(p) => TypeOK'
           /\ WaitReturns(p) => TypeOK'
           /\ DeferTruncate(p) => TypeOK'
           /\ DeferWrite(p) => TypeOK'
           /\ RunEnds(p) => TypeOK'
<1>1. ASSUME NEW r \in Pids, StartShell(p, r) PROVE TypeOK'
  <2>1. [cmd[p] EXCEPT !.shell = r] \in Commands
    BY DEF TypeOK, Commands
  <2>. QED  BY <1>1, <2>1 DEF TypeOK, StartShell, files, Labels, Knows
<1>2. ASSUME ShellFails(p) PROVE TypeOK'
  BY <1>2 DEF TypeOK, ShellFails, files, os, Labels
<1>3. ASSUME RecordCheck(p) PROVE TypeOK'
  BY <1>3 DEF TypeOK, RecordCheck, Record, files, os, Labels, Knows
<1>4. ASSUME OpenPid(p) PROVE TypeOK'
  <2>1. <<>> \in Contents
    BY DEF Contents
  <2>. QED  BY <1>4, <2>1 DEF TypeOK, OpenPid, os, Labels
<1>5. ASSUME WritePid(p) PROVE TypeOK'
  <2>. DEFINE old == pidFile[cmd[p].cid]
  <2>1. cmd[p].shell \in Seq(Digits)
    BY <1>5, PidsAssumption DEF WritePid, Knows
  <2>2. cmd[p].cid \in Ids /\ old \in Contents
    BY <1>5 DEF WritePid, Knows, TypeOK
  <2>3. old # None => Overlay(old, cmd[p].shell) \in Contents
    BY <2>1, <2>2, OverlayType DEF Contents
  <2>4. None \in Contents
    BY DEF Contents
  <2>5. pidFile' \in [Ids -> Contents]
    BY <1>5, <2>2, <2>3, <2>4 DEF TypeOK, WritePid
  <2>. QED  BY <1>5, <2>5 DEF TypeOK, WritePid, Record, Labels, Knows
<1>6. ASSUME WaitReturns(p) PROVE TypeOK'
  <2>1. [cmd[p] EXCEPT !.shell = None] \in Commands
    BY DEF TypeOK, Commands
  <2>. QED  BY <1>6, <2>1 DEF TypeOK, WaitReturns, files, Labels, KernelStates
<1>7. ASSUME DeferTruncate(p) PROVE TypeOK'
  BY <1>7 DEF TypeOK, DeferTruncate, os, Labels
<1>8. ASSUME DeferWrite(p) PROVE TypeOK'
  <2>1. [cmd[p] EXCEPT !.then = "end"] \in Commands
    BY DEF TypeOK, Commands
  <2>2. cmd[p].con \in {"raw", "ready"}
    BY DEF TypeOK, Commands
  <2>. QED  BY <1>8, <2>1, <2>2 DEF TypeOK, DeferWrite, os, Labels
<1>9. ASSUME RunEnds(p) PROVE TypeOK'
  BY <1>9, FinishType DEF TypeOK, RunEnds, files, os, Labels
<1>. QED  BY <1>1, <1>2, <1>3, <1>4, <1>5, <1>6, <1>7, <1>8, <1>9

LEMMA DestroyType ==
    ASSUME TypeOK, NEW p \in Procs, Knows(p)
    PROVE  /\ DestroyRead(p) => TypeOK'
           /\ DestroyCheck(p) => TypeOK'
           /\ DestroyRootPart(p) => TypeOK'
           /\ DestroyRoot(p) => TypeOK'
           /\ DestroyRootFails(p) => TypeOK'
           /\ DestroySync(p) => TypeOK'
           /\ DestroyTruncate(p) => TypeOK'
           /\ DestroyWrite(p) => TypeOK'
<1>1. ASSUME DestroyRead(p) PROVE TypeOK'
  <2>1. CASE sys = Torn
    BY <1>1, <2>1, FinishType DEF DestroyRead
  <2>2. CASE sys # Torn
    <3>1. [cmd[p] EXCEPT !.snap = sys] \in Commands
      BY <2>2 DEF TypeOK, Commands
    <3>. QED  BY <1>1, <2>2, <3>1 DEF TypeOK, DestroyRead, files, os, Labels
  <2>. QED  BY <2>1, <2>2
<1>2. ASSUME DestroyCheck(p) PROVE TypeOK'
  BY <1>2 DEF TypeOK, DestroyCheck, files, os, Labels
<1>3. ASSUME DestroyRootPart(p) PROVE TypeOK'
  BY <1>3 DEF TypeOK, DestroyRootPart, os, Contents
<1>4. ASSUME DestroyRoot(p) PROVE TypeOK'
  BY <1>4 DEF TypeOK, DestroyRoot, os, Labels, Contents
<1>5. ASSUME DestroySync(p) PROVE TypeOK'
  <2>1. cmd[p].snap \in SUBSET Ids
    BY DEF TypeOK, Commands
  <2>2. [cmd[p] EXCEPT !.snap = @ \ {cmd[p].cid}] \in Commands
    BY <2>1 DEF TypeOK, Commands
  <2>. QED  BY <1>5, <2>2 DEF TypeOK, DestroySync, os, Labels
<1>6. ASSUME DestroyTruncate(p) PROVE TypeOK'
  BY <1>6 DEF TypeOK, DestroyTruncate, os, Labels
<1>7. ASSUME DestroyWrite(p) PROVE TypeOK'
  <2>1. cmd[p].snap \in SUBSET Ids
    BY DEF TypeOK, Commands
  <2>. QED  BY <1>7, <2>1, LeaveType DEF TypeOK, DestroyWrite
<1>8. ASSUME DestroyRootFails(p) PROVE TypeOK'
  BY <1>8 DEF TypeOK, DestroyRootFails, files, os, Labels
<1>. QED  BY <1>1, <1>2, <1>3, <1>4, <1>5, <1>6, <1>7, <1>8

LEMMA WriteFailsType ==
    ASSUME TypeOK, NEW p \in Procs, WriteFails(p)
    PROVE  TypeOK'
<1>1. CASE pc[p] \in {"appTrunc", "appWrite"}
  BY <1>1 DEF TypeOK, WriteFails, files, os, Labels
<1>2. CASE pc[p] \in {"defer", "deferWrite"}
  <2>1. [cmd[p] EXCEPT !.then = "end"] \in Commands
    BY DEF TypeOK, Commands
  <2>. QED  BY <1>2, <2>1 DEF TypeOK, WriteFails, files, os, Labels
<1>3. CASE pc[p] \in {"dTrunc", "dWrite"}
  BY <1>3, FinishType DEF WriteFails
<1>. QED  BY <1>1, <1>2, <1>3 DEF WriteFails

LEMMA EnvironmentType ==
    ASSUME TypeOK, Environment
    PROVE  TypeOK'
<1>1. ASSUME NEW p \in Procs, Crash(p) PROVE TypeOK'
  BY <1>1, FinishType DEF Crash
<1>2. ASSUME NEW r \in Pids, ShellExits(r) PROVE TypeOK'
  BY <1>2 DEF TypeOK, ShellExits, files, KernelStates
<1>3. ASSUME NEW r \in Pids, ForeignStarts(r) PROVE TypeOK'
  BY <1>3 DEF TypeOK, ForeignStarts, files, KernelStates
<1>4. ASSUME NEW r \in Pids, ForeignEnds(r) PROVE TypeOK'
  BY <1>4 DEF TypeOK, ForeignEnds, files, KernelStates
<1>5. ASSUME NEW p \in Procs, WriteFails(p) PROVE TypeOK'
  BY <1>5, WriteFailsType
<1>. QED  BY <1>1, <1>2, <1>3, <1>4, <1>5 DEF Environment

-----------------------------------------------------------------------------
(* Only a command itself changes what it does next and what it holds.      *)
Others(p) ==
    \A q \in Procs \ {p} : pc'[q] = pc[q] /\ cmd'[q] = cmd[q]

LEMMA WorkKnows ==
    ASSUME TypeOK, NEW p \in Procs, Knows(p), Work(p)
    PROVE  Knows(p)' /\ Others(p)
<1>. USE DEF TypeOK, Commands, Knows, Others, NoCommand
<1>1. ASSUME GenerateDone(p) PROVE Knows(p)' /\ Others(p)
  BY <1>1 DEF GenerateDone
<1>2. ASSUME GenerateFails(p) PROVE Knows(p)' /\ Others(p)
  BY <1>2 DEF GenerateFails, Leave
<1>3. ASSUME ResumeCheck(p) PROVE Knows(p)' /\ Others(p)
  BY <1>3 DEF ResumeCheck, Finish, Leave
<1>4. ASSUME RunLoad(p) PROVE Knows(p)' /\ Others(p)
  BY <1>4 DEF RunLoad
<1>5. ASSUME SetupDone(p) PROVE Knows(p)' /\ Others(p)
  BY <1>5 DEF SetupDone
<1>6. ASSUME SetupFails(p) PROVE Knows(p)' /\ Others(p)
  BY <1>6 DEF SetupFails
<1>7. ASSUME AppendRead(p) PROVE Knows(p)' /\ Others(p)
  BY <1>7 DEF AppendRead
<1>8. ASSUME AppendTruncate(p) PROVE Knows(p)' /\ Others(p)
  BY <1>8 DEF AppendTruncate
<1>9. ASSUME AppendWrite(p) PROVE Knows(p)' /\ Others(p)
  BY <1>9 DEF AppendWrite
<1>10. ASSUME NEW r \in Pids, StartShell(p, r) PROVE Knows(p)' /\ Others(p)
  BY <1>10 DEF StartShell
<1>11. ASSUME ShellFails(p) PROVE Knows(p)' /\ Others(p)
  BY <1>11 DEF ShellFails
<1>12. ASSUME RecordCheck(p) PROVE Knows(p)' /\ Others(p)
  BY <1>12 DEF RecordCheck, Record
<1>13. ASSUME OpenPid(p) PROVE Knows(p)' /\ Others(p)
  BY <1>13 DEF OpenPid
<1>14. ASSUME WritePid(p) PROVE Knows(p)' /\ Others(p)
  BY <1>14 DEF WritePid, Record
<1>15. ASSUME WaitReturns(p) PROVE Knows(p)' /\ Others(p)
  BY <1>15 DEF WaitReturns
<1>16. ASSUME DeferTruncate(p) PROVE Knows(p)' /\ Others(p)
  BY <1>16 DEF DeferTruncate
<1>17. ASSUME DeferWrite(p) PROVE Knows(p)' /\ Others(p)
  BY <1>17 DEF DeferWrite
<1>18. ASSUME RunEnds(p) PROVE Knows(p)' /\ Others(p)
  BY <1>18 DEF RunEnds, Finish, Leave
<1>19. ASSUME DestroyRead(p) PROVE Knows(p)' /\ Others(p)
  <2>1. CASE sys = Torn
    BY <1>19, <2>1 DEF DestroyRead, Finish, Leave
  <2>2. CASE sys # Torn
    BY <1>19, <2>2 DEF DestroyRead
  <2>. QED  BY <2>1, <2>2
<1>20. ASSUME DestroyCheck(p) PROVE Knows(p)' /\ Others(p)
  BY <1>20 DEF DestroyCheck
<1>21. ASSUME DestroyRootPart(p) PROVE Knows(p)' /\ Others(p)
  BY <1>21 DEF DestroyRootPart
<1>22. ASSUME DestroyRoot(p) PROVE Knows(p)' /\ Others(p)
  BY <1>22 DEF DestroyRoot
<1>23. ASSUME DestroySync(p) PROVE Knows(p)' /\ Others(p)
  BY <1>23 DEF DestroySync
<1>24. ASSUME DestroyTruncate(p) PROVE Knows(p)' /\ Others(p)
  BY <1>24 DEF DestroyTruncate
<1>25. ASSUME DestroyWrite(p) PROVE Knows(p)' /\ Others(p)
  BY <1>25 DEF DestroyWrite, Leave
<1>26. ASSUME DestroyRootFails(p) PROVE Knows(p)' /\ Others(p)
  BY <1>26 DEF DestroyRootFails
<1>. QED
  BY <1>1, <1>2, <1>3, <1>4, <1>5, <1>6, <1>7, <1>8, <1>9, <1>10, <1>11,
     <1>12, <1>13, <1>14, <1>15, <1>16, <1>17, <1>18, <1>19, <1>20, <1>21,
     <1>22, <1>23, <1>24, <1>25, <1>26 DEF Work

LEMMA CommandKnows ==
    ASSUME TypeOK, NEW p \in Procs, NEW c \in Ids, Command(p, c)
    PROVE  Knows(p)' /\ Others(p)
<1>. USE DEF TypeOK, Commands, Knows, Others, NoCommand, Begin
<1>1. ASSUME NEW fast \in BOOLEAN, Create(p, c, fast)
      PROVE  Knows(p)' /\ Others(p)
  BY <1>1 DEF Create
<1>2. ASSUME Resume(p, c) PROVE Knows(p)' /\ Others(p)
  BY <1>2 DEF Resume
<1>3. ASSUME Destroy(p, c) PROVE Knows(p)' /\ Others(p)
  BY <1>3 DEF Destroy
<1>. QED  BY <1>1, <1>2, <1>3 DEF Command

LEMMA CrashKnows ==
    ASSUME TypeOK, NEW p \in Procs, Knows(p), Crash(p) \/ WriteFails(p)
    PROVE  Knows(p)' /\ Others(p)
<1>. USE DEF TypeOK, Knows, Others, Finish, Leave, NoCommand
<1>1. CASE Crash(p)
  BY <1>1 DEF Crash
<1>2. CASE WriteFails(p)
  <2>1. CASE pc[p] \in {"appTrunc", "appWrite"}
    BY <1>2, <2>1 DEF WriteFails
  <2>2. CASE pc[p] \in {"defer", "deferWrite"}
    BY <1>2, <2>2 DEF WriteFails, Commands
  <2>3. CASE pc[p] \in {"dTrunc", "dWrite"}
    BY <1>2, <2>3 DEF WriteFails
  <2>. QED  BY <1>2, <2>1, <2>2, <2>3 DEF WriteFails
<1>. QED  BY <1>1, <1>2

LEMMA OtherKnows ==
    ASSUME NEW p \in Procs, NEW q \in Procs, q # p, Knows(q), Others(p)
    PROVE  Knows(q)'
BY DEF Knows, Others

(* Type correctness: in every interleaving, with any commands killed, every*)
(* file, every table of the kernel and every command's memory keeps its    *)
(* type, and a command at work holds the id it works on.                   *)
TypeInv == TypeOK /\ \A p \in Procs : Knows(p)

LEMMA TypeInvInit == Init => TypeInv
BY InitType DEF TypeInv, Knows, Init

LEMMA TypeInvNext == TypeInv /\ [Next]_vars => TypeInv'
<1>. SUFFICES ASSUME TypeInv, [Next]_vars PROVE TypeInv'
  OBVIOUS
<1>. USE DEF TypeInv
<1>1. ASSUME NEW p \in Procs, Work(p) PROVE TypeInv'
  <2>1. TypeOK'
    BY <1>1, RunType, ShellType, DestroyType DEF Work
  <2>. QED  BY <1>1, <2>1, WorkKnows, OtherKnows
<1>2. ASSUME NEW p \in Procs, NEW c \in Ids, Command(p, c) PROVE TypeInv'
  BY <1>2, CommandType, CommandKnows, OtherKnows
<1>3. ASSUME NEW p \in Procs, Crash(p) \/ WriteFails(p) PROVE TypeInv'
  <2>1. TypeOK'
    BY <1>3, EnvironmentType DEF Environment
  <2>. QED  BY <1>3, <2>1, CrashKnows, OtherKnows
<1>4. ASSUME NEW r \in Pids, ShellExits(r) \/ ForeignStarts(r) \/ ForeignEnds(r)
      PROVE  TypeInv'
  <2>1. TypeOK'
    BY <1>4, EnvironmentType DEF Environment
  <2>2. UNCHANGED <<pc, cmd>>
    BY <1>4 DEF ShellExits, ForeignStarts, ForeignEnds
  <2>. QED  BY <2>1, <2>2 DEF Knows
<1>5. ASSUME UNCHANGED vars PROVE TypeInv'
  BY <1>5 DEF vars, files, os, TypeOK, Knows
<1>. QED  BY <1>1, <1>2, <1>3, <1>4, <1>5 DEF Next, Environment

THEOREM TypeCorrect == Spec => []TypeOK
<1>1. Spec => []TypeInv
  BY TypeInvInit, TypeInvNext, PTL DEF Spec
<1>2. TypeInv => TypeOK
  BY DEF TypeInv
<1>. QED  BY <1>1, <1>2, PTL

-----------------------------------------------------------------------------
(* A registry, on disk or in the memory of a command, holds only ids that  *)
(* were handed out; so does a command.  (An id just made is therefore in   *)
(* no registry that a command still has to write back.)                    *)
Allocated ==
    /\ sys # Torn => sys \subseteq used
    /\ \A p \in Procs :
          /\ cmd[p].snap \subseteq used
          /\ pc[p] # "idle" => cmd[p].cid \in used

LEMMA AllocatedStep ==
    ASSUME Allocated, NEW p \in Procs, Others(p),
           used \subseteq used',
           sys' # Torn => sys' \subseteq used',
           cmd'[p].snap \subseteq used',
           pc'[p] # "idle" => cmd'[p].cid \in used'
    PROVE  Allocated'
<1>1. ASSUME NEW q \in Procs, q # p
      PROVE  /\ cmd'[q].snap \subseteq used'
             /\ pc'[q] # "idle" => cmd'[q].cid \in used'
  BY <1>1 DEF Allocated, Others
<1>. QED  BY <1>1 DEF Allocated

LEMMA AllocatedWork ==
    ASSUME TypeOK, Allocated, NEW p \in Procs, Others(p),
           Work(p) \/ Crash(p) \/ WriteFails(p)
    PROVE  Allocated'
<1>. DEFINE Mine == /\ cmd'[p].snap \subseteq used'
                    /\ pc'[p] # "idle" => cmd'[p].cid \in used'
<1>1. /\ cmd[p] \in Commands /\ cmd[p].snap \subseteq used
      /\ pc[p] # "idle" => cmd[p].cid \in used
      /\ sys # Torn => sys \subseteq used
      /\ pc \in [Procs -> Labels] /\ cmd \in [Procs -> Commands]
  BY DEF TypeOK, Allocated
<1>2. ASSUME Leave(p) PROVE cmd'[p].snap = {} /\ pc'[p] = "idle"
  BY <1>1, <1>2 DEF Leave, NoCommand
<1>. USE <1>1 DEF Commands, files, os
<1>3. ASSUME GenerateDone(p) \/ GenerateFails(p) PROVE Mine /\ UNCHANGED <<sys, used>>
  BY <1>2, <1>3 DEF GenerateDone, GenerateFails
<1>4. ASSUME ResumeCheck(p) PROVE Mine /\ UNCHANGED <<sys, used>>
  BY <1>2, <1>4 DEF ResumeCheck, Finish
<1>5. ASSUME RunLoad(p) PROVE Mine /\ UNCHANGED <<sys, used>>
  BY <1>5 DEF RunLoad
<1>6. ASSUME SetupDone(p) \/ SetupFails(p) PROVE Mine /\ UNCHANGED <<sys, used>>
  BY <1>6 DEF SetupDone, SetupFails
<1>7. ASSUME AppendRead(p) PROVE Mine /\ UNCHANGED <<sys, used>>
  BY <1>7 DEF AppendRead
<1>8. ASSUME AppendTruncate(p) \/ DestroyTruncate(p)
      PROVE  Mine /\ sys' = Torn /\ used' = used
  BY <1>8 DEF AppendTruncate, DestroyTruncate
<1>9. ASSUME AppendWrite(p) PROVE Mine /\ sys' = cmd[p].snap /\ used' = used
  BY <1>9 DEF AppendWrite
<1>10. ASSUME \/ \E r \in Pids : StartShell(p, r)
              \/ ShellFails(p) \/ OpenPid(p)
       PROVE  Mine /\ UNCHANGED <<sys, used>>
  BY <1>10 DEF StartShell, ShellFails, OpenPid
<1>11. ASSUME RecordCheck(p) \/ WritePid(p) \/ WaitReturns(p)
       PROVE  Mine /\ UNCHANGED <<sys, used>>
  BY <1>11 DEF RecordCheck, WritePid, WaitReturns, Record
<1>12. ASSUME DeferTruncate(p) \/ DeferWrite(p) PROVE Mine /\ UNCHANGED <<sys, used>>
  BY <1>12 DEF DeferTruncate, DeferWrite
<1>13. ASSUME RunEnds(p) PROVE Mine /\ UNCHANGED <<sys, used>>
  BY <1>2, <1>13 DEF RunEnds, Finish
<1>14. ASSUME DestroyRead(p) PROVE Mine /\ UNCHANGED <<sys, used>>
  <2>1. CASE sys = Torn
    BY <1>2, <1>14, <2>1 DEF DestroyRead, Finish
  <2>2. CASE sys # Torn
    BY <1>14, <2>2 DEF DestroyRead
  <2>. QED  BY <2>1, <2>2
<1>15. ASSUME \/ DestroyCheck(p) \/ DestroyRootPart(p) \/ DestroyRoot(p)
              \/ DestroyRootFails(p) \/ DestroySync(p)
       PROVE  Mine /\ UNCHANGED <<sys, used>>
  BY <1>15 DEF DestroyCheck, DestroyRootPart, DestroyRoot, DestroyRootFails,
     DestroySync
<1>16. ASSUME DestroyWrite(p) PROVE Mine /\ sys' = cmd[p].snap /\ used' = used
  BY <1>2, <1>16 DEF DestroyWrite
<1>17. ASSUME Crash(p) PROVE Mine /\ UNCHANGED <<sys, used>>
  BY <1>2, <1>17 DEF Crash, Finish
<1>18. ASSUME WriteFails(p) PROVE Mine /\ UNCHANGED <<sys, used>>
  <2>1. CASE Finish(p)
    BY <1>2, <2>1 DEF Finish
  <2>2. CASE ~Finish(p)
    BY <1>18, <2>2 DEF WriteFails
  <2>. QED  BY <2>1, <2>2
<1>19. Mine /\ used' = used /\ sys' \in {sys, Torn, cmd[p].snap}
  BY <1>3, <1>4, <1>5, <1>6, <1>7, <1>8, <1>9, <1>10, <1>11, <1>12, <1>13,
     <1>14, <1>15, <1>16, <1>17, <1>18 DEF Work
<1>. QED  BY <1>19, AllocatedStep

LEMMA AllocatedCommand ==
    ASSUME TypeOK, Allocated, NEW p \in Procs, NEW c \in Ids, Others(p), Command(p, c)
    PROVE  Allocated'
<1>1. /\ pc \in [Procs -> Labels] /\ cmd \in [Procs -> Commands]
      /\ sys # Torn => sys \subseteq used
  BY DEF TypeOK, Allocated
<1>2. ASSUME NEW fast \in BOOLEAN, Begin(p, c, fast)
      PROVE  cmd'[p].snap = {} /\ cmd'[p].cid = c
  BY <1>1, <1>2 DEF Begin, NoCommand
<1>3. ASSUME NEW fast \in BOOLEAN, Create(p, c, fast) PROVE Allocated'
  BY <1>1, <1>2, <1>3, AllocatedStep DEF Create
<1>4. ASSUME Resume(p, c) \/ Destroy(p, c) PROVE Allocated'
  BY <1>1, <1>2, <1>4, AllocatedStep DEF Resume, Destroy, files
<1>. QED  BY <1>3, <1>4 DEF Command

LEMMA AllocatedNext == TypeInv /\ Allocated /\ [Next]_vars => Allocated'
<1>. SUFFICES ASSUME TypeInv, Allocated, [Next]_vars PROVE Allocated'
  OBVIOUS
<1>. USE DEF TypeInv
<1>1. ASSUME NEW p \in Procs, Work(p) PROVE Allocated'
  BY <1>1, WorkKnows, AllocatedWork
<1>2. ASSUME NEW p \in Procs, NEW c \in Ids, Command(p, c) PROVE Allocated'
  BY <1>2, CommandKnows, AllocatedCommand
<1>3. ASSUME NEW p \in Procs, Crash(p) \/ WriteFails(p) PROVE Allocated'
  BY <1>3, CrashKnows, AllocatedWork
<1>4. ASSUME NEW r \in Pids, ShellExits(r) \/ ForeignStarts(r) \/ ForeignEnds(r)
      PROVE  Allocated'
  BY <1>4 DEF ShellExits, ForeignStarts, ForeignEnds, files, Allocated
<1>5. ASSUME UNCHANGED vars PROVE Allocated'
  BY <1>5 DEF vars, files, os, Allocated
<1>. QED  BY <1>1, <1>2, <1>3, <1>4, <1>5 DEF Next, Environment

-----------------------------------------------------------------------------
(* IndInv is inductive when the pids have equal widths and no two commands *)
(* work on one container.  A step of command p on container c preserves it *)
(* if it leaves the other containers and the other commands' shells alone, *)
(* does right by c (StepInv); a step that touches no root, no pid file and *)
(* no process is the simple case (LocalStep).                              *)

LEMMA StepInv ==
    ASSUME IndInv, TypeOK', NEW p \in Procs, NEW c \in Ids, Others(p),
           \A q \in Procs \ {p} : ~AtRest(q) => cmd[q].cid # c,
           \A d \in Ids \ {c} : disk'[d] = disk[d] /\ pidFile'[d] = pidFile[d],
           used \subseteq used',
           \A r \in recorded' :
              kernel'[r] = c \/ (r \in recorded /\ kernel'[r] = kernel[r]),
           \A q \in Procs \ {p} : cmd[q].shell # None =>
              kernel'[cmd[q].shell] = kernel[cmd[q].shell],
           cmd'[p].cid = c,
           \A q \in Procs \ {p} :
              cmd'[p].shell # None => cmd'[p].shell # cmd[q].shell,
           CommandOK(p)',
           \A r \in recorded' : kernel'[r] = c =>
              pidFile'[c] = r /\ disk'[c] = "full" /\ c \in used',
           pidFile'[c] \in Pids \cup {None, <<>>}
    PROVE  IndInv'
<1>1. ASSUME NEW r \in recorded'
      PROVE  /\ kernel'[r] \in Ids
             /\ pidFile'[kernel'[r]] = r
             /\ disk'[kernel'[r]] = "full"
             /\ kernel'[r] \in used'
  <2>1. CASE kernel'[r] = c
    BY <2>1
  <2>2. CASE kernel'[r] # c
    BY <2>2 DEF IndInv, RecordedFound
  <2>. QED  BY <2>1, <2>2
<1>2. \A d \in Ids : pidFile'[d] \in Pids \cup {None, <<>>}
  BY DEF IndInv
<1>3. ASSUME NEW q \in Procs PROVE CommandOK(q)'
  <2>1. CASE q = p
    BY <2>1
  <2>2. CASE q # p
    <3>1. CommandOK(q) /\ pc'[q] = pc[q] /\ cmd'[q] = cmd[q]
      BY <2>2 DEF IndInv, Others
    <3>2. used \in SUBSET Ids
      BY DEF IndInv, TypeOK
    <3>3. ASSUME NeedsUnoccupied(q) PROVE Unoccupied(cmd[q].cid)'
      <4>1. cmd[q].cid # c
        BY <2>2, <3>3 DEF NeedsUnoccupied, AtRest
      <4>. QED  BY <3>1, <3>3, <4>1 DEF CommandOK, Unoccupied
    <3>4. pc[q] \in {"record", "open", "write"} =>
              /\ disk'[cmd[q].cid] = disk[cmd[q].cid]
              /\ pidFile'[cmd[q].cid] = pidFile[cmd[q].cid]
      BY <2>2, <3>1, <3>2 DEF CommandOK, AtRest
    <3>. QED  BY <2>2, <3>1, <3>3, <3>4 DEF CommandOK, NeedsUnoccupied
  <2>. QED  BY <2>1, <2>2
<1>4. ASSUME NEW q1 \in Procs, NEW q2 \in Procs, q1 # q2
      PROVE  Apart(q1, q2)'
  BY <1>4 DEF IndInv, Apart, AtRest, Others
<1>. QED  BY <1>1, <1>2, <1>3, <1>4 DEF IndInv, RecordedFound

LEMMA LocalStep ==
    ASSUME IndInv, TypeOK', NEW p \in Procs, ~AtRest(p), Others(p),
           UNCHANGED <<disk, pidFile, used, os>>,
           cmd'[p].cid = cmd[p].cid, cmd'[p].shell = cmd[p].shell,
           CommandOK(p)'
    PROVE  IndInv'
<1>1. cmd[p].cid \in Ids
  BY DEF IndInv, CommandOK, TypeOK, AtRest
<1>2. \A q \in Procs \ {p} : ~AtRest(q) => cmd[q].cid # cmd[p].cid
  BY DEF IndInv, Apart
<1>3. \A q \in Procs \ {p} : cmd[p].shell # None => cmd[p].shell # cmd[q].shell
  BY DEF IndInv, Apart
<1>. QED  BY <1>1, <1>2, <1>3, StepInv DEF IndInv, RecordedFound, os

LEMMA LeaveStep ==
    ASSUME IndInv, TypeOK', NEW p \in Procs, Leave(p), Others(p),
           \A d \in Ids : disk'[d] = "full" \/ disk'[d] = disk[d],
           UNCHANGED <<pidFile, used>>
    PROVE  IndInv'
<1>1. recorded' = recorded /\ \A r \in recorded : kernel'[r] = kernel[r]
  BY LifecycleAssumption DEF IndInv, RecordedFound, TypeOK, Leave, KernelStates
<1>2. ASSUME NEW r \in recorded
      PROVE  kernel[r] \in Ids /\ pidFile[kernel[r]] = r
             /\ disk[kernel[r]] = "full" /\ kernel[r] \in used
  BY DEF IndInv, RecordedFound
<1>3. CommandOK(p)'
  <2>1. pc'[p] = "idle" /\ cmd'[p] = NoCommand
    BY DEF Leave, IndInv, TypeOK
  <2>. QED  BY <2>1 DEF CommandOK, NeedsUnoccupied, NoCommand
<1>4. ASSUME NEW q \in Procs, q # p PROVE CommandOK(q)'
  <2>1. CommandOK(q) /\ pc'[q] = pc[q] /\ cmd'[q] = cmd[q]
    BY <1>4 DEF IndInv, Others
  <2>2. cmd[q].shell # None => kernel'[cmd[q].shell] = kernel[cmd[q].shell]
    BY <1>4 DEF IndInv, Apart, Leave, TypeOK, Commands
  <2>3. \A d : Unoccupied(d)' <=> Unoccupied(d)
    BY <1>1 DEF Unoccupied
  <2>4. pc[q] # "idle" => cmd[q].cid \in Ids
    BY <2>1 DEF CommandOK, IndInv, TypeOK
  <2>. QED  BY <2>1, <2>2, <2>3, <2>4 DEF CommandOK, NeedsUnoccupied
<1>5. ASSUME NEW q1 \in Procs, NEW q2 \in Procs, q1 # q2
      PROVE  Apart(q1, q2)'
  <2>1. pc'[p] = "idle" /\ cmd'[p].shell = None
    BY DEF Leave, NoCommand, IndInv, TypeOK
  <2>. QED  BY <1>5, <2>1 DEF IndInv, Apart, AtRest, Others
<1>6. RecordedFound' /\ \A r \in recorded' : kernel'[r] \in used'
  BY <1>1, <1>2 DEF RecordedFound
<1>. QED  BY <1>3, <1>4, <1>5, <1>6 DEF IndInv

LEMMA LocalActions ==
    ASSUME IndInv, TypeOK', NEW p \in Procs, Knows(p), Others(p)
    PROVE  /\ SetupDone(p) => IndInv'
           /\ SetupFails(p) => IndInv'
           /\ AppendRead(p) => IndInv'
           /\ AppendTruncate(p) => IndInv'
           /\ AppendWrite(p) => IndInv'
           /\ ShellFails(p) => IndInv'
           /\ DeferTruncate(p) => IndInv'
           /\ DeferWrite(p) => IndInv'
           /\ DestroyCheck(p) => IndInv'
           /\ DestroyRootFails(p) => IndInv'
           /\ DestroySync(p) => IndInv'
           /\ DestroyTruncate(p) => IndInv'
<1>1. CommandOK(p) /\ cmd[p] \in Commands /\ pc \in [Procs -> Labels]
      /\ cmd \in [Procs -> Commands]
  BY DEF IndInv, TypeOK
<1>. USE <1>1 DEF Commands, CommandOK, NeedsUnoccupied, Unoccupied, AtRest, os, files
<1>2. ASSUME SetupDone(p) PROVE IndInv'
  <2>1. CommandOK(p)'
    BY <1>2 DEF SetupDone
  <2>. QED  BY <1>2, <2>1, LocalStep DEF SetupDone
<1>3. ASSUME SetupFails(p) PROVE IndInv'
  <2>1. CommandOK(p)'
    BY <1>3 DEF SetupFails
  <2>. QED  BY <1>3, <2>1, LocalStep DEF SetupFails
<1>4. ASSUME AppendRead(p) PROVE IndInv'
  <2>1. CommandOK(p)'
    BY <1>4 DEF AppendRead
  <2>. QED  BY <1>4, <2>1, LocalStep DEF AppendRead
<1>5. ASSUME AppendTruncate(p) PROVE IndInv'
  <2>1. CommandOK(p)'
    BY <1>5 DEF AppendTruncate
  <2>. QED  BY <1>5, <2>1, LocalStep DEF AppendTruncate
<1>6. ASSUME AppendWrite(p) PROVE IndInv'
  <2>1. CommandOK(p)'
    BY <1>6 DEF AppendWrite
  <2>. QED  BY <1>6, <2>1, LocalStep DEF AppendWrite
<1>7. ASSUME ShellFails(p) PROVE IndInv'
  <2>1. CommandOK(p)'
    BY <1>7 DEF ShellFails
  <2>. QED  BY <1>7, <2>1, LocalStep DEF ShellFails
<1>8. ASSUME DeferTruncate(p) PROVE IndInv'
  <2>1. CommandOK(p)'
    BY <1>8 DEF DeferTruncate
  <2>. QED  BY <1>8, <2>1, LocalStep DEF DeferTruncate
<1>9. ASSUME DeferWrite(p) PROVE IndInv'
  <2>1. CommandOK(p)'
    BY <1>9 DEF DeferWrite
  <2>. QED  BY <1>9, <2>1, LocalStep DEF DeferWrite
<1>10. ASSUME DestroyCheck(p) PROVE IndInv'
  <2>1. ~PidIsActive(pidFile[cmd[p].cid], kernel) => Unoccupied(cmd[p].cid)
    BY LifecycleAssumption, PidsAssumption DEF IndInv, TypeOK, RecordedFound,
       PidIsActive, PidValueFails, KernelStates
  <2>2. CommandOK(p)'
    BY <1>10, <2>1 DEF DestroyCheck
  <2>. QED  BY <1>10, <2>2, LocalStep DEF DestroyCheck
<1>11. ASSUME DestroySync(p) PROVE IndInv'
  <2>1. CommandOK(p)'
    BY <1>11 DEF DestroySync
  <2>. QED  BY <1>11, <2>1, LocalStep DEF DestroySync
<1>12. ASSUME DestroyTruncate(p) PROVE IndInv'
  <2>1. CommandOK(p)'
    BY <1>12 DEF DestroyTruncate
  <2>. QED  BY <1>12, <2>1, LocalStep DEF DestroyTruncate
<1>13. ASSUME DestroyRootFails(p) PROVE IndInv'
  <2>1. CommandOK(p)'
    BY <1>13 DEF DestroyRootFails
  <2>. QED  BY <1>13, <2>1, LocalStep DEF DestroyRootFails
<1>. QED  BY <1>2, <1>3, <1>4, <1>5, <1>6, <1>7, <1>8, <1>9, <1>10, <1>11,
             <1>12, <1>13

(* The steps that end a command, or may.                                   *)
LEMMA LeaveActions ==
    ASSUME IndInv, TypeOK', NEW p \in Procs, Knows(p), Others(p)
    PROVE  /\ GenerateFails(p) => IndInv'
           /\ ResumeCheck(p) => IndInv'
           /\ RunEnds(p) => IndInv'
           /\ DestroyRead(p) => IndInv'
           /\ DestroyWrite(p) => IndInv'
           /\ Crash(p) => IndInv'
<1>1. CommandOK(p) /\ cmd[p] \in Commands /\ pc \in [Procs -> Labels]
      /\ cmd \in [Procs -> Commands] /\ disk \in [Ids -> {"none", "hollow", "full"}]
  BY DEF IndInv, TypeOK
<1>2. ASSUME GenerateFails(p) PROVE IndInv'
  BY <1>1, <1>2, LeaveStep DEF GenerateFails
<1>3. ASSUME ResumeCheck(p) PROVE IndInv'
  <2>1. CASE Finish(p)
    BY <2>1, LeaveStep DEF Finish, files
  <2>2. CASE ~Finish(p)
    <3>1. ~PidIsActive(pidFile[cmd[p].cid], kernel)
      BY <1>3, <2>2 DEF ResumeCheck
    <3>2. Unoccupied(cmd[p].cid)
      BY <3>1, LifecycleAssumption, PidsAssumption DEF IndInv, TypeOK,
         RecordedFound, PidIsActive, PidValueFails, KernelStates, Unoccupied
    <3>3. CommandOK(p)'
      BY <1>1, <1>3, <2>2, <3>2 DEF ResumeCheck, CommandOK, Unoccupied, files,
         os
    <3>. QED  BY <1>3, <2>2, <3>3, LocalStep DEF ResumeCheck, AtRest, files
  <2>. QED  BY <2>1, <2>2
<1>4. ASSUME RunEnds(p) PROVE IndInv'
  <2>1. CASE Finish(p)
    BY <2>1, LeaveStep DEF Finish, files
  <2>2. CASE ~Finish(p)
    <3>1. CommandOK(p)'
      BY <1>1, <1>4, <2>2 DEF RunEnds, CommandOK, NeedsUnoccupied, files, os
    <3>. QED  BY <1>4, <2>2, <3>1, LocalStep DEF RunEnds, AtRest, files
  <2>. QED  BY <2>1, <2>2
<1>5. ASSUME DestroyRead(p) PROVE IndInv'
  <2>1. CASE Finish(p)
    BY <2>1, LeaveStep DEF Finish, files
  <2>2. CASE ~Finish(p)
    <3>1. CommandOK(p)' /\ cmd'[p].cid = cmd[p].cid /\ cmd'[p].shell = cmd[p].shell
      BY <1>1, <1>5, <2>2 DEF DestroyRead, CommandOK, NeedsUnoccupied,
         Commands, files, os
    <3>. QED  BY <1>5, <2>2, <3>1, LocalStep DEF DestroyRead, AtRest, files
  <2>. QED  BY <2>1, <2>2
<1>6. ASSUME DestroyWrite(p) PROVE IndInv'
  BY <1>6, LeaveStep DEF DestroyWrite
<1>7. ASSUME Crash(p) PROVE IndInv'
  BY <1>7, LeaveStep DEF Crash, Finish, files
<1>. QED  BY <1>2, <1>3, <1>4, <1>5, <1>6, <1>7

LEMMA WriteFailsInd ==
    ASSUME IndInv, TypeOK', NEW p \in Procs, Knows(p), Others(p),
           WriteFails(p)
    PROVE  IndInv'
<1>1. CASE Finish(p)
  BY <1>1, LeaveStep DEF Finish, files
<1>2. CASE ~Finish(p)
  <2>1. CommandOK(p) /\ cmd[p] \in Commands /\ pc \in [Procs -> Labels]
        /\ cmd \in [Procs -> Commands]
    BY DEF IndInv, TypeOK
  <2>2. /\ CommandOK(p)' /\ ~AtRest(p)
        /\ cmd'[p].cid = cmd[p].cid /\ cmd'[p].shell = cmd[p].shell
        /\ UNCHANGED <<disk, pidFile, used, os>>
    BY <1>2, <2>1 DEF WriteFails, CommandOK, NeedsUnoccupied, Commands,
       AtRest, Unoccupied, files, os
  <2>. QED  BY <2>2, LocalStep
<1>. QED  BY <1>1, <1>2

(* The steps that touch a root folder, a pid file or a shell.              *)
LEMMA RootActions ==
    ASSUME IndInv, TypeOK', NEW p \in Procs, Knows(p), Others(p), ~AtRest(p)
    PROVE  /\ GenerateDone(p) => IndInv'
           /\ RunLoad(p) => IndInv'
           /\ OpenPid(p) => IndInv'
           /\ DestroyRootPart(p) => IndInv'
           /\ DestroyRoot(p) => IndInv'
<1>. DEFINE c == cmd[p].cid
<1>1. /\ CommandOK(p) /\ cmd[p] \in Commands /\ pc \in [Procs -> Labels]
      /\ cmd \in [Procs -> Commands] /\ disk \in [Ids -> {"none", "hollow", "full"}]
      /\ pidFile \in [Ids -> Contents] /\ c \in Ids /\ c \in used
      /\ pidFile[c] \in Pids \cup {None, <<>>}
  BY DEF IndInv, TypeOK, CommandOK, AtRest
<1>2. /\ \A q \in Procs \ {p} : ~AtRest(q) => cmd[q].cid # c
      /\ \A q \in Procs \ {p} : cmd[p].shell # None => cmd[p].shell # cmd[q].shell
  BY DEF IndInv, Apart
<1>3. Unoccupied(c) => \A r \in recorded : kernel[r] # c
  BY DEF Unoccupied
<1>. USE <1>1, <1>2, <1>3 DEF CommandOK, NeedsUnoccupied, Unoccupied, os, Commands
<1>4. ASSUME GenerateDone(p) PROVE IndInv'
  <2>1. CommandOK(p)'
    BY <1>4 DEF GenerateDone
  <2>. QED  BY <1>4, <2>1, StepInv DEF GenerateDone
<1>5. ASSUME RunLoad(p) PROVE IndInv'
  <2>1. CommandOK(p)' /\ cmd'[p].cid = c /\ cmd'[p].shell = cmd[p].shell
    BY <1>5 DEF RunLoad
  <2>2. \A d \in Ids \ {c} : disk'[d] = disk[d]
    BY <1>5 DEF RunLoad
  <2>. QED  BY <1>5, <2>1, <2>2, StepInv DEF RunLoad
<1>6. ASSUME OpenPid(p) PROVE IndInv'
  <2>1. CommandOK(p)'
    BY <1>6, EmptyFile DEF OpenPid
  <2>2. pidFile'[c] \in Pids \cup {None, <<>>}
    BY <1>6 DEF OpenPid
  <2>3. \A d \in Ids \ {c} : pidFile'[d] = pidFile[d]
    BY <1>6 DEF OpenPid
  <2>. QED  BY <1>6, <2>1, <2>2, <2>3, StepInv DEF OpenPid
<1>7. ASSUME DestroyRootPart(p) PROVE IndInv'
  <2>1. CommandOK(p)'
    BY <1>7 DEF DestroyRootPart
  <2>2. pidFile'[c] \in Pids \cup {None, <<>>}
    BY <1>7 DEF DestroyRootPart
  <2>3. \A d \in Ids \ {c} : pidFile'[d] = pidFile[d] /\ disk'[d] = disk[d]
    BY <1>7 DEF DestroyRootPart
  <2>. QED  BY <1>7, <2>1, <2>2, <2>3, StepInv DEF DestroyRootPart
<1>8. ASSUME DestroyRoot(p) PROVE IndInv'
  <2>1. CommandOK(p)'
    BY <1>8 DEF DestroyRoot
  <2>. QED  BY <1>8, <2>1, StepInv DEF DestroyRoot
<1>. QED  BY <1>4, <1>5, <1>6, <1>7, <1>8

(* The steps that start, record, await or lose a process.                  *)
LEMMA ShellActions ==
    ASSUME SameWidth, Discipline # "none",
           IndInv, TypeOK', NEW p \in Procs, Knows(p), Others(p)
    PROVE  /\ (\E r \in Pids : StartShell(p, r)) => IndInv'
           /\ RecordCheck(p) => IndInv'
           /\ WritePid(p) => IndInv'
           /\ WaitReturns(p) => IndInv'
<1>. DEFINE c == cmd[p].cid
<1>1. /\ CommandOK(p) /\ cmd[p] \in Commands /\ pc \in [Procs -> Labels]
      /\ cmd \in [Procs -> Commands] /\ disk \in [Ids -> {"none", "hollow", "full"}]
      /\ pidFile \in [Ids -> Contents] /\ kernel \in [Pids -> Ids \cup KernelStates]
      /\ recorded \subseteq Pids /\ None \notin Pids
  BY PidsAssumption DEF IndInv, TypeOK
<1>2. ~AtRest(p) => \A q \in Procs \ {p} : ~AtRest(q) => cmd[q].cid # c
  BY DEF IndInv, Apart
<1>3. \A q \in Procs \ {p} : cmd[p].shell # None => cmd[p].shell # cmd[q].shell
  BY DEF IndInv, Apart
<1>4. pc[p] # "idle" => c \in used /\ c \in Ids /\ pidFile[c] \in Pids \cup {None, <<>>}
  BY DEF IndInv, TypeOK, CommandOK
<1>5. \A r \in recorded : kernel[r] \in Ids /\ pidFile[kernel[r]] = r
                          /\ disk[kernel[r]] = "full"
  BY DEF IndInv, RecordedFound
<1>6. \A q \in Procs : cmd[q].shell # None =>
         cmd[q].shell \in Pids /\ kernel[cmd[q].shell] \in {cmd[q].cid, "zombie"}
  BY DEF IndInv, CommandOK, TypeOK, Commands
<1>7. Ids \cap {"free", "foreign", "zombie"} = {}
  BY LifecycleAssumption DEF KernelStates
<1>8. \A q \in Procs : cmd[q].shell # None => cmd[q].cid # "free"
  BY <1>7 DEF IndInv, CommandOK, NoCommand, TypeOK
<1>9. ASSUME NEW r \in Pids, StartShell(p, r) PROVE IndInv'
  <2>1. r \notin recorded
    BY <1>9, <1>5, <1>7 DEF StartShell
  <2>2. \A q \in Procs : cmd[q].shell # r
    BY <1>9, <1>1, <1>6, <1>8 DEF StartShell
  <2>3. /\ pc[p] = "shell" /\ pc'[p] = "record" /\ cmd'[p].shell = r /\ cmd'[p].cid = c
        /\ kernel' = [kernel EXCEPT ![r] = c] /\ disk[c] = "full"
        /\ UNCHANGED <<disk, pidFile, used, recorded>>
    BY <1>9, <1>1 DEF StartShell, files, Commands
  <2>4. Unoccupied(c)'
    BY <1>1, <2>1, <2>3 DEF CommandOK, NeedsUnoccupied, Unoccupied
  <2>5. CommandOK(p)'
    BY <1>1, <1>4, <2>3, <2>4 DEF CommandOK, NeedsUnoccupied
  <2>6. \A q \in recorded : kernel'[q] = kernel[q] /\ kernel'[q] # c
    BY <1>1, <2>1, <2>3, <2>4 DEF Unoccupied
  <2>7. \A q \in Procs \ {p} : cmd[q].shell # None =>
           kernel'[cmd[q].shell] = kernel[cmd[q].shell]
    BY <1>1, <1>6, <2>2, <2>3
  <2>. QED
    BY <1>1, <1>2, <1>4, <2>2, <2>3, <2>5, <2>6, <2>7, StepInv DEF AtRest
\* What Record does once container.pid holds the pid of the shell.
<1>10. ASSUME Record(p), pc[p] \in {"record", "write"},
              UNCHANGED <<disk, used, cmd>>,
              pidFile'[c] = cmd[p].shell \/ kernel[cmd[p].shell] # c,
              pidFile'[c] \in Pids \cup {None, <<>>},
              \A d \in Ids \ {c} : pidFile'[d] = pidFile[d]
       PROVE  IndInv'
  <2>1. /\ pc'[p] = "wait" /\ kernel' = kernel
        /\ recorded' = IF kernel[cmd[p].shell] = c
                       THEN recorded \cup {cmd[p].shell} ELSE recorded
    BY <1>10, <1>1 DEF Record
  <2>2. disk[c] = "full" /\ Unoccupied(c) /\ cmd[p].shell # None
    BY <1>10, <1>1 DEF CommandOK, NeedsUnoccupied
  <2>3. CommandOK(p)'
    BY <1>10, <1>1, <2>1, <2>2 DEF CommandOK, NeedsUnoccupied
  <2>4. \A r \in recorded' : (r = cmd[p].shell /\ kernel[r] = c) \/ r \in recorded
    BY <2>1
  <2>5. \A r \in recorded' : kernel'[r] = c =>
           pidFile'[c] = r /\ disk'[c] = "full" /\ c \in used'
    BY <1>4, <1>10, <2>1, <2>2, <2>4 DEF Unoccupied
  <2>. QED
    BY <1>2, <1>3, <1>4, <1>10, <2>1, <2>3, <2>4, <2>5, StepInv DEF AtRest
<1>11. ASSUME RecordCheck(p) PROVE IndInv'
  <2>1. CASE Record(p)
    <3>1. CASE pidFile[c] = cmd[p].shell
      BY <1>4, <1>10, <1>11, <2>1, <3>1 DEF RecordCheck, files
    <3>2. CASE pidFile[c] # cmd[p].shell
      <4>1. pc'[p] = "wait"
        BY <2>1, <1>1 DEF Record
      <4>. QED  BY <1>11, <1>1, <3>2, <4>1 DEF RecordCheck
    <3>. QED  BY <3>1, <3>2
  <2>2. CASE ~Record(p)
    <3>1. pc[p] = "record" /\ pc'[p] \in {"open", "defer"} /\ UNCHANGED <<files, os, cmd>>
      BY <1>11, <1>1, <2>2 DEF RecordCheck
    <3>2. CommandOK(p)'
      BY <1>1, <3>1 DEF CommandOK, NeedsUnoccupied, Unoccupied, files, os
    <3>. QED  BY <3>1, <3>2, LocalStep DEF AtRest, files
  <2>. QED  BY <2>1, <2>2
<1>12. ASSUME WritePid(p) PROVE IndInv'
  <2>1. cmd[p].shell \in Pids /\ c \in Ids /\ pidFile[c] \in Pids \cup {<<>>}
    BY <1>12, <1>1, <1>4 DEF WritePid, Knows, CommandOK
  <2>2. Overlay(pidFile[c], cmd[p].shell) = cmd[p].shell
    BY <2>1, OverlayCovers
  <2>3. pidFile' = [pidFile EXCEPT ![c] = cmd[p].shell]
    BY <1>12, <1>1, <2>1, <2>2 DEF WritePid, CommandOK
  <2>. QED  BY <1>1, <1>10, <1>12, <2>1, <2>3 DEF WritePid
<1>13. ASSUME WaitReturns(p) PROVE IndInv'
  <2>. DEFINE r == cmd[p].shell
  <2>1. /\ pc[p] = "wait" /\ pc'[p] = "defer" /\ kernel[r] = "zombie" /\ r \in Pids
        /\ kernel' = [kernel EXCEPT ![r] = "free"]
        /\ cmd'[p].cid = c /\ cmd'[p].shell = None
        /\ UNCHANGED <<disk, pidFile, used, recorded>>
    BY <1>1, <1>13 DEF WaitReturns, files, Commands, Knows
  <2>2. \A q \in Procs \ {p} : ~AtRest(q) => cmd[q].cid # c
    BY <1>13 DEF WaitReturns, MayRun
  <2>3. r \notin recorded
    BY <1>5, <1>7, <2>1
  <2>4. \A q \in recorded : kernel'[q] = kernel[q]
    BY <1>1, <2>1, <2>3
  <2>5. CommandOK(p)'
    BY <1>1, <2>1 DEF CommandOK, NeedsUnoccupied
  <2>6. \A q \in Procs \ {p} : cmd[q].shell # None =>
           kernel'[cmd[q].shell] = kernel[cmd[q].shell]
    BY <1>1, <1>3, <1>6, <2>1
  <2>. QED  BY <1>4, <1>5, <2>1, <2>2, <2>4, <2>5, <2>6, StepInv
<1>. QED  BY <1>9, <1>11, <1>12, <1>13

LEMMA CommandActions ==
    ASSUME Discipline # "none", IndInv, Allocated, TypeOK', NEW p \in Procs,
           Others(p), NEW c \in Ids, Command(p, c)
    PROVE  IndInv'
<1>1. /\ CommandOK(p) /\ pc \in [Procs -> Labels] /\ cmd \in [Procs -> Commands]
      /\ disk \in [Ids -> {"none", "hollow", "full"}] /\ sys \in {Torn} \cup SUBSET Ids
  BY DEF IndInv, TypeOK
<1>2. \A r \in recorded : kernel[r] \in used /\ pidFile[kernel[r]] = r
                          /\ disk[kernel[r]] = "full"
  BY DEF IndInv, RecordedFound
<1>3. pidFile[c] \in Pids \cup {None, <<>>}
  BY DEF IndInv
<1>4. ASSUME NEW fast \in BOOLEAN, Create(p, c, fast) PROVE IndInv'
  <2>1. /\ pc'[p] = "gen" /\ cmd'[p].cid = c /\ cmd'[p].shell = None
        /\ c \notin used /\ used' = used \cup {c} /\ MayRun(p, c)
        /\ disk' = [disk EXCEPT ![c] = "hollow"]
        /\ UNCHANGED <<pidFile, kernel, recorded>>
    BY <1>1, <1>4 DEF Create, Begin, NoCommand, os
  <2>2. CommandOK(p)'
    BY <1>2, <2>1 DEF CommandOK, NeedsUnoccupied, Unoccupied
  <2>3. \A q \in Procs \ {p} : ~AtRest(q) => cmd[q].cid # c
    BY <2>1 DEF MayRun
  <2>. QED  BY <1>1, <1>2, <1>3, <2>1, <2>2, <2>3, StepInv
<1>5. ASSUME Resume(p, c) \/ Destroy(p, c) PROVE IndInv'
  <2>1. /\ pc'[p] \in {"resume", "dRead"} /\ cmd'[p].cid = c /\ cmd'[p].shell = None
        /\ MayRun(p, c)
        /\ UNCHANGED <<disk, used, pidFile, kernel, recorded>>
    BY <1>1, <1>5 DEF Resume, Destroy, Begin, NoCommand, os, files
  <2>2. c \in used
    BY <1>5 DEF Resume, Destroy, Allocated
  <2>3. CommandOK(p)'
    BY <2>1, <2>2 DEF CommandOK, NeedsUnoccupied
  <2>4. \A q \in Procs \ {p} : ~AtRest(q) => cmd[q].cid # c
    BY <2>1 DEF MayRun
  <2>. QED  BY <1>1, <1>2, <1>3, <2>1, <2>3, <2>4, StepInv
<1>. QED  BY <1>4, <1>5 DEF Command

LEMMA ProcessActions ==
    ASSUME IndInv, TypeOK', NEW r \in Pids,
           ShellExits(r) \/ ForeignStarts(r) \/ ForeignEnds(r)
    PROVE  IndInv'
<1>1. /\ UNCHANGED <<disk, pidFile, used, pc, cmd>>
      /\ recorded' \subseteq recorded
      /\ \A q \in Pids \ {r} : kernel'[q] = kernel[q]
      /\ r \notin recorded'
  <2>1. kernel \in [Pids -> Ids \cup KernelStates]
    BY DEF IndInv, TypeOK
  <2>2. kernel[r] \notin Ids => r \notin recorded
    BY DEF IndInv, RecordedFound
  <2>3. CASE ShellExits(r)
    BY <2>1, <2>3 DEF ShellExits, files
  <2>4. CASE ForeignStarts(r) \/ ForeignEnds(r)
    BY <2>1, <2>2, <2>4, LifecycleAssumption DEF ForeignStarts, ForeignEnds,
       files, KernelStates
  <2>. QED  BY <2>3, <2>4
<1>2. \A q \in recorded' : q \in recorded /\ kernel'[q] = kernel[q]
  BY <1>1 DEF IndInv, TypeOK
<1>3. ASSUME NEW p \in Procs, cmd[p].shell = r PROVE kernel'[r] = "zombie"
  <2>1. kernel \in [Pids -> Ids \cup KernelStates] /\ r # None
    BY PidsAssumption DEF IndInv, TypeOK
  <2>2. kernel[r] \in {cmd[p].cid, "zombie"}
    BY <1>3, <2>1 DEF IndInv, CommandOK
  <2>3. cmd[p].cid \in Ids
    BY <1>3, <2>1 DEF IndInv, CommandOK, TypeOK, NoCommand
  <2>4. ShellExits(r)
    BY <2>2, <2>3, LifecycleAssumption DEF ForeignStarts, ForeignEnds, KernelStates
  <2>. QED  BY <1>3, <2>1, <2>4 DEF ShellExits
<1>4. ASSUME NEW p \in Procs PROVE CommandOK(p)'
  <2>1. CommandOK(p) /\ cmd[p] \in Commands
    BY DEF IndInv, TypeOK
  <2>2. \A d : Unoccupied(d) => Unoccupied(d)'
    BY <1>2 DEF Unoccupied
  <2>3. cmd[p].shell # None => kernel'[cmd[p].shell] \in {cmd[p].cid, "zombie"}
    BY <1>1, <1>3, <2>1 DEF CommandOK, Commands
  <2>. QED  BY <1>1, <2>1, <2>2, <2>3 DEF CommandOK, NeedsUnoccupied
<1>5. RecordedFound' /\ \A q \in recorded' : kernel'[q] \in used'
  BY <1>1, <1>2 DEF IndInv, RecordedFound
<1>6. \A p, q \in Procs : p # q => Apart(p, q)'
  BY <1>1 DEF IndInv, Apart, AtRest
<1>. QED  BY <1>1, <1>4, <1>5, <1>6 DEF IndInv

(* The inductive invariant of the next two theorems.                       *)
FullInv == TypeInv /\ Allocated /\ IndInv

LEMMA FullInvInit == Init => FullInv
<1>. SUFFICES ASSUME Init PROVE FullInv
  OBVIOUS
<1>1. TypeInv
  BY TypeInvInit
<1>2. Allocated
  BY DEF Init, Allocated, NoCommand
<1>3. IndInv
  <2>1. TypeOK /\ RecordedFound
    BY InitType DEF Init, RecordedFound
  <2>2. \A p \in Procs : CommandOK(p)
    BY DEF Init, CommandOK, NeedsUnoccupied, NoCommand
  <2>3. \A p, q \in Procs : p # q => Apart(p, q)
    BY DEF Init, Apart, AtRest, NoCommand
  <2>. QED  BY <2>1, <2>2, <2>3 DEF Init, IndInv
<1>. QED  BY <1>1, <1>2, <1>3 DEF FullInv

LEMMA FullInvNext ==
    ASSUME SameWidth, Discipline # "none"
    PROVE  FullInv /\ [Next]_vars => FullInv'
<1>. SUFFICES ASSUME FullInv, [Next]_vars PROVE IndInv'
  BY TypeInvNext, AllocatedNext DEF FullInv
<1>1. TypeInv /\ TypeOK' /\ Allocated /\ IndInv
  BY TypeInvNext DEF FullInv, TypeInv
<1>2. \A p \in Procs : Knows(p) /\ TypeOK
  BY <1>1 DEF TypeInv
<1>3. ASSUME NEW p \in Procs, Work(p) PROVE IndInv'
  <2>1. Others(p)
    BY <1>2, <1>3, WorkKnows
  <2>2. CASE ~AtRest(p)
    BY <1>1, <1>2, <1>3, <2>1, <2>2, LocalActions, LeaveActions, RootActions,
       ShellActions DEF Work
  <2>3. CASE AtRest(p)
    <3>1. WaitReturns(p)
      BY <1>3, <2>3 DEF Work, AtRest, GenerateDone, GenerateFails,
         ResumeCheck, RunLoad, SetupDone, SetupFails, AppendRead,
         AppendTruncate, AppendWrite, StartShell, ShellFails, RecordCheck,
         OpenPid, WritePid, DeferTruncate, DeferWrite, RunEnds, DestroyRead,
         DestroyCheck, DestroyRootPart, DestroyRoot, DestroyRootFails,
         DestroySync, DestroyTruncate, DestroyWrite
    <3>. QED  BY <1>1, <1>2, <2>1, <3>1, ShellActions
  <2>. QED  BY <2>2, <2>3
<1>4. ASSUME NEW p \in Procs, NEW c \in Ids, Command(p, c) PROVE IndInv'
  BY <1>1, <1>2, <1>4, CommandKnows, CommandActions
<1>5. ASSUME NEW p \in Procs, Crash(p) \/ WriteFails(p) PROVE IndInv'
  BY <1>1, <1>2, <1>5, CrashKnows, LeaveActions, WriteFailsInd
<1>6. ASSUME NEW r \in Pids, ShellExits(r) \/ ForeignStarts(r) \/ ForeignEnds(r)
      PROVE  IndInv'
  BY <1>1, <1>6, ProcessActions
<1>7. ASSUME UNCHANGED vars PROVE IndInv'
  BY <1>1, <1>7 DEF vars, files, os, IndInv, RecordedFound, CommandOK,
     NeedsUnoccupied, Unoccupied, Apart, AtRest
<1>. QED  BY <1>3, <1>4, <1>5, <1>6, <1>7 DEF Next, Environment

(* RecordedFound for any number of containers, commands and pids: when the *)
(* pids have equal widths and no two commands work on one container at the *)
(* same time, every recorded shell is the one container.pid names and its  *)
(* root folder is whole, in every interleaving and after any crash.        *)
THEOREM RecordedShellsFound ==
    ASSUME SameWidth, Discipline # "none"
    PROVE  Spec => []RecordedFound
<1>1. Spec => []FullInv
  BY FullInvInit, FullInvNext, PTL DEF Spec
<1>2. FullInv => RecordedFound
  BY DEF FullInv, IndInv
<1>. QED  BY <1>1, <1>2, PTL

-----------------------------------------------------------------------------
(* The commands refine ContainerPromise: under the mapping of Promise each *)
(* step makes a container, starts, stops or removes one, or stutters.      *)

(* A container has at most one recorded shell, and Running names it.       *)
RunningNames ==
    \A c \in Ids :
        /\ Running(c) = None \/ Running(c) \in Pids
        /\ \A r \in Pids : Running(c) = r <=> r \in recorded /\ kernel[r] = c
        /\ Unoccupied(c) <=> Running(c) = None

LEMMA RunningIs == FullInv => RunningNames
<1>. SUFFICES ASSUME FullInv, NEW c \in Ids
              PROVE  /\ Running(c) = None \/ Running(c) \in Pids
                     /\ \A r \in Pids :
                           Running(c) = r <=> r \in recorded /\ kernel[r] = c
                     /\ Unoccupied(c) <=> Running(c) = None
  BY DEF RunningNames
<1>. DEFINE mine == {r \in recorded : kernel[r] = c}
<1>1. None \notin Pids /\ recorded \subseteq Pids /\ RecordedFound
  BY PidsAssumption DEF FullInv, IndInv, TypeOK
<1>2. \A q, r \in mine : q = r
  BY <1>1 DEF RecordedFound
<1>3. CASE mine = {}
  <2>1. Running(c) = None
    BY <1>3 DEF Running, Shell
  <2>. QED  BY <1>1, <1>3, <2>1 DEF Unoccupied
<1>4. CASE mine # {}
  <2>1. Running(c) = CHOOSE r \in mine : TRUE
    BY <1>4 DEF Running, Shell
  <2>2. Running(c) \in mine
    BY <1>4, <2>1
  <2>3. \A r \in Pids : Running(c) = r <=> r \in mine
    BY <1>2, <2>2
  <2>. QED  BY <1>1, <2>2, <2>3 DEF Unoccupied
<1>. QED  BY <1>3, <1>4

LEMMA RunningIsNext == FullInv' => RunningNames'
BY RunningIs, PTL

LEMMA SameRunning ==
    ASSUME recorded' = recorded, \A r \in recorded : kernel'[r] = kernel[r]
    PROVE  [c \in Ids |-> Running(c)]' = [c \in Ids |-> Running(c)]
<1>1. ASSUME NEW c \in Ids PROVE Running(c)' = Running(c)
  <2>1. {r \in recorded' : kernel'[r] = c} = {r \in recorded : kernel[r] = c}
    OBVIOUS
  <2>. QED  BY <2>1 DEF Running
<1>. QED  BY <1>1

Roots == {c \in Ids : disk[c] # "none"}

(* The root of c comes and goes with no shell in it, the shells stay.      *)
LEMMA RootStep ==
    ASSUME FullInv, NEW c \in Ids,
           recorded' = recorded, \A r \in recorded : kernel'[r] = kernel[r],
           \A d \in Ids \ {c} : disk'[d] = disk[d],
           disk'[c] # "none" \/ disk[c] = "none" \/ Unoccupied(c)
    PROVE  [Promise!Next]_(Promise!vars)
<1>1. [d \in Ids |-> Running(d)]' = [d \in Ids |-> Running(d)]
  BY SameRunning
<1>2. CASE disk[c] = "none" /\ disk'[c] # "none"
  <2>1. c \notin Roots /\ Roots' = Roots \cup {c}
    BY <1>2 DEF Roots
  <2>. QED  BY <1>1, <2>1 DEF Promise!Next, Promise!Make, Roots
<1>3. CASE disk[c] # "none" /\ disk'[c] = "none"
  <2>1. c \in Roots /\ Roots' = Roots \ {c}
    BY <1>3 DEF Roots
  <2>2. Running(c) = None
    BY <1>3, RunningIs DEF RunningNames
  <2>. QED  BY <1>1, <2>1, <2>2 DEF Promise!Next, Promise!Remove, Roots
<1>4. CASE (disk[c] = "none") <=> (disk'[c] = "none")
  <2>1. Roots' = Roots
    BY <1>4 DEF Roots
  <2>. QED  BY <1>1, <2>1 DEF Promise!vars, Roots
<1>. QED  BY <1>2, <1>3, <1>4

LEMMA RecordStep ==
    ASSUME FullInv, FullInv', NEW p \in Procs, pc[p] \in {"record", "write"},
           Record(p), UNCHANGED disk,
           NEW c \in Ids, NEW r \in Pids, c = cmd[p].cid, r = cmd[p].shell
    PROVE  [Promise!Next]_(Promise!vars)
<1>1. /\ recorded' = IF kernel[r] = c THEN recorded \cup {r} ELSE recorded
      /\ kernel' = kernel
  BY DEF Record
<1>2. disk[c] = "full" /\ Unoccupied(c)
  BY DEF FullInv, TypeInv, Knows, IndInv, CommandOK, NeedsUnoccupied
<1>3. CASE kernel[r] # c
  BY <1>1, <1>2, <1>3, RootStep
<1>4. CASE kernel[r] = c
  <2>1. Roots' = Roots /\ c \in Roots
    BY <1>2 DEF Roots
  <2>2. /\ \A d \in Ids : \A q \in Pids :
              Running(d) = q <=> q \in recorded /\ kernel[q] = d
        /\ \A d \in Ids : Running(d) = None \/ Running(d) \in Pids
        /\ Running(c) = None
    BY <1>2, RunningIs DEF RunningNames
  <2>3. ASSUME NEW d \in Ids PROVE Running(d) # r
    BY <1>2, <1>4, <2>2 DEF Unoccupied
  <2>4. \A d \in Ids : \A q \in Pids :
           Running(d)' = q <=> q \in recorded' /\ kernel'[q] = d
    BY RunningIsNext DEF RunningNames
  <2>5. \A d \in Ids : Running(d)' = None \/ Running(d)' \in Pids
    BY RunningIsNext DEF RunningNames
  <2>6. Running(c)' = r
    BY <1>1, <1>2, <1>4, <2>4
  <2>7. ASSUME NEW d \in Ids, d # c PROVE Running(d)' = Running(d)
    BY <1>1, <1>4, <2>2, <2>4, <2>5, <2>7
  <2>8. [d \in Ids |-> Running(d)]' = [[d \in Ids |-> Running(d)] EXCEPT ![c] = r]
    BY <1>2, <2>6, <2>7
  <2>. QED
    <3>1. Promise!Start(c, r)
      BY <1>2, <2>1, <2>2, <2>3, <2>8 DEF Promise!Start, Roots
    <3>. QED  BY <3>1 DEF Promise!Next
<1>. QED  BY <1>3, <1>4

LEMMA ExitStep ==
    ASSUME FullInv, FullInv', NEW r \in Pids, ShellExits(r),
           NEW c \in Ids, c = kernel[r]
    PROVE  [Promise!Next]_(Promise!vars)
<1>1. /\ c \in Ids /\ recorded' = recorded \ {r} /\ disk' = disk
      /\ \A q \in recorded' : kernel'[q] = kernel[q]
      /\ recorded \subseteq Pids
  BY DEF ShellExits, files, FullInv, IndInv, TypeOK
<1>2. CASE r \notin recorded
  BY <1>1, <1>2, RootStep
<1>3. CASE r \in recorded
  <2>1. Roots' = Roots
    BY <1>1 DEF Roots
  <2>2. /\ \A d \in Ids : \A q \in Pids :
              Running(d) = q <=> q \in recorded /\ kernel[q] = d
        /\ \A d \in Ids : Running(d) = None \/ Running(d) \in Pids
    BY RunningIs DEF RunningNames
  <2>3. /\ \A d \in Ids : \A q \in Pids :
              Running(d)' = q <=> q \in recorded' /\ kernel'[q] = d
        /\ \A d \in Ids : Running(d)' = None \/ Running(d)' \in Pids
    BY RunningIsNext DEF RunningNames
  <2>4. Running(c) = r
    BY <1>1, <1>3, <2>2
  <2>5. Running(c)' = None
    BY <1>1, <2>2, <2>3, <2>4
  <2>6. ASSUME NEW d \in Ids, d # c PROVE Running(d)' = Running(d)
    BY <1>1, <2>2, <2>3, <2>6
  <2>7. [d \in Ids |-> Running(d)]' = [[d \in Ids |-> Running(d)] EXCEPT ![c] = None]
    BY <1>1, <2>5, <2>6
  <2>8. r # None
    BY PidsAssumption
  <2>. QED
    BY <1>1, <2>1, <2>4, <2>7, <2>8 DEF Promise!Next, Promise!Stop
<1>. QED  BY <1>2, <1>3

LEMMA PromiseInit == Init => Promise!Init
<1>. SUFFICES ASSUME Init PROVE Promise!Init
  OBVIOUS
<1>1. \A c \in Ids : Running(c) = None
  BY DEF Init, Running, Shell
<1>2. {c \in Ids : disk[c] # "none"} = {}
  BY DEF Init
<1>. QED  BY <1>1, <1>2 DEF Promise!Init

LEMMA PromiseWork ==
    ASSUME FullInv, FullInv', NEW p \in Procs,
           Work(p) \/ Crash(p) \/ WriteFails(p)
    PROVE  [Promise!Next]_(Promise!vars)
<1>. DEFINE Keeps == recorded' = recorded /\ \A r \in recorded : kernel'[r] = kernel[r]
            Same == \A d \in Ids : disk'[d] = disk[d]
<1>1. /\ Knows(p) /\ CommandOK(p) /\ pc \in [Procs -> Labels]
      /\ cmd \in [Procs -> Commands] /\ disk \in [Ids -> {"none", "hollow", "full"}]
      /\ kernel \in [Pids -> Ids \cup KernelStates] /\ recorded \subseteq Pids
  BY DEF FullInv, TypeInv, IndInv, TypeOK
<1>2. \A r \in recorded : kernel[r] \notin {"free", "foreign", "zombie"}
  BY LifecycleAssumption DEF FullInv, IndInv, RecordedFound, KernelStates
<1>3. pc[p] # "idle"
  BY DEF Work, Crash, WriteFails, GenerateDone, GenerateFails, ResumeCheck, RunLoad,
     SetupDone, SetupFails, AppendRead, AppendTruncate, AppendWrite,
     StartShell, ShellFails, RecordCheck, OpenPid, WritePid, WaitReturns,
     DeferTruncate, DeferWrite, RunEnds, DestroyRead, DestroyCheck,
     DestroyRootPart, DestroyRoot, DestroyRootFails, DestroySync,
     DestroyTruncate, DestroyWrite
<1>4. PICK c \in Ids : c = cmd[p].cid
  BY <1>1, <1>3 DEF Knows
<1>5. ASSUME Leave(p) PROVE Keeps
  BY <1>1, <1>2, <1>5 DEF Leave
\* The steps that touch neither a root nor a shell that runs.
<1>6. ASSUME Keeps, Same PROVE [Promise!Next]_(Promise!vars)
  BY <1>4, <1>6, RootStep
<1>7. ASSUME \/ ResumeCheck(p) \/ SetupDone(p) \/ SetupFails(p)
             \/ AppendRead(p) \/ AppendTruncate(p) \/ AppendWrite(p)
             \/ ShellFails(p) \/ OpenPid(p) \/ DeferTruncate(p)
             \/ DeferWrite(p) \/ RunEnds(p) \/ DestroyRead(p) \/ DestroyCheck(p)
             \/ DestroyRootFails(p) \/ DestroySync(p) \/ DestroyTruncate(p)
             \/ DestroyWrite(p) \/ Crash(p) \/ WriteFails(p)
      PROVE  Keeps /\ Same
  BY <1>5, <1>7 DEF ResumeCheck, SetupDone, SetupFails, AppendRead,
     AppendTruncate, AppendWrite, ShellFails, OpenPid, DeferTruncate,
     DeferWrite, RunEnds, DestroyRead, DestroyCheck, DestroyRootFails,
     DestroySync, DestroyTruncate, DestroyWrite, Crash, WriteFails, Finish,
     files, os
<1>8. ASSUME (\E r \in Pids : StartShell(p, r)) \/ WaitReturns(p) PROVE Keeps /\ Same
  BY <1>1, <1>2, <1>8 DEF StartShell, WaitReturns, files
\* The steps that touch the root folder of c.
<1>9. ASSUME \/ GenerateDone(p) \/ GenerateFails(p) \/ RunLoad(p)
             \/ DestroyRootPart(p) \/ DestroyRoot(p)
      PROVE  [Promise!Next]_(Promise!vars)
  <2>1. /\ Keeps
        /\ \A d \in Ids \ {c} : disk'[d] = disk[d]
        /\ disk'[c] # "none" \/ disk[c] = "none" \/ pc[p] = "dRoot"
    BY <1>1, <1>4, <1>5, <1>9 DEF GenerateDone, GenerateFails, RunLoad,
       DestroyRootPart, DestroyRoot, os
  <2>2. pc[p] = "dRoot" => Unoccupied(c)
    BY <1>1, <1>4 DEF CommandOK, NeedsUnoccupied
  <2>. QED  BY <1>4, <2>1, <2>2, RootStep
<1>10. ASSUME RecordCheck(p) \/ WritePid(p) PROVE [Promise!Next]_(Promise!vars)
  <2>1. pc[p] \in {"record", "write"} /\ UNCHANGED disk
    BY <1>10 DEF RecordCheck, WritePid, files
  <2>2. CASE Record(p)
    <3>1. PICK r \in Pids : r = cmd[p].shell
      BY <1>1, <2>1 DEF Knows
    <3>. QED  BY <1>4, <2>1, <2>2, <3>1, RecordStep
  <2>3. CASE ~Record(p)
    <3>1. Keeps
      BY <1>10, <2>3 DEF RecordCheck, WritePid, os
    <3>. QED  BY <1>6, <2>1, <3>1
  <2>. QED  BY <2>2, <2>3
<1>. QED  BY <1>6, <1>7, <1>8, <1>9, <1>10 DEF Work

LEMMA PromiseStep ==
    ASSUME SameWidth, Discipline # "none"
    PROVE  FullInv /\ FullInv' /\ [Next]_vars => [Promise!Next]_(Promise!vars)
<1>. SUFFICES ASSUME FullInv, FullInv', [Next]_vars
              PROVE  [Promise!Next]_(Promise!vars)
  OBVIOUS
<1>1. /\ recorded \subseteq Pids /\ disk \in [Ids -> {"none", "hollow", "full"}]
      /\ kernel \in [Pids -> Ids \cup KernelStates]
      /\ \A r \in recorded : kernel[r] \notin {"free", "foreign", "zombie"}
  BY LifecycleAssumption DEF FullInv, IndInv, TypeOK, RecordedFound, KernelStates
<1>2. ASSUME NEW p \in Procs, Work(p) \/ Crash(p) \/ WriteFails(p)
      PROVE  [Promise!Next]_(Promise!vars)
  BY <1>2, PromiseWork
<1>3. ASSUME NEW p \in Procs, NEW c \in Ids, Command(p, c)
      PROVE  [Promise!Next]_(Promise!vars)
  <2>1. /\ recorded' = recorded /\ kernel' = kernel
        /\ \A d \in Ids \ {c} : disk'[d] = disk[d]
        /\ disk'[c] # "none" \/ disk'[c] = disk[c]
    BY <1>1, <1>3 DEF Command, Create, Resume, Destroy, files, os
  <2>. QED  BY <2>1, RootStep
<1>4. ASSUME NEW r \in Pids, ShellExits(r) PROVE [Promise!Next]_(Promise!vars)
  <2>1. PICK c \in Ids : c = kernel[r]
    BY <1>4 DEF ShellExits
  <2>. QED  BY <1>4, <2>1, ExitStep
<1>5. ASSUME UNCHANGED <<disk, recorded>>, \A q \in recorded : kernel'[q] = kernel[q]
      PROVE  [Promise!Next]_(Promise!vars)
  <2>1. [c \in Ids |-> Running(c)]' = [c \in Ids |-> Running(c)]
    BY <1>5, SameRunning
  <2>. QED  BY <1>5, <2>1 DEF Promise!vars
<1>6. ASSUME NEW r \in Pids, ForeignStarts(r) \/ ForeignEnds(r)
      PROVE  [Promise!Next]_(Promise!vars)
  <2>1. UNCHANGED <<disk, recorded>> /\ \A q \in recorded : kernel'[q] = kernel[q]
    BY <1>1, <1>6 DEF ForeignStarts, ForeignEnds, files
  <2>. QED  BY <1>5, <2>1
<1>7. ASSUME UNCHANGED vars PROVE [Promise!Next]_(Promise!vars)
  BY <1>5, <1>7 DEF vars, files, os
<1>. QED  BY <1>2, <1>3, <1>4, <1>6, <1>7 DEF Next, Environment

(* The commands implement ContainerPromise for any number of containers,   *)
(* commands and pids, under the same two conditions: no second recorded    *)
(* shell in a container, no root folder removed from under one.            *)
THEOREM CommandsKeepPromise ==
    ASSUME SameWidth, Discipline # "none"
    PROVE  Spec => PromiseKept
<1>1. Spec => []FullInv
  BY FullInvInit, FullInvNext, PTL DEF Spec
<1>. QED
  BY <1>1, PromiseInit, PromiseStep, PTL DEF Spec, PromiseKept, Promise!Spec
=============================================================================
