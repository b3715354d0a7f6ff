--------------------------- MODULE MCLifecycleUse ---------------------------
(* Lifecycle with a record of how its commands have been used: one run     *)
(* checks what holds in every use beside what holds only in a calmer one.  *)
EXTENDS MCLifecycle

-----------------------------------------------------------------------------
(* How the commands have been used so far.                                 *)
(*   "plain"      a command starts only while every other one waits for    *)
(*                its shell, the use of one person in several terminals    *)
(*   "disturbed"  the same, but a command was killed, a write has failed   *)
(*                or another process took a pid that container.pid may     *)
(*                still name                                               *)
(*   "overlapped" two commands have worked at the same time                *)
(*   "broken"     they have, and one was killed                            *)
VARIABLE use

(* The containers that a destroy has unregistered though it could not      *)
(* remove their root or their sync folder.                                 *)
VARIABLE stuck

MCInit == Init /\ use = "plain" /\ stuck = {}

Overlap == \E p, q \in Procs : p # q /\ ~AtRest(p) /\ ~AtRest(q)

Disturbed ==
    use' = IF use \in {"plain", "disturbed"} THEN "disturbed" ELSE "broken"

Continued ==
    use' = IF ~Overlap' THEN use
           ELSE IF use \in {"plain", "overlapped"} THEN "overlapped" ELSE "broken"

Noted ==
    stuck' = stuck \cup
        {c \in Ids : \E p \in Procs :
            /\ cmd[p].cid = c
            /\ \/ pc[p] = "dRoot" /\ pc'[p] = "dSync" /\ disk'[c] # "none"
               \/ pc[p] = "dSync" /\ pc'[p] = "dTrunc" /\ c \in sync'}

MCNext ==
    \/ (\E p \in Procs : Work(p)) /\ Continued /\ Noted
    \/ (\E p \in Procs, c \in Ids : Command(p, c))
          /\ Continued /\ UNCHANGED stuck
    \/ (\E p \in Procs : Crash(p) \/ WriteFails(p))
          /\ Disturbed /\ UNCHANGED stuck
    \/ (\E r \in Pids : ForeignStarts(r)) /\ Disturbed /\ UNCHANGED stuck
    \/ (\E r \in Pids : ShellExits(r) \/ ForeignEnds(r))
          /\ UNCHANGED <<use, stuck>>

MCSpec == MCInit /\ [][MCNext]_<<vars, use, stuck>>

(* The bounds of the instance: commands that have been disturbed do not    *)
(* overlap afterwards, once commands have overlapped no other process      *)
(* takes a pid, and once one of those was killed too the others run to     *)
(* their end and no new one is started.                                    *)
ForeignersOnlyApart ==
    (\E r \in Pids : kernel[r] = "foreign") => use \in {"plain", "disturbed"}

DisturbedStayApart == ~(use = "disturbed" /\ Overlap')

FailuresOnlyApart ==
    /\ stuck' # {} => use' = "plain"
    /\ use = "overlapped" /\ use' = "broken" =>
          \E p \in Procs : pc[p] # "idle" /\ pc'[p] = "idle"

BrokenRunOut ==
    use = "broken" => \A p \in Procs : pc[p] = "idle" => pc'[p] = "idle"

(* RunningRegistered and HalfDestroyedListed hold as long as commands do   *)
(* not overlap: two that do read the registry both and write it both, and  *)
(* one registration is lost (appendToSys, Destroy's defer).                *)
RunningRegisteredApart == use \in {"plain", "disturbed"} => RunningRegistered

HalfDestroyedListedApart ==
    use \in {"plain", "disturbed"} => HalfDestroyedListed(stuck)

(* RegisteredWhole, ContainersListed and FastRunEndsClean hold as long as  *)
(* nothing disturbs the commands either: a foreign process with the number *)
(* in container.pid, for one, makes fastrun's destroy refuse.              *)
RegisteredWholePlain == use = "plain" => RegisteredWhole

ContainersListedPlain == use = "plain" => ContainersListed(stuck)

FastRunLeavesNothing ==
    [][use' = "plain" => FastRunEndsClean(stuck)]_<<vars, use, stuck>>
=============================================================================
