-------------------------- MODULE ContainerPromise --------------------------
(***************************************************************************)
(* What the commands create, resume, fastrun and destroy promise of the    *)
(* containers, with no file, no process and no registry in sight: a        *)
(* container has a root, at most one shell runs in it, it is resumed only  *)
(* when none runs ("... is running with pid ..., can't resume") and        *)
(* destroyed only when none runs ("... can't destroy").                    *)
(***************************************************************************)
CONSTANTS Ids, Pids, None

VARIABLES
    roots,    \* the containers whose root folder exists
    running   \* running[c]: the shell of c, or None

vars == <<roots, running>>

Init ==
    /\ roots = {}
    /\ running = [c \in Ids |-> None]

Make(c) ==
    /\ c \notin roots
    /\ roots' = roots \cup {c}
    /\ UNCHANGED running

Start(c, r) ==
    /\ c \in roots
    /\ running[c] = None
    /\ \A d \in Ids : running[d] # r
    /\ running' = [running EXCEPT ![c] = r]
    /\ UNCHANGED roots

Stop(c) ==
    /\ running[c] # None
    /\ running' = [running EXCEPT ![c] = None]
    /\ UNCHANGED roots

Remove(c) ==
    /\ c \in roots
    /\ running[c] = None
    /\ roots' = roots \ {c}
    /\ UNCHANGED running

Next ==
    \E c \in Ids :
        \/ Make(c)
        \/ \E r \in Pids : Start(c, r)
        \/ Stop(c)
        \/ Remove(c)

Spec == Init /\ [][Next]_vars
=============================================================================
