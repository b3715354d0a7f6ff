---------------------------- MODULE KeyValueMap ----------------------------
(***************************************************************************)
(* What set, get and delete on a map of a container promise, with no file  *)
(* in sight.  A command asks for one change, and leaves the map it has     *)
(* seen with this change made.  Nobody locks the map, so the change of     *)
(* another command may be lost, and a command that dies at the wrong       *)
(* moment leaves an empty map; but what nobody asked for never happens.    *)
(***************************************************************************)
CONSTANTS
    Keys,     \* programs
    Words,    \* what they may be mapped to
    Nothing,  \* no entry
    Procs     \* commands

VARIABLES
    map,      \* the entry of each key
    asked,    \* asked[p]: the change that p is to make, or Nothing (get)
    plan      \* plan[p]: the map that p is about to leave, or Nothing

vars == <<map, asked, plan>>

Changes == [key : Keys, val : Words \cup {Nothing}]

Empty == [k \in Keys |-> Nothing]

Init ==
    /\ map = Empty
    /\ asked = [p \in Procs |-> Nothing]
    /\ plan = [p \in Procs |-> Nothing]

Ask(p) == \E c \in Changes \cup {Nothing} : asked' = [asked EXCEPT ![p] = c]

Begin(p) == plan[p] = Nothing /\ Ask(p) /\ UNCHANGED <<map, plan>>

Decide(p) ==
    /\ plan[p] = Nothing
    /\ plan' = [plan EXCEPT ![p] =
                  IF asked[p] = Nothing THEN map
                  ELSE [map EXCEPT ![asked[p].key] = asked[p].val]]
    /\ UNCHANGED <<map, asked>>

\* The map is made anew (os.Create, or the truncation before a write).
Clear(p) == plan[p] # Nothing /\ map' = Empty /\ UNCHANGED <<asked, plan>>

\* The command leaves what it has planned, nothing at all, or, if it dies or
\* has found no change to make, the map as it is.
End(p) ==
    /\ plan[p] # Nothing
    /\ map' \in {plan[p], Empty, map}
    /\ plan' = [plan EXCEPT ![p] = Nothing]
    /\ Ask(p)

Next == \E p \in Procs : Begin(p) \/ Decide(p) \/ Clear(p) \/ End(p)

Spec == Init /\ [][Next]_vars
=============================================================================
