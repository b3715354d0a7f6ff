---------------------------- MODULE MCFileCache ----------------------------
(* FileCache on small instances, with a record of what the user was told.  *)
EXTENDS FileCache, TLC

CONSTANTS k1, k2, a, b, Unknown

Single(K, V) == {<<[key |-> k, val |-> v]>> : k \in K, v \in V}

PlainSet == {<<<<a>>>>, <<<<b>>>>}

\* set: one entry; Run: the two entries of an executables map.
PlainLoads ==
    Single(Keys, PlainSet)
      \cup {l \o m : l, m \in Single(Keys, PlainSet)}

-----------------------------------------------------------------------------
VARIABLES
    told,    \* told[k]: the value that k was last set to, Nothing after its
             \* deletion, Unknown if commands overlapped, failed or died
    mixed    \* have commands overlapped since all were idle

Active == {p \in Procs : pc[p] # "idle"}

Told(p) ==
    IF cmd[p].op = "set"
    THEN [told EXCEPT ![cmd[p].todo[1].key] = cmd[p].todo[1].val]
    ELSE [told EXCEPT ![cmd[p].key] = IF cmd[p].op = "delete" THEN <<>> ELSE @]

MCInit == Init /\ told = [k \in Keys |-> <<>>] /\ mixed = FALSE

Forget == told' = [k \in Keys |-> Unknown]

\* A set, a delete or a get has come to its end.
Ends(p) == Create(p) \/ Read(p) \/ Write(p)

MCNext ==
    /\ \E p \in Procs :
          \/ Begin(p) /\ (IF Active = {} THEN UNCHANGED told ELSE Forget)
          \/ (Look(p) \/ Truncate(p)) /\ UNCHANGED told
          \/ /\ Ends(p)
             /\ IF mixed THEN Forget
                ELSE told' = IF pc'[p] \in {"idle", "look"} THEN Told(p)
                             ELSE told
          \/ (Fails(p) \/ Kill(p)) /\ Forget
    /\ WritesApart'
    /\ mixed' = (\/ \E p, q \in Active' : p # q
                 \/ mixed /\ Active' # {})

MCSpec == MCInit /\ [][MCNext]_<<vars, told, mixed>>

\* While no command is at work, get shows the value that the user has set, all
\* of it, and nothing for a key that was deleted or never set.
GetShowsSet ==
    Active = {} => \A k \in Keys :
        told[k] # Unknown =>
            told[k] = IF file = Missing \/ Shown(file, k) = Nothing THEN <<>>
                      ELSE <<<<Shown(file, k)>>>>

Symmetry == Permutations(Procs) \cup Permutations(Keys) \cup Permutations(Pieces)
=============================================================================
