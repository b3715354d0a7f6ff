----------------------------- MODULE MCCompose -----------------------------
(* Compose on small instances: three apps that depend on each other in     *)
(* chains, fans and cycles, every kind of image, files that are rejected.  *)
EXTENDS Compose, TLC

CONSTANTS a1, a2, a3, tagged, bare, sif, latest, l1, l2, l3, tool

MCTagged == tagged :> tagged @@ bare :> latest @@ sif :> latest
MCLatest == a1 :> l1 @@ a2 :> l2 @@ a3 :> l3

AppOf(a, image, depends, expose) ==
    [name |-> a, valid |-> TRUE, image |-> image,
     type |-> IF image = sif THEN "singularity" ELSE "docker",
     depends |-> depends, expose |-> expose]

FileOf(apps) == [valid |-> TRUE, apps |-> apps]

\* None, chains, one or two dependents, cycles of one, two and three apps.
Shapes ==
    {FileOf(<<AppOf(a1, sif, d[1], <<>>), AppOf(a2, sif, d[2], <<>>),
              AppOf(a3, sif, d[3], <<>>)>>) :
        d \in {<<>>, <<a2>>} \X {<<>>, <<a1>>, <<a3>>, <<a2>>}
                 \X {<<>>, <<a1>>, <<a1, a2>>}}

\* a1 is named five times: its counter wraps.
Wraps ==
    {FileOf(<<AppOf(a1, sif, <<>>, <<>>), AppOf(a2, sif, <<a1, a1, a1>>, <<>>),
              AppOf(a3, sif, <<a1, a1, a2>>, <<>>)>>)}

\* Images of every kind, and a program that two apps expose.
Kinds ==
    {FileOf(<<AppOf(a1, i, <<a2>>, <<tool>>), AppOf(a2, j, <<>>, <<tool>>)>>) :
        i, j \in {tagged, bare, sif}}

Rejected ==
    {[valid |-> FALSE, apps |-> <<>>],
     FileOf(<<AppOf(a1, sif, <<a2>>, <<>>)>>),
     FileOf(<<AppOf(a1, sif, <<>>, <<>>), AppOf(a1, tagged, <<>>, <<>>)>>),
     FileOf(<<[AppOf(a1, sif, <<>>, <<>>) EXCEPT !.valid = FALSE]>>)}

ListedAgain == {FileOf(<<AppOf(a1, tagged, <<>>, <<tool>>)>>)}

OrderFiles == Shapes \cup Wraps
KindFiles  == Kinds \cup Rejected \cup {FileOf(<<>>)}
AllFiles   == OrderFiles \cup KindFiles

Symmetry == Permutations(Ids)
=============================================================================
