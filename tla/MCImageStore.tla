---------------------------- MODULE MCImageStore ----------------------------
(* ImageStore on small instances: two images that share their upper layer, *)
(* or one beside a Singularity image, a name for a merged image and names   *)
(* for committed ones.                                                     *)
EXTENDS ImageStore, TLC

CONSTANTS i1, i2, s, m, w, a, b, q

MCManifest  == i1 :> <<a, b>> @@ i2 :> <<b>>
SManifest   == MCManifest @@ s :> <<q>>
FManifest   == i1 :> <<a, b>> @@ s :> <<q>>
MCMergeName == i1 :> m

(* Folders that are apart; and the folders of app/1, the image i1, and of  *)
(* app/1/merge, the image m.                                               *)
OwnFolder == [i \in Images |-> i]
OwnInside == [f \in Folders |-> {f}]
Nested    == [f \in Folders |-> IF f = i1 THEN {i1, m} ELSE {f}]

\* Both images are tags of host:port/app, and none is merged.
OneFolder == [i \in Images |-> i1]
NoMerge   == <<>>

WithoutCommit == AllKinds \ {"commit", "delete"}
WithoutDelete == AllKinds \ {"delete", "permanent"}

Symmetry == Permutations(Fresh) \cup Permutations(Ids) \cup Permutations(Procs)
=============================================================================
