--------------------------- MODULE ComposeProofs ---------------------------
(***************************************************************************)
(* Theorems about Compose, for every set of apps, compose files, images    *)
(* and containers, and every width of the counters.                        *)
(***************************************************************************)
EXTENDS Compose, FiniteSetTheorems, TLAPS

-----------------------------------------------------------------------------
(* The order of the apps.                                                  *)

(* A sequence without repetition that is as long as a set of its elements  *)
(* has them all.                                                           *)
LEMMA AllInSequence ==
    ASSUME NEW S, IsFiniteSet(S), NEW s \in SetToSeqs(S)
    PROVE  /\ s \in Seq(S)
           /\ \A a \in S : \E i \in DOMAIN s : s[i] = a
<1>. DEFINE D == 1 .. Cardinality(S)
<1>1. s \in [D -> S] /\ \A i, j \in D : i # j => s[i] # s[j]
  BY DEF SetToSeqs
<1>2. Cardinality(S) \in Nat
  BY FS_CardinalityType
<1>3. IsFiniteSet(D) /\ Cardinality(D) = Cardinality(S)
  BY <1>2, FS_Interval
<1>4. s \in Injection(D, S)
  BY <1>1 DEF Injection, IsInjective
<1>5. s \in Surjection(D, S)
  BY <1>3, <1>4, FS_Injection
<1>6. s \in Seq(S)
  BY <1>1, <1>2
<1>. QED  BY <1>1, <1>5, <1>6 DEF Surjection

LEMMA FilesType ==
    ASSUME NEW f \in Files
    PROVE  /\ f.apps \in Seq(AppLevels)
           /\ \A i \in DOMAIN f.apps :
                 /\ f.apps[i] \in AppLevels
                 /\ f.apps[i].name \in Apps
                 /\ f.apps[i].depends \in Seq(Apps)
                 /\ f.apps[i].expose \in Seq(Programs)
<1>1. f.apps \in Seq(AppLevels)
  BY ComposeAssumption DEF TopLevels
<1>2. \A i \in DOMAIN f.apps : f.apps[i] \in AppLevels
  BY <1>1
<1>3. \A app \in AppLevels : /\ app.name \in Apps
                             /\ app.depends \in Seq(Apps)
                             /\ app.expose \in Seq(Programs)
  BY DEF AppLevels
<1>. QED  BY <1>1, <1>2, <1>3

LEMMA AppType ==
    ASSUME NEW f \in Files, NEW a \in AppNames(f)
    PROVE  /\ a \in Apps
           /\ App(f, a) \in AppLevels
           /\ App(f, a).name = a
           /\ \E i \in DOMAIN f.apps : App(f, a) = f.apps[i]
<1>1. \E i \in DOMAIN f.apps : f.apps[i].name = a
  BY DEF AppNames
<1>. QED  BY <1>1, FilesType DEF App

(* Of the apps of a file that Validate accepts there is one for each name. *)
LEMMA AppUnique ==
    ASSUME NEW f \in Files, Valid(f), NEW i \in DOMAIN f.apps
    PROVE  App(f, f.apps[i].name) = f.apps[i]
BY DEF App, Valid

LEMMA DependedNames ==
    ASSUME NEW f \in Files, Valid(f)
    PROVE  /\ Depended(f) \subseteq AppNames(f)
           /\ IsFiniteSet(AppNames(f))
           /\ AppNames(f) \subseteq Apps
<1>1. Depended(f) \subseteq AppNames(f)
  BY DEF Depended, Valid
<1>2. AppNames(f) \subseteq Apps
  BY FilesType DEF AppNames
<1>. QED  BY <1>1, <1>2, ComposeAssumption, FS_Subset

LEMMA FiniteDomain ==
    ASSUME NEW S, NEW s \in Seq(S)
    PROVE  IsFiniteSet(DOMAIN s)
<1>1. DOMAIN s = 1 .. Len(s) /\ Len(s) \in Int /\ 1 \in Int
  OBVIOUS
<1>2. IsFiniteSet(1 .. Len(s))
  BY <1>1, FS_Interval
<1>. QED  BY <1>1, <1>2

(* No app has dependents but those on which some app depends.              *)
LEMMA DependentsType ==
    ASSUME NEW f \in Files, NEW a
    PROVE  /\ Dependents(f, a) \in Nat
           /\ Dependents(f, a) > 0 <=> a \in Depended(f)
<1>. DEFINE D == DOMAIN f.apps
            All == UNION {{i} \X DOMAIN f.apps[i].depends : i \in D}
            Mine == {ij \in All : f.apps[ij[1]].depends[ij[2]] = a}
<1>1. IsFiniteSet(D)
  BY FilesType, FiniteDomain
<1>2. \A i \in D : IsFiniteSet(DOMAIN f.apps[i].depends)
  BY FilesType, FiniteDomain
<1>3. \A i \in D : IsFiniteSet({i} \X DOMAIN f.apps[i].depends)
  BY <1>2, FS_Singleton, FS_Product
<1>4. IsFiniteSet({{i} \X DOMAIN f.apps[i].depends : i \in D})
  <2>. DEFINE Pairs == {{i} \X DOMAIN f.apps[i].depends : i \in D}
              g == [i \in D |-> {i} \X DOMAIN f.apps[i].depends]
  <2>1. g \in Surjection(D, Pairs)
    BY DEF Surjection
  <2>. QED  BY <1>1, <2>1, FS_Surjection
<1>5. IsFiniteSet(All)
  BY <1>3, <1>4, FS_UNION
<1>6. IsFiniteSet(Mine)
  BY <1>5, FS_Subset
<1>7. Dependents(f, a) = Cardinality(Mine)
  BY DEF Dependents
<1>8. Cardinality(Mine) \in Nat /\ (Cardinality(Mine) = 0 <=> Mine = {})
  BY <1>6, FS_CardinalityType, FS_EmptySet
<1>9. Mine # {} <=> a \in Depended(f)
  <2>1. ASSUME NEW ij \in Mine
        PROVE  a \in Depended(f)
    BY <2>1 DEF Depended, ToSet
  <2>2. ASSUME a \in Depended(f)
        PROVE  Mine # {}
    <3>1. PICK i \in D : a \in ToSet(f.apps[i].depends)
      BY <2>2 DEF Depended
    <3>2. PICK j \in DOMAIN f.apps[i].depends : f.apps[i].depends[j] = a
      BY <3>1 DEF ToSet
    <3>3. <<i, j>> \in {i} \X DOMAIN f.apps[i].depends
      OBVIOUS
    <3>4. <<i, j>> \in All
      BY <3>3
    <3>5. <<i, j>> \in Mine
      BY <3>2, <3>4
    <3>. QED  BY <3>5
  <2>. QED  BY <2>1, <2>2
<1>. HIDE DEF Mine
<1>. QED  BY <1>7, <1>8, <1>9

LEMMA SmallModulo ==
    ASSUME NEW x \in Nat, NEW y \in Nat, x < y
    PROVE  x % y = x
OBVIOUS

(* The counter of an app whose dependents do not reach the limit is their  *)
(* number.                                                                 *)
LEMMA CounterExact ==
    ASSUME NEW f \in Files, NEW a, Dependents(f, a) < Limit
    PROVE  Counter(f, a) = Dependents(f, a)
<1>. DEFINE d == Dependents(f, a)
<1>1. d \in Nat /\ Limit \in Nat /\ d + Limit < 2 * Limit
  BY DependentsType, ComposeAssumption
<1>2. (d + Limit) % (2 * Limit) = d + Limit
  <2>. HIDE DEF d
  <2>1. d + Limit \in Nat /\ 2 * Limit \in Nat
    BY <1>1
  <2>. QED  BY <1>1, <2>1, SmallModulo
<1>. QED  BY <1>1, <1>2 DEF Counter

(* An order is that of the apps on which some app depends, by their        *)
(* counters, and then the others.                                          *)
LEMMA OrderParts ==
    ASSUME NEW f \in Files, Valid(f), NEW o \in Orders(f)
    PROVE  \E needed \in Seq(Depended(f)),
              leaves \in Seq(AppNames(f) \ Depended(f)) :
              /\ o = needed \o leaves
              /\ \A i, j \in DOMAIN needed :
                    i < j => Before(f, needed[i], needed[j])
              /\ \A a \in Depended(f) : \E i \in DOMAIN needed : needed[i] = a
              /\ \A a \in AppNames(f) \ Depended(f) :
                    \E i \in DOMAIN leaves : leaves[i] = a
<1>1. PICK needed \in SetToSeqs(Depended(f)),
           leaves \in SetToSeqs(AppNames(f) \ Depended(f)) :
              /\ o = needed \o leaves
              /\ \A i, j \in DOMAIN needed :
                    i < j => Before(f, needed[i], needed[j])
  BY DEF Orders, Sorted
<1>2. IsFiniteSet(Depended(f)) /\ IsFiniteSet(AppNames(f) \ Depended(f))
  BY DependedNames, FS_Subset
<1>3. /\ needed \in Seq(Depended(f))
      /\ \A a \in Depended(f) : \E i \in DOMAIN needed : needed[i] = a
  BY <1>2, AllInSequence
<1>4. /\ leaves \in Seq(AppNames(f) \ Depended(f))
      /\ \A a \in AppNames(f) \ Depended(f) :
            \E i \in DOMAIN leaves : leaves[i] = a
  BY <1>2, AllInSequence
<1>. QED  BY <1>1, <1>3, <1>4

LEMMA OrderComplete ==
    ASSUME NEW f \in Files, Valid(f), NEW o \in Orders(f)
    PROVE  /\ o \in Seq(AppNames(f))
           /\ \A a \in AppNames(f) : \E i \in DOMAIN o : o[i] = a
<1>1. PICK needed \in Seq(Depended(f)),
           leaves \in Seq(AppNames(f) \ Depended(f)) :
              /\ o = needed \o leaves
              /\ \A i, j \in DOMAIN needed :
                    i < j => Before(f, needed[i], needed[j])
              /\ \A a \in Depended(f) : \E i \in DOMAIN needed : needed[i] = a
              /\ \A a \in AppNames(f) \ Depended(f) :
                    \E i \in DOMAIN leaves : leaves[i] = a
  BY OrderParts
<1>2. needed \in Seq(AppNames(f)) /\ leaves \in Seq(AppNames(f))
  <2>1. Depended(f) \subseteq AppNames(f)
    BY DependedNames
  <2>2. \A s \in Seq(Depended(f)) : s \in Seq(AppNames(f))
    BY <2>1
  <2>3. \A s \in Seq(AppNames(f) \ Depended(f)) : s \in Seq(AppNames(f))
    OBVIOUS
  <2>. QED  BY <2>2, <2>3
<1>3. o \in Seq(AppNames(f))
  BY <1>1, <1>2
<1>4. ASSUME NEW a \in Depended(f)
      PROVE  \E i \in DOMAIN o : o[i] = a
  <2>1. PICK i \in DOMAIN needed : needed[i] = a
    BY <1>1
  <2>2. i \in DOMAIN o /\ o[i] = needed[i]
    BY <1>1, <1>2
  <2>. QED  BY <2>1, <2>2
<1>5. ASSUME NEW a \in AppNames(f) \ Depended(f)
      PROVE  \E i \in DOMAIN o : o[i] = a
  <2>1. PICK i \in DOMAIN leaves : leaves[i] = a
    BY <1>1
  <2>2. o = needed \o leaves
    BY <1>1
  <2>3. /\ Len(needed) + i \in DOMAIN o
        /\ o[Len(needed) + i] = leaves[i]
    BY <1>2, <2>2
  <2>. QED  BY <2>1, <2>3
<1>. QED  BY <1>3, <1>4, <1>5

(* Before an app that is not needed come all that are, and before one that *)
(* is come those whose counter is greater.                                 *)
LEMMA OrderPrecedes ==
    ASSUME NEW f \in Files, Valid(f), NEW o \in Orders(f),
           NEW k0 \in DOMAIN o, NEW b \in Depended(f),
           o[k0] \notin Depended(f) \/ Counter(f, o[k0]) < Counter(f, b)
    PROVE  \E j \in DOMAIN o : j < k0 /\ o[j] = b
<1>1. PICK needed \in Seq(Depended(f)),
           leaves \in Seq(AppNames(f) \ Depended(f)) :
              /\ o = needed \o leaves
              /\ \A i, j \in DOMAIN needed :
                    i < j => Before(f, needed[i], needed[j])
              /\ \A a \in Depended(f) : \E i \in DOMAIN needed : needed[i] = a
              /\ \A a \in AppNames(f) \ Depended(f) :
                    \E i \in DOMAIN leaves : leaves[i] = a
  BY OrderParts
<1>2. PICK j \in DOMAIN needed : needed[j] = b
  BY <1>1
<1>3. j \in DOMAIN o /\ o[j] = b /\ j \in 1 .. Len(needed)
  BY <1>1, <1>2
<1>4. k0 \in Nat
  <2>1. o \in Seq(AppNames(f))
    BY OrderComplete
  <2>. QED  BY <2>1
<1>5. CASE k0 > Len(needed)
  BY <1>3, <1>4, <1>5
<1>6. CASE k0 <= Len(needed)
  <2>1. k0 \in DOMAIN needed /\ o[k0] = needed[k0]
    BY <1>1, <1>4, <1>6
  <2>2. Counter(f, o[k0]) < Counter(f, b)
    BY <2>1
  <2>3. \A a : Counter(f, a) \in Int
    BY DependentsType, ComposeAssumption DEF Counter
  <2>4. ~ Before(f, needed[k0], needed[j])
    BY <1>2, <2>1, <2>2, <2>3 DEF Before
  <2>5. needed[k0] # needed[j]
    BY <1>2, <2>1, <2>2, <2>3
  <2>6. ~ (k0 < j) /\ k0 # j
    BY <1>1, <1>2, <2>1, <2>4, <2>5
  <2>. QED  BY <1>3, <2>1, <2>6
<1>. QED  BY <1>3, <1>4, <1>5, <1>6

-----------------------------------------------------------------------------
(* The inductive invariant.                                                *)

Working == pc \notin {"idle", "ok"}

\* Compose works on a file that it has accepted, in one of its orders.
FileInv ==
    /\ file = NoFile => pc \in {"idle", "ok"} /\ order = <<>> /\ mine = {}
    /\ file # NoFile => /\ file \in Files
                        /\ Valid(file)
                        /\ order \in Orders(file)
    /\ pc = "idle" => file = NoFile
    /\ Working => k \in DOMAIN order

\* Of the containers that it has made only the last one may be at work.
MineInv ==
    /\ \A c \in mine : /\ con[c] \in Containers
                       /\ \/ con[c].state \in {"ended", "gone"}
                          \/ c = cid /\ pc \in {"run", "shell"}
    /\ pc \in {"run", "shell", "expose"} =>
          cid \in mine /\ con[cid].app = order[k]
    /\ pc = "run" => con[cid].state = "made"
    /\ pc = "shell" => con[cid].state = "running" /\ con[cid].reg

\* Script n resumes a container of this compose whose app exposes n, or has
\* strayed.
Exposed(n) ==
    \/ n \in strayed
    \/ bin[n] \in mine /\ n \in ToSet(App(file, con[bin[n]].app).expose)

\* What is no longer to be exposed for the current app is.
TodoInv ==
    Working => /\ ToSet(todo) \subseteq ToSet(Current.expose)
               /\ \A n \in ToSet(Current.expose) \ ToSet(todo) : Exposed(n)

\* The apps before the current one are over, and their programs exposed.
PastInv ==
    \A j \in DOMAIN order : j < k \/ pc = "ok" =>
        /\ Over(order[j])
        /\ \A n \in ToSet(App(file, order[j]).expose) : Exposed(n)

IndInv == TypeOK /\ FileInv /\ MineInv /\ TodoInv /\ PastInv

LEMMA InitInd == Init => IndInv
BY DEF Init, IndInv, TypeOK, FileInv, MineInv, TodoInv, PastInv, Working

\* The app that compose works on, while it does.
LEMMA CurrentType ==
    ASSUME FileInv, Working
    PROVE  /\ file \in Files /\ Valid(file) /\ order \in Orders(file)
           /\ order \in Seq(AppNames(file))
           /\ k \in 1 .. Len(order)
           /\ order[k] \in AppNames(file) /\ order[k] \in Apps
           /\ Current \in AppLevels
<1>1. file \in Files /\ Valid(file) /\ order \in Orders(file)
  BY DEF FileInv, Working
<1>2. order \in Seq(AppNames(file))
  BY <1>1, OrderComplete
<1>3. k \in 1 .. Len(order)
  BY <1>2 DEF FileInv
<1>4. order[k] \in AppNames(file)
  BY <1>2, <1>3
<1>. QED  BY <1>1, <1>2, <1>3, <1>4, AppType DEF Current

\* When compose returns, nothing is left to claim.
LEMMA ReturnInd ==
    ASSUME Return
    PROVE  FileInv' /\ MineInv' /\ TodoInv' /\ PastInv'
BY DEF Return, FileInv, MineInv, TodoInv, PastInv, Working

LEMMA ReturnType ==
    ASSUME TypeOK, Return, UNCHANGED table,
           con' \in [Ids -> Containers \cup {None}],
           bin' \in [Programs -> Ids \cup {None, Broken}]
    PROVE  TypeOK'
BY DEF TypeOK, Return, NoFile

\* A step that leaves bin alone, and moves the containers of the compose only
\* on, keeps apps that are over and scripts that are exposed.
LEMMA Kept ==
    ASSUME MineInv, UNCHANGED <<file, bin, strayed>>, mine \subseteq mine',
           \A c \in mine :
              /\ con'[c].app = con[c].app
              /\ con[c].state \in {"ended", "gone"} =>
                    con'[c].state \in {"ended", "gone"}
    PROVE  /\ \A a : Over(a) => Over(a)'
           /\ \A n : Exposed(n) => Exposed(n)'
BY DEF Over, Exposed

\* A step within the work on one app that exposes nothing.
LEMMA SameApp ==
    ASSUME IndInv, UNCHANGED <<file, bin, order, k, todo, strayed>>,
           Working, Working',
           mine \subseteq mine',
           \A c \in mine :
              /\ con'[c].app = con[c].app
              /\ con[c].state \in {"ended", "gone"} =>
                    con'[c].state \in {"ended", "gone"}
    PROVE  FileInv' /\ TodoInv' /\ PastInv'
<1>1. /\ \A a : Over(a) => Over(a)'
      /\ \A n : Exposed(n) => Exposed(n)'
  BY Kept DEF IndInv
<1>2. FileInv'
  BY DEF IndInv, FileInv, Working
<1>3. TodoInv'
  BY <1>1 DEF IndInv, TodoInv, Current
<1>4. PastInv'
  BY <1>1 DEF IndInv, PastInv, Working
<1>. QED  BY <1>2, <1>3, <1>4

\* Compose comes to app n: those before it are over and their programs exposed.
LEMMA StartAppInd ==
    ASSUME TypeOK, NEW f \in Files, Valid(f), NEW o \in Orders(f),
           NEW n \in DOMAIN o, StartApp(f, o, n),
           UNCHANGED <<table, con, bin, mine, strayed>>,
           \A c \in mine : /\ con[c] \in Containers
                           /\ con[c].state \in {"ended", "gone"},
           \A j \in DOMAIN o : j < n =>
              /\ Over(o[j])
              /\ \A m \in ToSet(App(f, o[j]).expose) :
                    \/ m \in strayed
                    \/ /\ bin[m] \in mine
                       /\ m \in ToSet(App(f, con[bin[m]].app).expose)
    PROVE  IndInv'
<1>1. o \in Seq(AppNames(f)) /\ n \in 1 .. Len(o) /\ o[n] \in AppNames(f)
  BY OrderComplete
<1>2. App(f, o[n]) \in AppLevels /\ AppNames(f) \subseteq Apps
  BY <1>1, AppType, DependedNames
<1>3. /\ pc' = "download" /\ order' = o /\ file' = f /\ k' = n
      /\ name' = None /\ cid' = None /\ todo' = App(f, o[n]).expose
  BY DEF StartApp
<1>4. App(f, o[n]).expose \in Seq(Programs) /\ o \in Seq(Apps)
  BY <1>1, <1>2 DEF AppLevels
<1>5. TypeOK'
  BY <1>1, <1>3, <1>4 DEF TypeOK
<1>6. f # NoFile
  BY DEF Valid, NoFile
<1>7. FileInv' /\ MineInv'
  BY <1>1, <1>3, <1>6 DEF FileInv, MineInv, Working
<1>8. TodoInv'
  BY <1>3 DEF TodoInv, Current
<1>9. PastInv'
  BY <1>3 DEF PastInv, Over, Exposed
<1>. QED  BY <1>5, <1>7, <1>8, <1>9 DEF IndInv

LEMMA ComposeStep ==
    ASSUME IndInv, NEW f \in Files, Compose(f)
    PROVE  IndInv'
<1>1. /\ pc = "idle" /\ Valid(f) /\ file = NoFile /\ order = <<>> /\ mine = {}
      /\ UNCHANGED <<table, con, bin, mine, strayed>>
  BY DEF Compose, IndInv, FileInv
<1>2. PICK o \in Orders(f) :
         IF o = <<>> THEN Goto("ok") ELSE StartApp(f, o, 1)
  BY DEF Compose
<1>3. CASE o = <<>>
  <2>1. /\ pc' = "ok"
        /\ UNCHANGED <<order, file, k, name, cid, todo, mine, strayed>>
    BY <1>2, <1>3 DEF Goto
  <2>2. TypeOK'
    BY <1>1, <2>1 DEF IndInv, TypeOK
  <2>3. FileInv' /\ MineInv' /\ TodoInv' /\ PastInv'
    BY <1>1, <2>1 DEF FileInv, MineInv, TodoInv, PastInv, Working
  <2>. QED  BY <2>2, <2>3 DEF IndInv
<1>4. CASE o # <<>>
  <2>1. o \in Seq(AppNames(f))
    BY <1>1, OrderComplete
  <2>2. 1 \in DOMAIN o /\ ~ \E j \in DOMAIN o : j < 1
    BY <1>4, <2>1
  <2>. QED  BY <1>1, <1>2, <1>4, <2>2, StartAppInd DEF IndInv
<1>. QED  BY <1>3, <1>4

LEMMA NextAppStep ==
    ASSUME IndInv, NextApp
    PROVE  IndInv'
<1>1. /\ pc = "expose" /\ todo = <<>> /\ k < Len(order)
      /\ StartApp(file, order, k + 1)
      /\ UNCHANGED <<table, con, bin, mine, strayed>>
  BY DEF NextApp
<1>2. Working /\ FileInv
  BY <1>1 DEF Working, IndInv
<1>3. k + 1 \in DOMAIN order /\ order \in Seq(AppNames(file))
  BY <1>1, <1>2, CurrentType
<1>4. ToSet(todo) = {}
  BY <1>1 DEF ToSet
<1>5. \A c \in mine : con[c] \in Containers /\ con[c].state \in {"ended", "gone"}
  BY <1>1 DEF IndInv, MineInv
<1>6. Over(order[k])
  BY <1>1, <1>5 DEF IndInv, MineInv, Over
<1>7. \A m \in ToSet(App(file, order[k]).expose) : Exposed(m)
  BY <1>2, <1>4 DEF IndInv, TodoInv, Current
<1>8. ASSUME NEW j \in DOMAIN order, j < k + 1
      PROVE  /\ Over(order[j])
             /\ \A m \in ToSet(App(file, order[j]).expose) : Exposed(m)
  <2>1. j \in Nat /\ k \in Nat
    BY <1>3 DEF IndInv, TypeOK
  <2>2. j < k \/ j = k
    BY <1>8, <2>1
  <2>. QED  BY <1>6, <1>7, <2>2 DEF IndInv, PastInv
<1>9. file \in Files /\ Valid(file) /\ order \in Orders(file)
  BY <1>2, CurrentType
<1>. QED  BY <1>1, <1>3, <1>5, <1>8, <1>9, StartAppInd DEF IndInv, Exposed

LEMMA ComposeEndsStep ==
    ASSUME IndInv, ComposeEnds
    PROVE  IndInv'
<1>1. /\ pc = "expose" /\ todo = <<>> /\ k = Len(order) /\ pc' = "ok"
      /\ UNCHANGED <<table, con, bin, order, file, k, name, cid, todo, mine,
                     strayed>>
  BY DEF ComposeEnds, Goto
<1>2. Working /\ FileInv
  BY <1>1 DEF Working, IndInv
<1>3. order \in Seq(AppNames(file))
  BY <1>2, CurrentType
<1>4. ToSet(todo) = {}
  BY <1>1 DEF ToSet
<1>5. Over(order[k])
  BY <1>1 DEF IndInv, MineInv, Over
<1>6. \A m \in ToSet(App(file, order[k]).expose) : Exposed(m)
  BY <1>2, <1>4 DEF IndInv, TodoInv, Current
<1>7. ASSUME NEW j \in DOMAIN order
      PROVE  /\ Over(order[j])
             /\ \A m \in ToSet(App(file, order[j]).expose) : Exposed(m)
  <2>1. j < k \/ j = k
    BY <1>1, <1>3
  <2>. QED  BY <1>5, <1>6, <2>1 DEF IndInv, PastInv
<1>8. PastInv'
  BY <1>1, <1>7 DEF PastInv, Over, Exposed
<1>9. TypeOK' /\ FileInv' /\ MineInv' /\ TodoInv'
  BY <1>1 DEF IndInv, TypeOK, FileInv, MineInv, TodoInv, Working
<1>. QED  BY <1>8, <1>9 DEF IndInv

LEMMA DownloadStep ==
    ASSUME IndInv, AutoDownloadFinds \/ AutoDownload
    PROVE  IndInv'
<1>1. /\ pc = "download" /\ pc' = "generate"
      /\ UNCHANGED <<con, bin, order, file, k, cid, todo, mine, strayed>>
  BY DEF AutoDownloadFinds, AutoDownload
<1>2. Working /\ Working' /\ FileInv
  BY <1>1 DEF Working, IndInv
<1>3. order[k] \in Apps /\ Current.image \in Images
  BY <1>2, CurrentType DEF AppLevels
<1>4. Target \in Names
  BY <1>3, ComposeAssumption DEF Target
<1>5. TypeOK'
  BY <1>1, <1>3, <1>4 DEF AutoDownloadFinds, AutoDownload, IndInv, TypeOK
<1>6. FileInv' /\ TodoInv' /\ PastInv'
  BY <1>1, <1>2, SameApp
<1>7. MineInv'
  BY <1>1 DEF IndInv, MineInv
<1>. QED  BY <1>5, <1>6, <1>7 DEF IndInv

LEMMA GenerateStep ==
    ASSUME IndInv, NEW c \in Ids, Generate(c)
    PROVE  IndInv'
<1>. DEFINE new == [app |-> order[k], image |-> name, reg |-> FALSE,
                    state |-> "made"]
<1>1. /\ pc = "generate" /\ pc' = "run" /\ name \in table /\ con[c] = None
      /\ con' = [con EXCEPT ![c] = new]
      /\ cid' = c /\ mine' = mine \cup {c}
      /\ UNCHANGED <<table, bin, order, file, k, name, todo, strayed>>
  BY DEF Generate
<1>2. Working /\ Working' /\ FileInv
  BY <1>1 DEF Working, IndInv
<1>3. order[k] \in Apps /\ name \in Names
  BY <1>1, <1>2, CurrentType DEF IndInv, TypeOK
<1>4. new \in Containers
  BY <1>3 DEF Containers
<1>5. TypeOK'
  BY <1>1, <1>4 DEF IndInv, TypeOK
<1>6. c \notin mine
  BY <1>1, ComposeAssumption DEF IndInv, MineInv
<1>7. con'[c] = new /\ \A d \in mine : con'[d] = con[d]
  BY <1>1, <1>6 DEF IndInv, TypeOK
<1>8. FileInv' /\ TodoInv' /\ PastInv'
  BY <1>1, <1>2, <1>7, SameApp
<1>9. MineInv'
  BY <1>1, <1>4, <1>7 DEF IndInv, MineInv
<1>. QED  BY <1>5, <1>8, <1>9 DEF IndInv

\* The run of the current app's container: its start, its failure, its end.
LEMMA RunStep ==
    ASSUME IndInv, RunStarts \/ RunFails \/ RunEnds
    PROVE  IndInv'
<1>1. /\ pc \in {"run", "shell"} /\ pc' \in {"shell", "expose"}
      /\ pc' = "shell" => pc = "run"
      /\ UNCHANGED <<table, bin, order, file, k, name, cid, todo, mine,
                     strayed>>
  BY DEF RunStarts, RunFails, RunEnds, Goto
<1>2. Working /\ Working'
  BY <1>1 DEF Working
<1>3. /\ cid \in mine /\ cid \in Ids /\ con[cid] \in Containers
      /\ con[cid].app = order[k] /\ con[cid].state \in {"made", "running"}
  BY <1>1 DEF IndInv, TypeOK, MineInv
<1>4. PICK r \in BOOLEAN, st \in {"running", "ended"} :
         /\ con' = [con EXCEPT ![cid] = [con[cid] EXCEPT !.reg = r,
                                                         !.state = st]]
         /\ pc' = "shell" => st = "running" /\ r
         /\ pc' = "expose" => st = "ended"
  <2>1. con[cid] = [con[cid] EXCEPT !.reg = con[cid].reg]
    BY <1>3 DEF Containers
  <2>2. con[cid].reg \in BOOLEAN
    BY <1>3 DEF Containers
  <2>3. CASE RunStarts
    BY <2>3 DEF RunStarts, Goto
  <2>4. CASE RunFails
    BY <2>4 DEF RunFails, Goto
  <2>5. CASE RunEnds
    BY <2>1, <2>2, <2>5 DEF RunEnds, Goto
  <2>. QED  BY <2>3, <2>4, <2>5
<1>5. /\ con'[cid] \in Containers /\ con'[cid].app = con[cid].app
      /\ con'[cid].reg = r /\ con'[cid].state = st
  BY <1>3, <1>4 DEF IndInv, TypeOK, Containers
<1>6. \A d \in Ids : d # cid => con'[d] = con[d]
  BY <1>4 DEF IndInv, TypeOK
<1>7. TypeOK'
  <2>1. con' \in [Ids -> Containers \cup {None}]
    BY <1>3, <1>4, <1>5 DEF IndInv, TypeOK
  <2>. QED  BY <1>1, <2>1 DEF IndInv, TypeOK
<1>8. \A d \in mine : d \in Ids
  BY DEF IndInv, TypeOK
<1>9. FileInv' /\ TodoInv' /\ PastInv'
  BY <1>1, <1>2, <1>3, <1>5, <1>6, <1>8, SameApp
<1>10. MineInv'
  BY <1>1, <1>3, <1>4, <1>5, <1>6, <1>8 DEF IndInv, MineInv
<1>. QED  BY <1>7, <1>9, <1>10 DEF IndInv

\* A step that leaves everything but scripts alone, takes the program h off
\* todo at most, and leaves its script exposed or strayed.
LEMMA ScriptsInd ==
    ASSUME IndInv, Working, UNCHANGED <<con, pc, order, file, k, mine>>,
           ToSet(todo') \subseteq ToSet(todo),
           NEW h \in Programs, ToSet(todo) \subseteq ToSet(todo') \cup {h},
           \A n \in Programs \ {h} : Exposed(n) => Exposed(n)',
           Exposed(h)'
    PROVE  TodoInv' /\ PastInv'
<1>1. FileInv
  BY DEF IndInv
<1>2. \A n \in Programs : Exposed(n) => Exposed(n)'
  OBVIOUS
<1>3. \A a \in AppNames(file) : ToSet(App(file, a).expose) \subseteq Programs
  <2>1. ASSUME NEW a \in AppNames(file)
        PROVE  App(file, a).expose \in Seq(Programs)
    BY <1>1, CurrentType, AppType DEF AppLevels
  <2>. QED  BY <2>1 DEF ToSet
<1>4. /\ order[k] \in AppNames(file)
      /\ \A j \in DOMAIN order : order[j] \in AppNames(file)
  BY <1>1, CurrentType
<1>5. TodoInv'
  <2>1. \A n \in ToSet(Current.expose) \ ToSet(todo') :
           n \in Programs /\ (n = h \/ n \notin ToSet(todo))
    BY <1>3, <1>4 DEF Current
  <2>2. \A n \in ToSet(Current.expose) \ ToSet(todo') : Exposed(n)'
    BY <1>2, <2>1 DEF IndInv, TodoInv
  <2>3. ToSet(todo') \subseteq ToSet(Current.expose)
    BY DEF IndInv, TodoInv
  <2>4. Current' = Current
    BY DEF Current
  <2>. QED  BY <2>2, <2>3, <2>4 DEF TodoInv
<1>6. \A a : Over(a) => Over(a)'
  BY DEF Over
<1>7. PastInv'
  BY <1>2, <1>3, <1>4, <1>6 DEF IndInv, PastInv
<1>. QED  BY <1>5, <1>7

LEMMA ExposeStep ==
    ASSUME IndInv, Expose \/ ExposeSilent
    PROVE  IndInv'
<1>1. /\ pc = "expose" /\ todo # <<>> /\ todo' = Tail(todo)
      /\ UNCHANGED <<table, con, pc, order, file, k, name, cid, mine>>
  BY DEF Expose, ExposeSilent
<1>2. /\ Working /\ FileInv /\ todo \in Seq(Programs)
  BY <1>1 DEF Working, IndInv, TypeOK
<1>3. /\ Head(todo) \in Programs /\ Tail(todo) \in Seq(Programs)
      /\ Head(todo) \in ToSet(todo)
      /\ ToSet(Tail(todo)) \subseteq ToSet(todo)
      /\ ToSet(todo) \subseteq ToSet(Tail(todo)) \cup {Head(todo)}
  <2>1. /\ Head(todo) \in Programs /\ Tail(todo) \in Seq(Programs)
        /\ Head(todo) = todo[1] /\ 1 \in DOMAIN todo
    BY <1>1, <1>2
  <2>2. ASSUME NEW i \in DOMAIN Tail(todo)
        PROVE  Tail(todo)[i] \in ToSet(todo)
    <3>1. Tail(todo)[i] = todo[i + 1] /\ i + 1 \in DOMAIN todo
      BY <1>1, <1>2
    <3>. QED  BY <3>1 DEF ToSet
  <2>3. ASSUME NEW i \in DOMAIN todo, i # 1
        PROVE  todo[i] \in ToSet(Tail(todo))
    <3>1. i - 1 \in DOMAIN Tail(todo) /\ Tail(todo)[i - 1] = todo[i]
      BY <1>1, <1>2, <2>3
    <3>. QED  BY <3>1 DEF ToSet
  <2>4. Head(todo) \in ToSet(todo)
    BY <2>1 DEF ToSet
  <2>5. ToSet(Tail(todo)) \subseteq ToSet(todo)
    BY <2>2 DEF ToSet
  <2>6. ToSet(todo) \subseteq ToSet(Tail(todo)) \cup {Head(todo)}
    <3>1. \A i \in DOMAIN todo :
             todo[i] \in ToSet(Tail(todo)) \cup {Head(todo)}
      BY <2>1, <2>3
    <3>. QED  BY <3>1 DEF ToSet
  <2>. QED  BY <2>1, <2>4, <2>5, <2>6
<1>. PICK h \in Programs : h = Head(todo)
  BY <1>3
<1>4. /\ cid \in mine /\ cid \in Ids /\ con[cid].app = order[k]
      /\ h \in ToSet(App(file, order[k]).expose)
  BY <1>1, <1>2, <1>3 DEF IndInv, TypeOK, MineInv, TodoInv, Current
<1>5. /\ bin' \in [Programs -> Ids \cup {None, Broken}]
      /\ \A n \in Programs \ {h} : bin'[n] = bin[n]
      /\ strayed' \subseteq Programs
      /\ \A n \in Programs \ {h} : n \in strayed => n \in strayed'
      /\ bin'[h] = cid \/ h \in strayed'
  <2>1. CASE Expose
    BY <1>3, <1>4, <2>1 DEF Expose, IndInv, TypeOK
  <2>2. CASE ExposeSilent
    BY <1>3, <2>2 DEF ExposeSilent, IndInv, TypeOK
  <2>. QED  BY <2>1, <2>2
<1>6. TypeOK'
  BY <1>1, <1>3, <1>5 DEF IndInv, TypeOK
<1>7. FileInv' /\ MineInv'
  BY <1>1 DEF IndInv, FileInv, MineInv, Working
<1>8. Exposed(h)'
  BY <1>1, <1>4, <1>5 DEF Exposed
<1>9. \A n \in Programs \ {h} : Exposed(n) => Exposed(n)'
  BY <1>1, <1>5 DEF Exposed
<1>10. TodoInv' /\ PastInv'
  BY <1>1, <1>2, <1>3, <1>8, <1>9, ScriptsInd
<1>. QED  BY <1>6, <1>7, <1>10 DEF IndInv

\* Another expose has a program of its own or one that has strayed.
LEMMA OtherExposeStep ==
    ASSUME IndInv, NEW c \in Ids, NEW n \in Programs, OtherExpose(c, n)
    PROVE  IndInv'
<1>1. /\ pc \in {"idle", "shell"}
      /\ UNCHANGED <<table, con, pc, order, file, k, name, cid, todo, mine>>
      /\ bin' \in [Programs -> Ids \cup {None, Broken}]
      /\ \A m \in Programs \ {n} : bin'[m] = bin[m]
      /\ strayed' \subseteq Programs
      /\ pc = "shell" => strayed' = strayed \cup {n}
  BY DEF OtherExpose, IndInv, TypeOK
<1>2. TypeOK'
  BY <1>1 DEF IndInv, TypeOK
<1>3. FileInv' /\ MineInv'
  BY <1>1 DEF IndInv, FileInv, MineInv, Working
<1>4. CASE pc = "idle"
  <2>1. TodoInv' /\ PastInv'
    BY <1>1, <1>4 DEF IndInv, FileInv, TodoInv, PastInv, Working
  <2>. QED  BY <1>2, <1>3, <2>1 DEF IndInv
<1>5. CASE pc = "shell"
  <2>1. Working
    BY <1>5 DEF Working
  <2>2. \A m \in Programs \ {n} : Exposed(m) => Exposed(m)'
    BY <1>1, <1>5 DEF Exposed
  <2>3. Exposed(n)'
    BY <1>1, <1>5 DEF Exposed
  <2>. QED  BY <1>1, <1>2, <1>3, <2>1, <2>2, <2>3, ScriptsInd DEF IndInv
<1>. QED  BY <1>1, <1>4, <1>5

\* Other commands touch no container that is at work.
LEMMA OthersStep ==
    ASSUME IndInv,
           \/ \E n \in Others : Download(n) \/ Delete(n)
           \/ \E c \in Ids : Destroy(c)
    PROVE  IndInv'
<1>1. /\ UNCHANGED <<bin, pc, order, file, k, name, cid, todo, mine, strayed>>
      /\ pc \in {"idle", "shell"}
  BY DEF Download, Delete, Destroy, memory
<1>2. /\ table' \subseteq Names
      /\ con' \in [Ids -> Containers \cup {None}]
      /\ \A c \in Ids : con[c] \in Containers =>
            \/ con'[c] = con[c]
            \/ /\ ~ (con[c].state = "running" /\ con[c].reg)
               /\ con'[c] \in Containers
               /\ con'[c].app = con[c].app
               /\ con'[c].state = "gone"
  <2>1. ASSUME NEW c \in Ids, NEW st \in {"gone"}, con[c] \in Containers
        PROVE  /\ [con[c] EXCEPT !.state = st] \in Containers
               /\ [con[c] EXCEPT !.state = st].app = con[c].app
               /\ [con[c] EXCEPT !.state = st].state = st
               /\ [con[c] EXCEPT !.reg = FALSE, !.state = st] \in Containers
               /\ [con[c] EXCEPT !.reg = FALSE, !.state = st].app = con[c].app
               /\ [con[c] EXCEPT !.reg = FALSE, !.state = st].state = st
    BY <2>1 DEF Containers
  <2>2. ASSUME NEW n \in Others, Download(n)
        PROVE  <1>2!:
    BY <2>2, ComposeAssumption DEF Download, IndInv, TypeOK
  <2>3. ASSUME NEW n \in Others, Delete(n)
        PROVE  <1>2!:
    BY <2>1, <2>3, ComposeAssumption DEF Delete, IndInv, TypeOK
  <2>4. ASSUME NEW c \in Ids, Destroy(c)
        PROVE  <1>2!:
    <3>. DEFINE gone == [con[c] EXCEPT !.reg = FALSE, !.state = "gone"]
    <3>1. /\ con[c] \in Containers /\ con[c].reg /\ con[c].state # "running"
          /\ con \in [Ids -> Containers \cup {None}] /\ table \subseteq Names
      BY <2>4 DEF Destroy, IndInv, TypeOK
    <3>2. con' = [con EXCEPT ![c] = gone] /\ table' = table
      BY <2>4, <3>1 DEF Destroy
    <3>3. gone \in Containers /\ gone.app = con[c].app /\ gone.state = "gone"
      BY <2>1, <3>1
    <3>. HIDE DEF gone
    <3>4. \A d \in Ids : con'[d] = IF d = c THEN gone ELSE con[d]
      BY <3>1, <3>2
    <3>. QED  BY <3>1, <3>2, <3>3, <3>4
  <2>. QED  BY <2>2, <2>3, <2>4
<1>3. TypeOK'
  BY <1>1, <1>2 DEF IndInv, TypeOK
<1>4. \A c \in mine : c \in Ids /\ con[c] \in Containers
  BY DEF IndInv, TypeOK, MineInv
<1>5. /\ \A a : Over(a) => Over(a)'
      /\ \A n : Exposed(n) => Exposed(n)'
  <2>1. \A c \in mine :
           /\ con'[c].app = con[c].app
           /\ con[c].state \in {"ended", "gone"} =>
                 con'[c].state \in {"ended", "gone"}
    BY <1>2, <1>4
  <2>. QED  BY <1>1, <2>1, Kept DEF IndInv
<1>6. FileInv' /\ TodoInv' /\ PastInv'
  BY <1>1, <1>5 DEF IndInv, FileInv, TodoInv, PastInv, Working, Current
<1>7. MineInv'
  <2>1. \A c \in mine : /\ con'[c] \in Containers
                        /\ \/ con'[c].state \in {"ended", "gone"}
                           \/ c = cid /\ pc' \in {"run", "shell"}
    BY <1>1, <1>2, <1>4 DEF IndInv, MineInv
  <2>2. pc = "shell" => /\ cid \in mine /\ con[cid].app = order[k]
                        /\ con'[cid] = con[cid]
    BY <1>2, <1>4 DEF IndInv, MineInv
  <2>. QED  BY <1>1, <2>1, <2>2 DEF IndInv, MineInv
<1>. QED  BY <1>3, <1>6, <1>7 DEF IndInv

LEMMA ReturnStep ==
    ASSUME IndInv,
           AutoDownloadFails \/ GenerateFails \/ ExposeFails \/ Exit \/ Kill
    PROVE  IndInv'
<1>1. Return /\ UNCHANGED table
  BY DEF AutoDownloadFails, GenerateFails, ExposeFails, Exit, Kill
<1>2. con' \in [Ids -> Containers \cup {None}]
  <2>1. CASE UNCHANGED con
    BY <2>1 DEF IndInv, TypeOK
  <2>2. CASE Kill /\ pc = "shell"
    <3>1. cid \in Ids /\ con[cid] \in Containers
      BY <2>2 DEF IndInv, TypeOK, MineInv
    <3>2. [con[cid] EXCEPT !.state = "ended"] \in Containers
      BY <3>1 DEF Containers
    <3>. QED  BY <2>2, <3>1, <3>2 DEF Kill, IndInv, TypeOK
  <2>3. UNCHANGED con \/ (Kill /\ pc = "shell")
    BY DEF AutoDownloadFails, GenerateFails, ExposeFails, Exit, Kill
  <2>. QED  BY <2>1, <2>2, <2>3
<1>3. bin' \in [Programs -> Ids \cup {None, Broken}]
  BY DEF AutoDownloadFails, GenerateFails, ExposeFails, Exit, Kill, IndInv,
     TypeOK
<1>. QED  BY <1>1, <1>2, <1>3, ReturnInd, ReturnType DEF IndInv

LEMMA IndStep == IndInv /\ [Next]_vars => IndInv'
<1>. SUFFICES ASSUME IndInv, [Next]_vars
              PROVE  IndInv'
  OBVIOUS
<1>1. CASE \E f \in Files : Compose(f)
  BY <1>1, ComposeStep
<1>2. CASE AutoDownloadFinds \/ AutoDownload
  BY <1>2, DownloadStep
<1>3. CASE \E c \in Ids : Generate(c)
  BY <1>3, GenerateStep
<1>4. CASE RunStarts \/ RunFails \/ RunEnds
  BY <1>4, RunStep
<1>5. CASE Expose \/ ExposeSilent
  BY <1>5, ExposeStep
<1>6. CASE NextApp
  BY <1>6, NextAppStep
<1>7. CASE ComposeEnds
  BY <1>7, ComposeEndsStep
<1>8. CASE AutoDownloadFails \/ GenerateFails \/ ExposeFails \/ Exit \/ Kill
  BY <1>8, ReturnStep
<1>9. CASE \/ \E n \in Others : Download(n) \/ Delete(n)
           \/ \E c \in Ids : Destroy(c)
  BY <1>9, OthersStep
<1>10. CASE \E c \in Ids, n \in Programs : OtherExpose(c, n)
  BY <1>10, OtherExposeStep
<1>11. CASE UNCHANGED vars
  BY <1>11 DEF vars, memory, IndInv, TypeOK, FileInv, MineInv, TodoInv,
     PastInv, Working, Current, Exposed, Over
<1>. QED
  BY <1>1, <1>2, <1>3, <1>4, <1>5, <1>6, <1>7, <1>8, <1>9, <1>10, <1>11
     DEF Next

LEMMA Inductive == Spec => []IndInv
BY InitInd, IndStep, PTL DEF Spec

-----------------------------------------------------------------------------
(* The theorems.                                                           *)

\* Every variable keeps its type, whatever the compose files ask for.
THEOREM TypeCorrect == Spec => []TypeOK
<1>1. IndInv => TypeOK
  BY DEF IndInv
<1>. QED  BY <1>1, Inductive, PTL

\* An app at work is the current one, and what comes before it is over.
LEMMA RunningIsCurrent ==
    ASSUME IndInv, NEW a, Running(a)
    PROVE  /\ file \in Files /\ Valid(file) /\ order \in Orders(file)
           /\ k \in DOMAIN order /\ order[k] = a
           /\ \A j \in DOMAIN order : j < k => Over(order[j])
<1>1. pc \in {"run", "shell"} /\ order[k] = a
  BY DEF IndInv, MineInv, Running
<1>2. Working /\ FileInv
  BY <1>1 DEF Working, IndInv
<1>. QED  BY <1>1, <1>2, CurrentType DEF IndInv, FileInv, PastInv

\* While an app runs on which no app depends, all apps on which some app
\* depends are over (Validate's two parts, Compose's two loops).
THEOREM NeededFirst == Spec => []NeededBeforeLeaves
<1>1. ASSUME IndInv, NEW a \in AppNames(file), NEW b \in AppNames(file),
             Running(a), Dependents(file, a) = 0, Dependents(file, b) > 0
      PROVE  Over(b)
  <2>1. file \in Files /\ Valid(file) /\ order \in Orders(file)
        /\ k \in DOMAIN order /\ order[k] = a
    BY <1>1, RunningIsCurrent
  <2>2. b \in Depended(file) /\ order[k] \notin Depended(file)
    BY <1>1, <2>1, DependentsType
  <2>3. \E j \in DOMAIN order : j < k /\ order[j] = b
    BY <2>1, <2>2, OrderPrecedes
  <2>. QED  BY <1>1, <2>3, RunningIsCurrent
<1>2. IndInv => NeededBeforeLeaves
  BY <1>1 DEF NeededBeforeLeaves
<1>. QED  BY <1>2, Inductive, PTL

\* While an app runs, all apps with more dependents are over, if the counters
\* hold their number.
THEOREM SortedByNeed == Spec => []MostNeededFirst
<1>1. ASSUME IndInv, NEW a \in AppNames(file), NEW b \in AppNames(file),
             Running(a), Dependents(file, a) < Dependents(file, b),
             Dependents(file, b) < Limit
      PROVE  Over(b)
  <2>1. file \in Files /\ Valid(file) /\ order \in Orders(file)
        /\ k \in DOMAIN order /\ order[k] = a
    BY <1>1, RunningIsCurrent
  <2>2. Dependents(file, a) \in Nat /\ Dependents(file, b) \in Nat
        /\ Limit \in Nat
    BY <2>1, DependentsType, ComposeAssumption
  <2>3. Dependents(file, b) > 0 /\ Dependents(file, a) < Limit
    BY <1>1, <2>2
  <2>4. b \in Depended(file)
    BY <2>1, <2>3, DependentsType
  <2>5. Counter(file, a) < Counter(file, b)
    BY <1>1, <2>1, <2>3, CounterExact
  <2>6. \E j \in DOMAIN order : j < k /\ order[j] = b
    BY <2>1, <2>4, <2>5, OrderPrecedes
  <2>. QED  BY <1>1, <2>6, RunningIsCurrent
<1>2. IndInv => MostNeededFirst
  BY <1>1 DEF MostNeededFirst
<1>. QED  BY <1>2, Inductive, PTL

\* A compose that returns no error has made a container for every app of its
\* file, and every script that the file asks for resumes one of them, of an
\* app that exposes it, but for those that another expose has taken since and
\* those whose failure Expose has kept to itself.
THEOREM NothingLeftOut == Spec => []OkMeansAll
<1>1. ASSUME IndInv, pc = "ok", NEW i \in DOMAIN file.apps
      PROVE  LET a == file.apps[i] IN
             /\ \E c \in mine : con[c].app = a.name
             /\ \A n \in ToSet(a.expose) \ strayed :
                   /\ bin[n] \in mine
                   /\ n \in ToSet(App(file, con[bin[n]].app).expose)
  <2>1. file # NoFile
    BY <1>1 DEF NoFile
  <2>2. file \in Files /\ Valid(file) /\ order \in Orders(file)
    BY <1>1, <2>1 DEF IndInv, FileInv
  <2>3. file.apps[i].name \in AppNames(file)
    BY DEF AppNames
  <2>4. PICK j \in DOMAIN order : order[j] = file.apps[i].name
    BY <2>2, <2>3, OrderComplete
  <2>5. App(file, file.apps[i].name) = file.apps[i]
    BY <2>2, AppUnique
  <2>6. /\ Over(order[j])
        /\ \A n \in ToSet(App(file, order[j]).expose) : Exposed(n)
    BY <1>1 DEF IndInv, PastInv
  <2>. QED  BY <2>4, <2>5, <2>6 DEF Over, Exposed
<1>2. IndInv => OkMeansAll
  BY <1>1 DEF OkMeansAll
<1>. QED  BY <1>2, Inductive, PTL
=============================================================================
