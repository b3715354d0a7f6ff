-------------------------- MODULE FileCacheProofs --------------------------
(***************************************************************************)
(* FileCache for any keys, values and commands: types; one entry per key;  *)
(* and the step-by-step implementation of KeyValueMap, for values with no  *)
(* ":" or "=".  The last two rest on what With and Without do to a text.   *)
(* Last what a user is told, with the record of it in MCFileCache.         *)
(***************************************************************************)
EXTENDS MCFileCache, WellFoundedInduction, SequenceTheorems, TLAPS

-----------------------------------------------------------------------------
(* The first item of a name *)

Less == {q \in Nat \X Nat : q[1] < q[2]}

LEMMA LeastNumber ==
    ASSUME NEW T \in SUBSET Nat, T # {}
    PROVE  \E x \in T : \A y \in T : x <= y
<1>1. OpToRel(<, Nat) = Less
  BY DEF OpToRel, Less
<1>2. IsWellFoundedOn(Less, Nat)
  BY <1>1, NatLessThanWellFounded
<1>3. PICK x \in T : \A y \in T : ~(<<y, x>> \in Less)
  BY <1>2, WFMin
<1>4. ASSUME NEW y \in T PROVE x <= y
  <2>. DEFINE q == <<y, x>>
  <2>1. x \in Nat /\ y \in Nat /\ q \in Nat \X Nat /\ q[1] = y /\ q[2] = x
    OBVIOUS
  <2>2. q \notin Less
    BY <1>3
  <2>. HIDE DEF q
  <2>. QED  BY <2>1, <2>2 DEF Less
<1>. QED  BY <1>4

LEMMA PlaceIn ==
    ASSUME NEW items \in Seq(Item), NEW k, Places(items, k) # {}
    PROVE  /\ Place(items, k) \in 1..Len(items)
           /\ items[Place(items, k)].name = k
<1>1. Places(items, k) \in SUBSET Nat
  BY DEF Places
<1>2. \E i \in Places(items, k) : \A j \in Places(items, k) : i <= j
  BY <1>1, LeastNumber
<1>3. Place(items, k) \in Places(items, k)
  BY <1>2 DEF Place
<1>. QED  BY <1>3 DEF Places

-----------------------------------------------------------------------------
(* Types *)

LEMMA PieceIn ==
    ASSUME NEW v \in Seq(Seq(Pieces) \ {<<>>}), NEW i \in 1..Len(v)
    PROVE  /\ v[i] \in Seq(Pieces) \ {<<>>}
           /\ v[i][1] \in Pieces
           /\ Len(v[i]) > 1 => v[i][2] \in Pieces
<1>1. v[i] \in Seq(Pieces) \ {<<>>}
  OBVIOUS
<1>2. \A part \in Seq(Pieces) \ {<<>>} :
         part[1] \in Pieces /\ (Len(part) > 1 => part[2] \in Pieces)
  OBVIOUS
<1>. QED  BY <1>1, <1>2

LEMMA ItemsType ==
    ASSUME NEW k \in Keys, NEW v \in Values
    PROVE  Items(k, v) \in Seq(Item)
<1>1. v \in Seq(Seq(Pieces) \ {<<>>}) /\ v # <<>> /\ Len(v) \in Nat
  BY FileCacheAssumption
<1>2. \A i \in 1..Len(v) : /\ v[i][1] \in Pieces
                           /\ Len(v[i]) > 1 => v[i][2] \in Pieces
  BY <1>1, PieceIn
<1>. DEFINE F == [i \in 1..Len(v) |->
                     IF i = 1 THEN [name |-> k, val |-> v[1][1]]
                     ELSE [name |-> v[i][1],
                           val  |-> IF Len(v[i]) > 1 THEN v[i][2]
                                    ELSE Nothing]]
<1>3. F \in [1..Len(v) -> Item]
  BY <1>2 DEF Item
<1>4. F \in Seq(Item)
  BY <1>1, <1>3
<1>. QED  BY <1>4 DEF Items

LEMMA WithType ==
    ASSUME NEW items \in Seq(Item), NEW k \in Keys, NEW v \in Values
    PROVE  With(items, k, v) \in Seq(Item)
<1>1. Items(k, v) \in Seq(Item)
  BY ItemsType
<1>2. CASE Places(items, k) = {}
  BY <1>1, <1>2 DEF With
<1>3. CASE Places(items, k) # {}
  <2>. DEFINE i == Place(items, k)
              A == SubSeq(items, 1, i - 1)
              B == SubSeq(items, i + 1, Len(items))
  <2>1. i \in 1..Len(items) /\ Len(items) \in Nat
    BY <1>3, PlaceIn
  <2>2. A \in Seq(Item) /\ B \in Seq(Item)
    BY <2>1, SubSeqProperties
  <2>3. A \o Items(k, v) \o B \in Seq(Item)
    BY <1>1, <2>2
  <2>. QED  BY <1>3, <2>3 DEF With
<1>. QED  BY <1>2, <1>3

LEMMA WithoutType ==
    ASSUME NEW items \in Seq(Item), NEW k, Places(items, k) # {}
    PROVE  Without(items, k) \in Seq(Item)
<1>. DEFINE i == Place(items, k)
            n == Len(items)
            S == [items EXCEPT ![i] = items[n]]
<1>1. i \in 1..n /\ n \in Nat /\ n > 0
  BY PlaceIn
<1>2. items[n] \in Item
  BY <1>1
<1>3. S \in Seq(Item) /\ Len(S) = n
  BY <1>1, <1>2
<1>. HIDE DEF S
<1>4. SubSeq(S, 1, n - 1) \in Seq(Item)
  BY <1>1, <1>3, SubSeqProperties
<1>. QED  BY <1>4 DEF Without, S

LEMMA TextType ==
    ASSUME NEW items \in Seq(Item)
    PROVE  Text(items) \in Files \ {Missing}
<1>1. Blank \in Item
  BY DEF Blank, Item
<1>2. <<Blank>> \in Texts
  BY <1>1 DEF Texts
<1>3. Text(items) \in Texts
  BY <1>2 DEF Text, Texts
<1>. QED  BY <1>3, FileCacheAssumption DEF Files, Texts, Item

Entries == [key : Keys, val : Values]

LEMMA NoneYet == <<>> \in Seq(Item) /\ <<>> \in Seq(Entries)
  BY EmptySeq

LEMMA DoneType ==
    ASSUME TypeOK, NEW p \in Procs, pc[p] # "idle", Done(p), file' \in Files,
           file' = Missing => file = Missing
    PROVE  TypeOK'
<1>1. /\ pc \in [Procs -> {"idle", "look", "create", "read", "truncate", "write"}]
      /\ cmd \in [Procs -> Commands]
  BY DEF TypeOK
<1>2. cmd[p] \in Commands /\ cmd[p].todo \in Seq(Entries)
  BY <1>1 DEF Commands, Entries
<1>3. NoCommand \in Commands
  BY DEF NoCommand, Commands
<1>4. CASE Len(cmd[p].todo) > 1
  <2>1. Tail(cmd[p].todo) \in Seq(Entries) /\ Tail(cmd[p].todo) # <<>>
    <3>. DEFINE t == cmd[p].todo
    <3>1. t \in Seq(Entries) /\ t # <<>> /\ Len(t) \in Nat
      BY <1>2, <1>4, NoneYet
    <3>. HIDE DEF t
    <3>2. Tail(t) \in Seq(Entries) /\ Len(Tail(t)) = Len(t) - 1
      BY <3>1, HeadTailProperties
    <3>3. Tail(t) # <<>>
      <4>. DEFINE u == Tail(t)
      <4>1. Len(u) > 0
        BY <1>4, <3>1, <3>2 DEF t
      <4>2. Len(<<>>) = 0
        OBVIOUS
      <4>. HIDE DEF u
      <4>3. u # <<>>
        BY <4>1, <4>2
      <4>. QED  BY <4>3 DEF u
    <3>. QED  BY <3>2, <3>3 DEF t
  <2>. DEFINE c == [cmd[p] EXCEPT !.text = <<>>, !.todo = Tail(cmd[p].todo)]
  <2>2. <<>> \in Seq(Item)
    OBVIOUS
  <2>3. /\ c \in Commands
        /\ c.todo # <<>>
        /\ c.op = cmd[p].op /\ c.key = cmd[p].key
    <3>. DEFINE t == Tail(cmd[p].todo)
    <3>. HIDE DEF t
    <3>. QED  BY <1>2, <2>1, <2>2 DEF Commands, Entries, t
  <2>. HIDE DEF c
  <2>4. cmd' = [cmd EXCEPT ![p] = c] /\ pc' = [pc EXCEPT ![p] = "look"]
    BY <1>1, <1>4 DEF Done, Goto, c
  <2>. QED  BY <1>1, <2>3, <2>4 DEF TypeOK
<1>5. CASE ~(Len(cmd[p].todo) > 1)
  BY <1>1, <1>3, <1>5 DEF Done, Goto, TypeOK
<1>. QED  BY <1>4, <1>5

LEMMA WriteBackType ==
    ASSUME TypeOK, NEW p \in Procs, NEW items \in Seq(Item), WriteBack(p, items),
           pc[p] # "idle", cmd[p].op # "get", file' \in Files,
           file' = Missing => file = Missing
    PROVE  TypeOK'
<1>1. /\ pc \in [Procs -> {"idle", "look", "create", "read", "truncate", "write"}]
      /\ cmd \in [Procs -> Commands]
  BY DEF TypeOK
<1>. DEFINE c == [cmd[p] EXCEPT !.text = items]
<1>2. c \in Commands /\ c.todo = cmd[p].todo /\ c.op = cmd[p].op /\ c.key = cmd[p].key
  BY <1>1 DEF Commands
<1>. HIDE DEF c
<1>3. cmd' = [cmd EXCEPT ![p] = c] /\ pc' = [pc EXCEPT ![p] = "truncate"]
  BY <1>1 DEF WriteBack, Goto, c
<1>. QED  BY <1>1, <1>2, <1>3 DEF TypeOK

LEMMA FirstEntry ==
    ASSUME TypeOK, NEW p \in Procs, pc[p] # "idle", cmd[p].op = "set"
    PROVE  cmd[p].todo[1].key \in Keys /\ cmd[p].todo[1].val \in Values
<1>1. cmd[p].todo \in Seq(Entries) /\ cmd[p].todo # <<>>
  BY DEF TypeOK, Commands, Entries
<1>2. cmd[p].todo[1] \in Entries
  BY <1>1
<1>. QED  BY <1>2 DEF Entries

LEMMA StepType ==
    ASSUME TypeOK, NEW p \in Procs, Step(p) \/ Kill(p)
    PROVE  TypeOK'
<1>1. /\ file \in Files
      /\ pc \in [Procs -> {"idle", "look", "create", "read", "truncate", "write"}]
      /\ cmd \in [Procs -> Commands]
      /\ \A q \in Procs :
            /\ pc[q] # "idle" /\ cmd[q].op = "set" => cmd[q].todo # <<>>
            /\ pc[q] # "idle" /\ cmd[q].op # "set" => cmd[q].key \in Keys
            /\ pc[q] \in {"truncate", "write"} => cmd[q].op # "get"
            /\ pc[q] = "read" => file # Missing
  BY DEF TypeOK
<1>2. NoCommand \in Commands
  BY DEF NoCommand, Commands
<1>3. Text(<<>>) \in Files \ {Missing}
  <2>1. <<>> \in Seq(Item)
    OBVIOUS
  <2>. QED  BY <2>1, TextType
<1>4. ASSUME Begin(p) PROVE TypeOK'
  <2>1. /\ file' = file
        /\ pc' = [pc EXCEPT ![p] = "look"]
        /\ \E c \in Commands :
              /\ cmd' = [cmd EXCEPT ![p] = c]
              /\ c.op = "set" => c.todo # <<>>
              /\ c.op # "set" => c.key \in Keys
    <3>1. ASSUME NEW k \in Keys, NEW o \in {"get", "delete"},
                 cmd' = [cmd EXCEPT ![p] = [op |-> o, key |-> k, todo |-> <<>>, text |-> <<>>]]
          PROVE  \E c \in Commands :
                    /\ cmd' = [cmd EXCEPT ![p] = c]
                    /\ c.op = "set" => c.todo # <<>>
                    /\ c.op # "set" => c.key \in Keys
      <4>. DEFINE c == [op |-> o, key |-> k, todo |-> <<>>, text |-> <<>>]
      <4>2. c \in Commands /\ c.op = o /\ c.key = k
        BY NoneYet DEF Commands, Entries
      <4>. HIDE DEF c
      <4>3. cmd' = [cmd EXCEPT ![p] = c]
        BY <3>1 DEF c
      <4>. QED  BY <4>2, <4>3
    <3>2. ASSUME NEW l \in Loads,
                 cmd' = [cmd EXCEPT ![p] = [op |-> "set", key |-> Nothing, todo |-> l, text |-> <<>>]]
          PROVE  \E c \in Commands :
                    /\ cmd' = [cmd EXCEPT ![p] = c]
                    /\ c.op = "set" => c.todo # <<>>
                    /\ c.op # "set" => c.key \in Keys
      <4>. DEFINE c == [op |-> "set", key |-> Nothing, todo |-> l, text |-> <<>>]
      <4>1. l \in Seq(Entries) /\ l # <<>>
        BY FileCacheAssumption DEF Entries
      <4>3. c \in Commands /\ c.op = "set" /\ c.todo = l
        BY <4>1, NoneYet DEF Commands, Entries
      <4>. HIDE DEF c
      <4>4. cmd' = [cmd EXCEPT ![p] = c]
        BY <3>2 DEF c
      <4>. QED  BY <4>1, <4>3, <4>4
    <3>. QED  BY <1>4, <3>1, <3>2 DEF Begin, Goto
  <2>. QED  BY <1>1, <2>1 DEF TypeOK
<1>5. ASSUME Look(p) PROVE TypeOK'
  BY <1>1, <1>5 DEF Look, Goto, TypeOK
<1>6. ASSUME Create(p) PROVE TypeOK'
  <2>1. pc[p] = "create" /\ file' \in Files \ {Missing}
    BY <1>3, <1>6 DEF Create
  <2>2. CASE cmd[p].op = "set"
    <3>1. Items(cmd[p].todo[1].key, cmd[p].todo[1].val) \in Seq(Item)
      BY <2>1, <2>2, FirstEntry, ItemsType
    <3>. QED  BY <1>6, <2>1, <2>2, <3>1, WriteBackType DEF Create
  <2>. QED  BY <1>6, <2>1, <2>2, DoneType DEF Create
<1>7. ASSUME Read(p) PROVE TypeOK'
  <2>1. pc[p] = "read" /\ file' \in Files /\ file' = file
    BY <1>1, <1>7 DEF Read
  <2>2. file \in Seq(Item)
    BY <1>1, <2>1 DEF Files, Texts
  <2>3. ASSUME GetReads(p) PROVE TypeOK'
    BY <2>1, <2>3, DoneType DEF GetReads
  <2>4. ASSUME SetReads(p) PROVE TypeOK'
    <3>. DEFINE e == cmd[p].todo[1]
    <3>1. e.key \in Keys /\ e.val \in Values
      BY <2>1, <2>4, FirstEntry DEF SetReads
    <3>2. With(file, e.key, e.val) \in Seq(Item)
      BY <2>2, <3>1, WithType
    <3>. QED  BY <2>1, <2>4, <3>2, WriteBackType DEF SetReads
  <2>5. ASSUME DeleteReads(p) PROVE TypeOK'
    <3>1. CASE Places(file, cmd[p].key) = {}
      BY <2>1, <2>5, <3>1, DoneType DEF DeleteReads
    <3>2. CASE Places(file, cmd[p].key) # {}
      <4>1. Without(file, cmd[p].key) \in Seq(Item)
        BY <2>2, <3>2, WithoutType
      <4>. QED  BY <2>1, <2>5, <3>2, <4>1, WriteBackType DEF DeleteReads
    <3>. QED  BY <3>1, <3>2
  <2>. QED  BY <1>7, <2>3, <2>4, <2>5 DEF Read
<1>8. ASSUME Truncate(p) PROVE TypeOK'
  BY <1>1, <1>3, <1>8 DEF Truncate, Goto, TypeOK
<1>9. ASSUME Write(p) PROVE TypeOK'
  <2>1. cmd[p].text \in Seq(Item)
    BY <1>1 DEF Commands
  <2>2. file' \in Files \ {Missing}
    BY <1>9, <2>1, TextType DEF Write
  <2>3. pc[p] # "idle"
    BY <1>9 DEF Write
  <2>. QED  BY <1>9, <2>2, <2>3, DoneType DEF Write
<1>10. ASSUME Fails(p) PROVE TypeOK'
  BY <1>1, <1>10, DoneType DEF Fails
<1>11. ASSUME Kill(p) PROVE TypeOK'
  BY <1>1, <1>2, <1>11 DEF Kill, Goto, TypeOK
<1>. QED
  BY <1>4, <1>5, <1>6, <1>7, <1>8, <1>9, <1>10, <1>11 DEF Step

(* Types, for any keys, values, loads and commands.                        *)
THEOREM TypeCorrect == Spec => []TypeOK
<1>1. Init => TypeOK
  <2>1. NoCommand \in Commands
    BY DEF NoCommand, Commands
  <2>. QED  BY <2>1 DEF Init, TypeOK, Files
<1>2. TypeOK /\ [Next /\ WritesApart']_vars => TypeOK'
  <2>1. TypeOK /\ UNCHANGED vars => TypeOK'
    BY DEF TypeOK, vars
  <2>. QED  BY <2>1, StepType DEF Next
<1>. QED  BY <1>1, <1>2, PTL DEF Spec

-----------------------------------------------------------------------------
(* What With and Without do to a text in which each key has one entry      *)

LEMMA ShownAt ==
    ASSUME NEW items \in Seq(Item), OneEntry(items),
           NEW i \in 1..Len(items), items[i].name \in Keys
    PROVE  Shown(items, items[i].name) = items[i].val
<1>. DEFINE k == items[i].name
<1>1. i \in Places(items, k)
  BY DEF Places
<1>2. Place(items, k) \in 1..Len(items) /\ items[Place(items, k)].name = k
  BY <1>1, PlaceIn
<1>3. Place(items, k) = i
  BY <1>2 DEF OneEntry
<1>. QED  BY <1>1, <1>3 DEF Shown

LEMMA ShownNowhere ==
    ASSUME NEW items \in Seq(Item), NEW k,
           \A i \in 1..Len(items) : items[i].name # k
    PROVE  Shown(items, k) = Nothing
<1>1. Places(items, k) = {}
  BY DEF Places
<1>. QED  BY <1>1 DEF Shown

LEMMA ShownType ==
    ASSUME NEW items \in Seq(Item), NEW k
    PROVE  Shown(items, k) \in Pieces \cup {Nothing}
<1>1. CASE Places(items, k) = {}
  BY <1>1 DEF Shown
<1>2. CASE Places(items, k) # {}
  <2>1. items[Place(items, k)] \in Item
    BY <1>2, PlaceIn
  <2>. QED  BY <1>2, <2>1 DEF Shown, Item
<1>. QED  BY <1>1, <1>2

LEMMA PlainItems ==
    ASSUME PlainValues, NEW k \in Keys, NEW v \in Values
    PROVE  /\ Items(k, v) = <<[name |-> k, val |-> v[1][1]]>>
           /\ v[1][1] \in Pieces
           /\ [name |-> k, val |-> v[1][1]] \in Item
<1>1. v \in Seq(Seq(Pieces) \ {<<>>}) /\ Len(v) = 1 /\ 1 \in 1..Len(v)
  BY FileCacheAssumption DEF PlainValues
<1>2. v[1][1] \in Pieces
  BY <1>1, PieceIn
<1>3. [name |-> k, val |-> v[1][1]] \in Item
  BY <1>2 DEF Item
<1>. DEFINE x == [name |-> k, val |-> v[1][1]]
<1>4. Items(k, v) \in Seq(Item) /\ Len(Items(k, v)) = 1 /\ Items(k, v)[1] = x
  <2>1. Items(k, v) = [i \in 1..1 |->
                          IF i = 1 THEN x
                          ELSE [name |-> v[i][1],
                                val  |-> IF Len(v[i]) > 1 THEN v[i][2]
                                         ELSE Nothing]]
    BY <1>1 DEF Items
  <2>2. Items(k, v) \in Seq(Item)
    BY ItemsType
  <2>. QED  BY <2>1, <2>2
<1>5. <<x>> \in Seq(Item) /\ Len(<<x>>) = 1 /\ <<x>>[1] = x
  BY <1>3
<1>. HIDE DEF x
<1>6. Items(k, v) = <<x>>
  BY <1>4, <1>5, SeqEqual
<1>. QED  BY <1>2, <1>3, <1>6 DEF x

LEMMA Splice ==
    ASSUME NEW s \in Seq(Item), NEW i \in 1..Len(s), NEW x \in Item
    PROVE  SubSeq(s, 1, i - 1) \o <<x>> \o SubSeq(s, i + 1, Len(s))
             = [s EXCEPT ![i] = x]
<1>. DEFINE n == Len(s)
            A == SubSeq(s, 1, i - 1)
            B == SubSeq(s, i + 1, n)
            e == [s EXCEPT ![i] = x]
<1>1. n \in Nat /\ i \in Nat /\ 1 <= i /\ i <= n
  OBVIOUS
<1>2. /\ A \in Seq(Item) /\ Len(A) = i - 1
      /\ \A j \in 1..i - 1 : A[j] = s[j]
  BY <1>1, SubSeqProperties
<1>3. /\ B \in Seq(Item) /\ Len(B) = n - i
      /\ \A j \in 1..n - i : B[j] = s[i + j]
  BY <1>1, SubSeqProperties
<1>4. /\ e \in Seq(Item) /\ Len(e) = n
      /\ \A j \in 1..n : e[j] = IF j = i THEN x ELSE s[j]
  BY ExceptSeq
<1>. HIDE DEF A, B, e, n
<1>. DEFINE c == A \o <<x>> \o B
<1>5. /\ c \in Seq(Item) /\ Len(c) = n
      /\ \A j \in 1..n : c[j] = IF j < i THEN A[j] ELSE IF j = i THEN x ELSE B[j - i]
  BY <1>1, <1>2, <1>3
<1>6. \A j \in 1..n : c[j] = e[j]
  <2>. SUFFICES ASSUME NEW j \in 1..n PROVE c[j] = e[j]
    OBVIOUS
  <2>. HIDE DEF c
  <2>1. CASE j < i
    BY <1>1, <1>2, <1>4, <1>5, <2>1
  <2>2. CASE j = i
    BY <1>1, <1>4, <1>5, <2>2
  <2>3. CASE j > i
    <3>1. j - i \in 1..n - i /\ i + (j - i) = j
      BY <1>1, <2>3
    <3>2. c[j] = B[j - i]
      BY <1>1, <1>5, <2>3
    <3>3. B[j - i] = s[i + (j - i)]
      BY <1>3, <3>1
    <3>4. e[j] = s[j]
      BY <1>1, <1>4, <2>3
    <3>. QED  BY <3>1, <3>2, <3>3, <3>4
  <2>. QED  BY <1>1, <2>1, <2>2, <2>3
<1>. HIDE DEF c
<1>7. c = e
  BY <1>4, <1>5, <1>6, SeqEqual
<1>. QED  BY <1>7 DEF c, e, A, B, n

LEMMA WithPlain ==
    ASSUME PlainValues, NEW items \in Seq(Item), OneEntry(items),
           NEW k \in Keys, NEW v \in Values
    PROVE  /\ OneEntry(With(items, k, v))
           /\ ShownMap(With(items, k, v)) = [ShownMap(items) EXCEPT ![k] = v[1][1]]
<1>. DEFINE x == [name |-> k, val |-> v[1][1]]
            w == With(items, k, v)
            n == Len(items)
<1>1. Items(k, v) = <<x>> /\ x \in Item /\ x.name = k /\ x.val = v[1][1]
  BY PlainItems
<1>2. w \in Seq(Item) /\ n \in Nat
  BY WithType
\* i: where the new entry is; all other items are where they were.
<1>3. \E i \in 1..Len(w) :
         /\ w[i] = x
         /\ \A j \in 1..Len(w) \ {i} : j \in 1..n /\ w[j] = items[j]
         /\ \A j \in 1..n \ {i} : j \in 1..Len(w)
         /\ \A j \in 1..n : j # i => items[j].name # k
         /\ i \in 1..n => items[i].name = k
  <2>1. CASE Places(items, k) = {}
    <3>1. w = items \o <<x>>
      BY <1>1, <2>1 DEF With
    <3>2. /\ Len(w) = n + 1 /\ w[n + 1] = x
          /\ \A j \in 1..n : w[j] = items[j]
      BY <1>1, <1>2, <3>1
    <3>3. \A j \in 1..n : items[j].name # k
      BY <2>1 DEF Places
    <3>. HIDE DEF w, x
    <3>. QED  BY <1>2, <3>2, <3>3
  <2>2. CASE Places(items, k) # {}
    <3>. DEFINE i == Place(items, k)
    <3>1. i \in 1..n /\ items[i].name = k
      BY <2>2, PlaceIn
    <3>2. w = SubSeq(items, 1, i - 1) \o <<x>> \o SubSeq(items, i + 1, n)
      BY <1>1, <2>2 DEF With
    <3>. HIDE DEF i, x
    <3>3. w = [items EXCEPT ![i] = x]
      BY <1>1, <3>1, <3>2, Splice
    <3>4. /\ Len(w) = n /\ w[i] = x
          /\ \A j \in 1..n \ {i} : w[j] = items[j]
      BY <1>1, <3>1, <3>3
    <3>5. \A j \in 1..n : j # i => items[j].name # k
      BY <3>1 DEF OneEntry
    <3>. QED  BY <3>1, <3>4, <3>5
  <2>. QED  BY <2>1, <2>2
<1>4. PICK i \in 1..Len(w) :
         /\ w[i] = x
         /\ \A j \in 1..Len(w) \ {i} : j \in 1..n /\ w[j] = items[j]
         /\ \A j \in 1..n \ {i} : j \in 1..Len(w)
         /\ \A j \in 1..n : j # i => items[j].name # k
         /\ i \in 1..n => items[i].name = k
  BY <1>3
<1>. HIDE DEF x, w
<1>5. OneEntry(w)
  <2>. SUFFICES ASSUME NEW s \in 1..Len(w), NEW t \in 1..Len(w),
                       w[s].name = w[t].name, w[s].name \in Keys
                PROVE  s = t
    BY <1>2 DEF OneEntry
  <2>1. \A c \in 1..Len(w) \ {i} : c \in 1..n /\ w[c] = items[c] /\ w[c].name # k
    BY <1>4
  <2>2. CASE s = i \/ t = i
    BY <1>1, <1>4, <2>1, <2>2
  <2>3. CASE s # i /\ t # i
    BY <1>2, <2>1, <2>3 DEF OneEntry
  <2>. QED  BY <2>2, <2>3
<1>6. Shown(w, k) = v[1][1]
  BY <1>1, <1>2, <1>4, <1>5, ShownAt
<1>7. ASSUME NEW l \in Keys, l # k
      PROVE  Shown(w, l) = Shown(items, l)
  <2>1. CASE \E j \in 1..n : items[j].name = l
    <3>1. PICK j \in 1..n : items[j].name = l
      BY <2>1
    <3>2. j \in 1..Len(w) /\ w[j] = items[j]
      BY <1>4, <1>7, <3>1
    <3>3. Shown(w, l) = w[j].val
      BY <1>2, <1>5, <3>1, <3>2, ShownAt
    <3>4. Shown(items, l) = items[j].val
      BY <3>1, ShownAt
    <3>. QED  BY <3>2, <3>3, <3>4
  <2>2. CASE \A j \in 1..n : items[j].name # l
    <3>1. \A j \in 1..Len(w) : w[j].name # l
      BY <1>1, <1>4, <1>7, <2>2
    <3>2. Shown(w, l) = Nothing
      BY <1>2, <3>1, ShownNowhere
    <3>3. Shown(items, l) = Nothing
      BY <2>2, ShownNowhere
    <3>. QED  BY <3>2, <3>3
  <2>. QED  BY <2>1, <2>2
<1>8. ShownMap(w) = [ShownMap(items) EXCEPT ![k] = v[1][1]]
  BY <1>6, <1>7 DEF ShownMap
<1>. QED  BY <1>5, <1>8 DEF w

LEMMA WithoutPlain ==
    ASSUME NEW items \in Seq(Item), OneEntry(items),
           NEW k \in Keys, Places(items, k) # {}
    PROVE  /\ OneEntry(Without(items, k))
           /\ ShownMap(Without(items, k)) = [ShownMap(items) EXCEPT ![k] = Nothing]
<1>. DEFINE i == Place(items, k)
            n == Len(items)
            S == [items EXCEPT ![i] = items[n]]
            w == Without(items, k)
<1>1. i \in 1..n /\ n \in Nat /\ items[i].name = k
  BY PlaceIn
<1>2. /\ S \in Seq(Item) /\ Len(S) = n
      /\ \A j \in 1..n : S[j] = IF j = i THEN items[n] ELSE items[j]
  <2>1. items[n] \in Item
    BY <1>1
  <2>. HIDE DEF i
  <2>. QED  BY <1>1, <2>1, ExceptSeq
<1>3. w = SubSeq(S, 1, n - 1)
  BY DEF Without
<1>. HIDE DEF i, S, w
<1>4. /\ w \in Seq(Item) /\ Len(w) = n - 1
      /\ \A j \in 1..n - 1 : w[j] = S[j]
  BY <1>1, <1>2, <1>3, SubSeqProperties
<1>5. \A j \in 1..n - 1 : w[j] = IF j = i THEN items[n] ELSE items[j]
  BY <1>1, <1>2, <1>4
<1>6. \A j \in 1..n : j # i => items[j].name # k
  BY <1>1 DEF OneEntry
<1>7. OneEntry(w)
  <2>. SUFFICES ASSUME NEW g \in 1..n - 1, NEW h \in 1..n - 1,
                       w[g].name = w[h].name, w[g].name \in Keys
                PROVE  g = h
    BY <1>4 DEF OneEntry
  <2>. QED  BY <1>1, <1>5 DEF OneEntry
<1>8. Shown(w, k) = Nothing
  <2>1. \A j \in 1..Len(w) : w[j].name # k
    BY <1>1, <1>4, <1>5, <1>6
  <2>. QED  BY <1>4, <2>1, ShownNowhere
<1>9. ASSUME NEW l \in Keys, l # k
      PROVE  Shown(w, l) = Shown(items, l)
  <2>1. CASE \E j \in 1..n : items[j].name = l
    <3>1. PICK j \in 1..n : items[j].name = l
      BY <2>1
    <3>2. PICK m \in 1..n - 1 : w[m] = items[j]
      <4>1. CASE j = n
        BY <1>1, <1>5, <1>9, <3>1, <4>1
      <4>2. CASE j # n
        BY <1>1, <1>5, <1>9, <3>1, <4>2
      <4>. QED  BY <4>1, <4>2
    <3>3. Shown(w, l) = w[m].val
      BY <1>4, <1>7, <3>1, <3>2, ShownAt
    <3>4. Shown(items, l) = items[j].val
      BY <3>1, ShownAt
    <3>. QED  BY <3>2, <3>3, <3>4
  <2>2. CASE \A j \in 1..n : items[j].name # l
    <3>1. \A j \in 1..Len(w) : w[j].name # l
      BY <1>1, <1>4, <1>5, <2>2
    <3>2. Shown(w, l) = Nothing
      BY <1>4, <3>1, ShownNowhere
    <3>3. Shown(items, l) = Nothing
      BY <2>2, ShownNowhere
    <3>. QED  BY <3>2, <3>3
  <2>. QED  BY <2>1, <2>2
<1>10. ShownMap(w) = [ShownMap(items) EXCEPT ![k] = Nothing]
  BY <1>8, <1>9 DEF ShownMap
<1>. QED  BY <1>7, <1>10 DEF w

LEMMA TextPlain ==
    ASSUME NEW items \in Seq(Item), OneEntry(items)
    PROVE  OneEntry(Text(items)) /\ ShownMap(Text(items)) = ShownMap(items)
<1>1. CASE items # <<>>
  BY <1>1 DEF Text
<1>2. CASE items = <<>>
  <2>. DEFINE t == <<Blank>>
  <2>1. Blank \in Item /\ Blank.name \notin Keys
    BY FileCacheAssumption DEF Blank, Item
  <2>2. t \in Seq(Item) /\ Len(t) = 1 /\ t[1] = Blank
    BY <2>1
  <2>3. Text(items) = t
    BY <1>2 DEF Text
  <2>. HIDE DEF t
  <2>4. OneEntry(t)
    BY <2>2 DEF OneEntry
  <2>5. \A k \in Keys : Shown(t, k) = Nothing
    BY <2>1, <2>2, ShownNowhere
  <2>6. Len(items) = 0
    BY <1>2
  <2>7. \A k \in Keys : Shown(items, k) = Nothing
    <3>1. \A i \in 1..Len(items) : FALSE
      BY <2>6
    <3>. QED  BY <3>1, ShownNowhere
  <2>. QED  BY <2>3, <2>4, <2>5, <2>7 DEF ShownMap
<1>. QED  BY <1>1, <1>2

-----------------------------------------------------------------------------
(* One entry per key *)

Inv == TypeOK /\ OneEntryPerKey

LEMMA NoneOnce == OneEntry(<<>>)
  BY DEF OneEntry

LEMMA KeptText ==
    ASSUME TypeOK, OneEntryPerKey, NEW p \in Procs, NEW c, OneEntry(c.text),
           cmd' = [cmd EXCEPT ![p] = c], file' # Missing => OneEntry(file')
    PROVE  OneEntryPerKey'
  BY DEF TypeOK, OneEntryPerKey

LEMMA DoneOnce ==
    ASSUME TypeOK, OneEntryPerKey, NEW p \in Procs, Done(p),
           file' # Missing => OneEntry(file')
    PROVE  OneEntryPerKey'
<1>1. cmd \in [Procs -> Commands] /\ cmd[p] \in Commands
  BY DEF TypeOK
<1>2. CASE Len(cmd[p].todo) > 1
  <2>. DEFINE c == [cmd[p] EXCEPT !.text = <<>>, !.todo = Tail(cmd[p].todo)]
  <2>1. OneEntry(c.text)
    BY <1>1, NoneOnce DEF Commands
  <2>. HIDE DEF c
  <2>2. cmd' = [cmd EXCEPT ![p] = c]
    BY <1>1, <1>2 DEF Done, c
  <2>. QED  BY <2>1, <2>2, KeptText
<1>3. CASE ~(Len(cmd[p].todo) > 1)
  <2>1. cmd' = [cmd EXCEPT ![p] = NoCommand] /\ OneEntry(NoCommand.text)
    BY <1>3, NoneOnce DEF Done, NoCommand
  <2>. QED  BY <2>1, KeptText
<1>. QED  BY <1>2, <1>3

LEMMA WriteBackOnce ==
    ASSUME TypeOK, OneEntryPerKey, NEW p \in Procs, NEW items, OneEntry(items),
           WriteBack(p, items), file' # Missing => OneEntry(file')
    PROVE  OneEntryPerKey'
<1>1. cmd \in [Procs -> Commands] /\ cmd[p] \in Commands
  BY DEF TypeOK
<1>. DEFINE c == [cmd[p] EXCEPT !.text = items]
<1>2. c.text = items
  BY <1>1 DEF Commands
<1>. HIDE DEF c
<1>3. cmd' = [cmd EXCEPT ![p] = c]
  BY <1>1 DEF WriteBack, c
<1>. QED  BY <1>2, <1>3, KeptText

LEMMA StepOnce ==
    ASSUME PlainValues, TypeOK, OneEntryPerKey, NEW p \in Procs, Step(p) \/ Kill(p)
    PROVE  OneEntryPerKey'
<1>1. OneEntry(Text(<<>>))
  BY NoneOnce, NoneYet, TextPlain
<1>2. file # Missing => OneEntry(file)
  BY DEF OneEntryPerKey
<1>3. ASSUME Begin(p) PROVE OneEntryPerKey'
  <2>1. \E c : OneEntry(c.text) /\ cmd' = [cmd EXCEPT ![p] = c]
    BY <1>3, NoneOnce DEF Begin
  <2>. QED  BY <1>2, <1>3, <2>1, KeptText DEF Begin
<1>4. ASSUME Look(p) PROVE OneEntryPerKey'
  BY <1>4 DEF Look, OneEntryPerKey
<1>5. ASSUME Create(p) PROVE OneEntryPerKey'
  <2>1. pc[p] = "create" /\ OneEntry(file')
    BY <1>1, <1>5 DEF Create
  <2>2. CASE cmd[p].op = "set"
    <3>. DEFINE e == cmd[p].todo[1]
    <3>1. e.key \in Keys /\ e.val \in Values
      BY <2>1, <2>2, FirstEntry
    <3>2. Items(e.key, e.val) = <<[name |-> e.key, val |-> e.val[1][1]]>>
      BY <3>1, PlainItems
    <3>3. OneEntry(Items(e.key, e.val))
      BY <3>2 DEF OneEntry
    <3>. QED  BY <1>5, <2>1, <2>2, <3>3, WriteBackOnce DEF Create
  <2>. QED  BY <1>5, <2>1, <2>2, DoneOnce DEF Create
<1>6. ASSUME Read(p) PROVE OneEntryPerKey'
  <2>1. pc[p] = "read" /\ file' = file /\ file \in Seq(Item) /\ OneEntry(file)
    BY <1>6 DEF Read, TypeOK, Files, Texts, OneEntryPerKey
  <2>2. ASSUME GetReads(p) PROVE OneEntryPerKey'
    BY <2>1, <2>2, DoneOnce DEF GetReads
  <2>3. ASSUME SetReads(p) PROVE OneEntryPerKey'
    <3>. DEFINE e == cmd[p].todo[1]
    <3>1. e.key \in Keys /\ e.val \in Values
      BY <2>1, <2>3, FirstEntry DEF SetReads
    <3>2. OneEntry(With(file, e.key, e.val))
      BY <2>1, <3>1, WithPlain
    <3>. QED  BY <2>1, <2>3, <3>2, WriteBackOnce DEF SetReads
  <2>4. ASSUME DeleteReads(p) PROVE OneEntryPerKey'
    <3>1. cmd[p].key \in Keys
      BY <2>1, <2>4 DEF TypeOK, DeleteReads
    <3>2. CASE Places(file, cmd[p].key) = {}
      BY <2>1, <2>4, <3>2, DoneOnce DEF DeleteReads
    <3>3. CASE Places(file, cmd[p].key) # {}
      BY <2>1, <2>4, <3>1, <3>3, WithoutPlain, WriteBackOnce DEF DeleteReads
    <3>. QED  BY <3>2, <3>3
  <2>. QED  BY <1>6, <2>2, <2>3, <2>4 DEF Read
<1>7. ASSUME Truncate(p) PROVE OneEntryPerKey'
  BY <1>1, <1>7 DEF Truncate, OneEntryPerKey
<1>8. ASSUME Write(p) PROVE OneEntryPerKey'
  <2>1. cmd[p].text \in Seq(Item) /\ OneEntry(cmd[p].text)
    BY DEF TypeOK, Commands, OneEntryPerKey
  <2>2. OneEntry(file')
    BY <1>8, <2>1, TextPlain DEF Write
  <2>. QED  BY <1>8, <2>2, DoneOnce DEF Write
<1>9. ASSUME Fails(p) PROVE OneEntryPerKey'
  BY <1>2, <1>9, DoneOnce DEF Fails
<1>10. ASSUME Kill(p) PROVE OneEntryPerKey'
  <2>1. cmd' = [cmd EXCEPT ![p] = NoCommand] /\ OneEntry(NoCommand.text)
    BY <1>10, NoneOnce DEF Kill, NoCommand
  <2>. QED  BY <1>2, <1>10, <2>1, KeptText DEF Kill
<1>. QED
  BY <1>3, <1>4, <1>5, <1>6, <1>7, <1>8, <1>9, <1>10 DEF Step

LEMMA InvInit == Init => Inv
<1>1. NoCommand \in Commands /\ OneEntry(NoCommand.text)
  BY NoneOnce DEF NoCommand, Commands
<1>. QED  BY <1>1 DEF Init, Inv, TypeOK, Files, OneEntryPerKey

LEMMA InvNext ==
    ASSUME PlainValues
    PROVE  Inv /\ [Next /\ WritesApart']_vars => Inv'
<1>1. Inv /\ UNCHANGED vars => Inv'
  BY DEF Inv, TypeOK, OneEntryPerKey, vars
<1>. QED  BY <1>1, StepType, StepOnce DEF Next, Inv

(* One entry per key, for any keys, commands and values in one piece:      *)
(* however commands overlap or die, set replaces the entry that is there.  *)
THEOREM UniqueEntries ==
    ASSUME PlainValues
    PROVE  Spec => []OneEntryPerKey
  BY InvInit, InvNext, PTL DEF Spec, Inv

-----------------------------------------------------------------------------
(* The commands implement a map *)

Plan == [q \in Procs |-> Planned(q)]

Asked == [q \in Procs |-> Requested(q)]

Changes == [key : Keys, val : Pieces \cup {Nothing}]

\* What p leaves if it sees the map as it is.
After(p) ==
    IF Requested(p) = Nothing THEN Mapped
    ELSE [Mapped EXCEPT ![Requested(p).key] = Requested(p).val]

Maps == [Keys -> Pieces \cup {Nothing}]

LEMMA ShownMapType ==
    ASSUME NEW items \in Seq(Item)
    PROVE  ShownMap(items) \in Maps
  BY ShownType DEF ShownMap, Maps

LEMMA MappedType ==
    ASSUME TypeOK
    PROVE  Mapped \in Maps
  BY ShownMapType DEF TypeOK, Files, Texts, Mapped, NoEntries, Maps

LEMMA PlannedType ==
    ASSUME PlainValues, TypeOK, NEW p \in Procs,
           pc[p] \in {"create", "truncate", "write"}
    PROVE  Planned(p) # Nothing
<1>1. NoEntries \in Maps
  BY DEF NoEntries, Maps
<1>2. CASE pc[p] = "create" /\ cmd[p].op = "set"
  <2>. DEFINE e == cmd[p].todo[1]
  <2>1. e.key \in Keys /\ e.val[1][1] \in Pieces
    BY <1>2, FirstEntry, PlainItems
  <2>2. [NoEntries EXCEPT ![e.key] = e.val[1][1]] \in Maps
    BY <1>1, <2>1 DEF Maps
  <2>. QED  BY <1>2, <2>2, FileCacheAssumption DEF Planned, Maps
<1>3. CASE pc[p] = "create" /\ cmd[p].op # "set"
  BY <1>1, <1>3, FileCacheAssumption DEF Planned, Maps
<1>4. CASE pc[p] \in {"truncate", "write"}
  <2>1. cmd[p].text \in Seq(Item)
    BY DEF TypeOK, Commands
  <2>2. ShownMap(cmd[p].text) \in Maps
    BY <2>1, ShownMapType
  <2>. QED  BY <1>4, <2>2, FileCacheAssumption DEF Planned, Maps
<1>. QED  BY <1>2, <1>3, <1>4

LEMMA AfterSet ==
    ASSUME PlainValues, TypeOK, NEW p \in Procs, pc[p] # "idle", cmd[p].op = "set"
    PROVE  After(p) = [Mapped EXCEPT ![cmd[p].todo[1].key] = cmd[p].todo[1].val[1][1]]
<1>. DEFINE c == [key |-> cmd[p].todo[1].key, val |-> cmd[p].todo[1].val[1][1]]
<1>1. Requested(p) = c /\ c.key = cmd[p].todo[1].key /\ c.val = cmd[p].todo[1].val[1][1]
  BY DEF Requested
<1>2. cmd[p].todo[1].key \in Keys /\ cmd[p].todo[1].val[1][1] \in Pieces
  BY FirstEntry, PlainItems
<1>3. c \in Changes
  BY <1>2 DEF Changes
<1>. HIDE DEF c
<1>4. Requested(p) # Nothing
  BY <1>1, <1>3, FileCacheAssumption DEF Changes
<1>. QED  BY <1>1, <1>4 DEF After

LEMMA AfterDelete ==
    ASSUME TypeOK, NEW p \in Procs, pc[p] # "idle", cmd[p].op = "delete"
    PROVE  After(p) = [Mapped EXCEPT ![cmd[p].key] = Nothing]
<1>. DEFINE c == [key |-> cmd[p].key, val |-> Nothing]
<1>1. Requested(p) = c /\ c.key = cmd[p].key /\ c.val = Nothing
  BY DEF Requested
<1>2. c \in Changes
  BY DEF TypeOK, Changes
<1>. HIDE DEF c
<1>3. Requested(p) # Nothing
  BY <1>1, <1>2, FileCacheAssumption DEF Changes
<1>. QED  BY <1>1, <1>3 DEF After

LEMMA AfterGet ==
    ASSUME NEW p \in Procs, cmd[p].op = "get"
    PROVE  After(p) = Mapped
  BY DEF After, Requested

LEMMA Undecided ==
    ASSUME NEW p \in Procs, pc[p] \notin {"create", "truncate", "write"}
    PROVE  Planned(p) = Nothing
  BY DEF Planned

LEMMA DonePlan ==
    ASSUME TypeOK, NEW p \in Procs, Done(p)
    PROVE  Planned(p)' = Nothing
  BY DEF TypeOK, Done, Goto, Planned

LEMMA OneByOne ==
    ASSUME TypeOK, NEW p \in Procs, Step(p) \/ Kill(p)
    PROVE  /\ Plan' = [Plan EXCEPT ![p] = Planned(p)']
           /\ Asked' = [Asked EXCEPT ![p] = Requested(p)']
<1>1. \A q \in Procs \ {p} : pc'[q] = pc[q] /\ cmd'[q] = cmd[q]
  BY DEF TypeOK, Step, Kill, Begin, Look, Create, Read, GetReads, SetReads,
     DeleteReads, Truncate, Write, Fails, WriteBack, Done, Goto
<1>2. \A q \in Procs \ {p} : Planned(q)' = Planned(q)
  BY <1>1 DEF Planned, ShownMap, NoEntries
<1>3. \A q \in Procs \ {p} : Requested(q)' = Requested(q)
  BY <1>1 DEF Requested
<1>. QED  BY <1>2, <1>3 DEF Plan, Asked

Touches(p) ==
    /\ Plan' = [Plan EXCEPT ![p] = Planned(p)']
    /\ Asked' = [Asked EXCEPT ![p] = Requested(p)']
    /\ Requested(p)' \in Changes \cup {Nothing}

(* The ways in which a step of p shows in KeyValueMap.                     *)
LEMMA ShowsBegin ==
    ASSUME NEW p \in Procs, Touches(p), Mapped' = Mapped,
           Planned(p) = Nothing, Planned(p)' = Nothing
    PROVE  [Promise!Next]_(Promise!vars)
<1>1. Plan' = Plan /\ Plan[p] = Nothing
  BY DEF Touches, Plan
<1>2. Promise!Begin(p)
  BY <1>1 DEF Touches, Promise!Begin, Promise!Ask, Promise!Changes, Changes,
     Plan, Asked
<1>. QED  BY <1>2 DEF Promise!Next

LEMMA ShowsDecide ==
    ASSUME NEW p \in Procs, Touches(p), Mapped' = Mapped, Planned(p) = Nothing,
           Planned(p)' = After(p), Requested(p)' = Requested(p)
    PROVE  [Promise!Next]_(Promise!vars)
<1>1. Plan[p] = Nothing /\ Asked[p] = Requested(p) /\ Asked' = Asked
  BY DEF Touches, Plan, Asked
<1>2. Plan' = [Plan EXCEPT ![p] =
                 IF Asked[p] = Nothing THEN Mapped
                 ELSE [Mapped EXCEPT ![Asked[p].key] = Asked[p].val]]
  BY <1>1 DEF Touches, After
<1>3. Promise!Decide(p)
  BY <1>1, <1>2 DEF Promise!Decide, Plan, Asked
<1>. QED  BY <1>3 DEF Promise!Next

LEMMA ShowsClear ==
    ASSUME NEW p \in Procs, Touches(p), Mapped' = NoEntries, Planned(p) # Nothing,
           Planned(p)' = Planned(p), Requested(p)' = Requested(p)
    PROVE  [Promise!Next]_(Promise!vars)
<1>1. Plan' = Plan /\ Asked' = Asked /\ Plan[p] = Planned(p)
  BY DEF Touches, Plan, Asked
<1>2. Promise!Clear(p)
  BY <1>1 DEF Promise!Clear, Promise!Empty, Plan, Asked, NoEntries
<1>. QED  BY <1>2 DEF Promise!Next

LEMMA ShowsEnd ==
    ASSUME NEW p \in Procs, Touches(p), Mapped' \in {Planned(p), NoEntries, Mapped},
           Planned(p) # Nothing, Planned(p)' = Nothing
    PROVE  [Promise!Next]_(Promise!vars)
<1>1. Plan[p] = Planned(p) /\ Plan' = [Plan EXCEPT ![p] = Nothing]
  BY DEF Touches, Plan
<1>2. Mapped' \in {Plan[p], NoEntries, Mapped}
  BY <1>1
<1>3. Promise!End(p)
  BY <1>1, <1>2 DEF Touches, Promise!End, Promise!Ask, Promise!Changes,
     Changes, Promise!Empty, Plan, Asked, NoEntries
<1>. QED  BY <1>3 DEF Promise!Next

LEMMA WriteBackPlan ==
    ASSUME TypeOK, NEW p \in Procs, NEW items, WriteBack(p, items)
    PROVE  /\ Planned(p)' = ShownMap(items)
           /\ pc[p] # "idle" => Requested(p)' = Requested(p)
<1>1. pc'[p] = "truncate"
  BY DEF TypeOK, WriteBack, Goto
<1>2. cmd'[p].text = items
  BY DEF TypeOK, Commands, WriteBack
<1>3. cmd'[p].op = cmd[p].op /\ cmd'[p].todo = cmd[p].todo /\ cmd'[p].key = cmd[p].key
  BY DEF TypeOK, Commands, WriteBack
<1>4. pc[p] # "idle" => Requested(p)' = Requested(p)
  BY <1>1, <1>3 DEF Requested
<1>. QED  BY <1>1, <1>2, <1>4 DEF Planned, ShownMap

LEMMA RequestedNext ==
    ASSUME PlainValues, TypeOK', NEW p \in Procs
    PROVE  Requested(p)' \in Changes \cup {Nothing}
<1>. DEFINE c == cmd'[p]
<1>1. c \in Commands
  BY DEF TypeOK
<1>2. CASE pc'[p] # "idle" /\ c.op = "set"
  <2>1. c.todo \in Seq(Entries) /\ c.todo # <<>>
    BY <1>1, <1>2 DEF TypeOK, Commands, Entries
  <2>2. c.todo[1] \in Entries
    BY <2>1
  <2>3. c.todo[1].key \in Keys /\ c.todo[1].val[1][1] \in Pieces
    BY <2>2, PlainItems DEF Entries
  <2>. QED  BY <1>2, <2>3 DEF Requested, Changes
<1>3. CASE pc'[p] # "idle" /\ c.op = "delete"
  BY <1>3 DEF TypeOK, Requested, Changes
<1>4. CASE ~(pc'[p] # "idle" /\ c.op \in {"set", "delete"})
  BY <1>4 DEF Requested
<1>. QED  BY <1>2, <1>3, <1>4

LEMMA EmptyShown == ShownMap(Text(<<>>)) = NoEntries /\ Text(<<>>) # Missing
<1>1. <<>> \in Seq(Item) /\ \A i \in 1..Len(<<>>) : FALSE
  BY NoneYet
<1>2. \A k \in Keys : Shown(<<>>, k) = Nothing
  BY <1>1, ShownNowhere
<1>. QED
  BY <1>1, <1>2, NoneOnce, TextPlain, TextType DEF ShownMap, NoEntries

\* What a command has decided on when it has read the file or made it.
LEMMA CreatePlan ==
    ASSUME PlainValues, TypeOK, NEW p \in Procs, Create(p), cmd[p].op = "set"
    PROVE  Planned(p)' = Planned(p) /\ Requested(p)' = Requested(p)
<1>. DEFINE e == cmd[p].todo[1]
<1>1. pc[p] = "create" /\ e.key \in Keys /\ e.val \in Values
  BY FirstEntry DEF Create
<1>2. Planned(p)' = ShownMap(Items(e.key, e.val)) /\ Requested(p)' = Requested(p)
  BY <1>1, WriteBackPlan DEF Create
<1>3. With(<<>>, e.key, e.val) = Items(e.key, e.val)
  <2>1. Places(<<>>, e.key) = {}
    BY DEF Places
  <2>2. Items(e.key, e.val) \in Seq(Item)
    BY <1>1, ItemsType
  <2>. QED  BY <2>1, <2>2 DEF With
<1>4. ShownMap(With(<<>>, e.key, e.val)) = [ShownMap(<<>>) EXCEPT ![e.key] = e.val[1][1]]
  BY <1>1, NoneYet, NoneOnce, WithPlain
<1>5. ShownMap(<<>>) = NoEntries
  BY EmptyShown, NoneYet, NoneOnce, TextPlain
<1>6. Planned(p) = [NoEntries EXCEPT ![e.key] = e.val[1][1]]
  BY <1>1 DEF Planned
<1>. QED  BY <1>2, <1>3, <1>4, <1>5, <1>6

LEMMA SetPlan ==
    ASSUME PlainValues, TypeOK, NEW p \in Procs, pc[p] = "read", SetReads(p),
           file # Missing, file \in Seq(Item), OneEntry(file)
    PROVE  Planned(p)' = After(p) /\ Requested(p)' = Requested(p)
<1>. DEFINE e == cmd[p].todo[1]
<1>1. e.key \in Keys /\ e.val \in Values /\ cmd[p].op = "set"
  BY FirstEntry DEF SetReads
<1>2. Planned(p)' = ShownMap(With(file, e.key, e.val)) /\ Requested(p)' = Requested(p)
  BY WriteBackPlan DEF SetReads
<1>3. After(p) = [Mapped EXCEPT ![e.key] = e.val[1][1]] /\ Mapped = ShownMap(file)
  BY <1>1, AfterSet DEF Mapped
<1>4. ShownMap(With(file, e.key, e.val)) = [ShownMap(file) EXCEPT ![e.key] = e.val[1][1]]
  BY <1>1, WithPlain
<1>. QED  BY <1>2, <1>3, <1>4

LEMMA DeletePlan ==
    ASSUME TypeOK, NEW p \in Procs, pc[p] = "read", DeleteReads(p),
           Places(file, cmd[p].key) # {},
           file # Missing, file \in Seq(Item), OneEntry(file)
    PROVE  Planned(p)' = After(p) /\ Requested(p)' = Requested(p)
<1>1. cmd[p].key \in Keys /\ cmd[p].op = "delete"
  BY DEF TypeOK, DeleteReads
<1>2. /\ Planned(p)' = ShownMap(Without(file, cmd[p].key))
      /\ Requested(p)' = Requested(p)
  BY WriteBackPlan DEF DeleteReads
<1>3. After(p) = [Mapped EXCEPT ![cmd[p].key] = Nothing] /\ Mapped = ShownMap(file)
  BY <1>1, AfterDelete DEF Mapped
<1>4. ShownMap(Without(file, cmd[p].key)) = [ShownMap(file) EXCEPT ![cmd[p].key] = Nothing]
  BY <1>1, WithoutPlain
<1>. QED  BY <1>2, <1>3, <1>4

LEMMA StepShows ==
    ASSUME PlainValues, Inv, Inv', NEW p \in Procs, Step(p) \/ Kill(p)
    PROVE  [Promise!Next]_(Promise!vars)
<1>1. TypeOK /\ OneEntryPerKey /\ Mapped \in Maps /\ TypeOK'
  BY MappedType DEF Inv
<1>2. Touches(p)
  <2>1. Requested(p)' \in Changes \cup {Nothing}
    BY <1>1, RequestedNext
  <2>. QED  BY <1>1, <2>1, OneByOne DEF Touches
<1>3. pc \in [Procs -> {"idle", "look", "create", "read", "truncate", "write"}]
      /\ cmd \in [Procs -> Commands]
  BY <1>1 DEF TypeOK
<1>4. ASSUME file' = file PROVE Mapped' = Mapped
  BY <1>4 DEF Mapped, ShownMap, NoEntries
<1>5. ASSUME file' = Text(<<>>) PROVE Mapped' = NoEntries
  BY <1>5, EmptyShown DEF Mapped, ShownMap, NoEntries
<1>6. ASSUME Begin(p) PROVE [Promise!Next]_(Promise!vars)
  <2>1. Mapped' = Mapped /\ Planned(p) = Nothing /\ Planned(p)' = Nothing
    BY <1>3, <1>4, <1>6 DEF Begin, Goto, Planned
  <2>. QED  BY <1>2, <2>1, ShowsBegin
<1>7. ASSUME Look(p) PROVE [Promise!Next]_(Promise!vars)
  <2>1. Mapped' = Mapped /\ Planned(p) = Nothing /\ pc[p] = "look" /\ cmd' = cmd
    BY <1>4, <1>7, Undecided DEF Look
  <2>2. CASE file # Missing
    <3>1. Planned(p)' = Nothing
      BY <1>3, <1>7, <2>2 DEF Look, Goto, Planned
    <3>. QED  BY <1>2, <2>1, <3>1, ShowsBegin
  <2>3. CASE file = Missing
    <3>1. Mapped = NoEntries /\ pc'[p] = "create"
      BY <1>3, <1>7, <2>3 DEF Look, Goto, Mapped
    <3>2. Requested(p)' = Requested(p)
      BY <2>1, <3>1 DEF Requested
    <3>3. CASE cmd[p].op = "set"
      <4>1. After(p) = [Mapped EXCEPT ![cmd[p].todo[1].key] = cmd[p].todo[1].val[1][1]]
        BY <1>1, <2>1, <3>3, AfterSet
      <4>2. Planned(p)' = After(p)
        BY <2>1, <3>1, <3>3, <4>1 DEF Planned, NoEntries
      <4>. QED  BY <1>2, <2>1, <3>2, <4>2, ShowsDecide
    <3>4. CASE cmd[p].op # "set"
      <4>1. After(p) = NoEntries
        <5>1. CASE cmd[p].op = "delete"
          <6>1. cmd[p].key \in Keys
            BY <1>1, <2>1, <3>4 DEF TypeOK
          <6>. QED  BY <1>1, <2>1, <3>1, <5>1, <6>1, AfterDelete DEF NoEntries
        <5>2. CASE cmd[p].op = "get"
          BY <3>1, <5>2, AfterGet
        <5>3. cmd[p].op \in {"get", "set", "delete"}
          BY <1>3 DEF Commands
        <5>. QED  BY <3>4, <5>1, <5>2, <5>3
      <4>2. Planned(p)' = NoEntries
        BY <2>1, <3>1, <3>4 DEF Planned, NoEntries
      <4>. QED  BY <1>2, <2>1, <3>2, <4>1, <4>2, ShowsDecide
    <3>. QED  BY <3>3, <3>4
  <2>. QED  BY <2>2, <2>3
<1>8. ASSUME Create(p) PROVE [Promise!Next]_(Promise!vars)
  <2>1. pc[p] = "create" /\ Mapped' = NoEntries /\ Planned(p) # Nothing
    BY <1>1, <1>5, <1>8, PlannedType DEF Create
  <2>2. CASE cmd[p].op = "set"
    <3>1. Planned(p)' = Planned(p) /\ Requested(p)' = Requested(p)
      BY <1>1, <1>8, <2>2, CreatePlan
    <3>. QED  BY <1>2, <2>1, <3>1, ShowsClear
  <2>3. CASE cmd[p].op # "set"
    <3>1. Planned(p)' = Nothing
      BY <1>1, <1>8, <2>3, DonePlan DEF Create
    <3>. QED  BY <1>2, <2>1, <3>1, ShowsEnd
  <2>. QED  BY <2>2, <2>3
<1>9. ASSUME Read(p) PROVE [Promise!Next]_(Promise!vars)
  <2>1. pc[p] = "read" /\ file # Missing /\ file \in Seq(Item) /\ OneEntry(file)
    BY <1>1, <1>9 DEF Read, TypeOK, Files, Texts, OneEntryPerKey
  <2>2. Mapped' = Mapped /\ Planned(p) = Nothing /\ Mapped = ShownMap(file)
    BY <1>4, <1>9, <2>1, Undecided DEF Read, Mapped
  <2>3. ASSUME Done(p) PROVE [Promise!Next]_(Promise!vars)
    <3>1. Planned(p)' = Nothing
      BY <1>1, <2>3, DonePlan
    <3>. QED  BY <1>2, <2>2, <3>1, ShowsBegin
  <2>4. ASSUME SetReads(p) PROVE [Promise!Next]_(Promise!vars)
    <3>1. Planned(p)' = After(p) /\ Requested(p)' = Requested(p)
      BY <1>1, <2>1, <2>4, SetPlan
    <3>. QED  BY <1>2, <2>2, <3>1, ShowsDecide
  <2>5. ASSUME DeleteReads(p) PROVE [Promise!Next]_(Promise!vars)
    <3>1. cmd[p].key \in Keys /\ cmd[p].op = "delete"
      BY <1>1, <2>1, <2>5 DEF TypeOK, DeleteReads
    <3>2. CASE Places(file, cmd[p].key) = {}
      BY <2>3, <2>5, <3>2 DEF DeleteReads
    <3>3. CASE Places(file, cmd[p].key) # {}
      <4>1. Planned(p)' = After(p) /\ Requested(p)' = Requested(p)
        BY <1>1, <2>1, <2>5, <3>3, DeletePlan
      <4>. QED  BY <1>2, <2>2, <4>1, ShowsDecide
    <3>. QED  BY <3>2, <3>3
  <2>. QED  BY <1>9, <2>3, <2>4, <2>5 DEF Read, GetReads
<1>10. ASSUME Truncate(p) PROVE [Promise!Next]_(Promise!vars)
  <2>1. pc[p] = "truncate" /\ pc'[p] = "write" /\ cmd' = cmd /\ Mapped' = NoEntries
    BY <1>3, <1>5, <1>10 DEF Truncate, Goto
  <2>2. Planned(p)' = Planned(p) /\ Planned(p) # Nothing /\ Requested(p)' = Requested(p)
    BY <1>1, <2>1, PlannedType DEF Planned, ShownMap, Requested
  <2>. QED  BY <1>2, <2>1, <2>2, ShowsClear
<1>11. ASSUME Write(p) PROVE [Promise!Next]_(Promise!vars)
  <2>1. pc[p] = "write" /\ file' = Text(cmd[p].text) /\ Done(p)
    BY <1>11 DEF Write
  <2>2. cmd[p].text \in Seq(Item) /\ OneEntry(cmd[p].text)
    BY <1>1 DEF TypeOK, Commands, OneEntryPerKey
  <2>3. Planned(p) = ShownMap(cmd[p].text) /\ Planned(p) # Nothing
    BY <1>1, <2>1, PlannedType DEF Planned
  <2>4. file' # Missing /\ ShownMap(Text(cmd[p].text)) = ShownMap(cmd[p].text)
    BY <2>1, <2>2, TextPlain, TextType
  <2>5. Mapped' = Planned(p)
    BY <2>1, <2>3, <2>4 DEF Mapped, ShownMap
  <2>6. Planned(p)' = Nothing
    BY <1>1, <2>1, DonePlan
  <2>. QED  BY <1>2, <2>3, <2>5, <2>6, ShowsEnd
<1>12. ASSUME Fails(p) \/ Kill(p) PROVE [Promise!Next]_(Promise!vars)
  <2>1. Mapped' = Mapped /\ Planned(p)' = Nothing
    BY <1>1, <1>3, <1>4, <1>12, DonePlan DEF Fails, Kill, Goto, Planned
  <2>. QED  BY <1>2, <2>1, ShowsBegin, ShowsEnd
<1>. QED
  BY <1>6, <1>7, <1>8, <1>9, <1>10, <1>11, <1>12 DEF Step

LEMMA PromiseInit == Init => Promise!Init
<1>. SUFFICES ASSUME Init PROVE Promise!Init
  OBVIOUS
<1>1. \A p \in Procs : Planned(p) = Nothing
  BY DEF Init, Planned
<1>2. \A p \in Procs : Requested(p) = Nothing
  BY DEF Init, Requested
<1>. QED  BY <1>1, <1>2 DEF Init, Promise!Init, Promise!Empty, Mapped, NoEntries

LEMMA PromiseStep ==
    ASSUME PlainValues
    PROVE  Inv /\ Inv' /\ [Next /\ WritesApart']_vars
             => [Promise!Next]_(Promise!vars)
<1>1. ASSUME UNCHANGED vars PROVE UNCHANGED Promise!vars
  <2>1. Mapped' = Mapped
    BY <1>1 DEF vars, Mapped, ShownMap, NoEntries
  <2>2. \A p \in Procs : Planned(p)' = Planned(p)
    BY <1>1 DEF vars, Planned, ShownMap, NoEntries
  <2>3. \A p \in Procs : Requested(p)' = Requested(p)
    BY <1>1 DEF vars, Requested
  <2>. QED  BY <2>1, <2>2, <2>3 DEF Promise!vars
<1>. QED  BY <1>1, StepShows DEF Next

(* The commands implement KeyValueMap, for any keys, commands and values   *)
(* in one piece.                                                           *)
THEOREM CommandsKeepMap ==
    ASSUME PlainValues
    PROVE  Spec => MapKept
<1>1. Spec => []Inv
  BY InvInit, InvNext, PTL DEF Spec
<1>. QED
  BY <1>1, PromiseInit, PromiseStep, PTL DEF Spec, MapKept, Promise!Spec

-----------------------------------------------------------------------------
(* What the user is told *)

\* How get shows an entry of the map.
Entry(v) == IF v = Nothing THEN <<>> ELSE <<<<v>>>>

Believed(k) == told[k] # Unknown

Agrees(m) == \A k \in Keys : Believed(k) => told[k] = Entry(m[k])

\* The same, but for the change that p is about to make.
AgreesBut(p) ==
    \A k \in Keys :
        IF k = Requested(p).key THEN Planned(p)[k] = Requested(p).val
        ELSE Believed(k) => told[k] = Entry(Planned(p)[k])

(* Commands that have not overlapped are one at most.  It has either not   *)
(* changed the file yet, or it has decided on what the file should show.   *)
AloneOK(p) ==
    /\ pc[p] \in {"look", "create", "read"} => Agrees(Mapped)
    /\ pc[p] = "create" => file = Missing
    /\ pc[p] \in {"truncate", "write"} => AgreesBut(p)

ToldInv ==
    /\ mixed \in BOOLEAN
    /\ told \in [Keys -> Values \cup {<<>>, Unknown}]
    /\ mixed => \A k \in Keys : ~Believed(k)
    /\ ~mixed => /\ \A p, q \in Active : p = q
                 /\ Active = {} => Agrees(Mapped)
                 /\ \A p \in Active : AloneOK(p)

LEMMA AllForgotten ==
    ASSUME Forget
    PROVE  \A k \in Keys : ~Believed(k)'
BY DEF Forget, Believed

\* Where nothing is believed the file may show anything.
LEMMA ForgottenHolds ==
    ASSUME Forget, mixed' \in BOOLEAN,
           ~mixed' => \A p, q \in Active' : p = q,
           ~mixed' => \A p \in Active' : pc'[p] = "look"
    PROVE  ToldInv'
<1>1. \A k \in Keys : ~Believed(k)'
  BY AllForgotten
<1>2. Agrees(Mapped)'
  BY <1>1 DEF Agrees
<1>3. \A p \in Procs : pc'[p] = "look" => AloneOK(p)'
  BY <1>2 DEF AloneOK
<1>. QED  BY <1>1, <1>2, <1>3 DEF ToldInv, Forget, Active

\* The command that is at work now was alone all the time.
LEMMA AloneStep ==
    ASSUME ToldInv, NEW p \in Procs, pc[p] # "idle", mixed' \in BOOLEAN,
           mixed' = (\/ \E q, r \in Active' : q # r
                     \/ mixed /\ Active' # {}),
           \A q \in Procs \ {p} : pc'[q] = pc[q],
           told' \in [Keys -> Values \cup {<<>>, Unknown}],
           mixed => \A k \in Keys : ~Believed(k)',
           ~mixed => IF pc'[p] = "idle" THEN Agrees(Mapped)' ELSE AloneOK(p)'
    PROVE  ToldInv'
<1>1. CASE mixed
  <2>1. Agrees(Mapped)'
    BY <1>1 DEF Agrees
  <2>. QED  BY <1>1, <2>1 DEF ToldInv
<1>2. CASE ~mixed
  <2>1. Active = {p}
    BY <1>2 DEF ToldInv, Active
  <2>2. Active' = IF pc'[p] = "idle" THEN {} ELSE {p}
    BY <2>1 DEF Active
  <2>. QED  BY <1>2, <2>2 DEF ToldInv
<1>. QED  BY <1>1, <1>2 DEF ToldInv

\* How the record goes on in a step of p that a command was alone for.
LEMMA ToldType ==
    ASSUME TypeOK, ToldInv, NEW p \in Procs, pc[p] # "idle"
    PROVE  Told(p) \in [Keys -> Values \cup {<<>>, Unknown}]
<1>1. CASE cmd[p].op = "set"
  <2>1. cmd[p].todo[1].key \in Keys /\ cmd[p].todo[1].val \in Values
    BY <1>1, FirstEntry
  <2>. QED  BY <1>1, <2>1 DEF Told, ToldInv
<1>2. CASE cmd[p].op # "set"
  BY <1>2 DEF Told, ToldInv, TypeOK
<1>. QED  BY <1>1, <1>2

\* A value in one piece is shown as it was set.
LEMMA EntryShown ==
    ASSUME PlainValues, NEW v \in Values
    PROVE  Entry(v[1][1]) = v /\ Entry(Nothing) = <<>>
<1>. DEFINE Parts == Seq(Pieces) \ {<<>>}
            x == v[1][1]
            e == <<x>>
            w == <<e>>
<1>1. /\ v \in Seq(Parts) /\ Len(v) = 1
      /\ v[1] \in Seq(Pieces) /\ Len(v[1]) = 1 /\ x \in Pieces
  BY PieceIn, FileCacheAssumption DEF PlainValues
<1>2. e \in Seq(Pieces) /\ Len(e) = 1 /\ e[1] = x
  <2>. HIDE DEF x
  <2>. QED  BY <1>1
<1>3. v[1] = e
  <2>. DEFINE u == v[1]
  <2>1. u \in Seq(Pieces) /\ Len(u) = 1 /\ u[1] = x
    BY <1>1
  <2>. HIDE DEF u, e, x
  <2>2. u = e
    BY <1>2, <2>1, SeqEqual
  <2>. QED  BY <2>2 DEF u
<1>4. v = w
  <2>1. v[1] \in Parts
    BY <1>1
  <2>2. w \in Seq(Parts) /\ Len(w) = 1 /\ w[1] = e
    BY <1>3, <2>1
  <2>. HIDE DEF w, e, x, Parts
  <2>. QED  BY <1>1, <1>3, <2>2, SeqEqual
<1>5. x # Nothing
  BY <1>1, FileCacheAssumption
<1>. QED  BY <1>4, <1>5 DEF Entry

\* What a set or a delete was to change has been changed: it ends, and tells.
LEMMA ChangeTold ==
    ASSUME PlainValues, TypeOK, ToldInv, NEW p \in Procs, pc[p] # "idle",
           told' = Told(p), cmd[p].op # "get",
           \A k \in Keys :
              IF k = Requested(p).key THEN Mapped'[k] = Requested(p).val
              ELSE Believed(k) => told[k] = Entry(Mapped'[k])
    PROVE  Agrees(Mapped)'
<1>. DEFINE m == Mapped'
<1>0. told \in [Keys -> Values \cup {<<>>, Unknown}] /\ cmd[p] \in Commands
  BY DEF ToldInv, TypeOK
<1>1. CASE cmd[p].op = "set"
  <2>. DEFINE e == cmd[p].todo[1]
  <2>1. e.key \in Keys /\ e.val \in Values
    BY <1>1, FirstEntry
  <2>2. Requested(p).key = e.key /\ Requested(p).val = e.val[1][1]
    BY <1>1 DEF Requested
  <2>3. told' = [told EXCEPT ![e.key] = e.val]
    BY <1>1 DEF Told
  <2>4. Entry(e.val[1][1]) = e.val
    BY <2>1, EntryShown
  <2>5. ASSUME NEW k \in Keys, told'[k] # Unknown PROVE told'[k] = Entry(m[k])
    <3>. HIDE DEF m, e
    <3>1. CASE k = e.key
      <4>1. m[k] = e.val[1][1]
        BY <2>2, <3>1 DEF m
      <4>. QED  BY <1>0, <2>3, <2>4, <3>1, <4>1
    <3>2. CASE k # e.key
      <4>1. Believed(k) => told[k] = Entry(m[k])
        BY <2>2, <3>2 DEF m
      <4>. QED  BY <1>0, <2>3, <2>5, <3>2, <4>1 DEF Believed
    <3>. QED  BY <3>1, <3>2
  <2>. QED  BY <2>5 DEF Agrees, Believed, Entry
<1>2. CASE cmd[p].op = "delete"
  <2>1. Requested(p).key = cmd[p].key /\ Requested(p).val = Nothing
    BY <1>2 DEF Requested
  <2>2. told' = [told EXCEPT ![cmd[p].key] = <<>>]
    BY <1>2 DEF Told
  <2>3. ASSUME NEW k \in Keys, told'[k] # Unknown PROVE told'[k] = Entry(m[k])
    <3>. HIDE DEF m
    <3>1. CASE k = cmd[p].key
      <4>1. m[k] = Nothing
        BY <2>1, <3>1 DEF m
      <4>. QED  BY <1>0, <2>2, <3>1, <4>1 DEF Entry
    <3>2. CASE k # cmd[p].key
      <4>1. Believed(k) => told[k] = Entry(m[k])
        BY <2>1, <3>2 DEF m
      <4>. QED  BY <1>0, <2>2, <2>3, <3>2, <4>1 DEF Believed
    <3>. QED  BY <3>1, <3>2
  <2>. QED  BY <2>3 DEF Agrees, Believed, Entry
<1>. QED  BY <1>0, <1>1, <1>2 DEF Commands

\* p was alone, and is in step with the record.
Alone(p) ==
    /\ PlainValues /\ Inv /\ ToldInv /\ ~mixed /\ pc[p] # "idle" /\ AloneOK(p)
    /\ \A q \in Procs : pc[q] # "idle" => q = p

LEMMA DoneAlone ==
    ASSUME NEW p \in Procs, Alone(p), Done(p), Agrees(Mapped)'
    PROVE  /\ pc'[p] \in {"idle", "look"}
           /\ pc'[p] = "idle" \/ AloneOK(p)'
<1>1. pc \in [Procs -> {"idle", "look", "create", "read", "truncate", "write"}]
  BY DEF Alone, Inv, TypeOK
<1>2. pc'[p] \in {"idle", "look"}
  BY <1>1 DEF Done, Goto
<1>. QED  BY <1>2 DEF AloneOK

\* It has decided on the map that it has seen, with its change made.
LEMMA DecideAlone ==
    ASSUME NEW p \in Procs, Alone(p), Agrees(Mapped), told' = told,
           pc'[p] = "truncate", cmd[p].op # "get",
           Planned(p)' = After(p), Requested(p)' = Requested(p)
    PROVE  AloneOK(p)'
<1>1. cmd[p].op \in {"get", "set", "delete"} /\ Mapped \in Maps /\ TypeOK
  BY MappedType DEF Alone, Inv, TypeOK, Commands
<1>2. After(p) = [Mapped EXCEPT ![Requested(p).key] = Requested(p).val]
  BY <1>1, AfterSet, AfterDelete DEF Alone, Requested
<1>3. ASSUME NEW k \in Keys, k # Requested(p).key, told'[k] # Unknown
      PROVE  told'[k] = Entry(Planned(p)'[k])
  BY <1>1, <1>2, <1>3 DEF Agrees, Believed, Maps
<1>4. ASSUME NEW k \in Keys, k = Requested(p).key
      PROVE  Planned(p)'[k] = Requested(p).val
  BY <1>1, <1>2, <1>4 DEF Maps
<1>5. AgreesBut(p)'
  BY <1>3, <1>4 DEF AgreesBut, Believed, Entry
<1>. QED  BY <1>5 DEF AloneOK

\* The file shows after the step what it showed before, and told is the same.
LEMMA SameAgrees ==
    ASSUME Agrees(Mapped), told' = told, Mapped' = Mapped
    PROVE  Agrees(Mapped)'
BY DEF Agrees, Believed, Entry

LEMMA AloneEnds ==
    ASSUME NEW p \in Procs, Alone(p), Ends(p),
           told' = IF pc'[p] \in {"idle", "look"} THEN Told(p) ELSE told
    PROVE  IF pc'[p] = "idle" THEN Agrees(Mapped)' ELSE AloneOK(p)'
<1>1. /\ PlainValues /\ TypeOK /\ OneEntryPerKey /\ ToldInv /\ pc[p] # "idle"
      /\ pc \in [Procs -> {"idle", "look", "create", "read", "truncate", "write"}]
      /\ cmd[p].op \in {"get", "set", "delete"} /\ Mapped \in Maps
  BY MappedType DEF Alone, Inv, TypeOK, Commands
<1>2. ASSUME Done(p), Agrees(Mapped)'
      PROVE  IF pc'[p] = "idle" THEN Agrees(Mapped)' ELSE AloneOK(p)'
  BY <1>2, DoneAlone
<1>3. ASSUME Done(p) PROVE told' = Told(p)
  BY <1>1, <1>3 DEF Done, Goto
\* A command that finds nothing to change has told the truth.
<1>4. ASSUME Done(p), cmd[p].op # "set", Mapped' = Mapped, Agrees(Mapped),
             cmd[p].op = "delete" => Mapped[cmd[p].key] = Nothing
      PROVE  Agrees(Mapped)'
  <2>1. CASE cmd[p].op = "get"
    <3>1. told' = told
      BY <1>1, <1>3, <1>4, <2>1 DEF Told, ToldInv
    <3>. QED  BY <1>4, <3>1, SameAgrees
  <2>2. CASE cmd[p].op = "delete"
    <3>1. Requested(p).key = cmd[p].key /\ Requested(p).val = Nothing
      BY <1>1, <2>2 DEF Requested
    <3>2. \A k \in Keys :
             IF k = Requested(p).key THEN Mapped'[k] = Requested(p).val
             ELSE Believed(k) => told[k] = Entry(Mapped'[k])
      BY <1>4, <2>2, <3>1 DEF Agrees
    <3>. QED  BY <1>1, <1>3, <1>4, <2>2, <3>2, ChangeTold
  <2>. QED  BY <1>1, <1>4, <2>1, <2>2
<1>5. CASE Create(p)
  <2>1. pc[p] = "create" /\ file = Missing /\ Agrees(Mapped)
    BY <1>5 DEF Create, Alone, AloneOK
  <2>2. Mapped = NoEntries /\ Mapped' = NoEntries
    BY <1>5, <2>1, EmptyShown DEF Create, Mapped, ShownMap, NoEntries
  <2>3. CASE cmd[p].op = "set"
    <3>1. pc'[p] = "truncate" /\ told' = told
      BY <1>1, <1>5, <2>3 DEF Create, WriteBack, Goto
    <3>2. Planned(p)' = Planned(p) /\ Requested(p)' = Requested(p)
      BY <1>1, <1>5, <2>3, CreatePlan
    <3>3. Planned(p) = After(p)
      BY <1>1, <2>1, <2>2, <2>3, AfterSet DEF Planned
    <3>. QED  BY <2>1, <2>3, <3>1, <3>2, <3>3, DecideAlone
  <2>4. CASE cmd[p].op # "set"
    <3>1. cmd[p].op = "delete" => Mapped[cmd[p].key] = Nothing
      BY <1>1, <2>2 DEF TypeOK, NoEntries
    <3>2. Done(p)
      BY <1>5, <2>4 DEF Create
    <3>. QED  BY <1>2, <1>4, <2>1, <2>2, <2>4, <3>1, <3>2
  <2>. QED  BY <2>3, <2>4
<1>6. CASE Read(p)
  <2>1. /\ pc[p] = "read" /\ file' = file /\ file \in Seq(Item) /\ OneEntry(file)
        /\ file # Missing /\ Agrees(Mapped)
    BY <1>1, <1>6 DEF Read, TypeOK, Files, Texts, OneEntryPerKey, Alone,
       AloneOK
  <2>2. Mapped' = Mapped /\ Mapped = ShownMap(file)
    BY <2>1 DEF Mapped, ShownMap, NoEntries
  <2>3. CASE GetReads(p)
    BY <1>2, <1>4, <2>1, <2>2, <2>3 DEF GetReads
  <2>4. CASE SetReads(p)
    <3>1. pc'[p] = "truncate" /\ told' = told /\ cmd[p].op = "set"
      BY <1>1, <2>4 DEF SetReads, WriteBack, Goto
    <3>2. Planned(p)' = After(p) /\ Requested(p)' = Requested(p)
      BY <1>1, <2>1, <2>4, SetPlan
    <3>. QED  BY <2>1, <3>1, <3>2, DecideAlone
  <2>5. CASE DeleteReads(p) /\ Places(file, cmd[p].key) = {}
    <3>1. Done(p) /\ cmd[p].op = "delete" /\ cmd[p].key \in Keys
      BY <1>1, <2>5 DEF DeleteReads, TypeOK
    <3>2. Mapped[cmd[p].key] = Nothing
      BY <2>2, <2>5, <3>1 DEF ShownMap, Shown
    <3>. QED  BY <1>2, <1>4, <2>1, <2>2, <3>1, <3>2
  <2>6. CASE DeleteReads(p) /\ Places(file, cmd[p].key) # {}
    <3>1. pc'[p] = "truncate" /\ told' = told /\ cmd[p].op = "delete"
      BY <1>1, <2>6 DEF DeleteReads, WriteBack, Goto
    <3>2. Planned(p)' = After(p) /\ Requested(p)' = Requested(p)
      BY <1>1, <2>1, <2>6, DeletePlan
    <3>. QED  BY <2>1, <3>1, <3>2, DecideAlone
  <2>. QED  BY <1>6, <2>3, <2>4, <2>5, <2>6 DEF Read
<1>7. CASE Write(p)
  <2>1. pc[p] = "write" /\ file' = Text(cmd[p].text) /\ Done(p) /\ AgreesBut(p)
        /\ cmd[p].op # "get"
    BY <1>1, <1>7 DEF Write, Alone, AloneOK, TypeOK
  <2>2. cmd[p].text \in Seq(Item) /\ OneEntry(cmd[p].text)
    BY <1>1 DEF TypeOK, Commands, OneEntryPerKey
  <2>3. Mapped' = ShownMap(cmd[p].text)
    <3>1. file' # Missing /\ ShownMap(Text(cmd[p].text)) = ShownMap(cmd[p].text)
      BY <2>1, <2>2, TextPlain, TextType
    <3>. QED  BY <2>1, <3>1 DEF Mapped, ShownMap
  <2>4. Mapped' = Planned(p)
    BY <2>1, <2>3 DEF Planned
  <2>5. \A k \in Keys :
           IF k = Requested(p).key THEN Mapped'[k] = Requested(p).val
           ELSE Believed(k) => told[k] = Entry(Mapped'[k])
    BY <2>1, <2>4 DEF AgreesBut
  <2>6. Agrees(Mapped)'
    BY <1>1, <1>3, <2>1, <2>5, ChangeTold
  <2>. QED  BY <1>2, <2>1, <2>6
<1>. QED  BY <1>5, <1>6, <1>7 DEF Ends

\* The step of a command that neither ends it nor tells anything.
LEMMA AloneSilent ==
    ASSUME NEW p \in Procs, Alone(p), Look(p) \/ Truncate(p), told' = told
    PROVE  IF pc'[p] = "idle" THEN Agrees(Mapped)' ELSE AloneOK(p)'
<1>1. pc \in [Procs -> {"idle", "look", "create", "read", "truncate", "write"}]
  BY DEF Alone, Inv, TypeOK
<1>2. CASE Look(p)
  <2>1. /\ pc'[p] \in {"create", "read"} /\ file' = file /\ Agrees(Mapped)
        /\ pc'[p] = "create" => file = Missing
    BY <1>1, <1>2 DEF Look, Goto, Alone, AloneOK
  <2>2. Mapped' = Mapped
    BY <2>1 DEF Mapped, ShownMap, NoEntries
  <2>. QED  BY <2>1, <2>2, SameAgrees DEF AloneOK
<1>3. CASE Truncate(p)
  <2>1. pc[p] = "truncate" /\ pc'[p] = "write" /\ cmd' = cmd /\ AgreesBut(p)
    BY <1>1, <1>3 DEF Truncate, Goto, Alone, AloneOK
  <2>2. Planned(p)' = Planned(p) /\ Requested(p)' = Requested(p)
    BY <2>1 DEF Planned, ShownMap, Requested
  <2>3. AgreesBut(p)'
    BY <2>1, <2>2 DEF AgreesBut, Believed, Entry
  <2>. QED  BY <2>1, <2>3 DEF AloneOK
<1>. QED  BY <1>2, <1>3

Recorded ==
    mixed' = (\/ \E p, q \in Active' : p # q
              \/ mixed /\ Active' # {})

LEMMA ToldNext ==
    ASSUME PlainValues, Inv, ToldInv, [MCNext]_<<vars, told, mixed>>
    PROVE  ToldInv'
<1>1. /\ TypeOK /\ mixed \in BOOLEAN
      /\ pc \in [Procs -> {"idle", "look", "create", "read", "truncate", "write"}]
  BY DEF Inv, TypeOK, ToldInv
<1>2. CASE UNCHANGED <<vars, told, mixed>>
  <2>1. Mapped' = Mapped /\ Active' = Active
    BY <1>2 DEF vars, Mapped, ShownMap, NoEntries, Active
  <2>2. \A p \in Procs : Planned(p)' = Planned(p) /\ Requested(p)' = Requested(p)
    BY <1>2 DEF vars, Planned, ShownMap, NoEntries, Requested
  <2>3. Agrees(Mapped) => Agrees(Mapped)'
    BY <1>2, <2>1, SameAgrees
  <2>4. \A p \in Procs : AgreesBut(p) => AgreesBut(p)'
    BY <1>2, <2>2 DEF AgreesBut, Believed, Entry
  <2>5. \A p \in Procs : AloneOK(p) => AloneOK(p)'
    BY <1>2, <2>3, <2>4 DEF AloneOK, vars
  <2>6. \A k \in Keys : ~Believed(k) => ~Believed(k)'
    BY <1>2 DEF Believed
  <2>. QED  BY <1>2, <2>1, <2>3, <2>5, <2>6 DEF ToldInv, Active
<1>3. ASSUME NEW p \in Procs, Step(p) \/ Kill(p)
      PROVE  \A q \in Procs \ {p} : pc'[q] = pc[q]
  BY <1>1, <1>3 DEF Step, Kill, Begin, Look, Create, Read, GetReads, SetReads,
     DeleteReads, Truncate, Write, Fails, WriteBack, Done, Goto
<1>4. ASSUME NEW p \in Procs, Begin(p), Recorded,
             IF Active = {} THEN UNCHANGED told ELSE Forget
      PROVE  ToldInv'
  <2>1. /\ pc'[p] = "look" /\ pc[p] = "idle" /\ file' = file
        /\ \A q \in Procs \ {p} : pc'[q] = pc[q]
    BY <1>1, <1>4 DEF Begin, Goto
  <2>2. Active' = Active \cup {p}
    BY <2>1 DEF Active
  <2>3. CASE Active = {}
    <3>1. Mapped' = Mapped
      BY <2>1 DEF Mapped, ShownMap, NoEntries
    <3>2. mixed' = mixed /\ told' = told
      BY <1>1, <1>4, <2>2, <2>3 DEF Recorded
    <3>3. ~mixed => Agrees(Mapped)'
      BY <2>3, <3>1, <3>2, SameAgrees DEF ToldInv
    <3>4. ~mixed => AloneOK(p)'
      BY <2>1, <3>3 DEF AloneOK
    <3>5. mixed => \A k \in Keys : ~Believed(k)'
      BY <3>2 DEF ToldInv, Believed
    <3>. QED  BY <2>2, <2>3, <3>2, <3>4, <3>5 DEF ToldInv
  <2>4. CASE Active # {}
    <3>1. PICK q \in Active : q # p
      BY <2>1, <2>4 DEF Active
    <3>2. mixed' = TRUE
      BY <1>1, <1>4, <2>2, <3>1 DEF Recorded
    <3>. QED  BY <1>4, <2>4, <3>2, ForgottenHolds
  <2>. QED  BY <2>3, <2>4
<1>5. ASSUME NEW p \in Procs, pc[p] # "idle", ~mixed PROVE Alone(p)
  BY <1>1, <1>5 DEF Alone, ToldInv, Active
<1>6. ASSUME NEW p \in Procs, Look(p) \/ Truncate(p), UNCHANGED told, Recorded
      PROVE  ToldInv'
  <2>1. pc[p] # "idle" /\ \A q \in Procs \ {p} : pc'[q] = pc[q]
    BY <1>3, <1>6 DEF Look, Truncate, Step
  <2>2. ~mixed => IF pc'[p] = "idle" THEN Agrees(Mapped)' ELSE AloneOK(p)'
    BY <1>5, <1>6, <2>1, AloneSilent
  <2>3. mixed => \A k \in Keys : ~Believed(k)'
    BY <1>6 DEF ToldInv, Believed
  <2>. QED  BY <1>1, <1>6, <2>1, <2>2, <2>3, AloneStep DEF Recorded, ToldInv
<1>7. ASSUME NEW p \in Procs, Ends(p), Recorded,
             IF mixed THEN Forget
             ELSE told' = IF pc'[p] \in {"idle", "look"} THEN Told(p) ELSE told
      PROVE  ToldInv'
  <2>1. pc[p] # "idle" /\ \A q \in Procs \ {p} : pc'[q] = pc[q]
    BY <1>3, <1>7 DEF Ends, Create, Read, Write, Step
  <2>2. ~mixed => IF pc'[p] = "idle" THEN Agrees(Mapped)' ELSE AloneOK(p)'
    BY <1>5, <1>7, <2>1, AloneEnds
  <2>3. mixed => \A k \in Keys : ~Believed(k)'
    BY <1>7, AllForgotten
  <2>4. told' \in [Keys -> Values \cup {<<>>, Unknown}]
    BY <1>1, <1>7, <2>1, ToldType DEF ToldInv, Forget
  <2>. QED  BY <1>1, <1>7, <2>1, <2>2, <2>3, <2>4, AloneStep DEF Recorded
<1>8. ASSUME NEW p \in Procs, Fails(p) \/ Kill(p), Forget, Recorded
      PROVE  ToldInv'
  <2>1. /\ pc[p] # "idle" /\ pc'[p] \in {"idle", "look"}
        /\ \A q \in Procs \ {p} : pc'[q] = pc[q]
    BY <1>1, <1>3, <1>8 DEF Fails, Kill, Done, Goto
  <2>2. mixed' \in BOOLEAN /\ (~mixed' => \A q, r \in Active' : q = r)
    BY <1>1, <1>8 DEF Recorded
  <2>3. ASSUME ~mixed', NEW q \in Active' PROVE pc'[q] = "look"
    <3>1. q \in Active /\ p \in Active
      BY <2>1, <2>3 DEF Active
    <3>2. ~mixed
      BY <1>1, <1>8, <2>3 DEF Recorded
    <3>3. q = p
      BY <3>1, <3>2 DEF ToldInv
    <3>. QED  BY <2>1, <2>3, <3>3 DEF Active
  <2>. QED  BY <1>8, <2>2, <2>3, ForgottenHolds
<1>. QED  BY <1>2, <1>4, <1>6, <1>7, <1>8 DEF MCNext, Recorded

LEMMA ToldInit == MCInit => Inv /\ ToldInv
<1>. SUFFICES ASSUME MCInit PROVE ToldInv
  BY InvInit DEF MCInit
<1>1. Agrees(Mapped)
  BY DEF MCInit, Init, Agrees, Mapped, NoEntries, Entry
<1>. QED  BY <1>1 DEF MCInit, Init, ToldInv, Active

LEMMA ToldStep ==
    ASSUME PlainValues
    PROVE  Inv /\ ToldInv /\ [MCNext]_<<vars, told, mixed>> => (Inv /\ ToldInv)'
<1>1. [MCNext]_<<vars, told, mixed>> => [Next /\ WritesApart']_vars
  BY DEF MCNext, Next, Step, Ends
<1>. QED  BY <1>1, InvNext, ToldNext

(* While no command is at work get shows what the user has set, and        *)
(* nothing for a key that was deleted or never set, for any keys, commands *)
(* and values in one piece: FGetValue reads back what the last FSetValue   *)
(* or FDeleteByKey has left, as far as none overlapped, failed or died.    *)
THEOREM ShownAsTold ==
    ASSUME PlainValues
    PROVE  MCSpec => []GetShowsSet
<1>1. Inv /\ ToldInv => GetShowsSet
  <2>. SUFFICES ASSUME Inv, ToldInv, Active = {}, NEW k \in Keys, told[k] # Unknown
                PROVE  told[k] = IF file = Missing \/ Shown(file, k) = Nothing
                                 THEN <<>> ELSE <<<<Shown(file, k)>>>>
    BY DEF GetShowsSet
  <2>1. told[k] = Entry(Mapped[k])
    BY DEF ToldInv, Agrees, Believed
  <2>. QED  BY <2>1 DEF Entry, Mapped, NoEntries, ShownMap
<1>2. MCSpec => [](Inv /\ ToldInv)
  BY ToldInit, ToldStep, PTL DEF MCSpec
<1>. QED  BY <1>1, <1>2, PTL

=============================================================================
