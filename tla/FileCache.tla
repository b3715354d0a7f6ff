----------------------------- MODULE FileCache -----------------------------
(***************************************************************************)
(* filecache/filecache.go: a map kept as the text "key=value:key=value" in *)
(* a file of the container (.execmap for add_exec and remove_exec, .mapmap *)
(* for add_map and remove_map; the two are alike and one is modelled), as  *)
(* the commands set and get use it, and Run, which puts the executables    *)
(* map of a container into it one entry after the other.                   *)
(*                                                                         *)
(* Every command looks whether the file is there, reads all of it and      *)
(* writes all of it back, with no lock.  The container stays registered.   *)
(*                                                                         *)
(* Nothing is quoted: a value may hold ":" and "=", which come back as     *)
(* ends of items and of fields.  Keys that hold one of them, or that stand *)
(* as they are within the value of another key, are left out.              *)
(***************************************************************************)
EXTENDS Naturals, Sequences

CONSTANTS
    Keys,     \* programs
    Pieces,   \* what stands between the ":" and "=" of a value
    Values,   \* values: as split at ":", each part of it as split at "="
    Loads,    \* what commands set: sequences of entries [key, val]
    Procs,    \* commands
    Missing,  \* no file
    Nothing   \* no entry, no name

ASSUME FileCacheAssumption ==
    /\ Values \subseteq Seq(Seq(Pieces) \ {<<>>}) \ {<<>>}
    /\ Loads \subseteq Seq([key : Keys, val : Values]) \ {<<>>}
    /\ Keys \cap Pieces = {}
    /\ Nothing \notin Keys \cup Pieces \cup [Keys -> Pieces \cup {Nothing}]
                        \cup [key : Keys, val : Pieces \cup {Nothing}]
    /\ Missing \notin Seq([name : Keys \cup Pieces \cup {Nothing},
                            val  : Pieces \cup {Nothing}])

VARIABLES
    file,     \* what the file holds
    pc,       \* the next step of each command
    cmd       \* its memory

vars == <<file, pc, cmd>>

-----------------------------------------------------------------------------
(* The text: its items, as strings.Split(text, ":") returns them, each     *)
(* split at "=" into a name and, if there is one, a value, kv[1].  What    *)
(* follows a second "=" stays in the text, but nobody reads it.            *)

Item == [name : Keys \cup Pieces \cup {Nothing}, val : Pieces \cup {Nothing}]

Blank == [name |-> Nothing, val |-> Nothing]

(* The names with Bug are plausible bugs, no part of Next: each takes the  *)
(* place of the operator it names, to see that a property notices.         *)

BugText(items) == items

\* Writing no items at all makes an empty file, which reads as one empty item.
Text(items) == IF items = <<>> THEN <<Blank>> ELSE items

Texts == Seq(Item) \ {<<>>}

Files == {Missing} \cup Texts

\* "k=v" as it will be read again: a ":" in v ends the item, a "=" the field.
Items(k, v) ==
    [i \in 1..Len(v) |->
        IF i = 1 THEN [name |-> k, val |-> v[1][1]]
        ELSE [name |-> v[i][1],
              val  |-> IF Len(v[i]) > 1 THEN v[i][2] ELSE Nothing]]

Places(items, k) == {i \in DOMAIN items : items[i].name = k}

\* The first item of that name.
Place(items, k) ==
    CHOOSE i \in Places(items, k) : \A j \in Places(items, k) : i <= j

Shown(items, k) ==
    IF Places(items, k) = {} THEN Nothing ELSE items[Place(items, k)].val

BugWith(items, k, v) == items \o Items(k, v)

BugWithout(items, k) == SubSeq(items, 1, Len(items) - 1)

OneEntry(items) ==
    \A i, j \in DOMAIN items :
        items[i].name = items[j].name /\ items[i].name \in Keys => i = j

With(items, k, v) ==
    IF Places(items, k) = {} THEN items \o Items(k, v)
    ELSE LET i == Place(items, k)
         IN SubSeq(items, 1, i - 1) \o Items(k, v)
              \o SubSeq(items, i + 1, Len(items))

\* The item trades places with the last one, which is cut off.
Without(items, k) ==
    LET n == Len(items)
    IN SubSeq([items EXCEPT ![Place(items, k)] = items[n]], 1, n - 1)

-----------------------------------------------------------------------------
(* Commands *)

Commands ==
    [op   : {"get", "set", "delete"},
     key  : Keys \cup {Nothing},                \* get, delete
     todo : Seq([key : Keys, val : Values]),    \* set: entries to come
     text : Seq(Item)]                          \* what it will write

NoCommand == [op |-> "get", key |-> Nothing, todo |-> <<>>, text |-> <<>>]

TypeOK ==
    /\ file \in Files
    /\ pc \in [Procs -> {"idle", "look", "create", "read", "truncate",
                         "write"}]
    /\ cmd \in [Procs -> Commands]
    /\ \A p \in Procs :
          /\ pc[p] # "idle" /\ cmd[p].op = "set" => cmd[p].todo # <<>>
          /\ pc[p] # "idle" /\ cmd[p].op # "set" => cmd[p].key \in Keys
          /\ pc[p] \in {"truncate", "write"} => cmd[p].op # "get"
          /\ pc[p] = "read" => file # Missing

Init ==
    /\ file = Missing
    /\ pc = [p \in Procs |-> "idle"]
    /\ cmd = [p \in Procs |-> NoCommand]

Goto(p, label) == pc' = [pc EXCEPT ![p] = label]

\* Run goes on to its next entry, whether or not this one was set.
Done(p) ==
    IF Len(cmd[p].todo) > 1
    THEN /\ Goto(p, "look")
         /\ cmd' = [cmd EXCEPT ![p].text = <<>>, ![p].todo = Tail(@)]
    ELSE /\ Goto(p, "idle")
         /\ cmd' = [cmd EXCEPT ![p] = NoCommand]

Begin(p) ==
    /\ pc[p] = "idle"
    /\ \/ \E k \in Keys, o \in {"get", "delete"} :
             cmd' = [cmd EXCEPT ![p] = [op |-> o, key |-> k, todo |-> <<>>,
                                        text |-> <<>>]]
       \/ \E l \in Loads :
             cmd' = [cmd EXCEPT ![p] = [op |-> "set", key |-> Nothing,
                                        todo |-> l, text |-> <<>>]]
    /\ Goto(p, "look")
    /\ UNCHANGED file

\* FileExist
Look(p) ==
    /\ pc[p] = "look"
    /\ Goto(p, IF file = Missing THEN "create" ELSE "read")
    /\ UNCHANGED <<file, cmd>>

WriteBack(p, items) ==
    /\ cmd' = [cmd EXCEPT ![p].text = items]
    /\ Goto(p, "truncate")

\* os.Create, which empties a file that is there by now.
Create(p) ==
    /\ pc[p] = "create"
    /\ file' = Text(<<>>)
    /\ IF cmd[p].op = "set"
       THEN WriteBack(p, Items(cmd[p].todo[1].key, cmd[p].todo[1].val))
       ELSE Done(p)

\* A plausible bug, no part of Next: set leaves an entry that is there alone.
BugSetReads(p) ==
    /\ cmd[p].op = "set"
    /\ IF Places(file, cmd[p].todo[1].key) = {}
       THEN WriteBack(p, file \o Items(cmd[p].todo[1].key, cmd[p].todo[1].val))
       ELSE Done(p)

GetReads(p) == cmd[p].op = "get" /\ Done(p)

SetReads(p) ==
    /\ cmd[p].op = "set"
    /\ WriteBack(p, With(file, cmd[p].todo[1].key, cmd[p].todo[1].val))

DeleteReads(p) ==
    /\ cmd[p].op = "delete"
    /\ IF Places(file, cmd[p].key) = {} THEN Done(p)
       ELSE WriteBack(p, Without(file, cmd[p].key))

Read(p) ==
    /\ pc[p] = "read"
    /\ GetReads(p) \/ SetReads(p) \/ DeleteReads(p)
    /\ UNCHANGED file

Truncate(p) ==
    /\ pc[p] = "truncate"
    /\ file' = Text(<<>>)
    /\ Goto(p, "write")
    /\ UNCHANGED cmd

Write(p) ==
    /\ pc[p] = "write"
    /\ file' = Text(cmd[p].text)
    /\ Done(p)

\* The file cannot be made, read or written.
Fails(p) == pc[p] \notin {"idle", "look"} /\ Done(p) /\ UNCHANGED file

Kill(p) ==
    /\ pc[p] # "idle"
    /\ Goto(p, "idle")
    /\ cmd' = [cmd EXCEPT ![p] = NoCommand]
    /\ UNCHANGED file

Step(p) ==
    \/ Begin(p) \/ Look(p) \/ Create(p) \/ Read(p) \/ Truncate(p) \/ Write(p)
    \/ Fails(p)

Next == \E p \in Procs : Step(p) \/ Kill(p)

\* ioutil.WriteFile truncates, then writes.  Of two commands that do so at
\* once, the shorter text would overwrite the head of the longer one, byte by
\* byte; what such a mixture reads as is not modelled.
WritesApart ==
    \A p, q \in Procs : pc[p] = "write" /\ pc[q] = "write" => p = q

Spec == Init /\ [][Next /\ WritesApart']_vars

-----------------------------------------------------------------------------
(* Properties *)

\* No key has two entries, in the file or in what a command is about to write,
\* however commands overlap or die: get shows the first entry and delete
\* removes one, so a second one would outlive its deletion.
OneEntryPerKey ==
    /\ file # Missing => OneEntry(file)
    /\ \A p \in Procs : OneEntry(cmd[p].text)

\* Each value is in one piece: it has no ":" and no "=".
PlainValues == \A v \in Values : Len(v) = 1 /\ Len(v[1]) = 1

NoEntries == [k \in Keys |-> Nothing]

ShownMap(items) == [k \in Keys |-> Shown(items, k)]

Mapped == IF file = Missing THEN NoEntries ELSE ShownMap(file)

\* The change that a command is to make.
Requested(p) ==
    CASE pc[p] # "idle" /\ cmd[p].op = "set" ->
           [key |-> cmd[p].todo[1].key, val |-> cmd[p].todo[1].val[1][1]]
      [] pc[p] # "idle" /\ cmd[p].op = "delete" ->
           [key |-> cmd[p].key, val |-> Nothing]
      [] OTHER -> Nothing

\* A command has decided when it has read the file or found none.
Planned(p) ==
    CASE pc[p] \in {"truncate", "write"} -> ShownMap(cmd[p].text)
      [] pc[p] = "create" ->
           IF cmd[p].op = "set"
           THEN [NoEntries EXCEPT
                     ![cmd[p].todo[1].key] = cmd[p].todo[1].val[1][1]]
           ELSE NoEntries
      [] OTHER -> Nothing

Promise ==
    INSTANCE KeyValueMap WITH
        Words <- Pieces,
        map   <- Mapped,
        asked <- [p \in Procs |-> Requested(p)],
        plan  <- [p \in Procs |-> Planned(p)]

\* The commands implement a map: each makes the one change it is asked for to
\* what it has read, and nothing is made up or taken away beside it, through
\* deaths and overlaps (FSetValue, FDeleteByKey), for values in one piece: of
\* any other the map would have what stands before its first ":" or "=".
MapKept == Promise!Spec
=============================================================================
