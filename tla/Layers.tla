------------------------------- MODULE Layers -------------------------------
(***************************************************************************)
(* utils.go UntarLayer and TarLayer: extracting layers over each other     *)
(* into one folder, and making a tarball of it; beside them, what a stack  *)
(* of layers shows by the rules of image layers.                           *)
(*                                                                         *)
(* A path is the sequence of its names.  A tree maps the paths that exist  *)
(* to what stands there.  An entry of a tarball is named by the path that  *)
(* it puts there, or takes away:                                           *)
(*   mark = "plain"   path itself                                          *)
(*   mark = "white"   .wh.name, path being that of name                    *)
(*   mark = "opaque"  .wh..wh..opq in the folder path                      *)
(*   mark = "like"    path itself, whose name begins with ".wh" by chance  *)
(***************************************************************************)
EXTENDS SequencesExt, Naturals

CONSTANTS
    Names,      \* names of files and folders: numbers, in their order as names
    Digests     \* layers: numbers

ASSUME LayersAssumption ==
    /\ Names \subseteq Nat
    /\ Digests \subseteq Nat \ {0}

Marks == {"plain", "white", "opaque", "like"}

NoPath == <<>>

Paths == Seq(Names) \ {NoPath}

NoData == 0

Nodes ==
    [kind : {"dir"},  data : {NoData}, to : {NoPath}]
      \cup [kind : {"file"}, data : Digests, to : {NoPath}]
      \cup [kind : {"link"}, data : {NoData}, to : Seq(Names)]

Node(kind, data, to) == [kind |-> kind, data |-> data, to |-> to]

Dir == Node("dir", NoData, NoPath)
File(digest) == Node("file", digest, NoPath)
Link(path) == Node("link", NoData, path)

EmptyTree == [p \in {} |-> Dir]

\* What stands for an extraction that ended with an error: no tree, for the root
\* itself is no path.
Bad == [p \in {NoPath} |-> Dir]

IsTree(tree) ==
    DOMAIN tree \subseteq Paths /\ \A p \in DOMAIN tree : tree[p] \in Nodes

-----------------------------------------------------------------------------
(* The file system.  A link leads to a path of the folder, and that is no  *)
(* link (LinksPlain in MCHub).                                             *)

\* The path without links.
Real(tree, path) ==
    LET at[n \in 0..Len(path)] ==
            IF n = 0 THEN NoPath
            ELSE LET next == Append(at[n - 1], path[n])
                 IN IF next \in DOMAIN tree /\ tree[next].kind = "link"
                    THEN tree[next].to ELSE next
    IN at[Len(path)]

\* The same, but the last name stands for the link itself.
Place(tree, path) == Append(Real(tree, Front(path)), Last(path))

Exists(tree, path) == path = NoPath \/ path \in DOMAIN tree

IsDir(tree, path) ==
    path = NoPath \/ (path \in DOMAIN tree /\ tree[path].kind = "dir")

With(tree, path, node) ==
    [p \in DOMAIN tree \cup {path} |-> IF p = path THEN node ELSE tree[p]]

\* os.RemoveAll
RemoveAll(tree, path) ==
    LET gone == {p \in DOMAIN tree : IsPrefix(Place(tree, path), p)}
    IN Restrict(tree, DOMAIN tree \ gone)

\* os.MkdirAll
MakeDirs(tree, path) ==
    LET heads == {SubSeq(path, 1, n) : n \in 1..Len(path)}
        news  == {r \in {Real(tree, h) : h \in heads} : ~Exists(tree, r)}
    IN IF \E h \in heads : /\ Place(tree, h) \in DOMAIN tree
                           /\ ~IsDir(tree, Real(tree, h))
       THEN Bad
       ELSE [p \in DOMAIN tree \cup news |-> IF p \in news THEN Dir ELSE tree[p]]

\* os.OpenFile(O_CREATE | O_TRUNC) and io.Copy, through a link.
WriteFile(tree, path, digest) ==
    LET real == Real(tree, path)
    IN IF IsDir(tree, real) \/ ~IsDir(tree, Front(real)) THEN Bad
       ELSE With(tree, real, File(digest))

\* os.Symlink, its error ignored: what is there stays.
Symlink(tree, path, to) ==
    LET place == Place(tree, path)
    IN IF place \in DOMAIN tree \/ ~IsDir(tree, Front(place)) THEN tree
       ELSE With(tree, place, Link(to))

-----------------------------------------------------------------------------
(* UntarLayer *)

Entries ==
    {e \in [kind   : {"dir", "reg", "link", "hard"},
            mark   : Marks,
            path   : Paths,
            to     : Seq(Names),             \* where a link leads
            toMark : Marks,
            data   : Digests \cup {NoData}] : \* of a file: the layer it comes from
        e.toMark # "plain" => e.to # NoPath}

\* What the name that follows the prefix ".wh." stands for, in the same folder.
Hidden(tree, mark, path) ==
    IF mark \in {"white", "like"} THEN RemoveAll(tree, path) ELSE tree

\* A Linkname is read in the folder of the link: that of a hard link, which begins
\* at the root of the layer, is taken for one that begins there.
Leads(tree, entry) ==
    IF entry.kind = "hard" THEN Front(Place(tree, entry.path)) \o entry.to
    ELSE entry.to

Extract(tree, entry) ==
    IF tree = Bad THEN Bad
    ELSE CASE entry.kind = "dir" ->
                IF Exists(tree, Real(tree, entry.path)) THEN tree
                ELSE MakeDirs(tree, entry.path)
           [] entry.kind = "reg" ->
                IF entry.mark = "plain"
                THEN WriteFile(tree, entry.path, entry.data)
                ELSE Hidden(tree, entry.mark, entry.path)
           [] entry.kind \in {"link", "hard"} /\ entry.mark = "plain" ->
                Symlink(tree, entry.path, Leads(tree, entry))
           [] entry.kind \in {"link", "hard"} /\ entry.mark # "plain" ->
                \* what the whiteout it leads to hides, not what it hides itself
                LET hidden == Hidden(tree, entry.toMark, entry.to)
                IN IF entry.mark = "like" THEN RemoveAll(hidden, entry.path)
                   ELSE hidden

UntarLayer(tree, layer) ==
    LET after[n \in 0..Len(layer)] ==
            IF n = 0 THEN tree ELSE Extract(after[n - 1], layer[n])
    IN after[Len(layer)]

-----------------------------------------------------------------------------
(* TarLayer *)

Lower(p, q) ==
    \/ IsStrictPrefix(p, q)
    \/ \E i \in DOMAIN p \cap DOMAIN q :
          p[i] < q[i] /\ \A j \in 1..(i - 1) : p[j] = q[j]

Lowest(S) == CHOOSE p \in S : \A q \in S \ {p} : Lower(p, q)

\* filepath.Walk: rest[n] is what is left after n paths.
Walk(S) ==
    LET rest[n \in 0..Cardinality(S)] ==
            IF n = 0 THEN S
            ELSE LET left == rest[n - 1] IN left \ {Lowest(left)}
    IN [n \in 1..Cardinality(S) |-> Lowest(rest[n - 1])]

Entry(kind, path, to, data) ==
    [kind |-> kind, mark |-> "plain", path |-> path, to |-> to,
     toMark |-> "plain", data |-> data]

BugHeaders(tree, p) ==
    CASE tree[p].kind = "dir"  -> <<Entry("dir", p, NoPath, NoData)>>
      [] tree[p].kind = "file" -> <<Entry("reg", p, NoPath, tree[p].data)>>
      [] tree[p].kind = "link" -> <<Entry("link", p, p, NoData),
                                    Entry("link", p, tree[p].to, NoData)>>

\* A link gets a second header, by which it leads to itself.
Headers(tree, p) ==
    CASE tree[p].kind = "dir"  -> <<Entry("dir", p, NoPath, NoData)>>
      [] tree[p].kind = "file" -> <<Entry("reg", p, NoPath, tree[p].data)>>
      [] tree[p].kind = "link" -> <<Entry("link", p, tree[p].to, NoData),
                                    Entry("link", p, p, NoData)>>

TarLayer(tree) ==
    LET walk == Walk(DOMAIN tree)
        tarball[n \in 0..Len(walk)] ==
            IF n = 0 THEN <<>> ELSE tarball[n - 1] \o Headers(tree, walk[n])
    IN tarball[Len(walk)]

-----------------------------------------------------------------------------
(* What a stack of layers shows, the lowest first: a path is there if some *)
(* layer has it and no higher one hides it, by a whiteout of the path or   *)
(* of a folder it is in, by an opaque mark in such a folder, or by         *)
(* something else in the place of such a folder.                           *)

Puts(entry) == entry.mark \in {"plain", "like"}

Has(layer, p) == \E i \in DOMAIN layer : layer[i].path = p /\ Puts(layer[i])

Hides(layer, p) ==
    \E i \in DOMAIN layer :
        LET e == layer[i]
        IN \/ e.mark = "white" /\ IsPrefix(e.path, p)
           \/ e.mark = "opaque" /\ IsStrictPrefix(e.path, p)
           \/ Puts(e) /\ e.kind # "dir" /\ IsStrictPrefix(e.path, p)

NodeOf(entry) ==
    CASE entry.kind = "dir" -> Dir
      [] entry.kind = "reg" -> File(entry.data)
      [] OTHER              -> Link(entry.to)

\* What the layer has at a path.
NodeIn(layer, p) ==
    NodeOf(layer[CHOOSE i \in DOMAIN layer :
                    layer[i].path = p /\ Puts(layer[i])])

\* The highest layer that has the path.
Top(stack, p) ==
    CHOOSE k \in DOMAIN stack :
        Has(stack[k], p) /\ \A j \in (k + 1)..Len(stack) : ~Has(stack[j], p)

PathsOf(stack) ==
    UNION {{stack[k][i].path : i \in DOMAIN stack[k]} : k \in DOMAIN stack}

Shown(stack) ==
    {p \in PathsOf(stack) :
        \E k \in DOMAIN stack :
            Has(stack[k], p) /\ \A j \in (k + 1)..Len(stack) : ~Hides(stack[j], p)}

View(stack) == [p \in Shown(stack) |-> NodeIn(stack[Top(stack, p)], p)]

\* What UntarLayer takes for what it is: an entry in a folder, after that folder's
\* own entry, and no path twice; whiteouts that are files, for a name that the
\* layer itself does not have; no opaque marks, no hard links, no names that look
\* like whiteouts; nothing in the place of something of another kind, or of another
\* link, that the layers below show.
OrdinaryEntry(layer, i, below, shown) ==
    LET e == layer[i]
    IN /\ IsDir(shown, Front(e.path))
       /\ \A j \in DOMAIN layer :
             Puts(layer[j]) /\ IsPrefix(layer[j].path, e.path) => j <= i
       /\ \/ /\ e.mark = "white" /\ e.kind = "reg"
             /\ \A j \in DOMAIN layer :
                   Puts(layer[j]) => ~IsPrefix(e.path, layer[j].path)
          \/ /\ e.mark = "plain" /\ e.kind # "hard"
             /\ e.path \in DOMAIN below =>
                   /\ below[e.path].kind = NodeOf(e).kind
                   /\ e.kind = "link" => below[e.path] = NodeOf(e)

Ordinary(stack) ==
    \A k \in DOMAIN stack :
        LET below == View(SubSeq(stack, 1, k - 1))
            shown == View(SubSeq(stack, 1, k))
        IN \A i \in DOMAIN stack[k] : OrdinaryEntry(stack[k], i, below, shown)
=============================================================================
