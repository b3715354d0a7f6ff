------------------------------- MODULE MCHub --------------------------------
(* Hub on small instances: three layers over four names, in two folders.   *)
EXTENDS Hub

CONSTANT w

d == <<1>>
df == <<1, 2>>
dl == <<1, 4>>
g == <<3>>
l == <<4>>

Put(kind, path) == Entry(kind, path, NoPath, NoData)
LinkTo(kind, path, to) == Entry(kind, path, to, NoData)
Mark(mark, path) == [Put("reg", path) EXCEPT !.mark = mark]
LinkMark(kind, path, to) ==
    [LinkTo(kind, path, to) EXCEPT !.mark = "white", !.toMark = "white"]

\* LinksPlain: a link leads to what no layer makes a link of.
ContentSet ==
    { <<>>,
      <<Put("dir", d), Put("reg", df)>>,
      <<Put("reg", g), LinkTo("link", l, g)>>,
      <<Put("dir", d), Mark("white", df)>>,
      <<Put("dir", d), LinkTo("link", dl, g)>>,
      <<Put("dir", d), Mark("white", dl), Put("reg", df)>>,
      <<Mark("white", d)>>,
      <<Mark("white", l), Put("reg", g)>>,
      <<LinkTo("link", l, d)>>,
      <<Put("dir", d), Mark("opaque", d)>>,
      <<Put("reg", d)>>,
      <<Put("dir", l)>>,
      <<Put("reg", l), LinkTo("hard", g, l)>>,
      <<Mark("white", g), LinkMark("hard", l, g)>>,
      <<Mark("like", g), Put("reg", df)>> }

ManifestSet == {<<1>>, <<1, 2>>, <<1, 2, 1>>, <<1, 2, 3>>}

\* The first two are as they should be; in the others words and an order that no
\* release was chosen by come in the way.
ListSet ==
    { <<<<2, 1>>, <<2>>, <<1, 2, 0>>, <<0>>>>,
      <<<<1, 1>>, <<1>>>>,
      <<<<0>>, <<2, 0>>>>,
      <<<<w>>, <<1>>>> }

WantSet == {<<1>>, <<2, 1>>, <<1, 2>>, <<0, 1>>, <<w>>, <<1, w>>}
=============================================================================
