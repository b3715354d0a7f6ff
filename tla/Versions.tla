------------------------------ MODULE Versions ------------------------------
(***************************************************************************)
(* utils.go CompareVersion and docker.go GenGithubURLfromYaml: which of    *)
(* the releases that distro.management.yml lists for a distribution its    *)
(* settings are taken from.  A version is the sequence of what stands      *)
(* between its dots, each a number or a word.                              *)
(***************************************************************************)
EXTENDS Integers, Sequences

CONSTANTS
    Word,   \* what strconv.Atoi does not read
    Limit   \* numbers are below it

ASSUME VersionsAssumption == Limit \in Nat \ {0} /\ Word \notin Nat

Components == {Word} \cup 0..(Limit - 1)

\* The places at which the loop may return: it does at the first.
Decisive(v, w) ==
    {i \in DOMAIN v \cap DOMAIN w :
        \/ v[i] = Word \/ w[i] = Word
        \/ v[i] # w[i]}

Sign(m, n) == IF m < n THEN -1 ELSE IF m > n THEN 1 ELSE 0

First(places) == CHOOSE i \in places : \A j \in places : i <= j

BugCompareVersion(v, w) ==
    LET i == First(Decisive(v, w))
    IN IF Decisive(v, w) = {} \/ Word \in {v[i], w[i]} THEN 0
       ELSE Sign(v[i], w[i])

\* 0 also stands for the error that comes with a word; of two that agree as far as
\* they go, the shorter is the smaller.
CompareVersion(v, w) ==
    LET i == First(Decisive(v, w))
    IN IF Decisive(v, w) = {} THEN Sign(Len(v), Len(w))
       ELSE IF Word \in {v[i], w[i]} THEN 0
       ELSE Sign(v[i], w[i])

\* The first in the list that is not greater than the version asked for, which
\* stands for itself if there is none.
Release(list, wanted) ==
    LET fit == {i \in DOMAIN list : CompareVersion(list[i], wanted) \in {-1, 0}}
    IN IF fit = {} THEN wanted ELSE list[First(fit)]

-----------------------------------------------------------------------------
(* Versions as numbers: up to three components, a missing one below 0.     *)

Digit(v, i) == IF i \in DOMAIN v THEN v[i] + 1 ELSE 0

Weight(v) ==
    Digit(v, 1) * (Limit + 1) * (Limit + 1) + Digit(v, 2) * (Limit + 1)
        + Digit(v, 3)

Numeric(v) == \A i \in DOMAIN v : v[i] # Word

\* A list of releases, the newest first.
NewestFirst(list) ==
    /\ \A i \in DOMAIN list : Numeric(list[i])
    /\ \A i, j \in DOMAIN list : i < j => Weight(list[i]) > Weight(list[j])

\* The newest release that is not newer than the one asked for; of "latest", the
\* newest of all; if there is no such release, the one asked for.
Closest(list, wanted, r) ==
    LET older == {i \in DOMAIN list :
                    Numeric(wanted) => Weight(list[i]) <= Weight(wanted)}
    IN IF older = {} THEN r = wanted
       ELSE \E i \in older : /\ r = list[i]
                             /\ \A j \in older :
                                   Weight(list[j]) <= Weight(list[i])
=============================================================================
